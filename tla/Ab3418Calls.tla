----------------------------- MODULE Ab3418Calls -----------------------------
(***************************************************************************)
(* The calls of ab3418/ab3418_lib.c that ab3418comm does not make, one     *)
(* after another, and tscp_memory_probe, which makes two of them: get_mem  *)
(* for the cells of a range, and set_timing for those to be substituted.   *)
(*                                                                         *)
(* A call asks, waits and takes one frame, whatever it is; but get_request *)
(* leaves its answer in the line, get_spat and get_mem take a frame and do *)
(* not ask (the write of get_mem is commented out), and a call that gives  *)
(* up leaves its answer for the next one.  get_timing and get_spat go on   *)
(* when a signal interrupts them, and recognise it by errno, which a wait  *)
(* that just times out does not set.                                       *)
(*                                                                         *)
(* The reader of the frames takes them byte by byte (module Ab3418Frame).  *)
(* Here a damaged frame is what the reader may make of one: it stops       *)
(* inside and leaves the rest on the line, runs on into the next frame, or *)
(* waits without a limit for a byte that should follow.                    *)
(***************************************************************************)
EXTENDS Integers, Sequences

CONSTANTS
  Ranges,    \* the ranges of cells that are probed
  Values,    \* what a byte of a frame may be
  MAX_BYTES, \* so many cells are read at a time (16)
  MAX_SHORT, \* the greatest short integer (32767)
  MaxOver    \* at most so many frames are left over

Char == -128 .. 127
UnsignedChar == 0 .. 255
UnsignedShort == 0 .. 65535

ASSUME CallsAssumption ==
  /\ Ranges \subseteq
       {range \in UnsignedShort \X UnsignedShort : range[1] <= range[2]}
  /\ Values \subseteq UnsignedChar
  /\ MAX_BYTES \in Nat \ {0} /\ MAX_SHORT \in Nat /\ MaxOver \in Nat

-----------------------------------------------------------------------------
(* Addresses.                                                              *)

Swap(address) == (address % 256) * 256 + address \div 256

calc_cell_addr(phase_1_cell_addr, phase) ==
  Swap(((phase - 1) * 16 + phase_1_cell_addr) % 65536)

\* The address in a request to set a cell.
SetAddress(cell_addr, phase) ==
  IF phase > 0 THEN calc_cell_addr(cell_addr, phase) ELSE Swap(cell_addr)

-----------------------------------------------------------------------------
(* What the calls do: ask, take a frame, and go on when interrupted.       *)

Call(name, asks, takes, goes_on) ==
  [name |-> name, asks |-> asks, takes |-> takes, goes_on |-> goes_on]

set_timing == Call("set_timing", TRUE, TRUE, FALSE)
get_request == Call("get_request", TRUE, FALSE, FALSE)
get_timing(wait_for_data) == Call("get_timing", TRUE, wait_for_data, TRUE)
get_timing_udp(wait_for_data) ==
  Call("get_timing_udp", TRUE, wait_for_data, TRUE)
get_spat(wait_for_data) == Call("get_spat", FALSE, wait_for_data, TRUE)
get_overlap(wait_for_data) == Call("get_overlap", TRUE, wait_for_data, FALSE)
set_overlap == Call("set_overlap", TRUE, TRUE, FALSE)
get_special_flags(wait_for_data) ==
  Call("get_special_flags", TRUE, wait_for_data, FALSE)
set_special_flags == Call("set_special_flags", TRUE, TRUE, FALSE)
get_mem(wait_for_data) == Call("get_mem", FALSE, wait_for_data, FALSE)
get_detector(wait_for_data) == Call("get_detector", TRUE, wait_for_data, FALSE)
set_detector == Call("set_detector", TRUE, TRUE, FALSE)

SerialCalls ==
  {set_timing, get_request, set_overlap, set_special_flags, set_detector} \cup
  UNION {{get_timing(wait_for_data), get_spat(wait_for_data),
          get_overlap(wait_for_data), get_special_flags(wait_for_data),
          get_mem(wait_for_data), get_detector(wait_for_data)} :
           wait_for_data \in BOOLEAN}

SocketCalls == {get_timing_udp(TRUE), get_timing_udp(FALSE)}

-----------------------------------------------------------------------------
VARIABLES
  pc,       \* where the call in progress is, or "idle"
  call,     \* the call in progress, or the last one
  retval,   \* what the last call returned
  taken,    \* the frame it was answered with
  eintr,    \* errno is EINTR
  line,     \* a serial port or a socket
  due,      \* requests the controller has not answered
  input,    \* frames to be read, and rests of frames
  over,     \* observer: how many are left over, on their way or in the input
  probe     \* tscp_memory_probe

frames == <<due, input, over>>
calls == <<pc, call, retval, taken, eintr>>
vars == <<calls, line, frames, probe>>

\* A request, and a frame with how many requests were made after the one it
\* answers.
To == {c.name : c \in SerialCalls \cup SocketCalls}
Request == [to : To, age : Nat]
Frame == [to : To \cup {"nobody"}, age : Nat, whole : BOOLEAN]
None == [to |-> "nothing", age |-> 0, whole |-> FALSE]

Probe ==
  [at : {"chunk", "bytes", "exited", "no"},
   range : Ranges, lomem : UnsignedShort, num_left : Int, num_bytes : Nat,
   j : Nat, do_match : BOOLEAN, do_subst : BOOLEAN, match_val : Char,
   filled : BOOLEAN, seen : SUBSET UnsignedShort,
   sets : SUBSET (UnsignedShort \X UnsignedShort)]

TypeOK ==
  /\ pc \in {"idle", "send", "recvfrom", "await", "read", "byte"}
  /\ call \in SerialCalls \cup SocketCalls
  /\ retval \in {"0", "-1", "-2", "-3"}
  /\ taken \in Frame \cup {None}
  /\ eintr \in BOOLEAN /\ line \in {"serial", "socket"}
  /\ due \in Seq(Request) /\ input \in Seq(Frame) /\ over \in 0 .. MaxOver
  /\ probe \in Probe
  /\ pc = "recvfrom" => line = "socket"
  /\ pc = "read" => call.goes_on /\ eintr

-----------------------------------------------------------------------------
(* A call.                                                                 *)

\* A frame is left over.
LeftOver == over < MaxOver /\ over' = over + 1

Begin(c) ==
  /\ pc = "idle"
  /\ pc' = (IF c.name # "get_spat" THEN "send"
            ELSE IF c.takes THEN "await" ELSE "idle")
  /\ call' = c /\ retval' = "0" /\ taken' = None
  /\ UNCHANGED <<eintr, line, frames>>

\* get_timing_udp with a socket that was not opened.
BeginClosed ==
  /\ pc = "idle" /\ line = "socket"
  /\ call' \in SocketCalls /\ retval' = "-1" /\ taken' = None
  /\ UNCHANGED <<pc, eintr, line, frames, probe>>

Return(value) ==
  /\ pc' = "idle" /\ retval' = value
  /\ UNCHANGED <<call, line, probe>>

Older(seq) == [k \in DOMAIN seq |-> [seq[k] EXCEPT !.age = @ + 1]]

\* get_timing_udp waits in recvfrom, whether it is to wait or not.
Sent ==
  \/ line = "socket" /\ pc' = "recvfrom" /\ UNCHANGED <<retval, over>>
  \/ /\ line = "serial" /\ call.takes
     /\ pc' = "await" /\ UNCHANGED <<retval, over>>
  \/ /\ line = "serial" /\ ~call.takes
     /\ pc' = "idle" /\ retval' = "0"
     /\ IF call.asks THEN LeftOver ELSE UNCHANGED over

Send ==
  /\ pc = "send"
  /\ IF call.asks
     THEN /\ due' = Append(Older(due), [to |-> call.name, age |-> 0])
          /\ input' = Older(input)
     ELSE UNCHANGED <<due, input>>
  /\ Sent
  /\ UNCHANGED <<call, taken, eintr, line, probe>>

\* The line takes no output for a second, or a signal comes meanwhile.
SendStuck ==
  /\ pc = "send"
  /\ Return("-3")
  /\ UNCHANGED eintr \/ eintr' = TRUE
  /\ UNCHANGED <<taken, frames>>

\* What recvfrom of get_timing_udp takes is not looked at.
Receive ==
  /\ pc = "recvfrom" /\ input # <<>>
  /\ input' = Tail(input)
  /\ pc' = (IF call.takes THEN "await" ELSE "idle")
  /\ UNCHANGED <<call, retval, taken, eintr, line, due, over, probe>>

\* What a call leaves over when it gives up.
GiveUp ==
  /\ Return("-2")
  /\ IF call.asks /\ line = "serial" /\ due # <<>> THEN LeftOver
     ELSE UNCHANGED over
  /\ UNCHANGED <<taken, due, input>>

\* A faulty variant of the next definition: the calls that go on do so after
\* every wait.
GoesOnAlways == call.goes_on

\* errno is what a call before left.
GoesOn == call.goes_on /\ eintr

\* Nothing comes for a second (five for get_mem).
TimeOut ==
  /\ pc = "await" /\ input = <<>>
  /\ IF GoesOn
     THEN /\ pc' = "read"
          /\ UNCHANGED <<call, retval, taken, line, frames, probe>>
     ELSE GiveUp
  /\ UNCHANGED eintr

\* A signal interrupts the wait.
Interrupt ==
  /\ pc = "await" /\ input = <<>>
  /\ eintr' = TRUE
  /\ IF call.goes_on
     THEN /\ pc' = "read"
          /\ UNCHANGED <<call, retval, taken, line, frames, probe>>
     ELSE GiveUp

\* A faulty variant of the next definition: a damaged frame stays, counted
\* as read.
UnreadIfDamaged(n) ==
  IF n > 0 /\ ~input[n].whole THEN SubSeq(input, n, Len(input))
  ELSE SubSeq(input, n + 1, Len(input))

\* What is left when n frames were read.
Unread(n) == SubSeq(input, n + 1, Len(input))

\* A call that asked waits for one frame: what it leaves of it is left over,
\* and what it takes besides is so no more.
Gone(n) ==
  /\ over' = over + (IF call.asks THEN 1 ELSE 0) - n
  /\ over' \in 0 .. MaxOver

\* Frame n is read whole: the first, or one after bytes that were taken for
\* no frame.  That is not so behind an escape character.
TakesWhole(n) ==
  /\ input[n].whole /\ (pc = "byte" => eintr)
  /\ input' = Unread(n) /\ Gone(n)
  /\ taken' = input[n] /\ retval' = "0"

\* The reader stops in frame n, which is damaged or begins inside what was
\* read before, or behind it.
TakesDamaged(n) ==
  /\ \/ /\ n > 1 \/ ~input[n].whole
        /\ input' = [Unread(n - 1) EXCEPT ![1].whole = FALSE] /\ Gone(n - 1)
     \/ /\ ~input[n].whole
        /\ input' = Unread(n) /\ Gone(n)
  /\ retval' = "-1" /\ UNCHANGED taken

\* Frames of any type are taken.  The buffer is written before the check
\* sequence is looked at, but not when the reader stopped before.
Read ==
  /\ pc \in {"await", "read", "byte"} /\ line = "serial"
  /\ \E n \in DOMAIN input :
       /\ \A k \in 1 .. n - 1 : ~input[k].whole
       /\ pc = "byte" => n > 1
       /\ TakesWhole(n) \/ TakesDamaged(n)
  /\ pc' = "idle"
  /\ \/ probe' = (IF call.name = "get_mem" THEN [probe EXCEPT !.filled = TRUE]
                  ELSE probe)
     \/ retval' = "-1" /\ UNCHANGED probe
  /\ UNCHANGED <<call, eintr, line, due>>

\* The bytes of a damaged frame end: behind an escape character the next one
\* is read without a limit, and so it is anywhere when errno is EINTR.
Block ==
  /\ pc \in {"await", "read"} /\ line = "serial"
  /\ input # <<>> /\ ~Head(input).whole
  /\ pc' = "byte"
  /\ UNCHANGED <<call, retval, taken, eintr, line, frames, probe>>

\* ser_driver_read_udp looks into a buffer nobody has written: it may find a
\* flag there and take nothing, or takes the first byte of one datagram after
\* the other until none comes.
ReadSocket ==
  /\ pc \in {"await", "read"} /\ input # <<>> /\ line = "socket"
  /\ \/ Return("0") /\ UNCHANGED input
     \/ Return("-1") /\ input' = <<>>
  /\ UNCHANGED <<taken, eintr, due, over>>

-----------------------------------------------------------------------------
(* The controller and the line.  A frame that is not whole has bytes       *)
(* changed, lost or added, or they come with more than a second between.   *)

Answer ==
  /\ due # <<>>
  /\ due' = Tail(due)
  /\ \E whole \in BOOLEAN :
       input' = Append(input, [to |-> Head(due).to, age |-> Head(due).age,
                               whole |-> whole])
  /\ UNCHANGED <<calls, line, over, probe>>

Lose ==
  /\ due # <<>>
  /\ due' = Tail(due)
  /\ UNCHANGED <<calls, line, input, over, probe>>

\* A frame nobody asked for: SPAT messages, and another program's answers.
Unasked ==
  /\ LeftOver
  /\ input' = Append(input, [to |-> "nobody", age |-> 0, whole |-> TRUE])
  /\ UNCHANGED <<calls, line, due, probe>>

-----------------------------------------------------------------------------
(* tscp_memory_probe.                                                      *)

Short(n) == IF n > MAX_SHORT THEN n - 2 * (MAX_SHORT + 1) ELSE n
SignedChar(n) == IF n > 127 THEN n - 256 ELSE n

Start(at, range, match, subst, value) ==
  [at |-> at, range |-> range, lomem |-> range[1],
   num_left |-> Short(range[2] - range[1] + 1), num_bytes |-> 0, j |-> 0,
   do_match |-> match, do_subst |-> subst, match_val |-> SignedChar(value),
   filled |-> FALSE, seen |-> {}, sets |-> {}]

\* A faulty variant of the next definition: sixteen cells also at the end.
ChunkWhole(num_left) == MAX_BYTES

Chunk(num_left) ==
  IF num_left \div MAX_BYTES > 0 THEN MAX_BYTES ELSE num_left % MAX_BYTES

ReadChunk ==
  /\ probe.at = "chunk" /\ probe.num_left > 0
  /\ Begin(get_mem(TRUE))
  /\ probe' = [probe EXCEPT !.at = "bytes", !.j = 0, !.filled = FALSE,
                            !.num_bytes = Chunk(probe.num_left)]

\* The address of a cell, without the bits of its phase, and sixteen more.
PhaseOne(i) == ((i \div 256) * 256 + (i % 16)) + 16
PhaseOf(i) == (i \div 16) % 16

\* A faulty variant of the next definition: with the bits of the phase.
SubstitutedTwice(i) ==
  IF probe.do_match THEN SetAddress(i + 16, PhaseOf(i))
  ELSE SetAddress(i, 0)

\* The address that is asked to be set for cell i.
Substituted(i) ==
  IF probe.do_match THEN SetAddress(PhaseOne(i), PhaseOf(i))
  ELSE SetAddress(i, 0)

\* The buffer is zero when no frame came, whole or damaged.
Byte ==
  /\ probe.at = "bytes" /\ probe.j < probe.num_bytes
  /\ LET i == (probe.lomem + probe.j) % 65536
         next == [probe EXCEPT !.j = @ + 1, !.seen = @ \cup {i}]
     IN  \E byte \in IF probe.filled THEN Values ELSE {0} :
           IF probe.do_subst /\ (probe.do_match => byte = probe.match_val)
           THEN /\ Begin(set_timing)
                /\ probe' =
                     [next EXCEPT !.sets = @ \cup {<<i, Substituted(i)>>}]
           ELSE /\ pc = "idle" /\ probe' = next
                /\ UNCHANGED <<calls, line, frames>>

EndChunk ==
  /\ pc = "idle" /\ probe.at = "bytes" /\ probe.j = probe.num_bytes
  /\ probe' = [probe EXCEPT !.at = "chunk",
                            !.num_left = @ - probe.num_bytes,
                            !.lomem = (@ + probe.num_bytes) % 65536]
  /\ UNCHANGED <<calls, line, frames>>

ExitProbe ==
  /\ pc = "idle" /\ probe.at = "chunk" /\ probe.num_left <= 0
  /\ probe' = [probe EXCEPT !.at = "exited"]
  /\ UNCHANGED <<calls, line, frames>>

\* Another program makes any calls.
OtherCall ==
  /\ probe.at = "no"
  /\ \E c \in IF line = "serial" THEN SerialCalls ELSE SocketCalls :
       Begin(c) /\ (over = MaxOver => c.takes \/ ~c.asks)
  /\ UNCHANGED probe

-----------------------------------------------------------------------------
Init ==
  /\ pc = "idle" /\ call = set_timing /\ retval = "0" /\ taken = None
  /\ eintr = FALSE /\ due = <<>> /\ input = <<>> /\ over = 0
  /\ \E range \in Ranges, match \in BOOLEAN, subst \in BOOLEAN,
        value \in Values :
       \/ /\ line = "serial"
          /\ probe = Start("chunk", range, match, subst, value)
       \/ /\ line \in {"serial", "socket"}
          /\ probe = Start("no", CHOOSE r \in Ranges : TRUE, FALSE, FALSE, 0)

Probing == ReadChunk \/ Byte \/ EndChunk \/ ExitProbe
Calling == Send \/ SendStuck \/ TimeOut \/ Read \/ Block \/ ReadSocket

Next ==
  \/ Probing \/ OtherCall \/ BeginClosed
  \/ Calling \/ Receive \/ Interrupt
  \/ Answer \/ Lose \/ Unasked

\* A program goes on, and so does a call; an answer comes or is lost.
Fairness ==
  WF_vars(Probing) /\ WF_vars(Calling) /\ WF_vars(Answer \/ Lose)

Spec == Init /\ [][Next]_vars /\ Fairness

-----------------------------------------------------------------------------
(* The frame a call is answered with is at most as many questions old as   *)
(* frames or rests of frames were left over: by calls that gave up or      *)
(* stopped inside a damaged frame, by get_request, or because nobody had   *)
(* asked.  A call that takes a frame without asking, or runs from one into *)
(* the next, brings the next ones closer to their answers again.           *)
AnswerLag == call.asks => taken.age <= over

(* A substitution is asked for the cell whose byte matched, if a phase is  *)
(* in its address (bits 4 to 7) or -m was not given.  The exception is     *)
(* what the code does against its usage text (tscp_memory_probe.c:13): of  *)
(* a cell without a phase the value is shown, and the cell sixteen further *)
(* is set.                                                                 *)
SubstitutedCell ==
  \A set \in probe.sets :
    ~probe.do_match \/ PhaseOf(set[1]) # 0 => Swap(set[2]) = set[1]

\* The call waits for a byte behind an escape character, and the line is
\* dead.
AtEscape == pc = "byte" /\ Len(input) = 1

(* A call returns within seconds, unless a signal was caught while one     *)
(* waited (errno keeps EINTR: get_timing and get_spat then wait for ever), *)
(* an answer broke off after an escape character and nothing follows, or   *)
(* get_timing_udp waits for an answer that does not come.                  *)
CallEnds ==
  pc # "idle" ~> pc = "idle" \/ eintr \/ pc = "recvfrom" \/ AtEscape

(* The probe ends, and has looked at every cell of its range and no other, *)
(* or at none of a range whose length is no short integer; a signal or an  *)
(* escape character at the end of what is left on the line may stop it.    *)
ProbeEnds ==
  probe.at = "chunk" ~>
    \/ /\ probe.at = "exited"
       /\ \/ probe.seen = probe.range[1] .. probe.range[2]
          \/ probe.seen = {} /\ probe.range[2] - probe.range[1] >= MAX_SHORT
    \/ eintr \/ AtEscape
=============================================================================
