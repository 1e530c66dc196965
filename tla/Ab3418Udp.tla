------------------------------ MODULE Ab3418Udp ------------------------------
(***************************************************************************)
(* ab3418comm asking a controller over UDP (ab3418/ab3418comm.c with -a    *)
(* and -o, and the calls of ab3418_lib.c it makes).  With -D it goes on    *)
(* for ever: a trigger of the set-pattern variable sends a pattern, a      *)
(* pulse of the timer asks for the long status and publishes what comes.   *)
(*                                                                         *)
(* The socket keeps whole datagrams in a queue and nothing empties it: an  *)
(* answer that comes after the program stopped waiting is read in the      *)
(* place of the next one.  A datagram that begins with a flag is taken for *)
(* an answer, whatever its type and length.  Bytes 11 to 40 of a long      *)
(* status hold the active phases and the intervals; the answer to a        *)
(* pattern has eight bytes, and set_pattern reads ten.                     *)
(***************************************************************************)
EXTENDS Naturals, Sequences

CONSTANTS
  Lamps,   \* what a long status may say: its active phases and intervals
  MaxLate  \* so many answers come after the program stopped waiting

RED == 0
YELOW == 1
GREEN == 2

ASSUME UdpAssumption ==
  /\ Lamps \subseteq [active : SUBSET (1 .. 8), interval : [1 .. 2 -> 0 .. 15]]
  /\ MaxLate \in Nat

VARIABLES
  pc,          \* where the program is
  option,      \* -D polls for ever, -E asks once, -P sends one pattern
  no_control,  \* -n: patterns are not passed on
  todo,        \* the calls still to be made before the loop
  job,         \* the call in progress
  retval,      \* what the last call returned
  retval_set,  \* what it was when setjmp was called
  readBuff,    \* the buffer: its first ten bytes and the rest
  db_status,   \* the status variable
  datafile,    \* the file with the bytes of the last answer
  phase_status,\* colours, yellows and reds; the colours go to a file
  urms_stop,   \* the handler has told the ramp meter to stop
  due,         \* requests the controller has not answered
  queue,       \* datagrams the socket holds
  port,        \* the serial port can be opened
  late         \* observer: questions given up before they were answered

program == <<pc, option, no_control, todo, job, retval, retval_set, readBuff,
             db_status, datafile, phase_status, urms_stop>>
vars == <<program, due, queue, port, late>>

Asks == {"status", "pattern"}

\* The age of a request or an answer: how many requests were made after it.
Request == [asks : Asks, age : Nat]

AllRed == [active |-> {}, interval |-> [ring \in 1 .. 2 |-> 0]]
Datagram == [asks : Asks, age : Nat, lamps : Lamps \cup {AllRed}]

\* A buffer, and one in which nothing was received yet.
Part == [asks : Asks \cup {"time", "zero"}, age : Nat,
         lamps : Lamps \cup {AllRed}]
Zero == [asks |-> "zero", age |-> 0, lamps |-> AllRed]
Buffer == [head : Part, tail : Part]

TypeOK ==
  /\ pc \in {"ask", "await", "receive", "publish", "show", "handler", "exited"}
  /\ option \in {"-D", "-E", "-P"} /\ no_control \in BOOLEAN
  /\ todo \in Seq(Asks) /\ job \in Asks \cup {"time"}
  /\ retval \in {"bytes", "0", "-1", "-2", "-3"}
  /\ retval_set \in {"unset", "bytes", "-2", "-3"}
  /\ readBuff \in Buffer /\ db_status \in Buffer /\ datafile \in Buffer
  /\ phase_status \in [colors : [1 .. 8 -> {RED, YELOW, GREEN}],
                      yellows : SUBSET (1 .. 8), reds : SUBSET (1 .. 8)]
  /\ due \in Seq(Request) /\ queue \in Seq(Datagram)
  /\ urms_stop \in BOOLEAN /\ port \in BOOLEAN /\ late \in 0 .. MaxLate
  /\ urms_stop => pc \in {"handler", "exited"}
  /\ retval_set # "unset" => option = "-D" /\ todo = <<>>

-----------------------------------------------------------------------------
(* main: the calls an option makes before the loop, the time only with a   *)
(* time port, and what comes after a call has returned.                    *)

Calls(opt) == IF opt = "-P" THEN <<"status", "pattern", "status">>
              ELSE <<"status">>

Init ==
  /\ option \in {"-D", "-E", "-P"} /\ no_control \in BOOLEAN
  /\ \/ job = "time" /\ todo = Calls(option)
     \/ job = Head(Calls(option)) /\ todo = Tail(Calls(option))
  /\ pc = "ask" /\ retval = "bytes" /\ retval_set = "unset"
  /\ readBuff = [head |-> Zero, tail |-> Zero]
  /\ db_status = readBuff /\ datafile = readBuff
  /\ phase_status = [colors |-> [phase \in 1 .. 8 |-> RED],
                     yellows |-> {}, reds |-> {}]
  /\ due = <<>> /\ queue = <<>>
  /\ urms_stop = FALSE /\ port \in BOOLEAN /\ late = 0

\* After setjmp: the signals are caught.
Looping == retval_set # "unset"

\* The next call before the loop; what a call has left is not looked at.
NextCall ==
  /\ todo # <<>>
  /\ pc' = "ask" /\ job' = Head(todo) /\ todo' = Tail(todo)
  /\ UNCHANGED <<retval_set, datafile>>

\* -E leaves the answer in the file and exits, -P exits, -D calls setjmp.
LastCall(value) ==
  /\ todo = <<>> /\ ~Looping
  /\ pc' = (IF option = "-D" THEN "receive" ELSE "exited")
  /\ retval_set' = (IF option = "-D" THEN value ELSE retval_set)
  /\ datafile' = (IF option = "-E" /\ value = "bytes" THEN readBuff'
                  ELSE datafile)
  /\ UNCHANGED <<job, todo>>

\* In the loop a status is published, an error or a pattern ends the turn.
LoopCall(value) ==
  /\ Looping
  /\ pc' = (IF job = "status" /\ value = "bytes" THEN "publish"
            ELSE "receive")
  /\ UNCHANGED <<job, todo, retval_set, datafile>>

Return(value) ==
  /\ retval' = value
  /\ NextCall \/ LastCall(value) \/ LoopCall(value)
  /\ UNCHANGED <<option, no_control, db_status, phase_status, urms_stop>>

-----------------------------------------------------------------------------
(* get_status_udp, set_pattern and set_time_udp.                           *)

Older(seq) == [i \in DOMAIN seq |-> [seq[i] EXCEPT !.age = @ + 1]]

Ask ==
  /\ pc = "ask" /\ job \in Asks
  /\ pc' = "await"
  /\ due' = Append(Older(due), [asks |-> job, age |-> 0])
  /\ queue' = Older(queue)
  /\ UNCHANGED <<option, no_control, todo, job, retval, retval_set, readBuff,
                 db_status, datafile, phase_status, urms_stop, port, late>>

\* The socket takes no output for a second.
AskStuck ==
  /\ pc = "ask" /\ job \in Asks
  /\ Return("-3")
  /\ UNCHANGED <<readBuff, due, queue, port, late>>

\* Nothing comes for a second, or for ten seconds after a pattern.
TimeOut ==
  /\ pc = "await" /\ queue = <<>>
  /\ IF due = <<>> THEN UNCHANGED late
     ELSE late < MaxLate /\ late' = late + 1
  /\ Return("-2")
  /\ UNCHANGED <<readBuff, due, queue, port>>

\* A faulty variant of the next definition: set_pattern takes the answer for
\* granted and leaves it in the socket.
TakenSentOnly == IF job = "pattern" THEN queue ELSE Tail(queue)

\* Every call takes one datagram, the oldest.
Taken == Tail(queue)

\* A faulty variant of the next definition: ten bytes are read of a status.
ReceivedTen(datagram) ==
  [head |-> datagram,
   tail |-> IF readBuff.tail = Zero /\ datagram.asks = "status" THEN datagram
            ELSE readBuff.tail]

\* What recvfrom leaves in the buffer: ten bytes for set_pattern, and of an
\* answer to a pattern there are only eight.
Received(datagram) ==
  [head |-> datagram,
   tail |-> IF job = "status" /\ datagram.asks = "status" THEN datagram
            ELSE readBuff.tail]

Read ==
  /\ pc = "await" /\ queue # <<>>
  /\ readBuff' = Received(Head(queue))
  /\ queue' = Taken
  /\ Return(IF job = "status" THEN "bytes" ELSE "0")
  /\ UNCHANGED <<due, port, late>>

\* The time is set over a socket of its own; the answer comes or does not.
SetTime ==
  /\ pc = "ask" /\ job = "time"
  /\ \/ readBuff' = [readBuff EXCEPT !.head.asks = "time"] /\ Return("0")
     \/ UNCHANGED readBuff /\ \E value \in {"-2", "-3"} : Return(value)
  /\ UNCHANGED <<due, queue, port, late>>

-----------------------------------------------------------------------------
(* The endless loop.                                                       *)

Turn(asks) ==
  /\ pc = "receive"
  /\ pc' = "ask" /\ job' = asks /\ retval' = "bytes"
  /\ UNCHANGED <<option, no_control, todo, retval_set, readBuff, db_status,
                 datafile, phase_status, urms_stop, due, queue, port, late>>

PatternTrigger == ~no_control /\ Turn("pattern")
Pulse == Turn("status")


\* The status variable takes 40 bytes of the buffer.
Published == readBuff

Publish ==
  /\ pc = "publish"
  /\ pc' = "show"
  /\ datafile' = readBuff /\ db_status' = Published
  /\ UNCHANGED <<option, no_control, todo, job, retval, retval_set, readBuff,
                 phase_status, urms_stop, due, queue, port, late>>

interval_color(interval) ==
  CASE interval \in {0, 2} \cup 4 .. 7 -> GREEN
    [] interval \in {12, 13} -> YELOW
    [] OTHER -> RED

Ring1 == 1 .. 4
Ring2 == 5 .. 8

interval_temp(lamps, phase) == lamps.interval[IF phase \in Ring1 THEN 1 ELSE 2]

\* A faulty variant of the next definition: braces end the branch before the
\* yellows are set.
YellowsOfRing2(lamps, phase) ==
  IF interval_temp(lamps, phase) \in {12, 13}
  THEN lamps.active \cap Ring2 ELSE {}

\* The turn of an active phase adds to the yellows all that is active of ring 1,
\* for a phase of ring 1, and of ring 2, for any phase: there the branch of the
\* other ring has no braces.
Yellows(lamps, phase) ==
  IF interval_temp(lamps, phase) \in {12, 13}
  THEN {p \in lamps.active : p \in Ring2 \/ phase \in Ring1} ELSE {}

\* The phases of the short status are not asked for over UDP.
Greens == {}

process_phase_status(lamps) ==
  LET yellows == UNION {Yellows(lamps, phase) : phase \in lamps.active}
  IN [colors |-> [phase \in 1 .. 8 |->
                    IF phase \in lamps.active
                    THEN interval_color(interval_temp(lamps, phase)) ELSE RED],
      yellows |-> yellows,
      reds |-> (1 .. 8) \ (Greens \cup yellows)]

Show ==
  /\ pc = "show"
  /\ pc' = "receive" /\ retval' = "0"
  /\ phase_status' = process_phase_status(readBuff.tail.lamps)
  /\ UNCHANGED <<option, no_control, todo, job, retval_set, readBuff,
                 db_status, datafile, urms_stop, due, queue, port, late>>

-----------------------------------------------------------------------------
(* The exit handler.                                                       *)

\* A signal jumps to the handler, which writes to the ramp meter's variable.
\* retval is a local that is not volatile: it has its last value or the one
\* it had at setjmp.
Signal ==
  /\ Looping /\ pc \notin {"handler", "exited"}
  /\ pc' = "handler" /\ urms_stop' = TRUE
  /\ retval' \in {retval, retval_set}
  /\ UNCHANGED <<option, no_control, todo, job, retval_set, readBuff,
                 db_status, datafile, phase_status, due, queue, port, late>>

\* A faulty variant of the next definition: another value is waited on for
\* ever.
ReconnectedOpen == retval \in {"0", "-1", "-2"} /\ port

\* check_and_reconnect_serial tries to open the serial port for input for
\* ever after 0, -1 and -2, and does nothing after another value.
Reconnected == retval \in {"0", "-1", "-2"} => port

Exit ==
  /\ pc = "handler" /\ Reconnected
  /\ pc' = "exited"
  /\ UNCHANGED <<option, no_control, todo, job, retval, retval_set, readBuff,
                 db_status, datafile, phase_status, urms_stop, due, queue, port,
                 late>>

-----------------------------------------------------------------------------
(* The controller, the network and the serial port.                        *)

Answer ==
  /\ due # <<>>
  /\ due' = Tail(due)
  /\ \E lamps \in Lamps :
       LET shows == IF Head(due).asks = "status" THEN lamps ELSE AllRed
       IN  queue' = Append(queue, [asks |-> Head(due).asks,
                                   age |-> Head(due).age, lamps |-> shows])
  /\ UNCHANGED <<program, port, late>>

Lose ==
  /\ due # <<>>
  /\ due' = Tail(due)
  /\ UNCHANGED <<program, queue, port, late>>

Plug ==
  /\ port' = ~port
  /\ UNCHANGED <<program, due, queue, late>>

-----------------------------------------------------------------------------
Asking == Ask \/ AskStuck \/ SetTime
Awaiting == TimeOut \/ Read
Receiving == PatternTrigger \/ Pulse

Next ==
  \/ Asking \/ Awaiting \/ Receiving
  \/ Publish \/ Show
  \/ Signal \/ Exit
  \/ Answer \/ Lose \/ Plug

\* The program goes on; an answer comes or is lost.
Fairness ==
  /\ WF_vars(Asking) /\ WF_vars(Awaiting) /\ WF_vars(Pulse)
  /\ WF_vars(Publish) /\ WF_vars(Show) /\ WF_vars(Exit)
  /\ WF_vars(Answer \/ Lose)

Spec == Init /\ [][Next]_vars /\ Fairness

-----------------------------------------------------------------------------
(* What is published is at most as many questions old as questions were    *)
(* given up before they were answered: losses and patterns in between do   *)
(* not put get_status_udp further behind, and nothing brings it back.      *)
LagIsLate == db_status.head.age <= late

(* As long as every answer that came was waited for, the status variable   *)
(* holds one answer, a long status, from its first byte to its last.       *)
WholeStatus ==
  late = 0 /\ db_status.head # Zero =>
    db_status.tail = db_status.head /\ db_status.head.asks = "status"

(* Between two turns the colours written to the file are those of the      *)
(* status variable: an active phase is yellow with its own ring, although  *)
(* process_phase_status runs its second branch for both.  The yellows have *)
(* every phase coloured yellow, and of ring 1 no other; of ring 2 they     *)
(* have others beside a yellow of ring 1, and only then.  The reds have    *)
(* what is no yellow.                                                      *)
ColorsAgree ==
  pc = "receive" /\ db_status.head # Zero =>
    LET shown == db_status.tail.lamps
        yellow == {phase \in 1 .. 8 : phase_status.colors[phase] = YELOW}
        ending(ring) == shown.interval[ring] \in {12, 13}
    IN  /\ yellow = {phase \in shown.active :
                       ending(IF phase <= 4 THEN 1 ELSE 2)}
        /\ yellow \subseteq phase_status.yellows
        /\ phase_status.yellows \subseteq shown.active
        /\ phase_status.yellows \cap (1 .. 4) \subseteq yellow
        /\ phase_status.yellows \subseteq yellow \/ yellow \cap (1 .. 4) # {}
        /\ phase_status.reds = (1 .. 8) \ phase_status.yellows

(* A signal stops the program where the serial port can be opened, although  *)
(* a program that speaks UDP has no use for it.                            *)
Stops == <>[]port => [](pc = "handler" => <>(pc = "exited"))
=============================================================================
