----------------------------- MODULE Ab3418Frame -----------------------------
(***************************************************************************)
(* The frames of AB3418 on a serial line, byte by byte: the check sequence *)
(* (ab3418/fcs.h), the escaping of a request (fcs_hdlc of ab3418_lib.c),   *)
(* which is done in place and sent with the length the request had before, *)
(* and the reader of answers (ser_driver_read), which takes the first byte *)
(* for a flag whatever it is and waits a second for every byte but the one *)
(* after an escape.                                                        *)
(***************************************************************************)
EXTENDS Naturals, Sequences, SequencesExt

CONSTANTS
  Requests,   \* the requests, without flags and check sequence
  Responses,  \* the messages the controller answers with
  MaxIndex,   \* a frame ends before this byte of the buffer (95)
  MaxFrames,  \* so many answers are sent,
  MaxFaults   \* and so many faults happen on the line

Byte == 0 .. 255
FLAG == 126
ESCAPE == 125
ESCAPED_FLAG == 94
ESCAPED_ESCAPE == 93

ASSUME FrameAssumption ==
  /\ Requests \subseteq Seq(Byte) /\ Responses \subseteq Seq(Byte)
  /\ MaxIndex \in Nat /\ MaxFrames \in Nat /\ MaxFaults \in Nat

-----------------------------------------------------------------------------
(* The check sequence.                                                     *)

PPPINITFCS == 65535
PPPGOODFCS == 61624

\* The exclusive or of two bytes, bit by bit, and of two words.
Bit(n, power) == (n \div power) % 2

ByteXor == [v \in Nat |-> [w \in Nat |->
  LET bit(power) == power * ((Bit(v, power) + Bit(w, power)) % 2)
  IN  bit(1) + bit(2) + bit(4) + bit(8)
      + bit(16) + bit(32) + bit(64) + bit(128)]]

Xor == [v \in Nat |-> [w \in Nat |->
  256 * ByteXor[v \div 256][w \div 256] + ByteXor[v % 256][w % 256]]]

\* One bit of the division by x^16 + x^12 + x^5 + 1, lowest bit first.
Divide == [remainder \in Nat |->
             IF remainder % 2 = 1 THEN Xor[remainder \div 2][33800]
             ELSE remainder \div 2]

fcstab == [byte \in Byte |->
  Divide[Divide[Divide[Divide[Divide[Divide[Divide[Divide[byte]]]]]]]]]

NextFcs == [fcs \in Nat |-> [byte \in Byte |->
  Xor[fcs \div 256][fcstab[ByteXor[fcs % 256][byte]]]]]

pppfcs(fcs, bytes) ==
  LET sum[n \in 0 .. Len(bytes)] ==
        IF n = 0 THEN fcs ELSE NextFcs[sum[n - 1]][bytes[n]]
  IN  sum[Len(bytes)]

get_modframe_string(frame) ==
  LET complement == PPPINITFCS - pppfcs(PPPINITFCS, frame)
  IN  frame \o <<complement % 256, complement \div 256>>

\* What the controller answers begins with an address, and the buffer holds
\* it with its check sequence.
ASSUME ResponsesAssumption ==
  \A message \in Responses :
    /\ message # <<>> /\ Head(message) \notin {FLAG, ESCAPE}
    /\ Len(get_modframe_string(message)) < MaxIndex

-----------------------------------------------------------------------------
(* A frame as it should be, and as fcs_hdlc makes it.                      *)

HdlcByte(byte) ==
  CASE byte = FLAG -> <<ESCAPE, ESCAPED_FLAG>>
    [] byte = ESCAPE -> <<ESCAPE, ESCAPED_ESCAPE>>
    [] OTHER -> <<byte>>

HdlcFrame(message) ==
  LET whole == get_modframe_string(message)
      escaped == [i \in DOMAIN whole |-> HdlcByte(whole[i])]
  IN  <<FLAG>> \o FlattenSeq(escaped) \o <<FLAG>>

\* The answers of the controller.
Answers == {HdlcFrame(message) : message \in Responses}

\* A faulty variant of the next definition: without making room.
FlagOverwrites(data, i) ==
  SubSeq(data, 1, i - 1) \o HdlcByte(FLAG) \o SubSeq(data, i + 2, Len(data))

\* Makes room for an escaped flag at i.
FlagEscaped(data, i) ==
  SubSeq(data, 1, i - 1) \o HdlcByte(FLAG) \o SubSeq(data, i + 1, Len(data))

\* The loop for an escape at i, the byte j moved up: the length and i count
\* up with every byte moved, so it moves half of them and overwrites the
\* others.  What is beyond the request in memory is not sent (0 here).
EscapeLoop(at) ==
  LET moved[k \in 0 .. Len(at.data)] ==
        IF k = 0 THEN [data |-> at.data, i |-> at.i, j |-> Len(at.data)]
        ELSE LET l == moved[k - 1]
                 room == [Append(l.data, 0) EXCEPT ![l.j + 1] = l.data[l.j]]
             IN  IF l.j <= l.i THEN l
                 ELSE [data |-> [room EXCEPT ![l.i] = ESCAPE,
                                             ![l.i + 1] = ESCAPED_ESCAPE],
                       i |-> l.i + 1, j |-> l.j - 1]
      end == moved[Len(at.data)]
  IN  [data |-> end.data, i |-> end.i]

\* One turn of the outer loop, for the byte at i.
EscapeTurn(at) ==
  CASE at.i > Len(at.data) -> at
    [] at.i <= Len(at.data) /\ at.data[at.i] = FLAG ->
         [data |-> FlagEscaped(at.data, at.i), i |-> at.i + 2]
    [] at.i <= Len(at.data) /\ at.data[at.i] = ESCAPE ->
         LET end == EscapeLoop(at) IN [end EXCEPT !.i = @ + 1]
    [] OTHER -> [at EXCEPT !.i = @ + 1]

\* The loop ends after as many turns as the request has bytes.
EscapedData(plain) ==
  LET turned[k \in 0 .. Len(plain)] ==
        IF k = 0 THEN [data |-> plain, i |-> 1] ELSE EscapeTurn(turned[k - 1])
  IN  turned[Len(plain)].data

\* The request with flags; the caller writes as many bytes of it as the
\* structure has, that is without the bytes that escaping has added.
fcs_hdlc(message) ==
  LET plain == get_modframe_string(message)
      data == EscapedData(plain)
  IN  SubSeq(<<FLAG>> \o data \o <<FLAG>>, 1, Len(plain) + 2)

-----------------------------------------------------------------------------
VARIABLES
  pc,      \* what the program does: which byte it reads next
  request, \* the request just written, without flags and check sequence,
  sent,    \* and what was written
  wire,    \* bytes of the controller that were not read
  msgbuf,  \* the bytes after the start flag, unescaped
  got,     \* the message of the last answer that was accepted
  frames,  \* observer: answers of the controller
  faults,  \* observer: faults of the line
  failed   \* observer: reads that were not accepted

framevars == <<pc, request, sent, wire, msgbuf, got, frames, faults, failed>>
observers == <<frames, faults, failed>>

FrameInit ==
  /\ pc = "send" /\ request = <<>> /\ sent = <<>> /\ wire = <<>>
  /\ msgbuf = <<>> /\ got = <<>>
  /\ frames = 0 /\ faults = 0 /\ failed = 0

-----------------------------------------------------------------------------
Write(message) ==
  /\ pc = "send"
  /\ pc' = "sent" /\ request' = message /\ sent' = fcs_hdlc(message)
  /\ UNCHANGED <<wire, msgbuf, got, observers>>

\* The controller answers, or does not.
Arrives(bytes) ==
  /\ pc = "sent"
  /\ pc' = "first" /\ request' = <<>> /\ sent' = <<>>
  /\ wire' = wire \o bytes
  /\ UNCHANGED <<msgbuf, got, failed>>

Answer ==
  /\ frames < MaxFrames /\ frames' = frames + 1
  /\ \E answer \in Answers : Arrives(answer)
  /\ UNCHANGED faults

NoAnswer == Arrives(<<>>) /\ UNCHANGED <<frames, faults>>

\* A byte is changed, lost or added, or the line goes dead.
Hit(bytes) ==
  \E i \in DOMAIN bytes :
    \/ \E byte \in {FLAG, ESCAPE, 0} : Arrives([bytes EXCEPT ![i] = byte])
    \/ \E byte \in {FLAG, ESCAPE, 0} : Arrives(InsertAt(bytes, i, byte))
    \/ Arrives(RemoveAt(bytes, i))
    \/ Arrives(SubSeq(bytes, 1, i - 1))

AnswerHit ==
  /\ frames < MaxFrames /\ frames' = frames + 1
  /\ faults < MaxFaults /\ faults' = faults + 1
  /\ \E answer \in Answers : Hit(answer)

-----------------------------------------------------------------------------
(* ser_driver_read.                                                        *)

Return(true) ==
  /\ pc' = "send"
  /\ failed' = IF true THEN failed ELSE failed + 1

Goes(state, buffer) ==
  /\ pc' = state /\ msgbuf' = buffer
  /\ UNCHANGED <<got, failed>>

\* A faulty variant of the next definition: without the check sequence.
AcceptAll ==
  got' = SubSeq(msgbuf, 1, Len(msgbuf) - 2) /\ Return(TRUE)

\* The bytes accepted: the check sequence is right.
Accept ==
  IF pppfcs(PPPINITFCS, msgbuf) = PPPGOODFCS
  THEN got' = SubSeq(msgbuf, 1, Len(msgbuf) - 2) /\ Return(TRUE)
  ELSE UNCHANGED got /\ Return(FALSE)

First(byte) == pc = "first" /\ Goes("second", <<>>)

\* A second flag is the start flag, and the first was the end of the answer
\* before.
Second(byte) ==
  /\ pc = "second"
  /\ Goes("body", IF byte = FLAG THEN <<>> ELSE <<byte>>)

Body(byte) ==
  /\ pc = "body"
  /\ CASE Len(msgbuf) + 1 > MaxIndex ->
            msgbuf' = <<>> /\ UNCHANGED got /\ Return(FALSE)
       [] byte = FLAG /\ Len(msgbuf) + 1 <= MaxIndex ->
            msgbuf' = <<>> /\ Accept
       [] byte = ESCAPE /\ Len(msgbuf) + 1 <= MaxIndex ->
            Goes("escape", msgbuf)
       [] OTHER -> Goes("body", Append(msgbuf, byte))

\* A faulty variant of the next definition: of an escaped escape the second
\* byte is kept.
UnescapeSecond(byte) ==
  /\ pc = "escape"
  /\ CASE byte = ESCAPED_FLAG -> Goes("body", Append(msgbuf, FLAG))
       [] byte = ESCAPED_ESCAPE -> Goes("body", Append(msgbuf, byte))
       [] OTHER -> msgbuf' = <<>> /\ UNCHANGED got /\ Return(FALSE)

Unescape(byte) ==
  /\ pc = "escape"
  /\ CASE byte = ESCAPED_FLAG -> Goes("body", Append(msgbuf, FLAG))
       [] byte = ESCAPED_ESCAPE -> Goes("body", Append(msgbuf, ESCAPE))
       [] OTHER -> msgbuf' = <<>> /\ UNCHANGED got /\ Return(FALSE)

Read ==
  /\ wire # <<>>
  /\ wire' = Tail(wire)
  /\ LET byte == Head(wire)
     IN  First(byte) \/ Second(byte) \/ Body(byte) \/ Unescape(byte)
  /\ UNCHANGED <<request, sent, frames, faults>>

\* A faulty variant of the next definition: no limit for the bytes of the
\* body.
AwaitedStart == pc \in {"first", "second"}

\* The bytes that are waited for a second: not the one after an escape.
Awaited == pc \in {"first", "second", "body"}

\* A second goes by.  With bytes still to come that is a fault.
TimeOut ==
  /\ Awaited
  /\ IF wire = <<>> THEN UNCHANGED faults
     ELSE faults < MaxFaults /\ faults' = faults + 1
  /\ msgbuf' = <<>>
  /\ Return(wire = <<>> /\ pc = "first")
  /\ UNCHANGED <<request, sent, wire, got, frames>>

-----------------------------------------------------------------------------
Writing == \E message \in Requests : Write(message)
Answering == Answer \/ NoAnswer \/ AnswerHit

FrameNext == Writing \/ Answering \/ Read \/ TimeOut

Fairness == WF_framevars(Answering) /\ WF_framevars(Read) /\ WF_framevars(TimeOut)

FrameSpec == FrameInit /\ [][FrameNext]_framevars /\ Fairness

-----------------------------------------------------------------------------
(* The check sequence does its work: a message that ser_driver_read        *)
(* accepts is one the controller has sent, whatever byte was changed, lost *)
(* or added, and although the first byte is not compared with a flag.      *)
AcceptedWasSent == got \in Responses \cup {<<>>}

(* A fault of the line costs three reads at most: ser_driver_read finds    *)
(* the start of the answers again by itself, even when it stopped in the   *)
(* middle of one or took a byte of the next for the start flag.            *)
ThreePerFault == failed <= 3 * faults

(* A request without an escape character among its bytes and those of its  *)
(* check sequence is framed right up to the length that is written: of an  *)
(* escaped flag it loses as many bytes at its end.                         *)
FlagsAreEscaped ==
  pc = "sent" /\ ESCAPE \notin Range(get_modframe_string(request)) =>
    IsPrefix(sent, HdlcFrame(request))

(* A read ends, with an answer or without, unless the line went dead right *)
(* after an escape: that byte alone is read without a time limit.          *)
ReadEnds ==
  pc = "first" ~> pc = "send" \/ (pc = "escape" /\ wire = <<>>)

(* ab3418_lib.c:954-955: "Make into HDLC frame by checking for any 0x7e in *)
(* message and replacing with the combo 0x7d, 0x5e. Replace any 0x7d with  *)
(* 0x7d, 0x5d."  So every request is framed right, an escape character     *)
(* among its bytes or not, as far as it is written: that the caller writes *)
(* as many bytes as there were before escaping is not counted here.        *)
RequestIsFramed ==
  pc = "sent" => IsPrefix(sent, HdlcFrame(request))
=============================================================================
