-------------------------------- MODULE Ntcip --------------------------------
(***************************************************************************)
(* rdntcip (ntcip/asc_get.c, parse_asc.c, format_asc.c): it asks a 2070    *)
(* controller for the state of its lamps over a serial line and writes     *)
(* each good answer to the database variable phases reads.                 *)
(*                                                                         *)
(* The line is modelled byte by byte, because the reader has no other way  *)
(* to find where an answer begins and ends: every read waits for a byte,   *)
(* and nothing is asked while it waits.  The check sequence is one token   *)
(* that stands for the bytes it was computed from; the fields of the SNMP  *)
(* header that the reader skips are left out, and a group of lamps is      *)
(* three bytes: its object, the type of the value, the value.  That a      *)
(* check sequence never fits other bytes than its own is assumed.          *)
(***************************************************************************)
EXTENDS Integers, Sequences, SequencesExt

CONSTANTS
  Groups,      \* the objects asked for, in the order of get_list
  Lamps,       \* Lamps[v][g]: the byte of group g after v changes
  MaxAsked,    \* requests the controller has not answered
  MaxFaults,   \* bytes damaged or lost
  Junk,        \* what a damaged byte may be
  HitSets      \* what may go wrong: in each behaviour one of these sets

FLAG == 126
ESCAPE == 125
ESCAPE_DELIMITER == 94
ESCAPE_ESCAPE == 93
PMPP_CTRL_VAL == 19
PMPP_STMF_VAL == 193
SNMP_MULTI_BYTE_COUNT == 128
SNMP_SEQUENCE == 48
SNMP_INTEGER == 2
SNMP_NULL == 5
DEST_ADDR == 5          \* PMPP_ADDR_VAL(1)
FCS == 256              \* no byte: the token of the check sequence

Byte == 0..255
MaxChanges == Len(Lamps) - 1
Version == 0..MaxChanges
Lamp(v) == Lamps[v + 1]

\* How a length may be written: in a byte, or in one or two after a byte that
\* says how many, but never in fewer than it needs.
Wide ==
  {w \in 0..2 :
     3 * Len(Groups) < <<SNMP_MULTI_BYTE_COUNT, 256, 256 * 256>>[w + 1]}

ASSUME NtcipAssumption ==
  /\ Groups \in Seq(Byte) /\ Groups # <<>> /\ IsInjective(Groups)
  /\ Lamps \in Seq([1..Len(Groups) -> Byte]) /\ Lamps # <<>>
  /\ MaxAsked \in Nat /\ MaxFaults \in Nat /\ Junk \subseteq Byte
  /\ HitSets \subseteq SUBSET {"tail", "request", "lost", "start", "header",
                              "count", "payload", "end", "escape"}

VARIABLES
  pc,         \* which byte the reader waits for, or "select"
  escaped,    \* the last byte read was the escape character
  buf,        \* bytes of the message read so far, without flags
  need,       \* byte_count: bytes still to read before the check sequence
  head,       \* header_size: bytes before them
  line,       \* bytes on their way to the reader
  asked,      \* requests the controller has not answered
  shown,      \* changes of the lamps so far
  db_atsc,    \* the lamps in the database, <<>> if none were written
  keep,       \* keep_sending: the loop goes on (-k)
  faults,     \* bytes and requests hit so far
  wide,       \* bytes of the length after one that says how many, or none
  hits        \* what may go wrong

setting == <<keep, wide, hits>>
reader == <<pc, escaped, buf, need, head>>
vars == <<reader, line, asked, shown, db_atsc, faults, setting>>

-----------------------------------------------------------------------------
(* Messages.                                                               *)

\* The controller answers with the lamps or with an error.
Message == [version : Version, refused : BOOLEAN, wide : Wide]
Nothing == [version |-> -1, refused |-> FALSE, wide |-> 0]

\* The objects of a request are those of the list, without values.
Request ==
  [i \in 1..2 * Len(Groups) |->
     IF i % 2 = 1 THEN Groups[(i + 1) \div 2] ELSE SNMP_NULL]

\* A refusal has the objects of the request.
Objects(m) ==
  IF m.refused THEN Request
  ELSE [i \in 1..3 * Len(Groups) |->
          CASE i % 3 = 1 -> Groups[(i + 2) \div 3]
            [] i % 3 = 2 -> SNMP_INTEGER
            [] OTHER -> Lamp(m.version)[i \div 3]]

PmppHeader == <<DEST_ADDR, PMPP_CTRL_VAL, PMPP_STMF_VAL>>

ByteCount(n, bytes) ==
  CASE bytes = 0 -> <<n>>
    [] bytes = 1 -> <<SNMP_MULTI_BYTE_COUNT + 1, n>>
    [] bytes = 2 -> <<SNMP_MULTI_BYTE_COUNT + 2, n \div 256, n % 256>>

Heading(m) ==
  PmppHeader \o <<SNMP_SEQUENCE>> \o ByteCount(Len(Objects(m)), m.wide)

\* What is between the flags, before escaping and without the check sequence.
Content(m) == Heading(m) \o Objects(m)

\* On the line a check sequence knows the message it was computed from.
Plain(b) == [byte |-> b, sums |-> Nothing]
Sum(m) == [byte |-> FCS, sums |-> m]

\* A faulty variant of the next definition: any message with a check sequence.
FitsAnything(bytes, token) == token.byte = FCS

\* compute_fcs over the bytes and the check sequence gives the magic number.
Fits(bytes, token) ==
  token.byte = FCS /\ bytes = Content(token.sums)

\* A flag or an escape in the data goes over the line as two bytes.
Escape(b) == CASE b = FLAG   -> <<Plain(ESCAPE), Plain(ESCAPE_DELIMITER)>>
               [] b = ESCAPE -> <<Plain(ESCAPE), Plain(ESCAPE_ESCAPE)>>
               [] OTHER      -> <<Plain(b)>>

Escaped(bytes) == FlattenSeq([i \in DOMAIN bytes |-> Escape(bytes[i])])

Frame(m) ==
  <<Plain(FLAG)>> \o Escaped(Heading(m)) \o Escaped(Objects(m))
    \o <<Sum(m), Plain(FLAG)>>

-----------------------------------------------------------------------------
(* Parsing (parse_asc.c).                                                  *)

\* parse_oid and get_integer_val.
OnList(object) == \E g \in 1..Len(Groups) : object = Groups[g]
HasInteger(type) == type = SNMP_INTEGER

\* Each object is known and has an integer, or nothing is written.
Parses(s) ==
  /\ Len(s) % 3 = 0
  /\ \A i \in 1..Len(s) :
       /\ i % 3 = 1 => OnList(s[i])
       /\ i % 3 = 2 => HasInteger(s[i])

\* The lamps of a group are 0 unless the answer has an object for it.
Parsed(s) ==
  [g \in 1..Len(Groups) |->
     LET At == {i \in 1..Len(s) : i % 3 = 1 /\ s[i] = Groups[g]}
     IN IF At = {} THEN 0 ELSE s[2 + CHOOSE i \in At : \A j \in At : j <= i]]

-----------------------------------------------------------------------------
(* The reader.                                                             *)

\* One turn of the loop is over: with -k 0 there is no other.
Turn == pc' = IF keep THEN "select" ELSE "done"

\* Nothing came for the time out.  A request is sent, as it is before the first
\* turn by an initiator; there is no other request.
TimeOut ==
  /\ pc = "select" /\ line = <<>>
  /\ asked < MaxAsked /\ asked' = asked + 1
  /\ Turn
  /\ UNCHANGED <<escaped, buf, need, head, line, shown, db_atsc, faults,
                 setting>>

Ready ==
  /\ pc = "select" /\ line # <<>>
  /\ pc' = "hunt"
  /\ UNCHANGED <<escaped, buf, need, head, line, asked, shown, db_atsc, faults,
                 setting>>

\* What the places that read one byte have in common.
Arrived(at) == pc = at /\ line # <<>>
Got == Head(line).byte
Taken == line' = Tail(line) /\ UNCHANGED <<asked, shown, faults, setting>>

Hunt ==
  /\ Arrived("hunt") /\ Taken
  /\ pc' = IF Got = FLAG THEN "second" ELSE "hunt"
  /\ buf' = <<>>
  /\ UNCHANGED <<escaped, need, head, db_atsc>>

\* The flag was the end of the message before.
Resync ==
  /\ Arrived("second") /\ ~escaped /\ Got = FLAG /\ Taken
  /\ pc' = "address"
  /\ UNCHANGED <<escaped, buf, need, head, db_atsc>>

Unescaped == {"second", "address", "header", "count", "count_one",
              "count_high", "count_low", "body", "fcs"}

EscapeCharacter ==
  /\ pc \in Unescaped /\ Arrived(pc) /\ ~escaped /\ Got = ESCAPE /\ Taken
  /\ escaped' = TRUE
  /\ UNCHANGED <<pc, buf, need, head, db_atsc>>

\* collapse_escape assigns where it means to compare: what is not an escaped
\* flag is an escaped escape character.
Value ==
  IF ~escaped THEN Got ELSE IF Got = ESCAPE_DELIMITER THEN FLAG ELSE ESCAPE

\* A byte that is no escape character, at one of these places.
Collapsed(at) ==
  /\ Arrived(at) /\ (escaped \/ Got # ESCAPE) /\ Taken /\ escaped' = FALSE

Address ==
  /\ \/ Collapsed("second") /\ (escaped \/ Got # FLAG)
     \/ Collapsed("address")
  /\ buf' = <<Value>> /\ pc' = "header"
  /\ UNCHANGED <<need, head, db_atsc>>

\* The address is not looked at.  What is left of a message with another header
\* stays on the line.
PmppBytes ==
  /\ Collapsed("header")
  /\ buf' = Append(buf, Value)
  /\ IF Len(buf') < Len(PmppHeader) THEN UNCHANGED pc
     ELSE IF Tail(buf') = Tail(PmppHeader) THEN pc' = "seq"
     ELSE Turn
  /\ UNCHANGED <<need, head, db_atsc>>

SequenceByte ==
  /\ Arrived("seq") /\ Taken
  /\ IF Got = SNMP_SEQUENCE
     THEN buf' = Append(buf, Got) /\ pc' = "count"
     ELSE UNCHANGED buf /\ Turn
  /\ UNCHANGED <<escaped, need, head, db_atsc>>

\* A faulty variant of the next definition: the end flag is counted as well.
ExpectOneMore(n) ==
  need' = n + 1 /\ head' = Len(buf') /\ pc' = "body"

\* The message goes on for n bytes.
Expect(n) ==
  /\ need' = n /\ head' = Len(buf')
  /\ pc' = IF n = 0 THEN "fcs" ELSE "body"

Count ==
  /\ Collapsed("count")
  /\ buf' = Append(buf, Value)
  /\ IF Value < SNMP_MULTI_BYTE_COUNT THEN Expect(Value)
     ELSE IF Value % 2 = 1 THEN pc' = "count_one" /\ UNCHANGED <<need, head>>
     ELSE IF (Value \div 2) % 2 = 1
     THEN pc' = "count_high" /\ UNCHANGED <<need, head>>
     ELSE Expect(0)
  /\ UNCHANGED db_atsc

CountOne ==
  /\ Collapsed("count_one")
  /\ buf' = Append(buf, Value) /\ Expect(Value)
  /\ UNCHANGED db_atsc

CountHigh ==
  /\ Collapsed("count_high")
  /\ buf' = Append(buf, Value) /\ pc' = "count_low"
  /\ UNCHANGED <<need, head, db_atsc>>

CountLow ==
  /\ Collapsed("count_low")
  /\ buf' = Append(buf, Value) /\ Expect(256 * Last(buf) + Value)
  /\ UNCHANGED db_atsc

Body ==
  /\ Collapsed("body")
  /\ buf' = Append(buf, Value) /\ need' = need - 1
  /\ pc' = IF need' = 0 THEN "fcs" ELSE "body"
  /\ UNCHANGED <<head, db_atsc>>

\* A faulty variant of the next definition: after a bad check sequence the
\* message is left at once, as after a bad header.
CheckSumLeaves ==
  /\ Collapsed("fcs")
  /\ LET packet == SubSeq(buf, head + 1, Len(buf))
     IN IF Fits(buf, Head(line))
        THEN /\ db_atsc' = IF Parses(packet) THEN Parsed(packet) ELSE db_atsc
             /\ pc' = "end"
        ELSE UNCHANGED db_atsc /\ Turn
  /\ UNCHANGED <<buf, need, head>>

\* A good message is parsed; a bad one is only reported.
CheckSum ==
  /\ Collapsed("fcs")
  /\ LET packet == SubSeq(buf, head + 1, Len(buf))
     IN db_atsc' = IF Fits(buf, Head(line)) /\ Parses(packet)
                   THEN Parsed(packet) ELSE db_atsc
  /\ pc' = "end"
  /\ UNCHANGED <<buf, need, head>>

\* The last byte is read whatever it is.
EndFlag ==
  /\ Arrived("end") /\ Taken
  /\ Turn /\ buf' = <<>> /\ need' = 0 /\ head' = 0
  /\ UNCHANGED <<escaped, db_atsc>>

Program ==
  \/ TimeOut
  \/ Ready \/ Hunt \/ Resync \/ EscapeCharacter \/ Address \/ PmppBytes
  \/ SequenceByte \/ Count \/ CountOne \/ CountHigh \/ CountLow \/ Body
  \/ CheckSum \/ EndFlag

-----------------------------------------------------------------------------
(* The controller and the line.                                            *)

Current == [version |-> shown, refused |-> FALSE, wide |-> wide]

\* It answers the oldest request with the lamps of the moment.
Answer ==
  /\ asked > 0 /\ asked' = asked - 1
  /\ line' = line \o Frame(Current)
  /\ UNCHANGED <<reader, shown, db_atsc, faults, setting>>

Fault == faults < MaxFaults /\ faults' = faults + 1

Refuse ==
  /\ asked > 0 /\ asked' = asked - 1 /\ Fault
  /\ line' = line \o Frame([Current EXCEPT !.refused = TRUE])
  /\ UNCHANGED <<reader, shown, db_atsc, setting>>

Change ==
  /\ shown < MaxChanges /\ shown' = shown + 1
  /\ UNCHANGED <<reader, line, asked, db_atsc, faults, setting>>

RequestLost ==
  /\ "request" \in hits /\ Fault
  /\ asked > 0 /\ asked' = asked - 1
  /\ UNCHANGED <<reader, line, shown, db_atsc, setting>>

\* What it means that byte i of a frame becomes b: an escape character more or
\* less changes the length, else it is what the reader takes the byte for.
Kind(frame, i, b) ==
  LET count == Len(PmppHeader) + 3
      payload == 2 + Len(Escaped(Heading(Current)))
  IN IF ESCAPE \in {b, frame[i].byte} THEN "escape"
     ELSE IF i = 1 THEN "start" ELSE IF i = Len(frame) THEN "end"
     ELSE IF i < count THEN "header" ELSE IF i < payload THEN "count"
     ELSE "payload"

\* One byte of an answer is lost or becomes another, while the answer is sent.
AnswerHit ==
  /\ asked > 0 /\ asked' = asked - 1 /\ Fault
  /\ LET frame == Frame(Current)
     IN \E i \in 1..Len(frame) :
          \/ "lost" \in hits /\ line' = line \o RemoveAt(frame, i)
          \/ \E b \in Junk :
               /\ Kind(frame, i, b) \in hits
               /\ line' = line \o [frame EXCEPT ![i] = Plain(b)]
  /\ UNCHANGED <<reader, shown, db_atsc, setting>>

\* The program may start when only the end flag of an answer to the program
\* before is left; an initiator has sent a request by then.
Init ==
  /\ pc = "select" /\ escaped = FALSE /\ buf = <<>> /\ need = 0 /\ head = 0
  /\ asked \in {0, 1} /\ asked <= MaxAsked
  /\ hits \in HitSets /\ wide \in Wide
  /\ line = <<>> \/ ("tail" \in hits /\ line = <<Plain(FLAG)>>)
  /\ shown = 0 /\ db_atsc = <<>> /\ faults = 0
  /\ keep \in BOOLEAN

Next ==
  \/ Program
  \/ Answer \/ Refuse \/ Change
  \/ RequestLost \/ AnswerHit

\* The select times out and the reads return when there is something to read;
\* a controller that is asked answers.
Fairness == WF_vars(Program) /\ WF_vars(Answer)

Spec == Init /\ [][Next]_vars /\ Fairness

-----------------------------------------------------------------------------
(* Properties.                                                             *)

\* The database never has lamps the controller did not show: not a mixture of
\* two answers, not a damaged byte, not an escape taken for what it stands for.
DbIsShown == db_atsc = <<>> \/ \E v \in 0..shown : db_atsc = Lamp(v)

\* What leaves every byte of a frame in its place, or the payload's and the
\* last.
Harmless == {"tail", "request", "payload", "end"}

\* When only bytes of the payload and end flags are damaged the reader is back
\* at the select with whole answers before it: it never takes a byte of the
\* next answer for the end of this one.
Aligned ==
  pc = "select" /\ hits \subseteq Harmless => line = <<>> \/ Got = FLAG

\* The read after a flag has no time limit: behind the end flag of an answer to
\* the program before, with nothing asked or the request lost, the program waits
\* for a byte that nobody was asked to send.
LeftWaiting ==
  /\ "tail" \in hits
  /\ pc = "second" /\ line = <<>> /\ asked = 0

\* The lamps the controller shows in the end are the ones in the database in the
\* end, as long as the program does not stop after one turn: asc_get.c:2-4 has
\* it send repeated requests and record the responses.  The one exception among
\* the harmless faults is a start behind a flag with no answer to come.  A byte
\* that is lost, or one that is damaged where the reader looks for a length or
\* an escape, also leaves it waiting in the middle of an answer, and a program
\* that waits asks nothing.
Recorded ==
  keep /\ hits \subseteq Harmless =>
    <>[](db_atsc = Lamp(shown)) \/ <>[]LeftWaiting
=============================================================================
