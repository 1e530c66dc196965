-------------------------- MODULE Ab3418PollProofs ---------------------------
(***************************************************************************)
(* Proofs about Ab3418Poll, for every MaxAge and MaxInput: types, and that *)
(* opening the port again puts questions and answers back in step.         *)
(*                                                                         *)
(* InStep alone is not inductive: that the first frame read is the right   *)
(* answer rests on there being no other message in the input or on its     *)
(* way.  HealedInv says so: between two questions nothing but damaged      *)
(* frames is left, and while the program waits there is one answer, the    *)
(* one it waits for, at most.                                              *)
(***************************************************************************)
EXTENDS Ab3418Poll, SequenceTheorems, TLAPS

Current == [asks |-> job, age |-> 0]

AllDamaged(seq) == \A i \in 1 .. Len(seq) : seq[i] = Damaged

\* Damaged frames but for one, which is the answer awaited.
OneGood(seq) == \E k \in 1 .. Len(seq) :
  /\ seq[k] = Current
  /\ \A i \in 1 .. Len(seq) : i # k => seq[i] = Damaged

Quiet == due = <<>> /\ AllDamaged(input)

OneAnswer ==
  \/ Quiet
  \/ due = <<Current>> /\ AllDamaged(input)
  \/ due = <<>> /\ OneGood(input)

HealedInv ==
  /\ healed /\ pc \in {"receive", "pattern", "ask", "open_out"} => Quiet
  /\ healed /\ pc = "await" => OneAnswer

IInv == TypeOK /\ HealedInv

-----------------------------------------------------------------------------
(* Sequences of requests and frames.                                       *)

\* A damaged frame is no message.
LEMMA DamagedIsNoRequest == Damaged \notin Request
  BY DEF Damaged, Request, Asks

\* Another request makes every message one older, and changes nothing else.
LEMMA OlderRequests ==
  ASSUME NEW seq \in Seq(Request)
  PROVE  Older(seq) \in Seq(Request) /\ Len(Older(seq)) = Len(seq)
<1>1. \A i \in 1 .. Len(seq) : seq[i] \in Request /\ seq[i] # Damaged
  BY DamagedIsNoRequest
<1>2. \A i \in 1 .. Len(seq) : [seq[i] EXCEPT !.age = @ + 1] \in Request
  BY <1>1 DEF Request
<1>3. Older(seq) = [i \in 1 .. Len(seq) |-> [seq[i] EXCEPT !.age = @ + 1]]
  BY <1>1 DEF Older
<1> QED BY <1>2, <1>3

LEMMA OlderFrames ==
  ASSUME NEW seq \in Seq(Frame)
  PROVE  Older(seq) \in Seq(Frame) /\ Len(Older(seq)) = Len(seq)
<1> DEFINE older(i) == IF seq[i] = Damaged THEN Damaged
                       ELSE [seq[i] EXCEPT !.age = @ + 1]
<1>1. ASSUME NEW i \in 1 .. Len(seq) PROVE older(i) \in Frame
  <2>1. CASE seq[i] = Damaged
    BY <2>1 DEF Frame
  <2>2. CASE seq[i] # Damaged
    <3>1. seq[i] \in Request
      BY <2>2 DEF Frame
    <3> QED BY <2>2, <3>1 DEF Frame, Request
  <2> QED BY <2>1, <2>2
<1>2. Older(seq) = [i \in 1 .. Len(seq) |-> older(i)]
  BY DEF Older
<1> HIDE DEF older
<1> QED BY <1>1, <1>2

\* Damaged frames stay damaged, and stay alone, as frames are read, come, or
\* grow older.
LEMMA AllDamagedOlder ==
  ASSUME NEW seq \in Seq(Frame), AllDamaged(seq)
  PROVE  AllDamaged(Older(seq))
<1>1. Len(Older(seq)) = Len(seq)
  BY OlderFrames
<1>2. \A i \in 1 .. Len(seq) : Older(seq)[i] = Damaged
  BY DEF AllDamaged, Older
<1> QED BY <1>1, <1>2 DEF AllDamaged

LEMMA AllDamagedTail ==
  ASSUME NEW seq \in Seq(Frame), seq # <<>>, AllDamaged(seq)
  PROVE  AllDamaged(Tail(seq))
<1>1. /\ Len(Tail(seq)) = Len(seq) - 1
      /\ \A i \in 1 .. Len(Tail(seq)) : Tail(seq)[i] = seq[i + 1]
  BY HeadTailProperties
<1> QED BY <1>1 DEF AllDamaged

LEMMA AllDamagedAppend ==
  ASSUME NEW seq \in Seq(Frame), AllDamaged(seq)
  PROVE  AllDamaged(Append(seq, Damaged))
<1>1. Damaged \in Frame
  BY DEF Frame
<1>2. /\ Len(Append(seq, Damaged)) = Len(seq) + 1
      /\ \A i \in 1 .. Len(seq) : Append(seq, Damaged)[i] = seq[i]
      /\ Append(seq, Damaged)[Len(seq) + 1] = Damaged
  BY <1>1, AppendProperties
<1> QED BY <1>2 DEF AllDamaged

-----------------------------------------------------------------------------
(* Types.                                                                  *)

Calls ==
  /\ pc' \in {"receive", "ask", "reopen"}
  /\ job' \in Asks
  /\ boot' \in BOOLEAN

\* What every end of a call does to where the program is.
LEMMA ReturnType ==
  ASSUME TypeOK, Return
  PROVE  Calls /\ (boot' => boot)
  BY DEF TypeOK, Return, Calls, Asks

LEMMA FailType ==
  ASSUME TypeOK, NEW retval, Fail(retval), pc \in {"ask", "await"}
  PROVE  Calls /\ (boot' => boot)
<1>1. CASE Return
  BY <1>1, ReturnType
<1>2. CASE ~Return
  BY <1>2 DEF TypeOK, Fail, Calls, Asks
<1> QED BY <1>1, <1>2

LEMMA InitType == Init => TypeOK
<1>1. <<>> \in Seq(Request) /\ <<>> \in Seq(Frame)
  OBVIOUS
<1> QED BY <1>1 DEF Init, TypeOK

LEMMA NextType == TypeOK /\ [Next]_vars => TypeOK'
<1> SUFFICES ASSUME TypeOK, [Next]_vars PROVE TypeOK'
  OBVIOUS
<1> USE DEF TypeOK
<1>1. CASE Ask
  <2>1. Older(due) \in Seq(Request) /\ Older(input) \in Seq(Frame)
    BY OlderRequests, OlderFrames
  <2>2. [asks |-> job, age |-> 0] \in Request
    BY <1>1 DEF Ask, Request
  <2>3. due' \in Seq(Request)
    BY <1>1, <2>1, <2>2 DEF Ask, Unanswered
  <2> QED BY <1>1, <2>1, <2>3 DEF Ask
<1>2. CASE AskClosed
  <2>1. Calls /\ (boot' => boot)
    BY <1>2, FailType DEF AskClosed
  <2> QED BY <1>2, <2>1 DEF AskClosed, Calls, Asks
<1>3. CASE AskStuck
  <2>1. Calls /\ (boot' => boot)
    BY <1>3, FailType DEF AskStuck
  <2> QED BY <1>3, <2>1 DEF AskStuck, Calls, Asks
<1>4. CASE TimeOut
  <2>1. Calls /\ (boot' => boot)
    BY <1>4, FailType DEF TimeOut
  <2> QED BY <1>4, <2>1 DEF TimeOut, Calls, Asks
<1>5. CASE ReadDamaged
  <2>1. Calls /\ (boot' => boot)
    BY <1>5, FailType DEF ReadDamaged
  <2>2. input' \in Seq(Frame)
    BY <1>5 DEF ReadDamaged
  <2> QED BY <1>5, <2>1, <2>2 DEF ReadDamaged, Calls, Asks
<1>6. CASE Read
  <2>1. Calls /\ (boot' => boot)
    BY <1>6, ReturnType DEF Read
  <2>2. Head(input) \in Request /\ input' \in Seq(Frame)
    BY <1>6 DEF Read, Frame
  <2>3. /\ db_status' \in Request \cup {NeverWritten}
        /\ db_short' \in Request \cup {NeverWritten}
        /\ boot => db_status' = NeverWritten /\ db_short' = NeverWritten
    BY <1>6, <2>2 DEF Read, Publish
  <2> QED BY <1>6, <2>1, <2>2, <2>3 DEF Read, Calls, Asks
<1>7. CASE OpenInput
  BY <1>7 DEF OpenInput
<1>8. ASSUME NEW works \in BOOLEAN, OpenOutput(works) PROVE TypeOK'
  <2>1. Calls /\ (boot' => boot)
    BY <1>8, ReturnType DEF OpenOutput
  <2> QED BY <1>8, <2>1 DEF OpenOutput, Calls, Asks
<1>9. CASE PatternTrigger \/ SetPattern \/ Poll
  BY <1>9 DEF PatternTrigger, SetPattern, Poll, Asks
<1>10. CASE Answer
  <2>1. Head(due) \in Frame /\ Damaged \in Frame
    BY <1>10 DEF Answer, Frame
  <2>2. /\ Append(input, Head(due)) \in Seq(Frame)
        /\ Append(input, Damaged) \in Seq(Frame)
    BY <2>1, AppendProperties
  <2>3. input' \in Seq(Frame)
    BY <1>10, <2>2 DEF Answer
  <2>4. due' \in Seq(Request)
    BY <1>10 DEF Answer
  <2> QED BY <1>10, <2>3, <2>4 DEF Answer, program
<1>11. CASE Lose
  BY <1>11 DEF Lose, program
<1>12. CASE Noise
  BY <1>12 DEF Noise, program, Frame
<1>13. CASE UNCHANGED vars
  BY <1>13 DEF vars
<1> QED BY <1>1, <1>2, <1>3, <1>4, <1>5, <1>6, <1>7, <1>8, <1>9, <1>10,
           <1>11, <1>12, <1>13 DEF Next, Asking, Awaiting, Reopening

-----------------------------------------------------------------------------
(* Questions and answers in step.                                          *)

LEMMA EmptyIsDamaged == AllDamaged(<<>>)
  BY DEF AllDamaged

\* The answer comes, after whatever noise.
LEMMA AnswerIsOneGood ==
  ASSUME TypeOK, AllDamaged(input), Current \in Frame
  PROVE  OneGood(Append(input, Current))
<1> DEFINE seq == Append(input, Current)
<1>1. /\ Len(seq) = Len(input) + 1
      /\ \A i \in 1 .. Len(input) : seq[i] = input[i]
      /\ seq[Len(input) + 1] = Current
  BY AppendProperties DEF TypeOK
<1>2. Len(input) \in Nat
  BY DEF TypeOK
<1> HIDE DEF seq
<1>3. \A i \in 1 .. Len(seq) : Len(input) + 1 # i => seq[i] = Damaged
  BY <1>1, <1>2 DEF AllDamaged
<1>4. Len(input) + 1 \in 1 .. Len(seq)
  BY <1>1, <1>2
<1>5. OneGood(seq)
  BY <1>1, <1>3, <1>4 DEF OneGood
<1> QED BY <1>5 DEF seq

LEMMA NoiseKeepsOneGood ==
  ASSUME TypeOK, OneGood(input)
  PROVE  OneGood(Append(input, Damaged))
<1> DEFINE seq == Append(input, Damaged)
<1>1. Damaged \in Frame
  BY DEF Frame
<1>2. /\ Len(seq) = Len(input) + 1
      /\ \A i \in 1 .. Len(input) : seq[i] = input[i]
      /\ seq[Len(input) + 1] = Damaged
  BY <1>1, AppendProperties DEF TypeOK
<1>3. Len(input) \in Nat
  BY DEF TypeOK
<1> HIDE DEF seq
<1>4. PICK k \in 1 .. Len(input) :
        /\ input[k] = Current
        /\ \A i \in 1 .. Len(input) : i # k => input[i] = Damaged
  BY DEF OneGood
<1>5. k \in 1 .. Len(seq) /\ seq[k] = Current
  BY <1>2, <1>3, <1>4
<1>6. \A i \in 1 .. Len(seq) : i # k => seq[i] = Damaged
  BY <1>2, <1>3, <1>4
<1>7. OneGood(seq)
  BY <1>5, <1>6 DEF OneGood
<1> QED BY <1>7 DEF seq

\* The answer is read: only damaged frames are left.
LEMMA ReadLeavesDamaged ==
  ASSUME TypeOK, OneGood(input), input # <<>>, Head(input) # Damaged
  PROVE  AllDamaged(Tail(input)) /\ Head(input) = Current
<1>1. /\ Len(Tail(input)) = Len(input) - 1
      /\ \A i \in 1 .. Len(Tail(input)) : Tail(input)[i] = input[i + 1]
  BY HeadTailProperties DEF TypeOK
<1>2. Head(input) = input[1] /\ Len(input) \in Nat /\ 1 \in 1 .. Len(input)
  BY DEF TypeOK
<1>3. PICK k \in 1 .. Len(input) :
        /\ input[k] = Current
        /\ \A i \in 1 .. Len(input) : i # k => input[i] = Damaged
  BY DEF OneGood
<1>4. k = 1
  BY <1>2, <1>3
<1>5. AllDamaged(Tail(input))
  BY <1>1, <1>2, <1>3, <1>4 DEF AllDamaged
<1> QED BY <1>2, <1>3, <1>4, <1>5

LEMMA InitHealed == Init => HealedInv
  BY DEF Init, HealedInv

LEMMA NextHealed == IInv /\ [Next]_vars => HealedInv'
<1> SUFFICES ASSUME TypeOK, HealedInv, [Next]_vars PROVE HealedInv'
  BY DEF IInv
<1>1. CASE Ask
  <2> SUFFICES ASSUME healed PROVE OneAnswer'
    BY <1>1 DEF Ask, HealedInv
  <2>1. due = <<>> /\ AllDamaged(input)
    BY <1>1 DEF Ask, HealedInv, Quiet
  <2>2. AllDamaged(input')
    BY <1>1, <2>1, AllDamagedOlder DEF Ask, TypeOK
  <2>3. Older(<<>>) = <<>>
    BY DEF Older
  <2>4. Append(<<>>, Current) = <<Current>>
    OBVIOUS
  <2>5. due' = <<Current>> /\ Current' = Current
    BY <1>1, <2>1, <2>3, <2>4 DEF Ask, Unanswered, Current
  <2> QED BY <2>2, <2>5 DEF OneAnswer, AllDamaged
<1>2. CASE AskClosed \/ AskStuck
  <2>1. pc' \in {"receive", "ask", "reopen"}
    BY <1>2, FailType DEF AskClosed, AskStuck, Calls
  <2> QED BY <1>2, <2>1 DEF AskClosed, AskStuck, HealedInv, Quiet, AllDamaged
<1>3. CASE TimeOut \/ ReadDamaged
  <2>1. healed => pc' = "reopen"
    BY <1>3 DEF TimeOut, ReadDamaged, Fail, TypeOK
  <2> QED BY <1>3, <2>1 DEF TimeOut, ReadDamaged, HealedInv
<1>4. CASE Read
  <2> SUFFICES ASSUME healed PROVE Quiet' /\ pc' # "await"
    BY <1>4 DEF Read, HealedInv
  <2>1. pc' # "await"
    BY <1>4, ReturnType DEF Read, Calls
  <2>2. ~AllDamaged(input)
    <3>1. Head(input) = input[1] /\ 1 \in 1 .. Len(input)
      BY <1>4 DEF Read, TypeOK
    <3> QED BY <1>4, <3>1 DEF Read, AllDamaged
  <2>3. due = <<>> /\ OneGood(input)
    BY <1>4, <2>2 DEF Read, HealedInv, OneAnswer, Quiet
  <2>4. AllDamaged(Tail(input))
    BY <1>4, <2>3, ReadLeavesDamaged DEF Read
  <2> QED BY <1>4, <2>1, <2>3, <2>4 DEF Read, Quiet, AllDamaged
<1>5. CASE OpenInput
  BY <1>5, EmptyIsDamaged DEF OpenInput, HealedInv, Quiet, AllDamaged
<1>6. ASSUME NEW works \in BOOLEAN, OpenOutput(works) PROVE HealedInv'
  <2>1. pc' \in {"receive", "ask", "reopen"}
    BY <1>6, ReturnType DEF OpenOutput, Calls
  <2> QED BY <1>6, <2>1 DEF OpenOutput, HealedInv, Quiet, AllDamaged
<1>7. CASE PatternTrigger \/ SetPattern \/ Poll
  BY <1>7 DEF PatternTrigger, SetPattern, Poll, HealedInv, Quiet, AllDamaged
<1>8. CASE Answer
  <2> SUFFICES ASSUME healed,
                      pc \in {"receive", "pattern", "ask", "open_out", "await"}
               PROVE  OneAnswer' /\ pc = "await"
    BY <1>8 DEF Answer, program, HealedInv
  <2>1. pc = "await" /\ due = <<Current>> /\ AllDamaged(input)
    BY <1>8 DEF Answer, HealedInv, OneAnswer, Quiet
  <2>2. due' = <<>> /\ Head(due) = Current
    BY <1>8, <2>1 DEF Answer
  <2>3. Current' = Current
    BY <1>8 DEF Answer, program, Current
  <2>4. CASE input' = Append(input, Current)
    <3>1. Current \in Frame
      BY <1>8, <2>1, <2>2 DEF TypeOK, Frame, Answer
    <3>2. OneGood(input')
      BY <2>1, <2>4, <3>1, AnswerIsOneGood
    <3>3. OneGood(input)'
      BY <2>3, <3>2 DEF OneGood
    <3> QED BY <2>1, <2>2, <3>3 DEF OneAnswer
  <2>5. CASE input' = Append(input, Damaged)
    <3>1. AllDamaged(input')
      BY <2>1, <2>5, AllDamagedAppend DEF TypeOK
    <3> QED BY <2>1, <2>2, <3>1 DEF OneAnswer, Quiet, AllDamaged
  <2> QED BY <1>8, <2>2, <2>4, <2>5 DEF Answer
<1>9. CASE Lose
  <2> SUFFICES ASSUME healed,
                      pc \in {"receive", "pattern", "ask", "open_out", "await"}
               PROVE  Quiet' /\ pc = "await"
    BY <1>9 DEF Lose, program, HealedInv, OneAnswer
  <2>1. pc = "await" /\ due = <<Current>> /\ AllDamaged(input)
    BY <1>9 DEF Lose, HealedInv, OneAnswer, Quiet
  <2>2. due' = <<>>
    BY <1>9, <2>1 DEF Lose
  <2> QED BY <1>9, <2>1, <2>2 DEF Lose, Quiet, AllDamaged
<1>10. CASE Noise
  <2>1. Current' = Current /\ due' = due /\ pc' = pc /\ healed' = healed
    BY <1>10 DEF Noise, program, Current
  <2>2. AllDamaged(input) => AllDamaged(input')
    BY <1>10, AllDamagedAppend DEF Noise, TypeOK
  <2>3. OneGood(input) => OneGood(input')
    BY <1>10, NoiseKeepsOneGood DEF Noise
  <2>4. Quiet => Quiet'
    BY <2>1, <2>2 DEF Quiet, AllDamaged
  <2>5. OneGood(input) => OneGood(input)'
    BY <2>1, <2>3 DEF OneGood
  <2>6. AllDamaged(input) => AllDamaged(input)'
    BY <2>2 DEF AllDamaged
  <2>7. OneAnswer => OneAnswer'
    BY <2>1, <2>4, <2>5, <2>6 DEF OneAnswer
  <2> QED BY <2>1, <2>4, <2>7 DEF HealedInv
<1>11. CASE UNCHANGED vars
  BY <1>11 DEF vars, HealedInv, OneAnswer, Quiet, AllDamaged, OneGood, Current
<1> QED BY <1>1, <1>2, <1>3, <1>4, <1>5, <1>6, <1>7, <1>8, <1>9, <1>10, <1>11
        DEF Next, Asking, Awaiting, Reopening

LEMMA HealedInStep == IInv => InStep
<1> SUFFICES ASSUME TypeOK, HealedInv, healed, pc = "await",
                    input # <<>>, Head(input) # Damaged
             PROVE  Head(input) = Current
  BY DEF IInv, InStep, Current
<1>1. ~AllDamaged(input)
  <2>1. Head(input) = input[1] /\ 1 \in 1 .. Len(input)
    BY DEF TypeOK
  <2> QED BY <2>1 DEF AllDamaged
<1>2. OneGood(input)
  BY <1>1 DEF HealedInv, OneAnswer, Quiet
<1> QED BY <1>2, ReadLeavesDamaged

(* The types of the poller, the port and the line, and that nothing is     *)
(* published before the endless loop of main.                              *)
THEOREM PollTypes == Spec => []TypeOK
  BY InitType, NextType, PTL DEF Spec

(* After check_and_reconnect_serial with no answer on its way, get_status  *)
(* and get_short_status read the answer to what they have just asked.      *)
THEOREM ReopeningHeals == Spec => []InStep
<1>1. Init => IInv
  BY InitType, InitHealed DEF IInv
<1>2. IInv /\ [Next]_vars => IInv'
  BY NextType, NextHealed DEF IInv
<1> QED BY <1>1, <1>2, HealedInStep, PTL DEF Spec
=============================================================================
