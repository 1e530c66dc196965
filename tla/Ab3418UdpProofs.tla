--------------------------- MODULE Ab3418UdpProofs ---------------------------
(***************************************************************************)
(* Proofs about Ab3418Udp, for any lamps, any losses and any number of     *)
(* late answers: types, and how far behind what is published may be.       *)
(***************************************************************************)
EXTENDS Ab3418Udp, SequenceTheorems, TLAPS

-----------------------------------------------------------------------------
(* Types.                                                                  *)

\* Before the loop a program with -D or -E makes one call, after the time.
FirstCalls ==
  /\ pc \in {"receive", "publish", "show", "handler"} => Looping
  /\ option # "-P" /\ ~Looping =>
       \/ job = "time" /\ todo = <<"status">>
       \/ job = "status" /\ todo = <<>>

TypeInv == TypeOK /\ FirstCalls

LEMMA AllRedType == AllRed \in Lamps \cup {AllRed}
  OBVIOUS

LEMMA ZeroType == Zero \in Part
  BY DEF Zero, Part

LEMMA DatagramIsPart == Datagram \subseteq Part
  BY DEF Datagram, Part

\* What recvfrom leaves is a buffer.
LEMMA ReceivedType ==
  ASSUME TypeOK, NEW datagram \in Datagram
  PROVE  Received(datagram) \in Buffer
  <1>1. datagram \in Part /\ readBuff.tail \in Part
    BY DatagramIsPart DEF TypeOK, Buffer
  <1> QED
    BY <1>1 DEF Received, Buffer

LEMMA OlderType ==
  /\ \A seq \in Seq(Request) : Older(seq) \in Seq(Request)
  /\ \A seq \in Seq(Datagram) : Older(seq) \in Seq(Datagram)
  <1>1. ASSUME NEW seq \in Seq(Request)
        PROVE  Older(seq) \in Seq(Request)
    <2>1. \A i \in 1 .. Len(seq) : seq[i] \in Request
      OBVIOUS
    <2>2. \A r \in Request : [r EXCEPT !.age = @ + 1] \in Request
      BY DEF Request
    <2> QED
      BY <2>1, <2>2, IsASeq DEF Older
  <1>2. ASSUME NEW seq \in Seq(Datagram)
        PROVE  Older(seq) \in Seq(Datagram)
    <2>1. \A i \in 1 .. Len(seq) : seq[i] \in Datagram
      OBVIOUS
    <2>2. \A r \in Datagram : [r EXCEPT !.age = @ + 1] \in Datagram
      BY DEF Datagram
    <2> QED
      BY <2>1, <2>2, IsASeq DEF Older
  <1> QED
    BY <1>1, <1>2

PhaseStatus == [colors : [1 .. 8 -> {RED, YELOW, GREEN}],
                yellows : SUBSET (1 .. 8), reds : SUBSET (1 .. 8)]

LEMMA PhaseStatusType ==
  ASSUME NEW lamps, lamps.active \subseteq 1 .. 8
  PROVE  process_phase_status(lamps) \in PhaseStatus
  <1> DEFINE yellows == UNION {Yellows(lamps, phase) : phase \in lamps.active}
             reds == (1 .. 8) \ (Greens \cup yellows)
             shown == [phase \in 1 .. 8 |->
                         IF phase \in lamps.active
                         THEN interval_color(interval_temp(lamps, phase))
                         ELSE RED]
  <1>1. \A interval : interval_color(interval) \in {RED, YELOW, GREEN}
    BY DEF interval_color
  <1>2. shown \in [1 .. 8 -> {RED, YELOW, GREEN}]
    BY <1>1
  <1>3. yellows \in SUBSET (1 .. 8)
    BY DEF Yellows
  <1>4. reds \in SUBSET (1 .. 8)
    OBVIOUS
  <1>5. process_phase_status(lamps)
          = [colors |-> shown, yellows |-> yellows, reds |-> reds]
    BY DEF process_phase_status
  <1> HIDE DEF yellows, reds, shown
  <1> QED
    BY <1>2, <1>3, <1>4, <1>5 DEF PhaseStatus

\* A buffer's lamps are eight phases at most.
LEMMA BufferLamps ==
  ASSUME NEW b \in Buffer
  PROVE  b.tail.lamps.active \subseteq 1 .. 8
  BY UdpAssumption DEF Buffer, Part, AllRed

\* Where a call leaves the program, after any value it may return.
LEMMA ReturnType ==
  ASSUME TypeInv, NEW value \in {"bytes", "0", "-1", "-2", "-3"},
         Return(value), pc \in {"ask", "await"}, readBuff' \in Buffer,
         value = "0" => job # "status", value # "-1"
  PROVE  /\ pc' \in {"ask", "receive", "publish", "exited"}
         /\ todo' \in Seq(Asks) /\ job' \in Asks \cup {"time"}
         /\ retval' \in {"bytes", "0", "-1", "-2", "-3"}
         /\ retval_set' \in {"unset", "bytes", "-2", "-3"}
         /\ datafile' \in Buffer
         /\ retval_set' # "unset" => option = "-D" /\ todo' = <<>>
         /\ FirstCalls'
         /\ UNCHANGED <<option, no_control, db_status, phase_status,
                        urms_stop>>
         /\ ~urms_stop
  <1> USE DEF TypeInv, TypeOK, FirstCalls, Looping, Return
  <1>1. CASE NextCall
    <2>1. retval_set = "unset"
      BY <1>1 DEF NextCall
    <2>2. Head(todo) \in Asks /\ Tail(todo) \in Seq(Asks)
      BY <1>1 DEF NextCall
    <2>3. option # "-P" => Head(todo) = "status" /\ Tail(todo) = <<>>
      <3>1. todo # <<>> /\ (option # "-P" => todo \in {<<"status">>, <<>>})
        BY <1>1, <2>1 DEF NextCall
      <3>2. Head(<<"status">>) = "status" /\ Tail(<<"status">>) = <<>>
        OBVIOUS
      <3> QED
        BY ONLY <3>1, <3>2
    <2> QED
      BY <1>1, <2>1, <2>2, <2>3 DEF NextCall
  <1>2. CASE LastCall(value)
    <2>1. option = "-D" => value \in {"bytes", "-2", "-3"}
      BY <1>2 DEF LastCall
    <2> QED
      BY <1>2, <2>1 DEF LastCall
  <1>3. CASE LoopCall(value)
    BY <1>3 DEF LoopCall
  <1> QED
    BY <1>1, <1>2, <1>3

LEMMA TypeInit == Init => TypeInv
  <1> SUFFICES ASSUME Init PROVE TypeInv
    OBVIOUS
  <1>1. Calls(option) \in Seq(Asks) /\ Calls(option) # <<>>
    <2>1. <<"status">> \in Seq(Asks)
      BY DEF Asks
    <2>2. <<"status", "pattern", "status">> \in Seq(Asks)
      BY DEF Asks
    <2> QED
      BY <2>1, <2>2 DEF Calls
  <1>2. Head(Calls(option)) = "status"
    BY DEF Calls
  <1>3. todo \in Seq(Asks) /\ job \in Asks \cup {"time"}
    BY <1>1, <1>2, HeadTailProperties DEF Init, Asks
  <1>4. FirstCalls
    BY <1>2 DEF Init, FirstCalls, Looping, Calls
  <1>5. readBuff \in Buffer /\ db_status \in Buffer /\ datafile \in Buffer
    BY ZeroType DEF Init, Buffer
  <1>6. phase_status \in PhaseStatus /\ late \in 0 .. MaxLate
    BY UdpAssumption DEF Init, PhaseStatus
  <1>7. due \in Seq(Request) /\ queue \in Seq(Datagram)
    BY DEF Init
  <1> QED
    BY <1>3, <1>4, <1>5, <1>6, <1>7 DEF Init, TypeInv, TypeOK, PhaseStatus

\* A request that is answered or lost.
LEMMA DueType ==
  ASSUME TypeOK, due # <<>>
  PROVE  Head(due) \in Request /\ Tail(due) \in Seq(Request)
  BY HeadTailProperties DEF TypeOK

LEMMA TypeStep == TypeInv /\ [Next]_vars => TypeInv'
  <1> SUFFICES ASSUME TypeInv, [Next]_vars PROVE TypeInv'
    OBVIOUS
  <1> USE DEF TypeInv, TypeOK, FirstCalls, Looping
  <1>1. CASE Ask
    <2>1. [asks |-> job, age |-> 0] \in Request
      BY <1>1 DEF Ask, Request
    <2>2. due' \in Seq(Request) /\ queue' \in Seq(Datagram)
      BY <1>1, <2>1, OlderType, AppendProperties DEF Ask
    <2> QED
      BY <1>1, <2>2 DEF Ask
  <1>2. CASE AskStuck
    <2>1. Return("-3") /\ readBuff' \in Buffer /\ pc \in {"ask", "await"}
      BY <1>2 DEF AskStuck
    <2>2. FirstCalls'
      BY <2>1, ReturnType
    <2> QED
      BY <1>2, <2>1, <2>2, ReturnType DEF AskStuck
  <1>3. CASE SetTime
    <2>1. PICK value \in {"0", "-2", "-3"} : Return(value)
      BY <1>3 DEF SetTime
    <2>2. readBuff' \in Buffer /\ job # "status"
      <3>1. [readBuff.head EXCEPT !.asks = "time"] \in Part
        BY DEF Buffer, Part
      <3>2. [readBuff EXCEPT !.head.asks = "time"] \in Buffer
        BY <3>1 DEF Buffer
      <3> QED
        BY <1>3, <3>2 DEF SetTime
    <2>3. pc = "ask" /\ UNCHANGED <<due, queue, port, late>>
      BY <1>3 DEF SetTime
    <2>4. FirstCalls'
      BY <2>1, <2>2, <2>3, ReturnType
    <2> HIDE DEF FirstCalls, Looping
    <2> QED
      BY <2>1, <2>2, <2>3, <2>4, ReturnType
  <1>4. CASE TimeOut
    <2>1. Return("-2") /\ readBuff' \in Buffer /\ pc \in {"ask", "await"}
      BY <1>4 DEF TimeOut
    <2>2. FirstCalls'
      BY <2>1, ReturnType
    <2>3. late' \in 0 .. MaxLate
      BY <1>4, UdpAssumption DEF TimeOut
    <2> QED
      BY <1>4, <2>1, <2>2, <2>3, ReturnType DEF TimeOut
  <1>5. CASE Read
    <2>1. Head(queue) \in Datagram /\ Tail(queue) \in Seq(Datagram)
      BY <1>5, HeadTailProperties DEF Read
    <2>2. readBuff' \in Buffer /\ queue' \in Seq(Datagram)
      BY <1>5, <2>1, ReceivedType DEF Read, Taken
    <2>3. PICK value \in {"bytes", "0"} :
            Return(value) /\ (value = "0" => job # "status")
      BY <1>5 DEF Read
    <2>4. pc = "await" /\ UNCHANGED <<due, port, late>>
      BY <1>5 DEF Read
    <2>5. FirstCalls'
      BY <2>2, <2>3, <2>4, ReturnType
    <2> HIDE DEF FirstCalls, Looping
    <2> QED
      BY <2>2, <2>3, <2>4, <2>5, ReturnType
  <1>6. CASE PatternTrigger \/ Pulse
    BY <1>6 DEF PatternTrigger, Pulse, Turn, Asks
  <1>7. CASE Publish
    BY <1>7 DEF Publish, Published
  <1>8. CASE Show
    <2>1. readBuff.tail.lamps.active \subseteq 1 .. 8
      BY BufferLamps DEF TypeInv, TypeOK
    <2>2. phase_status' \in PhaseStatus
      BY <1>8, <2>1, PhaseStatusType DEF Show
    <2> QED
      BY <1>8, <2>2 DEF Show, PhaseStatus
  <1>9. CASE Signal
    BY <1>9 DEF Signal
  <1>10. CASE Exit
    BY <1>10 DEF Exit
  <1>11. CASE Answer
    <2>1. PICK lamps \in Lamps :
            queue' = Append(queue, [asks |-> Head(due).asks,
              age |-> Head(due).age,
              lamps |-> IF Head(due).asks = "status" THEN lamps ELSE AllRed])
      BY <1>11 DEF Answer
    <2>2. [asks |-> Head(due).asks, age |-> Head(due).age,
           lamps |-> IF Head(due).asks = "status" THEN lamps ELSE AllRed]
            \in Datagram
      BY <1>11, DueType DEF Answer, Request, Datagram
    <2>3. queue' \in Seq(Datagram)
      BY <2>1, <2>2, AppendProperties
    <2> QED
      BY <1>11, <2>3, DueType DEF Answer, program
  <1>12. CASE Lose
    BY <1>12, DueType DEF Lose, program
  <1>13. CASE Plug
    BY <1>13 DEF Plug, program
  <1>14. CASE UNCHANGED vars
    BY <1>14 DEF vars, program
  <1> QED
    BY <1>1, <1>2, <1>3, <1>4, <1>5, <1>6, <1>7, <1>8, <1>9, <1>10, <1>11,
       <1>12, <1>13, <1>14 DEF Next, Asking, Awaiting, Receiving

LEMMA TypesInductive == Spec => []TypeInv
  BY TypeInit, TypeStep, PTL DEF Spec

(* Every variable has its type, whatever a long status may say and however *)
(* many answers come late; the handler has told the ramp meter to stop     *)
(* only where a signal was caught.                                         *)
THEOREM UdpTypes == Spec => []TypeOK
  <1>1. TypeInv => TypeOK
    BY DEF TypeInv
  <1> QED
    BY <1>1, TypesInductive, PTL

-----------------------------------------------------------------------------
(* How far behind what is published may be.  That its age is at most late  *)
(* is not inductive: what the socket holds comes next.  The answers of the *)
(* socket and the requests not answered are in the order of the questions, *)
(* and while no question is pending each of them is younger than late: the *)
(* question that is asked then makes it one older.                         *)

Falling(seq) == \A i, j \in DOMAIN seq : i < j => seq[i].age > seq[j].age
Below(seq, age) == \A i \in DOMAIN seq : seq[i].age < age

InOrder ==
  /\ Falling(queue) /\ Falling(due)
  /\ \A i \in DOMAIN queue : Below(due, queue[i].age)

Pending == pc \in {"await", "handler", "exited"}
Bound == IF Pending THEN late + 1 ELSE late

LagInv ==
  /\ InOrder
  /\ Below(queue, Bound) /\ Below(due, Bound)
  /\ readBuff.head.age <= late /\ db_status.head.age <= late

LEMMA AgeTypes ==
  ASSUME TypeOK
  PROVE  /\ \A i \in DOMAIN queue : queue[i].age \in Nat
         /\ \A i \in DOMAIN due : due[i].age \in Nat
         /\ readBuff.head.age \in Nat /\ db_status.head.age \in Nat
         /\ late \in Nat
  <1>1. \A i \in DOMAIN queue : queue[i] \in Datagram
    BY DEF TypeOK
  <1>2. \A i \in DOMAIN due : due[i] \in Request
    BY DEF TypeOK
  <1>3. /\ \A i \in DOMAIN queue : queue[i].age \in Nat
        /\ \A i \in DOMAIN due : due[i].age \in Nat
    BY <1>1, <1>2 DEF Datagram, Request
  <1>4. readBuff.head \in Part /\ db_status.head \in Part
    BY DEF TypeOK, Buffer
  <1>5. readBuff.head.age \in Nat /\ db_status.head.age \in Nat
    BY <1>4 DEF Part
  <1>6. late \in Nat
    BY UdpAssumption DEF TypeOK
  <1> QED
    BY <1>3, <1>5, <1>6

LEMMA TailIndex ==
  ASSUME NEW S, NEW seq \in Seq(S), seq # <<>>
  PROVE  \A i \in DOMAIN Tail(seq) :
           i \in Nat /\ i + 1 \in DOMAIN seq /\ Tail(seq)[i] = seq[i + 1]
  BY HeadTailProperties

\* What is left of a sequence keeps its order and is below its head.
LEMMA TailFalls ==
  ASSUME NEW S, NEW seq \in Seq(S), seq # <<>>, Falling(seq)
  PROVE  /\ Falling(Tail(seq)) /\ Below(Tail(seq), Head(seq).age)
         /\ \A age : Below(seq, age) => Below(Tail(seq), age)
         /\ \A age : Below(seq, age) => Head(seq).age < age
  <1>1. 1 \in DOMAIN seq /\ Head(seq) = seq[1]
    BY HeadTailProperties
  <1>2. \A i \in DOMAIN Tail(seq) : i \in Nat /\ i >= 1
    BY HeadTailProperties
  <1>3. Falling(Tail(seq))
    BY TailIndex, <1>2 DEF Falling
  <1>4. Below(Tail(seq), Head(seq).age)
    BY TailIndex, <1>1, <1>2 DEF Falling, Below
  <1>5. \A age : Below(seq, age) => Below(Tail(seq), age)
    BY TailIndex DEF Below
  <1> QED
    BY <1>1, <1>3, <1>4, <1>5 DEF Below

\* One more at the end that is below all there are.
LEMMA AppendFalls ==
  ASSUME NEW S, NEW seq \in Seq(S), NEW new, Falling(seq),
         \A i \in DOMAIN seq : seq[i].age > new.age
  PROVE  /\ Falling(Append(seq, new))
         /\ \A i \in DOMAIN Append(seq, new) :
              \/ i \in DOMAIN seq /\ Append(seq, new)[i] = seq[i]
              \/ Append(seq, new)[i] = new
  <1>1. \A i \in DOMAIN Append(seq, new) :
          IF i <= Len(seq) THEN i \in DOMAIN seq /\ Append(seq, new)[i] = seq[i]
          ELSE i = Len(seq) + 1 /\ Append(seq, new)[i] = new
    OBVIOUS
  <1>2. \A i \in DOMAIN Append(seq, new) : i \in Nat
    OBVIOUS
  <1> QED
    BY <1>1, <1>2 DEF Falling

LEMMA LagInit == Init => LagInv
  BY UdpAssumption
     DEF Init, LagInv, InOrder, Falling, Below, Bound, Pending, Zero

LEMMA LagStep == TypeInv /\ LagInv /\ [Next]_vars => LagInv'
  <1> SUFFICES ASSUME TypeInv, LagInv, [Next]_vars PROVE LagInv'
    OBVIOUS
  <1> USE AgeTypes DEF TypeInv
  <1>1. CASE Ask
    <2> DEFINE new == [asks |-> job, age |-> 0]
               older == Older(due)
    <2>1. /\ DOMAIN older = DOMAIN due /\ DOMAIN queue' = DOMAIN queue
          /\ \A i \in DOMAIN due : older[i].age = due[i].age + 1
          /\ \A i \in DOMAIN queue : queue'[i].age = queue[i].age + 1
      <3>1. /\ \A i \in DOMAIN due : due[i] \in Request
            /\ \A i \in DOMAIN queue : queue[i] \in Datagram
        BY DEF TypeOK
      <3> QED
        BY <1>1, <3>1 DEF Ask, Older, Request, Datagram
    <2>2. Falling(older) /\ Falling(queue')
      BY <2>1 DEF LagInv, InOrder, Falling
    <2>3. older \in Seq(Request)
      BY OlderType DEF TypeOK
    <2>4. due' = Append(older, new) /\ new.age = 0
      BY <1>1 DEF Ask
    <2>5. \A i \in DOMAIN older : older[i].age > new.age
      BY <2>1
    <2> HIDE DEF new, older
    <2>6. /\ Falling(due')
          /\ \A i \in DOMAIN due' :
               (i \in DOMAIN older /\ due'[i] = older[i]) \/ due'[i] = new
      BY <2>2, <2>3, <2>4, <2>5, AppendFalls
    <2>7. \A i \in DOMAIN queue' : Below(due', queue'[i].age)
      <3> SUFFICES ASSUME NEW i \in DOMAIN queue', NEW j \in DOMAIN due'
                   PROVE  due'[j].age < queue'[i].age
        BY DEF Below
      <3>1. i \in DOMAIN queue /\ queue'[i].age = queue[i].age + 1
        BY <2>1
      <3>2. queue[i].age \in Nat
        BY <3>1
      <3>3. CASE due'[j] = new
        BY ONLY <2>4, <3>1, <3>2, <3>3
      <3>4. CASE j \in DOMAIN older /\ due'[j] = older[j]
        <4>1. j \in DOMAIN due /\ due'[j].age = due[j].age + 1
          BY <2>1, <3>4
        <4>2. due[j].age < queue[i].age /\ due[j].age \in Nat
          BY <3>1, <4>1 DEF LagInv, InOrder, Below
        <4> QED
          BY ONLY <3>1, <3>2, <4>1, <4>2
      <3> QED
        BY <2>6, <3>3, <3>4
    <2>8. /\ Bound = late /\ Bound' = late + 1
          /\ UNCHANGED <<readBuff, db_status, late>>
      BY <1>1 DEF Ask, Bound, Pending
    <2>9. Below(queue', Bound') /\ Below(due', Bound')
      <3> USE DEF Below
      <3>1. /\ \A i \in DOMAIN queue : queue[i].age < late
            /\ \A i \in DOMAIN due : due[i].age < late
        BY <2>8 DEF LagInv
      <3>2. Below(queue', late + 1)
        BY <2>1, <3>1
      <3>3. \A i \in DOMAIN older : older[i].age < late + 1
        BY <2>1, <3>1
      <3>4. Below(due', late + 1)
        BY <2>4, <2>6, <3>3
      <3> QED
        BY <2>8, <3>2, <3>4
    <2> QED
      BY <2>2, <2>6, <2>7, <2>8, <2>9 DEF LagInv, InOrder
  <1>2. CASE AskStuck
    <2>1. /\ UNCHANGED <<queue, due, late, readBuff, db_status>>
          /\ pc = "ask"
      BY <1>2 DEF AskStuck, Return
    <2>2. Bound = late /\ Bound' \in {late, late + 1}
      BY <2>1 DEF Bound, Pending
    <2> QED
      BY <2>1, <2>2 DEF LagInv, InOrder, Falling, Below
  <1>3. CASE SetTime
    <2>1. /\ UNCHANGED <<queue, due, late, db_status>> /\ pc = "ask"
          /\ readBuff'.head.age = readBuff.head.age
      <3>1. [readBuff EXCEPT !.head.asks = "time"].head.age
              = readBuff.head.age
        BY DEF TypeOK, Buffer, Part
      <3> QED
        BY <1>3, <3>1 DEF SetTime, Return
    <2>2. Bound = late /\ Bound' \in {late, late + 1}
      BY <2>1 DEF Bound, Pending
    <2> QED
      BY <2>1, <2>2 DEF LagInv, InOrder, Falling, Below
  <1>4. CASE TimeOut
    <2>1. /\ UNCHANGED <<queue, due, readBuff, db_status>>
          /\ queue = <<>> /\ pc = "await"
          /\ (late' = late /\ due = <<>>) \/ late' = late + 1
      BY <1>4 DEF TimeOut, Return
    <2>2. Bound = late + 1 /\ Bound' \in {late', late' + 1}
      BY <2>1 DEF Bound, Pending
    <2> QED
      BY <2>1, <2>2 DEF LagInv, InOrder, Falling, Below
  <1>5. CASE Read
    <2>1. /\ queue # <<>> /\ queue' = Tail(queue) /\ pc = "await"
          /\ readBuff'.head = Head(queue)
          /\ UNCHANGED <<due, late, db_status>>
      BY <1>5 DEF Read, Return, Taken, Received
    <2>2. Bound = late + 1 /\ Bound' \in {late, late + 1}
      BY <2>1 DEF Bound, Pending
    <2>3. /\ Falling(queue') /\ Below(queue', Head(queue).age)
          /\ Head(queue).age < late + 1
      BY <2>1, <2>2, TailFalls DEF LagInv, InOrder, TypeOK
    <2>4. 1 \in DOMAIN queue /\ Head(queue) = queue[1]
      BY <2>1, HeadTailProperties DEF TypeOK
    <2>5. \A i \in DOMAIN queue' :
            i + 1 \in DOMAIN queue /\ queue'[i] = queue[i + 1]
      BY <2>1, TailIndex DEF TypeOK
    <2>6. InOrder'
      BY <2>1, <2>3, <2>5 DEF LagInv, InOrder
    <2>7. Below(queue', Bound') /\ Below(due', Bound')
      BY <2>1, <2>2, <2>3, <2>4, <2>5 DEF LagInv, InOrder, Below
    <2> QED
      BY <2>1, <2>3, <2>4, <2>6, <2>7 DEF LagInv
  <1>6. CASE PatternTrigger \/ Pulse \/ Publish \/ Show
    <2>1. /\ UNCHANGED <<queue, due, late, readBuff>>
          /\ db_status' \in {db_status, readBuff}
          /\ ~Pending /\ ~Pending'
      BY <1>6 DEF PatternTrigger, Pulse, Turn, Publish, Published, Show,
                  Pending
    <2> QED
      BY <2>1 DEF LagInv, InOrder, Falling, Below, Bound
  <1>7. CASE Signal \/ Exit \/ Plug \/ UNCHANGED vars
    <2>1. /\ UNCHANGED <<queue, due, late, readBuff, db_status>>
          /\ Pending => Pending'
      BY <1>7 DEF Signal, Exit, Plug, vars, program, Pending
    <2>2. Bound' \in {Bound, Bound + 1} /\ Bound \in Nat
      BY <2>1 DEF Bound
    <2> QED
      BY <2>1, <2>2 DEF LagInv, InOrder, Falling, Below
  <1>8. CASE Answer
    <2>1. PICK new : new.age = Head(due).age /\ queue' = Append(queue, new)
      BY <1>8 DEF Answer
    <2>2. /\ due # <<>> /\ due' = Tail(due)
          /\ UNCHANGED <<late, readBuff, db_status>> /\ Bound' = Bound
      BY <1>8 DEF Answer, program, Bound, Pending
    <2>3. 1 \in DOMAIN due /\ Head(due) = due[1]
      BY <2>2, HeadTailProperties DEF TypeOK
    <2>4. \A i \in DOMAIN queue : queue[i].age > new.age
      BY <2>1, <2>3 DEF LagInv, InOrder, Below
    <2>5. /\ Falling(queue')
          /\ \A i \in DOMAIN queue' :
               (i \in DOMAIN queue /\ queue'[i] = queue[i]) \/ queue'[i] = new
      <3>1. queue \in Seq(Datagram) /\ Falling(queue)
        BY DEF LagInv, InOrder, TypeOK
      <3>2. /\ Falling(Append(queue, new))
            /\ \A i \in DOMAIN Append(queue, new) :
                 \/ i \in DOMAIN queue /\ Append(queue, new)[i] = queue[i]
                 \/ Append(queue, new)[i] = new
        BY ONLY <2>4, <3>1, AppendFalls
      <3> QED
        BY ONLY <2>1, <3>2
    <2>6. /\ Falling(due') /\ Below(due', Head(due).age)
          /\ \A age : Below(due, age) => Below(due', age)
      BY <2>2, TailFalls DEF LagInv, InOrder, TypeOK
    <2>7. \A i \in DOMAIN queue' : Below(due', queue'[i].age)
      BY <2>1, <2>5, <2>6 DEF LagInv, InOrder
    <2>8. Below(queue', Bound') /\ Below(due', Bound')
      BY <2>1, <2>2, <2>3, <2>5, <2>6 DEF LagInv, Below
    <2> QED
      BY <2>2, <2>5, <2>6, <2>7, <2>8 DEF LagInv, InOrder
  <1>9. CASE Lose
    <2>1. /\ due # <<>> /\ due' = Tail(due) /\ Bound' = Bound
          /\ UNCHANGED <<queue, late, readBuff, db_status>>
      BY <1>9 DEF Lose, program, Bound, Pending
    <2>2. /\ Falling(due') /\ \A age : Below(due, age) => Below(due', age)
      BY <2>1, TailFalls DEF LagInv, InOrder, TypeOK
    <2> QED
      BY <2>1, <2>2 DEF LagInv, InOrder
  <1> QED
    BY <1>1, <1>2, <1>3, <1>4, <1>5, <1>6, <1>7, <1>8, <1>9
       DEF Next, Asking, Awaiting, Receiving

(* A published status is at most as many questions old as questions were   *)
(* given up before they were answered: for any lamps, any losses and any   *)
(* number of late answers, losses and patterns put get_status_udp no       *)
(* further behind.                                                         *)
THEOREM LagNeverWorse == Spec => []LagIsLate
  <1>1. LagInv => LagIsLate
    BY DEF LagInv, LagIsLate
  <1>2. Spec => []LagInv
    BY TypesInductive, LagInit, LagStep, PTL DEF Spec
  <1> QED
    BY <1>1, <1>2, PTL

-----------------------------------------------------------------------------
(* Whole answers.  While no question was given up, LagInv leaves nothing   *)
(* over between two questions, so that the one datagram a question waits   *)
(* for is its own; that is what the marked parts below add.                *)

Own(seq) == \A i \in DOMAIN seq : seq[i].asks = job

WholeInv ==
  /\ late = 0 /\ pc = "await" => Own(queue) /\ Own(due)
  /\ late = 0 /\ pc = "publish" =>
       readBuff.tail = readBuff.head /\ readBuff.head.asks = "status"
  /\ WholeStatus

LEMMA NothingLeft ==
  ASSUME TypeOK, LagInv, late = 0, pc = "ask"
  PROVE  DOMAIN queue = {} /\ DOMAIN due = {}
  <1>1. Below(queue, 0) /\ Below(due, 0)
    BY DEF LagInv, Bound, Pending
  <1>2. \A n \in Nat : ~(n < 0)
    OBVIOUS
  <1>3. /\ \A i \in DOMAIN queue : queue[i].age \in Nat
        /\ \A i \in DOMAIN due : due[i].age \in Nat
    BY AgeTypes
  <1> QED
    BY <1>1, <1>2, <1>3, Zenon DEF Below

\* A step before a late answer is a step in which no question is given up.
LEMMA LateGrows == TypeOK /\ [Next]_vars => late' = late \/ late' = late + 1
  BY DEF Next, Asking, Awaiting, Receiving, Ask, AskStuck, SetTime, TimeOut,
         Read, PatternTrigger, Pulse, Turn, Publish, Show, Signal, Exit,
         Answer, Lose, Plug, vars

LEMMA WholeInit == Init => WholeInv
  BY DEF Init, WholeInv, WholeStatus

LEMMA WholeStep == TypeInv /\ LagInv /\ WholeInv /\ [Next]_vars => WholeInv'
  <1> SUFFICES ASSUME TypeInv, LagInv, WholeInv, [Next]_vars PROVE WholeInv'
    OBVIOUS
  <1> SUFFICES ASSUME late = 0, late' = 0 PROVE WholeInv'
    BY AgeTypes, LateGrows DEF TypeInv, WholeInv, WholeStatus
  <1> USE DEF TypeInv
  <1>1. CASE Ask
    <2>1. DOMAIN queue' = {}
      BY <1>1, NothingLeft DEF Ask, Older
    <2>2. due' = <<[asks |-> job, age |-> 0]>>
      <3>1. Older(due) = <<>>
        BY <1>1, NothingLeft DEF Ask, Older
      <3> QED
        BY <1>1, <3>1 DEF Ask
    <2>3. \A i \in DOMAIN due' : due'[i].asks = job
      BY <2>2
    <2>4. /\ pc' = "await"
          /\ UNCHANGED <<job, readBuff, db_status, late>>
      BY <1>1 DEF Ask
    <2>5. Own(queue)' /\ Own(due)'
      BY <2>1, <2>3, <2>4 DEF Own
    <2>6. WholeStatus'
      BY <2>4 DEF WholeInv, WholeStatus
    <2> QED
      BY <2>4, <2>5, <2>6 DEF WholeInv
  <1>2. CASE AskStuck
    BY <1>2 DEF AskStuck, Return, NextCall, LastCall, LoopCall, WholeInv,
                WholeStatus
  <1>3. CASE SetTime
    BY <1>3 DEF SetTime, Return, NextCall, LastCall, LoopCall, WholeInv,
                WholeStatus
  <1>4. CASE TimeOut
    BY <1>4 DEF TimeOut, Return, NextCall, LastCall, LoopCall, WholeInv,
                WholeStatus
  <1>5. CASE Read
    <2>1. Head(queue).asks = job
      <3>1. 1 \in DOMAIN queue /\ Head(queue) = queue[1]
        BY <1>5, HeadTailProperties DEF Read, TypeOK
      <3> QED
        BY <1>5, <3>1 DEF Read, WholeInv, Own
    <2>2. job = "status" =>
            readBuff'.tail = readBuff'.head /\ readBuff'.head.asks = "status"
      BY <1>5, <2>1 DEF Read, Received
    <2>3. pc' = "publish" => job = "status"
      BY <1>5 DEF Read, Return, NextCall, LastCall, LoopCall
    <2>4. pc' # "await" /\ UNCHANGED db_status
      BY <1>5 DEF Read, Return, NextCall, LastCall, LoopCall
    <2> QED
      BY <2>2, <2>3, <2>4 DEF WholeInv, WholeStatus
  <1>6. CASE PatternTrigger \/ Pulse \/ Publish \/ Show
    BY <1>6 DEF PatternTrigger, Pulse, Turn, Publish, Published, Show,
                WholeInv, WholeStatus
  <1>7. CASE Signal \/ Exit \/ Plug \/ UNCHANGED vars
    BY <1>7 DEF Signal, Exit, Plug, vars, program, WholeInv, WholeStatus, Own
  <1>8. CASE Answer
    <2>1. PICK new : new.asks = Head(due).asks /\ queue' = Append(queue, new)
      BY <1>8 DEF Answer
    <2>2. /\ due # <<>> /\ due' = Tail(due)
          /\ UNCHANGED <<pc, job, readBuff, db_status>>
      BY <1>8 DEF Answer, program
    <2>3. 1 \in DOMAIN due /\ Head(due) = due[1]
      BY <2>2, HeadTailProperties DEF TypeOK
    <2>4. \A i \in DOMAIN queue' :
            (i \in DOMAIN queue /\ queue'[i] = queue[i]) \/ queue'[i] = new
      BY <2>1 DEF TypeOK
    <2>5. \A i \in DOMAIN due' :
            i + 1 \in DOMAIN due /\ due'[i] = due[i + 1]
      BY <2>2, TailIndex DEF TypeOK
    <2> QED
      BY <2>1, <2>2, <2>3, <2>4, <2>5 DEF WholeInv, WholeStatus, Own
  <1>9. CASE Lose
    <2>1. /\ due # <<>> /\ due' = Tail(due)
          /\ UNCHANGED <<pc, job, queue, readBuff, db_status>>
      BY <1>9 DEF Lose, program
    <2>2. \A i \in DOMAIN due' :
            i + 1 \in DOMAIN due /\ due'[i] = due[i + 1]
      BY <2>1, TailIndex DEF TypeOK
    <2> QED
      BY <2>1, <2>2 DEF WholeInv, WholeStatus, Own
  <1> QED
    BY <1>1, <1>2, <1>3, <1>4, <1>5, <1>6, <1>7, <1>8, <1>9
       DEF Next, Asking, Awaiting, Receiving

(* While every answer that came was waited for, what is published is one   *)
(* long status, from its first byte to its last.                           *)
THEOREM WholeWhileInStep == Spec => []WholeStatus
  <1>1. WholeInv => WholeStatus
    BY DEF WholeInv
  <1>2. Spec => []LagInv
    BY TypesInductive, LagInit, LagStep, PTL DEF Spec
  <1>3. Spec => []WholeInv
    BY TypesInductive, <1>2, WholeInit, WholeStep, PTL DEF Spec
  <1> QED
    BY <1>1, <1>3, PTL

-----------------------------------------------------------------------------
(* The colours.                                                            *)

ColorsInv ==
  /\ pc = "show" => db_status = readBuff
  /\ pc \notin {"show", "handler", "exited"} /\ db_status.head # Zero =>
       phase_status = process_phase_status(db_status.tail.lamps)

LEMMA ColorsStep == TypeInv /\ ColorsInv /\ [Next]_vars => ColorsInv'
  <1> SUFFICES ASSUME TypeInv, ColorsInv, [Next]_vars PROVE ColorsInv'
    OBVIOUS
  <1> USE DEF ColorsInv
  <1>1. CASE Asking \/ Awaiting
    <2>1. /\ UNCHANGED <<db_status, phase_status>> /\ pc \in {"ask", "await"}
          /\ pc' # "show"
      BY <1>1 DEF Asking, Awaiting, Ask, AskStuck, SetTime, TimeOut, Read,
                  Return, NextCall, LastCall, LoopCall
    <2> QED
      BY <2>1
  <1>2. CASE Receiving \/ Publish \/ Show
    BY <1>2 DEF Receiving, PatternTrigger, Pulse, Turn, Publish, Published,
                Show
  <1>3. CASE Signal \/ Exit \/ Answer \/ Lose \/ Plug \/ UNCHANGED vars
    BY <1>3 DEF Signal, Exit, Answer, Lose, Plug, vars, program
  <1> QED
    BY <1>1, <1>2, <1>3 DEF Next

(* The colours, the yellows and the reds agree with each other and with the *)
(* status that was published, as far as the branch without braces lets      *)
(* them, whatever else went on.                                             *)
THEOREM ColorsAlwaysAgree == Spec => []ColorsAgree
  <1>1. Init => ColorsInv
    BY DEF Init, ColorsInv
  <1>2. TypeInv /\ ColorsInv => ColorsAgree
    <2> DEFINE shown == db_status.tail.lamps
               colored == {phase \in 1 .. 8 : phase_status.colors[phase] = YELOW}
               ending(ring) == shown.interval[ring] \in {12, 13}
    <2> SUFFICES ASSUME TypeInv, ColorsInv, pc = "receive",
                        db_status.head # Zero
                 PROVE  /\ colored = {phase \in shown.active :
                                        ending(IF phase <= 4 THEN 1 ELSE 2)}
                        /\ colored \subseteq phase_status.yellows
                        /\ phase_status.yellows \subseteq shown.active
                        /\ phase_status.yellows \cap (1 .. 4) \subseteq colored
                        /\ \/ phase_status.yellows \subseteq colored
                           \/ colored \cap (1 .. 4) # {}
                        /\ phase_status.reds = (1 .. 8) \ phase_status.yellows
      BY DEF ColorsAgree
    <2>1. shown.active \subseteq 1 .. 8
      BY BufferLamps DEF TypeInv, TypeOK
    <2>2. phase_status = process_phase_status(shown)
      BY DEF ColorsInv
    <2> HIDE DEF shown
    <2>3. /\ \A phase \in 1 .. 8 :
               phase_status.colors[phase]
                 = IF phase \in shown.active
                   THEN interval_color(interval_temp(shown, phase)) ELSE RED
          /\ phase_status.yellows
               = UNION {Yellows(shown, phase) : phase \in shown.active}
          /\ phase_status.reds = (1 .. 8) \ phase_status.yellows
      BY <2>2 DEF process_phase_status, Greens
    <2>4. \A interval : interval_color(interval) = YELOW
                          <=> interval \in {12, 13}
      BY DEF interval_color, RED, YELOW, GREEN
    <2>5. \A phase \in 1 .. 8 :
             interval_temp(shown, phase) \in {12, 13}
               <=> ending(IF phase <= 4 THEN 1 ELSE 2)
      BY DEF interval_temp, Ring1
    <2>6. \A phase \in 1 .. 8 :
             phase \in colored <=>
               phase \in shown.active
                 /\ interval_temp(shown, phase) \in {12, 13}
      BY <2>3, <2>4 DEF RED, YELOW
    <2>7. colored = {phase \in shown.active :
                       ending(IF phase <= 4 THEN 1 ELSE 2)}
      BY <2>1, <2>5, <2>6
    <2>8. \A p : p \in phase_status.yellows <=>
            p \in shown.active /\ \E phase \in colored :
              p \in Ring2 \/ phase \in Ring1
      BY <2>1, <2>3, <2>6 DEF Yellows
    <2> HIDE DEF colored
    <2>9. \A p \in colored : p \in shown.active /\ (p \in Ring1 \/ p \in Ring2)
      BY <2>1, <2>7 DEF Ring1, Ring2
    <2>10. colored \subseteq phase_status.yellows
      BY <2>8, <2>9, Zenon
    <2>11. phase_status.yellows \cap Ring1 \subseteq colored
      <3>1. \A p \in Ring1 : p \notin Ring2
        BY DEF Ring1, Ring2
      <3>2. ASSUME NEW p \in phase_status.yellows, p \in Ring1
            PROVE  p \in colored
        <4>1. p \in shown.active /\ \E phase \in colored : phase \in Ring1
          BY <2>8, <3>1, <3>2
        <4>2. \E phase \in colored : ending(IF phase <= 4 THEN 1 ELSE 2)
                                      /\ phase \in Ring1
          BY <4>1, <2>7
        <4>3. ending(1)
          BY <4>2 DEF Ring1
        <4> QED
          BY <3>2, <4>1, <4>3, <2>7 DEF Ring1
      <3> QED
        BY <3>2
    <2>12. phase_status.yellows \subseteq colored \/ colored \cap Ring1 # {}
      <3> SUFFICES ASSUME colored \cap Ring1 = {},
                          NEW p \in phase_status.yellows
                   PROVE  p \in colored
        OBVIOUS
      <3>1. PICK phase \in colored : p \in Ring2 \/ phase \in Ring1
        BY <2>8
      <3>2. p \in Ring2 /\ p \in shown.active /\ phase \in Ring2
        BY <2>8, <2>9, <3>1
      <3>3. ending(2)
        BY <2>7, <3>2 DEF Ring2
      <3> QED
        BY <2>7, <3>2, <3>3 DEF Ring2
    <2>13. phase_status.yellows \subseteq shown.active
      BY <2>8
    <2> QED
      BY <2>3, <2>7, <2>10, <2>11, <2>12, <2>13 DEF Ring1
  <1> QED
    BY <1>1, <1>2, TypesInductive, ColorsStep, PTL DEF Spec
=============================================================================
