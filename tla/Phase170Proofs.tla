--------------------------- MODULE Phase170Proofs ---------------------------
(***************************************************************************)
(* Proofs about Phase170, for every plan, every list of force-offs and any *)
(* number of requests.                                                     *)
(*                                                                         *)
(* The state of the controller is given by its clocks, l and m below, what *)
(* it executes, md, and where phase 4 ends, fo.  One relation, Fits, says  *)
(* what a status of k seconds ago tells of it.  It holds of the status in  *)
(* the database and of the one the program took over (LinkInv), and with   *)
(* what is known of a priority (PrioInv, and EarlyOff and ExtensionOff for *)
(* its end) it gives the four properties.                                  *)
(*                                                                         *)
(* 2 stands for Early_Green and 3 for Green_Extension, as in the code.     *)
(***************************************************************************)
EXTENDS Phase170, SequenceTheorems, TLAPS

\* cycle_rounding with the cycle of the plan.
Rounded(n) == IF n >= Cycle THEN n - Cycle ELSE n

\* The clocks of a controller in an extension.
Extending(l, m) == \/ l = Cycle - 1 /\ m <= MAX_GE - 1
                   \/ l < Started4 /\ m = l + MAX_GE

\* When phase 4 has ended and phase 2 begins.
Ended(fo) == fo + Yellow[4] + AllRed[4]

\* What the assumption says of the plan, in the form the provers use.
LEMMA Constants ==
  /\ Cycle \in Nat /\ Cycle <= 256 /\ MaxLag \in {0, 1}
  /\ MaxSilence \in Nat /\ MaxSilence > 0
  /\ Yellow[2] \in Nat /\ Yellow[2] > 0 /\ Yellow[4] \in Nat /\ Yellow[4] > 0
  /\ AllRed[2] \in Nat /\ AllRed[4] \in Nat /\ Started4 = Yellow[2] + AllRed[2]
  /\ ForceOff[2] = 0 /\ ForceOff[4] \in Nat
  /\ Started4 \in Nat /\ Started4 > MaxLag /\ Started4 + 10 < ForceOff[4]
  /\ ForceOff[4] + Yellow[4] + AllRed[4] + 10 < Cycle
  <1>1. 2 \in Phase /\ 4 \in Phase
    BY DEF Phase
  <1>2. /\ Yellow[2] \in Nat \ {0} /\ Yellow[4] \in Nat \ {0}
        /\ AllRed[2] \in Nat /\ AllRed[4] \in Nat
        /\ ForceOff[2] \in Nat /\ ForceOff[4] \in Nat
    BY <1>1, Phase170Assumption
  <1> QED
    BY <1>2, Phase170Assumption DEF Started4, MAX_GE

LEMMA EarlyForceOffs ==
  ASSUME NEW fo \in EarlyForceOff
  PROVE  /\ fo \in Int /\ fo > Started4 /\ fo <= ForceOff[4]
         /\ Ended(fo) >= 10
  BY Constants, Phase170Assumption DEF Started4, Ended, MAX_GE

-----------------------------------------------------------------------------
(* The clocks of the controller.                                           *)

\* An early green runs while phase 4 is on, an extension from the green of
\* phase 2 on, its clocks apart, and only a priority moves the end of phase 4.
Clocks(md, l, m, fo) ==
  /\ l \in 0 .. Cycle - 1 /\ m \in 0 .. Cycle - 1
  /\ fo \in Started4 + 1 .. ForceOff[4] /\ Ended(fo) >= 10
  /\ md \in {0, 2, 3}
  /\ md # 3 => l = m
  /\ md = 2 => Started4 <= l /\ l < Ended(fo)
  /\ md = 3 => (l = m /\ l >= Ended(fo)) \/ Extending(l, m)
  /\ l < Started4 => fo = ForceOff[4]
  /\ md # 2 /\ fo # ForceOff[4] => l >= Ended(fo)

\* What a second does to them.
Second(md, l, m, fo, md2, l2, m2, fo2) ==
  /\ m2 = Rounded(m + 1)
  /\ fo2 = IF l2 = 0 THEN ForceOff[4] ELSE fo
  /\ \/ /\ l2 = Rounded(l + 1)
        /\ ~(md = 3 /\ l = Cycle - 1 /\ m # MAX_GE - 1)
        /\ ~(md = 3 /\ l + 1 = Started4)
        /\ md2 = IF md = 2 /\ l + 1 = Ended(fo) THEN 0 ELSE md
     \/ md = 3 /\ l = Cycle - 1 /\ m # MAX_GE - 1 /\ l2 = l /\ md2 = md
     \/ md = 3 /\ l + 1 = Started4 /\ l2 = m2 /\ md2 = 0

LEMMA TickIsSecond ==
  ASSUME local \in 0 .. Cycle - 1, master \in 0 .. Cycle - 1,
         mode \in {0, 2, 3}, Tick
  PROVE  Second(mode, local, master, force_off,
                mode', local', master', force_off')
  <1>1. (master + 1) % Cycle = Rounded(master + 1)
    BY Constants DEF Rounded
  <1>2. (local + 1) % Cycle = Rounded(local + 1)
    BY Constants DEF Rounded
  <1>3. /\ master' = (master + 1) % Cycle
        /\ local' = CASE Extended -> local
                      [] mode = 3 /\ local + 1 = Started4 -> master'
                      [] OTHER -> (local + 1) % Cycle
        /\ mode' = IF \/ mode = 2 /\ local + 1 = Ended(force_off)
                      \/ mode = 3 /\ local + 1 = Started4
                   THEN 0 ELSE mode
        /\ force_off' = IF local' = 0 THEN ForceOff[4] ELSE force_off
    BY DEF Tick, Early_Green, Green_Extension, Ended, Ended4
  <1>4. Extended <=> mode = 3 /\ local = Cycle - 1 /\ master # MAX_GE - 1
    BY DEF Extended, Green_Extension
  <1>5. local = Cycle - 1 => local + 1 # Started4
    BY Constants
  <1> QED
    BY <1>1, <1>2, <1>3, <1>4, <1>5 DEF Second

LEMMA SecondKeepsClocks ==
  ASSUME NEW md, NEW l, NEW m, NEW fo, NEW md2, NEW l2, NEW m2, NEW fo2,
         Clocks(md, l, m, fo), Second(md, l, m, fo, md2, l2, m2, fo2)
  PROVE  Clocks(md2, l2, m2, fo2)
  <1> USE Constants
  <1>1. CASE l2 = Rounded(l + 1) /\ md # 3
    BY <1>1 DEF Clocks, Second, Rounded, Ended
  <1>2. CASE l2 = Rounded(l + 1) /\ md = 3 /\ ~(md = 3 /\ l + 1 = Started4)
             /\ ~(md = 3 /\ l = Cycle - 1 /\ m # MAX_GE - 1)
    BY <1>2 DEF Clocks, Second, Rounded, Ended, Extending, MAX_GE
  <1>3. CASE md = 3 /\ l = Cycle - 1 /\ m # MAX_GE - 1 /\ l2 = l /\ md2 = md
    BY <1>3 DEF Clocks, Second, Rounded, Ended, Extending, MAX_GE
  <1>4. CASE md = 3 /\ l + 1 = Started4 /\ l2 = m2 /\ md2 = 0
    BY <1>4 DEF Clocks, Second, Rounded, Ended, Extending, MAX_GE
  <1> QED
    BY <1>1, <1>2, <1>3, <1>4 DEF Second

-----------------------------------------------------------------------------
(* What a status tells of the controller later on.                         *)

\* The colour of phase 4 by the local clock.
ColorAt4(l, fo) ==
  CASE l >= Started4 /\ l < fo -> "green"
    [] l >= fo /\ l < fo + Yellow[4] -> "yellow"
    [] OTHER -> "red"

\* A status of k seconds ago, of a controller at l and m.
Fits(s, k, l, m, fo) ==
  /\ m = Rounded(s.master + k)
  /\ s.local # s.master =>
       Extending(s.local, s.master) /\ s.state[4] = "red"
  /\ s.local = s.master /\ l # m => m < k
  /\ s.state[2] \in Color /\ s.state[4] \in Color
  /\ s.state[2] = "green" =>
       s.state[4] = "red" /\ s.local >= Started4 + 1 + Yellow[4] + AllRed[4]
  /\ s.state[2] = "yellow" => s.state[4] = "red" /\ s.local < Yellow[2]
  /\ s.state[2] = "red" => s.local >= Yellow[2]
  /\ k <= 3 /\ s.state[2] = "green" /\ l >= s.local => l >= Ended(fo)
  /\ k <= 3 /\ s.state[2] # "green" =>
       s.local < Ended(fo) /\ s.state[4] = ColorAt4(s.local, fo)

\* A second later the status is a second older and tells as much.
LEMMA SecondKeepsFits ==
  ASSUME NEW md, NEW l, NEW m, NEW fo, NEW md2, NEW l2, NEW m2, NEW fo2,
         Clocks(md, l, m, fo), Second(md, l, m, fo, md2, l2, m2, fo2),
         NEW s, NEW k \in Nat, k + 1 < Cycle,
         s.local \in 0 .. Cycle - 1, s.master \in 0 .. Cycle - 1,
         Fits(s, k, l, m, fo)
  PROVE  Fits(s, k + 1, l2, m2, fo2)
  <1> USE Constants
  <1>0. l2 \in Int /\ l \in Int /\ m \in Int /\ fo \in Int /\ s.local \in Int
        /\ s.master \in Int
    BY SecondKeepsClocks DEF Clocks
  <1>1. m2 = Rounded(s.master + (k + 1))
    BY DEF Clocks, Second, Fits, Rounded
  <1>4. s.local = s.master /\ l2 # m2 => m2 < k + 1
    BY <1>0, <1>1 DEF Clocks, Second, Fits, Rounded, Extending, MAX_GE
  <1>2. ASSUME k + 1 <= 3, s.state[2] = "green", l2 >= s.local
        PROVE  l2 >= Ended(fo2)
    <2>1. CASE l2 = 0
      BY <2>1, <1>2 DEF Fits
    <2>2. CASE l2 # 0 /\ l >= s.local
      <3>1. l >= Ended(fo) /\ fo2 = fo
        BY <1>2, <2>2 DEF Fits, Second
      <3> QED
        BY <3>1, <2>2, <1>0
           DEF Second, Rounded, Ended, Clocks, Extending, MAX_GE
    <2>3. CASE l2 # 0 /\ l < s.local
      <3>1. s.local >= Started4 + 1 + Yellow[4] + AllRed[4]
        BY <1>2 DEF Fits
      <3> QED
        BY <3>1, <2>3, <1>0, <1>2
           DEF Second, Rounded, Ended, Clocks, Extending, MAX_GE, Fits
    <2> QED
      BY <2>1, <2>2, <2>3, <1>0
  <1>3. ASSUME k + 1 <= 3, s.state[2] # "green"
        PROVE  s.local < Ended(fo2) /\ s.state[4] = ColorAt4(s.local, fo2)
    <2>1. s.local < Ended(fo) /\ s.state[4] = ColorAt4(s.local, fo)
      BY <1>3 DEF Fits
    <2>2. fo2 = fo
      <3>1. CASE l2 # 0
        BY <3>1 DEF Second
      <3>2. CASE l2 = 0
        BY <3>2, <1>0, <1>3, <2>1
           DEF Second, Rounded, Ended, Clocks, Extending, MAX_GE, Fits
      <3> QED
        BY <3>1, <3>2
    <2> QED
      BY <2>1, <2>2
  <1> QED
    BY <1>1, <1>2, <1>3, <1>4 DEF Fits

-----------------------------------------------------------------------------
(* The triggers that wait to be read, at most one of each.                 *)

OnlyStatus == <<"status">>
OnlyRequest == <<"request">>
StatusRequest == <<"status", "request">>
RequestStatus == <<"request", "status">>
Triggers == {<<>>, OnlyStatus, OnlyRequest, StatusRequest, RequestStatus}

\* A status waits and will be read before any request.
StatusFirst == triggers \in {OnlyStatus, StatusRequest}

LEMMA TriggersDiffer ==
  /\ OnlyStatus # <<>> /\ OnlyRequest # <<>>
  /\ StatusRequest # <<>> /\ RequestStatus # <<>>
  /\ OnlyStatus # OnlyRequest /\ OnlyStatus # StatusRequest
  /\ OnlyStatus # RequestStatus /\ OnlyRequest # StatusRequest
  /\ OnlyRequest # RequestStatus /\ StatusRequest # RequestStatus
  BY DEF OnlyStatus, OnlyRequest, StatusRequest, RequestStatus

LEMMA HeadsAndTails ==
  /\ Head(OnlyStatus) = "status" /\ Tail(OnlyStatus) = <<>>
  /\ Head(OnlyRequest) = "request" /\ Tail(OnlyRequest) = <<>>
  /\ Head(StatusRequest) = "status" /\ Tail(StatusRequest) = OnlyRequest
  /\ Head(RequestStatus) = "request" /\ Tail(RequestStatus) = OnlyStatus
  <1>1. /\ Head(OnlyStatus) = "status" /\ Tail(OnlyStatus) = <<>>
        /\ Head(OnlyRequest) = "request" /\ Tail(OnlyRequest) = <<>>
    BY DEF OnlyStatus, OnlyRequest
  <1>2. Head(StatusRequest) = "status" /\ Tail(StatusRequest) = OnlyRequest
    BY DEF StatusRequest, OnlyRequest
  <1>3. Head(RequestStatus) = "request" /\ Tail(RequestStatus) = OnlyStatus
    BY DEF RequestStatus, OnlyStatus
  <1> QED
    BY <1>1, <1>2, <1>3

LEMMA AppendToOne ==
  ASSUME NEW a, NEW b
  PROVE  Append(<<a>>, b) = <<a, b>>
  <1> DEFINE S == {a, b}
             s == Append(<<a>>, b)
             t == <<a, b>>
  <1>1. /\ <<a>> \in Seq(S) /\ t \in Seq(S) /\ b \in S
        /\ Len(<<a>>) = 1 /\ <<a>>[1] = a
    OBVIOUS
  <1>2. s \in Seq(S) /\ Len(s) = 2 /\ s[1] = a /\ s[2] = b
    BY <1>1, AppendProperties
  <1>3. Len(t) = 2 /\ t[1] = a /\ t[2] = b
    OBVIOUS
  <1> HIDE DEF S, s, t
  <1>4. \A i \in 1 .. Len(s) : s[i] = t[i]
    BY <1>2, <1>3
  <1>5. s = t
    BY <1>1, <1>2, <1>3, <1>4, SeqEqual
  <1> QED
    BY <1>5 DEF s, t

LEMMA Appended ==
  /\ Append(<<>>, "status") = OnlyStatus
  /\ Append(<<>>, "request") = OnlyRequest
  /\ Append(OnlyStatus, "request") = StatusRequest
  /\ Append(OnlyRequest, "status") = RequestStatus
  BY AppendToOne
     DEF OnlyStatus, OnlyRequest, StatusRequest, RequestStatus

\* Which sequences hold a status, and which a request.
LEMMA PendingIn ==
  ASSUME NEW t \in Triggers
  PROVE  /\ (\E i \in DOMAIN t : t[i] = "status")
              <=> t \in {OnlyStatus, StatusRequest, RequestStatus}
         /\ (\E i \in DOMAIN t : t[i] = "request")
              <=> t \in {OnlyRequest, StatusRequest, RequestStatus}
  BY DEF Triggers, OnlyStatus, OnlyRequest, StatusRequest, RequestStatus

LEMMA WhatIsPending ==
  ASSUME triggers \in Triggers
  PROVE  /\ Pending("status")
              <=> triggers \in {OnlyStatus, StatusRequest, RequestStatus}
         /\ Pending("request")
              <=> triggers \in {OnlyRequest, StatusRequest, RequestStatus}
  BY PendingIn DEF Pending

LEMMA WhatIsPendingNext ==
  ASSUME triggers' \in Triggers
  PROVE  /\ Pending("status")'
              <=> triggers' \in {OnlyStatus, StatusRequest, RequestStatus}
         /\ Pending("request")'
              <=> triggers' \in {OnlyRequest, StatusRequest, RequestStatus}
  BY PendingIn DEF Pending

\* What writing and reading a trigger does to the ones that wait.
LEMMA StatusWritten ==
  ASSUME triggers \in Triggers, Written("status")
  PROVE  /\ triggers' \in Triggers
         /\ Pending("request")' <=> Pending("request")
         /\ Pending("status")'
         /\ ~Pending("status") => (StatusFirst' <=> triggers = <<>>)
         /\ Pending("status") => triggers' = triggers
  <1>1. CASE Pending("status")
    BY <1>1 DEF Written, Pending
  <1>2. CASE ~Pending("status")
    <2>1. \/ triggers = <<>> /\ triggers' = OnlyStatus
          \/ triggers = OnlyRequest /\ triggers' = RequestStatus
      BY <1>2, WhatIsPending, Appended DEF Written, Triggers
    <2> QED
      BY <1>2, <2>1, TriggersDiffer, WhatIsPending, WhatIsPendingNext
         DEF Triggers, StatusFirst
  <1> QED
    BY <1>1, <1>2

LEMMA RequestWritten ==
  ASSUME triggers \in Triggers, Written("request")
  PROVE  /\ triggers' \in Triggers
         /\ Pending("status")' <=> Pending("status")
         /\ Pending("request")'
         /\ StatusFirst' <=> StatusFirst
  <1>1. CASE Pending("request")
    BY <1>1 DEF Written, Pending, StatusFirst
  <1>2. CASE ~Pending("request")
    <2>1. \/ triggers = <<>> /\ triggers' = OnlyRequest
          \/ triggers = OnlyStatus /\ triggers' = StatusRequest
      BY <1>2, WhatIsPending, Appended DEF Written, Triggers
    <2> QED
      BY <1>2, <2>1, TriggersDiffer, WhatIsPending, WhatIsPendingNext
         DEF Triggers, StatusFirst
  <1> QED
    BY <1>1, <1>2

LEMMA StatusReceived ==
  ASSUME triggers \in Triggers, Received("status")
  PROVE  /\ triggers' \in Triggers
         /\ StatusFirst /\ ~StatusFirst'
         /\ Pending("status") /\ ~Pending("status")'
         /\ Pending("request")' <=> Pending("request")
  <1>1. \/ triggers = OnlyStatus /\ triggers' = <<>>
        \/ triggers = StatusRequest /\ triggers' = OnlyRequest
    BY HeadsAndTails DEF Received, Triggers
  <1> QED
    BY <1>1, TriggersDiffer, WhatIsPending, WhatIsPendingNext
       DEF Triggers, StatusFirst

LEMMA RequestReceived ==
  ASSUME triggers \in Triggers, Received("request")
  PROVE  /\ triggers' \in Triggers
         /\ ~StatusFirst /\ (StatusFirst' <=> Pending("status"))
         /\ Pending("request") /\ ~Pending("request")'
         /\ Pending("status")' <=> Pending("status")
  <1>1. \/ triggers = OnlyRequest /\ triggers' = <<>>
        \/ triggers = RequestStatus /\ triggers' = OnlyStatus
    BY HeadsAndTails DEF Received, Triggers
  <1> QED
    BY <1>1, TriggersDiffer, WhatIsPending, WhatIsPendingNext
       DEF Triggers, StatusFirst

-----------------------------------------------------------------------------
(* Types, and the clocks of the controller.                                *)

Clock == 0 .. Cycle - 1

Statuses == [ringA_phase : Phase, ringA_interval : {1, 12, 15},
             local : Clock, master : Clock, pattern : {0, 1}]

Signals == [state : [Phase -> Color \cup {"none"}],
            local : Clock, master : Clock, pattern : {0, 1}]

\* The types, and what goes with them by the guards alone: a request waits only
\* in the second it was made, and a status that is read is fresh.
TypeInv ==
  /\ Clocks(mode, local, master, force_off)
  /\ plan \in {0, 1} /\ (mode # 0 => plan = 1 /\ db_request.type = mode)
  /\ mode = 2 => force_off = db_request.desired_force_off
  /\ db_status \in Statuses /\ age \in 0 .. MaxSilence
  /\ triggers \in Triggers /\ signal_trig \in BOOLEAN
  /\ signal \in Signals /\ gap \in 0 .. MaxGap + 1 /\ pattern \in {0, 1}
  /\ priority_status \in {0, 2, 3} /\ lag \in 0 .. MaxLag
  /\ frees \in Nat
  /\ Pending("request") => mode # 0 /\ age = 0
  /\ StatusFirst /\ db_status.master # signal.master => age <= MaxLag

LEMMA StatusType ==
  ASSUME TypeInv
  PROVE  Status \in Statuses
  <1>1. ActivePhase \in Phase
    BY DEF ActivePhase, Phase
  <1>2. Interval \in {1, 12, 15}
    BY DEF Interval
  <1> QED
    BY <1>1, <1>2 DEF Status, Statuses, TypeInv, Clocks, Clock

LEMMA HeadColor ==
  ASSUME NEW i
  PROVE  update_head_color(i) \in Color
  BY DEF update_head_color, Color

LEMMA SignalType ==
  ASSUME NEW s \in Statuses
  PROVE  Signal(s) \in Signals
  <1>1. s.local \in Clock /\ s.master \in Clock /\ s.pattern \in {0, 1}
    BY DEF Statuses
  <1>2. [p \in Phase |-> IF p = s.ringA_phase
                         THEN update_head_color(s.ringA_interval) ELSE "red"]
          \in [Phase -> Color \cup {"none"}]
    BY HeadColor DEF Color
  <1> QED
    BY <1>1, <1>2 DEF Signal, Signals

LEMMA TypeInit ==
  ASSUME Init
  PROVE  TypeInv
  <1> USE Constants
  <1>1. Clocks(mode, local, master, force_off)
    <2>1. /\ local \in {0, Cycle - 1} /\ master = local /\ mode = 0
          /\ force_off = ForceOff[4]
      BY DEF Init
    <2> QED
      BY <2>1 DEF Clocks, Ended, Clock
  <1>2. triggers = <<>> /\ triggers \in Triggers
    BY DEF Init, Triggers
  <1>3. ~StatusFirst /\ ~Pending("request")
    BY <1>2, TriggersDiffer, WhatIsPending DEF StatusFirst
  <1>4. signal \in Signals
    <2>1. 0 \in Clock /\ 0 \in {0, 1}
      BY DEF Clock
    <2>2. [p \in Phase |-> "none"] \in [Phase -> Color \cup {"none"}]
      OBVIOUS
    <2>3. signal = [state |-> [p \in Phase |-> "none"], local |-> 0,
                    master |-> 0, pattern |-> 0]
      BY DEF Init
    <2> HIDE Constants
    <2> QED
      BY ONLY <2>1, <2>2, <2>3 DEF Signals
  <1>5. Status \in Statuses
    <2>1. ActivePhase \in Phase
      BY DEF ActivePhase, Phase
    <2>2. Interval \in {1, 12, 15}
      BY DEF Interval
    <2> QED
      BY <1>1, <2>1, <2>2 DEF Status, Statuses, Clocks, Clock, Init
  <1>6. /\ plan \in {0, 1} /\ mode = 0 /\ db_status = Status
        /\ signal_trig \in BOOLEAN /\ gap = MaxGap + 1 /\ pattern = 0
        /\ priority_status = 0 /\ lag = 0 /\ frees = 0
    BY DEF Init
  <1>7. age \in 0 .. MaxSilence
    BY DEF Init
  <1>8. gap \in 0 .. MaxGap + 1 /\ lag \in 0 .. MaxLag /\ frees \in Nat
    BY <1>6 DEF MaxGap
  <1> QED
    BY <1>1, <1>2, <1>3, <1>4, <1>5, <1>6, <1>7, <1>8 DEF TypeInv

LEMMA TypeNext ==
  ASSUME TypeInv, [Next]_vars
  PROVE  TypeInv'
  <1> USE Constants
  <1>1. CASE Tick
    <2>1. Clocks(mode', local', master', force_off')
      BY <1>1, TickIsSecond, SecondKeepsClocks DEF TypeInv, Clocks
    <2>2. age' \in 0 .. MaxSilence /\ gap' \in 0 .. MaxGap + 1
      BY <1>1 DEF Tick, TypeInv, MaxGap
    <2>3. /\ mode' # 0 => mode # 0
          /\ mode' = 2 => mode = 2 /\ local' # 0 /\ force_off' = force_off
      BY <1>1, TickIsSecond, <2>1
         DEF Tick, TypeInv, Second, Clocks
    <2>4. StatusFirst' /\ db_status'.master # signal'.master => age' <= MaxLag
      <3>1. StatusFirst => Pending("status")
        BY WhatIsPending DEF TypeInv, StatusFirst
      <3> QED
        BY <3>1, <1>1 DEF Tick, TypeInv, StatusFirst
    <2> QED
      BY <1>1, <2>1, <2>2, <2>3, <2>4 DEF Tick, TypeInv, Pending, Early_Green
  <1>2. CASE Poll
    <2>1. /\ triggers' \in Triggers
          /\ Pending("request")' <=> Pending("request")
      BY <1>2, StatusWritten DEF Poll, TypeInv
    <2> QED
      <3>1. UNCHANGED <<controller, db_request, trace, observed, frees>>
        BY <1>2 DEF Poll
      <3>2. db_status' \in Statuses /\ age' = 0
        BY <1>2, StatusType DEF Poll
      <3>3. /\ mode' = mode /\ local' = local /\ master' = master
            /\ force_off' = force_off /\ plan' = plan
            /\ db_request' = db_request /\ signal_trig' = signal_trig
            /\ signal' = signal /\ gap' = gap /\ pattern' = pattern
            /\ priority_status' = priority_status /\ lag' = lag
            /\ frees' = frees
        BY <3>1 DEF controller, trace, observed
      <3> QED
        BY <2>1, <3>2, <3>3 DEF TypeInv
  <1>3. CASE Repeat
    <2>1. /\ triggers' \in Triggers
          /\ Pending("request")' <=> Pending("request")
      BY <1>3, StatusWritten DEF Repeat, TypeInv
    <2> QED
      <3>1. /\ UNCHANGED <<controller, db_request, trace, observed, frees>>
            /\ UNCHANGED <<db_status, age>>
        BY <1>3 DEF Repeat
      <3>2. db_status'.master = signal'.master
        BY <1>3 DEF Repeat, trace
      <3>3. /\ mode' = mode /\ local' = local /\ master' = master
            /\ force_off' = force_off /\ plan' = plan
            /\ db_request' = db_request /\ signal_trig' = signal_trig
            /\ signal' = signal /\ gap' = gap /\ pattern' = pattern
            /\ priority_status' = priority_status /\ lag' = lag
            /\ frees' = frees
        BY <3>1 DEF controller, trace, observed
      <3> QED
        BY <2>1, <3>2, <3>3, <3>1 DEF TypeInv
  <1>4. CASE Request
    <2>1. /\ triggers' \in Triggers /\ (StatusFirst' <=> StatusFirst)
      BY <1>4, RequestWritten DEF Request, TypeInv
    <2>2. /\ Clocks(mode', local', master', force_off') /\ mode' # 0
          /\ mode' = db_request'.type
          /\ mode' = 2 => force_off' = db_request'.desired_force_off
      <3>1. CASE mode' = Green_Extension
        BY <3>1, <1>4 DEF Request, TypeInv, Clocks, Shown, Ended4, Ended,
             Green_Extension, Early_Green
      <3>2. CASE mode' = Early_Green
        <4>1. PICK fo \in EarlyForceOff :
                /\ Shown(4) = "green" /\ local < fo
                /\ force_off' = fo
                /\ db_request' =
                     [type |-> Early_Green, desired_force_off |-> fo,
                      execution_phase |-> 2]
          BY <3>2, <1>4 DEF Request, Green_Extension, Early_Green
        <4>2. local >= Started4
          BY <4>1 DEF Shown
        <4> QED
          BY <4>1, <4>2, <3>2, <1>4, EarlyForceOffs
             DEF Request, TypeInv, Clocks, Ended, Early_Green
      <3> QED
        BY <1>4, <3>1, <3>2 DEF Request
    <2> QED
      BY <1>4, <2>1, <2>2 DEF Request, TypeInv, trace, observed
  <1>5. CASE Free
    BY <1>5 DEF Free, TypeInv, database, trace, observed, Pending, StatusFirst
  <1>6. CASE StatusTrigger
    <2>1. /\ triggers' \in Triggers /\ ~StatusFirst' /\ StatusFirst
          /\ Pending("request")' <=> Pending("request")
      BY <1>6, StatusReceived DEF StatusTrigger, TypeInv
    <2>2. /\ signal' \in Signals /\ gap' \in 0 .. MaxGap + 1
          /\ lag' \in 0 .. MaxLag
      <3>1. CASE db_status.master # signal.master
        BY <1>6, <2>1, <3>1, SignalType DEF StatusTrigger, TypeInv, MaxGap
      <3>2. CASE db_status.master = signal.master
        BY <1>6, <3>2 DEF StatusTrigger, TypeInv
      <3> QED
        BY <3>1, <3>2
    <2> QED
      BY <1>6, <2>1, <2>2 DEF StatusTrigger, TypeInv, controller
  <1>7. CASE RequestTrigger
    <2>1. /\ triggers' \in Triggers
          /\ ~Pending("request")' /\ Pending("request")
          /\ StatusFirst' => Pending("status") /\ ~StatusFirst
      BY <1>7, RequestReceived DEF RequestTrigger, TypeInv
    <2>2. pattern' \in {0, 1}
      BY <1>7 DEF RequestTrigger, TypeInv, Signals
    <2>3. priority_status' \in {0, 2, 3}
      BY <1>7, <2>1 DEF RequestTrigger, TypeInv, Clocks
    <2> QED
      BY <1>7, <2>1, <2>2, <2>3 DEF RequestTrigger, TypeInv, controller
  <1>8. CASE Timer
    <2>1. pattern' \in {0, 1}
      BY <1>8 DEF Timer, TypeInv, Signals
    <2>2. priority_status' \in {0, 2, 3} /\ signal_trig' \in BOOLEAN
      BY <1>8 DEF Timer, TypeInv
    <2> QED
      BY <1>8, <2>1, <2>2
         DEF Timer, TypeInv, controller, database, Pending, StatusFirst
  <1>9. CASE UNCHANGED vars
    BY <1>9
       DEF vars, controller, database, trace, observed, TypeInv, Pending,
           StatusFirst
  <1> QED
    BY <1>1, <1>2, <1>3, <1>4, <1>5, <1>6, <1>7, <1>8, <1>9 DEF Next

-----------------------------------------------------------------------------
(* What is in the database and what was taken over fit the controller.     *)

\* The status in the database as the program would take it over, and that it
\* has taken one over.
Db == Signal(db_status)
Taken == signal.state[2] \in Color

LEMMA SignalFields ==
  ASSUME NEW s \in Statuses
  PROVE  /\ Signal(s).local = s.local /\ Signal(s).master = s.master
         /\ Signal(s).pattern = s.pattern
         /\ s.local \in Clock /\ s.master \in Clock
         /\ Signal(s).state[2] \in Color /\ Signal(s).state[4] \in Color
  <1>1. \A p \in Phase : Signal(s).state[p] \in Color
    BY HeadColor DEF Signal, Color
  <1> QED
    BY <1>1 DEF Signal, Statuses, Phase

\* A status shows the lights.
LEMMA StatusShows ==
  ASSUME TypeInv
  PROVE  /\ Signal(Status).state[2] = Shown(2)
         /\ Signal(Status).state[4] = Shown(4)
         /\ Signal(Status).local = local /\ Signal(Status).master = master
         /\ Signal(Status).pattern = plan
  <1> USE Constants
  <1>0. /\ local \in Int /\ force_off \in Int /\ force_off > Started4
    BY DEF TypeInv, Clocks
  <1>1. /\ Signal(Status).state[2]
             = IF ActivePhase = 2 THEN update_head_color(Interval) ELSE "red"
        /\ Signal(Status).state[4]
             = IF ActivePhase = 4 THEN update_head_color(Interval) ELSE "red"
        /\ Signal(Status).local = local /\ Signal(Status).master = master
        /\ Signal(Status).pattern = plan
    BY DEF Signal, Status, Phase, ActivePhase
  <1>2. Shown(2) \in Color /\ Shown(4) \in Color
    BY DEF Shown, Color
  <1>3. update_head_color(Interval) = Shown(ActivePhase)
    BY <1>2 DEF Interval, update_head_color, Color, ActivePhase
  <1>4. ActivePhase = 2 => Shown(4) = "red"
    BY <1>0 DEF ActivePhase, Shown, Ended4
  <1>5. ActivePhase = 4 => Shown(2) = "red"
    BY <1>0 DEF ActivePhase, Shown, Ended4
  <1> QED
    BY <1>1, <1>3, <1>4, <1>5 DEF ActivePhase

\* A status just polled fits the controller.
LEMMA StatusFits ==
  ASSUME TypeInv
  PROVE  Fits(Signal(Status), 0, local, master, force_off)
  <1> USE Constants
  <1> DEFINE s == Signal(Status)
  <1>0. /\ local \in Int /\ force_off \in Int /\ force_off > Started4
        /\ local >= 0 /\ local < Cycle /\ master \in Int /\ master < Cycle
        /\ force_off <= ForceOff[4]
    BY DEF TypeInv, Clocks
  <1>1. /\ s.state[2] = Shown(2) /\ s.state[4] = Shown(4)
        /\ s.local = local /\ s.master = master
    BY StatusShows
  <1>2. local # master => Extending(local, master) /\ Shown(4) = "red"
    <2>1. local # master => Extending(local, master)
      BY DEF TypeInv, Clocks
    <2> QED
      BY <2>1, <1>0 DEF Extending, Shown
  <1>3. Shown(2) \in Color /\ Shown(4) \in Color
    BY DEF Shown, Color
  <1>5. Shown(2) = "green" =>
          /\ Shown(4) = "red" /\ local >= Started4 + 1 + Yellow[4] + AllRed[4]
          /\ local >= Ended(force_off)
    BY <1>0 DEF Shown, Ended4, Ended
  <1>6. Shown(2) = "yellow" => Shown(4) = "red" /\ local < Yellow[2]
    BY <1>0 DEF Shown, Ended4
  <1>7. Shown(2) = "red" => local >= Yellow[2]
    BY <1>0 DEF Shown, Ended4
  <1>8. Shown(2) # "green" => local < Ended(force_off)
    BY <1>0 DEF Shown, Ended4, Ended
  <1>9. Shown(4) = ColorAt4(local, force_off)
    BY DEF Shown, ColorAt4
  <1> HIDE DEF s
  <1>10. master = Rounded(s.master + 0)
    BY <1>0, <1>1 DEF Rounded
  <1>11. Fits(s, 0, local, master, force_off)
    BY <1>1, <1>2, <1>3, <1>5, <1>6, <1>7, <1>8, <1>9, <1>10 DEF Fits
  <1> QED
    BY <1>11 DEF s

\* Ending phase 4 early changes nothing a status has told.
LEMMA RequestKeepsFits ==
  ASSUME NEW l, NEW m, NEW fo, NEW fo2 \in EarlyForceOff, NEW s, NEW k \in Nat,
         Clocks(0, l, m, fo), l >= Started4, l < fo, l < fo2,
         s.local \in Clock, s.master \in Clock, Fits(s, k, l, m, fo)
  PROVE  Fits(s, k, l, m, fo2)
  <1> USE Constants
  <1>0. /\ l \in Int /\ m \in Int /\ fo \in Int /\ fo2 \in Int /\ l = m
        /\ fo <= ForceOff[4] /\ fo2 <= ForceOff[4]
        /\ s.local \in Int /\ s.master \in Int
    BY EarlyForceOffs DEF Clocks, Clock
  <1>1. ~(k <= 3 /\ s.state[2] = "green" /\ l >= s.local)
    BY <1>0 DEF Fits, Ended
  <1>2. ASSUME k <= 3, s.state[2] # "green"
        PROVE  s.local <= l
    <2>1. s.local < Ended(fo)
      BY <1>2 DEF Fits
    <2> QED
      BY <2>1, <1>0, <1>2 DEF Fits, Ended, Rounded, Extending, Clock, MAX_GE
  <1>3. ASSUME k <= 3, s.state[2] # "green"
        PROVE  s.local < Ended(fo2) /\ s.state[4] = ColorAt4(s.local, fo2)
    BY <1>0, <1>2, <1>3 DEF Fits, Ended, ColorAt4
  <1> QED
    BY <1>1, <1>3 DEF Fits

\* The status in the database is age seconds old, the one taken over gap + lag;
\* they are the same unless a newer one waits.
LinkInv ==
  /\ Taken \/ (StatusFirst /\ db_status.master # 0) =>
       Fits(Db, age, local, master, force_off)
  /\ gap <= MaxGap =>
       Taken /\ Fits(signal, gap + lag, local, master, force_off)
  /\ ~Taken => /\ signal.master = 0 /\ signal.local = 0 /\ priority_status = 0
               /\ ~StatusFirst => age >= 1 \/ db_status.master = 0
  /\ Taken /\ ~StatusFirst => signal = Db
  /\ Taken /\ StatusFirst => signal = Db \/ signal.master # db_status.master
  /\ Pending("request") =>
       db_status = Status /\ master # 0 /\ local = master

LEMMA DbFields ==
  ASSUME TypeInv
  PROVE  /\ Db.local = db_status.local /\ Db.master = db_status.master
         /\ Db.pattern = db_status.pattern
         /\ Db.local \in Clock /\ Db.master \in Clock
         /\ Db.state[2] \in Color /\ Db.state[4] \in Color
         /\ signal.local \in Clock /\ signal.master \in Clock
  BY SignalFields DEF TypeInv, Db, Signals

LEMMA LinkInit ==
  ASSUME Init
  PROVE  LinkInv
  <1>1. ~StatusFirst /\ ~Pending("request")
    <2>1. triggers = <<>> /\ triggers \in Triggers
      BY DEF Init, Triggers
    <2> QED
      BY <2>1, TriggersDiffer, WhatIsPending DEF StatusFirst
  <1>2. signal.state[2] = "none" /\ signal.master = 0 /\ signal.local = 0
    BY DEF Init, Phase
  <1>3. ~Taken
    BY <1>2 DEF Taken, Color
  <1>4. age >= 1 /\ ~(gap <= MaxGap) /\ priority_status = 0
    BY DEF Init, MaxGap
  <1> QED
    BY <1>1, <1>2, <1>3, <1>4 DEF LinkInv

\* No poll comes a whole cycle after the one before.
PollsInCycle == MaxSilence < Cycle

LEMMA TickLinked ==
  ASSUME TypeInv, LinkInv, Tick, PollsInCycle
  PROVE  LinkInv'
  <1> USE Constants
  <1>1. /\ UNCHANGED <<db_status, triggers, signal, lag, priority_status>>
        /\ age' = age + 1 /\ ~Pending("request") /\ age < MaxSilence
        /\ gap' = IF gap > MaxGap THEN gap ELSE gap + 1
    BY DEF Tick
  <1>2. /\ Clocks(mode, local, master, force_off)
        /\ Second(mode, local, master, force_off,
                  mode', local', master', force_off')
    BY TickIsSecond DEF TypeInv, Clocks
  <1>3. /\ age \in Nat /\ age + 1 < Cycle /\ gap \in Nat /\ lag \in 0 .. 1
    BY <1>1 DEF TypeInv, PollsInCycle, MaxGap
  <1>4. Taken' <=> Taken
    BY <1>1 DEF Taken
  <1>5. (StatusFirst' <=> StatusFirst) /\ ~Pending("request")' /\ Db' = Db
    BY <1>1 DEF StatusFirst, Pending, Db
  <1>6. ASSUME Taken \/ (StatusFirst /\ db_status.master # 0)
        PROVE  Fits(Db, age + 1, local', master', force_off')
    BY <1>2, <1>3, <1>6, DbFields, SecondKeepsFits DEF LinkInv, Clock
  <1>7. ASSUME gap <= MaxGap
        PROVE  Fits(signal, gap + lag + 1, local', master', force_off')
    <2>1. gap + lag \in Nat /\ gap + lag + 1 < Cycle
      BY <1>3, <1>7 DEF MaxGap
    <2> QED
      BY <2>1, <1>2, <1>7, DbFields, SecondKeepsFits DEF LinkInv, Clock
  <1>8. gap' <= MaxGap =>
           Taken' /\ Fits(signal', gap' + lag', local', master', force_off')
    <2>1. gap' <= MaxGap => gap <= MaxGap /\ gap' + lag' = gap + lag + 1
      BY <1>1, <1>3 DEF MaxGap
    <2> QED
      BY <2>1, <1>1, <1>4, <1>7 DEF LinkInv
  <1>9. Taken' \/ (StatusFirst' /\ db_status'.master # 0) =>
          Fits(Db', age', local', master', force_off')
    BY <1>1, <1>4, <1>5, <1>6
  <1>10. age' >= 1 /\ ~Pending("request")'
    BY <1>1, <1>3, <1>5
  <1>11. UNCHANGED <<db_status, signal, priority_status>>
    BY <1>1
  <1> QED
    BY <1>4, <1>5, <1>8, <1>9, <1>10, <1>11 DEF LinkInv

LEMMA LinkNext ==
  ASSUME TypeInv, LinkInv, [Next]_vars, PollsInCycle
  PROVE  LinkInv'
  <1> USE Constants
  <1>1. CASE Tick
    BY <1>1, TickLinked
  <1>2. CASE Poll
    <2>1. /\ UNCHANGED <<local, master, force_off, signal, gap, lag,
                         priority_status>>
          /\ db_status' = Status /\ age' = 0 /\ age > 0
      BY <1>2 DEF Poll, controller, trace, observed
    <2>2. ~Pending("request") /\ ~Pending("request")' /\ triggers = <<>>
          /\ StatusFirst' /\ ~StatusFirst
      BY <1>2, <2>1, StatusWritten, WhatIsPending, TriggersDiffer
         DEF Poll, TypeInv, Triggers, StatusFirst
    <2>3. Fits(Db', age', local', master', force_off')
      BY <2>1, StatusFits DEF Db
    <2>4. Taken' <=> Taken
      BY <2>1 DEF Taken
    <2>5. ASSUME Taken
          PROVE  signal'.master # db_status'.master
      <3>1. signal = Db /\ Fits(Db, age, local, master, force_off)
        BY <2>2, <2>5 DEF LinkInv
      <3>2. master = Rounded(signal.master + age) /\ db_status'.master = master
        BY <3>1, <2>1 DEF Fits, Status
      <3>3. age \in Nat /\ age < Cycle /\ signal.master \in Clock
        BY DbFields DEF TypeInv, PollsInCycle
      <3> QED
        BY <3>2, <3>3, <2>1 DEF Rounded, Clock
    <2> QED
      BY <2>1, <2>2, <2>3, <2>4, <2>5 DEF LinkInv
  <1>3. CASE Repeat
    <2>1. /\ UNCHANGED <<local, master, mode, force_off, plan, signal, gap, lag,
                         priority_status, db_status, age>>
          /\ db_status.master = signal.master /\ ~Pending("status")
      BY <1>3 DEF Repeat, controller, trace, observed
    <2>2. /\ Pending("request")' <=> Pending("request")
          /\ ~StatusFirst
      BY <1>3, <2>1, StatusWritten, WhatIsPending
         DEF Repeat, TypeInv, StatusFirst
    <2>3. (Taken' <=> Taken) /\ Db' = Db /\ Status' = Status
      BY <2>1 DEF Taken, Db, Status, ActivePhase, Interval, Shown, Ended4
    <2> QED
      BY <2>1, <2>2, <2>3 DEF LinkInv
  <1>4. CASE Request
    <2>1. /\ UNCHANGED <<local, master, plan, signal, gap, lag,
                         priority_status, db_status, age>>
          /\ db_status = Status /\ age = 0 /\ mode = 0
      BY <1>4 DEF Request, controller, trace, observed
    <2>2. StatusFirst' <=> StatusFirst
      BY <1>4, RequestWritten DEF Request, TypeInv
    <2>3. (Taken' <=> Taken) /\ Db' = Db
      BY <2>1 DEF Taken, Db
    <2>4. /\ \/ force_off' = force_off
             \/ /\ force_off' \in EarlyForceOff
                /\ local >= Started4 /\ local < force_off /\ local < force_off'
          /\ local # 0
      <3>1. CASE mode' = Green_Extension
        <4>1. Shown(2) = "green" /\ force_off' = force_off
          BY <1>4, <3>1 DEF Request, Green_Extension, Early_Green
        <4> QED
          BY <4>1 DEF Shown, Ended4, TypeInv, Clocks
      <3>2. CASE mode' = Early_Green
        <4>1. /\ Shown(4) = "green" /\ force_off' \in EarlyForceOff
              /\ local < force_off'
          BY <1>4, <3>2 DEF Request, Green_Extension, Early_Green
        <4> QED
          BY <4>1 DEF Shown, TypeInv, Clocks
      <3> QED
        BY <1>4, <3>1, <3>2 DEF Request
    <2>5. Clocks(0, local, master, force_off)
      BY <2>1 DEF TypeInv
    <2>6. /\ age \in Nat /\ gap + lag \in Nat
      BY DEF TypeInv
    <2>7. /\ Taken \/ (StatusFirst /\ db_status.master # 0) =>
               Fits(Db, age, local, master, force_off')
      BY <2>4, <2>5, <2>6, DbFields, RequestKeepsFits DEF LinkInv
    <2>8. gap <= MaxGap =>
            Taken /\ Fits(signal, gap + lag, local, master, force_off')
      BY <2>4, <2>5, <2>6, DbFields, RequestKeepsFits DEF LinkInv
    <2>9. Status' = Status /\ master # 0 /\ local = master
      <3>1. local' = local /\ plan' = plan /\ master' = master
        BY <2>1
      <3>2. /\ force_off \in Int /\ force_off' \in Int /\ local \in Int
            /\ local = master
        BY <2>4, <2>5, EarlyForceOffs DEF Clocks
      <3>3. CASE force_off' = force_off
        BY <3>1, <3>2, <3>3, <2>4
           DEF Status, ActivePhase, Interval, Shown, Ended4
      <3>4. CASE /\ local >= Started4 /\ local < force_off
                 /\ local < force_off'
        <4>1. ActivePhase = 4 /\ ActivePhase' = 4
          BY <3>1, <3>2, <3>4 DEF ActivePhase, Ended4
        <4>2. Shown(4) = "green" /\ Shown(4)' = "green"
          BY <3>1, <3>2, <3>4 DEF Shown
        <4>3. Interval = 1 /\ Interval' = 1
          BY <4>1, <4>2 DEF Interval
        <4> QED
          BY <3>1, <3>2, <4>1, <4>3, <2>4 DEF Status
      <3> QED
        BY <3>3, <3>4, <2>4
    <2> QED
      BY <2>1, <2>2, <2>3, <2>7, <2>8, <2>9 DEF LinkInv
  <1>5. CASE Free
    <2>1. /\ UNCHANGED <<local, master, force_off, signal, gap, lag,
                         priority_status, db_status, age, triggers>>
          /\ mode = 0
      BY <1>5 DEF Free, database, trace, observed
    <2>2. (Taken' <=> Taken) /\ Db' = Db /\ (StatusFirst' <=> StatusFirst)
          /\ ~Pending("request")'
      BY <2>1 DEF Taken, Db, StatusFirst, Pending, TypeInv
    <2> QED
      BY <2>1, <2>2 DEF LinkInv
  <1>6. CASE StatusTrigger
    <2>1. /\ UNCHANGED <<local, master, mode, force_off, plan, priority_status,
                         db_status, age>>
          /\ IF db_status.master # signal.master
             THEN signal' = Db /\ gap' = 0 /\ lag' = age
             ELSE UNCHANGED <<signal, gap, lag>>
      BY <1>6 DEF StatusTrigger, controller, Db
    <2>2. /\ StatusFirst /\ ~StatusFirst'
          /\ Pending("request")' <=> Pending("request")
      BY <1>6, StatusReceived DEF StatusTrigger, TypeInv
    <2>3. Db' = Db /\ Status' = Status
      BY <2>1 DEF Db, Status, ActivePhase, Interval, Shown, Ended4
    <2>4. CASE db_status.master # signal.master
      <3>1. Taken' /\ signal' = Db'
        BY <2>1, <2>3, <2>4, DbFields DEF Taken
      <3>2. Fits(Db, age, local, master, force_off)
        BY <2>2, <2>4 DEF LinkInv
      <3>3. gap' + lag' = age
        BY <2>1, <2>4 DEF TypeInv
      <3> QED
        BY <2>1, <2>2, <2>3, <2>4, <3>1, <3>2, <3>3 DEF LinkInv
    <2>5. CASE db_status.master = signal.master
      <3>1. Taken' <=> Taken
        BY <2>1, <2>5 DEF Taken
      <3> QED
        BY <2>1, <2>2, <2>3, <2>5, <3>1 DEF LinkInv
    <2> QED
      BY <2>4, <2>5
  <1>7. CASE RequestTrigger
    <2>1. UNCHANGED <<local, master, mode, force_off, plan, signal, gap, lag,
                      db_status, age>>
      BY <1>7 DEF RequestTrigger, controller
    <2>2. ~StatusFirst /\ ~Pending("request")' /\ Pending("request")
      BY <1>7, RequestReceived DEF RequestTrigger, TypeInv
    <2>3. (Taken' <=> Taken) /\ Db' = Db
      BY <2>1 DEF Taken, Db
    <2>4. Taken
      BY <2>2 DEF LinkInv, TypeInv, Status
    <2> QED
      BY <2>1, <2>2, <2>3, <2>4 DEF LinkInv
  <1>8. CASE Timer
    <2>1. /\ UNCHANGED <<local, master, mode, force_off, plan, signal, gap, lag,
                      db_status, age, triggers>>
          /\ priority_status' \in {0, priority_status}
      BY <1>8 DEF Timer, controller, database
    <2>2. (Taken' <=> Taken) /\ Db' = Db /\ (StatusFirst' <=> StatusFirst)
          /\ (Pending("request")' <=> Pending("request")) /\ Status' = Status
      BY <2>1
         DEF Taken, Db, StatusFirst, Pending, Status, ActivePhase, Interval,
             Shown, Ended4
    <2> QED
      BY <2>1, <2>2 DEF LinkInv
  <1>9. CASE UNCHANGED vars
    <2>1. UNCHANGED <<local, master, mode, force_off, plan, signal, gap, lag,
                      db_status, age, triggers, priority_status>>
      BY <1>9 DEF vars, controller, database, trace, observed
    <2>2. (Taken' <=> Taken) /\ Db' = Db /\ (StatusFirst' <=> StatusFirst)
          /\ (Pending("request")' <=> Pending("request")) /\ Status' = Status
      BY <2>1
         DEF Taken, Db, StatusFirst, Pending, Status, ActivePhase, Interval,
             Shown, Ended4
    <2> QED
      BY <2>1, <2>2 DEF LinkInv
  <1> QED
    BY <1>1, <1>2, <1>3, <1>4, <1>5, <1>6, <1>7, <1>8, <1>9 DEF Next

-----------------------------------------------------------------------------
(* Priorities.                                                             *)

\* The program knows of an early green.
EarlyOn ==
  mode = 2 /\ ~Pending("request") =>
    /\ priority_status = 2
    /\ signal_EG_onset = EarlyOnset(1, force_off)
    /\ bus_time_saved = UnsignedChar(OnsetOf(1)[2].green
                                     - EarlyOnset(1, force_off)[2].green)
    /\ signal.state[2] = "red" /\ signal.local >= Started4
    /\ Db.state[2] = "red" /\ Db.local >= Started4

\* A status of a controller in an extension.
Extends(s) ==
  /\ s.state[4] = "red"
  /\ s.master < MAX_GE => s.local = Cycle - 1 /\ s.state[2] = "green"

\* The program knows of an extension.
ExtensionOn ==
  mode = 3 /\ ~Pending("request") =>
    priority_status = 3 /\ Extends(signal) /\ Extends(Db)

\* Clocks that differ show that the priority is an extension.
ExtensionShown ==
  /\ Db.local # Db.master =>
       priority_status = 3 /\ signal.state[4] # "green"
  /\ gap <= MaxGap /\ signal.local # signal.master => priority_status = 3

\* With a priority the controller runs its plan, and the program knows it.
PlanKnown ==
  mode # 0 \/ (frees = 0 /\ priority_status # 0) =>
    /\ plan = 1 /\ Db.pattern = 1
    /\ ~Pending("request") => signal.pattern = 1

\* Once phase 4 was cut short, phase 2 is seen to turn green before the
\* priority is taken for over.
CutShort ==
  force_off # ForceOff[4] /\ ~Pending("request") =>
    /\ priority_status = 2 /\ Db.state[2] # "green" =>
         signal.state[2] # "green"
    /\ priority_status # 2 =>
         signal.state[2] = "green" /\ Db.state[2] = "green"

PrioInv ==
  EarlyOn /\ ExtensionOn /\ ExtensionShown /\ PlanKnown /\ CutShort

\* The onsets the program has by the plan, and those of an early green.
LEMMA EarlyOnsetFacts ==
  ASSUME NEW fo \in Int, fo > Started4, fo <= ForceOff[4]
  PROVE  /\ OnsetOf(1) = signal_state_onset
         /\ signal_state_onset[2].green = Ended(ForceOff[4])
         /\ signal_state_onset[2].yellow = 0
         /\ signal_state_onset[2].red = Yellow[2]
         /\ signal_state_onset[4].green = Started4
         /\ signal_state_onset[4].yellow = ForceOff[4]
         /\ signal_state_onset[4].red = ForceOff[4] + Yellow[4]
         /\ EarlyOnset(1, fo)[2].green = Ended(fo)
         /\ EarlyOnset(1, fo)[2].yellow = 0
         /\ EarlyOnset(1, fo)[2].red = Yellow[2]
         /\ EarlyOnset(1, fo)[4].green = Started4
         /\ EarlyOnset(1, fo)[4].yellow = fo
         /\ EarlyOnset(1, fo)[4].red = fo + Yellow[4]
  <1> USE Constants
  <1>1. OnsetOf(1) = signal_state_onset /\ CycleOf(1) = Cycle
    BY DEF OnsetOf, CycleOf
  <1>2. /\ signal_state_onset \in [Phase -> [Color -> Int]]
        /\ signal_state_onset[2].green = Ended(ForceOff[4])
        /\ signal_state_onset[2].yellow = 0
        /\ signal_state_onset[2].red = Yellow[2]
        /\ signal_state_onset[4].green = Started4
        /\ signal_state_onset[4].yellow = ForceOff[4]
        /\ signal_state_onset[4].red = ForceOff[4] + Yellow[4]
    BY DEF signal_state_onset, Phase, Color, cycle_rounding, Ended, Before
  <1> QED
    BY <1>1, <1>2 DEF EarlyOnset, cycle_rounding, Ended, Phase, Color

-----------------------------------------------------------------------------
(* What each action does to what the invariants are about.                 *)

LEMMA TickDoes ==
  ASSUME TypeInv, Tick
  PROVE  /\ UNCHANGED <<plan, db_status, triggers, signal_trig, signal, pattern,
                        priority_status, signal_EG_onset, bus_time_saved, lag,
                        frees, Db>>
         /\ ~Pending("request") /\ ~Pending("request")'
         /\ Pending("status")' <=> Pending("status")
         /\ age' = age + 1 /\ age < MaxSilence
         /\ Pending("status") => age < MaxLag
         /\ signal_trig => pattern = signal.pattern /\ (pattern # 0 => current)
         /\ ~current'
         /\ gap' = IF gap > MaxGap THEN gap ELSE gap + 1
         /\ Clocks(mode, local, master, force_off)
         /\ Second(mode, local, master, force_off,
                   mode', local', master', force_off')
  BY TickIsSecond DEF Tick, TypeInv, Clocks, Db, Pending, current

LEMMA PollDoes ==
  ASSUME TypeInv, Poll
  PROVE  /\ UNCHANGED <<local, master, mode, force_off, plan, signal_trig,
                        signal, gap, pattern, priority_status, signal_EG_onset,
                        bus_time_saved, published, lag, frees>>
         /\ db_status' = Status /\ Db' = Signal(Status) /\ age' = 0 /\ age > 0
         /\ ~Pending("request") /\ ~Pending("request")'
         /\ ~Pending("status") /\ Pending("status")'
  BY StatusWritten DEF Poll, controller, trace, observed, TypeInv, Db

LEMMA RepeatDoes ==
  ASSUME TypeInv, Repeat
  PROVE  /\ UNCHANGED <<local, master, mode, force_off, plan, db_status, age,
                        signal_trig, signal, gap, pattern, priority_status,
                        signal_EG_onset, bus_time_saved, published, lag, frees,
                        Db>>
         /\ Pending("request")' <=> Pending("request")
         /\ ~Pending("status") /\ Pending("status")'
  BY StatusWritten DEF Repeat, controller, trace, observed, TypeInv, Db

LEMMA RequestDoes ==
  ASSUME TypeInv, Request
  PROVE  /\ UNCHANGED <<local, master, plan, db_status, age,
                        signal_trig, signal, gap, pattern, priority_status,
                        signal_EG_onset, bus_time_saved, published, lag, frees,
                        Db>>
         /\ Pending("request")'
         /\ Pending("status")' <=> Pending("status")
         /\ db_status = Status /\ plan = 1 /\ mode = 0 /\ mode' # 0
         /\ ~Pending("request")
  BY RequestWritten
     DEF Request, trace, observed, TypeInv, Db, Early_Green, Green_Extension

LEMMA FreeDoes ==
  ASSUME TypeInv, Free
  PROVE  /\ UNCHANGED <<local, master, mode, force_off, db_status, age,
                        triggers, signal_trig, signal, gap, pattern,
                        priority_status, signal_EG_onset, bus_time_saved,
                        published, lag, Db>>
         /\ Pending("request")' <=> Pending("request")
         /\ Pending("status")' <=> Pending("status")
         /\ mode = 0 /\ (plan = 1 => frees' # 0)
  BY DEF Free, database, trace, observed, TypeInv, Db, Pending

LEMMA StatusTriggerDoes ==
  ASSUME TypeInv, StatusTrigger
  PROVE  /\ UNCHANGED <<local, master, mode, force_off, plan, db_status, age,
                        pattern, priority_status, signal_EG_onset,
                        bus_time_saved, frees, Db>>
         /\ IF db_status.master # signal.master
            THEN signal' = Db /\ gap' = 0 /\ lag' = age
            ELSE UNCHANGED <<signal, gap, lag>>
         /\ StatusFirst /\ ~StatusFirst'
         /\ Pending("request")' <=> Pending("request")
         /\ Pending("status") /\ ~Pending("status")'
         /\ signal_trig' /\ ~current'
  BY StatusReceived DEF StatusTrigger, controller, TypeInv, Db, current

LEMMA RequestTriggerDoes ==
  ASSUME TypeInv, LinkInv, RequestTrigger
  PROVE  /\ UNCHANGED <<local, master, mode, force_off, plan, db_status, age,
                        signal_trig, signal, gap, lag, frees, Db>>
         /\ Pending("request") /\ ~Pending("request")'
         /\ Pending("status")' <=> Pending("status")
         /\ ~current' /\ priority_status' = mode /\ mode # 0
         /\ signal = Db /\ db_status = Status /\ plan = 1 /\ Db.pattern = 1
         /\ Db = Signal(Status) /\ age = 0
         /\ mode = 2 =>
              /\ signal_EG_onset' = EarlyOnset(1, force_off)
              /\ bus_time_saved' =
                   UnsignedChar(OnsetOf(1)[2].green
                                  - EarlyOnset(1, force_off)[2].green)
  <1>1. ~StatusFirst /\ Pending("request") /\ ~Pending("request")'
        /\ (Pending("status")' <=> Pending("status"))
    BY RequestReceived DEF RequestTrigger, TypeInv
  <1>2. /\ db_status = Status /\ mode # 0 /\ age = 0
        /\ plan = 1 /\ db_request.type = mode
    BY <1>1 DEF TypeInv, LinkInv
  <1>3. signal = Db
    BY <1>1, <1>2 DEF LinkInv, Status
  <1>4. /\ Db.pattern = 1 /\ Db = Signal(Status)
    BY <1>2, DbFields DEF Db, Status
  <1>5. UNCHANGED <<local, master, mode, force_off, plan, db_status, age,
                    signal_trig, signal, gap, lag, frees, Db>>
    BY DEF RequestTrigger, controller, Db
  <1>6. priority_status' = mode /\ ~current'
    BY <1>2 DEF RequestTrigger, current
  <1>7. ASSUME mode = 2
        PROVE  /\ signal_EG_onset' = EarlyOnset(1, force_off)
               /\ bus_time_saved' =
                    UnsignedChar(OnsetOf(1)[2].green
                                   - EarlyOnset(1, force_off)[2].green)
    <2>1. /\ pattern' = 1
          /\ signal_EG_onset' = EarlyOnset(pattern', force_off)
          /\ bus_time_saved' =
             UnsignedChar(OnsetOf(pattern')[2].green
                            - signal_EG_onset'[2].green)
      BY <1>2, <1>3, <1>4, <1>7
         DEF RequestTrigger, Early_Green, Green_Extension, TypeInv
    <2> QED
      BY <2>1
  <1> QED
    BY <1>1, <1>2, <1>3, <1>4, <1>5, <1>6, <1>7

LEMMA TimerDoes ==
  ASSUME TypeInv, Timer
  PROVE  /\ UNCHANGED <<local, master, mode, force_off, plan, db_status, age,
                        triggers, signal, gap, signal_EG_onset, lag, frees, Db>>
         /\ Pending("request")' <=> Pending("request")
         /\ Pending("status")' <=> Pending("status")
         /\ signal_trig /\ pattern' = signal.pattern
         /\ \/ UNCHANGED <<priority_status, bus_time_saved, published>>
               /\ (signal.pattern = 0 \/ gap > MaxGap)
            \/ /\ pattern' # 0 /\ gap <= MaxGap /\ signal_trig'
               /\ IF PriorityOver
                  THEN priority_status' = 0 /\ bus_time_saved' = 0
                  ELSE UNCHANGED <<priority_status, bus_time_saved>>
               /\ published' = Publication(priority_status', bus_time_saved')
  BY DEF Timer, controller, database, TypeInv, Db, Pending

LEMMA IdleDoes ==
  ASSUME UNCHANGED vars
  PROVE  /\ UNCHANGED <<local, master, mode, force_off, plan, db_status, age,
                        triggers, signal_trig, signal, gap, pattern,
                        priority_status, signal_EG_onset, bus_time_saved,
                        published, lag, frees, Db>>
         /\ Pending("request")' <=> Pending("request")
         /\ Pending("status")' <=> Pending("status")
  BY DEF vars, controller, database, trace, observed, Db, Pending

-----------------------------------------------------------------------------
(* Each part of PrioInv is inductive, with the parts before it.            *)

LEMMA PrioInit ==
  ASSUME Init
  PROVE  PrioInv
  <1>1. TypeInv
    BY TypeInit
  <1>2. /\ mode = 0 /\ priority_status = 0 /\ force_off = ForceOff[4]
        /\ gap > MaxGap /\ db_status = Status /\ local = master
    BY DEF Init, MaxGap
  <1>3. Db.local = Db.master
    BY <1>1, <1>2, StatusShows DEF Db
  <1>4. ~(gap <= MaxGap)
    BY DEF Init, MaxGap
  <1> QED
    BY <1>2, <1>3, <1>4
       DEF PrioInv, EarlyOn, ExtensionOn, ExtensionShown, PlanKnown, CutShort

LEMMA EarlyOnNext ==
  ASSUME TypeInv, LinkInv, EarlyOn, [Next]_vars
  PROVE  EarlyOn'
  <1> USE Constants
  <1>0. /\ local \in Int /\ force_off \in Int
        /\ mode = 2 => /\ local >= Started4 /\ local < Ended(force_off)
                       /\ force_off > Started4 /\ force_off <= ForceOff[4]
    BY DEF TypeInv, Clocks
  <1>1. mode = 2 => Shown(2) = "red"
    BY <1>0 DEF Shown, Ended4, Ended
  <1>2. mode = 2 =>
          /\ Signal(Status).state[2] = "red"
          /\ Signal(Status).local >= Started4
    BY <1>0, <1>1, StatusShows
  <1>3. CASE Tick
    <2>1. mode' = 2 => mode = 2 /\ force_off' = force_off
      BY <1>3, TickDoes, <1>0 DEF Second, Ended, Rounded
    <2> QED
      BY <1>3, <2>1, TickDoes DEF EarlyOn
  <1>4. CASE Poll
    BY <1>4, <1>2, PollDoes DEF EarlyOn
  <1>5. CASE Repeat
    BY <1>5, RepeatDoes DEF EarlyOn
  <1>6. CASE Request
    BY <1>6, RequestDoes DEF EarlyOn
  <1>7. CASE Free
    BY <1>7, FreeDoes DEF EarlyOn
  <1>8. CASE StatusTrigger
    BY <1>8, StatusTriggerDoes DEF EarlyOn
  <1>9. CASE RequestTrigger
    BY <1>9, <1>2, RequestTriggerDoes DEF EarlyOn
  <1>10. CASE Timer
    BY <1>10, TimerDoes DEF EarlyOn, PriorityOver, Early_Green, Green_Extension
  <1>11. CASE UNCHANGED vars
    BY <1>11, IdleDoes DEF EarlyOn
  <1> QED
    BY <1>3, <1>4, <1>5, <1>6, <1>7, <1>8, <1>9, <1>10, <1>11 DEF Next

LEMMA ExtensionOnNext ==
  ASSUME TypeInv, LinkInv, ExtensionOn, [Next]_vars
  PROVE  ExtensionOn'
  <1> USE Constants
  <1>0. /\ local \in Nat /\ force_off \in Int /\ force_off > Started4
        /\ force_off <= ForceOff[4] /\ Ended(force_off) >= 10
        /\ local < Cycle /\ master \in Nat
        /\ mode = 3 => (local = master /\ local >= Ended(force_off))
                         \/ Extending(local, master)
    BY DEF TypeInv, Clocks
  <1>1. ASSUME mode = 3
        PROVE  /\ Shown(4) = "red"
               /\ master < MAX_GE => local = Cycle - 1 /\ Shown(2) = "green"
    BY <1>0, <1>1 DEF Shown, Ended4, Ended, Extending, MAX_GE
  <1>2. mode = 3 => Extends(Signal(Status))
    BY <1>1, StatusShows DEF Extends
  <1>3. CASE Tick
    <2>1. mode' = 3 => mode = 3
      BY <1>3, TickDoes DEF Second
    <2> QED
      BY <1>3, <2>1, TickDoes DEF ExtensionOn
  <1>4. CASE Poll
    BY <1>4, <1>2, PollDoes DEF ExtensionOn
  <1>5. CASE Repeat
    BY <1>5, RepeatDoes DEF ExtensionOn
  <1>6. CASE Request
    BY <1>6, RequestDoes DEF ExtensionOn
  <1>7. CASE Free
    BY <1>7, FreeDoes DEF ExtensionOn
  <1>8. CASE StatusTrigger
    BY <1>8, StatusTriggerDoes DEF ExtensionOn
  <1>9. CASE RequestTrigger
    BY <1>9, <1>2, RequestTriggerDoes DEF ExtensionOn
  <1>10. CASE Timer
    BY <1>10, TimerDoes
       DEF ExtensionOn, Extends, PriorityOver, Early_Green, Green_Extension
  <1>11. CASE UNCHANGED vars
    BY <1>11, IdleDoes DEF ExtensionOn
  <1> QED
    BY <1>3, <1>4, <1>5, <1>6, <1>7, <1>8, <1>9, <1>10, <1>11 DEF Next

LEMMA ExtensionShownNext ==
  ASSUME TypeInv, LinkInv, ExtensionOn, ExtensionShown, [Next]_vars
  PROVE  ExtensionShown'
  <1>1. CASE Tick
    <2>1. gap' <= MaxGap => gap <= MaxGap
      BY <1>1, TickDoes DEF TypeInv, MaxGap
    <2> QED
      BY <1>1, <2>1, TickDoes DEF ExtensionShown
  <1>2. CASE Poll
    <2>1. local # master => mode = 3
      BY DEF TypeInv, Clocks
    <2> QED
      BY <1>2, <2>1, PollDoes, StatusShows
         DEF ExtensionShown, ExtensionOn, Extends
  <1>3. CASE Repeat
    BY <1>3, RepeatDoes DEF ExtensionShown
  <1>4. CASE Request
    BY <1>4, RequestDoes DEF ExtensionShown
  <1>5. CASE Free
    BY <1>5, FreeDoes DEF ExtensionShown
  <1>6. CASE StatusTrigger
    <2>1. CASE db_status.master # signal.master
      <3>1. Db.local # Db.master => Db.state[4] = "red"
        BY <1>6, <2>1, StatusTriggerDoes DEF LinkInv, Fits
      <3> QED
        BY <1>6, <2>1, <3>1, StatusTriggerDoes DEF ExtensionShown
    <2>2. CASE db_status.master = signal.master
      BY <1>6, <2>2, StatusTriggerDoes DEF ExtensionShown
    <2> QED
      BY <2>1, <2>2
  <1>7. CASE RequestTrigger
    <2>1. Db.local = Db.master /\ signal = Db
      BY <1>7, RequestTriggerDoes, DbFields DEF LinkInv, Status
    <2> QED
      BY <1>7, <2>1, RequestTriggerDoes DEF ExtensionShown
  <1>8. CASE Timer
    <2>1. ASSUME gap <= MaxGap, signal.local # signal.master
          PROVE  signal.state[4] = "red"
      BY <2>1 DEF LinkInv, Fits
    <2> QED
      BY <1>8, <2>1, TimerDoes
         DEF ExtensionShown, PriorityOver, Early_Green, Green_Extension
  <1>9. CASE UNCHANGED vars
    BY <1>9, IdleDoes DEF ExtensionShown
  <1> QED
    BY <1>1, <1>2, <1>3, <1>4, <1>5, <1>6, <1>7, <1>8, <1>9 DEF Next

LEMMA PlanKnownNext ==
  ASSUME TypeInv, LinkInv, PlanKnown, [Next]_vars
  PROVE  PlanKnown'
  <1>0. mode # 0 => plan = 1
    BY DEF TypeInv
  <1>1. CASE Tick
    <2>1. mode' # 0 => mode # 0
      BY <1>1, TickDoes DEF Second
    <2> QED
      BY <1>1, <2>1, TickDoes, <1>0 DEF PlanKnown
  <1>2. CASE Poll
    BY <1>2, PollDoes, StatusShows DEF PlanKnown
  <1>3. CASE Repeat
    BY <1>3, RepeatDoes DEF PlanKnown
  <1>4. CASE Request
    BY <1>4, RequestDoes, StatusShows DEF PlanKnown, Db
  <1>5. CASE Free
    BY <1>5, FreeDoes DEF PlanKnown, Free
  <1>6. CASE StatusTrigger
    BY <1>6, StatusTriggerDoes DEF PlanKnown
  <1>7. CASE RequestTrigger
    BY <1>7, RequestTriggerDoes DEF PlanKnown
  <1>8. CASE Timer
    BY <1>8, TimerDoes DEF PlanKnown
  <1>9. CASE UNCHANGED vars
    BY <1>9, IdleDoes DEF PlanKnown
  <1> QED
    BY <1>1, <1>2, <1>3, <1>4, <1>5, <1>6, <1>7, <1>8, <1>9 DEF Next

LEMMA CutShortNext ==
  ASSUME TypeInv, LinkInv, EarlyOn, CutShort, [Next]_vars
  PROVE  CutShort'
  <1> USE Constants
  <1>1. mode # 2 /\ force_off # ForceOff[4] => Shown(2) = "green"
    BY DEF TypeInv, Clocks, Shown, Ended4, Ended
  <1>2. mode # 2 /\ force_off # ForceOff[4] =>
          Signal(Status).state[2] = "green"
    BY <1>1, StatusShows
  <1>3. CASE Tick
    <2>1. force_off' # ForceOff[4] => force_off' = force_off
      BY <1>3, TickDoes DEF Second
    <2> QED
      BY <1>3, <2>1, TickDoes DEF CutShort
  <1>4. CASE Poll
    BY <1>4, <1>2, PollDoes DEF CutShort, EarlyOn
  <1>5. CASE Repeat
    BY <1>5, RepeatDoes DEF CutShort
  <1>6. CASE Request
    BY <1>6, RequestDoes DEF CutShort
  <1>7. CASE Free
    BY <1>7, FreeDoes DEF CutShort
  <1>8. CASE StatusTrigger
    BY <1>8, StatusTriggerDoes DEF CutShort
  <1>9. CASE RequestTrigger
    BY <1>9, <1>2, RequestTriggerDoes DEF CutShort
  <1>10. CASE Timer
    BY <1>10, TimerDoes DEF CutShort, PriorityOver, Early_Green, Green_Extension
  <1>11. CASE UNCHANGED vars
    BY <1>11, IdleDoes DEF CutShort
  <1> QED
    BY <1>3, <1>4, <1>5, <1>6, <1>7, <1>8, <1>9, <1>10, <1>11 DEF Next

-----------------------------------------------------------------------------
(* What is published is what the timer would write with what is known now. *)

PubInv ==
  current =>
    /\ published = Publication(priority_status, bus_time_saved)
    /\ gap <= MaxGap /\ ~PriorityOver

LEMMA PubNext ==
  ASSUME TypeInv, LinkInv, PubInv, [Next]_vars
  PROVE  PubInv'
  <1>1. CASE Tick
    BY <1>1, TickDoes DEF PubInv
  <1>2. ASSUME UNCHANGED <<published, priority_status, bus_time_saved, signal,
                           gap, signal_EG_onset>>
        PROVE  PubInv'
    <2>1. /\ signal' = signal /\ gap' = gap
          /\ signal_EG_onset' = signal_EG_onset
          /\ priority_status' = priority_status
          /\ bus_time_saved' = bus_time_saved
      BY <1>2
    <2>2. Publication(priority_status, bus_time_saved)'
            = Publication(priority_status, bus_time_saved)
      BY <2>1 DEF Publication, Countdown, IxMsg
    <2>3. (current' <=> current) /\ (PriorityOver' <=> PriorityOver)
      BY <1>2 DEF current, PriorityOver
    <2> QED
      BY <1>2, <2>2, <2>3 DEF PubInv
  <1>3. CASE Poll
    BY <1>2, <1>3, PollDoes
  <1>4. CASE Repeat
    BY <1>2, <1>4, RepeatDoes
  <1>5. CASE Request
    BY <1>2, <1>5, RequestDoes
  <1>6. CASE Free
    BY <1>2, <1>6, FreeDoes
  <1>7. CASE StatusTrigger
    BY <1>7, StatusTriggerDoes DEF PubInv
  <1>8. CASE RequestTrigger
    BY <1>8, RequestTriggerDoes DEF PubInv
  <1>9. CASE Timer
    <2>1. CASE UNCHANGED <<priority_status, bus_time_saved, published>>
      BY <1>2, <1>9, <2>1, TimerDoes
    <2>2. CASE /\ gap <= MaxGap
               /\ published' = Publication(priority_status', bus_time_saved')
               /\ IF PriorityOver
                  THEN priority_status' = 0 /\ bus_time_saved' = 0
                  ELSE UNCHANGED <<priority_status, bus_time_saved>>
      <3>1. signal' = signal /\ gap' = gap /\ signal_EG_onset' = signal_EG_onset
        BY <1>9, TimerDoes
      <3>2. published' = Publication(priority_status, bus_time_saved)'
        <4>1. \A p, status, lc, mc :
                Countdown(p, status, lc, mc)' = Countdown(p, status, lc, mc)
          BY <3>1 DEF Countdown
        <4>2. \A status, saved, count :
                IxMsg(status, saved, count)' = IxMsg(status, saved, count)
          BY <3>1 DEF IxMsg
        <4> QED
          BY <2>2, <3>1, <4>1, <4>2 DEF Publication
      <3>3. ~PriorityOver'
        BY <2>2, <3>1 DEF PriorityOver, Early_Green, Green_Extension
      <3> QED
        BY <2>2, <3>1, <3>2, <3>3 DEF PubInv
    <2> QED
      BY <1>9, <2>1, <2>2, TimerDoes
  <1>10. CASE UNCHANGED vars
    BY <1>2, <1>10, IdleDoes
  <1> QED
    BY <1>1, <1>3, <1>4, <1>5, <1>6, <1>7, <1>8, <1>9, <1>10 DEF Next

\* The countdown of phase p as the timer computes it.
Left(p, status) ==
  Countdown(p, status, Rounded(signal.local + gap),
            Rounded(signal.master + gap)).left

\* The calls, the saved time and the countdown in a message.  The approaches
\* a phase controls have its colour and its countdown.
LEMMA PublicationFields ==
  ASSUME NEW status, NEW saved
  PROVE  LET ix == Publication(status, saved).ix
         IN /\ ix.bus_priority_calls = status
            /\ ix.bus_time_saved = IF status = 0 THEN 0 ELSE saved
            /\ \A p \in Phase : \A a \in Approaches(p) :
                 /\ ix.signal_state[a] = signal.state[p]
                 /\ ix.time_to_next[a] = Left(p, status)
  <1> DEFINE lc == cycle_rounding(signal.local + gap, Cycle)
             mc == cycle_rounding(signal.master + gap, Cycle)
             count == [p \in Phase |-> Countdown(p, status, lc, mc)]
  <1>1. Publication(status, saved).ix = IxMsg(status, saved, count)
    BY DEF Publication
  <1>2. lc = Rounded(signal.local + gap) /\ mc = Rounded(signal.master + gap)
    BY DEF cycle_rounding, Rounded
  <1>3. \A p \in Phase : count[p].left = Left(p, status)
    BY <1>2 DEF Left
  <1> HIDE DEF count
  <1>4. /\ IxMsg(status, saved, count).bus_priority_calls = status
        /\ IxMsg(status, saved, count).bus_time_saved
             = IF status = 0 THEN 0 ELSE saved
        /\ \A p \in Phase : \A a \in Approaches(p) :
             /\ IxMsg(status, saved, count).signal_state[a] = signal.state[p]
             /\ IxMsg(status, saved, count).time_to_next[a] = count[p].left
    BY DEF IxMsg, Approaches, PhaseSwap
  <1> QED
    BY <1>1, <1>3, <1>4

\* An early green moves phase 2 by as much as it moves the end of phase 4,
\* and that fits the byte it is written to.
LEMMA SavedIsRight ==
  ASSUME TypeInv, LinkInv, EarlyOn, PubInv
  PROVE  SavedRight
  <1> USE Constants
  <1> SUFFICES ASSUME current, mode = 2, ~Pending("request"),
                      published.ix.bus_priority_calls = 2
               PROVE  published.ix.bus_time_saved
                        = signal_state_onset[2].green - Ended4
    BY DEF SavedRight, Early_Green
  <1>1. /\ priority_status = 2
        /\ published.ix.bus_time_saved = bus_time_saved
    BY PublicationFields DEF PubInv
  <1>2. force_off \in Int /\ force_off > Started4 /\ force_off <= ForceOff[4]
    BY DEF TypeInv, Clocks
  <1>3. bus_time_saved = UnsignedChar(Ended(ForceOff[4]) - Ended(force_off))
    BY <1>2, EarlyOnsetFacts DEF EarlyOn
  <1>4. bus_time_saved = ForceOff[4] - force_off
    <2>1. Ended(ForceOff[4]) - Ended(force_off) = ForceOff[4] - force_off
      BY <1>2 DEF Ended
    <2>2. ForceOff[4] - force_off \in 0 .. 255
      <3> DEFINE f == ForceOff[4]
                 s == Started4
      <3>1. f \in Nat /\ f <= 255 /\ s \in Nat
        OBVIOUS
      <3>2. force_off \in Int /\ force_off > s /\ force_off <= f
        BY <1>2
      <3> HIDE DEF f, s
      <3>3. f - force_off \in 0 .. 255
        BY ONLY <3>1, <3>2
      <3> QED
        BY ONLY <3>3 DEF f
    <2>3. \A n \in 0 .. 255 : n % 256 = n
      BY SMTT(30)
    <2> QED
      BY <1>3, <2>1, <2>2, <2>3 DEF UnsignedChar
  <1>5. signal_state_onset[2].green = Ended(ForceOff[4])
    BY <1>2, EarlyOnsetFacts
  <1> QED
    BY <1>1, <1>2, <1>4, <1>5 DEF Ended, Ended4

\* In an extension the last status shows phase 2 green, so the program counts
\* down to the end of the held second and phase 2's clearance.
LEMMA ExtensionIsRight ==
  ASSUME TypeInv, LinkInv, ExtensionOn, PubInv
  PROVE  ExtensionRed
  <1> USE Constants
  <1> SUFFICES ASSUME current, gap <= 1, mode = 3, master < MAX_GE,
                      published.ix.bus_priority_calls = 3,
                      signal.master < master,
                      NEW a \in Approaches(4)
               PROVE  published.ix.time_to_next[a]
                        = MAX_GE + Started4 - master + lag
    BY DEF ExtensionRed, Green_Extension
  <1>1. /\ priority_status = 3
        /\ published.ix.time_to_next[a] = Left(4, 3)
    BY PublicationFields DEF PubInv, Phase
  <1>2. ~Pending("request")
    <2>1. ~(local = master)
      <3>1. /\ local \in 0 .. Cycle - 1 /\ Ended(force_off) >= 10
            /\ (local = master /\ local >= Ended(force_off))
                 \/ Extending(local, master)
        BY DEF TypeInv, Clocks
      <3>2. Ended(force_off) \in Int
        BY DEF TypeInv, Clocks, Ended
      <3> QED
        BY <3>1, <3>2 DEF Extending, MAX_GE
    <2> QED
      BY <2>1 DEF LinkInv
  <1>3. /\ master \in Nat /\ signal.master \in Nat /\ gap \in Nat
        /\ lag \in 0 .. 1 /\ signal.master < Cycle
    BY DbFields DEF TypeInv, Clocks, Clock, MaxGap
  <1>4. signal.state[4] = "red" /\ signal.state[2] = "green"
    BY <1>2, <1>3 DEF ExtensionOn, Extends, MAX_GE
  <1>5. master = Rounded(signal.master + (gap + lag))
    BY <1>3 DEF LinkInv, Fits, MaxGap
  <1>6. master = signal.master + gap + lag
    BY <1>3, <1>5 DEF Rounded, MAX_GE
  <1> DEFINE mc == Rounded(signal.master + gap)
  <1>7. mc = master - lag /\ mc <= MAX_GE
    BY <1>3, <1>6 DEF Rounded, MAX_GE
  <1> HIDE DEF mc
  <1>8. Left(4, 3) = IF MAX_GE + Yellow[2] + AllRed[2] - mc < 0 THEN 0
                     ELSE MAX_GE + Yellow[2] + AllRed[2] - mc
    BY <1>4, <1>7 DEF Left, mc, Countdown, Green_Extension, Early_Green
  <1> QED
    BY <1>1, <1>3, <1>7, <1>8 DEF MAX_GE

-----------------------------------------------------------------------------
(* The end of a priority.                                                  *)

\* No silence is as long as the green a priority waits for.
PollsOften ==
  MaxSilence <= MAX_GE /\ MaxSilence + MaxLag <= ForceOff[4] - Started4 - MAX_GE

\* After an early green: no status has come since, or one with the green of
\* phase 2 waits, or it was read and the timer has not run.
EarlyOff ==
  mode = 0 /\ priority_status = 2 /\ frees = 0 =>
    /\ local >= Ended(force_off)
    /\ signal_EG_onset = EarlyOnset(1, force_off)
    /\ signal.local >= Started4 /\ Db.local >= Started4
    /\ \/ /\ Db.state[2] = "red" /\ signal.state[2] = "red"
          /\ local < Ended(force_off) + age
       \/ /\ Db.state[2] = "green" /\ signal.state[2] = "red"
          /\ Pending("status") /\ local < Ended(force_off) + MAX_GE + age
       \/ /\ Db.state[2] = "green" /\ signal.state[2] = "green"
          /\ signal_trig /\ ~current /\ gap <= MaxGap

\* After an extension, in the same way.
ExtensionOff ==
  mode = 0 /\ priority_status = 3 /\ frees = 0 =>
    /\ local >= Started4 + MAX_GE /\ force_off = ForceOff[4]
    /\ \/ /\ Db.state[4] = "red" /\ signal.state[4] = "red"
          /\ local < Started4 + MAX_GE + age
       \/ /\ Db.state[4] = "green" /\ signal.state[4] = "red"
          /\ Pending("status") /\ local < ForceOff[4] - MaxLag + age
       \/ /\ Db.state[4] = "green" /\ signal.state[4] = "green"
          /\ signal_trig /\ ~current /\ gap <= MaxGap /\ local < ForceOff[4]

\* The green of phase 2 lasts longer than a silence, so it is polled and ends
\* the priority before the next cycle.
LEMMA EarlyOffNext ==
  ASSUME TypeInv, LinkInv, PrioInv, EarlyOff, [Next]_vars, PollsOften
  PROVE  EarlyOff'
  <1> USE Constants
  <1>0. /\ local \in Nat /\ local < Cycle /\ force_off \in Int
        /\ force_off > Started4 /\ force_off <= ForceOff[4]
        /\ age \in 0 .. 10 /\ MaxSilence <= 10 /\ Ended(force_off) \in Int
        /\ Ended(force_off) + 10 < Cycle /\ Ended(force_off) > Started4
    BY DEF TypeInv, Clocks, PollsOften, MAX_GE, Ended
  <1>1. mode = 0 /\ frees = 0 /\ priority_status # 0 =>
          plan = 1 /\ ~Pending("request") /\ signal.pattern = 1
    BY DEF PrioInv, PlanKnown, TypeInv
  <1>2. CASE Tick
    <2> SUFFICES ASSUME mode' = 0, priority_status' = 2, frees' = 0
                 PROVE  EarlyOff'
      BY DEF EarlyOff
    <2>1. /\ UNCHANGED <<priority_status, frees, signal_EG_onset, signal, Db>>
          /\ age' = age + 1
      BY <1>2, TickDoes
    <2>2. CASE mode = 0
      <3>1. ~(signal_trig /\ ~current)
        BY <1>1, <1>2, <2>1, <2>2, TickDoes
      <3>2. /\ local >= Ended(force_off)
            /\ signal_EG_onset = EarlyOnset(1, force_off)
            /\ signal.local >= Started4 /\ Db.local >= Started4
            /\ \/ /\ Db.state[2] = "red" /\ signal.state[2] = "red"
                  /\ local < Ended(force_off) + age
               \/ /\ Db.state[2] = "green" /\ signal.state[2] = "red"
                  /\ Pending("status") /\ local < Ended(force_off) + 10 + age
        BY <2>1, <2>2, <3>1 DEF EarlyOff, MAX_GE
      <3>3. local < Ended(force_off) + 10
        BY <1>0, <1>2, <3>2, TickDoes
      <3>4. local' = local + 1 /\ force_off' = force_off
        BY <1>0, <1>2, <2>2, <3>3, TickDoes DEF Second, Rounded
      <3>5. Pending("status") => Pending("status")'
        BY <1>2, TickDoes
      <3> QED
        BY <1>0, <2>1, <3>2, <3>4, <3>5 DEF EarlyOff, MAX_GE
    <2>3. CASE mode # 0
      <3>1. mode = 2
        BY <1>2, <2>1, <2>3, TickDoes DEF PrioInv, ExtensionOn, TypeInv, Clocks
      <3>2. /\ signal_EG_onset = EarlyOnset(1, force_off)
            /\ signal.state[2] = "red" /\ signal.local >= Started4
            /\ Db.state[2] = "red" /\ Db.local >= Started4
        BY <1>2, <3>1, TickDoes DEF PrioInv, EarlyOn
      <3>3. local + 1 = Ended(force_off) /\ local' = Rounded(local + 1)
        BY <1>2, <3>1, TickDoes DEF Second
      <3>4. local' = Ended(force_off) /\ force_off' = force_off
        BY <1>0, <1>2, <3>3, TickDoes DEF Second, Rounded
      <3> QED
        BY <1>0, <2>1, <3>2, <3>4 DEF EarlyOff
    <2> QED
      BY <2>2, <2>3
  <1>3. CASE Poll
    <2>1. local >= Ended(force_off) => Signal(Status).state[2] = "green"
      BY <1>0, StatusShows DEF Shown, Ended4, Ended
    <2>2. Signal(Status).local = local
      BY StatusShows
    <2>3. /\ UNCHANGED <<local, mode, force_off, signal_trig, signal, gap,
                         priority_status, signal_EG_onset, published, frees>>
          /\ Db' = Signal(Status) /\ age' = 0
          /\ ~Pending("status") /\ Pending("status")'
      BY <1>3, PollDoes
    <2>4. current' <=> current
      BY <2>3 DEF current
    <2> QED
      BY <1>0, <2>1, <2>2, <2>3, <2>4 DEF EarlyOff, MAX_GE
  <1>4. CASE Repeat
    BY <1>4, RepeatDoes DEF EarlyOff, current
  <1>5. CASE Request
    BY <1>5, RequestDoes DEF EarlyOff
  <1>6. CASE Free
    <2>1. UNCHANGED priority_status /\ mode = 0 /\ (plan = 1 => frees' # 0)
      BY <1>6, FreeDoes
    <2>2. frees' = 0 => frees = 0
      <3>1. frees' = frees + 1 \/ frees' = frees
        BY <1>6, Zenon DEF Free
      <3> QED
        BY <3>1 DEF TypeInv
    <2>3. priority_status' # 0 => frees' # 0
      BY <1>1, <2>1, <2>2
    <2> QED
      BY <2>3 DEF EarlyOff
  <1>7. CASE StatusTrigger
    <2> SUFFICES ASSUME mode = 0, priority_status = 2, frees = 0
                 PROVE  EarlyOff'
      BY <1>7, StatusTriggerDoes DEF EarlyOff
    <2>1. CASE db_status.master # signal.master
      BY <1>7, <2>1, StatusTriggerDoes DEF EarlyOff, MaxGap
    <2>2. CASE db_status.master = signal.master
      <3>1. signal.state[2] = "red" => Db.state[2] = "red"
        BY <1>7, <2>2, StatusTriggerDoes DEF LinkInv, Taken, Color
      <3> QED
        BY <1>7, <2>2, <3>1, StatusTriggerDoes DEF EarlyOff
    <2> QED
      BY <2>1, <2>2
  <1>8. CASE RequestTrigger
    BY <1>8, RequestTriggerDoes DEF EarlyOff
  <1>9. CASE Timer
    <2> SUFFICES ASSUME mode = 0, priority_status' = 2, frees = 0
                 PROVE  EarlyOff'
      BY <1>9, TimerDoes DEF EarlyOff
    <2>1. priority_status = 2
      BY <1>9, TimerDoes DEF TypeInv
    <2>2. signal.state[2] # "green"
      <3>1. signal.pattern # 0
        BY <1>1, <2>1
      <3>2. gap > MaxGap => ~(gap <= MaxGap)
        BY DEF TypeInv, MaxGap
      <3> QED
        BY <1>9, <2>1, <3>1, <3>2, TimerDoes
           DEF EarlyOff, PriorityOver, Early_Green, Green_Extension
    <2> QED
      BY <1>9, <2>1, <2>2, TimerDoes DEF EarlyOff
  <1>10. CASE UNCHANGED vars
    BY <1>10, IdleDoes DEF EarlyOff, current
  <1> QED
    BY <1>2, <1>3, <1>4, <1>5, <1>6, <1>7, <1>8, <1>9, <1>10 DEF Next

\* The rest of the green of phase 4 lasts longer than a silence.
LEMMA ExtensionOffNext ==
  ASSUME TypeInv, LinkInv, PrioInv, ExtensionOff, [Next]_vars, PollsOften
  PROVE  ExtensionOff'
  <1> USE Constants
  <1>0. /\ local \in Nat /\ local < Cycle /\ force_off \in Int
        /\ force_off > Started4 /\ force_off <= ForceOff[4]
        /\ age \in Nat /\ age <= MaxSilence
        /\ MaxSilence + MaxLag <= ForceOff[4] - Started4 - 10
    BY DEF TypeInv, Clocks, PollsOften, MAX_GE
  <1>1. mode = 0 /\ frees = 0 /\ priority_status # 0 =>
          plan = 1 /\ ~Pending("request") /\ signal.pattern = 1
    BY DEF PrioInv, PlanKnown, TypeInv
  <1>2. CASE Tick
    <2> SUFFICES ASSUME mode' = 0, priority_status' = 3, frees' = 0
                 PROVE  ExtensionOff'
      BY DEF ExtensionOff
    <2>1. /\ UNCHANGED <<priority_status, frees, signal, Db>>
          /\ age' = age + 1 /\ age < MaxSilence
      BY <1>2, TickDoes
    <2>2. CASE mode = 0
      <3>1. ~(signal_trig /\ ~current)
        BY <1>1, <1>2, <2>1, <2>2, TickDoes
      <3>2. /\ local >= Started4 + 10 /\ force_off = ForceOff[4]
            /\ \/ /\ Db.state[4] = "red" /\ signal.state[4] = "red"
                  /\ local < Started4 + 10 + age
               \/ /\ Db.state[4] = "green" /\ signal.state[4] = "red"
                  /\ Pending("status") /\ local < ForceOff[4] - MaxLag + age
        BY <2>1, <2>2, <3>1 DEF ExtensionOff, MAX_GE
      <3>3. local < ForceOff[4]
        BY <1>0, <1>2, <2>1, <3>2, TickDoes
      <3>4. local' = local + 1 /\ force_off' = force_off
        BY <1>0, <1>2, <2>2, <3>3, TickDoes DEF Second, Rounded
      <3>5. Pending("status") => Pending("status")'
        BY <1>2, TickDoes
      <3> QED
        BY <1>0, <2>1, <3>2, <3>4, <3>5 DEF ExtensionOff, MAX_GE
    <2>3. CASE mode # 0
      <3>1. mode = 3
        BY <1>2, <2>1, <2>3, TickDoes DEF PrioInv, EarlyOn, TypeInv, Clocks
      <3>2. signal.state[4] = "red" /\ Db.state[4] = "red"
        BY <1>2, <3>1, TickDoes DEF PrioInv, ExtensionOn, Extends
      <3>3. local + 1 = Started4 /\ local' = Rounded(master + 1)
        BY <1>2, <2>3, <3>1, TickDoes DEF Second
      <3>4. master = local + 10 /\ force_off = ForceOff[4]
        BY <1>0, <3>1, <3>3 DEF TypeInv, Clocks, Extending, Ended, MAX_GE
      <3>5. local' = Started4 + 10
        BY <1>0, <3>3, <3>4 DEF Rounded
      <3>6. force_off' = ForceOff[4]
        BY <1>2, <3>4, TickDoes DEF Second
      <3> QED
        BY <1>0, <2>1, <3>2, <3>5, <3>6 DEF ExtensionOff, MAX_GE
    <2> QED
      BY <2>2, <2>3
  <1>3. CASE Poll
    <2>1. local >= Started4 + 10 /\ local < force_off =>
            Signal(Status).state[4] = "green"
      BY <1>0, StatusShows DEF Shown
    <2>3. /\ UNCHANGED <<local, mode, force_off, signal_trig, signal, gap,
                         priority_status, published, frees>>
          /\ Db' = Signal(Status) /\ age' = 0
          /\ ~Pending("status") /\ Pending("status")'
      BY <1>3, PollDoes
    <2>4. current' <=> current
      BY <2>3 DEF current
    <2> QED
      BY <1>0, <2>1, <2>3, <2>4 DEF ExtensionOff, MAX_GE
  <1>4. CASE Repeat
    BY <1>4, RepeatDoes DEF ExtensionOff, current
  <1>5. CASE Request
    BY <1>5, RequestDoes DEF ExtensionOff
  <1>6. CASE Free
    <2>1. UNCHANGED priority_status /\ mode = 0 /\ (plan = 1 => frees' # 0)
      BY <1>6, FreeDoes
    <2>2. frees' = 0 => frees = 0
      <3>1. frees' = frees + 1 \/ frees' = frees
        BY <1>6, Zenon DEF Free
      <3> QED
        BY <3>1 DEF TypeInv
    <2>3. priority_status' # 0 => frees' # 0
      BY <1>1, <2>1, <2>2
    <2> QED
      BY <2>3 DEF ExtensionOff
  <1>7. CASE StatusTrigger
    <2> SUFFICES ASSUME mode = 0, priority_status = 3, frees = 0
                 PROVE  ExtensionOff'
      BY <1>7, StatusTriggerDoes DEF ExtensionOff
    <2>1. CASE db_status.master # signal.master
      <3>1. age <= MaxLag
        BY <1>7, <2>1, StatusTriggerDoes DEF TypeInv
      <3>2. Db.state[4] = "green" => local < ForceOff[4]
        BY <1>0, <3>1 DEF ExtensionOff
      <3> QED
        BY <1>7, <2>1, <3>2, StatusTriggerDoes DEF ExtensionOff, MaxGap
    <2>2. CASE db_status.master = signal.master
      <3>1. signal.state[4] = "red" => Db.state[4] = "red"
        <4>1. Taken
          BY DEF LinkInv
        <4> QED
          BY <1>7, <2>2, <4>1, StatusTriggerDoes DEF LinkInv
      <3> QED
        BY <1>7, <2>2, <3>1, StatusTriggerDoes DEF ExtensionOff
    <2> QED
      BY <2>1, <2>2
  <1>8. CASE RequestTrigger
    BY <1>8, RequestTriggerDoes DEF ExtensionOff
  <1>9. CASE Timer
    <2> SUFFICES ASSUME mode = 0, priority_status' = 3, frees = 0
                 PROVE  ExtensionOff'
      BY <1>9, TimerDoes DEF ExtensionOff
    <2>1. priority_status = 3
      BY <1>9, TimerDoes DEF TypeInv
    <2>2. signal.state[4] # "green"
      <3>1. signal.pattern # 0
        BY <1>1, <2>1
      <3>2. gap > MaxGap => ~(gap <= MaxGap)
        BY DEF TypeInv, MaxGap
      <3> QED
        BY <1>9, <2>1, <3>1, <3>2, TimerDoes
           DEF ExtensionOff, PriorityOver, Early_Green, Green_Extension
    <2> QED
      BY <1>9, <2>1, <2>2, TimerDoes DEF ExtensionOff
  <1>10. CASE UNCHANGED vars
    BY <1>10, IdleDoes DEF ExtensionOff, current
  <1> QED
    BY <1>2, <1>3, <1>4, <1>5, <1>6, <1>7, <1>8, <1>9, <1>10 DEF Next

\* A priority that is over is announced as long as a status from before the
\* green it waits for is the last one taken over.
LEMMA PriorityGiven ==
  ASSUME TypeInv, LinkInv, PrioInv, PubInv, EarlyOff, ExtensionOff,
         PollsOften
  PROVE  PriorityIsGiven
  <1> USE Constants
  <1> DEFINE k == gap + lag
             sl == signal.local
             sm == signal.master
  <1> SUFFICES ASSUME current, gap <= 1, mode = 0, frees = 0,
                      published.ix.bus_priority_calls # 0
               PROVE  local - (IF published.ix.bus_priority_calls = 2
                               THEN Ended4 ELSE Started4 + MAX_GE) \in 0 .. k
    BY DEF PriorityIsGiven, Early_Green
  <1>1. /\ priority_status = published.ix.bus_priority_calls
        /\ priority_status \in {2, 3} /\ ~PriorityOver
    BY PublicationFields DEF PubInv, TypeInv
  <1>2. /\ local \in Nat /\ local < Cycle /\ local = master
        /\ force_off \in Int /\ force_off > Started4
        /\ force_off <= ForceOff[4] /\ k \in 0 .. 2
        /\ sl \in Nat /\ sl < Cycle /\ sm \in Nat /\ sm < Cycle
    BY DbFields DEF TypeInv, Clocks, Clock, MaxGap
  <1>3. Fits(signal, k, local, master, force_off)
    BY DEF LinkInv, MaxGap, TypeInv
  <1> HIDE DEF k, sl, sm
  <1>4. local = Rounded(sm + k)
    BY <1>2, <1>3 DEF Fits, sm
  <1>5. k <= 3
    BY <1>2
  <1>6. CASE priority_status = 2
    <2>1. local >= Ended(force_off) /\ signal.state[2] # "green"
      BY <1>1, <1>6 DEF EarlyOff, PriorityOver, Early_Green
    <2>2. sl = sm
      BY <1>6 DEF PrioInv, ExtensionShown, sl, sm, MaxGap, TypeInv
    <2>3. sl < Ended(force_off)
      BY <1>3, <1>5, <2>1 DEF Fits, sl
    <2>4. local - Ended(force_off) \in 0 .. k
      BY <1>2, <1>4, <2>1, <2>2, <2>3 DEF Rounded, Ended
    <2> QED
      BY <1>1, <1>6, <2>4 DEF Ended, Ended4
  <1>7. CASE priority_status = 3
    <2>1. /\ local >= Started4 + 10 /\ force_off = ForceOff[4]
          /\ signal.state[4] # "green"
      BY <1>1, <1>7 DEF ExtensionOff, PriorityOver, Green_Extension, MAX_GE
    <2>2. local < ForceOff[4]
      <3>1. age \in Nat /\ age <= MaxSilence
            /\ MaxSilence + MaxLag <= ForceOff[4] - Started4 - 10
        BY DEF TypeInv, PollsOften, MAX_GE
      <3>2. CASE local < Started4 + MAX_GE + age
        BY <1>2, <3>1, <3>2 DEF MAX_GE
      <3>3. CASE /\ Db.state[4] = "green" /\ signal.state[4] = "red"
                 /\ Pending("status") /\ local < ForceOff[4] - MaxLag + age
        <4>1. Taken /\ ~Pending("request")
          BY <1>7 DEF LinkInv, TypeInv
        <4>2. StatusFirst
          BY <3>3, <4>1, WhatIsPending DEF TypeInv, Triggers, StatusFirst
        <4>3. signal.master # db_status.master
          BY <3>3, <4>1, <4>2 DEF LinkInv
        <4>4. age <= MaxLag
          BY <4>2, <4>3 DEF TypeInv
        <4> QED
          BY <1>2, <3>1, <3>3, <4>4
      <3> QED
        BY <1>1, <1>7, <3>2, <3>3 DEF ExtensionOff
    <2>3. sl # sm
      <3>1. ASSUME sl = sm, signal.state[2] = "green"
            PROVE  FALSE
        BY <1>2, <1>3, <1>4, <1>5, <2>1, <2>2, <3>1
           DEF Fits, Rounded, Ended, sl, sm
      <3>2. ASSUME sl = sm, signal.state[2] # "green"
            PROVE  FALSE
        <4>1. sl < Ended(force_off) /\ signal.state[4] = ColorAt4(sl, force_off)
          BY <1>3, <1>5, <3>2 DEF Fits, sl
        <4> QED
          BY <1>2, <1>4, <2>1, <2>2, <3>2, <4>1 DEF ColorAt4, Rounded, Ended
      <3> QED
        BY <3>1, <3>2
    <2>4. Extending(sl, sm)
      BY <1>3, <2>3 DEF Fits, sl, sm
    <2>5. local - (Started4 + 10) \in 0 .. k
      BY <1>2, <1>4, <2>1, <2>4 DEF Extending, Rounded, MAX_GE
    <2> QED
      BY <1>1, <1>7, <2>5 DEF MAX_GE
  <1> QED
    BY <1>1, <1>6, <1>7

-----------------------------------------------------------------------------
(* The countdown.                                                          *)

\* What the program makes of the end of a colour, at clock lc.
TimeTo(end, lc) ==
  CASE end - lc < -1 -> end - lc + Cycle
    [] end - lc = -1 -> 0
    [] OTHER -> end - lc

\* What is right for a colour that is still shown at l, and for one that is not.
RightOn(end, l, late) ==
  LET ends == ((end - l) % Cycle) + late IN IF ends < 0 THEN 0 ELSE ends

RightOff(end, l, late) ==
  LET ends == -((l - end) % Cycle) + late IN IF ends < 0 THEN 0 ELSE ends

LEMMA SmallRest ==
  /\ \A n \in 0 .. Cycle - 1 : n % Cycle = n
  /\ \A n \in -(Cycle - 1) .. -1 : n % Cycle = n + Cycle
  BY Constants

\* The colour ends within a cycle, or has ended a second ago at most.
LEMMA EndIsNear ==
  ASSUME NEW end \in 0 .. Cycle - 1, NEW lc \in Nat, NEW late \in 0 .. 1,
         lc + late < Cycle, lc <= end + 1
  PROVE  /\ lc + late < end =>
              TimeTo(end, lc) = RightOn(end, lc + late, late)
         /\ lc + late >= end =>
              TimeTo(end, lc) = RightOff(end, lc + late, late)
  <1> USE Constants
  <1> DEFINE l == lc + late
  <1>1. ASSUME l < end
        PROVE  TimeTo(end, lc) = RightOn(end, l, late)
    <2>1. end - l \in 0 .. Cycle - 1 /\ end - lc >= 0
      BY <1>1
    <2>2. (end - l) % Cycle = end - l
      BY <2>1, SmallRest
    <2>3. (end - l) + late = end - lc
      OBVIOUS
    <2> QED
      BY <1>1, <2>1, <2>2, <2>3 DEF TimeTo, RightOn, RightOff
  <1>2. ASSUME l >= end
        PROVE  TimeTo(end, lc) = RightOff(end, l, late)
    <2>1. l - end \in 0 .. Cycle - 1
      BY <1>2
    <2>2. (l - end) % Cycle = l - end
      BY <2>1, SmallRest
    <2>3. -(l - end) + late = end - lc /\ end - lc >= -1
      OBVIOUS
    <2> QED
      BY <1>2, <2>2, <2>3 DEF TimeTo, RightOn, RightOff
  <1> QED
    BY <1>1, <1>2

\* The colour ends in the next cycle.
LEMMA EndIsFar ==
  ASSUME NEW end \in 0 .. Cycle - 1, NEW lc \in Nat, NEW late \in 0 .. 1,
         lc + late < Cycle, lc >= end + 2
  PROVE  TimeTo(end, lc) = RightOn(end, lc + late, late)
  <1> USE Constants
  <1>1. end - (lc + late) \in -(Cycle - 1) .. -1
    OBVIOUS
  <1>2. (end - (lc + late)) % Cycle = end - (lc + late) + Cycle
    BY <1>1, SmallRest
  <1>3. /\ end - (lc + late) + Cycle + late = end - lc + Cycle
        /\ end - lc + Cycle >= 0 /\ end - lc < -1
    OBVIOUS
  <1> QED
    BY <1>2, <1>3 DEF TimeTo, RightOn, RightOff

\* The next cycle has just begun.
LEMMA EndIsNext ==
  ASSUME NEW end \in 0 .. Cycle - 3
  PROVE  /\ TimeTo(end, Cycle - 1) = RightOn(end, 0, 1)
         /\ end = 0 => TimeTo(end, Cycle - 1) = RightOff(end, 0, 1)
  <1> USE Constants
  <1>1. TimeTo(end, Cycle - 1) = end + 1
    BY DEF TimeTo
  <1>2. end - 0 = end /\ end % Cycle = end /\ (0 - 0) % Cycle = 0
    BY SmallRest
  <1> QED
    BY <1>1, <1>2 DEF RightOn, RightOff

\* When colour c of phase p ends in this cycle.
EndOf(p, c) ==
  IF p = 4
  THEN CASE c = "green" -> force_off
         [] c = "yellow" -> force_off + Yellow[4]
         [] OTHER -> Started4
  ELSE CASE c = "green" -> 0
         [] c = "yellow" -> Yellow[2]
         [] OTHER -> Ended4

\* Without an extension the timer goes by the onset of the following colour.
LEMMA LeftUsual ==
  ASSUME NEW p \in Phase, NEW status \in {0, 2}
  PROVE  Left(p, status)
           = TimeTo((IF status = 2 THEN signal_EG_onset[p]
                     ELSE signal_state_onset[p])[Following(signal.state[p])],
                    Rounded(signal.local + gap))
  BY DEF Left, Countdown, TimeLeft, TimeTo, Green_Extension, Early_Green

\* By both sets of onsets the colour that follows begins when this one ends.
LEMMA EndOnset ==
  ASSUME NEW fo \in Int, fo > Started4, fo <= ForceOff[4],
         NEW c \in Color
  PROVE  /\ EarlyOnset(1, fo)[4][Following(c)]
              = CASE c = "green" -> fo
                  [] c = "yellow" -> fo + Yellow[4]
                  [] OTHER -> Started4
         /\ signal_state_onset[4][Following(c)]
              = CASE c = "green" -> ForceOff[4]
                  [] c = "yellow" -> ForceOff[4] + Yellow[4]
                  [] OTHER -> Started4
         /\ EarlyOnset(1, fo)[2][Following(c)]
              = CASE c = "green" -> 0
                  [] c = "yellow" -> Yellow[2]
                  [] OTHER -> Ended(fo)
         /\ signal_state_onset[2][Following(c)]
              = CASE c = "green" -> 0
                  [] c = "yellow" -> Yellow[2]
                  [] OTHER -> Ended(ForceOff[4])
  BY EarlyOnsetFacts DEF Following, Color

LEMMA EndsOf ==
  /\ EndOf(4, "green") = force_off /\ EndOf(2, "green") = 0
  /\ EndOf(4, "yellow") = force_off + Yellow[4]
  /\ EndOf(2, "yellow") = Yellow[2]
  /\ EndOf(4, "red") = Started4 /\ EndOf(2, "red") = Ended4
  BY DEF EndOf

\* The status shows the colour its own clock was in.  If that has not ended by
\* more than a second the countdown goes to its end in this cycle, and else
\* (red of phase 4, green of phase 2) the program takes it for the next one.
LEMMA CountdownIsRight ==
  ASSUME TypeInv, LinkInv, PrioInv, PubInv, EarlyOff
  PROVE  CountdownRight
  <1> USE Constants
  <1> SUFFICES ASSUME current, gap <= 2, ~Pending("request"),
                      published.ix.bus_priority_calls = 0 \/ frees = 0,
                      mode # 3, published.ix.bus_priority_calls # 3,
                      NEW p \in Phase, NEW a \in Approaches(p)
               PROVE  LET ends == Ends(p, published.ix.signal_state[a]) + lag
                      IN published.ix.time_to_next[a]
                           = IF ends < 0 THEN 0 ELSE ends
    BY DEF CountdownRight, Green_Extension
  <1> DEFINE status == priority_status
             c == signal.state[p]
             sl == signal.local
             lc == Rounded(sl + gap)
  <1>1. /\ published.ix.bus_priority_calls = status
        /\ published.ix.signal_state[a] = c
        /\ published.ix.time_to_next[a] = Left(p, status)
        /\ status \in {0, 2} /\ ~PriorityOver
    BY PublicationFields DEF PubInv, TypeInv
  <1>2. LET ends == Ends(p, c) + lag
        IN (IF ends < 0 THEN 0 ELSE ends)
             = IF Shown(p) = c THEN RightOn(EndOf(p, c), local, lag)
               ELSE RightOff(EndOf(p, c), local, lag)
    BY DEF RightOn, RightOff, EndOf, Ends
  <1>3. /\ sl \in Nat /\ sl < Cycle /\ local \in Nat /\ local < Cycle
        /\ gap \in 0 .. 2 /\ lag \in 0 .. 1 /\ gap + lag <= 3
        /\ force_off \in Int /\ force_off > Started4
        /\ force_off <= ForceOff[4]
    BY DbFields DEF TypeInv, Clocks, Clock, MaxGap
  <1>4. Fits(signal, gap + lag, local, master, force_off)
    BY DEF LinkInv, MaxGap, TypeInv
  <1>5. sl = signal.master
    BY <1>1 DEF PrioInv, ExtensionShown, MaxGap, TypeInv
  <1>6. local = Rounded(sl + (gap + lag))
    BY <1>4, <1>5 DEF Fits, TypeInv, Clocks
  <1>7. status = 2 =>
          /\ signal_EG_onset = EarlyOnset(1, force_off)
          /\ sl >= Started4 /\ signal.state[2] # "green"
    <2>1. mode \in {0, 2} /\ (status = 2 => frees = 0)
      BY <1>1 DEF TypeInv, Clocks
    <2> QED
      BY <1>1, <2>1
         DEF PrioInv, EarlyOn, EarlyOff, PriorityOver, Early_Green
  <1>8. signal.state[2] # "green" /\ status = 0 => force_off = ForceOff[4]
    BY DEF PrioInv, CutShort
  <1>9. status = 0 => mode = 0
    BY DEF PrioInv, EarlyOn, TypeInv, Clocks
  <1>10. local < 10 /\ mode = 0 => force_off = ForceOff[4]
    BY <1>3 DEF TypeInv, Clocks, Ended
  <1>11. /\ signal.state[2] \in Color /\ signal.state[4] \in Color
         /\ signal.state[2] = "green" =>
              signal.state[4] = "red" /\ sl >= Started4 + 1 + Yellow[4]
         /\ signal.state[2] = "yellow" =>
              signal.state[4] = "red" /\ sl < Yellow[2]
         /\ signal.state[2] = "red" => sl >= Yellow[2]
         /\ signal.state[2] = "green" /\ local >= sl => local >= Ended4
         /\ signal.state[2] # "green" =>
              sl < Ended4 /\ signal.state[4] = ColorAt4(sl, force_off)
    BY <1>3, <1>4 DEF Fits, Ended, Ended4
  <1>12. /\ Ended4 \in Int /\ Ended4 = force_off + Yellow[4] + AllRed[4]
         /\ Ended4 + 10 < Cycle
    BY <1>3 DEF Ended4
  <1>13. Shown(4) = ColorAt4(local, force_off)
    BY DEF Shown, ColorAt4
  <1>14. /\ p \in {2, 4} /\ c \in Color
         /\ p = 2 => c = signal.state[2]
         /\ p = 4 => c = signal.state[4]
    BY <1>11 DEF Phase
  <1>15. Left(p, status) = TimeTo(EndOf(p, c), lc)
    <2>1. (IF status = 2 THEN signal_EG_onset[p]
           ELSE signal_state_onset[p])[Following(c)] = EndOf(p, c)
      <3>1. CASE status = 2
        BY <1>3, <1>7, <1>14, <3>1, EndOnset DEF EndOf, Ended, Ended4
      <3>2. CASE status # 2 /\ force_off = ForceOff[4]
        BY <1>3, <1>14, <3>2, EndOnset DEF EndOf, Ended, Ended4
      <3>3. CASE status # 2 /\ force_off # ForceOff[4]
        <4>1. signal.state[2] = "green" /\ signal.state[4] = "red"
          BY <1>1, <1>8, <1>11, <3>3
        <4> QED
          BY <1>3, <1>14, <3>3, <4>1, EndOnset DEF EndOf
      <3> QED
        BY <3>1, <3>2, <3>3
    <2> QED
      BY <1>1, <2>1, LeftUsual
  <1> HIDE DEF sl, c
  <1>16. /\ Shown(p) = c =>
              TimeTo(EndOf(p, c), lc) = RightOn(EndOf(p, c), local, lag)
         /\ Shown(p) # c =>
              TimeTo(EndOf(p, c), lc) = RightOff(EndOf(p, c), local, lag)
    <2>1. CASE signal.state[2] # "green"
      <3>1. lc = sl + gap /\ local = lc + lag /\ lc \in Nat /\ lc + lag < Cycle
        BY <1>3, <1>6, <1>11, <1>12, <2>1 DEF Rounded
      <3>2. sl < Started4 => force_off = ForceOff[4]
        BY <1>1, <1>3, <1>7, <1>8, <2>1
      <3> HIDE DEF lc
      <3>3. lc \in Nat /\ lag \in 0 .. 1 /\ lc + lag < Cycle
        BY <1>3, <3>1
      <3>4. CASE p = 4 /\ c = "green"
        <4>1. sl >= Started4 /\ sl < force_off
          BY <1>3, <1>11, <1>14, <2>1, <3>4 DEF ColorAt4
        <4>2. Shown(4) = "green" <=> lc + lag < force_off
          BY <1>3, <1>13, <3>1, <4>1 DEF ColorAt4
        <4> DEFINE end == EndOf(p, c)
        <4>3. /\ EndOf(p, c) = end /\ end = force_off
              /\ end \in 0 .. Cycle - 1 /\ lc <= end + 1
          BY <1>3, <3>1, <3>4, <4>1, EndsOf
        <4> HIDE DEF end
        <4>4. /\ lc + lag < end =>
                    TimeTo(end, lc) = RightOn(end, lc + lag, lag)
              /\ lc + lag >= end =>
                    TimeTo(end, lc) = RightOff(end, lc + lag, lag)
          BY ONLY <3>3, <4>3, EndIsNear
        <4> QED
          BY <1>3, <3>1, <3>4, <4>2, <4>3, <4>4
      <3>5. CASE p = 4 /\ c = "yellow"
        <4>1. sl >= force_off /\ sl < force_off + Yellow[4]
          BY <1>3, <1>11, <1>14, <2>1, <3>5 DEF ColorAt4
        <4>2. Shown(4) = "yellow" <=> lc + lag < force_off + Yellow[4]
          BY <1>3, <1>13, <3>1, <4>1 DEF ColorAt4
        <4> DEFINE end == EndOf(p, c)
        <4>3. /\ EndOf(p, c) = end /\ end = force_off + Yellow[4]
              /\ end \in 0 .. Cycle - 1
              /\ lc <= end + 1
          BY <1>3, <1>12, <3>1, <3>5, <4>1, EndsOf
        <4> HIDE DEF end
        <4>4. /\ lc + lag < end =>
                    TimeTo(end, lc) = RightOn(end, lc + lag, lag)
              /\ lc + lag >= end =>
                    TimeTo(end, lc) = RightOff(end, lc + lag, lag)
          BY ONLY <3>3, <4>3, EndIsNear
        <4> QED
          BY <1>3, <3>1, <3>5, <4>2, <4>3, <4>4
      <3>6. CASE p = 4 /\ c = "red" /\ sl < Started4
        <4>1. Shown(4) = "red" <=> lc + lag < Started4
          BY <1>3, <1>13, <3>1, <3>2, <3>6 DEF ColorAt4
        <4> QED
          BY <1>3, <3>1, <3>6, <4>1, EndIsNear, EndsOf
      <3>7. CASE p = 4 /\ c = "red" /\ sl >= Started4
        <4>1. sl >= force_off + Yellow[4]
          BY <1>3, <1>11, <1>14, <2>1, <3>7 DEF ColorAt4
        <4>2. Shown(4) = "red" /\ Rounded(lc + lag) = local
          BY <1>3, <1>13, <3>1, <4>1 DEF ColorAt4, Rounded
        <4> DEFINE end == EndOf(p, c)
        <4>3. /\ EndOf(p, c) = end /\ end = Started4
              /\ end \in 0 .. Cycle - 1
          BY <1>3, <3>7, EndsOf
        <4> HIDE DEF end
        <4>4. lc >= end + 2
          BY <1>3, <1>12, <3>1, <3>7, <4>1, <4>3
        <4>5. TimeTo(end, lc) = RightOn(end, lc + lag, lag)
          BY ONLY <3>3, <4>3, <4>4, EndIsFar
        <4> QED
          BY <3>1, <3>7, <4>2, <4>3, <4>5
      <3>8. CASE p = 2 /\ c = "yellow"
        <4>1. sl < Yellow[2]
          BY <1>11, <1>14, <3>8
        <4>2. Shown(2) = "yellow" <=> lc + lag < Yellow[2]
          BY <1>3, <1>12, <3>1, <3>2, <4>1 DEF Shown
        <4> DEFINE end == EndOf(p, c)
        <4>3. /\ EndOf(p, c) = end /\ end = Yellow[2]
              /\ end \in 0 .. Cycle - 1 /\ lc <= end + 1
          BY <1>3, <3>1, <3>8, <4>1, EndsOf
        <4> HIDE DEF end
        <4>4. /\ lc + lag < end =>
                    TimeTo(end, lc) = RightOn(end, lc + lag, lag)
              /\ lc + lag >= end =>
                    TimeTo(end, lc) = RightOff(end, lc + lag, lag)
          BY ONLY <3>3, <4>3, EndIsNear
        <4> QED
          BY <1>3, <3>1, <3>8, <4>2, <4>3, <4>4
      <3>9. CASE p = 2 /\ c = "red"
        <4>1. sl >= Yellow[2] /\ sl < Ended4
          BY <1>11, <1>14, <2>1, <3>9
        <4>2. Shown(2) = "red" <=> lc + lag < Ended4
          BY <1>3, <1>12, <3>1, <4>1 DEF Shown
        <4> DEFINE end == EndOf(p, c)
        <4>3. /\ EndOf(p, c) = end /\ end = Ended4
              /\ end \in 0 .. Cycle - 1 /\ lc <= end + 1
          BY <1>3, <1>12, <3>1, <3>9, <4>1, EndsOf
        <4> HIDE DEF end
        <4>4. /\ lc + lag < end =>
                    TimeTo(end, lc) = RightOn(end, lc + lag, lag)
              /\ lc + lag >= end =>
                    TimeTo(end, lc) = RightOff(end, lc + lag, lag)
          BY ONLY <3>3, <4>3, EndIsNear
        <4> QED
          BY <1>3, <3>1, <3>9, <4>2, <4>3, <4>4
      <3> QED
        BY <1>3, <1>14, <2>1, <3>4, <3>5, <3>6, <3>7, <3>8, <3>9 DEF Color
    <2>2. CASE signal.state[2] = "green"
      <3>1. /\ p = 2 => c = "green"
            /\ p = 4 => c = "red"
        BY <1>11, <1>14, <2>2
      <3>2. status = 0 /\ mode = 0
        BY <1>1, <1>7, <1>9, <2>2
      <3>3. CASE sl + gap < Cycle
        <4>1. lc = sl + gap /\ lc \in Nat /\ lc >= Started4 + 2
              /\ Rounded(lc + lag) = local
          BY <1>3, <1>6, <1>11, <2>2, <3>3 DEF Rounded
        <4>2. lc + lag < Cycle => local >= Ended4
          BY <1>3, <1>11, <2>2, <4>1 DEF Rounded
        <4>3. lc + lag >= Cycle => local = 0 /\ lag = 1 /\ lc = Cycle - 1
          BY <1>3, <3>3, <4>1 DEF Rounded
        <4> HIDE DEF lc
        <4>4. CASE p = 4
          <5>1. Shown(4) = "red"
            BY <1>3, <1>12, <1>13, <4>1, <4>2, <4>3 DEF ColorAt4
          <5>2. CASE lc + lag < Cycle
            BY <1>3, <3>1, <4>1, <4>4, <5>1, <5>2, EndIsFar, EndsOf
               DEF Rounded
          <5>3. CASE lc + lag >= Cycle
            BY <1>3, <3>1, <4>3, <4>4, <5>1, <5>3, EndIsNext, EndsOf
          <5> QED
            BY <1>3, <4>1, <5>2, <5>3
        <4>5. CASE p = 2
          <5>1. IF lc + lag < Cycle THEN Shown(2) = "green"
                ELSE Shown(2) # "green"
            BY <1>3, <1>12, <4>1, <4>2, <4>3 DEF Shown
          <5>2. CASE lc + lag < Cycle
            <6>1. EndOf(p, c) = 0 /\ local = lc + lag /\ Shown(p) = c
              BY <1>3, <3>1, <4>1, <4>5, <5>1, <5>2, EndsOf DEF Rounded
            <6>2. lc \in Nat /\ lag \in 0 .. 1 /\ lc >= 0 + 2
              BY <1>3, <4>1
            <6>3. 0 \in 0 .. Cycle - 1
              OBVIOUS
            <6>4. TimeTo(0, lc) = RightOn(0, lc + lag, lag)
              BY ONLY <5>2, <6>2, <6>3, EndIsFar
            <6> QED
              BY <6>1, <6>4
          <5>3. CASE lc + lag >= Cycle
            BY <1>3, <3>1, <4>3, <4>5, <5>1, <5>3, EndIsNext, EndsOf
          <5> QED
            BY <1>3, <4>1, <5>2, <5>3
        <4> QED
          BY <1>14, <4>4, <4>5
      <3>4. CASE sl + gap >= Cycle
        <4>1. lc \in 0 .. 1 /\ local = lc + lag
          BY <1>3, <1>6, <3>4 DEF Rounded
        <4>2. force_off = ForceOff[4]
          BY <1>3, <1>10, <3>2, <4>1
        <4> HIDE DEF lc
        <4>3. CASE p = 4
          <5>1. Shown(4) = "red" <=> lc + lag < Started4
            BY <1>3, <1>13, <4>1, <4>2 DEF ColorAt4
          <5> QED
            BY <1>3, <3>1, <4>1, <4>3, <5>1, EndIsNear, EndsOf
        <4>4. CASE p = 2
          <5>1. Shown(2) # "green"
            BY <1>3, <1>12, <4>1, <4>2 DEF Shown
          <5> QED
            BY <1>3, <3>1, <4>1, <4>4, <5>1, EndIsNear, EndsOf
        <4> QED
          BY <1>14, <4>3, <4>4
      <3> QED
        BY <1>3, <3>3, <3>4
    <2> QED
      BY <2>1, <2>2
  <1> QED
    BY <1>1, <1>2, <1>15, <1>16

-----------------------------------------------------------------------------
(* The theorems.                                                           *)

\* What holds in every state if no poll comes a whole cycle after another.
IInv == TypeInv /\ LinkInv /\ PrioInv /\ PubInv

\* What holds as well if no silence hides the green a priority waits for.
OffInv == IInv /\ EarlyOff /\ ExtensionOff

LEMMA PollsOftenInCycle == PollsOften => PollsInCycle
  BY Constants DEF PollsOften, PollsInCycle, MAX_GE

LEMMA IInvInit ==
  ASSUME Init
  PROVE  IInv
  <1>1. PubInv
    BY DEF Init, PubInv, current
  <1> QED
    BY <1>1, TypeInit, LinkInit, PrioInit DEF IInv

LEMMA IInvNext ==
  ASSUME PollsInCycle, IInv, [Next]_vars
  PROVE  IInv'
  <1>1. TypeInv' /\ LinkInv' /\ PubInv'
    BY TypeNext, LinkNext, PubNext DEF IInv
  <1>2. EarlyOn' /\ ExtensionOn' /\ ExtensionShown' /\ PlanKnown' /\ CutShort'
    BY EarlyOnNext, ExtensionOnNext, ExtensionShownNext, PlanKnownNext,
       CutShortNext DEF IInv, PrioInv
  <1> QED
    BY <1>1, <1>2 DEF IInv, PrioInv

\* Whatever the plan, the requests, the silences and the order of triggers and
\* timers, the fields keep their ranges and the clocks of the controller keep
\* to its plan (phase170e.c).
THEOREM TypesKept == Spec => []TypeInv
  BY TypeInit, TypeNext, PTL DEF Spec

\* If no poll comes a whole cycle after the one before, what the program knows
\* of the controller is right (the triggers and the timer of phase170e.c).
THEOREM InvariantKept == ASSUME PollsInCycle PROVE Spec => []IInv
  BY IInvInit, IInvNext, PTL DEF Spec

\* If no silence hides the green a priority waits for, the program sees every
\* priority end (the two tests at the start of the timer, phase170e.c).
THEOREM OffInvariantKept == ASSUME PollsOften PROVE Spec => []OffInv
  <1>1. Init => OffInv
    <2>1. Init => priority_status = 0
      BY DEF Init
    <2> QED
      BY <2>1, IInvInit DEF OffInv, EarlyOff, ExtensionOff
  <1>2. OffInv /\ [Next]_vars => OffInv'
    BY PollsOftenInCycle, IInvNext, EarlyOffNext, ExtensionOffNext
       DEF OffInv, IInv
  <1> QED
    BY <1>1, <1>2, PTL DEF Spec

\* The time an early green is said to save is how much earlier phase 2 begins
\* (bus_time_saved, phase170e.c).
THEOREM SavedAlwaysRight == ASSUME PollsInCycle PROVE Spec => []SavedRight
  <1>1. IInv => SavedRight
    BY SavedIsRight DEF IInv, PrioInv
  <1> QED
    BY <1>1, InvariantKept, PTL

\* During an extension phase 4 counts down to its green, although the local
\* clock stands still (the extension's branches of the timer, phase170e.c).
THEOREM ExtensionAlwaysRed == ASSUME PollsInCycle PROVE Spec => []ExtensionRed
  <1>1. IInv => ExtensionRed
    BY ExtensionIsRight DEF IInv, PrioInv
  <1> QED
    BY <1>1, InvariantKept, PTL

\* A priority is announced while the controller gives it and no longer than a
\* status takes to show its end (phase170e.c).
THEOREM PriorityAlwaysGiven ==
  ASSUME PollsOften PROVE Spec => []PriorityIsGiven
  <1>1. OffInv => PriorityIsGiven
    BY PriorityGiven DEF OffInv, IInv
  <1> QED
    BY <1>1, OffInvariantKept, PTL

\* The countdown of every approach goes to the moment its light changes, in the
\* plan and in an early green, across the end of the cycle and with a status up
\* to three seconds old (the timer, phase170e.c).
THEOREM CountdownAlwaysRight ==
  ASSUME PollsOften PROVE Spec => []CountdownRight
  <1>1. OffInv => CountdownRight
    BY CountdownIsRight DEF OffInv, IInv
  <1> QED
    BY <1>1, OffInvariantKept, PTL
=============================================================================
