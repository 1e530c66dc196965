------------------------------ MODULE UrmsProofs -----------------------------
(***************************************************************************)
(* Theorems about Urms, for any lanes, commands, times and bounds.  The    *)
(* inductive invariant says which descriptors are open at every call: the  *)
(* first ones, one more than commands were forwarded, the last of them the *)
(* one in use, because socket() hands out the lowest that is free.         *)
(***************************************************************************)
EXTENDS Urms, TLAPS, FiniteSetTheorems

Connected == {"first", "wait", "connect_command", "poll", "release"}
             \cup Alone
Closing == {"connect_poll", "connect_again"}

FdsInv ==
  /\ pc = "open" => fds = {} /\ forwarded = 0
  /\ pc \in Connected => fds = 1..(forwarded + 1) /\ urmsfd = forwarded + 1
  /\ pc \in Closing => fds = 1..forwarded
  /\ pc = "send_command" => fds = 1..(forwarded + 2) /\ urmsfd = forwarded + 2
  /\ pc \in Stopped => \E n \in 0..(forwarded + 1) : fds = 1..n
  /\ pc \notin {"open"} \cup Stopped => setjmpfd = 1

ControlInv ==
  /\ pc \in {"open", "first", "release"} \cup Alone => ~heard
  /\ pc \in {"connect_command", "send_command"} => ~runtime
  /\ NoControlHeld

Inv == TypeOK /\ FdsInv /\ ControlInv

-----------------------------------------------------------------------------
(* The operators.                                                          *)

\* A setting that was clamped is one the program sends.
LEMMA ClampSent == ASSUME NEW s \in Setting PROVE Clamp(s) \in Sent
BY SMT DEF Clamp, Setting, Sent, SKIP

\* The same for all lanes, which stay SKIP if they were.
LEMMA ClampedSent ==
  ASSUME NEW setting \in [Lane -> Setting]
  PROVE  /\ Clamped(setting) \in [Lane -> Sent]
         /\ Clamped(setting) \in [Lane -> Setting]
         /\ AllSkip(setting) \in [Lane -> Setting]
         /\ \A l \in Lane : Clamped(AllSkip(setting))[l].action = SKIP
<1>1. Clamped(setting) \in [Lane -> Sent]
  BY ClampSent DEF Clamped
<1>2. Sent \subseteq Setting
  BY SMT DEF Sent, Setting
<1>3. AllSkip(setting) \in [Lane -> Setting]
  BY DEF AllSkip, Setting, SKIP
<1>4. ASSUME NEW l \in Lane
      PROVE  Clamped(AllSkip(setting))[l].action = SKIP
  <2>1. AllSkip(setting)[l].action = SKIP
    BY DEF AllSkip, Setting
  <2>2. Clamp(AllSkip(setting)[l]).action = SKIP
    BY <2>1 DEF Clamp, SKIP
  <2> QED
    BY <2>2 DEF Clamped
<1> QED
  BY <1>1, <1>2, <1>3, <1>4

\* With the first k descriptors open the next one handed out is k + 1.
LEMMA LowestNext ==
  ASSUME NEW k \in Nat, Descriptor \ (1..k) # {}
  PROVE  /\ Lowest(Descriptor \ (1..k)) = k + 1
         /\ k + 1 \in Descriptor
         /\ (1..k) \cup {k + 1} = 1..(k + 1)
<1> DEFINE free == Descriptor \ (1..k)
<1>1. PICK n \in Descriptor : n \notin 1..k
  OBVIOUS
<1>2. k + 1 \in free /\ \A m \in free : k + 1 <= m
  BY <1>1, UrmsAssumption, SMT DEF Descriptor
<1>3. \A n2 \in free : (\A m \in free : n2 <= m) => n2 = k + 1
  BY <1>2, UrmsAssumption, SMT DEF Descriptor
<1>4. Lowest(free) = k + 1
  BY <1>2, <1>3, Zenon DEF Lowest
<1>5. (1..k) \cup {k + 1} = 1..(k + 1)
  BY SMT
<1> QED
  BY <1>2, <1>4, <1>5

\* What one connection does to the descriptors when the first k are open.
LEMMA ConnectNext ==
  ASSUME NEW k \in Nat, fds = 1..k, NEW next, Connect(next), faults \in Nat
  PROVE  /\ faults' \in Nat
         /\ \/ /\ pc' = next /\ urmsfd' = k + 1 /\ fds' = 1..(k + 1)
               /\ k + 1 \in Descriptor
            \/ pc' = "failed" /\ urmsfd' = -1 /\ fds' = 1..k
<1>1. CASE /\ address /\ Descriptor \ fds # {}
           /\ urmsfd' = Lowest(Descriptor \ fds)
           /\ fds' = fds \cup {urmsfd'}
           /\ pc' = next /\ UNCHANGED faults
  BY <1>1, LowestNext
<1>2. CASE /\ IF address /\ Descriptor \ fds # {}
              THEN Fault(1) ELSE UNCHANGED faults
           /\ urmsfd' = -1 /\ pc' = "failed" /\ UNCHANGED fds
  BY <1>2 DEF Fault
<1> QED
  BY <1>1, <1>2, Zenon DEF Connect

\* One set message leaves the lanes alone or sets all of them; without a fault
\* on an open connection it sets them.
LEMMA SetMeterSets ==
  ASSUME NEW fd, NEW setting \in [Lane -> Setting], NEW retval,
         SetMeter(fd, setting, retval), faults \in Nat
  PROVE  /\ meter' \in {meter, Clamped(setting)}
         /\ faults' \in Nat
         /\ fd \in fds /\ faults' = faults => meter' = Clamped(setting)
BY SMT DEF SetMeter, Fault

-----------------------------------------------------------------------------
(* The invariant holds at the start and every step keeps it.               *)

LEMMA InitInv == Init => Inv
<1> SUFFICES ASSUME Init PROVE Inv
  OBVIOUS
<1> USE DEF Init
<1>1. Zero \in Command
  BY DEF Zero, Command, Setting
<1>2. TypeOK
  BY <1>1, UrmsAssumption DEF TypeOK, Alone, Pc, Startup, Address
<1>3. FdsInv
  BY DEF FdsInv, Alone, Connected, Closing, Stopped
<1>4. ControlInv
  BY DEF ControlInv, NoControlHeld, Alone
<1> QED BY <1>2, <1>3, <1>4 DEF Inv

\* A call of OpenURMSConnection that nothing else goes with.
LEMMA ConnectInv ==
  ASSUME Inv, NEW k \in {forwarded, forwarded + 1}, fds = 1..k,
         NEW next \in Connected \cup {"send_command"}, Connect(next),
         IF next = "send_command" THEN k = forwarded + 1 /\ ~runtime
                                  ELSE k = forwarded,
         next = "connect_command" => ~runtime,
         next \in {"first", "release"} \cup Alone => ~heard,
         IF pc = "open" THEN setjmpfd' = urmsfd' ELSE UNCHANGED setjmpfd,
         pc = "open" => k = 0,
         pc \notin Stopped, hung' = FALSE,
         UNCHANGED <<chosen, runtime, db_urms, hour, meter, world,
                     forwarded, heard>>
  PROVE  Inv'
<1> USE DEF Inv, chosen
<1>1. k \in Nat /\ forwarded \in Nat /\ faults \in Nat
  BY DEF TypeOK
<1>2. /\ faults' \in Nat
      /\ \/ /\ pc' = next /\ urmsfd' = k + 1 /\ fds' = 1..(k + 1)
            /\ k + 1 \in Descriptor
         \/ pc' = "failed" /\ urmsfd' = -1 /\ fds' = 1..k
  BY <1>1, ConnectNext
<1>3. TypeOK'
  <2>1. urmsfd' \in Descriptor \cup {-1} /\ setjmpfd' \in Descriptor \cup {-1}
    BY <1>2 DEF TypeOK
  <2>2. fds' \subseteq Descriptor
    <3>1. CASE k + 1 \in Descriptor /\ fds' = 1..(k + 1)
      BY <3>1, <1>1, UrmsAssumption, SMT DEF Descriptor
    <3>2. CASE fds' = 1..k
      BY <3>2 DEF TypeOK
    <3> QED BY <3>1, <3>2, <1>2
  <2>3. pc' \in Pc
    BY <1>2 DEF Pc, Alone, Connected, Stopped
  <2> QED BY <1>2, <2>1, <2>2, <2>3 DEF TypeOK, world
<1>4. FdsInv'
  <2>1. CASE /\ pc' = next /\ urmsfd' = k + 1 /\ fds' = 1..(k + 1)
    BY <2>1, <1>1, SMT DEF FdsInv, Alone, Connected, Closing, Stopped
  <2>2. CASE pc' = "failed" /\ fds' = 1..k
    BY <2>2, <1>1, SMT DEF FdsInv, Alone, Connected, Closing, Stopped
  <2> QED BY <2>1, <2>2, <1>2
<1>5. ControlInv'
  BY <1>2 DEF ControlInv, NoControlHeld, Given, Alone, Connected
<1> QED BY <1>3, <1>4, <1>5

LEMMA NextInv == Inv /\ [Next]_vars => Inv'
<1> SUFFICES ASSUME Inv, [Next]_vars PROVE Inv'
  OBVIOUS
<1> USE DEF Inv, chosen
<1>t. /\ forwarded \in Nat /\ faults \in Nat
      /\ db_urms \in Command /\ db_urms.lane \in [Lane -> Setting]
      /\ meter \in [Lane -> FirstSetting \cup Sent]
      /\ meter \in [Lane -> Setting]
  <2>1. Sent \subseteq Setting
    BY SMT DEF Sent, Setting
  <2> QED BY <2>1, UrmsAssumption DEF TypeOK, Command
<1>a. AllSkip(db_urms.lane) \in [Lane -> Setting]
  BY <1>t, ClampedSent
<1>s. \A setting \in [Lane -> Setting] :
        [db_urms EXCEPT !.lane = setting] \in Command
  BY <1>t DEF Command
<1>m. ASSUME NEW setting \in [Lane -> Setting],
             meter' \in {meter, Clamped(setting)}
      PROVE  meter' \in [Lane -> FirstSetting \cup Sent]
  <2>1. Clamped(setting) \in [Lane -> FirstSetting \cup Sent]
    BY <1>m, ClampedSent
  <2> QED BY <2>1, <1>m, <1>t
<1>1. CASE Open /\ hung' = FALSE
  <2>1. PICK mode \in {"ask", "first"} : Connect(mode)
    BY <1>1 DEF Open
  <2>2. pc = "open" /\ fds = 1..forwarded /\ forwarded = 0 /\ ~heard
    BY <1>1, SMT DEF Open, FdsInv, ControlInv
  <2>3. /\ setjmpfd' = urmsfd'
        /\ hung' = FALSE
        /\ UNCHANGED <<chosen, runtime, db_urms, hour, meter, world,
                       forwarded, heard>>
    BY <1>1 DEF Open
  <2> QED
    BY <2>1, <2>2, <2>3, ConnectInv DEF Alone, Connected, Stopped
<1>2. CASE Ask /\ hung' = FALSE
  <2> USE <1>2 DEF Ask
  <2>1. ASSUME NEW request \in Requests
        PROVE  StandaloneSetting(request) \in [Lane -> Setting]
    <3>1. request \in [Lane -> Setting]
      BY UrmsAssumption DEF LaneOptions
    <3>2. \A l \in Lane : CurrentRate(l) \in Int
      <4>1. \A r \in Int : Msb(r) \in Int /\ Lsb(r) \in Int
        BY SMT DEF Msb, Lsb
      <4>2. \A l \in Lane : meter[l].rate \in Int
        BY <1>t DEF Setting
      <4>3. \A l \in Lane : (IF l > 2 THEN 1 ELSE l) \in Lane
        BY UrmsAssumption
      <4> QED BY <4>1, <4>2, <4>3 DEF CurrentRate
    <3> QED BY <3>1, <3>2, <1>t DEF StandaloneSetting, Setting
  <2>2. db_urms' \in Command /\ faults' \in Nat /\ pc' \in {"failed", "report"}
    BY <2>1, <1>s, <1>t DEF Fault
  <2>3. TypeOK'
    BY <2>2 DEF TypeOK, Alone, Pc, Stopped, world
  <2>4. FdsInv'
    BY <2>2, <1>t DEF FdsInv, Alone, Connected, Closing, Stopped
  <2>5. ControlInv'
    BY <2>2 DEF ControlInv, NoControlHeld, Given, Alone
  <2> QED BY <2>3, <2>4, <2>5
<1>3. CASE Report /\ hung' = FALSE
  <2> USE <1>3 DEF Report
  <2>1. meter' \in {meter, Clamped(db_urms.lane)} /\ faults' \in Nat
    BY <1>t, SetMeterSets
  <2>2. db_urms' \in Command
    BY <1>s, <1>t, ClampedSent
  <2>3. TypeOK'
    BY <2>1, <2>2, <1>m, <1>t DEF TypeOK, Alone, Pc, Stopped, world
  <2>4. FdsInv'
    BY DEF FdsInv, Alone, Connected, Closing, Stopped
  <2>5. ControlInv'
    BY DEF ControlInv, NoControlHeld, Alone
  <2> QED BY <2>3, <2>4, <2>5
<1>17. CASE TosEnableDetectors /\ hung' = FALSE
  <2> USE <1>17 DEF TosEnableDetectors
  <2>1. faults' \in Nat /\ pc' \in {"tos_set_action", "failed"}
    BY <1>t DEF Fault
  <2>2. TypeOK'
    BY <2>1 DEF TypeOK, Alone, Pc, Stopped, world
  <2>3. FdsInv'
    BY <2>1, <1>t DEF FdsInv, Alone, Connected, Closing, Stopped
  <2>4. ControlInv'
    BY <2>1 DEF ControlInv, NoControlHeld, Given, Alone
  <2> QED BY <2>2, <2>3, <2>4
<1>18. CASE TosSetAction /\ hung' = FALSE
  <2> USE <1>18 DEF TosSetAction
  <2>1. faults' \in Nat /\ pc' \in {"done", "failed"}
    BY <1>t DEF Fault
  <2>2. TypeOK'
    BY <2>1 DEF TypeOK, Alone, Pc, Stopped, world
  <2>3. FdsInv'
    <3>1. fds' = 1..0 /\ 0 \in 0..(forwarded' + 1)
      BY <1>t, SMT
    <3> QED BY <2>1, <3>1 DEF FdsInv, Alone, Connected, Closing, Stopped
  <2>4. ControlInv'
    BY <2>1 DEF ControlInv, NoControlHeld, Given, Alone
  <2> QED BY <2>2, <2>3, <2>4
<1>4. CASE First /\ hung' = FALSE
  <2> USE <1>4 DEF First
  <2>1. hour' \in 0..23 /\ faults' \in Nat /\ pc' \in {"wait", "failed"}
    <3>1. hour \in 0..23 /\ now.hour \in 0..23
      BY UrmsAssumption DEF TypeOK, Moment
    <3>2. CASE pc' = "wait" /\ Answered
      BY <3>1, <3>2, <1>t DEF Answered, Fault
    <3>3. CASE pc' = "failed" /\ NotAnswered
      BY <3>1, <3>3, <1>t DEF NotAnswered, Fault
    <3> QED BY <3>2, <3>3
  <2>2. TypeOK'
    BY <2>1 DEF TypeOK, Alone, Pc, Stopped, world
  <2>3. FdsInv'
    BY <2>1, <1>t DEF FdsInv, Alone, Connected, Closing, Stopped
  <2>4. ControlInv'
    BY <2>1 DEF ControlInv, NoControlHeld, Given, Alone
  <2> QED BY <2>2, <2>3, <2>4
<1>5. CASE WakeCommand /\ hung' = FALSE
  <2> USE <1>5 DEF WakeCommand
  <2>1. TypeOK'
    <3>1. pc' \in Pc
      BY DEF Pc
    <3>2. triggers' \in Nat /\ db_urms' \in Command
      BY DEF TypeOK
    <3> QED BY <3>1, <3>2 DEF TypeOK
  <2>2. FdsInv'
    BY DEF FdsInv, Alone, Connected, Closing, Stopped
  <2>3. ControlInv'
    BY DEF ControlInv, NoControlHeld, Given, Alone
  <2> QED BY <2>1, <2>2, <2>3
<1>6. CASE ConnectCommand /\ hung' = FALSE
  <2>1. pc = "connect_command" /\ fds = 1..(forwarded + 1) /\ ~runtime
    BY <1>6 DEF ConnectCommand, FdsInv, ControlInv, Alone, Connected
  <2>2. /\ Connect("send_command")
        /\ hung' = FALSE
        /\ UNCHANGED <<chosen, runtime, db_urms, hour, setjmpfd, meter, world,
                       forwarded, heard>>
    BY <1>6 DEF ConnectCommand
  <2> QED
    BY <2>1, <2>2, ConnectInv DEF Stopped, Alone
<1>7. CASE SendCommand /\ hung' = FALSE
  <2> USE <1>7 DEF SendCommand
  <2>1. meter' \in {meter, Clamped(db_urms.lane)} /\ faults' \in Nat
    BY <1>t, SetMeterSets
  <2>2. db_urms' \in Command
    BY <1>s, <1>t, ClampedSent
  <2>3. pc' \in {"wait", "failed"}
    <3>1. PICK retval \in {0, -1, -2} :
            pc' = IF retval < 0 THEN "failed" ELSE "wait"
      BY Zenon
    <3> QED BY <3>1
  <2>4. TypeOK'
    <3>1. pc' \in Pc
      BY <2>3 DEF Pc, Stopped
    <3>2. meter' \in [Lane -> FirstSetting \cup Sent]
      BY <2>1, <1>m, <1>t
    <3>3. forwarded' \in Nat
      BY <1>t
    <3> QED
      BY <2>1, <2>2, <3>1, <3>2, <3>3 DEF TypeOK, world
  <2>5. FdsInv'
    <3>1. /\ fds' = 1..(forwarded + 2) /\ urmsfd' = forwarded + 2
          /\ forwarded' = forwarded + 1 /\ setjmpfd' = 1
      BY DEF FdsInv, Stopped
    <3> QED
      BY <3>1, <2>3, <1>t, SMT DEF FdsInv, Alone, Connected, Closing, Stopped
  <2>6. ControlInv'
    BY <2>3 DEF ControlInv, NoControlHeld, Alone
  <2> QED BY <2>4, <2>5, <2>6
<1>8. CASE WakeTimer /\ hung' = FALSE
  <2> USE <1>8 DEF WakeTimer
  <2>1. TypeOK'
    BY DEF TypeOK, Alone, Pc, Stopped, world
  <2>2. FdsInv'
    <3>1. fds = 1..(forwarded + 1) /\ urmsfd = forwarded + 1
      BY DEF FdsInv, Alone, Connected
    <3>2. fds' = 1..forwarded
      BY <3>1, <1>t, SMT
    <3> QED BY <3>2 DEF FdsInv, Alone, Connected, Closing, Stopped
  <2>3. ControlInv'
    BY DEF ControlInv, NoControlHeld, Given, Alone
  <2> QED BY <2>1, <2>2, <2>3
<1>9. CASE ConnectPoll /\ hung' = FALSE
  <2>1. pc = "connect_poll" /\ fds = 1..forwarded
    BY <1>9 DEF ConnectPoll, FdsInv, Closing
  <2>2. /\ Connect("poll")
        /\ hung' = FALSE
        /\ UNCHANGED <<chosen, runtime, db_urms, hour, setjmpfd, meter, world,
                       forwarded, heard>>
    BY <1>9 DEF ConnectPoll
  <2> QED
    BY <2>1, <2>2, ConnectInv DEF Stopped, Connected, Alone
<1>10. CASE Poll /\ hung' = FALSE
  <2> USE <1>10 DEF Poll
  <2>1. /\ hour' \in 0..23 /\ faults' \in Nat
        /\ runtime' \in BOOLEAN /\ heard' \in BOOLEAN
        /\ pc' \in {"release", "wait", "connect_again"}
    <3>1. hour \in 0..23 /\ now.hour \in 0..23
      BY UrmsAssumption DEF TypeOK, Moment
    <3>2. hour' \in 0..23 /\ faults' \in Nat
      <4>1. CASE Answered
        BY <4>1, <3>1, <1>t DEF Answered, Fault
      <4>2. CASE NotAnswered
        BY <4>2, <3>1, <1>t DEF NotAnswered, Fault
      <4> QED BY <4>1, <4>2
    <3>3. db_urms.no_control \in BOOLEAN /\ startup \in BOOLEAN
          /\ runtime \in BOOLEAN /\ heard \in BOOLEAN
      BY DEF TypeOK, Command
    <3>4. runtime' \in BOOLEAN /\ heard' \in BOOLEAN
      BY <3>3, Zenon DEF Closed
    <3>5. pc' \in {"release", "wait", "connect_again"}
      OBVIOUS
    <3> QED BY <3>2, <3>4, <3>5
  <2>2. TypeOK'
    BY <2>1 DEF TypeOK, Alone, Pc, Stopped, world
  <2>3. FdsInv'
    <3>1. fds = 1..(forwarded + 1) /\ urmsfd = forwarded + 1 /\ setjmpfd = 1
      BY DEF FdsInv, Alone, Connected, Stopped
    <3>2. (1..(forwarded + 1)) \ {forwarded + 1} = 1..forwarded
      BY <1>t, SMT
    <3> QED BY <3>1, <3>2, <2>1 DEF FdsInv, Alone, Connected, Closing, Stopped
  <2>4. ControlInv'
    BY <2>1 DEF ControlInv, NoControlHeld, Given, Alone
  <2> QED BY <2>2, <2>3, <2>4
<1>11. CASE ConnectAgain /\ hung' = FALSE
  <2>1. pc = "connect_again" /\ fds = 1..forwarded
    BY <1>11 DEF ConnectAgain, FdsInv, Closing
  <2>2. /\ Connect("wait")
        /\ hung' = FALSE
        /\ UNCHANGED <<chosen, runtime, db_urms, hour, setjmpfd, meter, world,
                       forwarded, heard>>
    BY <1>11 DEF ConnectAgain
  <2> QED
    BY <2>1, <2>2, ConnectInv DEF Stopped, Connected, Alone
<1>12. CASE Release /\ hung' = FALSE
  <2> DEFINE skip == AllSkip(db_urms.lane)
  <2> USE <1>12 DEF Release
  <2>1. /\ meter' \in {meter, Clamped(skip)} /\ faults' \in Nat
        /\ urmsfd \in fds /\ faults' = faults => meter' = Clamped(skip)
    BY <1>a, <1>t, SetMeterSets
  <2>2. urmsfd \in fds
    BY <1>t, SMT DEF FdsInv, Alone, Connected
  <2>3. db_urms' \in Command
    BY <1>s, <1>a, ClampedSent
  <2>4. TypeOK'
    BY <2>1, <2>3, <1>m, <1>a DEF TypeOK, Alone, Pc, Stopped, world
  <2>5. FdsInv'
    BY DEF FdsInv, Alone, Connected, Closing, Stopped
  <2>6. heard' => Given'
    BY <2>1, <2>2, <1>t, ClampedSent DEF Given
  <2>7. ControlInv'
    BY <2>6 DEF ControlInv, NoControlHeld, Alone
  <2> QED BY <2>4, <2>5, <2>7
<1>13. CASE Signal
  <2> DEFINE skip == AllSkip(db_urms.lane)
  <2> USE <1>13 DEF Signal, Interruptible
  <2>1. meter' \in {meter, Clamped(skip)} /\ faults' \in Nat
    BY <1>a, <1>t, SetMeterSets
  <2>2. db_urms' \in Command
    BY <1>s, <1>a, ClampedSent
  <2>3. TypeOK'
    BY <2>1, <2>2, <1>m, <1>a DEF TypeOK, Alone, Pc, Stopped, world
  <2>4. FdsInv'
    <3>1. fds' = 1..0 /\ 0 \in 0..(forwarded' + 1)
      BY <1>t, SMT
    <3> QED BY <3>1 DEF FdsInv, Alone, Connected, Closing, Stopped
  <2>5. Given => Given'
    BY <2>1, <1>t, ClampedSent DEF Given
  <2>6. ControlInv'
    BY <2>5 DEF ControlInv, NoControlHeld, Alone
  <2> QED BY <2>3, <2>4, <2>6
<1>19. CASE SignalHangs
  <2> DEFINE skip == AllSkip(db_urms.lane)
  <2> USE <1>19 DEF SignalHangs
  <2>1. meter' \in {meter, Clamped(skip)} /\ faults' \in Nat
    BY <1>t DEF Fault
  <2>2. db_urms' \in Command
    BY <1>s, <1>a, ClampedSent
  <2>3. TypeOK'
    BY <2>1, <2>2, <1>m, <1>a DEF TypeOK, Alone, Pc, Stopped, world
  <2>4. FdsInv'
    BY DEF FdsInv, Interruptible, Alone, Connected, Closing, Stopped
  <2>5. Given => Given'
    BY <2>1, <1>t, ClampedSent DEF Given
  <2>6. ControlInv'
    BY <2>5 DEF ControlInv, NoControlHeld, Alone
  <2> QED BY <2>3, <2>4, <2>6
<1>20. CASE Hang
  <2> DEFINE sent == IF pc = "release" THEN AllSkip(db_urms.lane)
                     ELSE db_urms.lane
  <2> USE <1>20 DEF Hang
  <2>1. /\ \/ meter' = meter
           \/ pc \in Sets /\ meter' = Clamped(sent)
        /\ \/ db_urms' = db_urms
           \/ db_urms' = [db_urms EXCEPT !.lane = Clamped(sent)]
        /\ pc' = pc /\ hung' = TRUE /\ faults' \in Nat
    BY <1>t DEF Fault
  <2>2. sent \in [Lane -> Setting]
    BY <1>t, <1>a
  <2> HIDE DEF sent
  <2>3. db_urms' \in Command
    BY <2>1, <2>2, <1>s, <1>t, ClampedSent
  <2>4. meter' \in [Lane -> FirstSetting \cup Sent]
    BY <2>1, <2>2, <1>m
  <2>5. TypeOK'
    BY <2>1, <2>3, <2>4 DEF TypeOK, world
  <2>6. FdsInv'
    BY DEF FdsInv
  <2>7. pc \in Sets => ~(runtime /\ heard)
    BY DEF ControlInv, Sets, Alone
  <2>8. Given /\ pc \notin Sets => Given'
    BY <2>1 DEF Given
  <2>9. ControlInv'
    BY <2>7, <2>8 DEF ControlInv, NoControlHeld, Alone
  <2> QED BY <2>5, <2>6, <2>9
<1>14. CASE WriteCommand
  <2> USE <1>14 DEF WriteCommand, program
  <2>1. TypeOK'
    BY UrmsAssumption DEF TypeOK
  <2>2. FdsInv'
    BY DEF FdsInv
  <2>3. ControlInv'
    BY DEF ControlInv, NoControlHeld, Given, Alone
  <2> QED BY <2>1, <2>2, <2>3
<1>15. CASE Tick
  <2> USE <1>15 DEF Tick, program
  <2>1. TypeOK'
    BY DEF TypeOK
  <2>2. FdsInv'
    BY DEF FdsInv
  <2>3. ControlInv'
    BY DEF ControlInv, NoControlHeld, Given, Alone
  <2> QED BY <2>1, <2>2, <2>3
<1>16. CASE UNCHANGED vars
  BY <1>16 DEF vars, program, world, TypeOK, FdsInv, ControlInv,
               NoControlHeld, Given
<1> QED
  BY <1>1, <1>2, <1>3, <1>4, <1>5, <1>6, <1>7, <1>8, <1>9, <1>10, <1>11,
     <1>12, <1>13, <1>14, <1>15, <1>16, <1>17, <1>18, <1>19, <1>20
     DEF Next, Run, Return

-----------------------------------------------------------------------------
(* The theorems.                                                           *)

LEMMA AlwaysInv == Spec => []Inv
BY InitInv, NextInv, PTL DEF Spec

\* Types, and the limits every setting the controller was sent obeys: for any
\* commands, also with rates and actions out of range.
THEOREM UrmsTypes == Spec => []TypeOK
BY AlwaysInv, PTL DEF Inv

\* Switched off means off: no command gets through once SKIP was taken.
THEOREM SwitchedOffStaysOff == Spec => []NoControlHeld
BY AlwaysInv, PTL DEF Inv, ControlInv

\* Descriptors are used up by forwarded commands only, for any number of polls.
THEOREM OnlyCommandsLeak == Spec => []PollsDoNotLeak
<1>1. Inv => PollsDoNotLeak
  <2> SUFFICES ASSUME Inv, pc \notin {"send_command", "exit"}
               PROVE  Cardinality(fds) <= 1 + forwarded
    BY DEF PollsDoNotLeak
  <2>1. forwarded \in Nat /\ pc \in Pc
    BY DEF Inv, TypeOK
  <2>2. \E n \in 0..(forwarded + 1) : fds = 1..n
    <3>1. CASE pc = "open"
      BY <3>1, <2>1, SMT DEF Inv, FdsInv
    <3>2. CASE pc \in Connected \cup Closing \cup Stopped
      BY <3>2, <2>1, SMT DEF Inv, FdsInv
    <3> QED BY <3>1, <3>2, <2>1 DEF Pc, Alone, Connected, Closing, Stopped
  <2>3. PICK n \in 0..(forwarded + 1) : fds = 1..n
    BY <2>2
  <2>4. Cardinality(1..n) = IF 1 > n THEN 0 ELSE n - 1 + 1
    BY <2>1, FS_Interval
  <2> QED BY <2>1, <2>3, <2>4, SMT
<1> QED BY <1>1, AlwaysInv, PTL

\* A signal at the wait gives the meter back over whichever connection.
THEOREM SignalGivesBack == Spec => ExitGivesBack
<1>1. Inv /\ [Next]_vars =>
        [pc = "wait" /\ pc' = "done" /\ ~startup /\ faults' = faults
           => Given']_vars
  <2> SUFFICES ASSUME Inv, Next, pc = "wait", pc' = "done", ~startup,
                      faults' = faults
               PROVE  Given'
    OBVIOUS
  <2>1. Signal
    BY DEF Next, Run, Return, Hang, SignalHangs, Open, Ask, Report,
           TosEnableDetectors, TosSetAction, First, WakeCommand, ConnectCommand,
           SendCommand, WakeTimer, ConnectPoll, Poll, ConnectAgain, Release,
           WriteCommand, Tick, program
  <2>2. urmsfd \in fds /\ setjmpfd \in fds
    BY SMT DEF Inv, FdsInv, TypeOK, Alone, Connected, Stopped
  <2>3. db_urms.lane \in [Lane -> Setting] /\ faults \in Nat
    BY DEF Inv, TypeOK, Command
  <2>4. AllSkip(db_urms.lane) \in [Lane -> Setting]
    BY <2>3, ClampedSent
  <2>5. meter' = Clamped(AllSkip(db_urms.lane))
    BY <2>1, <2>2, <2>3, <2>4, SetMeterSets DEF Signal
  <2> QED BY <2>5, <2>3, ClampedSent DEF Given
<1> QED BY <1>1, AlwaysInv, PTL DEF Spec, ExitGivesBack
=============================================================================
