--------------------------- MODULE DataPathProofs ----------------------------
(***************************************************************************)
(* Theorems about the two ends of the path of the data and what is decided *)
(* on the way.  For every list of intervals without two starts in one      *)
(* hour, every length of day and hour and every number of plans, the scan  *)
(* of get_timing_plan returns the plan of the interval that started last   *)
(* (TimingPlan).  For every number of approaches and of passes, what is    *)
(* broadcast to the vehicles is a mixture of neighbouring passes           *)
(* (IxMixture), and the whole of one pass when nothing was published       *)
(* meanwhile (IxBroadcast).  And where the data come in (Ab3418Frame), for *)
(* every set of requests and answers and any number of faults of the line: *)
(* the check sequence of a message fits, a request without an escape       *)
(* character is framed right as far as it is written, and the reader of    *)
(* the serial line loses three reads at most for a fault.                  *)
(***************************************************************************)
EXTENDS TimingPlan, IxBroadcast, Ab3418Frame, FiniteSetTheorems,
        SequenceTheorems, TLAPS

-----------------------------------------------------------------------------
(* The plan of a pass.                                                     *)

\* What the program knows on every pass.
ScanInv ==
  /\ no_intervals \in 0 .. Limit /\ sched \in Schedules(no_intervals)
  /\ hour \in Hour /\ minute \in Minute
  /\ tindex = get_timing_plan(sched, no_intervals, hour, minute)

\* An earlier hour is an earlier time, whatever the minutes.
LEMMA EarlierHour ==
  ASSUME NEW h \in Nat, NEW k \in Nat, NEW a \in Minute, NEW b \in Minute, h < k
  PROVE  h * Minutes + a < k * Minutes + b
<1>1. Minutes \in Nat \ {0} BY TimingPlanAssumption
<1>2. PICK d \in Nat : k = h + 1 + d
  BY SMT
<1>3. k * Minutes = h * Minutes + Minutes + d * Minutes
  BY <1>1, <1>2, SMT
<1>4. d * Minutes \in Nat
  BY <1>1, SMT
<1>5. h * Minutes \in Nat /\ k * Minutes \in Nat
  BY <1>1, SMT
<1> QED
  BY <1>1, <1>3, <1>4, <1>5, SMT DEF Minute

\* An interval has started when its hour is past, or is the hour and its
\* minute has come.
LEMMA StartedByHour ==
  ASSUME ScanInv, NEW i \in 1 .. no_intervals
  PROVE  /\ sched[i] \in Interval
         /\ Started(i) <=> \/ sched[i].hour_start < hour
                           \/ /\ sched[i].hour_start = hour
                              /\ sched[i].minute_start <= minute
<1>1. sched[i] \in Interval
  BY DEF ScanInv, Schedules
<1> DEFINE g == sched[i].hour_start
           a == sched[i].minute_start
<1>2. g \in Nat /\ a \in Minute /\ hour \in Nat /\ minute \in Minute
  BY <1>1, TimingPlanAssumption DEF Interval, Hour, ScanInv
<1>3. Minutes \in Nat BY TimingPlanAssumption
<1>4. Started(i) <=> g * Minutes + a <= hour * Minutes + minute
  BY DEF Started, StartsAt, Now
<1>5. g * Minutes \in Nat /\ hour * Minutes \in Nat
  BY <1>2, <1>3, SMT
<1>6. a \in Nat /\ minute \in Nat
  BY <1>2, <1>3 DEF Minute
<1> HIDE DEF g, a
<1>7. CASE g < hour
  <2>1. g * Minutes + a < hour * Minutes + minute
    BY <1>2, <1>7, EarlierHour
  <2> QED BY <1>1, <1>4, <1>5, <1>6, <1>7, <2>1, SMT DEF g, a
<1>8. CASE g = hour
  BY <1>1, <1>2, <1>4, <1>5, <1>6, <1>8, SMT DEF g, a
<1>9. CASE g > hour
  <2>1. hour * Minutes + minute < g * Minutes + a
    BY <1>2, <1>9, EarlierHour
  <2> QED BY <1>1, <1>2, <1>4, <1>5, <1>6, <1>9, <2>1, SMT DEF g, a
<1> QED BY <1>2, <1>7, <1>8, <1>9, SMT

\* A set of numbers that is not empty has a least member.
LEMMA LeastMember ==
  ASSUME NEW S, S \subseteq Nat, S # {}
  PROVE  \E x \in S : \A y \in S : x <= y
<1> DEFINE T == {0 .. x : x \in S}
           R == StrictSubsetOrdering(Nat)
<1>1. \A x \in S : 0 .. x \in FiniteSubsetsOf(Nat)
  BY FS_Interval, SMT DEF FiniteSubsetsOf
<1>2. T \subseteq FiniteSubsetsOf(Nat) /\ T # {}
  BY <1>1
<1>3. IsWellFoundedOn(R, FiniteSubsetsOf(Nat))
  BY FS_StrictSubsetOrderingWellFounded
<1>4. PICK t \in T : \A u \in T : ~(<<u, t>> \in R)
  <2> HIDE DEF T, R
  <2> QED BY <1>2, <1>3, WFMin
<1>5. PICK x \in S : t = 0 .. x
  BY <1>4
<1>6. ASSUME NEW y \in S, y < x PROVE FALSE
  <2>1. 0 .. y \in T /\ <<0 .. y, 0 .. x>> \notin R
    BY <1>4, <1>5
  <2>2. 0 .. y \subseteq 0 .. x /\ 0 .. y # 0 .. x
    <3>1. x \in 0 .. x /\ x \notin 0 .. y
      BY <1>6, SMT
    <3>2. 0 .. y \subseteq 0 .. x
      BY <1>6, SMT
    <3> QED BY <3>1, <3>2
  <2>3. 0 .. y \in SUBSET Nat /\ 0 .. x \in SUBSET Nat
    BY SMT
  <2> QED BY <2>1, <2>2, <2>3 DEF StrictSubsetOrdering
<1> QED BY <1>6, SMT

\* The interval that started last is the only one in effect.
LEMMA LastStartedInEffect ==
  ASSUME ScanInv, NEW i \in 1 .. no_intervals, InEffect(i),
         NEW k \in 1 .. no_intervals,
         Started(k), \A j \in k + 1 .. no_intervals : ~Started(j)
  PROVE  i = k
<1>1. no_intervals \in Nat BY TimingPlanAssumption DEF ScanInv
<1>2. CASE i < k
  <2>1. k \in i + 1 .. no_intervals BY <1>1, <1>2
  <2> QED BY <1>1, <1>2, <2>1 DEF InEffect
<1>3. CASE i > k
  <2>1. i \in k + 1 .. no_intervals BY <1>1, <1>3
  <2> QED BY <2>1 DEF InEffect
<1> QED BY <1>1, <1>2, <1>3

\* Before the first start of the day, the last interval is in effect.
LEMMA NoneStartedInEffect ==
  ASSUME ScanInv, NEW i \in 1 .. no_intervals, InEffect(i),
         \A j \in 1 .. no_intervals : ~Started(j)
  PROVE  i = no_intervals
BY DEF InEffect

\* Between the first start hour and the last, some interval holds the hour, so
\* the scan ends on the first that does.
LEMMA ScanEnds ==
  ASSUME ScanInv, HoursApart, no_intervals # 0,
         sched[1].hour_start < hour, hour < sched[no_intervals].hour_start
  PROVE  /\ FirstHolding(sched, no_intervals, hour) \in 1 .. no_intervals - 1
         /\ Holds(sched, FirstHolding(sched, no_intervals, hour), hour)
<1> DEFINE H(j) == sched[j].hour_start
           S == {j \in 1 .. no_intervals : hour <= H(j)}
           P == {j \in 1 .. no_intervals - 1 : Holds(sched, j, hour)}
<1>1. no_intervals \in Nat /\ hour \in Nat
  BY TimingPlanAssumption DEF ScanInv, Hour
<1>2. \A j \in 1 .. no_intervals : H(j) \in Nat
  BY StartedByHour, TimingPlanAssumption DEF Interval, Hour
<1>3. no_intervals \in S /\ S \subseteq Nat
  BY <1>1, <1>2
<1>4. PICK k \in S : \A j \in S : k <= j
  <2> HIDE DEF S
  <2> QED BY <1>3, LeastMember
<1>5. k \in 1 .. no_intervals /\ k # 1 /\ hour <= H(k)
  BY <1>1, <1>2, <1>4
<1>6. k - 1 \in 1 .. no_intervals /\ k - 1 \notin S
  BY <1>1, <1>4, <1>5
<1>7. H(k - 1) < hour
  BY <1>1, <1>2, <1>6
<1>8. k - 1 \in P
  <2>1. (k - 1) + 1 = k BY <1>5
  <2> QED BY <1>1, <1>2, <1>5, <1>6, <1>7, <2>1 DEF Holds
<1>9. P \subseteq Nat BY <1>1
<1>10. PICK f \in P : \A j \in P : f <= j
  <2> HIDE DEF P
  <2> QED BY <1>8, <1>9, LeastMember
<1>11. f \in 1 .. no_intervals - 1 /\ Holds(sched, f, hour)
  BY <1>10
<1>12. \A j \in 1 .. f - 1 : ~Holds(sched, j, hour)
  <2> SUFFICES ASSUME NEW j \in 1 .. f - 1, Holds(sched, j, hour) PROVE FALSE
    OBVIOUS
  <2>1. j \in P BY <1>1, <1>11
  <2> QED BY <1>1, <1>10, <1>11, <2>1
<1> QED BY <1>11, <1>12, Zenon DEF FirstHolding

\* With starts in different hours the scan finds the interval in effect.
LEMMA ScanFindsInterval ==
  ASSUME ScanInv, HoursApart
  PROVE  PlanOfInterval
<1> SUFFICES ASSUME NEW i \in 1 .. no_intervals, InEffect(i)
             PROVE  get_timing_plan(sched, no_intervals, hour, minute)
                      = sched[i].plan_no
  BY DEF PlanOfInterval, ScanInv
<1> DEFINE H(j) == sched[j].hour_start
           M(j) == sched[j].minute_start
           G == get_timing_plan(sched, no_intervals, hour, minute)
<1>1. no_intervals \in Nat \ {0} /\ hour \in Nat /\ minute \in Nat
  BY TimingPlanAssumption DEF ScanInv, Hour, Minute
<1>2. \A j \in 1 .. no_intervals : H(j) \in Nat /\ M(j) \in Nat
  BY StartedByHour, TimingPlanAssumption DEF Interval, Hour, Minute
<1>3. \A j \in 1 .. no_intervals :
        Started(j) <=> H(j) < hour \/ (H(j) = hour /\ M(j) <= minute)
  BY StartedByHour
<1>4. \A j, k \in 1 .. no_intervals : j < k => H(j) < H(k)
  BY DEF HoursApart
<1>5. 1 \in 1 .. no_intervals /\ no_intervals \in 1 .. no_intervals
  BY <1>1
<1> HIDE DEF H, M
<1>6. CASE hour < H(1)
  <2>1. \A j \in 1 .. no_intervals : ~Started(j)
    BY <1>1, <1>2, <1>3, <1>4, <1>5, <1>6
  <2>2. G = sched[no_intervals].plan_no
    BY <1>1, <1>6 DEF get_timing_plan, H
  <2> QED BY <2>1, <2>2, NoneStartedInEffect
<1>7. CASE hour = H(1)
  <2>1. G = FromMinute(sched, 1, no_intervals, minute)
    BY <1>1, <1>2, <1>5, <1>7 DEF get_timing_plan, H
  <2>2. \A j \in 2 .. no_intervals : ~Started(j)
    BY <1>1, <1>2, <1>3, <1>4, <1>5, <1>7
  <2>3. CASE minute >= M(1)
    <3>1. Started(1) /\ i = 1
      BY <1>1, <1>2, <1>3, <1>5, <1>7, <2>2, <2>3, LastStartedInEffect
    <3> QED BY <2>1, <2>3, <3>1 DEF FromMinute, M
  <2>4. CASE ~(minute >= M(1))
    <3>1. \A j \in 1 .. no_intervals : ~Started(j)
      BY <1>1, <1>2, <1>3, <1>5, <1>7, <2>2, <2>4
    <3>2. i = no_intervals BY <3>1, NoneStartedInEffect
    <3> QED BY <2>1, <2>4, <3>2 DEF FromMinute, M
  <2> QED BY <2>3, <2>4
<1>8. CASE H(1) < hour /\ hour = H(no_intervals)
  <2>1. G = FromMinute(sched, no_intervals, no_intervals - 1, minute)
    BY <1>1, <1>2, <1>5, <1>8 DEF get_timing_plan, H
  <2>2. no_intervals - 1 \in 1 .. no_intervals /\ Started(no_intervals - 1)
    BY <1>1, <1>2, <1>3, <1>4, <1>5, <1>8
  <2>3. CASE minute >= M(no_intervals)
    <3>1. /\ Started(no_intervals)
          /\ \A j \in no_intervals + 1 .. no_intervals : ~Started(j)
      BY <1>1, <1>2, <1>3, <1>5, <1>8, <2>3
    <3>2. i = no_intervals BY <1>5, <3>1, LastStartedInEffect
    <3> QED BY <2>1, <2>3, <3>2 DEF FromMinute, M
  <2>4. CASE ~(minute >= M(no_intervals))
    <3>1. \A j \in (no_intervals - 1) + 1 .. no_intervals : ~Started(j)
      BY <1>1, <1>2, <1>3, <1>5, <1>8, <2>4
    <3>2. i = no_intervals - 1 BY <2>2, <3>1, LastStartedInEffect
    <3> QED BY <2>1, <2>4, <3>2 DEF FromMinute, M
  <2> QED BY <2>3, <2>4
<1>9. CASE H(1) < hour /\ H(no_intervals) < hour
  <2>1. G = sched[no_intervals].plan_no
    BY <1>1, <1>2, <1>5, <1>9 DEF get_timing_plan, H
  <2>2. /\ Started(no_intervals)
        /\ \A j \in no_intervals + 1 .. no_intervals : ~Started(j)
    BY <1>1, <1>3, <1>5, <1>9
  <2> QED BY <1>5, <2>1, <2>2, LastStartedInEffect
<1>10. CASE H(1) < hour /\ hour < H(no_intervals)
  <2> DEFINE f == FirstHolding(sched, no_intervals, hour)
  <2>1. f \in 1 .. no_intervals - 1 /\ Holds(sched, f, hour)
    BY <1>1, <1>10, ScanEnds DEF H
  <2>2. G = Between(sched, f, hour, minute)
    BY <1>1, <1>2, <1>5, <1>10 DEF get_timing_plan, H
  <2> HIDE DEF f, G
  <2>3. /\ f \in 1 .. no_intervals /\ f + 1 \in 1 .. no_intervals
        /\ H(f) <= hour /\ hour <= H(f + 1)
    BY <1>1, <2>1 DEF Holds, H
  <2>4. CASE hour = H(f)
    <3>1. G = FromMinute(sched, f, f - 1, minute)
      BY <2>2, <2>4 DEF Between, H
    <3>2. \A j \in f + 1 .. no_intervals : ~Started(j)
      BY <1>1, <1>2, <1>3, <1>4, <2>3, <2>4
    <3>3. f - 1 \in 1 .. no_intervals
      BY <1>1, <1>2, <1>10, <2>3, <2>4
    <3>4. CASE minute >= M(f)
      <4>1. Started(f) BY <1>3, <2>3, <2>4, <3>4
      <4>2. i = f BY <2>3, <3>2, <4>1, LastStartedInEffect
      <4> QED BY <3>1, <3>4, <4>2 DEF FromMinute, M, G
    <3>5. CASE ~(minute >= M(f))
      <4>1. Started(f - 1)
        BY <1>1, <1>2, <1>3, <1>4, <2>3, <2>4, <3>3
      <4>2. \A j \in (f - 1) + 1 .. no_intervals : ~Started(j)
        BY <1>1, <1>2, <1>3, <2>3, <2>4, <3>2, <3>5
      <4>3. i = f - 1 BY <3>3, <4>1, <4>2, LastStartedInEffect
      <4> QED BY <3>1, <3>5, <4>3 DEF FromMinute, M, G
    <3> QED BY <3>4, <3>5
  <2>5. CASE H(f) < hour /\ hour = H(f + 1)
    <3>1. G = FromMinute(sched, f + 1, f, minute)
      BY <1>1, <1>2, <2>2, <2>3, <2>5 DEF Between, H
    <3>2. \A j \in (f + 1) + 1 .. no_intervals : ~Started(j)
      BY <1>1, <1>2, <1>3, <1>4, <2>3, <2>5
    <3>3. CASE minute >= M(f + 1)
      <4>1. Started(f + 1) BY <1>3, <2>3, <2>5, <3>3
      <4>2. i = f + 1 BY <2>3, <3>2, <4>1, LastStartedInEffect
      <4> QED BY <3>1, <3>3, <4>2 DEF FromMinute, M, G
    <3>4. CASE ~(minute >= M(f + 1))
      <4>1. Started(f) BY <1>3, <2>3, <2>5
      <4>2. \A j \in f + 1 .. no_intervals : ~Started(j)
        BY <1>1, <1>2, <1>3, <2>3, <2>5, <3>2, <3>4
      <4>3. i = f BY <2>3, <4>1, <4>2, LastStartedInEffect
      <4> QED BY <3>1, <3>4, <4>3 DEF FromMinute, M, G
    <3> QED BY <3>3, <3>4
  <2>6. CASE H(f) < hour /\ hour < H(f + 1)
    <3>1. G = sched[f].plan_no
      BY <1>1, <1>2, <2>2, <2>3, <2>6 DEF Between, H
    <3>2. Started(f) BY <1>3, <2>3, <2>6
    <3>3. \A j \in f + 1 .. no_intervals : ~Started(j)
      BY <1>1, <1>2, <1>3, <1>4, <2>3, <2>6
    <3> QED BY <2>3, <3>1, <3>2, <3>3, LastStartedInEffect DEF G
  <2> QED BY <1>1, <1>2, <2>3, <2>4, <2>5, <2>6 DEF G
<1> QED BY <1>1, <1>2, <1>5, <1>6, <1>7, <1>8, <1>9, <1>10

-----------------------------------------------------------------------------
(* The passes of a day.                                                    *)

LEMMA ScanInvInit == DayInit => ScanInv
BY DEF DayInit, ScanInv

LEMMA ScanInvNext == ScanInv /\ [Pass]_dayvars => ScanInv'
<1> SUFFICES ASSUME ScanInv, [Pass]_dayvars PROVE ScanInv'
  OBVIOUS
<1>1. CASE Pass
  <2>1. hour' \in Hour /\ minute' \in Minute
    BY <1>1, TimingPlanAssumption DEF Pass, Advance, ScanInv, Hour, Minute
  <2>2. no_intervals' = no_intervals /\ sched' = sched
    BY <1>1 DEF Pass
  <2>3. tindex' = get_timing_plan(sched', no_intervals', hour', minute')
    BY <1>1, <2>2 DEF Pass
  <2> QED BY <2>1, <2>2, <2>3 DEF ScanInv
<1>2. CASE UNCHANGED dayvars
  BY <1>2 DEF dayvars, ScanInv
<1> QED BY <1>1, <1>2

\* Whatever the hour and minute and across midnight, every pass uses the plan
\* of the interval that started last, if no two start in the same hour
\* (get_timing_plan, phases.c:72-155).
THEOREM PlanAlwaysInEffect == DaySpec => []PlanInEffect
<1>1. ScanInv => PlanInEffect
  BY ScanFindsInterval DEF PlanInEffect
<1> QED BY ScanInvInit, ScanInvNext, <1>1, PTL DEF DaySpec

-----------------------------------------------------------------------------
(* The message.                                                            *)

\* The approaches before the one phases writes next are of the current pass,
\* the others of the pass before.
DbInv ==
  /\ next # 0 => hdr > 0
  /\ \A i \in 1 .. N :
       appr[i] = IF next = 0 \/ i < next THEN hdr ELSE hdr - 1

Reading == rpc \in {"approach", "format"} /\ pmsg.seconds > 0

\* What snd_ix_msg has read so far is a mixture that can still be completed.
ReadInv ==
  /\ pmsg.seconds <= hdr
  /\ Reading =>
       /\ pmsg.num_approaches = N
       /\ upto <= N /\ (rpc = "format" => upto = N)
       /\ \A i \in 1 .. upto :
            /\ pmsg.approach[i] \in pmsg.seconds - 1 .. hdr
            /\ \A j \in i .. upto : pmsg.approach[j] >= pmsg.approach[i] - 1

\* While phases is quiet all that has been read is of the current pass.
QuietInv ==
  Reading /\ quiet =>
    /\ next = 0 /\ pmsg.seconds = hdr
    /\ \A i \in 1 .. upto : pmsg.approach[i] = hdr

IInv == TypeOK /\ DbInv /\ ReadInv /\ QuietInv

LEMMA InitInv == Init => IInv
  <1> SUFFICES ASSUME Init PROVE IInv
    OBVIOUS
  <1>1. Nothing \in Message
    BY BroadcastAssumption DEF Nothing, Message
  <1>2. TypeOK
    <2>1. quiet \in BOOLEAN
      BY Zenon DEF Init
    <2>2. 0 \in 0 .. MaxPass /\ 0 \in 0 .. N /\ 0 \in Nat
      BY BroadcastAssumption
    <2> QED BY <1>1, <2>1, <2>2, Zenon DEF Init, TypeOK
  <1>3. pmsg.seconds = 0
    BY DEF Init, Nothing
  <1>4. DbInv
    BY BroadcastAssumption DEF Init, DbInv, Slot
  <1> QED
    BY <1>2, <1>3, <1>4 DEF Init, IInv, ReadInv, QuietInv, Reading

\* The steps of phases: a pass begins, and its approaches follow in order.
LEMMA WriteHeaderInv == IInv /\ WriteHeader => IInv'
  <1> SUFFICES ASSUME IInv, WriteHeader PROVE IInv'
    OBVIOUS
  <1>1. N \in Nat /\ MaxPass \in Nat /\ hdr \in Nat
    BY BroadcastAssumption DEF IInv, TypeOK
  <1>2. TypeOK'
    <2>1. quiet' \in BOOLEAN
      BY Zenon DEF WriteHeader
    <2>2. hdr' \in 0 .. MaxPass /\ next' \in 0 .. N
      BY <1>1 DEF IInv, TypeOK, WriteHeader
    <2> QED BY <2>1, <2>2, Zenon DEF IInv, TypeOK, WriteHeader, sndvars
  <1>3. DbInv'
    BY <1>1 DEF IInv, DbInv, WriteHeader
  <1>4. ReadInv'
    <2>1. pmsg.seconds \in Nat /\ upto \in Nat
          /\ \A i \in 1 .. N : pmsg.approach[i] \in Nat
      BY BroadcastAssumption DEF IInv, TypeOK, Message, Slot
    <2>2. pmsg' = pmsg /\ upto' = upto /\ rpc' = rpc /\ hdr' = hdr + 1
      BY DEF WriteHeader, sndvars
    <2>3. \A k \in pmsg.seconds - 1 .. hdr : k \in pmsg.seconds - 1 .. hdr + 1
      BY <1>1, <2>1
    <2> QED BY <1>1, <2>1, <2>2, <2>3 DEF IInv, ReadInv, Reading
  <1>5. QuietInv'
    BY DEF QuietInv, WriteHeader
  <1> QED BY <1>2, <1>3, <1>4, <1>5 DEF IInv

LEMMA WriteApproachInv == IInv /\ WriteApproach => IInv'
  <1> SUFFICES ASSUME IInv, WriteApproach PROVE IInv'
    OBVIOUS
  <1>1. /\ N \in Nat /\ hdr \in Nat /\ next \in 1 .. N /\ next \in Slot
        /\ 1 .. N \subseteq Slot
    BY BroadcastAssumption DEF IInv, TypeOK, WriteApproach, Slot
  <1>2. TypeOK'
    <2>1. quiet' \in BOOLEAN
      BY Zenon DEF WriteApproach
    <2>2. appr' \in [Slot -> Nat] /\ next' \in 0 .. N
      BY <1>1 DEF IInv, TypeOK, WriteApproach
    <2> QED BY <2>1, <2>2, Zenon DEF IInv, TypeOK, WriteApproach, sndvars
  <1>3. DbInv'
    <2>1. hdr > 0 /\ hdr' = hdr
      BY <1>1 DEF IInv, DbInv, WriteApproach
    <2>2. \A i \in 1 .. N : appr'[i] = IF i = next THEN hdr ELSE appr[i]
      BY <1>1 DEF IInv, TypeOK, WriteApproach
    <2>3. next' = IF next < N THEN next + 1 ELSE 0
      BY DEF WriteApproach
    <2> QED BY <1>1, <2>1, <2>2, <2>3 DEF IInv, DbInv
  <1>4. ReadInv'
    BY DEF IInv, ReadInv, Reading, WriteApproach, sndvars
  <1>5. QuietInv'
    BY DEF QuietInv, WriteApproach
  <1> QED BY <1>2, <1>3, <1>4, <1>5 DEF IInv

\* The steps of snd_ix_msg.
LEMMA ReadHeaderInv == IInv /\ ReadHeader => IInv'
  <1> SUFFICES ASSUME IInv, ReadHeader PROVE IInv'
    OBVIOUS
  <1>1. PICK k \in IF hdr = 0 THEN Junk ELSE {N} :
          pmsg' = [pmsg EXCEPT !.seconds = hdr, !.num_approaches = k]
    BY DEF ReadHeader
  <1>2. k \in 0 .. MaxSlot /\ hdr \in Nat /\ N \in Nat
    <2>1. Junk \subseteq 0 .. MaxSlot /\ N \in Nat /\ N \in 0 .. MaxSlot
      BY BroadcastAssumption
    <2>2. k \in 0 .. MaxSlot
      BY <2>1
    <2> QED
      BY <2>1, <2>2 DEF IInv, TypeOK
  <1>3. pmsg' \in Message /\ pmsg'.seconds = hdr /\ pmsg'.num_approaches = k
    BY <1>1, <1>2 DEF IInv, TypeOK, Message
  <1>4. /\ hdr' = hdr /\ appr' = appr /\ next' = next /\ air' = air
        /\ shown' = shown /\ rpc' = "approach" /\ upto' = 0
        /\ quiet' = (next = 0)
    BY DEF ReadHeader, dbvars
  <1>5. TypeOK'
    BY <1>3, <1>4 DEF IInv, TypeOK
  <1>6. DbInv'
    BY <1>4 DEF IInv, DbInv
  <1>7. hdr > 0 => k = N
    BY <1>2
  <1>8. \A i \in 1 .. upto' : FALSE
    BY <1>4
  <1>9. ReadInv'
    BY <1>2, <1>3, <1>4, <1>7, <1>8 DEF ReadInv, Reading
  <1>10. QuietInv'
    BY <1>3, <1>4, <1>8 DEF QuietInv
  <1> QED
    BY <1>5, <1>6, <1>9, <1>10 DEF IInv

LEMMA ReadApproachInv == IInv /\ ReadApproach => IInv'
  <1> SUFFICES ASSUME IInv, ReadApproach PROVE IInv'
    OBVIOUS
  <1>1. /\ N \in Nat /\ MaxSlot \in Nat /\ N <= MaxSlot /\ hdr \in Nat
        /\ upto \in Nat /\ pmsg \in Message /\ rpc = "approach"
    BY BroadcastAssumption DEF IInv, TypeOK, ReadApproach
  <1>2. /\ hdr' = hdr /\ appr' = appr /\ next' = next /\ air' = air
        /\ shown' = shown /\ quiet' = quiet
    BY DEF ReadApproach, dbvars
  <1>3. DbInv'
    BY <1>2 DEF IInv, DbInv
  <1>4. CASE upto < pmsg.num_approaches
    <2> DEFINE k == upto + 1
    <2>1. /\ pmsg' = [pmsg EXCEPT !.approach[k] = appr[k]]
          /\ upto' = k /\ rpc' = rpc
      BY <1>4 DEF ReadApproach
    <2>2. k \in Slot /\ appr[k] \in Nat
      <3>1. pmsg.num_approaches \in 0 .. MaxSlot
        BY <1>1 DEF Message
      <3>2. k \in Slot
        BY ONLY <1>1, <1>4, <3>1 DEF Slot
      <3>3. appr \in [Slot -> Nat]
        BY DEF IInv, TypeOK
      <3> QED
        BY ONLY <3>2, <3>3
    <2>3. /\ pmsg' \in Message
          /\ pmsg'.seconds = pmsg.seconds
          /\ pmsg'.num_approaches = pmsg.num_approaches
          /\ \A i \in Slot :
               pmsg'.approach[i] = IF i = k THEN appr[k] ELSE pmsg.approach[i]
      BY <1>1, <2>1, <2>2 DEF Message
    <2>4. TypeOK'
      BY <1>1, <1>2, <2>1, <2>3 DEF IInv, TypeOK
    <2>5. ASSUME Reading'
          PROVE  /\ Reading /\ pmsg.num_approaches = N /\ k <= N
                 /\ pmsg.seconds \in Nat /\ pmsg.seconds > 0
                 /\ \A i \in 1 .. upto : pmsg.approach[i] \in Nat
                 /\ \A i \in 1 .. upto : pmsg'.approach[i] = pmsg.approach[i]
                 /\ pmsg'.approach[k] = appr[k]
                 /\ appr[k] \in {hdr - 1, hdr}
                 /\ quiet => appr[k] = hdr
      <3>1. Reading /\ pmsg.num_approaches = N
        BY <1>1, <2>1, <2>3, <2>5 DEF IInv, ReadInv, Reading
      <3>2. k \in 1 .. N /\ upto \in 0 .. N
        BY <1>1, <1>4, <3>1
      <3>3. \A i \in 1 .. upto : i \in Slot /\ i # k
        BY <1>1, <3>2 DEF Slot
      <3>4. appr[k] \in {hdr - 1, hdr} /\ (next = 0 => appr[k] = hdr)
        BY <3>2 DEF IInv, DbInv
      <3>5. quiet => next = 0
        BY <3>1 DEF IInv, QuietInv
      <3> QED
        BY <1>1, <2>2, <2>3, <3>1, <3>2, <3>3, <3>4, <3>5
        DEF Reading, Message
    <2>6. ReadInv'
      <3>1. pmsg'.seconds <= hdr'
        BY <1>2, <2>3 DEF IInv, ReadInv
      <3>2. ASSUME Reading'
            PROVE  \A i \in 1 .. k :
                     /\ pmsg'.approach[i] \in pmsg.seconds - 1 .. hdr
                     /\ \A j \in i .. k :
                          pmsg'.approach[j] >= pmsg'.approach[i] - 1
        <4>1. pmsg.seconds <= hdr
          BY DEF IInv, ReadInv
        <4>2. \A i \in 1 .. upto :
                /\ pmsg.approach[i] \in pmsg.seconds - 1 .. hdr
                /\ \A j \in i .. upto :
                     pmsg.approach[j] >= pmsg.approach[i] - 1
          BY <2>5, <3>2 DEF IInv, ReadInv
        <4>3. \A i \in 1 .. k : i = k \/ i \in 1 .. upto
          BY <1>1
        <4>4. \A i \in 1 .. upto : \A j \in i .. k : j = k \/ j \in i .. upto
          BY <1>1
        <4>5. \A j \in k .. k : j = k
          BY <1>1
        <4> HIDE DEF k
        <4> QED
          BY <1>1, <2>2, <2>5, <3>2, <4>1, <4>2, <4>3, <4>4, <4>5
      <3> QED
        BY <1>1, <1>2, <2>1, <2>3, <2>5, <3>1, <3>2 DEF ReadInv
    <2>7. QuietInv'
      <3> SUFFICES ASSUME Reading', quiet'
                   PROVE  /\ next' = 0 /\ pmsg'.seconds = hdr'
                          /\ \A i \in 1 .. k : pmsg'.approach[i] = hdr
        BY <1>2, <2>1 DEF QuietInv
      <3>1. /\ next = 0 /\ pmsg.seconds = hdr
            /\ \A i \in 1 .. upto : pmsg.approach[i] = hdr
        BY <1>2, <2>5 DEF IInv, QuietInv
      <3>2. \A i \in 1 .. k : i = k \/ i \in 1 .. upto
        BY <1>1
      <3> QED
        BY <1>2, <2>3, <2>5, <3>1, <3>2
    <2> QED BY <1>3, <2>4, <2>6, <2>7 DEF IInv
  <1>5. CASE ~(upto < pmsg.num_approaches)
    <2>1. rpc' = "format" /\ upto' = upto /\ pmsg' = pmsg
      BY <1>5 DEF ReadApproach
    <2>2. TypeOK'
      BY <1>2, <2>1 DEF IInv, TypeOK
    <2>3. Reading' => Reading /\ upto = N
      BY <1>1, <1>5, <2>1 DEF IInv, ReadInv, Reading, Message
    <2>4. ReadInv' /\ QuietInv'
      BY <1>2, <2>1, <2>3 DEF IInv, ReadInv, QuietInv
    <2> QED BY <1>3, <2>2, <2>4 DEF IInv
  <1> QED BY <1>4, <1>5

\* The steps that leave both the database and the message being read alone.
LEMMA OtherInv ==
  IInv /\ (FormatError \/ Send \/ TimerWait \/ Lose
           \/ (\E m \in air : Receive(m)) \/ UNCHANGED vars) => IInv'
  <1> SUFFICES ASSUME IInv,
                      \/ FormatError \/ Send \/ TimerWait \/ Lose
                      \/ \E m \in air : Receive(m)
                      \/ UNCHANGED vars
               PROVE  IInv'
    OBVIOUS
  <1>1. /\ hdr' = hdr /\ appr' = appr /\ next' = next
        /\ upto' = upto /\ pmsg' = pmsg /\ quiet' = quiet
        /\ rpc' = rpc \/ rpc' \in {"header", "wait"}
    BY DEF FormatError, Send, TimerWait, Lose, Receive, vars, dbvars, sndvars
  <1>2. air' \subseteq air \cup {pmsg} /\ shown' \in air \cup {shown}
    BY DEF FormatError, Send, TimerWait, Lose, Receive, vars
  <1>3. TypeOK'
    BY <1>1, <1>2 DEF IInv, TypeOK
  <1>4. Reading' => Reading /\ rpc' = rpc
    BY <1>1 DEF Reading
  <1> QED
    BY <1>1, <1>3, <1>4 DEF IInv, DbInv, ReadInv, QuietInv

LEMMA NextInv == IInv /\ [Next]_vars => IInv'
  BY WriteHeaderInv, WriteApproachInv, ReadHeaderInv, ReadApproachInv, OtherInv
  DEF Next, Publishes, Sends

LEMMA Invariance == Spec => []IInv
  BY InitInv, NextInv, PTL DEF Spec

\* Every reachable state of the broadcast is well typed: no process indexes an
\* approach that is not there, and a pass ends when its last approach is out.
THEOREM BroadcastTypeCorrect == Spec => []TypeOK
  <1>1. IInv => TypeOK
    BY DEF IInv
  <1> QED BY <1>1, Invariance, PTL

\* A message read while phases published nothing is the whole of one pass.
THEOREM QuietReadsWhole == Spec => []QuietReadIsWhole
  <1>1. IInv => QuietReadIsWhole
    <2> SUFFICES ASSUME IInv, rpc = "format", quiet, pmsg.seconds > 0
                 PROVE  Whole(pmsg, pmsg.seconds)
      BY DEF QuietReadIsWhole
    <2>1. Reading
      BY DEF Reading
    <2> QED BY <2>1 DEF IInv, ReadInv, QuietInv, Whole
  <1> QED BY <1>1, Invariance, PTL

\* Reading the approaches one by one without a lock implements the mixture of
\* neighbouring passes: a vehicle is never shown parts that are further apart.
THEOREM Implements == Spec => ShownMixture
  <1>1. Init => Mix!MInit
    BY DEF Init, Mix!MInit, Nothing, Mix!Nothing, Slot, Mix!Slot
  <1>2. IInv /\ [Next]_vars => [Mix!MNext]_(Mix!mvars)
    <2> SUFFICES ASSUME IInv, [Next]_vars
                 PROVE  Mix!MNext \/ UNCHANGED Mix!mvars
      BY DEF Mix!mvars
    <2> USE DEF Mix!mvars
    <2>1. CASE WriteHeader
      BY <2>1 DEF WriteHeader, Mix!MNext, Mix!Publish
    <2>2. CASE Send
      <3>1. CASE air' = air
        BY <2>2, <3>1 DEF Send, dbvars
      <3>2. CASE air' = air \cup {pmsg}
        <4>1. pmsg \in Mix!Datagram
          BY DEF IInv, TypeOK, Message, Mix!Datagram, Slot, Mix!Slot
        <4>2. Mix!Mixed(pmsg, hdr)
          BY <2>2 DEF Send, IInv, ReadInv, Reading, Mix!Mixed
        <4>3. pmsg \in air' /\ hdr' = hdr /\ shown' = shown
          BY <2>2, <3>2 DEF Send, dbvars
        <4> QED
          BY <3>2, <4>1, <4>2, <4>3 DEF Mix!MNext, Mix!Broadcast
      <3> QED BY <2>2, <3>1, <3>2 DEF Send
    <2>3. CASE Lose
      BY <2>3 DEF Lose, dbvars, Mix!MNext, Mix!Lost
    <2>4. CASE \E m \in air : Receive(m)
      BY <2>4 DEF Receive, dbvars, Mix!MNext, Mix!Taken
    <2>5. CASE \/ WriteApproach \/ ReadHeader \/ ReadApproach
               \/ FormatError \/ TimerWait
      BY <2>5 DEF WriteApproach, ReadHeader, ReadApproach, FormatError,
                  TimerWait, dbvars
    <2>6. CASE UNCHANGED vars
      BY <2>6 DEF vars, dbvars
    <2> QED
      BY <2>1, <2>2, <2>3, <2>4, <2>5, <2>6 DEF Next, Publishes, Sends
  <1> QED
    BY <1>1, <1>2, Invariance, PTL DEF Spec, ShownMixture, Mix!MSpec

-----------------------------------------------------------------------------
(* The frames of the serial line: bits, bytes and words.                   *)

Word == {n \in Nat : n < 65536}

Power == {1, 2, 4, 8, 16, 32, 64, 128}

\* A byte is the sum of its bits, and nothing else is.
LEMMA BitsOfByte ==
  ASSUME NEW v \in Byte
  PROVE  /\ \A power \in Power : Bit(v, power) \in {0, 1}
         /\ v = Bit(v, 1) + 2 * Bit(v, 2) + 4 * Bit(v, 4) + 8 * Bit(v, 8)
                + 16 * Bit(v, 16) + 32 * Bit(v, 32) + 64 * Bit(v, 64)
                + 128 * Bit(v, 128)
  BY DEF Bit, Byte, Power

LEMMA ByteOfBits ==
  ASSUME NEW a \in {0, 1}, NEW b \in {0, 1}, NEW c \in {0, 1}, NEW d \in {0, 1},
         NEW e \in {0, 1}, NEW f \in {0, 1}, NEW g \in {0, 1}, NEW h \in {0, 1},
         NEW v \in Int, v = a + 2 * b + 4 * c + 8 * d
                + 16 * e + 32 * f + 64 * g + 128 * h
  PROVE  /\ v \in Byte
         /\ Bit(v, 1) = a /\ Bit(v, 2) = b /\ Bit(v, 4) = c /\ Bit(v, 8) = d
         /\ Bit(v, 16) = e /\ Bit(v, 32) = f /\ Bit(v, 64) = g
         /\ Bit(v, 128) = h
  BY DEF Bit, Byte

\* The exclusive or of two bytes is a byte, and has the bits it should have.
LEMMA XorBits ==
  ASSUME NEW v \in Byte, NEW w \in Byte
  PROVE  /\ ByteXor[v][w] \in Byte
         /\ \A power \in Power :
              Bit(ByteXor[v][w], power) = (Bit(v, power) + Bit(w, power)) % 2
  <1> DEFINE sum(power) == (Bit(v, power) + Bit(w, power)) % 2
             x == ByteXor[v][w]
  <1>1. \A power \in Power :
          Bit(v, power) \in {0, 1} /\ Bit(w, power) \in {0, 1}
    BY BitsOfByte, Zenon
  <1>2. \A power \in Power : sum(power) \in {0, 1}
    BY <1>1
  <1>3. v \in Nat /\ w \in Nat
    BY DEF Byte
  <1>4. x = sum(1) + 2 * sum(2) + 4 * sum(4) + 8 * sum(8) + 16 * sum(16)
            + 32 * sum(32) + 64 * sum(64) + 128 * sum(128)
    <2> DEFINE bit(power) == power * ((Bit(v, power) + Bit(w, power)) % 2)
    <2>1. x = bit(1) + bit(2) + bit(4) + bit(8)
              + bit(16) + bit(32) + bit(64) + bit(128)
      BY <1>1, <1>3, SMT DEF ByteXor
    <2>2. sum(1) \in {0, 1}
      BY <1>2 DEF Power
    <2> HIDE DEF x
    <2>3. /\ bit(1) = 1 * sum(1) /\ bit(2) = 2 * sum(2) /\ bit(4) = 4 * sum(4)
          /\ bit(8) = 8 * sum(8) /\ bit(16) = 16 * sum(16)
          /\ bit(32) = 32 * sum(32) /\ bit(64) = 64 * sum(64)
          /\ bit(128) = 128 * sum(128)
      OBVIOUS
    <2> HIDE DEF sum, bit
    <2>4. 1 * sum(1) = sum(1)
      BY <2>2
    <2> QED
      BY <2>1, <2>3, <2>4
  <1> HIDE DEF sum, x
  <1>5. /\ sum(1) \in {0, 1} /\ sum(2) \in {0, 1} /\ sum(4) \in {0, 1}
        /\ sum(8) \in {0, 1} /\ sum(16) \in {0, 1} /\ sum(32) \in {0, 1}
        /\ sum(64) \in {0, 1} /\ sum(128) \in {0, 1}
    BY <1>2 DEF Power
  <1>6. x \in Int
    BY <1>4, <1>5
  <1>7. /\ x \in Byte
        /\ Bit(x, 1) = sum(1) /\ Bit(x, 2) = sum(2) /\ Bit(x, 4) = sum(4)
        /\ Bit(x, 8) = sum(8) /\ Bit(x, 16) = sum(16) /\ Bit(x, 32) = sum(32)
        /\ Bit(x, 64) = sum(64) /\ Bit(x, 128) = sum(128)
    BY <1>4, <1>5, <1>6, ByteOfBits
  <1>8. \A power \in Power : Bit(x, power) = sum(power)
    BY <1>7 DEF Power
  <1> QED
    BY <1>7, <1>8 DEF x, sum

\* A byte is known by its bits.
LEMMA SameBits ==
  ASSUME NEW v \in Byte, NEW w \in Byte,
         \A power \in Power : Bit(v, power) = Bit(w, power)
  PROVE  v = w
  <1>1. /\ Bit(v, 1) = Bit(w, 1) /\ Bit(v, 2) = Bit(w, 2)
        /\ Bit(v, 4) = Bit(w, 4) /\ Bit(v, 8) = Bit(w, 8)
        /\ Bit(v, 16) = Bit(w, 16) /\ Bit(v, 32) = Bit(w, 32)
        /\ Bit(v, 64) = Bit(w, 64) /\ Bit(v, 128) = Bit(w, 128)
    BY DEF Power
  <1> QED
    BY <1>1, BitsOfByte

\* The bits of the complement are the others.
LEMMA ComplementBits ==
  ASSUME NEW v \in Byte
  PROVE  /\ 255 - v \in Byte
         /\ \A power \in Power : Bit(255 - v, power) = 1 - Bit(v, power)
  <1> DEFINE other(power) == 1 - Bit(v, power)
             x == 255 - v
  <1>1. \A power \in Power : Bit(v, power) \in {0, 1}
    BY BitsOfByte, Zenon
  <1>2. \A power \in Power : other(power) \in {0, 1}
    BY <1>1
  <1>3. v \in 0 .. 255 /\ x \in Int
    BY DEF Byte
  <1>4. /\ Bit(v, 1) \in {0, 1} /\ Bit(v, 2) \in {0, 1} /\ Bit(v, 4) \in {0, 1}
        /\ Bit(v, 8) \in {0, 1} /\ Bit(v, 16) \in {0, 1}
        /\ Bit(v, 32) \in {0, 1} /\ Bit(v, 64) \in {0, 1}
        /\ Bit(v, 128) \in {0, 1}
    BY <1>1 DEF Power
  <1>5. x = other(1) + 2 * other(2) + 4 * other(4) + 8 * other(8)
            + 16 * other(16) + 32 * other(32) + 64 * other(64)
            + 128 * other(128)
    BY <1>3, <1>4, BitsOfByte
  <1>6. /\ other(1) \in {0, 1} /\ other(2) \in {0, 1} /\ other(4) \in {0, 1}
        /\ other(8) \in {0, 1} /\ other(16) \in {0, 1} /\ other(32) \in {0, 1}
        /\ other(64) \in {0, 1} /\ other(128) \in {0, 1}
    BY <1>2 DEF Power
  <1> HIDE DEF other, x
  <1>7. /\ x \in Byte
        /\ Bit(x, 1) = other(1) /\ Bit(x, 2) = other(2)
        /\ Bit(x, 4) = other(4) /\ Bit(x, 8) = other(8)
        /\ Bit(x, 16) = other(16) /\ Bit(x, 32) = other(32)
        /\ Bit(x, 64) = other(64) /\ Bit(x, 128) = other(128)
    BY <1>3, <1>5, <1>6, ByteOfBits
  <1>8. \A power \in Power : Bit(x, power) = other(power)
    BY <1>7 DEF Power
  <1> QED
    BY <1>7, <1>8 DEF x, other

\* A constant c added to a byte and taken from its complement: what is left
\* are the other bits of c.
LEMMA XorComplement ==
  ASSUME NEW v \in Byte, NEW c \in Byte
  PROVE  ByteXor[ByteXor[v][c]][255 - v] = 255 - c
  <1> DEFINE x == ByteXor[v][c]
             z == 255 - v
             y == ByteXor[x][z]
  <1>1. /\ x \in Byte
        /\ \A power \in Power :
             Bit(x, power) = (Bit(v, power) + Bit(c, power)) % 2
    BY XorBits
  <1>2. /\ z \in Byte /\ 255 - c \in Byte
        /\ \A power \in Power : /\ Bit(z, power) = 1 - Bit(v, power)
                                /\ Bit(255 - c, power) = 1 - Bit(c, power)
    BY ComplementBits
  <1> HIDE DEF x, z
  <1>3. /\ y \in Byte
        /\ \A power \in Power :
             Bit(y, power) = (Bit(x, power) + Bit(z, power)) % 2
    BY <1>1, <1>2, XorBits
  <1> HIDE DEF y
  <1>4. ASSUME NEW power \in Power
        PROVE  Bit(y, power) = Bit(255 - c, power)
    <2> DEFINE a == Bit(v, power)
               b == Bit(c, power)
               e == Bit(y, power)
    <2>1. a \in {0, 1} /\ b \in {0, 1}
      BY BitsOfByte, Zenon
    <2>2. e = (((a + b) % 2) + (1 - a)) % 2
      <3>1. /\ Bit(x, power) = (a + b) % 2 /\ Bit(z, power) = 1 - a
            /\ e = (Bit(x, power) + Bit(z, power)) % 2
        BY <1>1, <1>2, <1>3
      <3> QED
        BY ONLY <3>1
    <2>3. Bit(255 - c, power) = 1 - b
      BY <1>2, Zenon
    <2> HIDE DEF a, b, e
    <2>4. e = 1 - b
      BY ONLY <2>1, <2>2
    <2> QED
      BY <2>3, <2>4 DEF e
  <1>5. y = 255 - c
    BY <1>2, <1>3, <1>4, SameBits
  <1> QED
    BY <1>5 DEF x, y, z

\* The exclusive or of a byte and its complement.
LEMMA XorInverse ==
  ASSUME NEW v \in Byte
  PROVE  ByteXor[v][255 - v] = 255
  <1> DEFINE z == 255 - v
             y == ByteXor[v][z]
  <1>1. /\ z \in Byte
        /\ \A power \in Power : Bit(z, power) = 1 - Bit(v, power)
    BY ComplementBits
  <1> HIDE DEF z
  <1>2. /\ y \in Byte
        /\ \A power \in Power :
             Bit(y, power) = (Bit(v, power) + Bit(z, power)) % 2
    BY <1>1, XorBits
  <1>3. \A power \in Power : Bit(255, power) = 1
    BY DEF Power, Bit
  <1>4. 255 \in Byte
    BY DEF Byte
  <1> HIDE DEF y
  <1>5. ASSUME NEW power \in Power
        PROVE  Bit(y, power) = Bit(255, power)
    <2> DEFINE a == Bit(v, power)
               e == Bit(y, power)
    <2>1. a \in {0, 1}
      BY BitsOfByte, Zenon
    <2>2. e = (a + (1 - a)) % 2
      <3>1. /\ Bit(z, power) = 1 - a
            /\ e = (a + Bit(z, power)) % 2
        BY <1>1, <1>2
      <3> QED
        BY ONLY <3>1
    <2> HIDE DEF a, e
    <2>3. e = 1
      BY ONLY <2>1, <2>2
    <2> QED
      BY <1>3, <2>3 DEF e
  <1>6. y = 255
    BY <1>2, <1>4, <1>5, SameBits
  <1> QED
    BY <1>6 DEF y, z

\* Words are what the division and the sums deal with.
High(v) == v \div 256
Low(v) == v % 256
Half(v) == v \div 2
Join(a, b) == 256 * a + b

LEMMA Quotients ==
  ASSUME NEW v \in Int, 0 <= v, v <= 65535
  PROVE  /\ v \div 256 \in Int /\ 0 <= v \div 256 /\ v \div 256 <= 255
         /\ v % 256 \in Int /\ 0 <= v % 256 /\ v % 256 <= 255
         /\ v \div 2 \in Int /\ 0 <= v \div 2 /\ v \div 2 <= 65535
  OBVIOUS

LEMMA Joined ==
  ASSUME NEW v \in Int, NEW a \in Int, NEW b \in Int,
         0 <= a, a <= 255, 0 <= b, b <= 255, v = 256 * a + b
  PROVE  0 <= v /\ v <= 65535 /\ v \div 256 = a /\ v % 256 = b
  OBVIOUS

\* Membership and bounds.
LEMMA ByteBounds ==
  ASSUME NEW v
  PROVE  v \in Byte <=> v \in Int /\ 0 <= v /\ v <= 255
  BY DEF Byte

LEMMA OfWord ==
  ASSUME NEW v \in Word
  PROVE  v \in Int /\ 0 <= v /\ v <= 65535
  BY DEF Word

LEMMA InWord ==
  ASSUME NEW v \in Int, 0 <= v, v <= 65535
  PROVE  v \in Word
  BY DEF Word

LEMMA ByteIsNat ==
  ASSUME NEW v \in Byte
  PROVE  v \in Nat /\ v \in Word
  BY DEF Word, Byte

LEMMA WordBytes ==
  ASSUME NEW v \in Word
  PROVE  v \in Nat /\ High(v) \in Byte /\ Low(v) \in Byte /\ Half(v) \in Word
  <1>1. v \in Int /\ 0 <= v /\ v <= 65535
    BY ONLY OfWord, v \in Word
  <1>2. PICK h \in Int, l \in Int, half \in Int :
          /\ h = High(v) /\ 0 <= h /\ h <= 255
          /\ l = Low(v) /\ 0 <= l /\ l <= 255
          /\ half = Half(v) /\ 0 <= half /\ half <= 65535
    BY ONLY <1>1, Quotients DEF High, Low, Half
  <1>3. h \in Byte
    BY ONLY <1>2, ByteBounds
  <1>4. l \in Byte
    BY ONLY <1>2, ByteBounds
  <1>5. half \in Word
    BY ONLY <1>2, InWord
  <1>6. v \in Nat
    BY ONLY <1>1
  <1> QED
    BY ONLY <1>2, <1>3, <1>4, <1>5, <1>6

LEMMA BytesWord ==
  ASSUME NEW a \in Byte, NEW b \in Byte
  PROVE  /\ Join(a, b) \in Word
         /\ High(Join(a, b)) = a /\ Low(Join(a, b)) = b
  <1>1. /\ a \in Int /\ 0 <= a /\ a <= 255
        /\ b \in Int /\ 0 <= b /\ b <= 255
    BY ByteBounds
  <1>2. PICK v \in Int : v = 256 * a + b
    BY ONLY <1>1
  <1>3. 0 <= v /\ v <= 65535 /\ v \div 256 = a /\ v % 256 = b
    BY ONLY <1>1, <1>2, Joined
  <1>4. v \in Word
    BY ONLY <1>2, <1>3, InWord
  <1>5. Join(a, b) = v
    BY ONLY <1>2 DEF Join
  <1>6. High(v) = a /\ Low(v) = b
    BY ONLY <1>3 DEF High, Low
  <1> QED
    BY <1>4, <1>5, <1>6, Zenon

LEMMA XorWord ==
  ASSUME NEW v \in Word, NEW w \in Word
  PROVE  /\ Xor[v][w] \in Word
         /\ Xor[v][w] = Join(ByteXor[High(v)][High(w)], ByteXor[Low(v)][Low(w)])
  <1>1. v \in Nat /\ High(v) \in Byte /\ Low(v) \in Byte
    BY WordBytes, Zenon
  <1>2. w \in Nat /\ High(w) \in Byte /\ Low(w) \in Byte
    BY WordBytes, Zenon
  <1>3. Xor[v][w] = Join(ByteXor[High(v)][High(w)], ByteXor[Low(v)][Low(w)])
    BY <1>1, <1>2, SMT DEF Xor, Join, High, Low
  <1>4. ByteXor[High(v)][High(w)] \in Byte /\ ByteXor[Low(v)][Low(w)] \in Byte
    BY <1>1, <1>2, XorBits, Zenon
  <1>5. Join(ByteXor[High(v)][High(w)], ByteXor[Low(v)][Low(w)]) \in Word
    BY <1>4, BytesWord, Zenon
  <1> QED
    BY <1>3, <1>5, Zenon

Poly == 33800

LEMMA DivideWord ==
  ASSUME NEW r \in Word
  PROVE  Divide[r] \in Word
  <1>1. r \in Nat /\ Half(r) \in Word
    BY WordBytes, Zenon
  <1>2. Poly \in Word
    BY DEF Word, Poly
  <1>3. Xor[Half(r)][Poly] \in Word
    BY <1>1, <1>2, XorWord, Zenon
  <1>4. Divide[r] = IF r % 2 = 1 THEN Xor[Half(r)][Poly] ELSE Half(r)
    BY <1>1, SMT DEF Divide, Half, Poly
  <1> QED
    BY ONLY <1>1, <1>3, <1>4

LEMMA TableWord ==
  ASSUME NEW byte \in Byte
  PROVE  /\ fcstab[byte] \in Word
         /\ fcstab[byte] = 
              Divide[Divide[Divide[Divide[Divide[Divide[Divide[Divide[byte
                ]]]]]]]]
  <1>1. byte \in Word
    BY ByteIsNat, Zenon
  <1>2. fcstab[byte] =
          Divide[Divide[Divide[Divide[Divide[Divide[Divide[Divide[byte]]]]]]]]
    BY Zenon DEF fcstab
  <1>3. Divide[Divide[Divide[Divide[byte]]]] \in Word
    BY <1>1, DivideWord, Zenon
  <1>4. Divide[Divide[Divide[Divide[Divide[Divide[Divide[Divide[byte
          ]]]]]]]] \in Word
    BY <1>3, DivideWord, Zenon
  <1> QED
    BY <1>2, <1>4, Zenon

LEMMA NextWord ==
  ASSUME NEW fcs \in Word, NEW byte \in Byte
  PROVE  /\ NextFcs[fcs][byte] \in Word
         /\ NextFcs[fcs][byte] = Xor[High(fcs)][fcstab[ByteXor[Low(fcs)][byte]]]
  <1>1. fcs \in Nat /\ High(fcs) \in Byte /\ Low(fcs) \in Byte
    BY WordBytes, Zenon
  <1>2. NextFcs[fcs][byte] = Xor[High(fcs)][fcstab[ByteXor[Low(fcs)][byte]]]
    BY <1>1, SMT DEF NextFcs, High, Low
  <1>3. ByteXor[Low(fcs)][byte] \in Byte
    BY <1>1, XorBits, Zenon
  <1>4. fcstab[ByteXor[Low(fcs)][byte]] \in Word
    BY <1>3, TableWord, Zenon
  <1>5. High(fcs) \in Word
    BY <1>1, ByteIsNat, Zenon
  <1>6. Xor[High(fcs)][fcstab[ByteXor[Low(fcs)][byte]]] \in Word
    BY <1>4, <1>5, XorWord, Zenon
  <1> QED
    BY <1>2, <1>6, Zenon

\* The steps of the division for the two entries of the table that the end
\* of a frame comes to.
LEMMA DivideEven ==
  ASSUME NEW r \in Nat, r % 2 = 0
  PROVE  Divide[r] = r \div 2
  BY SMT DEF Divide

LEMMA DivideOdd ==
  ASSUME NEW r \in Nat, NEW h \in Byte, NEW l \in Byte, r = 512 * h + 2 * l + 1
  PROVE  Divide[r] = Join(ByteXor[h][132], ByteXor[l][8])
  <1>0. h \in Nat /\ l \in Nat /\ l <= 255
    BY ByteBounds
  <1>1. PICK half \in Nat : half = 256 * h + l
    BY ONLY <1>0
  <1>2. r % 2 = 1 /\ r \div 2 = half
    BY ONLY <1>0, <1>1, r = 512 * h + 2 * l + 1
  <1>3. Divide[r] = Xor[half][33800]
    BY <1>2, SMT DEF Divide
  <1>4. half \div 256 = h /\ half % 256 = l
    BY ONLY <1>0, <1>1
  <1>5. 33800 \div 256 = 132 /\ 33800 % 256 = 8
    OBVIOUS
  <1>6. Xor[half][33800] = 256 * ByteXor[h][132] + ByteXor[l][8]
    BY <1>4, <1>5, SMT DEF Xor
  <1> QED
    BY ONLY <1>3, <1>6 DEF Join

LEMMA TableChain ==
  ASSUME NEW byte \in Byte, NEW a, NEW b, NEW c, NEW d, NEW e, NEW f, NEW g,
         NEW h, Divide[byte] = a, Divide[a] = b, Divide[b] = c, Divide[c] = d,
         Divide[d] = e, Divide[e] = f, Divide[f] = g, Divide[g] = h
  PROVE  fcstab[byte] = h
  <1>1. fcstab[byte] =
          Divide[Divide[Divide[Divide[Divide[Divide[Divide[Divide[byte]]]]]]]]
    BY TableWord, Zenon
  <1>2. Divide[Divide[Divide[Divide[byte]]]] = d
    OBVIOUS
  <1>3. Divide[Divide[Divide[Divide[d]]]] = h
    OBVIOUS
  <1> QED
    BY ONLY <1>1, <1>2, <1>3, Zenon

LEMMA Table255 == fcstab[255] = 3960
  <1>1. Divide[255] = 33911
    <2>1. ByteXor[0][132] = 132 /\ ByteXor[127][8] = 119
      BY SMT DEF ByteXor, Bit
    <2>2. 0 \in Byte /\ 127 \in Byte
      BY ByteBounds
    <2>3. Divide[255] = Join(ByteXor[0][132], ByteXor[127][8])
      BY <2>2, DivideOdd, SMT
    <2> QED
      BY ONLY <2>1, <2>3, SMT DEF Join
  <1>2. Divide[33911] = 50739
    <2>1. ByteXor[66][132] = 198 /\ ByteXor[59][8] = 51
      BY SMT DEF ByteXor, Bit
    <2>2. 66 \in Byte /\ 59 \in Byte
      BY ByteBounds
    <2>3. Divide[33911] = Join(ByteXor[66][132], ByteXor[59][8])
      BY <2>2, DivideOdd, SMT
    <2> QED
      BY ONLY <2>1, <2>3, SMT DEF Join
  <1>3. Divide[50739] = 59153
    <2>1. ByteXor[99][132] = 231 /\ ByteXor[25][8] = 17
      BY SMT DEF ByteXor, Bit
    <2>2. 99 \in Byte /\ 25 \in Byte
      BY ByteBounds
    <2>3. Divide[50739] = Join(ByteXor[99][132], ByteXor[25][8])
      BY <2>2, DivideOdd, SMT
    <2> QED
      BY ONLY <2>1, <2>3, SMT DEF Join
  <1>4. Divide[59153] = 63360
    <2>1. ByteXor[115][132] = 247 /\ ByteXor[136][8] = 128
      BY SMT DEF ByteXor, Bit
    <2>2. 115 \in Byte /\ 136 \in Byte
      BY ByteBounds
    <2>3. Divide[59153] = Join(ByteXor[115][132], ByteXor[136][8])
      BY <2>2, DivideOdd, SMT
    <2> QED
      BY ONLY <2>1, <2>3, SMT DEF Join
  <1>5. Divide[63360] = 31680
    BY DivideEven, SMT
  <1>6. Divide[31680] = 15840
    BY DivideEven, SMT
  <1>7. Divide[15840] = 7920
    BY DivideEven, SMT
  <1>8. Divide[7920] = 3960
    BY DivideEven, SMT
  <1>9. 255 \in Byte
    BY ByteBounds
  <1> QED
    BY ONLY <1>1, <1>2, <1>3, <1>4, <1>5, <1>6, <1>7, <1>8, <1>9,
       TableChain

LEMMA Table135 == fcstab[135] = 61623
  <1>1. Divide[135] = 33867
    <2>1. ByteXor[0][132] = 132 /\ ByteXor[67][8] = 75
      BY SMT DEF ByteXor, Bit
    <2>2. 0 \in Byte /\ 67 \in Byte
      BY ByteBounds
    <2>3. Divide[135] = Join(ByteXor[0][132], ByteXor[67][8])
      BY <2>2, DivideOdd, SMT
    <2> QED
      BY ONLY <2>1, <2>3, SMT DEF Join
  <1>2. Divide[33867] = 50733
    <2>1. ByteXor[66][132] = 198 /\ ByteXor[37][8] = 45
      BY SMT DEF ByteXor, Bit
    <2>2. 66 \in Byte /\ 37 \in Byte
      BY ByteBounds
    <2>3. Divide[33867] = Join(ByteXor[66][132], ByteXor[37][8])
      BY <2>2, DivideOdd, SMT
    <2> QED
      BY ONLY <2>1, <2>3, SMT DEF Join
  <1>3. Divide[50733] = 59166
    <2>1. ByteXor[99][132] = 231 /\ ByteXor[22][8] = 30
      BY SMT DEF ByteXor, Bit
    <2>2. 99 \in Byte /\ 22 \in Byte
      BY ByteBounds
    <2>3. Divide[50733] = Join(ByteXor[99][132], ByteXor[22][8])
      BY <2>2, DivideOdd, SMT
    <2> QED
      BY ONLY <2>1, <2>3, SMT DEF Join
  <1>4. Divide[59166] = 29583
    BY DivideEven, SMT
  <1>5. Divide[29583] = 48591
    <2>1. ByteXor[57][132] = 189 /\ ByteXor[199][8] = 207
      BY SMT DEF ByteXor, Bit
    <2>2. 57 \in Byte /\ 199 \in Byte
      BY ByteBounds
    <2>3. Divide[29583] = Join(ByteXor[57][132], ByteXor[199][8])
      BY <2>2, DivideOdd, SMT
    <2> QED
      BY ONLY <2>1, <2>3, SMT DEF Join
  <1>6. Divide[48591] = 56047
    <2>1. ByteXor[94][132] = 218 /\ ByteXor[231][8] = 239
      BY SMT DEF ByteXor, Bit
    <2>2. 94 \in Byte /\ 231 \in Byte
      BY ByteBounds
    <2>3. Divide[48591] = Join(ByteXor[94][132], ByteXor[231][8])
      BY <2>2, DivideOdd, SMT
    <2> QED
      BY ONLY <2>1, <2>3, SMT DEF Join
  <1>7. Divide[56047] = 59775
    <2>1. ByteXor[109][132] = 233 /\ ByteXor[119][8] = 127
      BY SMT DEF ByteXor, Bit
    <2>2. 109 \in Byte /\ 119 \in Byte
      BY ByteBounds
    <2>3. Divide[56047] = Join(ByteXor[109][132], ByteXor[119][8])
      BY <2>2, DivideOdd, SMT
    <2> QED
      BY ONLY <2>1, <2>3, SMT DEF Join
  <1>8. Divide[59775] = 61623
    <2>1. ByteXor[116][132] = 240 /\ ByteXor[191][8] = 183
      BY SMT DEF ByteXor, Bit
    <2>2. 116 \in Byte /\ 191 \in Byte
      BY ByteBounds
    <2>3. Divide[59775] = Join(ByteXor[116][132], ByteXor[191][8])
      BY <2>2, DivideOdd, SMT
    <2> QED
      BY ONLY <2>1, <2>3, SMT DEF Join
  <1>9. 135 \in Byte
    BY ByteBounds
  <1> QED
    BY ONLY <1>1, <1>2, <1>3, <1>4, <1>5, <1>6, <1>7, <1>8, <1>9,
       TableChain

-----------------------------------------------------------------------------
\* The sum over a frame, one byte at a time.
Sums(f, fcs, bytes, n) ==
  f = [i \in 0 .. n |-> IF i = 0 THEN fcs ELSE NextFcs[f[i - 1]][bytes[i]]]

LEMMA SumEntry ==
  ASSUME NEW f, NEW fcs, NEW bytes, NEW n \in Nat, Sums(f, fcs, bytes, n)
  PROVE  /\ f[0] = fcs
         /\ \A i \in 1 .. n : f[i] = NextFcs[f[i - 1]][bytes[i]]
  BY SMT DEF Sums

LEMMA SumLast ==
  ASSUME NEW f, NEW fcs, NEW bytes, NEW n \in Nat, n > 0,
         Sums(f, fcs, bytes, n)
  PROVE  f[n] = NextFcs[f[n - 1]][bytes[n]]
  BY SumEntry

LEMMA SumLonger ==
  ASSUME NEW fcs, NEW bytes, NEW n \in Nat, n > 0, NEW g,
         Sums(g, fcs, bytes, n - 1)
  PROVE  \E f : Sums(f, fcs, bytes, n)
  <1> DEFINE e == NextFcs[g[n - 1]][bytes[n]]
             f == [i \in 0 .. n |-> IF i < n THEN g[i] ELSE e]
             h == [i \in 0 .. n |-> IF i = 0 THEN fcs
                                    ELSE NextFcs[f[i - 1]][bytes[i]]]
  <1>1. /\ g[0] = fcs
        /\ \A i \in 1 .. n - 1 : g[i] = NextFcs[g[i - 1]][bytes[i]]
    BY SumEntry
  <1>2. \A i \in 0 .. n : f[i] = IF i < n THEN g[i] ELSE e
    OBVIOUS
  <1>3. f = [i \in 0 .. n |-> f[i]] /\ h = [i \in 0 .. n |-> h[i]]
    OBVIOUS
  <1>4. \A i \in 0 .. n : h[i] = IF i = 0 THEN fcs
                                 ELSE NextFcs[f[i - 1]][bytes[i]]
    OBVIOUS
  <1> HIDE DEF f, h
  <1>5. ASSUME NEW i \in 0 .. n PROVE f[i] = h[i]
    <2>1. CASE i = 0
      BY <1>1, <1>2, <1>4, <2>1
    <2>2. CASE i # 0
      <3>1. i - 1 \in 0 .. n /\ i - 1 < n
        BY <2>2
      <3>2. h[i] = NextFcs[f[i - 1]][bytes[i]] /\ f[i - 1] = g[i - 1]
        BY <1>2, <1>4, <2>2, <3>1
      <3>3. CASE i = n
        <4>1. f[i] = e
          BY <1>2, <3>3
        <4> QED
          BY <3>2, <3>3, <4>1
      <3>4. CASE i # n
        <4>1. i \in 1 .. n - 1 /\ f[i] = g[i]
          BY <1>2, <2>2, <3>4
        <4>2. g[i] = NextFcs[g[i - 1]][bytes[i]]
          BY <1>1, <4>1, Zenon
        <4> QED
          BY <3>2, <4>1, <4>2, Zenon
      <3> QED
        BY <3>3, <3>4
    <2> QED
      BY <2>1, <2>2
  <1>6. f = h
    BY <1>3, <1>5, Zenon
  <1>7. Sums(f, fcs, bytes, n)
    BY <1>6, Zenon DEF Sums, h
  <1> QED
    BY <1>7, Zenon

LEMMA SumExists ==
  ASSUME NEW fcs, NEW bytes, NEW n \in Nat
  PROVE  \E f : Sums(f, fcs, bytes, n)
  <1> DEFINE Bad == {k \in Nat : ~ \E f : Sums(f, fcs, bytes, k)}
  <1> SUFFICES ASSUME Bad # {} PROVE FALSE
    OBVIOUS
  <1>1. PICK k \in Bad : \A j \in Bad : k <= j
    <2>1. Bad \subseteq Nat
      OBVIOUS
    <2> HIDE DEF Bad
    <2> QED
      BY <2>1, LeastMember
  <1>2. CASE k = 0
    <2>1. Sums([i \in 0 .. 0 |-> fcs], fcs, bytes, 0)
      BY SMT DEF Sums
    <2> QED
      BY <1>1, <1>2, <2>1
  <1>3. CASE k # 0
    <2>1. k \in Nat /\ k > 0 /\ k - 1 \in Nat /\ k - 1 \notin Bad
      BY <1>1, <1>3
    <2>2. PICK g : Sums(g, fcs, bytes, k - 1)
      BY <2>1
    <2>3. \E f : Sums(f, fcs, bytes, k)
      BY <2>1, <2>2, SumLonger
    <2> QED
      BY <1>1, <2>3
  <1> QED
    BY <1>2, <1>3

LEMMA SumIsLast ==
  ASSUME NEW fcs, NEW bytes, Len(bytes) \in Nat
  PROVE  \E f : /\ Sums(f, fcs, bytes, Len(bytes))
                /\ pppfcs(fcs, bytes) = f[Len(bytes)]
  <1> DEFINE n == Len(bytes)
             Table(f) == f = [i \in 0 .. n |-> IF i = 0 THEN fcs
                                        ELSE NextFcs[f[i - 1]][bytes[i]]]
             g == CHOOSE f : Table(f)
  <1>0. \E f : Sums(f, fcs, bytes, n)
    BY SumExists
  <1>1. \E f : Table(f)
    BY <1>0, Zenon DEF Sums
  <1>2. Table(g)
    BY <1>1, Zenon
  <1>3. pppfcs(fcs, bytes) = g[n]
    BY DEF pppfcs
  <1>4. Sums(g, fcs, bytes, n)
    BY <1>2, Zenon DEF Sums
  <1> QED
    BY <1>3, <1>4, Zenon

\* Two tables agree on the bytes that they share, and hold words.
Begins(a, b, n) == \A i \in 1 .. n : a[i] \in Byte /\ b[i] = a[i]

LEMMA SumsAgree ==
  ASSUME NEW fcs \in Word, NEW n \in Nat, NEW m \in 0 .. n, NEW a, NEW b,
         Begins(a, b, m),
         NEW f, Sums(f, fcs, a, m), NEW g, Sums(g, fcs, b, n)
  PROVE  \A i \in 0 .. m : f[i] \in Word /\ g[i] = f[i]
  <1> DEFINE Bad == {k \in 0 .. m : ~ (f[k] \in Word /\ g[k] = f[k])}
  <1> SUFFICES ASSUME Bad # {} PROVE FALSE
    OBVIOUS
  <1>1. PICK k \in Bad : \A j \in Bad : k <= j
    <2>1. Bad \subseteq Nat
      OBVIOUS
    <2> HIDE DEF Bad
    <2> QED
      BY <2>1, LeastMember
  <1>2. /\ f[0] = fcs
        /\ \A j \in 1 .. m : f[j] = NextFcs[f[j - 1]][a[j]]
    BY SumEntry
  <1>3. /\ g[0] = fcs
        /\ \A j \in 1 .. n : g[j] = NextFcs[g[j - 1]][b[j]]
    BY SumEntry
  <1>4. CASE k = 0
    BY <1>1, <1>2, <1>3, <1>4
  <1>5. CASE k # 0
    <2>1. k \in 1 .. m /\ k \in 1 .. n /\ k - 1 \in 0 .. m /\ k - 1 \notin Bad
      BY <1>1, <1>5
    <2>2. f[k - 1] \in Word /\ g[k - 1] = f[k - 1]
      BY <2>1
    <2>3. f[k] = NextFcs[f[k - 1]][a[k]] /\ g[k] = NextFcs[g[k - 1]][b[k]]
      BY <1>2, <1>3, <2>1
    <2>4. a[k] \in Byte /\ b[k] = a[k]
      BY <2>1 DEF Begins
    <2>5. f[k] \in Word
      BY <2>2, <2>3, <2>4, NextWord, Zenon
    <2> QED
      BY <1>1, <2>2, <2>3, <2>4, <2>5
  <1> QED
    BY <1>4, <1>5

LEMMA SumWord ==
  ASSUME NEW fcs \in Word, NEW bytes \in Seq(Byte)
  PROVE  pppfcs(fcs, bytes) \in Word
  <1>1. Len(bytes) \in Nat /\ \A i \in 1 .. Len(bytes) : bytes[i] \in Byte
    OBVIOUS
  <1>2. PICK f : /\ Sums(f, fcs, bytes, Len(bytes))
                 /\ pppfcs(fcs, bytes) = f[Len(bytes)]
    BY <1>1, SumIsLast
  <1>3. Len(bytes) \in 0 .. Len(bytes)
    BY <1>1
  <1>4. Begins(bytes, bytes, Len(bytes))
    BY <1>1 DEF Begins
  <1>5. \A i \in 0 .. Len(bytes) : f[i] \in Word
    BY <1>1, <1>2, <1>3, <1>4, SumsAgree
  <1> QED
    BY <1>2, <1>3, <1>5

LEMMA SumAppend ==
  ASSUME NEW fcs \in Word, NEW bytes \in Seq(Byte), NEW byte \in Byte
  PROVE  pppfcs(fcs, Append(bytes, byte)) = NextFcs[pppfcs(fcs, bytes)][byte]
  <1> DEFINE n == Len(bytes)
             more == Append(bytes, byte)
             k == Len(more)
  <1>1. n \in Nat /\ \A i \in 1 .. n : bytes[i] \in Byte
    OBVIOUS
  <1>2. /\ k \in Nat /\ k = n + 1 /\ more[k] = byte
        /\ \A i \in 1 .. n : more[i] = bytes[i]
    OBVIOUS
  <1>3. PICK f : Sums(f, fcs, bytes, n) /\ pppfcs(fcs, bytes) = f[n]
    BY <1>1, SumIsLast
  <1>4. PICK g : Sums(g, fcs, more, k) /\ pppfcs(fcs, more) = g[k]
    BY <1>2, SumIsLast
  <1> HIDE DEF n, more, k
  <1>5. g[n] = f[n]
    <2>1. n \in 0 .. k /\ n \in 0 .. n
      BY <1>1, <1>2
    <2>2. Begins(bytes, more, n)
      BY <1>1, <1>2, Zenon DEF Begins
    <2>3. n \in Nat /\ k \in Nat /\ n \in 0 .. k
      BY <1>1, <1>2
    <2>4. \A i \in 0 .. n : f[i] \in Word /\ g[i] = f[i]
      BY <1>3, <1>4, <2>2, <2>3, SumsAgree, SMTT(20)
    <2> QED
      BY <2>1, <2>4
  <1>6. g[k] = NextFcs[g[n]][more[k]]
    <2>1. k \in Nat /\ k > 0 /\ k - 1 = n
      BY <1>1, <1>2
    <2>2. g[k] = NextFcs[g[k - 1]][more[k]]
      BY <1>4, <2>1, SumLast
    <2> QED
      BY ONLY <2>1, <2>2
  <1>7. pppfcs(fcs, more) = NextFcs[pppfcs(fcs, bytes)][byte]
    BY <1>2, <1>3, <1>4, <1>5, <1>6
  <1> QED
    BY <1>7, Zenon DEF more

-----------------------------------------------------------------------------
(* The check sequence that get_modframe_string adds.                       *)

\* The complement of a word, byte by byte.
LEMMA ComplementWord ==
  ASSUME NEW fcs \in Word
  PROVE  /\ (65535 - fcs) % 256 = 255 - Low(fcs)
         /\ (65535 - fcs) \div 256 = 255 - High(fcs)
         /\ 255 - Low(fcs) \in Byte /\ 255 - High(fcs) \in Byte
  <1>1. fcs \in Int /\ 0 <= fcs /\ fcs <= 65535
    BY OfWord
  <1>2. PICK h \in Int, l \in Int :
          /\ h = High(fcs) /\ 0 <= h /\ h <= 255
          /\ l = Low(fcs) /\ 0 <= l /\ l <= 255 /\ fcs = 256 * h + l
    BY ONLY <1>1 DEF High, Low
  <1>3. (65535 - fcs) % 256 = 255 - l /\ (65535 - fcs) \div 256 = 255 - h
    BY ONLY <1>2
  <1>4. 255 - l \in Byte /\ 255 - h \in Byte
    BY ONLY <1>2, ByteBounds
  <1> QED
    BY <1>2, <1>3, <1>4

\* After the complement of its low byte the high byte of the sum is alone,
LEMMA LowByteTaken ==
  ASSUME NEW fcs \in Word
  PROVE  NextFcs[fcs][255 - Low(fcs)] = Join(15, ByteXor[High(fcs)][120])
  <1>1. High(fcs) \in Byte /\ Low(fcs) \in Byte /\ 255 - Low(fcs) \in Byte
    BY WordBytes, ComplementWord
  <1>2. ByteXor[Low(fcs)][255 - Low(fcs)] = 255
    BY <1>1, XorInverse
  <1>3. NextFcs[fcs][255 - Low(fcs)] = Xor[High(fcs)][3960]
    BY <1>1, <1>2, NextWord, Table255
  <1>4. 3960 \in Word /\ High(3960) = 15 /\ Low(3960) = 120
    BY InWord DEF High, Low
  <1>5. High(fcs) \in Word
    BY <1>1, ByteIsNat
  <1>6. High(High(fcs)) = 0 /\ Low(High(fcs)) = High(fcs)
    <2>1. PICK h \in Int : h = High(fcs) /\ 0 <= h /\ h <= 255
      BY <1>1, ByteBounds
    <2>2. h \div 256 = 0 /\ h % 256 = h
      BY ONLY <2>1
    <2>3. High(h) = 0 /\ Low(h) = h
      BY ONLY <2>2 DEF High, Low
    <2> QED
      BY <2>1, <2>3
  <1>7. ByteXor[0][15] = 15
    BY SMT DEF ByteXor, Bit
  <1>8. Xor[High(fcs)][3960] =
          Join(ByteXor[High(High(fcs))][High(3960)],
               ByteXor[Low(High(fcs))][Low(3960)])
    BY <1>4, <1>5, XorWord
  <1> QED
    BY <1>3, <1>4, <1>6, <1>7, <1>8

\* and after the complement of that byte the sum is the good one.
LEMMA HighByteTaken ==
  ASSUME NEW h \in Byte
  PROVE  NextFcs[Join(15, ByteXor[h][120])][255 - h] = PPPGOODFCS
  <1>0. 15 \in Byte /\ 120 \in Byte /\ 255 - 120 = 135
    BY ByteBounds
  <1>1. PICK x \in Byte : x = ByteXor[h][120]
    BY <1>0, XorBits
  <1>2. PICK fcs \in Word : fcs = Join(15, x) /\ High(fcs) = 15 /\ Low(fcs) = x
    BY <1>0, <1>1, BytesWord
  <1>3. 255 - h \in Byte
    BY ComplementBits
  <1>4. ByteXor[x][255 - h] = 135
    BY <1>0, <1>1, XorComplement
  <1>5. NextFcs[fcs][255 - h] = Xor[15][61623]
    BY <1>2, <1>3, <1>4, NextWord, Table135
  <1>6. 61623 \in Word /\ High(61623) = 240 /\ Low(61623) = 183
    BY InWord DEF High, Low
  <1>7. 15 \in Word /\ High(15) = 0 /\ Low(15) = 15
    BY InWord DEF High, Low
  <1>8. ByteXor[0][240] = 240 /\ ByteXor[15][183] = 184
    BY SMT DEF ByteXor, Bit
  <1>9. Xor[15][61623] = Join(ByteXor[High(15)][High(61623)],
                              ByteXor[Low(15)][Low(61623)])
    BY <1>6, <1>7, XorWord
  <1>10. Xor[15][61623] = 256 * 240 + 184
    BY <1>6, <1>7, <1>8, <1>9 DEF Join
  <1> QED
    BY ONLY <1>1, <1>2, <1>5, <1>10 DEF PPPGOODFCS

\* What is written and what is read: a message with its check sequence is a
\* sequence of bytes, two longer.
Complement(byte) == 255 - byte

LEMMA FrameType ==
  ASSUME NEW message \in Seq(Byte)
  PROVE  \E fcs \in Word, a \in Byte, b \in Byte :
           /\ fcs = pppfcs(PPPINITFCS, message)
           /\ a = Complement(Low(fcs)) /\ b = Complement(High(fcs))
           /\ get_modframe_string(message) = message \o <<a, b>>
  <1>1. PPPINITFCS \in Word
    BY InWord DEF PPPINITFCS
  <1>2. PICK fcs \in Word : fcs = pppfcs(PPPINITFCS, message)
    BY <1>1, SumWord
  <1>3. /\ (65535 - fcs) % 256 = Complement(Low(fcs))
        /\ (65535 - fcs) \div 256 = Complement(High(fcs))
        /\ Complement(Low(fcs)) \in Byte /\ Complement(High(fcs)) \in Byte
    BY ComplementWord DEF Complement
  <1>4. get_modframe_string(message)
          = message \o <<Complement(Low(fcs)), Complement(High(fcs))>>
    BY <1>2, <1>3 DEF get_modframe_string, PPPINITFCS
  <1>5. Complement(Low(fcs)) \in Byte /\ Complement(High(fcs)) \in Byte
    BY ONLY <1>3
  <1> QED
    BY <1>2, <1>4, <1>5, Zenon

\* Whatever the message, its check sequence is the one that the reader
\* accepts.
THEOREM SumFits ==
  ASSUME NEW message \in Seq(Byte)
  PROVE  pppfcs(PPPINITFCS, get_modframe_string(message)) = PPPGOODFCS
  <1>1. PICK fcs \in Word, a \in Byte, b \in Byte :
           /\ fcs = pppfcs(PPPINITFCS, message)
           /\ a = Complement(Low(fcs)) /\ b = Complement(High(fcs))
           /\ get_modframe_string(message) = message \o <<a, b>>
    BY FrameType, Zenon
  <1>2. PICK more : more = Append(message, a)
    OBVIOUS
  <1>3. more \in Seq(Byte)
    BY <1>1, <1>2, AppendProperties, Zenon
  <1>4. get_modframe_string(message) = Append(more, b)
    BY <1>1, <1>2
  <1>5. PPPINITFCS \in Word
    BY InWord DEF PPPINITFCS
  <1>6. pppfcs(PPPINITFCS, more) = NextFcs[fcs][a]
    BY <1>1, <1>2, <1>5, SumAppend
  <1>7. pppfcs(PPPINITFCS, Append(more, b))
          = NextFcs[pppfcs(PPPINITFCS, more)][b]
    BY <1>1, <1>3, <1>5, SumAppend, Zenon
  <1>8. NextFcs[fcs][Complement(Low(fcs))] = Join(15, ByteXor[High(fcs)][120])
    BY <1>1, LowByteTaken DEF Complement
  <1>9. High(fcs) \in Byte
    BY <1>1, WordBytes, Zenon
  <1>10. NextFcs[Join(15, ByteXor[High(fcs)][120])][Complement(High(fcs))]
           = PPPGOODFCS
    BY <1>9, HighByteTaken DEF Complement
  <1>11. /\ a = Complement(Low(fcs)) /\ b = Complement(High(fcs))
    BY <1>1, Zenon
  <1>12. NextFcs[NextFcs[fcs][a]][b] = PPPGOODFCS
    BY ONLY <1>8, <1>10, <1>11
  <1> QED
    BY ONLY <1>4, <1>6, <1>7, <1>12

-----------------------------------------------------------------------------
(* The escaping.                                                           *)

\* What FlattenSeq computes with, in one equation.
Flattens(f, s, n) ==
  f = [i \in 1..n |-> IF i = 1 THEN s[i] ELSE f[i - 1] \o s[i]]

\* A table of the first concatenations can always be made longer.
LEMMA FlattenLonger ==
  ASSUME NEW s, NEW n \in Nat, n > 1, NEW g, Flattens(g, s, n - 1)
  PROVE  \E f : Flattens(f, s, n)
  <1> DEFINE f == [i \in 1..n |-> IF i < n THEN g[i] ELSE g[n - 1] \o s[n]]
  <1>1. g = [i \in 1..n - 1 |-> IF i = 1 THEN s[i] ELSE g[i - 1] \o s[i]]
    BY DEF Flattens
  <1>2. ASSUME NEW i \in 1..n
        PROVE  f[i] = IF i = 1 THEN s[i] ELSE f[i - 1] \o s[i]
    <2>1. CASE i < n
      <3>1. i \in 1..n - 1 /\ f[i] = g[i]
        BY <2>1
      <3>2. g[i] = IF i = 1 THEN s[i] ELSE g[i - 1] \o s[i]
        BY <1>1, <3>1
      <3>3. i # 1 => f[i - 1] = g[i - 1]
        BY <2>1
      <3> QED
        BY <3>1, <3>2, <3>3
    <2>2. CASE i = n
      <3> DEFINE e == g[n - 1] \o s[n]
      <3>0. \A k \in 1..n : f[k] = IF k < n THEN g[k] ELSE e
        OBVIOUS
      <3> HIDE DEF e, f
      <3>1. f[n] = e /\ f[n - 1] = g[n - 1]
        BY <3>0
      <3>2. e = f[i - 1] \o s[i]
        BY <2>2, <3>1 DEF e
      <3>3. i # 1
        BY <2>2
      <3>4. f[i] = e
        BY <2>2, <3>1, Zenon
      <3> QED
        BY <3>2, <3>3, <3>4, Zenon
    <2> QED
      BY <2>1, <2>2
  <1>3. f = [i \in 1..n |-> IF i = 1 THEN s[i] ELSE f[i - 1] \o s[i]]
    <2> DEFINE h == [i \in 1..n |-> IF i = 1 THEN s[i] ELSE f[i - 1] \o s[i]]
    <2>1. f = [i \in 1..n |-> f[i]] /\ h = [i \in 1..n |-> h[i]]
      OBVIOUS
    <2>2. \A i \in 1..n : f[i] = h[i]
      BY <1>2
    <2> HIDE DEF f, h
    <2>3. f = h
      BY <2>1, <2>2
    <2> QED
      BY <2>3 DEF h
  <1> HIDE DEF f
  <1> QED
    BY <1>3 DEF Flattens

LEMMA FlattenExists ==
  ASSUME NEW s, NEW n \in Nat, n > 0
  PROVE  \E f : Flattens(f, s, n)
  <1> DEFINE Bad == {k \in Nat : k > 0 /\ ~ \E f : Flattens(f, s, k)}
  <1> SUFFICES ASSUME Bad # {} PROVE FALSE
    OBVIOUS
  <1>1. PICK k \in Bad : \A j \in Bad : k <= j
    <2> HIDE DEF Bad
    <2>1. Bad \subseteq Nat
      BY DEF Bad
    <2> QED
      BY <2>1, LeastMember
  <1>2. CASE k = 1
    <2>1. Flattens([i \in 1..1 |-> s[i]], s, 1)
      BY DEF Flattens
    <2> QED
      BY <1>1, <1>2, <2>1
  <1>3. CASE k # 1
    <2>1. k \in Nat /\ k > 1 /\ k - 1 \in Nat /\ k - 1 > 0 /\ k - 1 \notin Bad
      BY <1>1, <1>3
    <2>2. PICK g : Flattens(g, s, k - 1)
      BY <2>1
    <2>3. \E f : Flattens(f, s, k)
      BY <2>1, <2>2, FlattenLonger
    <2> QED
      BY <1>1, <2>3
  <1> QED
    BY <1>2, <1>3

\* So FlattenSeq is the last entry of the table.
LEMMA FlattenIsLast ==
  ASSUME NEW s, Len(s) \in Nat, Len(s) > 0
  PROVE  \E f : Flattens(f, s, Len(s)) /\ FlattenSeq(s) = f[Len(s)]
  <1> DEFINE n == Len(s)
             Table(f) == f = [i \in 1..n |-> IF i = 1 THEN s[i]
                                             ELSE f[i - 1] \o s[i]]
             g == CHOOSE f : Table(f)
  <1>1. \E f : Table(f)
    BY FlattenExists, Zenon DEF Flattens
  <1>2. Table(g)
    BY <1>1, Zenon
  <1>3. FlattenSeq(s) = g[n]
    BY DEF FlattenSeq
  <1>4. Flattens(g, s, n)
    BY <1>2, Zenon DEF Flattens
  <1> QED
    BY <1>3, <1>4, Zenon

LEMMA PlainType ==
  ASSUME NEW message \in Seq(Byte)
  PROVE  /\ get_modframe_string(message) \in Seq(Byte)
         /\ Len(get_modframe_string(message)) = Len(message) + 2
         /\ \A i \in 1 .. Len(message) :
              get_modframe_string(message)[i] = message[i]
  <1>1. PICK a \in Byte, b \in Byte :
          get_modframe_string(message) = message \o <<a, b>>
    BY FrameType, Zenon
  <1>2. <<a, b>> \in Seq(Byte) /\ Len(<<a, b>>) = 2
    BY <1>1
  <1>3. /\ message \o <<a, b>> \in Seq(Byte)
        /\ Len(message \o <<a, b>>) = Len(message) + 2
        /\ \A i \in 1 .. Len(message) : (message \o <<a, b>>)[i] = message[i]
    BY <1>2, ConcatProperties
  <1> QED
    BY <1>1, <1>3, Zenon

\* The bytes of a frame that stand for one byte of it.
LEMMA HdlcByteType ==
  ASSUME NEW b \in Byte
  PROVE  /\ HdlcByte(b) \in Seq(Byte) /\ Len(HdlcByte(b)) \in Nat
         /\ Len(HdlcByte(b)) >= 1
         /\ b = FLAG => HdlcByte(b) = <<ESCAPE, ESCAPED_FLAG>>
         /\ b = ESCAPE => HdlcByte(b) = <<ESCAPE, ESCAPED_ESCAPE>>
         /\ b \notin {FLAG, ESCAPE} => HdlcByte(b) = <<b>>
  <1>1. FLAG # ESCAPE
    BY DEF FLAG, ESCAPE
  <1>2. ESCAPE \in Byte /\ ESCAPED_FLAG \in Byte /\ ESCAPED_ESCAPE \in Byte
    BY DEF ESCAPE, ESCAPED_FLAG, ESCAPED_ESCAPE, Byte
  <1>3. /\ <<ESCAPE, ESCAPED_FLAG>> \in Seq(Byte)
        /\ <<ESCAPE, ESCAPED_ESCAPE>> \in Seq(Byte)
        /\ <<b>> \in Seq(Byte)
    BY <1>2
  <1>4. ASSUME NEW s \in {<<ESCAPE, ESCAPED_FLAG>>,
                             <<ESCAPE, ESCAPED_ESCAPE>>, <<b>>}
        PROVE  s \in Seq(Byte) /\ Len(s) \in Nat /\ Len(s) >= 1
    <2>1. /\ Len(<<ESCAPE, ESCAPED_FLAG>>) = 2
          /\ Len(<<ESCAPE, ESCAPED_ESCAPE>>) = 2
          /\ Len(<<b>>) = 1
      OBVIOUS
    <2>2. Len(s) = 1 \/ Len(s) = 2
      BY <2>1, Zenon
    <2>3. s \in Seq(Byte)
      BY <1>3, Zenon
    <2>4. Len(s) \in Nat /\ Len(s) >= 1
      BY ONLY <2>2
    <2> QED
      BY <2>3, <2>4, Zenon
  <1>5. /\ b = FLAG => HdlcByte(b) = <<ESCAPE, ESCAPED_FLAG>>
        /\ b = ESCAPE => HdlcByte(b) = <<ESCAPE, ESCAPED_ESCAPE>>
        /\ b \notin {FLAG, ESCAPE} => HdlcByte(b) = <<b>>
    BY <1>1, Zenon DEF HdlcByte
  <1>6. HdlcByte(b) \in {<<ESCAPE, ESCAPED_FLAG>>,
                         <<ESCAPE, ESCAPED_ESCAPE>>, <<b>>}
    BY <1>5, Zenon
  <1> QED
    BY <1>4, <1>5, <1>6, Zenon

\* What stands in a frame for the first k bytes of it, in a table of which
\* each entry is longer than the last.
Escapes(f, plain) ==
  /\ f[0] = <<>>
  /\ \A k \in 0 .. Len(plain) : f[k] \in Seq(Byte) /\ Len(f[k]) >= k
  /\ \A k \in 1 .. Len(plain) : f[k] = f[k - 1] \o HdlcByte(plain[k])

LEMMA EscapesExists ==
  ASSUME NEW message \in Seq(Byte),
         NEW plain, plain = get_modframe_string(message),
         plain \in Seq(Byte), Len(plain) > 0
  PROVE  \E f : /\ Escapes(f, plain)
                /\ HdlcFrame(message) = <<FLAG>> \o f[Len(plain)] \o <<FLAG>>
  <1> DEFINE n == Len(plain)
             escaped == [i \in DOMAIN plain |-> HdlcByte(plain[i])]
  <1>1. n \in Nat /\ n > 0 /\ DOMAIN plain = 1 .. n
    OBVIOUS
  <1>2. Len(escaped) = n
    BY <1>1
  <1>3. \A i \in 1 .. n : escaped[i] = HdlcByte(plain[i])
    BY <1>1
  <1>4. HdlcFrame(message) = <<FLAG>> \o FlattenSeq(escaped) \o <<FLAG>>
    BY Zenon DEF HdlcFrame
  <1> HIDE DEF escaped
  <1>5. PICK g : Flattens(g, escaped, n) /\ FlattenSeq(escaped) = g[n]
    BY <1>1, <1>2, FlattenIsLast
  <1> DEFINE f == [k \in 0 .. n |-> IF k = 0 THEN <<>> ELSE g[k]]
  <1>6. g = [i \in 1 .. n |-> IF i = 1 THEN escaped[i]
                              ELSE g[i - 1] \o escaped[i]]
    BY <1>5, Zenon DEF Flattens
  <1>7. \A i \in 1 .. n : plain[i] \in Byte
    OBVIOUS
  <1>8. f[0] = <<>> /\ f[n] = g[n] /\ \A k \in 1 .. n : f[k] = g[k]
    BY <1>1
  <1> HIDE DEF f, n
  <1>9. \A k \in 1 .. n : f[k] = f[k - 1] \o HdlcByte(plain[k])
    <2> TAKE k \in 1 .. n
    <2>1. g[k] = IF k = 1 THEN escaped[k] ELSE g[k - 1] \o escaped[k]
      BY <1>6
    <2>2. HdlcByte(plain[k]) \in Seq(Byte)
      BY <1>7, HdlcByteType
    <2>3. CASE k = 1
      <3>1. f[k - 1] = <<>>
        BY <1>8, <2>3
      <3>2. <<>> \o HdlcByte(plain[k]) = HdlcByte(plain[k])
        BY <2>2, ConcatEmptySeq
      <3> QED
        BY <1>3, <1>8, <2>1, <2>3, <3>1, <3>2
    <2>4. CASE k # 1
      <3>1. k - 1 \in 1 .. n
        BY <1>1, <2>4
      <3>2. f[k - 1] = g[k - 1] /\ f[k] = g[k]
        BY <1>8, <3>1
      <3> QED
        BY <1>3, <2>1, <2>4, <3>2
    <2> QED
      BY <2>3, <2>4
  <1>10. \A k \in 0 .. n : f[k] \in Seq(Byte) /\ Len(f[k]) >= k
    <2> DEFINE Bad == {k \in 0 .. n : ~ (f[k] \in Seq(Byte) /\ Len(f[k]) >= k)}
    <2> SUFFICES ASSUME Bad # {} PROVE FALSE
      OBVIOUS
    <2>1. PICK k \in Bad : \A j \in Bad : k <= j
      <3>1. Bad \subseteq Nat
        BY <1>1
      <3> HIDE DEF Bad
      <3> QED
        BY <3>1, LeastMember
    <2>2. CASE k = 0
      <3>1. <<>> \in Seq(Byte) /\ Len(<<>>) >= 0
        OBVIOUS
      <3> QED
        BY <1>8, <2>1, <2>2, <3>1, Zenon
    <2>3. CASE k # 0
      <3>1. k \in 1 .. n /\ k - 1 \in 0 .. n /\ k - 1 \notin Bad
        BY <1>1, <2>1, <2>3
      <3>2. f[k - 1] \in Seq(Byte) /\ Len(f[k - 1]) >= k - 1
        BY <3>1
      <3>3. HdlcByte(plain[k]) \in Seq(Byte) /\ Len(HdlcByte(plain[k])) >= 1
        BY <1>7, <3>1, HdlcByteType
      <3>4. f[k] = f[k - 1] \o HdlcByte(plain[k])
        BY <1>9, <3>1
      <3>5. /\ f[k] \in Seq(Byte)
            /\ Len(f[k]) = Len(f[k - 1]) + Len(HdlcByte(plain[k]))
        BY <3>2, <3>3, <3>4, ConcatProperties
      <3>6. Len(f[k - 1]) \in Nat /\ Len(HdlcByte(plain[k])) \in Nat
        BY <3>2, <3>3
      <3>7. Len(f[k]) >= k
        <4>1. PICK a \in Nat, c \in Nat :
                a = Len(f[k - 1]) /\ c = Len(HdlcByte(plain[k]))
          BY <3>6
        <4>2. a >= k - 1 /\ c >= 1
          BY <3>2, <3>3, <4>1, Zenon
        <4>3. Len(f[k]) = a + c
          BY <3>5, <4>1, Zenon
        <4>4. k \in Nat
          BY <1>1, <3>1
        <4> QED
          BY ONLY a \in Nat, c \in Nat, <4>2, <4>3, <4>4
      <3> QED
        BY <2>1, <3>5, <3>7
    <2> QED
      BY <2>2, <2>3
  <1>11. Escapes(f, plain)
    BY <1>8, <1>9, <1>10, Zenon DEF Escapes, n
  <1>12. HdlcFrame(message) = <<FLAG>> \o f[n] \o <<FLAG>>
    BY <1>4, <1>5, <1>8
  <1> QED
    BY <1>11, <1>12, Zenon DEF n

\* One turn of the loop, for a byte that is no escape character.
LEMMA TurnEscapes ==
  ASSUME NEW d \in Seq(Byte), NEW b \in Byte, b # ESCAPE, NEW r \in Seq(Byte)
  PROVE  EscapeTurn([data |-> d \o (<<b>> \o r), i |-> Len(d) + 1])
           = [data |-> (d \o HdlcByte(b)) \o r,
              i |-> Len(d \o HdlcByte(b)) + 1]
  <1> DEFINE i == Len(d) + 1
             data == d \o (<<b>> \o r)
             at == [data |-> data, i |-> i]
  <1>1. <<b>> \o r \in Seq(Byte) /\ Len(<<b>> \o r) = Len(r) + 1
    OBVIOUS
  <1>2. Len(d) \in Nat /\ Len(r) \in Nat /\ i \in Nat
    OBVIOUS
  <1>3. /\ data \in Seq(Byte) /\ Len(data) = Len(d) + Len(r) + 1
        /\ data[i] = b
    OBVIOUS
  <1>4. i <= Len(data) /\ ~ (i > Len(data))
    BY <1>2, <1>3
  <1>5. at.data = data /\ at.i = i
    OBVIOUS
  <1>6. CASE b = FLAG
    <2>1. HdlcByte(b) = <<ESCAPE, ESCAPED_FLAG>>
      BY <1>6, HdlcByteType
    <2> HIDE DEF data, i
    <2>2. EscapeTurn(at) = [data |-> FlagEscaped(data, i), i |-> i + 2]
      BY <1>3, <1>4, <1>5, <1>6 DEF EscapeTurn
    <2>3. SubSeq(data, 1, i - 1) = d
      BY <1>2, <1>3 DEF data, i
    <2>4. SubSeq(data, i + 1, Len(data)) = r
      BY <1>2, <1>3 DEF data, i
    <2>5. FlagEscaped(data, i) = d \o HdlcByte(b) \o r
      BY <1>6, <2>3, <2>4 DEF FlagEscaped
    <2>6. Len(d \o HdlcByte(b)) + 1 = i + 2
      BY <1>2, <2>1 DEF i, ESCAPE, ESCAPED_FLAG
    <2> QED
      BY <2>2, <2>5, <2>6 DEF data, i
  <1>7. CASE b # FLAG
    <2>1. HdlcByte(b) = <<b>>
      BY <1>7, HdlcByteType
    <2> HIDE DEF data, i
    <2>2. EscapeTurn(at) = [at EXCEPT !.i = @ + 1]
      BY <1>3, <1>4, <1>5, <1>7 DEF EscapeTurn
    <2>3. [at EXCEPT !.i = @ + 1] = [data |-> data, i |-> i + 1]
      OBVIOUS
    <2>4. data = (d \o <<b>>) \o r
      BY <1>1, ConcatAssociative DEF data
    <2>5. Len(d \o <<b>>) + 1 = i + 1
      BY <1>2 DEF i
    <2> QED
      BY <2>1, <2>2, <2>3, <2>4, <2>5 DEF data, i
  <1> QED
    BY <1>6, <1>7

\* The table that EscapedData computes with.
Turns(t, plain) ==
  t = [k \in 0 .. Len(plain) |->
         IF k = 0 THEN [data |-> plain, i |-> 1] ELSE EscapeTurn(t[k - 1])]

LEMMA TurnsEntry ==
  ASSUME NEW plain, Len(plain) \in Nat, NEW t, Turns(t, plain)
  PROVE  /\ t[0] = [data |-> plain, i |-> 1]
         /\ \A k \in 1 .. Len(plain) : t[k] = EscapeTurn(t[k - 1])
  BY DEF Turns

\* A request without an escape character becomes the bytes of its frame.
LEMMA EscapedDataIs ==
  ASSUME NEW plain \in Seq(Byte), Len(plain) > 0,
         ESCAPE \notin Range(plain), NEW f, Escapes(f, plain)
  PROVE  EscapedData(plain) = f[Len(plain)]
  <1> DEFINE n == Len(plain)
             rest(k) == SubSeq(plain, k + 1, n)
             at(k) == [data |-> f[k] \o rest(k), i |-> Len(f[k]) + 1]
  <1>1. n \in Nat /\ n > 0 /\ DOMAIN plain = 1 .. n
    OBVIOUS
  <1>2. \A k \in 1 .. n : plain[k] \in Byte /\ plain[k] # ESCAPE
    BY <1>1 DEF Range
  <1>3. /\ f[0] = <<>>
        /\ \A k \in 0 .. n : f[k] \in Seq(Byte)
        /\ \A k \in 1 .. n : f[k] = f[k - 1] \o HdlcByte(plain[k])
    BY DEF Escapes
  <1>4. \A k \in 0 .. n : rest(k) \in Seq(Byte)
    BY <1>1
  <1>5. ASSUME NEW k \in 1 .. n
        PROVE  rest(k - 1) = <<plain[k]>> \o rest(k)
    <2>1. k - 1 + 1 = k /\ n \in k .. n /\ k \in 1 .. n
      BY <1>1
    <2>2. SubSeq(plain, k, n) = <<plain[k]>> \o SubSeq(plain, k + 1, n)
      BY <2>1, SubSeqRecursiveFirst
    <2> QED
      BY <2>1, <2>2
  <1>6. at(0) = [data |-> plain, i |-> 1]
    <2>1. rest(0) = plain
      BY SubSeqFull
    <2>2. f[0] \o plain = plain /\ Len(f[0]) + 1 = 1
      BY <1>3, ConcatEmptySeq
    <2> QED
      BY <2>1, <2>2
  <1>7. at(n).data = f[n]
    <2>1. rest(n) = <<>>
      BY <1>1, SubSeqEmpty
    <2>2. f[n] \in Seq(Byte)
      BY <1>1, <1>3
    <2>3. f[n] \o <<>> = f[n]
      BY <2>2, ConcatEmptySeq
    <2> QED
      BY <2>1, <2>3
  <1> HIDE DEF rest
  <1>8. ASSUME NEW k \in 1 .. n
        PROVE  EscapeTurn(at(k - 1)) = at(k)
    <2>1. /\ k - 1 \in 0 .. n /\ k \in 0 .. n
      BY <1>1
    <2>2. PICK d \in Seq(Byte), b \in Byte, r \in Seq(Byte) :
            d = f[k - 1] /\ b = plain[k] /\ r = rest(k)
      BY <1>2, <1>3, <1>4, <2>1
    <2>3. b # ESCAPE
      BY <1>2, <2>2
    <2>4. at(k - 1) = [data |-> d \o (<<b>> \o r), i |-> Len(d) + 1]
      BY <1>5, <2>2
    <2>5. at(k) = [data |-> (d \o HdlcByte(b)) \o r,
                   i |-> Len(d \o HdlcByte(b)) + 1]
      BY <1>3, <2>2
    <2>6. EscapeTurn([data |-> d \o (<<b>> \o r), i |-> Len(d) + 1])
            = [data |-> (d \o HdlcByte(b)) \o r,
               i |-> Len(d \o HdlcByte(b)) + 1]
      BY <2>3, TurnEscapes, Zenon
    <2> QED
      BY <2>4, <2>5, <2>6, Zenon
  <1> HIDE DEF at, n
  <1>9. \E t : Turns(t, plain)
    <2> DEFINE t == [k \in 0 .. n |-> at(k)]
               u == [k \in 0 .. n |->
                       IF k = 0 THEN [data |-> plain, i |-> 1]
                       ELSE EscapeTurn(t[k - 1])]
    <2>1. t = [k \in 0 .. n |-> t[k]] /\ u = [k \in 0 .. n |-> u[k]]
      OBVIOUS
    <2>2. \A k \in 0 .. n : t[k] = at(k)
      OBVIOUS
    <2>3. \A k \in 0 .. n : u[k] = IF k = 0 THEN [data |-> plain, i |-> 1]
                                   ELSE EscapeTurn(t[k - 1])
      OBVIOUS
    <2> HIDE DEF t, u
    <2>4. ASSUME NEW k \in 0 .. n PROVE t[k] = u[k]
      <3>1. CASE k = 0
        BY <1>6, <2>2, <2>3, <3>1
      <3>2. CASE k # 0
        <4>1. k \in 1 .. n /\ k - 1 \in 0 .. n
          BY <1>1, <3>2
        <4>2. t[k - 1] = at(k - 1) /\ t[k] = at(k)
          BY <2>2, <4>1
        <4>3. u[k] = EscapeTurn(t[k - 1])
          BY <2>3, <3>2
        <4>4. EscapeTurn(at(k - 1)) = at(k)
          BY <1>8, <4>1, Zenon
        <4> QED
          BY <4>2, <4>3, <4>4, Zenon
      <3> QED
        BY <3>1, <3>2
    <2>5. t = u
      BY <2>1, <2>4, Zenon
    <2>6. Turns(t, plain)
      BY <2>5, Zenon DEF Turns, u, n
    <2> QED
      BY <2>6, Zenon
  <1>10. ASSUME NEW t, Turns(t, plain) PROVE t[n] = at(n)
    <2> DEFINE Bad == {k \in 0 .. n : t[k] # at(k)}
    <2> SUFFICES ASSUME Bad # {} PROVE FALSE
      BY <1>1
    <2>1. PICK k \in Bad : \A j \in Bad : k <= j
      <3>1. Bad \subseteq Nat
        BY <1>1
      <3> HIDE DEF Bad
      <3> QED
        BY <3>1, LeastMember
    <2>2. /\ t[0] = [data |-> plain, i |-> 1]
          /\ \A j \in 1 .. n : t[j] = EscapeTurn(t[j - 1])
      BY <1>1, <1>10, TurnsEntry, Zenon DEF n
    <2>3. CASE k = 0
      BY <1>6, <2>1, <2>2, <2>3
    <2>4. CASE k # 0
      <3>1. k \in 1 .. n /\ k - 1 \in 0 .. n /\ k - 1 \notin Bad
        BY <1>1, <2>1, <2>4
      <3>2. t[k - 1] = at(k - 1)
        BY <3>1
      <3>3. t[k] = EscapeTurn(t[k - 1])
        BY <2>2, <3>1
      <3>4. EscapeTurn(at(k - 1)) = at(k)
        BY <1>8, <3>1, Zenon
      <3>5. t[k] = at(k)
        BY <3>2, <3>3, <3>4, Zenon
      <3> QED
        BY <2>1, <3>5
    <2> QED
      BY <2>3, <2>4
  <1> DEFINE Table(t) == t = [k \in 0 .. Len(plain) |->
                                IF k = 0 THEN [data |-> plain, i |-> 1]
                                ELSE EscapeTurn(t[k - 1])]
             g == CHOOSE t : Table(t)
  <1>11. \E t : Table(t)
    BY <1>9, Zenon DEF Turns
  <1>12. Table(g)
    BY <1>11, Zenon
  <1>13. EscapedData(plain) = g[n].data
    BY Zenon DEF EscapedData, n
  <1>14. Turns(g, plain)
    BY <1>12, Zenon DEF Turns
  <1>15. g[n] = at(n)
    BY <1>10, <1>14, Zenon
  <1> QED
    BY <1>7, <1>13, <1>15, Zenon DEF n

\* What fcs_hdlc makes is the frame as far as the request is long.
LEMMA HdlcBegins ==
  ASSUME NEW message \in Seq(Byte),
         ESCAPE \notin Range(get_modframe_string(message))
  PROVE  IsPrefix(fcs_hdlc(message), HdlcFrame(message))
  <1> DEFINE plain == get_modframe_string(message)
             n == Len(plain)
             whole == HdlcFrame(message)
  <1>1. plain \in Seq(Byte) /\ n = Len(message) + 2
    BY PlainType
  <1> HIDE DEF plain
  <1>2. n \in Nat /\ n > 0
    BY <1>1
  <1>3. PICK f : Escapes(f, plain) /\ whole = <<FLAG>> \o f[n] \o <<FLAG>>
    BY <1>1, <1>2, EscapesExists DEF plain
  <1>4. f[n] \in Seq(Byte) /\ Len(f[n]) >= n
    BY <1>2, <1>3 DEF Escapes
  <1>5. EscapedData(plain) = f[n]
    BY <1>1, <1>2, <1>3, EscapedDataIs DEF plain
  <1>6. fcs_hdlc(message) = SubSeq(whole, 1, n + 2)
    BY <1>3, <1>5 DEF fcs_hdlc, plain
  <1>7. whole \in Seq(Byte) /\ Len(whole) = Len(f[n]) + 2
    <2>1. FLAG \in Byte
      BY DEF FLAG, Byte
    <2> QED
      BY <1>3, <1>4, <2>1
  <1> HIDE DEF whole, n
  <1>8. n + 2 <= Len(whole) /\ Len(whole) \in Nat
    BY <1>2, <1>4, <1>7
  <1>9. PICK s : s = SubSeq(whole, 1, n + 2)
    OBVIOUS
  <1>10. s \in Seq(Byte) /\ Len(s) = n + 2
    BY <1>2, <1>7, <1>8, <1>9
  <1>11. SubSeq(s, 1, n + 2) = s
    BY <1>10, SubSeqFull
  <1>12. IsPrefix(s, whole)
    BY <1>8, <1>9, <1>10, <1>11 DEF IsPrefix
  <1> QED
    BY <1>6, <1>9, <1>12 DEF whole

-----------------------------------------------------------------------------
\* What was written is what fcs_hdlc made of the request.
SentInv == pc = "sent" => request \in Requests /\ sent = fcs_hdlc(request)

LEMMA SentInvNext == SentInv /\ [FrameNext]_framevars => SentInv'
  <1> SUFFICES ASSUME SentInv, [FrameNext]_framevars PROVE SentInv'
    OBVIOUS
  <1>1. ASSUME NEW message \in Requests, Write(message) PROVE SentInv'
    BY <1>1 DEF Write, SentInv
  <1>2. ASSUME Answering PROVE pc' = "first"
    BY <1>2 DEF Answering, Answer, NoAnswer, AnswerHit, Hit, Arrives
  <1>3. ASSUME Read PROVE pc' \in {"second", "body", "escape", "send"}
    <2> DEFINE byte == Head(wire)
    <2>1. First(byte) \/ Second(byte) \/ Body(byte) \/ Unescape(byte)
      BY <1>3 DEF Read
    <2> HIDE DEF byte
    <2>2. ASSUME First(byte) PROVE pc' = "second"
      BY <2>2 DEF First, Goes
    <2>3. ASSUME Second(byte) PROVE pc' = "body"
      BY <2>3 DEF Second, Goes
    <2>4. ASSUME Body(byte) PROVE pc' \in {"body", "escape", "send"}
      BY <2>4 DEF Body, Goes, Accept, Return
    <2>5. ASSUME Unescape(byte) PROVE pc' \in {"body", "send"}
      BY <2>5 DEF Unescape, Goes, Return
    <2> QED
      BY <2>1, <2>2, <2>3, <2>4, <2>5
  <1>4. ASSUME TimeOut PROVE pc' = "send"
    BY <1>4 DEF TimeOut, Return
  <1>5. ASSUME UNCHANGED framevars PROVE SentInv'
    BY <1>5 DEF SentInv, framevars
  <1>6. pc' # "sent" => SentInv'
    BY DEF SentInv
  <1> QED
    BY <1>1, <1>2, <1>3, <1>4, <1>5, <1>6 DEF FrameNext, Writing

\* A request without an escape character is framed right up to the length
\* that is written, whatever else is in it and however long it is.
THEOREM FlagsAlwaysEscaped == FrameSpec => []FlagsAreEscaped
  <1>1. FrameInit => SentInv
    BY DEF FrameInit, SentInv
  <1>2. SentInv => FlagsAreEscaped
    <2>1. ASSUME SentInv, pc = "sent",
                 ESCAPE \notin Range(get_modframe_string(request))
          PROVE  IsPrefix(sent, HdlcFrame(request))
      <3>1. request \in Seq(Byte) /\ sent = fcs_hdlc(request)
        BY <2>1, FrameAssumption DEF SentInv
      <3> QED
        BY <2>1, <3>1, HdlcBegins
    <2> QED
      BY <2>1 DEF FlagsAreEscaped
  <1> QED
    BY <1>1, <1>2, SentInvNext, PTL DEF FrameSpec

-----------------------------------------------------------------------------
(* Where the line is.                                                      *)

Carried(m) == get_modframe_string(m)
Special == {FLAG, ESCAPE}
Stands(b) == IF b = FLAG THEN ESCAPED_FLAG ELSE ESCAPED_ESCAPE

\* The line is between two answers, or before byte k + 1 of what an answer
\* carries, or in the middle of the two that stand for that byte; of the
\* bytes to come some are damaged.
InGap(o) == [kind |-> "between", message |-> <<>>, k |-> 0, owed |-> o]
Before(m, k, o) == [kind |-> "before", message |-> m, k |-> k, owed |-> o]
Amid(m, k, o) == [kind |-> "amid", message |-> m, k |-> k, owed |-> o]

Place(p) ==
  \/ \E o \in Nat : p = InGap(o)
  \/ \E m \in Responses, o \in Nat, k \in Nat :
       k <= Len(Carried(m)) /\ p = Before(m, k, o)
  \/ \E m \in Responses, o \in Nat, k \in Nat :
       /\ k < Len(Carried(m)) /\ Carried(m)[k + 1] \in Special
       /\ p = Amid(m, k, o)

\* A byte that was not damaged moves the line on in the answer,
Starts(p, b, q) ==
  \E m \in Responses, o \in Nat :
    p = InGap(o) /\ b = FLAG /\ q = Before(m, 0, o)

Plain(p, b, q) ==
  \E m \in Responses, o \in Nat, k \in Nat :
    /\ k < Len(Carried(m)) /\ Carried(m)[k + 1] \notin Special
    /\ p = Before(m, k, o) /\ b = Carried(m)[k + 1] /\ q = Before(m, k + 1, o)

Escape(p, b, q) ==
  \E m \in Responses, o \in Nat, k \in Nat :
    /\ k < Len(Carried(m)) /\ Carried(m)[k + 1] \in Special
    /\ p = Before(m, k, o) /\ b = ESCAPE /\ q = Amid(m, k, o)

Escaped(p, b, q) ==
  \E m \in Responses, o \in Nat, k \in Nat :
    /\ k < Len(Carried(m)) /\ Carried(m)[k + 1] \in Special
    /\ p = Amid(m, k, o) /\ b = Stands(Carried(m)[k + 1])
    /\ q = Before(m, k + 1, o)

Ends(p, b, q) ==
  \E m \in Responses, o \in Nat :
    p = Before(m, Len(Carried(m)), o) /\ b = FLAG /\ q = InGap(o)

Clean(p, b, q) ==
  \/ Starts(p, b, q) \/ Plain(p, b, q) \/ Escape(p, b, q)
  \/ Escaped(p, b, q) \/ Ends(p, b, q)

\* and one that was, anywhere.
Damaged(p, b, q) ==
  b \in Byte /\ Place(p) /\ Place(q) /\ p.owed > q.owed

Flows(p, b, q) == Clean(p, b, q) \/ Damaged(p, b, q)

\* The bytes s take the line from p to q.
Path(lab, s, p, q) ==
  /\ lab[1] = p /\ lab[Len(s) + 1] = q
  /\ \A i \in 1 .. Len(s) : Flows(lab[i], s[i], lab[i + 1])

Leads(p, s, q) ==
  s \in Seq(Byte) /\ Place(p) /\ Place(q) /\ \E lab : Path(lab, s, p, q)

LEMMA Fields ==
  /\ \A o : /\ InGap(o).kind = "between" /\ InGap(o).owed = o
  /\ \A m, k, o :
       /\ Before(m, k, o).kind = "before" /\ Before(m, k, o).message = m
       /\ Before(m, k, o).k = k /\ Before(m, k, o).owed = o
       /\ Amid(m, k, o).kind = "amid" /\ Amid(m, k, o).message = m
       /\ Amid(m, k, o).k = k /\ Amid(m, k, o).owed = o
  BY DEF InGap, Before, Amid

\* What is known of an answer.
LEMMA CarriedType ==
  ASSUME NEW m \in Responses
  PROVE  /\ m \in Seq(Byte)
         /\ Carried(m) \in Seq(Byte) /\ Len(Carried(m)) \in Nat
         /\ Len(Carried(m)) >= 3 /\ Len(Carried(m)) < MaxIndex
         /\ MaxIndex \in Nat
         /\ Carried(m)[1] \notin Special
         /\ \A k \in 1 .. Len(Carried(m)) : Carried(m)[k] \in Byte
         /\ pppfcs(PPPINITFCS, Carried(m)) = PPPGOODFCS
  <1>1. m \in Seq(Byte) /\ MaxIndex \in Nat
    BY FrameAssumption
  <1>2. /\ m # <<>> /\ Head(m) \notin Special
        /\ Len(Carried(m)) < MaxIndex
    BY ResponsesAssumption DEF Carried, Special
  <1>3. /\ Carried(m) \in Seq(Byte) /\ Len(Carried(m)) = Len(m) + 2
        /\ \A i \in 1 .. Len(m) : Carried(m)[i] = m[i]
    BY <1>1, PlainType DEF Carried
  <1>4. Len(m) \in Nat /\ Len(m) >= 1 /\ Head(m) = m[1]
    BY <1>1, <1>2
  <1>5. Carried(m)[1] = Head(m)
    BY <1>3, <1>4
  <1>6. Len(Carried(m)) \in Nat /\ Len(Carried(m)) >= 3
    BY <1>3, <1>4
  <1>7. \A k \in 1 .. Len(Carried(m)) : Carried(m)[k] \in Byte
    BY <1>3
  <1>8. pppfcs(PPPINITFCS, Carried(m)) = PPPGOODFCS
    BY <1>1, SumFits DEF Carried
  <1> QED
    BY <1>1, <1>2, <1>3, <1>5, <1>6, <1>7, <1>8, Zenon

LEMMA SpecialBytes ==
  /\ FLAG \in Byte /\ ESCAPE \in Byte
  /\ ESCAPED_FLAG \in Byte /\ ESCAPED_ESCAPE \in Byte
  /\ FLAG # ESCAPE /\ ESCAPED_FLAG # ESCAPED_ESCAPE
  /\ ESCAPED_FLAG \notin Special /\ ESCAPED_ESCAPE \notin Special
  /\ \A b : Stands(b) \in {ESCAPED_FLAG, ESCAPED_ESCAPE}
  BY DEF FLAG, ESCAPE, ESCAPED_FLAG, ESCAPED_ESCAPE, Byte, Special, Stands

\* A byte leads from a place to a place, and is a byte.
LEMMA FlowsType ==
  ASSUME NEW p, NEW b, NEW q, Flows(p, b, q)
  PROVE  Place(p) /\ Place(q) /\ b \in Byte
  <1>1. ASSUME Starts(p, b, q) PROVE Place(p) /\ Place(q) /\ b \in Byte
    <2>1. PICK m \in Responses, o \in Nat :
            p = InGap(o) /\ b = FLAG /\ q = Before(m, 0, o)
      BY <1>1 DEF Starts
    <2>2. 0 \in Nat /\ 0 <= Len(Carried(m))
      BY CarriedType
    <2> QED
      BY <2>1, <2>2, SpecialBytes, Zenon DEF Place
  <1>2. ASSUME Plain(p, b, q) PROVE Place(p) /\ Place(q) /\ b \in Byte
    <2>1. PICK m \in Responses, o \in Nat, k \in Nat :
            /\ k < Len(Carried(m)) /\ p = Before(m, k, o)
            /\ b = Carried(m)[k + 1]
            /\ q = Before(m, k + 1, o)
      BY <1>2 DEF Plain
    <2>2. /\ k <= Len(Carried(m)) /\ k + 1 <= Len(Carried(m))
          /\ k + 1 \in 1 .. Len(Carried(m)) /\ k + 1 \in Nat
      BY <2>1, CarriedType
    <2>3. b \in Byte
      BY <2>1, <2>2, CarriedType
    <2> QED
      BY <2>1, <2>2, <2>3, Zenon DEF Place
  <1>3. ASSUME Escape(p, b, q) PROVE Place(p) /\ Place(q) /\ b \in Byte
    <2>1. PICK m \in Responses, o \in Nat, k \in Nat :
            /\ k < Len(Carried(m)) /\ Carried(m)[k + 1] \in Special
            /\ p = Before(m, k, o) /\ b = ESCAPE /\ q = Amid(m, k, o)
      BY <1>3 DEF Escape
    <2>2. k <= Len(Carried(m))
      BY <2>1, CarriedType
    <2> QED
      BY <2>1, <2>2, SpecialBytes, Zenon DEF Place
  <1>4. ASSUME Escaped(p, b, q) PROVE Place(p) /\ Place(q) /\ b \in Byte
    <2>1. PICK m \in Responses, o \in Nat, k \in Nat :
            /\ k < Len(Carried(m)) /\ Carried(m)[k + 1] \in Special
            /\ p = Amid(m, k, o) /\ b = Stands(Carried(m)[k + 1])
            /\ q = Before(m, k + 1, o)
      BY <1>4 DEF Escaped
    <2>2. k + 1 <= Len(Carried(m)) /\ k + 1 \in Nat
      BY <2>1, CarriedType
    <2>3. b \in Byte
      BY <2>1, SpecialBytes
    <2> QED
      BY <2>1, <2>2, <2>3, Zenon DEF Place
  <1>5. ASSUME Ends(p, b, q) PROVE Place(p) /\ Place(q) /\ b \in Byte
    <2>1. PICK m \in Responses, o \in Nat :
            p = Before(m, Len(Carried(m)), o) /\ b = FLAG /\ q = InGap(o)
      BY <1>5 DEF Ends
    <2>2. Len(Carried(m)) \in Nat /\ Len(Carried(m)) <= Len(Carried(m))
      BY CarriedType
    <2> QED
      BY <2>1, <2>2, SpecialBytes, Zenon DEF Place
  <1> QED
    BY <1>1, <1>2, <1>3, <1>4, <1>5, Zenon DEF Flows, Clean, Damaged

-----------------------------------------------------------------------------
(* The bytes of a line one after the other.                                *)

LEMMA LeadsNowhere ==
  ASSUME NEW p
  PROVE  /\ Place(p) => Leads(p, <<>>, p)
         /\ \A q : Leads(p, <<>>, q) => q = p
  <1>1. ASSUME Place(p) PROVE Leads(p, <<>>, p)
    <2>1. Path([i \in 1 .. 1 |-> p], <<>>, p, p)
      BY DEF Path
    <2>2. <<>> \in Seq(Byte)
      OBVIOUS
    <2> QED
      BY <1>1, <2>1, <2>2, Zenon DEF Leads
  <1>2. ASSUME NEW q, Leads(p, <<>>, q) PROVE q = p
    BY <1>2 DEF Leads, Path
  <1> QED
    BY <1>1, <1>2

LEMMA LeadsOne ==
  ASSUME NEW p, NEW b, NEW q, Flows(p, b, q)
  PROVE  Leads(p, <<b>>, q)
  <1>1. Place(p) /\ Place(q) /\ b \in Byte
    BY FlowsType, Zenon
  <1> DEFINE lab == [i \in 1 .. 2 |-> IF i = 1 THEN p ELSE q]
  <1>2. lab[1] = p /\ lab[2] = q
    OBVIOUS
  <1> HIDE DEF lab
  <1>3. <<b>> \in Seq(Byte) /\ Len(<<b>>) = 1 /\ <<b>>[1] = b
    BY <1>1
  <1>4. \A i \in 1 .. 1 : i = 1
    OBVIOUS
  <1>5. Path(lab, <<b>>, p, q)
    BY <1>2, <1>3, <1>4 DEF Path
  <1> QED
    BY <1>1, <1>3, <1>5, Zenon DEF Leads

LEMMA LeadsOn ==
  ASSUME NEW p, NEW s, NEW q, NEW t, NEW r, Leads(p, s, q), Leads(q, t, r)
  PROVE  Leads(p, s \o t, r)
  <1> DEFINE n == Len(s)
             m == Len(t)
  <1>1. /\ s \in Seq(Byte) /\ Place(p) /\ t \in Seq(Byte) /\ Place(r)
    BY Zenon DEF Leads
  <1>2. PICK f : Path(f, s, p, q)
    BY Zenon DEF Leads
  <1>3. PICK g : Path(g, t, q, r)
    BY Zenon DEF Leads
  <1>4. /\ s \o t \in Seq(Byte) /\ Len(s \o t) = n + m
        /\ \A i \in 1 .. n + m :
             (s \o t)[i] = IF i <= n THEN s[i] ELSE t[i - n]
    BY <1>1, ConcatProperties
  <1>5. n \in Nat /\ m \in Nat
    BY <1>1
  <1>6. /\ f[1] = p /\ f[n + 1] = q
        /\ \A i \in 1 .. n : Flows(f[i], s[i], f[i + 1])
    BY <1>2 DEF Path
  <1>7. /\ g[1] = q /\ g[m + 1] = r
        /\ \A i \in 1 .. m : Flows(g[i], t[i], g[i + 1])
    BY <1>3 DEF Path
  <1> DEFINE lab == [i \in 1 .. n + m + 1 |->
                       IF i <= n THEN f[i] ELSE g[i - n]]
  <1>8. \A i \in 1 .. n + m + 1 : lab[i] = IF i <= n THEN f[i] ELSE g[i - n]
    OBVIOUS
  <1> DEFINE st == s \o t
  <1> HIDE DEF lab, n, m, st
  <1>9. /\ \A i \in 1 .. n : lab[i] = f[i] /\ st[i] = s[i]
        /\ \A j \in 1 .. m + 1 : lab[n + j] = g[j]
        /\ \A j \in 1 .. m : st[n + j] = t[j]
    <2>1. ASSUME NEW i \in 1 .. n PROVE lab[i] = f[i] /\ st[i] = s[i]
      <3>1. i \in 1 .. n + m + 1 /\ i \in 1 .. n + m /\ i <= n
        BY <1>5
      <3> QED
        BY <1>4, <1>8, <3>1 DEF st
    <2>2. ASSUME NEW j \in 1 .. m + 1 PROVE lab[n + j] = g[j]
      <3>1. PICK i \in 1 .. n + m + 1 : i = n + j /\ ~ (i <= n) /\ i - n = j
        BY <1>5
      <3> QED
        BY <1>8, <3>1
    <2>3. ASSUME NEW j \in 1 .. m PROVE st[n + j] = t[j]
      <3>1. PICK i \in 1 .. n + m : i = n + j /\ ~ (i <= n) /\ i - n = j
        BY <1>5
      <3> QED
        BY <1>4, <3>1 DEF st
    <2> QED
      BY <2>1, <2>2, <2>3
  <1>10. \A i \in 1 .. n + 1 : lab[i] = f[i]
    <2> TAKE i \in 1 .. n + 1
    <2>1. CASE i = n + 1
      <3>1. 1 \in 1 .. m + 1
        BY <1>5
      <3>2. lab[n + 1] = g[1]
        BY <1>9, <3>1
      <3> QED
        BY <1>6, <1>7, <2>1, <3>2
    <2>2. CASE i # n + 1
      <3>1. i \in 1 .. n
        BY <1>5, <2>2
      <3> QED
        BY <1>9, <3>1
    <2> QED
      BY <2>1, <2>2
  <1>11. lab[1] = p /\ lab[n + m + 1] = r
    <2>1. 1 \in 1 .. n + 1 /\ m + 1 \in 1 .. m + 1 /\ n + (m + 1) = n + m + 1
      BY <1>5
    <2>2. lab[1] = f[1]
      BY <1>10, <2>1, Zenon
    <2>3. lab[n + (m + 1)] = g[m + 1]
      BY <1>9, <2>1, Zenon
    <2> QED
      BY <1>6, <1>7, <2>1, <2>2, <2>3
  <1>12. ASSUME NEW i \in 1 .. n + m
         PROVE  Flows(lab[i], st[i], lab[i + 1])
    <2>1. CASE i <= n
      <3>1. i \in 1 .. n /\ i \in 1 .. n + 1 /\ i + 1 \in 1 .. n + 1
        BY <1>5, <2>1
      <3>2. lab[i] = f[i] /\ lab[i + 1] = f[i + 1] /\ st[i] = s[i]
        BY <1>9, <1>10, <3>1, Zenon
      <3>3. Flows(f[i], s[i], f[i + 1])
        BY <1>6, <3>1, Zenon
      <3> QED
        BY <3>2, <3>3, Zenon
    <2>2. CASE ~ (i <= n)
      <3>1. PICK j \in 1 .. m : i = n + j
        <4>1. i - n \in 1 .. m /\ i = n + (i - n)
          BY <1>5, <2>2
        <4> QED
          BY <4>1, Zenon
      <3>2. j \in 1 .. m + 1 /\ j + 1 \in 1 .. m + 1 /\ i + 1 = n + (j + 1)
        BY <1>5, <3>1
      <3>3. lab[i] = g[j] /\ lab[i + 1] = g[j + 1] /\ st[i] = t[j]
        BY <1>9, <3>1, <3>2, Zenon
      <3>4. Flows(g[j], t[j], g[j + 1])
        BY <1>7, Zenon
      <3> QED
        BY <3>3, <3>4, Zenon
    <2> QED
      BY <2>1, <2>2
  <1>13. Path(lab, s \o t, p, r)
    BY <1>4, <1>11, <1>12, Zenon DEF Path, st
  <1> QED
    BY <1>1, <1>4, <1>13, Zenon DEF Leads

LEMMA LeadsSplit ==
  ASSUME NEW p, NEW s, NEW q, Leads(p, s, q), NEW i \in 1 .. Len(s)
  PROVE  \E x, y : /\ Leads(p, SubSeq(s, 1, i - 1), x)
                   /\ Flows(x, s[i], y)
                   /\ Leads(y, SubSeq(s, i + 1, Len(s)), q)
  <1> DEFINE n == Len(s)
             front == SubSeq(s, 1, i - 1)
             back == SubSeq(s, i + 1, n)
  <1>1. s \in Seq(Byte) /\ Place(p) /\ Place(q)
    BY Zenon DEF Leads
  <1>2. PICK f : Path(f, s, p, q)
    BY Zenon DEF Leads
  <1>3. /\ f[1] = p /\ f[n + 1] = q
        /\ \A j \in 1 .. n : Flows(f[j], s[j], f[j + 1])
    BY <1>2 DEF Path
  <1>4. n \in Nat /\ i \in Nat /\ i >= 1 /\ i <= n
    BY <1>1
  <1>5. /\ front \in Seq(Byte) /\ Len(front) = i - 1
        /\ \A j \in 1 .. i - 1 : front[j] = s[j]
    BY <1>1, <1>4
  <1>6. /\ back \in Seq(Byte) /\ Len(back) = n - i
        /\ \A j \in 1 .. n - i : back[j] = s[i + j]
    BY <1>1, <1>4
  <1> HIDE DEF n, front, back
  <1>7. Flows(f[i], s[i], f[i + 1])
    BY <1>3, <1>4
  <1>8. Place(f[i]) /\ Place(f[i + 1])
    BY <1>7, FlowsType, Zenon
  <1>9. Leads(p, front, f[i])
    <2>1. Len(front) + 1 = i
      BY <1>4, <1>5
    <2>2. ASSUME NEW j \in 1 .. i - 1
          PROVE  Flows(f[j], front[j], f[j + 1])
      <3>1. j \in 1 .. n
        BY <1>4
      <3>2. front[j] = s[j]
        BY <1>5, Zenon
      <3>3. Flows(f[j], s[j], f[j + 1])
        BY <1>3, <3>1, Zenon
      <3> QED
        BY <3>2, <3>3, Zenon
    <2>3. f[Len(front) + 1] = f[i]
      BY <2>1
    <2>4. Path(f, front, p, f[i])
      BY <1>3, <1>5, <2>2, <2>3, Zenon DEF Path
    <2> QED
      BY <1>1, <1>5, <1>8, <2>4, Zenon DEF Leads
  <1>10. Leads(f[i + 1], back, q)
    <2> DEFINE g == [j \in 1 .. n - i + 1 |-> f[i + j]]
    <2>1. \A j \in 1 .. n - i + 1 : g[j] = f[i + j]
      OBVIOUS
    <2> HIDE DEF g
    <2>2. 1 \in 1 .. n - i + 1 /\ n - i + 1 \in 1 .. n - i + 1
      BY <1>4
    <2>3. g[1] = f[i + 1]
      BY <2>1, <2>2, Zenon
    <2>4. g[n - i + 1] = f[n + 1]
      <3>1. i + (n - i + 1) = n + 1
        BY <1>4
      <3>2. g[n - i + 1] = f[i + (n - i + 1)]
        BY <2>1, <2>2, Zenon
      <3> QED
        BY <3>1, <3>2
    <2>5. ASSUME NEW j \in 1 .. n - i
          PROVE  Flows(g[j], back[j], g[j + 1])
      <3>1. /\ j \in 1 .. n - i + 1 /\ j + 1 \in 1 .. n - i + 1
            /\ i + j \in 1 .. n
        BY <1>4
      <3>2. i + (j + 1) = (i + j) + 1
        BY <1>4
      <3>3. g[j] = f[i + j] /\ g[j + 1] = f[i + (j + 1)] /\ back[j] = s[i + j]
        BY <1>6, <2>1, <3>1, Zenon
      <3>4. g[j + 1] = f[(i + j) + 1]
        BY <3>2, <3>3
      <3>5. Flows(f[i + j], s[i + j], f[(i + j) + 1])
        BY <1>3, <3>1, Zenon
      <3> QED
        BY <3>3, <3>4, <3>5, Zenon
    <2>6. g[Len(back) + 1] = q
      BY <1>3, <1>6, <2>4
    <2>7. Path(g, back, f[i + 1], q)
      BY <1>6, <2>3, <2>5, <2>6, Zenon DEF Path
    <2> QED
      BY <1>1, <1>6, <1>8, <2>7, Zenon DEF Leads
  <1> QED
    BY <1>7, <1>9, <1>10, Zenon DEF front, back, n

\* The byte that is read next.
LEMMA LeadsFirst ==
  ASSUME NEW p, NEW s, NEW q, Leads(p, s, q), s # <<>>
  PROVE  \E x : Flows(p, Head(s), x) /\ Leads(x, Tail(s), q)
  <1>1. s \in Seq(Byte)
    BY Zenon DEF Leads
  <1>2. 1 \in 1 .. Len(s) /\ s[1] = Head(s)
    BY <1>1
  <1>3. SubSeq(s, 1, 1 - 1) = <<>> /\ SubSeq(s, 1 + 1, Len(s)) = Tail(s)
    BY <1>1
  <1>4. PICK y, x : /\ Leads(p, SubSeq(s, 1, 1 - 1), y)
                    /\ Flows(y, s[1], x)
                    /\ Leads(x, SubSeq(s, 1 + 1, Len(s)), q)
    BY <1>2, LeadsSplit
  <1>5. Leads(p, <<>>, y) /\ Flows(y, Head(s), x) /\ Leads(x, Tail(s), q)
    BY <1>2, <1>3, <1>4
  <1>6. y = p
    BY <1>5, LeadsNowhere, Zenon
  <1> QED
    BY <1>5, <1>6, Zenon

\* One more of the bytes behind is damaged.
Raised(p) == [p EXCEPT !.owed = @ + 1]

LEMMA RaisedPlaces ==
  /\ \A o : Raised(InGap(o)) = InGap(o + 1)
  /\ \A m, k, o : /\ Raised(Before(m, k, o)) = Before(m, k, o + 1)
                  /\ Raised(Amid(m, k, o)) = Amid(m, k, o + 1)
  BY DEF Raised, InGap, Before, Amid

LEMMA Places ==
  /\ \A o \in Nat : Place(InGap(o))
  /\ \A m \in Responses, o \in Nat, k \in Nat :
       /\ k <= Len(Carried(m)) => Place(Before(m, k, o))
       /\ k < Len(Carried(m)) /\ Carried(m)[k + 1] \in Special
            => Place(Amid(m, k, o))
  BY Zenon DEF Place

LEMMA PlaceRaised ==
  ASSUME NEW p, Place(p)
  PROVE  Place(Raised(p)) /\ p.owed \in Nat /\ Raised(p).owed = p.owed + 1
  <1>1. ASSUME NEW o \in Nat, p = InGap(o)
        PROVE  Place(Raised(p)) /\ p.owed \in Nat /\ Raised(p).owed = p.owed + 1
    <2>1. PICK r \in Nat : r = o + 1
      OBVIOUS
    <2>2. Raised(p) = InGap(r) /\ p.owed = o /\ Raised(p).owed = r
      BY <1>1, <2>1, RaisedPlaces, Fields
    <2> QED
      BY <2>1, <2>2, Places
  <1>2. ASSUME NEW m \in Responses, NEW o \in Nat, NEW k \in Nat,
               k <= Len(Carried(m)), p = Before(m, k, o)
        PROVE  Place(Raised(p)) /\ p.owed \in Nat /\ Raised(p).owed = p.owed + 1
    <2>1. PICK r \in Nat : r = o + 1
      OBVIOUS
    <2>2. Raised(p) = Before(m, k, r) /\ p.owed = o /\ Raised(p).owed = r
      BY <1>2, <2>1, RaisedPlaces, Fields
    <2> QED
      BY <1>2, <2>1, <2>2, Places
  <1>3. ASSUME NEW m \in Responses, NEW o \in Nat, NEW k \in Nat,
               k < Len(Carried(m)), Carried(m)[k + 1] \in Special,
               p = Amid(m, k, o)
        PROVE  Place(Raised(p)) /\ p.owed \in Nat /\ Raised(p).owed = p.owed + 1
    <2>1. PICK r \in Nat : r = o + 1
      OBVIOUS
    <2>2. Raised(p) = Amid(m, k, r) /\ p.owed = o /\ Raised(p).owed = r
      BY <1>3, <2>1, RaisedPlaces, Fields
    <2> QED
      BY <1>3, <2>1, <2>2, Places
  <1> QED
    BY <1>1, <1>2, <1>3, Zenon DEF Place

LEMMA FlowsRaised ==
  ASSUME NEW p, NEW b, NEW q, Flows(p, b, q)
  PROVE  Flows(Raised(p), b, Raised(q))
  <1>1. ASSUME Starts(p, b, q) PROVE Starts(Raised(p), b, Raised(q))
    <2>1. PICK m \in Responses, o \in Nat :
            p = InGap(o) /\ b = FLAG /\ q = Before(m, 0, o)
      BY <1>1, Zenon DEF Starts
    <2>2. PICK r \in Nat : r = o + 1
      OBVIOUS
    <2>3. Raised(p) = InGap(r) /\ Raised(q) = Before(m, 0, r)
      BY <2>1, <2>2, RaisedPlaces, Zenon
    <2> QED
      BY <2>1, <2>3, Zenon DEF Starts
  <1>2. ASSUME Plain(p, b, q) PROVE Plain(Raised(p), b, Raised(q))
    <2>1. PICK m \in Responses, o \in Nat, k \in Nat :
            /\ k < Len(Carried(m)) /\ Carried(m)[k + 1] \notin Special
            /\ p = Before(m, k, o) /\ b = Carried(m)[k + 1]
            /\ q = Before(m, k + 1, o)
      BY <1>2, Zenon DEF Plain
    <2>2. PICK r \in Nat : r = o + 1
      OBVIOUS
    <2>3. Raised(p) = Before(m, k, r) /\ Raised(q) = Before(m, k + 1, r)
      BY <2>1, <2>2, RaisedPlaces, Zenon
    <2> QED
      BY <2>1, <2>3, Zenon DEF Plain
  <1>3. ASSUME Escape(p, b, q) PROVE Escape(Raised(p), b, Raised(q))
    <2>1. PICK m \in Responses, o \in Nat, k \in Nat :
            /\ k < Len(Carried(m)) /\ Carried(m)[k + 1] \in Special
            /\ p = Before(m, k, o) /\ b = ESCAPE /\ q = Amid(m, k, o)
      BY <1>3, Zenon DEF Escape
    <2>2. PICK r \in Nat : r = o + 1
      OBVIOUS
    <2>3. Raised(p) = Before(m, k, r) /\ Raised(q) = Amid(m, k, r)
      BY <2>1, <2>2, RaisedPlaces, Zenon
    <2> QED
      BY <2>1, <2>3, Zenon DEF Escape
  <1>4. ASSUME Escaped(p, b, q) PROVE Escaped(Raised(p), b, Raised(q))
    <2>1. PICK m \in Responses, o \in Nat, k \in Nat :
            /\ k < Len(Carried(m)) /\ Carried(m)[k + 1] \in Special
            /\ p = Amid(m, k, o) /\ b = Stands(Carried(m)[k + 1])
            /\ q = Before(m, k + 1, o)
      BY <1>4, Zenon DEF Escaped
    <2>2. PICK r \in Nat : r = o + 1
      OBVIOUS
    <2>3. Raised(p) = Amid(m, k, r) /\ Raised(q) = Before(m, k + 1, r)
      BY <2>1, <2>2, RaisedPlaces, Zenon
    <2> QED
      BY <2>1, <2>3, Zenon DEF Escaped
  <1>5. ASSUME Ends(p, b, q) PROVE Ends(Raised(p), b, Raised(q))
    <2>1. PICK m \in Responses, o \in Nat :
            p = Before(m, Len(Carried(m)), o) /\ b = FLAG /\ q = InGap(o)
      BY <1>5, Zenon DEF Ends
    <2>2. PICK r \in Nat : r = o + 1
      OBVIOUS
    <2>3. /\ Raised(p) = Before(m, Len(Carried(m)), r)
          /\ Raised(q) = InGap(r)
      BY <2>1, <2>2, RaisedPlaces, Zenon
    <2> QED
      BY <2>1, <2>3, Zenon DEF Ends
  <1>6. ASSUME Damaged(p, b, q) PROVE Damaged(Raised(p), b, Raised(q))
    <2>1. b \in Byte /\ Place(p) /\ Place(q) /\ p.owed > q.owed
      BY <1>6, Zenon DEF Damaged
    <2>2. /\ Place(Raised(p)) /\ Raised(p).owed = p.owed + 1
          /\ Place(Raised(q)) /\ Raised(q).owed = q.owed + 1
          /\ p.owed \in Nat /\ q.owed \in Nat
      BY <2>1, PlaceRaised, Zenon
    <2>3. Raised(p).owed > Raised(q).owed
      BY ONLY <2>1, <2>2
    <2> QED
      BY <2>1, <2>2, <2>3, Zenon DEF Damaged
  <1> QED
    BY <1>1, <1>2, <1>3, <1>4, <1>5, <1>6, Zenon DEF Flows, Clean

LEMMA LeadsRaised ==
  ASSUME NEW p, NEW s, NEW q, Leads(p, s, q)
  PROVE  Leads(Raised(p), s, Raised(q))
  <1> DEFINE n == Len(s)
  <1>1. s \in Seq(Byte) /\ Place(p) /\ Place(q) /\ n \in Nat
    BY DEF Leads
  <1>2. PICK f : Path(f, s, p, q)
    BY Zenon DEF Leads
  <1> DEFINE g == [i \in 1 .. n + 1 |-> Raised(f[i])]
  <1>3. \A i \in 1 .. n + 1 : g[i] = Raised(f[i])
    OBVIOUS
  <1>4. 1 \in 1 .. n + 1 /\ n + 1 \in 1 .. n + 1
    BY <1>1
  <1>5. \A i \in 1 .. n : i \in 1 .. n + 1 /\ i + 1 \in 1 .. n + 1
    BY <1>1
  <1> HIDE DEF g
  <1>6. g[1] = Raised(p) /\ g[n + 1] = Raised(q)
    BY <1>2, <1>3, <1>4, Zenon DEF Path
  <1>7. ASSUME NEW i \in 1 .. n PROVE Flows(g[i], s[i], g[i + 1])
    <2>1. Flows(f[i], s[i], f[i + 1])
      BY <1>2, Zenon DEF Path
    <2> QED
      BY <1>3, <1>5, <2>1, FlowsRaised, Zenon
  <1>8. Path(g, s, Raised(p), Raised(q))
    BY <1>6, <1>7, Zenon DEF Path
  <1> QED
    BY <1>1, <1>8, PlaceRaised, Zenon DEF Leads

\* The bytes that stand for one byte of an answer lead past it,
LEMMA ByteLeads ==
  ASSUME NEW m \in Responses, NEW k \in Nat, k < Len(Carried(m))
  PROVE  Leads(Before(m, k, 0), HdlcByte(Carried(m)[k + 1]),
               Before(m, k + 1, 0))
  <1> DEFINE c == Carried(m)[k + 1]
  <1>1. c \in Byte
    <2>1. k + 1 \in 1 .. Len(Carried(m))
      BY CarriedType
    <2> QED
      BY <2>1, CarriedType, Zenon
  <1>2. 0 \in Nat
    OBVIOUS
  <1>3. CASE c \notin Special
    <2>1. HdlcByte(c) = <<c>>
      BY <1>1, <1>3, HdlcByteType, Zenon DEF Special
    <2>2. Plain(Before(m, k, 0), c, Before(m, k + 1, 0))
      BY <1>2, <1>3, Zenon DEF Plain
    <2>3. Leads(Before(m, k, 0), <<c>>, Before(m, k + 1, 0))
      BY <2>2, LeadsOne, Zenon DEF Flows, Clean
    <2> QED
      BY <2>1, <2>3, Zenon
  <1>4. CASE c \in Special
    <2>1. HdlcByte(c) = <<ESCAPE>> \o <<Stands(c)>>
      <3>1. c = FLAG \/ c = ESCAPE
        BY <1>4, Zenon DEF Special
      <3>2. HdlcByte(c) = <<ESCAPE, Stands(c)>>
        BY <1>1, <3>1, HdlcByteType, SpecialBytes, Zenon DEF Stands
      <3>3. <<ESCAPE, Stands(c)>> = <<ESCAPE>> \o <<Stands(c)>>
        OBVIOUS
      <3> QED
        BY <3>2, <3>3, Zenon
    <2>2. Escape(Before(m, k, 0), ESCAPE, Amid(m, k, 0))
      BY <1>2, <1>4, Zenon DEF Escape
    <2>3. Escaped(Amid(m, k, 0), Stands(c), Before(m, k + 1, 0))
      BY <1>2, <1>4, Zenon DEF Escaped
    <2>4. Leads(Before(m, k, 0), <<ESCAPE>>, Amid(m, k, 0))
      BY <2>2, LeadsOne, Zenon DEF Flows, Clean
    <2>5. Leads(Amid(m, k, 0), <<Stands(c)>>, Before(m, k + 1, 0))
      BY <2>3, LeadsOne, Zenon DEF Flows, Clean
    <2>6. Leads(Before(m, k, 0), <<ESCAPE>> \o <<Stands(c)>>,
                Before(m, k + 1, 0))
      BY <2>4, <2>5, LeadsOn, Zenon
    <2> QED
      BY <2>1, <2>6, Zenon
  <1> QED
    BY <1>3, <1>4, Zenon

\* and a whole answer leads from one gap between answers to the next.
LEMMA AnswerLeads ==
  ASSUME NEW m \in Responses
  PROVE  Leads(InGap(0), HdlcFrame(m), InGap(0))
  <1> DEFINE w == Carried(m)
             n == Len(w)
  <1>1. m \in Seq(Byte) /\ w \in Seq(Byte) /\ n \in Nat /\ n > 0
    BY CarriedType
  <1>2. PICK f : Escapes(f, w) /\ HdlcFrame(m) = <<FLAG>> \o f[n] \o <<FLAG>>
    BY <1>1, EscapesExists DEF Carried
  <1>3. /\ f[0] = <<>>
        /\ \A k \in 0 .. n : f[k] \in Seq(Byte)
        /\ \A k \in 1 .. n : f[k] = f[k - 1] \o HdlcByte(w[k])
    BY <1>2 DEF Escapes
  <1> HIDE DEF n, w
  <1> DEFINE Good(k) == Leads(Before(m, 0, 0), f[k], Before(m, k, 0))
             Bad == {k \in 0 .. n : ~ Good(k)}
  <1>4. ASSUME Bad # {} PROVE FALSE
    <2>1. PICK k \in Bad : \A j \in Bad : k <= j
      <3>1. Bad \subseteq Nat
        BY <1>1
      <3> HIDE DEF Bad
      <3> QED
        BY <1>4, <3>1, LeastMember
    <2>2. k \in 0 .. n /\ ~ Good(k)
      BY <2>1
    <2>3. CASE k = 0
      <3>1. 0 \in Nat /\ 0 <= Len(Carried(m))
        BY <1>1 DEF n, w
      <3>2. Place(Before(m, 0, 0))
        BY <3>1, Places, Zenon
      <3>3. Leads(Before(m, 0, 0), <<>>, Before(m, 0, 0))
        BY <3>2, LeadsNowhere, Zenon
      <3> QED
        BY <1>3, <2>2, <2>3, <3>3, Zenon
    <2>4. CASE k # 0
      <3>1. PICK j \in Nat : k = j + 1 /\ j < n
        <4>1. k - 1 \in Nat /\ k = k - 1 + 1 /\ k - 1 < n
          BY <1>1, <2>2, <2>4
        <4> QED
          BY <4>1, Zenon
      <3>2. j \in 0 .. n /\ ~ (k <= j) /\ k \in 1 .. n /\ k - 1 = j
        BY <1>1, <2>2, <3>1
      <3>3. Leads(Before(m, 0, 0), f[j], Before(m, j, 0))
        BY <2>1, <3>2
      <3>4. Leads(Before(m, j, 0), HdlcByte(w[j + 1]), Before(m, j + 1, 0))
        BY <3>1, ByteLeads, Zenon DEF n, w
      <3>5. f[k] = f[j] \o HdlcByte(w[k])
        BY <1>3, <3>2
      <3>6. Leads(Before(m, 0, 0), f[j] \o HdlcByte(w[j + 1]),
                  Before(m, j + 1, 0))
        BY <3>3, <3>4, LeadsOn, Zenon
      <3> QED
        BY <2>2, <3>1, <3>5, <3>6, Zenon
    <2> QED
      BY <2>3, <2>4, Zenon
  <1>5. Good(n)
    <2>1. n \in 0 .. n
      BY <1>1
    <2> QED
      BY <1>4, <2>1
  <1>6. 0 \in Nat
    OBVIOUS
  <1>7. Leads(InGap(0), <<FLAG>>, Before(m, 0, 0))
    <2>1. Starts(InGap(0), FLAG, Before(m, 0, 0))
      BY <1>6, Zenon DEF Starts
    <2> QED
      BY <2>1, LeadsOne, Zenon DEF Flows, Clean
  <1>8. Leads(Before(m, n, 0), <<FLAG>>, InGap(0))
    <2>1. Ends(Before(m, n, 0), FLAG, InGap(0))
      BY <1>6, Zenon DEF Ends, n, w
    <2> QED
      BY <2>1, LeadsOne, Zenon DEF Flows, Clean
  <1>9. Leads(InGap(0), <<FLAG>> \o f[n], Before(m, n, 0))
    BY <1>5, <1>7, LeadsOn, Zenon
  <1>10. Leads(InGap(0), (<<FLAG>> \o f[n]) \o <<FLAG>>, InGap(0))
    BY <1>8, <1>9, LeadsOn, Zenon
  <1> QED
    BY <1>2, <1>10, Zenon

\* No byte makes the damage to come greater.
LEMMA FlowsOwed ==
  ASSUME NEW p, NEW b, NEW q, Flows(p, b, q)
  PROVE  p.owed \in Nat /\ q.owed \in Nat /\ p.owed >= q.owed
  <1>1. Place(p) /\ Place(q)
    BY FlowsType, Zenon
  <1>2. p.owed \in Nat /\ q.owed \in Nat
    BY <1>1, PlaceRaised, Zenon
  <1>3. Clean(p, b, q) => p.owed = q.owed
    <2>1. Starts(p, b, q) => p.owed = q.owed
      BY Fields DEF Starts
    <2>2. Plain(p, b, q) => p.owed = q.owed
      BY Fields DEF Plain
    <2>3. Escape(p, b, q) => p.owed = q.owed
      BY Fields DEF Escape
    <2>4. Escaped(p, b, q) => p.owed = q.owed
      BY Fields DEF Escaped
    <2>5. Ends(p, b, q) => p.owed = q.owed
      BY Fields DEF Ends
    <2> QED
      BY <2>1, <2>2, <2>3, <2>4, <2>5, Zenon DEF Clean
  <1>4. Damaged(p, b, q) => p.owed > q.owed
    BY Zenon DEF Damaged
  <1> QED
    BY <1>2, <1>3, <1>4 DEF Flows

\* One damaged byte takes the line from anywhere to anywhere.
LEMMA DamageLeads ==
  ASSUME NEW p, Place(p), NEW q, Place(q), p.owed >= q.owed, NEW b \in Byte
  PROVE  Leads(Raised(p), <<b>>, q)
  <1>1. /\ Place(Raised(p)) /\ Raised(p).owed = p.owed + 1
        /\ p.owed \in Nat /\ q.owed \in Nat
    BY PlaceRaised, Zenon
  <1>2. Raised(p).owed > q.owed
    BY ONLY <1>1, p.owed >= q.owed
  <1>3. Flows(Raised(p), b, q)
    BY <1>1, <1>2, Zenon DEF Flows, Damaged
  <1> QED
    BY <1>3, LeadsOne, Zenon

\* After what was sent of an answer the line is between answers again, with
\* one byte damaged; so it is for every fault that Hit knows.
Recovers(t) == \E o \in {0, 1} : Leads(InGap(o), t, InGap(0))

LEMMA Gap == Place(InGap(0)) /\ Raised(InGap(0)) = InGap(1)
             /\ InGap(0).owed = 0
  <1>1. 0 \in Nat /\ 0 + 1 = 1
    OBVIOUS
  <1> QED
    BY <1>1, Places, RaisedPlaces, Fields

LEMMA CutLeads ==
  ASSUME NEW s, NEW x, Leads(InGap(0), s, x)
  PROVE  Recovers(s)
  <1>1. s \in Seq(Byte)
    BY Zenon DEF Leads
  <1>2. CASE s = <<>>
    <2>1. Leads(InGap(0), <<>>, InGap(0))
      BY Gap, LeadsNowhere, Zenon
    <2> QED
      BY <1>2, <2>1, Zenon DEF Recovers
  <1>3. CASE s # <<>>
    <2> DEFINE n == Len(s)
               front == SubSeq(s, 1, n - 1)
    <2>1. n \in Nat /\ n >= 1 /\ n \in 1 .. n /\ s[n] \in Byte
      BY <1>1, <1>3
    <2>2. s = front \o <<s[n]>>
      BY <1>1, <2>1
    <2>3. PICK u, v : Leads(InGap(0), front, u) /\ Flows(u, s[n], v)
      BY <2>1, LeadsSplit
    <2> HIDE DEF n, front
    <2>4. Place(u) /\ u.owed \in Nat
      BY <2>3, FlowsOwed, FlowsType, Zenon
    <2>5. u.owed >= InGap(0).owed
      BY <2>4, Gap
    <2>6. Leads(Raised(u), <<s[n]>>, InGap(0))
      BY <2>1, <2>4, <2>5, Gap, DamageLeads, Zenon
    <2>7. Leads(InGap(1), front, Raised(u))
      BY <2>3, Gap, LeadsRaised, Zenon
    <2>8. Leads(InGap(1), front \o <<s[n]>>, InGap(0))
      BY <2>6, <2>7, LeadsOn, Zenon
    <2> QED
      BY <2>2, <2>8, Zenon DEF Recovers
  <1> QED
    BY <1>2, <1>3, Zenon

LEMMA HeadAndTail ==
  ASSUME NEW s \in Seq(Byte), s # <<>>
  PROVE  s = <<Head(s)>> \o Tail(s)
  <1>1. Len(s) \in 1 .. Len(s) /\ 1 \in 1 .. Len(s) /\ s[1] = Head(s)
    OBVIOUS
  <1>2. SubSeq(s, 1, Len(s)) = <<s[1]>> \o SubSeq(s, 1 + 1, Len(s))
    BY <1>1, SubSeqRecursiveFirst
  <1>3. SubSeq(s, 1, Len(s)) = s
    BY SubSeqFull
  <1>4. SubSeq(s, 1 + 1, Len(s)) = Tail(s)
    BY TailIsSubSeq
  <1> QED
    BY ONLY <1>1, <1>2, <1>3, <1>4

LEMMA ChangedAt ==
  ASSUME NEW w \in Seq(Byte), NEW i \in 1 .. Len(w), NEW b \in Byte
  PROVE  [w EXCEPT ![i] = b]
           = (SubSeq(w, 1, i - 1) \o <<b>>) \o SubSeq(w, i + 1, Len(w))
  <1> DEFINE n == Len(w)
             pre == SubSeq(w, 1, i - 1)
             post == SubSeq(w, i + 1, n)
             mid == pre \o <<b>>
             u == [w EXCEPT ![i] = b]
             v == mid \o post
  <1>1. /\ n \in Nat /\ i \in 1 .. n
        /\ u \in Seq(Byte) /\ Len(u) = n
        /\ \A j \in 1 .. n : u[j] = IF j = i THEN b ELSE w[j]
    OBVIOUS
  <1>2. /\ pre \in Seq(Byte) /\ Len(pre) = i - 1
        /\ \A j \in 1 .. i - 1 : pre[j] = w[j]
    OBVIOUS
  <1>3. /\ post \in Seq(Byte) /\ Len(post) = n - i
        /\ \A j \in 1 .. n - i : post[j] = w[i + j]
    <2>1. post \in Seq(Byte) /\ Len(post) = n - i
      OBVIOUS
    <2>2. ASSUME NEW j \in 1 .. n - i PROVE post[j] = w[i + j]
      <3>1. (i + 1) + j - 1 = i + j
        BY <1>1
      <3>2. post[j] = w[(i + 1) + j - 1]
        BY <1>1
      <3> QED
        BY <3>1, <3>2
    <2> QED
      BY <2>1, <2>2
  <1> HIDE DEF pre, post, u, n
  <1>4. <<b>> \in Seq(Byte) /\ Len(<<b>>) = 1 /\ <<b>>[1] = b
    OBVIOUS
  <1>5. /\ mid \in Seq(Byte) /\ Len(mid) = i
        /\ \A j \in 1 .. i : mid[j] = IF j = i THEN b ELSE w[j]
    <2>1. mid = Append(pre, b)
      BY <1>2
    <2>2. /\ mid \in Seq(Byte) /\ Len(mid) = (i - 1) + 1
          /\ \A j \in 1 .. i - 1 : mid[j] = pre[j]
          /\ mid[(i - 1) + 1] = b
      BY <1>2, <2>1, AppendProperties
    <2>3. (i - 1) + 1 = i /\ \A j \in 1 .. i : j = i \/ j \in 1 .. i - 1
      BY <1>1
    <2>4. \A j \in 1 .. i - 1 : j # i
      BY <1>1
    <2>5. mid[i] = b
      BY <2>2, <2>3
    <2> HIDE DEF mid
    <2> QED
      BY <1>2, <2>2, <2>3, <2>4, <2>5, Zenon
  <1> HIDE DEF mid
  <1>6. /\ v \in Seq(Byte) /\ Len(v) = n
        /\ \A j \in 1 .. n : v[j] = IF j <= i THEN mid[j] ELSE post[j - i]
    <2>1. /\ v \in Seq(Byte) /\ Len(v) = Len(mid) + Len(post)
          /\ \A j \in 1 .. Len(mid) + Len(post) :
               v[j] = IF j <= Len(mid) THEN mid[j] ELSE post[j - Len(mid)]
      BY <1>3, <1>5, ConcatProperties, Zenon
    <2>2. Len(mid) = i /\ Len(post) = n - i /\ i + (n - i) = n
      BY <1>1, <1>3, <1>5
    <2> HIDE DEF v
    <2> QED
      BY <2>1, <2>2
  <1> HIDE DEF v
  <1>7. ASSUME NEW j \in 1 .. n PROVE u[j] = v[j]
    <2>1. CASE j <= i
      <3>1. j \in 1 .. i
        BY <1>1, <2>1
      <3> QED
        BY <1>1, <1>5, <1>6, <2>1, <3>1
    <2>2. CASE ~ (j <= i)
      <3>1. PICK k \in 1 .. n - i : k = j - i /\ i + k = j
        BY <1>1, <2>2
      <3>2. v[j] = w[j]
        BY <1>3, <1>6, <2>2, <3>1
      <3>3. j # i
        BY <1>1, <2>2
      <3> QED
        BY <1>1, <3>2, <3>3
    <2> QED
      BY <2>1, <2>2
  <1>8. u = v
    BY <1>1, <1>6, <1>7, SeqEqual
  <1> QED
    BY <1>8 DEF u, v, mid, pre, post, n

LEMMA HitLeads ==
  ASSUME NEW w, Leads(InGap(0), w, InGap(0)), NEW i \in DOMAIN w,
         NEW b \in Byte
  PROVE  /\ Recovers([w EXCEPT ![i] = b]) /\ Recovers(InsertAt(w, i, b))
         /\ Recovers(RemoveAt(w, i)) /\ Recovers(SubSeq(w, 1, i - 1))
  <1> DEFINE n == Len(w)
             pre == SubSeq(w, 1, i - 1)
             post == SubSeq(w, i + 1, n)
  <1>1. w \in Seq(Byte)
    BY Zenon DEF Leads
  <1>2. n \in Nat /\ i \in 1 .. n
    BY <1>1
  <1>3. PICK x, y : /\ Leads(InGap(0), pre, x) /\ Flows(x, w[i], y)
                    /\ Leads(y, post, InGap(0))
    BY <1>2, LeadsSplit
  <1>4. pre \in Seq(Byte) /\ post \in Seq(Byte) /\ <<b>> \in Seq(Byte)
    BY <1>3 DEF Leads
  <1>5. /\ Place(x) /\ Place(y) /\ w[i] \in Byte
        /\ x.owed \in Nat /\ y.owed \in Nat /\ x.owed >= y.owed
    BY <1>3, FlowsType, FlowsOwed, Zenon
  <1>6. Leads(InGap(1), pre, Raised(x))
    BY <1>3, Gap, LeadsRaised, Zenon
  <1>7. Recovers([w EXCEPT ![i] = b])
    <2>1. [w EXCEPT ![i] = b] = (pre \o <<b>>) \o post
      BY <1>1, <1>2, ChangedAt, Zenon
    <2> HIDE DEF pre, post
    <2>2. Leads(Raised(x), <<b>>, y)
      BY <1>5, DamageLeads, Zenon
    <2>3. Leads(InGap(1), (pre \o <<b>>) \o post, InGap(0))
      BY <1>3, <1>6, <2>2, LeadsOn, Zenon
    <2> QED
      BY <2>1, <2>3, Zenon DEF Recovers
  <1>8. Recovers(InsertAt(w, i, b))
    <2>1. InsertAt(w, i, b) = (pre \o <<b>>) \o SubSeq(w, i, n)
      BY <1>4 DEF InsertAt
    <2>2. SubSeq(w, i, n) = <<w[i]>> \o post
      <3>1. n \in i .. n
        BY <1>2
      <3> QED
        BY <1>1, <1>2, <3>1, SubSeqRecursiveFirst
    <2> HIDE DEF pre, post, n
    <2>3. Leads(x, <<w[i]>> \o post, InGap(0))
      BY <1>3, LeadsOne, LeadsOn, Zenon
    <2>4. x.owed >= x.owed
      BY <1>5
    <2>5. Leads(Raised(x), <<b>>, x)
      BY <1>5, <2>4, DamageLeads, Zenon
    <2>6. Leads(InGap(1), (pre \o <<b>>) \o (<<w[i]>> \o post), InGap(0))
      BY <1>6, <2>3, <2>5, LeadsOn, Zenon
    <2> QED
      BY <2>1, <2>2, <2>6, Zenon DEF Recovers
  <1>9. Recovers(SubSeq(w, 1, i - 1))
    BY <1>3, CutLeads, Zenon
  <1>10. Recovers(RemoveAt(w, i))
    <2>1. RemoveAt(w, i) = pre \o post
      BY DEF RemoveAt
    <2> HIDE DEF pre, post, n
    <2>2. CASE post = <<>>
      <3>1. pre \o post = pre
        BY <1>4, <2>2, ConcatEmptySeq
      <3> QED
        BY <1>9, <2>1, <3>1, Zenon DEF pre
    <2>3. CASE post # <<>>
      <3>1. PICK z : /\ Flows(y, Head(post), z)
                     /\ Leads(z, Tail(post), InGap(0))
        BY <1>3, <2>3, LeadsFirst, Zenon
      <3>2. /\ Place(z) /\ Head(post) \in Byte
            /\ z.owed \in Nat /\ y.owed >= z.owed
        BY <3>1, FlowsType, FlowsOwed, Zenon
      <3>3. x.owed >= z.owed
        BY ONLY <1>5, <3>2
      <3>4. Leads(Raised(x), <<Head(post)>>, z)
        BY <1>5, <3>2, <3>3, DamageLeads, Zenon
      <3>5. Leads(Raised(x), <<Head(post)>> \o Tail(post), InGap(0))
        BY <3>1, <3>4, LeadsOn, Zenon
      <3>6. post = <<Head(post)>> \o Tail(post)
        BY <1>4, <2>3, HeadAndTail, Zenon
      <3>7. Leads(Raised(x), post, InGap(0))
        BY <3>5, <3>6, Zenon
      <3>8. Leads(InGap(1), pre \o post, InGap(0))
        BY <1>6, <3>7, LeadsOn, Zenon
      <3> QED
        BY <2>1, <3>8, Zenon DEF Recovers
    <2> QED
      BY <2>2, <2>3, Zenon
  <1> QED
    BY <1>7, <1>8, <1>9, <1>10, Zenon

-----------------------------------------------------------------------------
(* What the reader still loses.                                            *)

\* The reads that are lost at most before the reader is in step with the
\* answers again, if no other byte is damaged: when it looks for a first
\* byte, when it has one, and when it is in the middle of an answer.
OneLeft(p) ==
  /\ p.k + 1 = Len(Carried(p.message))
  /\ p.kind = "amid" \/ Carried(p.message)[p.k + 1] \notin Special

LostIdle(p) ==
  IF p.kind = "between" THEN 0 ELSE IF OneLeft(p) THEN 2 ELSE 1

LostStarted(p) ==
  IF p.kind = "between" THEN 1
  ELSE IF p.kind = "before" /\ p.k = 0 THEN 0
  ELSE IF p.kind = "before" /\ p.k = Len(Carried(p.message)) THEN 2 ELSE 1

\* The buffer holds what was sent of the answer;
InStep(state, buffer, p) ==
  /\ buffer = SubSeq(Carried(p.message), 1, p.k)
  /\ state = "escape" <=> p.kind = "amid"

\* or it has no more bytes than were sent, and will see the end.
Calm(state, buffer, p) ==
  Len(buffer) <= p.k /\ (state = "escape" => p.kind = "amid")

LostInside(state, buffer, p) ==
  IF p.kind = "between" THEN 2
  ELSE IF InStep(state, buffer, p) THEN 0
  ELSE IF Calm(state, buffer, p) THEN 1 ELSE 3

Idle == {"send", "sent", "first"}

Lost(state, buffer, p) ==
  IF state \in Idle THEN LostIdle(p)
  ELSE IF state = "second" THEN LostStarted(p)
  ELSE LostInside(state, buffer, p)

LEMMA LostBounds ==
  ASSUME NEW state, NEW buffer, NEW p
  PROVE  /\ LostIdle(p) \in 0 .. 2
         /\ Lost(state, buffer, p) \in 0 .. 3
         /\ state \in Idle => Lost(state, buffer, p) = LostIdle(p)
         /\ Lost("second", buffer, p) = LostStarted(p)
         /\ Lost("body", buffer, p) = LostInside("body", buffer, p)
         /\ Lost("escape", buffer, p) = LostInside("escape", buffer, p)
  <1>1. LostIdle(p) \in 0 .. 2 /\ LostIdle(p) \in 0 .. 3
    BY DEF LostIdle
  <1>2. LostStarted(p) \in 0 .. 3
    BY DEF LostStarted
  <1>3. LostInside(state, buffer, p) \in 0 .. 3
    BY DEF LostInside
  <1> QED
    BY <1>1, <1>2, <1>3 DEF Lost, Idle

\* The same, place by place.
LEMMA LostInGap ==
  ASSUME NEW o, NEW state, NEW buffer
  PROVE  /\ LostIdle(InGap(o)) = 0 /\ LostStarted(InGap(o)) = 1
         /\ LostInside(state, buffer, InGap(o)) = 2
  BY Fields, Zenon DEF LostIdle, LostStarted, LostInside

LEMMA LostBefore ==
  ASSUME NEW m, NEW k, NEW o, NEW state, NEW buffer
  PROVE  /\ LostIdle(Before(m, k, o)) =
              IF k + 1 = Len(Carried(m)) /\ Carried(m)[k + 1] \notin Special
              THEN 2 ELSE 1
         /\ LostStarted(Before(m, k, o)) =
              IF k = 0 THEN 0 ELSE IF k = Len(Carried(m)) THEN 2 ELSE 1
         /\ LostInside(state, buffer, Before(m, k, o)) =
              IF state # "escape" /\ buffer = SubSeq(Carried(m), 1, k) THEN 0
              ELSE IF state # "escape" /\ Len(buffer) <= k THEN 1 ELSE 3
  <1>1. /\ Before(m, k, o).kind = "before" /\ Before(m, k, o).message = m
        /\ Before(m, k, o).k = k
    BY DEF Before
  <1> DEFINE p == Before(m, k, o)
  <1> HIDE DEF p
  <1>2. p.kind = "before" /\ p.message = m /\ p.k = k
    BY <1>1 DEF p
  <1>3. LostIdle(p) =
          IF k + 1 = Len(Carried(m)) /\ Carried(m)[k + 1] \notin Special
          THEN 2 ELSE 1
    BY <1>2 DEF LostIdle, OneLeft
  <1>4. LostStarted(p) =
          IF k = 0 THEN 0 ELSE IF k = Len(Carried(m)) THEN 2 ELSE 1
    BY <1>2 DEF LostStarted
  <1>5. LostInside(state, buffer, p) =
          IF state # "escape" /\ buffer = SubSeq(Carried(m), 1, k) THEN 0
          ELSE IF state # "escape" /\ Len(buffer) <= k THEN 1 ELSE 3
    BY <1>2 DEF LostInside, InStep, Calm
  <1> QED
    BY <1>3, <1>4, <1>5, Zenon DEF p

LEMMA LostAmid ==
  ASSUME NEW m, NEW k, NEW o, NEW state, NEW buffer
  PROVE  /\ LostIdle(Amid(m, k, o)) =
              IF k + 1 = Len(Carried(m)) THEN 2 ELSE 1
         /\ LostStarted(Amid(m, k, o)) = 1
         /\ LostInside(state, buffer, Amid(m, k, o)) =
              IF state = "escape" /\ buffer = SubSeq(Carried(m), 1, k) THEN 0
              ELSE IF Len(buffer) <= k THEN 1 ELSE 3
  <1>1. /\ Amid(m, k, o).kind = "amid" /\ Amid(m, k, o).message = m
        /\ Amid(m, k, o).k = k
    BY DEF Amid
  <1> DEFINE p == Amid(m, k, o)
  <1> HIDE DEF p
  <1>2. p.kind = "amid" /\ p.message = m /\ p.k = k
    BY <1>1 DEF p
  <1>3. LostIdle(p) = IF k + 1 = Len(Carried(m)) THEN 2 ELSE 1
    BY <1>2 DEF LostIdle, OneLeft
  <1>4. LostStarted(p) = 1
    BY <1>2 DEF LostStarted
  <1>5. LostInside(state, buffer, p) =
          IF state = "escape" /\ buffer = SubSeq(Carried(m), 1, k) THEN 0
          ELSE IF Len(buffer) <= k THEN 1 ELSE 3
    BY <1>2 DEF LostInside, InStep, Calm
  <1> QED
    BY <1>3, <1>4, <1>5, Zenon DEF p

-----------------------------------------------------------------------------
(* A byte is read.                                                         *)

\* What a read of a byte does to the count of lost reads.
Fails(n) == failed' = failed + n

ReadType ==
  /\ pc \in {"send", "sent", "first", "second", "body", "escape"}
  /\ msgbuf \in Seq(Byte) /\ failed \in Nat

LEMMA BodyIs ==
  ASSUME ReadType, NEW byte, Body(byte)
  PROVE  /\ pc = "body"
         /\ Len(msgbuf) + 1 > MaxIndex => msgbuf' = <<>> /\ Return(FALSE)
         /\ ~ (Len(msgbuf) + 1 > MaxIndex) =>
              /\ byte = FLAG => msgbuf' = <<>> /\ Accept
              /\ byte = ESCAPE => Goes("escape", msgbuf)
              /\ byte \notin Special => Goes("body", Append(msgbuf, byte))
  <1>1. Len(msgbuf) + 1 \in Nat /\ MaxIndex \in Nat
    BY FrameAssumption DEF ReadType
  <1>2. ~ (Len(msgbuf) + 1 > MaxIndex) <=> Len(msgbuf) + 1 <= MaxIndex
    BY <1>1
  <1>3. FLAG # ESCAPE
    BY SpecialBytes
  <1>4. pc = "body"
    BY DEF Body
  <1>5. CASE Len(msgbuf) + 1 > MaxIndex
    <2>1. msgbuf' = <<>> /\ Return(FALSE)
      BY <1>2, <1>5 DEF Body
    <2> QED
      BY <1>4, <1>5, <2>1
  <1>6. CASE byte = FLAG /\ ~ (Len(msgbuf) + 1 > MaxIndex)
    <2>1. msgbuf' = <<>> /\ Accept
      BY <1>2, <1>3, <1>6 DEF Body
    <2> QED
      BY <1>3, <1>4, <1>6, <2>1 DEF Special
  <1>7. CASE byte = ESCAPE /\ ~ (Len(msgbuf) + 1 > MaxIndex)
    <2>1. Goes("escape", msgbuf)
      BY <1>2, <1>3, <1>7 DEF Body
    <2> QED
      BY <1>3, <1>4, <1>7, <2>1 DEF Special
  <1>8. CASE byte \notin Special /\ ~ (Len(msgbuf) + 1 > MaxIndex)
    <2>1. Goes("body", Append(msgbuf, byte))
      BY <1>2, <1>8 DEF Body, Special
    <2> QED
      BY <1>4, <1>8, <2>1 DEF Special
  <1> QED
    BY <1>5, <1>6, <1>7, <1>8 DEF Special

LEMMA UnescapeIs ==
  ASSUME NEW byte, Unescape(byte)
  PROVE  /\ pc = "escape"
         /\ byte = ESCAPED_FLAG => Goes("body", Append(msgbuf, FLAG))
         /\ byte = ESCAPED_ESCAPE => Goes("body", Append(msgbuf, ESCAPE))
         /\ byte \notin {ESCAPED_FLAG, ESCAPED_ESCAPE} =>
              msgbuf' = <<>> /\ Return(FALSE)
  <1>1. ESCAPED_FLAG # ESCAPED_ESCAPE
    BY SpecialBytes
  <1> QED
    BY <1>1 DEF Unescape

\* A read that is lost is over.
LEMMA ReadFails ==
  ASSUME ReadType, NEW byte \in Byte,
         First(byte) \/ Second(byte) \/ Body(byte) \/ Unescape(byte)
  PROVE  /\ ReadType'
         /\ Fails(0) \/ (Fails(1) /\ pc' = "send")
  <1>0. <<>> \in Seq(Byte) /\ <<byte>> \in Seq(Byte)
        /\ Append(msgbuf, byte) \in Seq(Byte)
        /\ Append(msgbuf, FLAG) \in Seq(Byte)
        /\ Append(msgbuf, ESCAPE) \in Seq(Byte)
    BY SpecialBytes DEF ReadType
  <1>1. failed \in Nat /\ failed + 0 = failed /\ failed + 1 \in Nat
    BY DEF ReadType
  <1>2. ASSUME First(byte)
        PROVE  pc' = "second" /\ msgbuf' = <<>> /\ failed' = failed
    BY <1>2 DEF First, Goes
  <1>3. ASSUME Second(byte)
        PROVE  pc' = "body" /\ msgbuf' \in Seq(Byte) /\ failed' = failed
    BY <1>0, <1>3 DEF Second, Goes
  <1>4. ASSUME Body(byte)
        PROVE  /\ pc' \in {"body", "escape", "send"} /\ msgbuf' \in Seq(Byte)
               /\ failed' = failed \/ (failed' = failed + 1 /\ pc' = "send")
    <2>1. CASE Len(msgbuf) + 1 > MaxIndex
      <3>1. msgbuf' = <<>> /\ Return(FALSE)
        BY <1>4, <2>1, BodyIs, Zenon
      <3> QED
        BY <1>0, <3>1 DEF Return
    <2>2. CASE byte = FLAG /\ ~ (Len(msgbuf) + 1 > MaxIndex)
      <3>1. msgbuf' = <<>> /\ Accept
        BY <1>4, <2>2, BodyIs, Zenon
      <3> QED
        BY <1>0, <3>1 DEF Accept, Return
    <2>3. CASE byte = ESCAPE /\ ~ (Len(msgbuf) + 1 > MaxIndex)
      <3>1. Goes("escape", msgbuf)
        BY <1>4, <2>3, BodyIs, Zenon
      <3> QED
        BY <3>1 DEF Goes, ReadType
    <2>4. CASE byte \notin Special /\ ~ (Len(msgbuf) + 1 > MaxIndex)
      <3>1. Goes("body", Append(msgbuf, byte))
        BY <1>4, <2>4, BodyIs, Zenon
      <3> QED
        BY <1>0, <3>1 DEF Goes
    <2> QED
      BY <2>1, <2>2, <2>3, <2>4 DEF Special
  <1>5. ASSUME Unescape(byte)
        PROVE  /\ pc' \in {"body", "send"} /\ msgbuf' \in Seq(Byte)
               /\ failed' = failed \/ (failed' = failed + 1 /\ pc' = "send")
    <2>1. CASE byte = ESCAPED_FLAG
      <3>1. Goes("body", Append(msgbuf, FLAG))
        BY <1>5, <2>1, SpecialBytes DEF Unescape
      <3> QED
        BY <1>0, <3>1 DEF Goes
    <2>2. CASE byte = ESCAPED_ESCAPE
      <3>1. Goes("body", Append(msgbuf, ESCAPE))
        BY <1>5, <2>2, SpecialBytes DEF Unescape
      <3> QED
        BY <1>0, <3>1 DEF Goes
    <2>3. CASE byte \notin {ESCAPED_FLAG, ESCAPED_ESCAPE}
      <3>1. msgbuf' = <<>> /\ Return(FALSE)
        BY <1>5, <2>3 DEF Unescape
      <3> QED
        BY <1>0, <3>1 DEF Return
    <2> QED
      BY <2>1, <2>2, <2>3
  <1> QED
    BY <1>0, <1>1, <1>2, <1>3, <1>4, <1>5 DEF ReadType, Fails

-----------------------------------------------------------------------------
(* A byte that was not damaged costs no read that was not owed.            *)

LEMMA PrefixOf ==
  ASSUME NEW w \in Seq(Byte), NEW k \in 0 .. Len(w)
  PROVE  /\ SubSeq(w, 1, k) \in Seq(Byte) /\ Len(SubSeq(w, 1, k)) = k
         /\ k = 0 => SubSeq(w, 1, k) = <<>>
         /\ k = Len(w) => SubSeq(w, 1, k) = w
         /\ k < Len(w) =>
              Append(SubSeq(w, 1, k), w[k + 1]) = SubSeq(w, 1, k + 1)
  <1>1. SubSeq(w, 1, k) \in Seq(Byte) /\ Len(SubSeq(w, 1, k)) = k
    OBVIOUS
  <1>2. k = 0 => SubSeq(w, 1, k) = <<>>
    OBVIOUS
  <1>3. k = Len(w) => SubSeq(w, 1, k) = w
    OBVIOUS
  <1>4. k < Len(w) => Append(SubSeq(w, 1, k), w[k + 1]) = SubSeq(w, 1, k + 1)
    OBVIOUS
  <1> QED
    BY <1>1, <1>2, <1>3, <1>4

LEMMA CarriedPrefix ==
  ASSUME NEW m \in Responses, NEW k \in 0 .. Len(Carried(m))
  PROVE  /\ SubSeq(Carried(m), 1, k) \in Seq(Byte)
         /\ Len(SubSeq(Carried(m), 1, k)) = k
         /\ k = 0 => SubSeq(Carried(m), 1, k) = <<>>
         /\ k = Len(Carried(m)) => SubSeq(Carried(m), 1, k) = Carried(m)
         /\ k < Len(Carried(m)) =>
              Append(SubSeq(Carried(m), 1, k), Carried(m)[k + 1])
                = SubSeq(Carried(m), 1, k + 1)
  <1>1. Carried(m) \in Seq(Byte)
    BY CarriedType
  <1> QED
    BY <1>1, PrefixOf, Zenon

LEMMA IdleBefore ==
  ASSUME NEW m, NEW k, NEW o
  PROVE  /\ LostIdle(Before(m, k, o)) \in {1, 2}
         /\ k + 1 = Len(Carried(m)) /\ Carried(m)[k + 1] \notin Special
              => LostIdle(Before(m, k, o)) = 2
         /\ k + 1 # Len(Carried(m)) => LostIdle(Before(m, k, o)) = 1
  <1>1. LostIdle(Before(m, k, o)) =
          IF k + 1 = Len(Carried(m)) /\ Carried(m)[k + 1] \notin Special
          THEN 2 ELSE 1
    BY LostBefore, Zenon
  <1> QED
    BY <1>1

LEMMA StartedBefore ==
  ASSUME NEW m, NEW k, NEW o
  PROVE  /\ LostStarted(Before(m, k, o)) \in {0, 1, 2}
         /\ k = 0 => LostStarted(Before(m, k, o)) = 0
         /\ k # 0 /\ k = Len(Carried(m)) => LostStarted(Before(m, k, o)) = 2
         /\ k # 0 /\ k # Len(Carried(m)) => LostStarted(Before(m, k, o)) = 1
  <1>1. LostStarted(Before(m, k, o)) =
          IF k = 0 THEN 0 ELSE IF k = Len(Carried(m)) THEN 2 ELSE 1
    BY LostBefore, Zenon
  <1> QED
    BY <1>1

LEMMA InsideBefore ==
  ASSUME NEW m, NEW k, NEW o, NEW buffer
  PROVE  LostInside("body", buffer, Before(m, k, o)) =
           IF buffer = SubSeq(Carried(m), 1, k) THEN 0
           ELSE IF Len(buffer) <= k THEN 1 ELSE 3
  <1> DEFINE s == "body"
  <1>1. s # "escape"
    OBVIOUS
  <1> HIDE DEF s
  <1>2. LostInside(s, buffer, Before(m, k, o)) =
          IF s # "escape" /\ buffer = SubSeq(Carried(m), 1, k) THEN 0
          ELSE IF s # "escape" /\ Len(buffer) <= k THEN 1 ELSE 3
    BY LostBefore
  <1>3. LostInside(s, buffer, Before(m, k, o)) =
          IF buffer = SubSeq(Carried(m), 1, k) THEN 0
          ELSE IF Len(buffer) <= k THEN 1 ELSE 3
    BY <1>1, <1>2
  <1> QED
    BY <1>3 DEF s

\* The reader takes any byte for a start flag.
LEMMA FirstClean ==
  ASSUME NEW p, NEW b, NEW q, Clean(p, b, q)
  PROVE  LostStarted(q) <= LostIdle(p)
  <1>1. CASE Starts(p, b, q)
    <2>1. PICK m \in Responses, o \in Nat :
            p = InGap(o) /\ q = Before(m, 0, o)
      BY <1>1 DEF Starts
    <2>2. LostIdle(p) = 0
      BY <2>1, LostInGap, Zenon
    <2>3. LostStarted(q) = 0
      BY <2>1, StartedBefore
    <2> QED
      BY <2>2, <2>3
  <1>2. CASE Plain(p, b, q)
    <2>1. PICK m \in Responses, o \in Nat, k \in Nat :
            /\ Carried(m)[k + 1] \notin Special
            /\ p = Before(m, k, o) /\ q = Before(m, k + 1, o)
      BY <1>2 DEF Plain
    <2>2. /\ LostIdle(p) \in {1, 2}
          /\ k + 1 = Len(Carried(m)) => LostIdle(p) = 2
      BY <2>1, IdleBefore, Zenon
    <2>3. k + 1 # 0
      OBVIOUS
    <2>4. /\ LostStarted(q) \in {0, 1, 2}
          /\ k + 1 # Len(Carried(m)) => LostStarted(q) = 1
      BY <2>1, <2>3, StartedBefore
    <2> QED
      BY <2>2, <2>4
  <1>3. CASE Escape(p, b, q)
    <2>1. PICK m \in Responses, o \in Nat, k \in Nat :
            p = Before(m, k, o) /\ q = Amid(m, k, o)
      BY <1>3 DEF Escape
    <2>2. LostIdle(p) \in {1, 2}
      BY <2>1, IdleBefore, Zenon
    <2>3. LostStarted(q) = 1
      BY <2>1, LostAmid, Zenon
    <2> QED
      BY <2>2, <2>3
  <1>4. CASE Escaped(p, b, q)
    <2>1. PICK m \in Responses, o \in Nat, k \in Nat :
            p = Amid(m, k, o) /\ q = Before(m, k + 1, o)
      BY <1>4 DEF Escaped
    <2>2. LostIdle(p) = IF k + 1 = Len(Carried(m)) THEN 2 ELSE 1
      BY <2>1, LostAmid, Zenon
    <2>3. k + 1 # 0
      OBVIOUS
    <2>4. /\ LostStarted(q) \in {0, 1, 2}
          /\ k + 1 # Len(Carried(m)) => LostStarted(q) = 1
      BY <2>1, <2>3, StartedBefore
    <2> QED
      BY <2>2, <2>4
  <1>5. CASE Ends(p, b, q)
    <2>1. PICK m \in Responses, o \in Nat :
            p = Before(m, Len(Carried(m)), o) /\ q = InGap(o)
      BY <1>5 DEF Ends
    <2>2. LostIdle(p) \in {1, 2}
      BY <2>1, IdleBefore, Zenon
    <2>3. LostStarted(q) = 1
      BY <2>1, LostInGap, Zenon
    <2> QED
      BY <2>2, <2>3
  <1> QED
    BY <1>1, <1>2, <1>3, <1>4, <1>5 DEF Clean

\* The byte after it starts the message, unless it is a flag.
LEMMA SecondClean ==
  ASSUME NEW p, NEW b, NEW q, Clean(p, b, q), NEW buffer,
         buffer = IF b = FLAG THEN <<>> ELSE <<b>>
  PROVE  LostInside("body", buffer, q) <= LostStarted(p)
  <1>0. Len(<<b>>) = 1 /\ Len(buffer) <= 1 /\ Len(buffer) \in Nat
    OBVIOUS
  <1>1. CASE Starts(p, b, q)
    <2>1. PICK m \in Responses, o \in Nat :
            p = InGap(o) /\ b = FLAG /\ q = Before(m, 0, o)
      BY <1>1 DEF Starts
    <2>2. 0 \in 0 .. Len(Carried(m))
      BY CarriedType
    <2>3. SubSeq(Carried(m), 1, 0) = buffer
      BY <2>1, <2>2, CarriedPrefix
    <2>4. LostInside("body", buffer, q) = 0
      BY <2>1, <2>3, InsideBefore
    <2>5. LostStarted(p) = 1
      BY <2>1, LostInGap, Zenon
    <2> QED
      BY <2>1, <2>4, <2>5
  <1>2. CASE Plain(p, b, q)
    <2>1. PICK m \in Responses, o \in Nat, k \in Nat :
            /\ k < Len(Carried(m)) /\ Carried(m)[k + 1] \notin Special
            /\ p = Before(m, k, o) /\ b = Carried(m)[k + 1]
            /\ q = Before(m, k + 1, o)
      BY <1>2 DEF Plain
    <2>2. LostInside("body", buffer, q) =
            IF buffer = SubSeq(Carried(m), 1, k + 1) THEN 0
            ELSE IF Len(buffer) <= k + 1 THEN 1 ELSE 3
      BY <2>1, InsideBefore
    <2>3. CASE k = 0
      <3>1. buffer = <<b>>
        BY <2>1 DEF Special
      <3>2. 0 \in 0 .. Len(Carried(m)) /\ 0 < Len(Carried(m))
        BY CarriedType
      <3>3. Append(<<>>, Carried(m)[0 + 1]) = SubSeq(Carried(m), 1, 0 + 1)
        BY <3>2, CarriedPrefix
      <3>4. buffer = SubSeq(Carried(m), 1, k + 1)
        BY <2>1, <2>3, <3>1, <3>3
      <3>5. LostStarted(p) = 0
        BY <2>1, <2>3, StartedBefore
      <3>6. LostInside("body", buffer, q) = 0
        BY <2>2, <3>4, Zenon
      <3> QED
        BY <3>5, <3>6
    <2>4. CASE k # 0
      <3>0. k # Len(Carried(m))
        BY <2>1, CarriedType
      <3>1. LostStarted(p) = 1
        BY <2>1, <2>4, <3>0, StartedBefore
      <3>2. Len(buffer) <= k + 1
        BY <1>0
      <3> QED
        BY <2>2, <3>1, <3>2
    <2> QED
      BY <2>3, <2>4
  <1>3. CASE Escape(p, b, q)
    <2>1. PICK m \in Responses, o \in Nat, k \in Nat :
            /\ k < Len(Carried(m)) /\ Carried(m)[k + 1] \in Special
            /\ p = Before(m, k, o) /\ q = Amid(m, k, o)
      BY <1>3 DEF Escape
    <2>2. k # 0 /\ Len(Carried(m)) \in Nat
      BY <2>1, CarriedType
    <2>3. k # Len(Carried(m))
      BY <2>1, <2>2
    <2>4. LostStarted(p) = 1
      BY <2>1, <2>2, <2>3, StartedBefore
    <2>5. Len(buffer) <= k
      BY <1>0, <2>2
    <2>6. LostInside("body", buffer, q) = 1
      BY <2>1, <2>5, LostAmid, Zenon
    <2> QED
      BY <2>4, <2>6
  <1>4. CASE Escaped(p, b, q)
    <2>1. PICK m \in Responses, o \in Nat, k \in Nat :
            p = Amid(m, k, o) /\ q = Before(m, k + 1, o)
      BY <1>4 DEF Escaped
    <2>2. LostStarted(p) = 1
      BY <2>1, LostAmid
    <2>3. Len(buffer) <= k + 1
      BY <1>0
    <2>4. LostInside("body", buffer, q) \in {0, 1}
      BY <2>1, <2>3, InsideBefore
    <2> QED
      BY <2>2, <2>4
  <1>5. CASE Ends(p, b, q)
    <2>1. PICK m \in Responses, o \in Nat :
            p = Before(m, Len(Carried(m)), o) /\ q = InGap(o)
      BY <1>5 DEF Ends
    <2>2. Len(Carried(m)) # 0
      BY CarriedType
    <2>3. LostStarted(p) = 2
      BY <2>1, <2>2, StartedBefore
    <2>4. LostInside("body", buffer, q) = 2
      BY <2>1, LostInGap, Zenon
    <2> QED
      BY <2>3, <2>4
  <1> QED
    BY <1>1, <1>2, <1>3, <1>4, <1>5 DEF Clean

Pays(p, q) ==
  failed' + Lost(pc', msgbuf', q) <= failed + Lost(pc, msgbuf, p)

Reads(byte) == First(byte) \/ Second(byte) \/ Body(byte) \/ Unescape(byte)

LEMMA PaysFor ==
  ASSUME ReadType, NEW p, NEW q, NEW n \in {0, 1}, Fails(n),
         n + Lost(pc', msgbuf', q) <= Lost(pc, msgbuf, p)
  PROVE  Pays(p, q)
  <1>1. Lost(pc', msgbuf', q) \in 0 .. 3 /\ Lost(pc, msgbuf, p) \in 0 .. 3
    BY LostBounds
  <1> QED
    BY <1>1 DEF Pays, Fails, ReadType

\* With three reads to lose nothing that is read costs more.
LEMMA ThreeLeft ==
  ASSUME ReadType, NEW p, NEW byte \in Byte, NEW q, Reads(byte),
         Lost(pc, msgbuf, p) = 3
  PROVE  Pays(p, q)
  <1>1. Fails(0) \/ (Fails(1) /\ pc' = "send")
    BY ReadFails DEF Reads
  <1>2. CASE Fails(0)
    <2>1. Lost(pc', msgbuf', q) \in 0 .. 3
      BY LostBounds
    <2>2. 0 + Lost(pc', msgbuf', q) <= Lost(pc, msgbuf, p)
      BY <2>1
    <2> QED
      BY <1>2, <2>2, PaysFor
  <1>3. CASE Fails(1) /\ pc' = "send"
    <2>1. pc' \in Idle
      BY <1>3 DEF Idle
    <2>2. Lost(pc', msgbuf', q) = LostIdle(q) /\ LostIdle(q) \in 0 .. 2
      BY <2>1, LostBounds
    <2>3. 1 + Lost(pc', msgbuf', q) <= Lost(pc, msgbuf, p)
      BY <2>2
    <2> QED
      BY <1>3, <2>3, PaysFor
  <1> QED
    BY <1>1, <1>2, <1>3

LEMMA InsideAmid ==
  ASSUME NEW m, NEW k, NEW o, NEW buffer
  PROVE  /\ LostInside("body", buffer, Amid(m, k, o)) =
              IF Len(buffer) <= k THEN 1 ELSE 3
         /\ LostInside("escape", buffer, Amid(m, k, o)) =
              IF buffer = SubSeq(Carried(m), 1, k) THEN 0
              ELSE IF Len(buffer) <= k THEN 1 ELSE 3
         /\ LostInside("escape", buffer, Before(m, k, o)) = 3
  <1> DEFINE p == Amid(m, k, o)
             r == Before(m, k, o)
  <1>1. p.kind = "amid" /\ p.message = m /\ p.k = k
    BY DEF Amid
  <1>2. r.kind = "before" /\ r.message = m /\ r.k = k
    BY DEF Before
  <1> HIDE DEF p, r
  <1>3. LostInside("body", buffer, p) = IF Len(buffer) <= k THEN 1 ELSE 3
    BY <1>1 DEF LostInside, InStep, Calm
  <1>4. LostInside("escape", buffer, p) =
              IF buffer = SubSeq(Carried(m), 1, k) THEN 0
              ELSE IF Len(buffer) <= k THEN 1 ELSE 3
    BY <1>1 DEF LostInside, InStep, Calm
  <1>5. LostInside("escape", buffer, r) = 3
    BY <1>2 DEF LostInside, InStep, Calm
  <1> QED
    BY <1>3, <1>4, <1>5, Zenon DEF p, r

LEMMA AcceptIs ==
  ASSUME ReadType, Accept
  PROVE  /\ pc' = "send" /\ (Fails(0) \/ Fails(1))
         /\ pppfcs(PPPINITFCS, msgbuf) = PPPGOODFCS => Fails(0)
  <1>1. failed + 0 = failed
    BY DEF ReadType
  <1> QED
    BY <1>1 DEF Accept, Return, Fails

LEMMA ReturnIs ==
  ASSUME Return(FALSE)
  PROVE  pc' = "send" /\ Fails(1)
  BY DEF Return, Fails

\* The reader waits for a byte of an answer, or for its end.
LEMMA BodyClean ==
  ASSUME ReadType, NEW p, NEW b, NEW q, Clean(p, b, q), Body(b)
  PROVE  Pays(p, q)
  <1>1. b \in Byte
    BY FlowsType DEF Flows
  <1>2. pc = "body" /\ Lost(pc, msgbuf, p) = LostInside("body", msgbuf, p)
    BY BodyIs, LostBounds
  <1>3. ASSUME Lost(pc, msgbuf, p) = 3 PROVE Pays(p, q)
    BY <1>1, <1>3, ThreeLeft DEF Reads
  <1>4. Len(msgbuf) \in Nat /\ failed + 0 = failed
    BY DEF ReadType
  <1>5. ASSUME b = FLAG
        PROVE  /\ Fails(0) \/ Fails(1)
               /\ Lost(pc', msgbuf', q) = LostIdle(q)
    <2>1. CASE Len(msgbuf) + 1 > MaxIndex
      <3>1. pc' = "send" /\ Fails(1)
        BY <2>1, BodyIs, ReturnIs, Zenon
      <3> QED
        BY <3>1, LostBounds DEF Idle
    <2>2. CASE ~ (Len(msgbuf) + 1 > MaxIndex)
      <3>1. Accept
        BY <1>5, <2>2, BodyIs, Zenon
      <3>2. pc' = "send" /\ (Fails(0) \/ Fails(1))
        BY <3>1, AcceptIs, Zenon
      <3> QED
        BY <3>2, LostBounds DEF Idle
    <2> QED
      BY <2>1, <2>2
  <1>6. CASE Starts(p, b, q)
    <2>1. PICK m \in Responses, o \in Nat :
            p = InGap(o) /\ b = FLAG /\ q = Before(m, 0, o)
      BY <1>6 DEF Starts
    <2>2. Lost(pc, msgbuf, p) = 2
      BY <1>2, <2>1, LostInGap
    <2>3. 0 + 1 # Len(Carried(m))
      BY <2>1, CarriedType
    <2>4. LostIdle(q) = 1
      BY <2>1, <2>3, IdleBefore
    <2>5. Lost(pc', msgbuf', q) = 1 /\ (Fails(0) \/ Fails(1))
      BY <1>5, <2>1, <2>4
    <2>6. /\ 0 + Lost(pc', msgbuf', q) <= Lost(pc, msgbuf, p)
          /\ 1 + Lost(pc', msgbuf', q) <= Lost(pc, msgbuf, p)
      BY <2>2, <2>5
    <2> QED
      BY <2>5, <2>6, PaysFor
  <1>7. CASE Plain(p, b, q)
    <2>1. PICK m \in Responses, o \in Nat, k \in Nat :
            /\ k < Len(Carried(m)) /\ Carried(m)[k + 1] \notin Special
            /\ p = Before(m, k, o) /\ b = Carried(m)[k + 1]
            /\ q = Before(m, k + 1, o)
      BY <1>7 DEF Plain
    <2>2. Lost(pc, msgbuf, p) =
            IF msgbuf = SubSeq(Carried(m), 1, k) THEN 0
            ELSE IF Len(msgbuf) <= k THEN 1 ELSE 3
      BY <1>2, <2>1, InsideBefore
    <2>3. /\ k \in 0 .. Len(Carried(m)) /\ Len(Carried(m)) \in Nat
          /\ Len(Carried(m)) < MaxIndex /\ MaxIndex \in Nat
      BY <2>1, CarriedType
    <2>4. Len(SubSeq(Carried(m), 1, k)) = k
      BY <2>3, CarriedPrefix
    <2>5. CASE Len(msgbuf) <= k
      <3>1. ~ (Len(msgbuf) + 1 > MaxIndex)
        BY <1>4, <2>1, <2>3, <2>5
      <3>2. Goes("body", Append(msgbuf, b))
        BY <2>1, <3>1, BodyIs, Zenon
      <3>3. /\ pc' = "body" /\ msgbuf' = Append(msgbuf, b) /\ Fails(0)
        BY <1>4, <3>2 DEF Goes, Fails
      <3>4. Lost(pc', msgbuf', q) =
              IF msgbuf' = SubSeq(Carried(m), 1, k + 1) THEN 0
              ELSE IF Len(msgbuf') <= k + 1 THEN 1 ELSE 3
        <4>1. Lost(pc', msgbuf', q) = LostInside("body", msgbuf', q)
          BY <3>3, LostBounds
        <4> QED
          BY <2>1, <4>1, InsideBefore
      <3>5. CASE msgbuf = SubSeq(Carried(m), 1, k)
        <4>1. msgbuf' = SubSeq(Carried(m), 1, k + 1)
          BY <2>1, <2>3, <3>3, <3>5, CarriedPrefix
        <4>2. 0 + Lost(pc', msgbuf', q) <= Lost(pc, msgbuf, p)
          BY <2>2, <3>4, <3>5, <4>1
        <4> QED
          BY <3>3, <4>2, PaysFor
      <3>6. CASE msgbuf # SubSeq(Carried(m), 1, k)
        <4>1. Len(msgbuf') <= k + 1
          BY <1>1, <2>5, <3>3 DEF ReadType
        <4>2. 0 + Lost(pc', msgbuf', q) <= Lost(pc, msgbuf, p)
          BY <2>2, <2>5, <3>4, <3>6, <4>1
        <4> QED
          BY <3>3, <4>2, PaysFor
      <3> QED
        BY <3>5, <3>6
    <2>6. CASE ~ (Len(msgbuf) <= k)
      <3>1. msgbuf # SubSeq(Carried(m), 1, k)
        BY <2>1, <2>4, <2>6
      <3> QED
        BY <1>3, <2>2, <2>6, <3>1
    <2> QED
      BY <2>5, <2>6
  <1>8. CASE Escape(p, b, q)
    <2>1. PICK m \in Responses, o \in Nat, k \in Nat :
            /\ k < Len(Carried(m)) /\ p = Before(m, k, o) /\ b = ESCAPE
            /\ q = Amid(m, k, o)
      BY <1>8 DEF Escape
    <2>2. Lost(pc, msgbuf, p) =
            IF msgbuf = SubSeq(Carried(m), 1, k) THEN 0
            ELSE IF Len(msgbuf) <= k THEN 1 ELSE 3
      BY <1>2, <2>1, InsideBefore
    <2>3. /\ k \in 0 .. Len(Carried(m)) /\ Len(Carried(m)) \in Nat
          /\ Len(Carried(m)) < MaxIndex /\ MaxIndex \in Nat
      BY <2>1, CarriedType
    <2>4. Len(SubSeq(Carried(m), 1, k)) = k
      BY <2>3, CarriedPrefix
    <2>5. CASE Len(msgbuf) <= k
      <3>1. ~ (Len(msgbuf) + 1 > MaxIndex)
        BY <1>4, <2>1, <2>3, <2>5
      <3>2. Goes("escape", msgbuf)
        BY <2>1, <3>1, BodyIs, Zenon
      <3>3. /\ pc' = "escape" /\ msgbuf' = msgbuf /\ Fails(0)
        BY <1>4, <3>2 DEF Goes, Fails
      <3>4. Lost(pc', msgbuf', q) =
              IF msgbuf = SubSeq(Carried(m), 1, k) THEN 0
              ELSE IF Len(msgbuf) <= k THEN 1 ELSE 3
        <4>1. Lost(pc', msgbuf', q) = LostInside("escape", msgbuf, q)
          BY <3>3, LostBounds
        <4> QED
          BY <2>1, <4>1, InsideAmid
      <3>5. 0 + Lost(pc', msgbuf', q) <= Lost(pc, msgbuf, p)
        BY <2>2, <3>4
      <3> QED
        BY <3>3, <3>5, PaysFor
    <2>6. CASE ~ (Len(msgbuf) <= k)
      <3>1. msgbuf # SubSeq(Carried(m), 1, k)
        BY <2>1, <2>4, <2>6
      <3> QED
        BY <1>3, <2>2, <2>6, <3>1
    <2> QED
      BY <2>5, <2>6
  <1>9. CASE Escaped(p, b, q)
    <2>1. PICK m \in Responses, o \in Nat, k \in Nat :
            /\ k < Len(Carried(m)) /\ p = Amid(m, k, o)
            /\ b = Stands(Carried(m)[k + 1]) /\ q = Before(m, k + 1, o)
      BY <1>9 DEF Escaped
    <2>2. Lost(pc, msgbuf, p) = IF Len(msgbuf) <= k THEN 1 ELSE 3
      BY <1>2, <2>1, InsideAmid
    <2>3. /\ Len(Carried(m)) \in Nat
          /\ Len(Carried(m)) < MaxIndex /\ MaxIndex \in Nat
      BY <2>1, CarriedType
    <2>4. b \notin Special
      BY <2>1, SpecialBytes
    <2>5. CASE Len(msgbuf) <= k
      <3>1. ~ (Len(msgbuf) + 1 > MaxIndex)
        BY <1>4, <2>1, <2>3, <2>5
      <3>2. Goes("body", Append(msgbuf, b))
        BY <2>4, <3>1, BodyIs, Zenon
      <3>3. /\ pc' = "body" /\ msgbuf' = Append(msgbuf, b) /\ Fails(0)
        BY <1>4, <3>2 DEF Goes, Fails
      <3>4. Len(msgbuf') <= k + 1
        BY <1>1, <2>5, <3>3 DEF ReadType
      <3>5. Lost(pc', msgbuf', q) \in {0, 1}
        <4>1. Lost(pc', msgbuf', q) = LostInside("body", msgbuf', q)
          BY <3>3, LostBounds
        <4> QED
          BY <2>1, <3>4, <4>1, InsideBefore
      <3>6. 0 + Lost(pc', msgbuf', q) <= Lost(pc, msgbuf, p)
        BY <2>2, <2>5, <3>5
      <3> QED
        BY <3>3, <3>6, PaysFor
    <2>6. CASE ~ (Len(msgbuf) <= k)
      BY <1>3, <2>2, <2>6
    <2> QED
      BY <2>5, <2>6
  <1>10. CASE Ends(p, b, q)
    <2>1. PICK m \in Responses, o \in Nat :
            p = Before(m, Len(Carried(m)), o) /\ b = FLAG /\ q = InGap(o)
      BY <1>10 DEF Ends
    <2>2. Lost(pc, msgbuf, p) =
            IF msgbuf = SubSeq(Carried(m), 1, Len(Carried(m))) THEN 0
            ELSE IF Len(msgbuf) <= Len(Carried(m)) THEN 1 ELSE 3
      BY <1>2, <2>1, InsideBefore
    <2>3. /\ Len(Carried(m)) \in 0 .. Len(Carried(m)) /\ Len(Carried(m)) \in Nat
          /\ Len(Carried(m)) < MaxIndex /\ MaxIndex \in Nat
      BY <2>1, CarriedType
    <2>4. LostIdle(q) = 0
      BY <2>1, LostInGap
    <2>5. Lost(pc', msgbuf', q) = 0 /\ (Fails(0) \/ Fails(1))
      BY <1>5, <2>1, <2>4
    <2>6. CASE msgbuf = SubSeq(Carried(m), 1, Len(Carried(m)))
      <3>1. msgbuf = Carried(m)
        BY <2>3, <2>6, CarriedPrefix
      <3>2. ~ (Len(msgbuf) + 1 > MaxIndex)
        BY <2>3, <3>1
      <3>3. Accept
        BY <2>1, <3>2, BodyIs, Zenon
      <3>4. pppfcs(PPPINITFCS, msgbuf) = PPPGOODFCS
        BY <3>1, CarriedType, Zenon
      <3>5. Fails(0)
        BY <3>3, <3>4, AcceptIs, Zenon
      <3>6. 0 + Lost(pc', msgbuf', q) <= Lost(pc, msgbuf, p)
        BY <2>2, <2>5, <2>6
      <3> QED
        BY <3>5, <3>6, PaysFor
    <2>7. CASE msgbuf # SubSeq(Carried(m), 1, Len(Carried(m)))
      <3>1. /\ 0 + Lost(pc', msgbuf', q) <= Lost(pc, msgbuf, p)
            /\ 1 + Lost(pc', msgbuf', q) <= Lost(pc, msgbuf, p)
        BY <2>2, <2>5, <2>7
      <3> QED
        BY <2>5, <3>1, PaysFor
    <2> QED
      BY <2>6, <2>7
  <1> QED
    BY <1>6, <1>7, <1>8, <1>9, <1>10 DEF Clean

\* The reader waits for the byte after an escape.
LEMMA UnescapeClean ==
  ASSUME ReadType, NEW p, NEW b, NEW q, Clean(p, b, q), Unescape(b)
  PROVE  Pays(p, q)
  <1>1. b \in Byte
    BY FlowsType DEF Flows
  <1>2. pc = "escape" /\ Lost(pc, msgbuf, p) = LostInside("escape", msgbuf, p)
    BY UnescapeIs, LostBounds
  <1>3. ASSUME Lost(pc, msgbuf, p) = 3 PROVE Pays(p, q)
    BY <1>1, <1>3, ThreeLeft DEF Reads
  <1>4. Len(msgbuf) \in Nat /\ failed + 0 = failed
    BY DEF ReadType
  <1>5. CASE Starts(p, b, q)
    <2>1. PICK m \in Responses, o \in Nat :
            p = InGap(o) /\ b = FLAG /\ q = Before(m, 0, o)
      BY <1>5 DEF Starts
    <2>2. Lost(pc, msgbuf, p) = 2
      BY <1>2, <2>1, LostInGap
    <2>3. 0 + 1 # Len(Carried(m))
      BY <2>1, CarriedType
    <2>4. LostIdle(q) = 1
      BY <2>1, <2>3, IdleBefore
    <2>5. b \notin {ESCAPED_FLAG, ESCAPED_ESCAPE}
      BY <2>1, SpecialBytes DEF Special
    <2>6. pc' = "send" /\ Fails(1)
      BY <2>5, UnescapeIs, ReturnIs, Zenon
    <2>7. Lost(pc', msgbuf', q) = 1
      BY <2>4, <2>6, LostBounds DEF Idle
    <2>8. 1 + Lost(pc', msgbuf', q) <= Lost(pc, msgbuf, p)
      BY <2>2, <2>7
    <2> QED
      BY <2>6, <2>8, PaysFor
  <1>6. ASSUME NEW m, NEW k, NEW o, p = Before(m, k, o) PROVE Pays(p, q)
    BY <1>2, <1>3, <1>6, InsideAmid
  <1>7. CASE Plain(p, b, q)
    BY <1>6, <1>7 DEF Plain
  <1>8. CASE Escape(p, b, q)
    BY <1>6, <1>8 DEF Escape
  <1>9. CASE Ends(p, b, q)
    BY <1>6, <1>9 DEF Ends
  <1>10. CASE Escaped(p, b, q)
    <2>1. PICK m \in Responses, o \in Nat, k \in Nat :
            /\ k < Len(Carried(m)) /\ Carried(m)[k + 1] \in Special
            /\ p = Amid(m, k, o)
            /\ b = Stands(Carried(m)[k + 1]) /\ q = Before(m, k + 1, o)
      BY <1>10 DEF Escaped
    <2> DEFINE c == Carried(m)[k + 1]
    <2>2. Lost(pc, msgbuf, p) =
            IF msgbuf = SubSeq(Carried(m), 1, k) THEN 0
            ELSE IF Len(msgbuf) <= k THEN 1 ELSE 3
      BY <1>2, <2>1, InsideAmid
    <2>3. k \in 0 .. Len(Carried(m)) /\ Len(Carried(m)) \in Nat
      BY <2>1, CarriedType
    <2>4. Len(SubSeq(Carried(m), 1, k)) = k
      BY <2>3, CarriedPrefix
    <2>5. Goes("body", Append(msgbuf, c))
      <3>1. CASE c = FLAG
        <4>1. b = ESCAPED_FLAG
          BY <2>1, <3>1 DEF Stands
        <4> QED
          BY <3>1, <4>1, UnescapeIs, Zenon
      <3>2. CASE c = ESCAPE
        <4>1. b = ESCAPED_ESCAPE
          BY <2>1, <3>2, SpecialBytes DEF Stands
        <4> QED
          BY <3>2, <4>1, UnescapeIs, Zenon
      <3> QED
        BY <2>1, <3>1, <3>2 DEF Special
    <2>6. /\ pc' = "body" /\ msgbuf' = Append(msgbuf, c) /\ Fails(0)
      BY <1>4, <2>5 DEF Goes, Fails
    <2>7. Lost(pc', msgbuf', q) =
            IF msgbuf' = SubSeq(Carried(m), 1, k + 1) THEN 0
            ELSE IF Len(msgbuf') <= k + 1 THEN 1 ELSE 3
      <3>1. Lost(pc', msgbuf', q) = LostInside("body", msgbuf', q)
        BY <2>6, LostBounds
      <3> QED
        BY <2>1, <3>1, InsideBefore
    <2>8. Len(msgbuf') = Len(msgbuf) + 1
      <3>1. c \in Byte
        BY <2>1, SpecialBytes DEF Special
      <3> QED
        BY <2>6, <3>1 DEF ReadType
    <2>9. CASE msgbuf = SubSeq(Carried(m), 1, k)
      <3>1. msgbuf' = SubSeq(Carried(m), 1, k + 1)
        BY <2>1, <2>3, <2>6, <2>9, CarriedPrefix
      <3>2. 0 + Lost(pc', msgbuf', q) <= Lost(pc, msgbuf, p)
        BY <2>2, <2>7, <2>9, <3>1
      <3> QED
        BY <2>6, <3>2, PaysFor
    <2>10. CASE msgbuf # SubSeq(Carried(m), 1, k) /\ Len(msgbuf) <= k
      <3>1. Len(msgbuf') <= k + 1
        BY <1>4, <2>8, <2>10
      <3>2. 0 + Lost(pc', msgbuf', q) <= Lost(pc, msgbuf, p)
        BY <2>2, <2>7, <2>10, <3>1
      <3> QED
        BY <2>6, <3>2, PaysFor
    <2>11. CASE msgbuf # SubSeq(Carried(m), 1, k) /\ ~ (Len(msgbuf) <= k)
      BY <1>3, <2>2, <2>11
    <2> QED
      BY <2>9, <2>10, <2>11
  <1> QED
    BY <1>5, <1>7, <1>8, <1>9, <1>10 DEF Clean

LEMMA CleanPays ==
  ASSUME ReadType, NEW p, NEW b, NEW q, Clean(p, b, q), Reads(b)
  PROVE  Pays(p, q)
  <1>1. failed + 0 = failed
    BY DEF ReadType
  <1>2. CASE First(b)
    <2>1. pc = "first" /\ pc' = "second" /\ Fails(0)
      BY <1>1, <1>2 DEF First, Goes, Fails
    <2>2. /\ Lost(pc, msgbuf, p) = LostIdle(p)
          /\ Lost(pc', msgbuf', q) = LostStarted(q)
      BY <2>1, LostBounds DEF Idle
    <2>3. LostStarted(q) <= LostIdle(p)
      BY FirstClean
    <2>4. LostStarted(q) \in 0 .. 3
      BY <2>2, LostBounds
    <2>5. 0 + Lost(pc', msgbuf', q) <= Lost(pc, msgbuf, p)
      BY <2>2, <2>3, <2>4
    <2> QED
      BY <2>1, <2>5, PaysFor
  <1>3. CASE Second(b)
    <2>1. /\ pc = "second" /\ pc' = "body" /\ Fails(0)
          /\ msgbuf' = IF b = FLAG THEN <<>> ELSE <<b>>
      BY <1>1, <1>3 DEF Second, Goes, Fails
    <2>2. /\ Lost(pc, msgbuf, p) = LostStarted(p)
          /\ Lost(pc', msgbuf', q) = LostInside("body", msgbuf', q)
      BY <2>1, LostBounds
    <2>3. LostInside("body", msgbuf', q) <= LostStarted(p)
      BY <2>1, SecondClean
    <2>4. LostInside("body", msgbuf', q) \in 0 .. 3
      BY <2>2, LostBounds
    <2>5. 0 + Lost(pc', msgbuf', q) <= Lost(pc, msgbuf, p)
      BY <2>2, <2>3, <2>4
    <2> QED
      BY <2>1, <2>5, PaysFor
  <1>4. CASE Body(b)
    BY <1>4, BodyClean
  <1>5. CASE Unescape(b)
    BY <1>5, UnescapeClean
  <1> QED
    BY <1>2, <1>3, <1>4, <1>5 DEF Reads

\* The bytes that are owed are not fewer after a byte was read, and three
\* reads can be lost for one that was damaged.
Count(p) == failed + Lost(pc, msgbuf, p) + 3 * p.owed

LEMMA FlowsPay ==
  ASSUME ReadType, NEW p, NEW b, NEW q, Flows(p, b, q), Reads(b)
  PROVE  Count(q)' <= Count(p)
  <1>1. Place(p) /\ Place(q) /\ b \in Byte
    BY FlowsType
  <1>2. p.owed \in Nat /\ q.owed \in Nat /\ p.owed >= q.owed
    BY <1>1, FlowsOwed
  <1>3. /\ Lost(pc, msgbuf, p) \in 0 .. 3 /\ Lost(pc', msgbuf', q) \in 0 .. 3
        /\ failed \in Nat /\ failed' \in Nat
        /\ ReadType'
    <2>1. ReadType'
      BY <1>1, ReadFails DEF Reads
    <2>2. failed \in Nat /\ failed' \in Nat
      BY <2>1 DEF ReadType
    <2> QED
      BY <2>1, <2>2, LostBounds
  <1>4. CASE Clean(p, b, q)
    <2>1. Pays(p, q)
      BY <1>4, CleanPays
    <2> QED
      BY <1>2, <1>3, <2>1 DEF Pays, Count
  <1>5. CASE Damaged(p, b, q)
    <2>1. p.owed > q.owed
      BY <1>5 DEF Damaged
    <2>2. Fails(0) \/ (Fails(1) /\ pc' = "send")
      BY <1>1, ReadFails DEF Reads
    <2>3. failed' + Lost(pc', msgbuf', q) <= failed + 3
      <3>1. CASE Fails(0)
        BY <1>3, <3>1 DEF Fails
      <3>2. CASE Fails(1) /\ pc' = "send"
        <4>1. Lost(pc', msgbuf', q) \in 0 .. 2
          BY <3>2, LostBounds DEF Idle
        <4> QED
          BY <1>3, <3>2, <4>1 DEF Fails
      <3> QED
        BY <2>2, <3>1, <3>2
    <2> QED
      BY <1>2, <1>3, <2>1, <2>3 DEF Count
  <1> QED
    BY <1>4, <1>5 DEF Flows

-----------------------------------------------------------------------------
(* Three reads for a fault.                                                *)

FaultInv ==
  /\ ReadType /\ faults \in Nat
  /\ \E p : Leads(p, wire, InGap(0)) /\ Count(p) <= 3 * faults

LEMMA LostRaised ==
  ASSUME NEW p, Place(p), NEW state, NEW buffer
  PROVE  Lost(state, buffer, Raised(p)) = Lost(state, buffer, p)
  <1>1. /\ Raised(p).kind = p.kind /\ Raised(p).message = p.message
        /\ Raised(p).k = p.k
    <2>1. ASSUME NEW o, p = InGap(o)
          PROVE  /\ Raised(p).kind = p.kind /\ Raised(p).message = p.message
                 /\ Raised(p).k = p.k
      BY <2>1 DEF Raised, InGap
    <2>2. ASSUME NEW m, NEW k, NEW o, p = Before(m, k, o)
          PROVE  /\ Raised(p).kind = p.kind /\ Raised(p).message = p.message
                 /\ Raised(p).k = p.k
      BY <2>2 DEF Raised, Before
    <2>3. ASSUME NEW m, NEW k, NEW o, p = Amid(m, k, o)
          PROVE  /\ Raised(p).kind = p.kind /\ Raised(p).message = p.message
                 /\ Raised(p).k = p.k
      BY <2>3 DEF Raised, Amid
    <2> QED
      BY <2>1, <2>2, <2>3, Zenon DEF Place
  <1> DEFINE r == Raised(p)
  <1> HIDE DEF r
  <1>2. r.kind = p.kind /\ r.message = p.message /\ r.k = p.k
    BY <1>1 DEF r
  <1>3. LostIdle(r) = LostIdle(p)
    BY <1>2 DEF LostIdle, OneLeft
  <1>4. LostStarted(r) = LostStarted(p)
    BY <1>2 DEF LostStarted
  <1>5. LostInside(state, buffer, r) = LostInside(state, buffer, p)
    BY <1>2 DEF LostInside, InStep, Calm
  <1>6. Lost(state, buffer, r) = Lost(state, buffer, p)
    BY <1>3, <1>4, <1>5 DEF Lost
  <1> QED
    BY <1>6 DEF r

\* What arrives after the bytes that were not read.
LEMMA ArrivingPays ==
  ASSUME FaultInv, NEW t, Arrives(t),
         \/ Leads(InGap(0), t, InGap(0)) /\ faults' = faults
         \/ Recovers(t) /\ faults' = faults + 1
  PROVE  FaultInv'
  <1>1. PICK p : Leads(p, wire, InGap(0)) /\ Count(p) <= 3 * faults
    BY DEF FaultInv
  <1>2. /\ pc = "sent" /\ pc' = "first" /\ wire' = wire \o t
        /\ msgbuf' = msgbuf /\ failed' = failed
    BY DEF Arrives
  <1>3. ReadType /\ ReadType' /\ faults \in Nat /\ failed \in Nat
    BY <1>2 DEF FaultInv, ReadType
  <1>4. faults' \in Nat
    BY <1>3
  <1>5. Place(p)
    BY <1>1, Zenon DEF Leads
  <1>6. p.owed \in Nat /\ Raised(p).owed = p.owed + 1
    BY <1>5, PlaceRaised, Zenon
  <1>7. \A x : /\ Lost(pc, msgbuf, x) = LostIdle(x)
               /\ Lost(pc', msgbuf', x) = LostIdle(x)
               /\ LostIdle(x) \in 0 .. 2
    BY <1>2, LostBounds DEF Idle
  <1>8. Lost(pc, msgbuf, Raised(p)) = Lost(pc, msgbuf, p)
    BY <1>5, LostRaised, Zenon
  <1>9. CASE Leads(InGap(0), t, InGap(0)) /\ faults' = faults
    <2>1. Leads(p, wire', InGap(0))
      BY <1>1, <1>2, <1>9, LeadsOn
    <2>2. Count(p)' <= 3 * faults'
      BY <1>1, <1>2, <1>7, <1>9 DEF Count
    <2> QED
      BY <1>3, <1>4, <2>1, <2>2 DEF FaultInv
  <1>10. CASE Recovers(t) /\ faults' = faults + 1
    <2>1. PICK o \in {0, 1} : Leads(InGap(o), t, InGap(0))
      BY <1>10 DEF Recovers
    <2>2. CASE o = 0
      <3>1. Leads(p, wire', InGap(0))
        BY <1>1, <1>2, <2>1, <2>2, LeadsOn
      <3>2. Count(p)' <= 3 * faults'
        BY <1>1, <1>2, <1>3, <1>6, <1>7, <1>10 DEF Count
      <3> QED
        BY <1>3, <1>4, <3>1, <3>2 DEF FaultInv
    <2>3. CASE o = 1
      <3>1. Leads(Raised(p), wire, InGap(1))
        BY <1>1, LeadsRaised, Gap
      <3>2. Leads(Raised(p), wire', InGap(0))
        BY <1>2, <2>1, <2>3, <3>1, LeadsOn
      <3>3. Count(Raised(p))' <= 3 * faults'
        <4>1. LostIdle(Raised(p)) = LostIdle(p)
          BY <1>7, <1>8
        <4>2. Count(p) = failed + LostIdle(p) + 3 * p.owed
          BY <1>7 DEF Count
        <4>3. Count(Raised(p))' = failed + LostIdle(p) + 3 * (p.owed + 1)
          BY <1>2, <1>6, <1>7, <4>1 DEF Count
        <4> QED
          BY <1>1, <1>3, <1>6, <1>7, <1>10, <4>2, <4>3
      <3> QED
        BY <1>3, <1>4, <3>2, <3>3 DEF FaultInv
    <2> QED
      BY <2>1, <2>2, <2>3
  <1> QED
    BY <1>9, <1>10

LEMMA AnsweringPays ==
  ASSUME FaultInv, Answering
  PROVE  FaultInv'
  <1>1. CASE Answer
    <2>1. PICK m \in Responses : Arrives(HdlcFrame(m))
      BY <1>1 DEF Answer, Answers
    <2>2. faults' = faults
      BY <1>1 DEF Answer
    <2> QED
      BY <2>1, <2>2, AnswerLeads, ArrivingPays
  <1>2. CASE NoAnswer
    <2>1. Arrives(<<>>) /\ faults' = faults
      BY <1>2 DEF NoAnswer
    <2>2. Leads(InGap(0), <<>>, InGap(0))
      BY Gap, LeadsNowhere
    <2> QED
      BY <2>1, <2>2, ArrivingPays
  <1>3. CASE AnswerHit
    <2>1. PICK m \in Responses : Hit(HdlcFrame(m))
      BY <1>3 DEF AnswerHit, Answers
    <2>2. faults' = faults + 1
      BY <1>3 DEF AnswerHit
    <2> DEFINE w == HdlcFrame(m)
    <2>3. Leads(InGap(0), w, InGap(0))
      BY AnswerLeads
    <2>4. FLAG \in Byte /\ ESCAPE \in Byte /\ 0 \in Byte
      BY SpecialBytes DEF Byte
    <2>5. PICK i \in DOMAIN w :
            \/ \E byte \in {FLAG, ESCAPE, 0} : Arrives([w EXCEPT ![i] = byte])
            \/ \E byte \in {FLAG, ESCAPE, 0} : Arrives(InsertAt(w, i, byte))
            \/ Arrives(RemoveAt(w, i))
            \/ Arrives(SubSeq(w, 1, i - 1))
      BY <2>1 DEF Hit
    <2> HIDE DEF w
    <2>6. \A byte \in Byte :
            /\ Recovers([w EXCEPT ![i] = byte])
            /\ Recovers(InsertAt(w, i, byte))
            /\ Recovers(RemoveAt(w, i)) /\ Recovers(SubSeq(w, 1, i - 1))
      BY <2>3, HitLeads, Zenon
    <2>7. PICK t : Arrives(t) /\ Recovers(t)
      <3>1. ASSUME NEW byte \in {FLAG, ESCAPE, 0},
                   Arrives([w EXCEPT ![i] = byte])
            PROVE  \E t : Arrives(t) /\ Recovers(t)
        BY <2>4, <2>6, <3>1
      <3>2. ASSUME NEW byte \in {FLAG, ESCAPE, 0}, Arrives(InsertAt(w, i, byte))
            PROVE  \E t : Arrives(t) /\ Recovers(t)
        BY <2>4, <2>6, <3>2
      <3>3. ASSUME Arrives(RemoveAt(w, i))
            PROVE  \E t : Arrives(t) /\ Recovers(t)
        BY <2>4, <2>6, <3>3
      <3>4. ASSUME Arrives(SubSeq(w, 1, i - 1))
            PROVE  \E t : Arrives(t) /\ Recovers(t)
        BY <2>4, <2>6, <3>4
      <3> QED
        BY <2>5, <3>1, <3>2, <3>3, <3>4, Zenon
    <2> QED
      BY <2>2, <2>7, ArrivingPays
  <1> QED
    BY <1>1, <1>2, <1>3 DEF Answering

LEMMA ReadPays ==
  ASSUME FaultInv, Read
  PROVE  FaultInv'
  <1>1. PICK p : Leads(p, wire, InGap(0)) /\ Count(p) <= 3 * faults
    BY DEF FaultInv
  <1>2. wire # <<>> /\ wire' = Tail(wire) /\ faults' = faults
    BY DEF Read
  <1>3. Reads(Head(wire))
    BY DEF Read, Reads
  <1>4. PICK q : Flows(p, Head(wire), q) /\ Leads(q, Tail(wire), InGap(0))
    BY <1>1, <1>2, LeadsFirst, Zenon
  <1>5. ReadType /\ faults \in Nat
    BY DEF FaultInv
  <1>6. Count(q)' <= Count(p)
    BY <1>3, <1>4, <1>5, FlowsPay
  <1>7. ReadType'
    <2>1. Head(wire) \in Byte
      BY <1>4, FlowsType
    <2> QED
      BY <1>3, <1>5, <2>1, ReadFails DEF Reads
  <1>8. Count(p) \in Int /\ Count(q)' \in Int
    <2>1. p.owed \in Nat /\ q.owed \in Nat
      BY <1>4, FlowsOwed
    <2>2. failed \in Nat /\ failed' \in Nat
      BY <1>5, <1>7 DEF ReadType
    <2> QED
      BY <2>1, <2>2, LostBounds DEF Count
  <1>9. Count(q)' <= 3 * faults'
    BY <1>1, <1>2, <1>5, <1>6, <1>8
  <1>10. Leads(q, wire', InGap(0))
    BY <1>2, <1>4
  <1> QED
    BY <1>2, <1>5, <1>7, <1>9, <1>10 DEF FaultInv

LEMMA TimeOutPays ==
  ASSUME FaultInv, TimeOut
  PROVE  FaultInv'
  <1>1. PICK p : Leads(p, wire, InGap(0)) /\ Count(p) <= 3 * faults
    BY DEF FaultInv
  <1>2. /\ pc \in {"first", "second", "body"} /\ pc' = "send"
        /\ msgbuf' = <<>> /\ wire' = wire
    BY DEF TimeOut, Awaited, Return
  <1>3. ReadType /\ faults \in Nat /\ failed \in Nat
    BY DEF FaultInv, ReadType
  <1>4. Place(p)
    BY <1>1, Zenon DEF Leads
  <1>5. p.owed \in Nat
    BY <1>4, PlaceRaised, Zenon
  <1>6. Lost(pc', msgbuf', p) = LostIdle(p) /\ LostIdle(p) \in 0 .. 2
    BY <1>2, LostBounds DEF Idle
  <1>7. Lost(pc, msgbuf, p) \in 0 .. 3
    BY LostBounds
  <1>8. CASE wire # <<>>
    <2>1. faults' = faults + 1 /\ failed' = failed + 1
      BY <1>8 DEF TimeOut, Return
    <2>2. Count(p)' <= 3 * faults'
      BY <1>1, <1>3, <1>5, <1>6, <1>7, <2>1 DEF Count
    <2>3. ReadType' /\ faults' \in Nat
      BY <1>2, <1>3, <2>1 DEF ReadType
    <2> QED
      BY <1>1, <1>2, <2>2, <2>3 DEF FaultInv
  <1>9. CASE wire = <<>>
    <2>1. p = InGap(0)
      BY <1>1, <1>9, LeadsNowhere
    <2>2. LostIdle(p) = 0
      BY <2>1, LostInGap
    <2>3. faults' = faults
      BY <1>9 DEF TimeOut
    <2>4. failed' + 0 <= failed + Lost(pc, msgbuf, p) /\ failed' \in Nat
      <3>1. CASE pc = "first"
        <4>1. failed' = failed
          BY <1>9, <3>1 DEF TimeOut, Return
        <4> QED
          BY <1>3, <1>7, <4>1
      <3>2. CASE pc # "first"
        <4>1. failed' = failed + 1
          BY <1>9, <3>2 DEF TimeOut, Return
        <4>2. Lost(pc, msgbuf, p) \in {1, 2}
          BY <1>2, <2>1, <3>2, LostBounds, LostInGap
        <4> QED
          BY <1>3, <4>1, <4>2
      <3> QED
        BY <3>1, <3>2
    <2>5. Count(p)' <= 3 * faults'
      BY <1>1, <1>3, <1>5, <1>6, <1>7, <2>2, <2>3, <2>4 DEF Count
    <2>6. ReadType' /\ faults' \in Nat
      BY <1>2, <1>3, <2>3, <2>4 DEF ReadType
    <2> QED
      BY <1>1, <1>2, <2>5, <2>6 DEF FaultInv
  <1> QED
    BY <1>8, <1>9

LEMMA FaultInvNext == FaultInv /\ [FrameNext]_framevars => FaultInv'
  <1> SUFFICES ASSUME FaultInv, [FrameNext]_framevars
               PROVE  FaultInv'
    OBVIOUS
  <1>1. ASSUME wire' = wire, failed' = failed, msgbuf' = msgbuf,
               faults' = faults,
               pc' = pc \/ (pc \in Idle /\ pc' \in Idle)
        PROVE  FaultInv'
    <2>1. PICK p : Leads(p, wire, InGap(0)) /\ Count(p) <= 3 * faults
      BY DEF FaultInv
    <2>2. Lost(pc', msgbuf', p) = Lost(pc, msgbuf, p)
      BY <1>1, LostBounds
    <2>3. Count(p)' <= 3 * faults'
      BY <1>1, <2>1, <2>2 DEF Count
    <2>4. ReadType' /\ faults' \in Nat
      BY <1>1 DEF FaultInv, ReadType, Idle
    <2> QED
      BY <1>1, <2>1, <2>3, <2>4 DEF FaultInv
  <1>2. CASE Writing
    <2>1. pc = "send" /\ pc' = "sent"
      BY <1>2 DEF Writing, Write
    <2>2. /\ wire' = wire /\ failed' = failed /\ msgbuf' = msgbuf
          /\ faults' = faults
      BY <1>2 DEF Writing, Write, observers
    <2> QED
      BY <1>1, <2>1, <2>2 DEF Idle
  <1>3. CASE Answering
    BY <1>3, AnsweringPays
  <1>4. CASE Read
    BY <1>4, ReadPays
  <1>5. CASE TimeOut
    BY <1>5, TimeOutPays
  <1>6. CASE UNCHANGED framevars
    BY <1>1, <1>6 DEF framevars
  <1> QED
    BY <1>2, <1>3, <1>4, <1>5, <1>6 DEF FrameNext

THEOREM ThreeLostPerFault == FrameSpec => []ThreePerFault
  <1>1. FrameInit => FaultInv
    <2> SUFFICES ASSUME FrameInit PROVE FaultInv
      OBVIOUS
    <2>1. pc = "send" /\ wire = <<>> /\ msgbuf = <<>>
      BY DEF FrameInit
    <2>2. failed = 0 /\ faults = 0
      BY DEF FrameInit
    <2>3. Leads(InGap(0), wire, InGap(0))
      BY <2>1, Gap, LeadsNowhere
    <2>4. Lost(pc, msgbuf, InGap(0)) = 0
      BY <2>1, LostBounds, LostInGap DEF Idle
    <2>5. Count(InGap(0)) <= 3 * faults
      BY <2>2, <2>4, Gap DEF Count
    <2> QED
      BY <2>1, <2>2, <2>3, <2>5 DEF FaultInv, ReadType
  <1>2. FaultInv => ThreePerFault
    <2> SUFFICES ASSUME FaultInv PROVE ThreePerFault
      OBVIOUS
    <2>1. PICK p : Leads(p, wire, InGap(0)) /\ Count(p) <= 3 * faults
      BY DEF FaultInv
    <2>2. p.owed \in Nat
      BY <2>1, PlaceRaised, Zenon DEF Leads
    <2>3. Lost(pc, msgbuf, p) \in 0 .. 3
      BY LostBounds
    <2> QED
      BY <2>1, <2>2, <2>3 DEF FaultInv, ReadType, Count, ThreePerFault
  <1> QED
    BY <1>1, <1>2, FaultInvNext, PTL DEF FrameSpec
=============================================================================
