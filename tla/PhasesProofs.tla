---------------------------- MODULE PhasesProofs ----------------------------
(***************************************************************************)
(* Proofs about PhasesTiming and SniffedPhases, for every set of phases    *)
(* and plans and every length of colour: type correctness, the bounds on   *)
(* the colours inferred from green alone and their order, the countdown,   *)
(* and the way of a green from the lamp to the message.                    *)
(***************************************************************************)
EXTENDS PhasesTiming, SniffedPhases, TLAPS

(***************************************************************************)
(* What one pass does to the record of one phase.                          *)
(***************************************************************************)

\* Ageing keeps an age an age, and the mark of an unset start the mark.
LEMMA OlderType ==
  ASSUME NEW d \in 0 .. Period, NEW a \in Age \cup {Unset}
  PROVE  /\ Older(a, d) \in Age \cup {Unset}
         /\ a \in Age => Older(a, d) \in Age
  BY PhasesAssumption DEF Older, Age, Unset

LEMMA RestartType ==
  ASSUME NEW c \in BOOLEAN, NEW a \in Age
  PROVE  Restart(c, a) \in Age
  BY PhasesAssumption DEF Restart, Age

LEMMA RestartMarkType ==
  ASSUME NEW c \in BOOLEAN, NEW a \in Age \cup {Unset}
  PROVE  Restart(c, a) \in Age \cup {Unset}
  BY PhasesAssumption DEF Restart, Age

LEMMA YellowAgeType ==
  ASSUME NEW s \in PhaseState
  PROVE  YellowAge(s) \in Age \cup {Unset}
  <1>1. s.age_yellow \in Age \cup {Unset}
    BY DEF PhaseState
  <1> QED
    BY <1>1, PhasesAssumption DEF YellowAge, Restart, Age

\* The values a decoder writes, whatever they are, are values of their fields.
LEMMA ColorsType ==
  /\ UNKNOWN \in (UNKNOWN .. RED) \cup GarbageColor
  /\ GREEN   \in (UNKNOWN .. RED) \cup GarbageColor
  /\ YELLOW  \in (UNKNOWN .. RED) \cup GarbageColor
  /\ RED     \in (UNKNOWN .. RED) \cup GarbageColor
  BY DEF UNKNOWN, GREEN, YELLOW, RED

\* Every decoder keeps the record of a phase well typed.
LEMMA NtcipType ==
  ASSUME NEW s \in PhaseState, NEW b \in Lamps
  PROVE  DecodeNtcip(s, b) \in PhaseState
  <1> DEFINE isGreen  == b.green = 1
             isYellow == ~isGreen /\ b.yellow = 1
             isRed    == ~isGreen /\ ~isYellow /\ b.red = 1
             col == IF isGreen THEN GREEN ELSE IF isYellow THEN YELLOW
                    ELSE IF isRed THEN RED ELSE s.color
             ag == Restart(isGreen /\ b.green # s.old_green, s.age_green)
             ay == Restart(isYellow /\ b.yellow # s.old_yellow, s.age_yellow)
             ar == Restart(isRed /\ b.red # s.old_red, s.age_red)
  <1>1. b.green \in Bit /\ b.yellow \in Bit /\ b.red \in Bit
    BY DEF Lamps
  <1>2. col \in (UNKNOWN .. RED) \cup GarbageColor
    BY ColorsType DEF PhaseState
  <1>3. ag \in Age /\ ay \in Age \cup {Unset} /\ ar \in Age
    BY RestartType, RestartMarkType DEF PhaseState
  <1>4. DecodeNtcip(s, b) =
          [s EXCEPT !.green = b.green, !.yellow = b.yellow, !.red = b.red,
                    !.color = col, !.age_green = ag, !.age_yellow = ay,
                    !.age_red = ar]
    BY DEF DecodeNtcip
  <1> HIDE DEF col, ag, ay, ar
  <1> QED
    BY <1>1, <1>2, <1>3, <1>4, ZenonT(60) DEF PhaseState

LEMMA GreenYellowType ==
  ASSUME NEW s \in PhaseState, NEW b \in Lamps
  PROVE  DecodeGreenYellow(s, b) \in PhaseState
  <1> DEFINE isYellow == b.yellow = 1
             isGreen  == b.green = 1 /\ ~isYellow
             isRed    == b.green = 0 /\ ~isYellow
             red == IF isRed THEN 1 ELSE 0
             col == IF isGreen THEN GREEN ELSE IF isYellow THEN YELLOW ELSE RED
             ag == Restart(isGreen /\ b.green # s.old_green, s.age_green)
             ay == Restart(isYellow /\ b.yellow # s.old_yellow, s.age_yellow)
             ar == Restart(isRed /\ 1 # s.old_red, s.age_red)
  <1>1. b.green \in Bit /\ b.yellow \in Bit /\ red \in Bit
    BY DEF Lamps, Bit
  <1>2. col \in (UNKNOWN .. RED) \cup GarbageColor
    BY ColorsType
  <1>3. ag \in Age /\ ay \in Age \cup {Unset} /\ ar \in Age
    BY RestartType, RestartMarkType DEF PhaseState
  <1>4. DecodeGreenYellow(s, b) =
          [s EXCEPT !.green = b.green, !.yellow = b.yellow, !.red = red,
                    !.color = col, !.age_green = ag, !.age_yellow = ay,
                    !.age_red = ar]
    BY DEF DecodeGreenYellow
  <1> HIDE DEF red, col, ag, ay, ar
  <1> QED
    BY <1>1, <1>2, <1>3, <1>4, ZenonT(60) DEF PhaseState

LEMMA GreenOnlyType ==
  ASSUME NEW s \in PhaseState, NEW b \in Lamps, NEW yel \in Nat
  PROVE  DecodeGreenOnly(s, b, yel) \in PhaseState
  <1> DEFINE age == YellowAge(s)
             ag  == Restart(s.old_green # 1, s.age_green)
             ar  == Restart(s.old_red # 1, s.age_red)
  <1>1. ag \in Age /\ ar \in Age /\ age \in Age \cup {Unset}
    BY RestartType, YellowAgeType DEF PhaseState
  <1>2. 0 \in Bit /\ 1 \in Bit /\ Unset \in Age \cup {Unset}
    BY DEF Bit
  <1> HIDE DEF age, ag, ar
  <1>3. [s EXCEPT !.green = 1, !.yellow = 0, !.red = 0, !.color = GREEN,
                  !.age_green = ag] \in PhaseState
    BY <1>1, <1>2, ColorsType, ZenonT(60) DEF PhaseState
  <1>4. [s EXCEPT !.green = 0, !.color = UNKNOWN, !.age_yellow = Unset]
          \in PhaseState
    BY <1>2, ColorsType, ZenonT(60) DEF PhaseState
  <1>5. [s EXCEPT !.green = 0, !.yellow = 1, !.red = 0, !.color = YELLOW,
                  !.age_yellow = age] \in PhaseState
    BY <1>1, <1>2, ColorsType, ZenonT(60) DEF PhaseState
  <1>6. [s EXCEPT !.green = 0, !.yellow = 0, !.red = 1, !.color = RED,
                  !.age_yellow = age, !.age_red = ar] \in PhaseState
    BY <1>1, <1>2, ColorsType, ZenonT(60) DEF PhaseState
  <1> QED
    BY <1>3, <1>4, <1>5, <1>6, Zenon DEF DecodeGreenOnly, age, ag, ar

LEMMA DecodeType ==
  ASSUME NEW p \in Phase, NEW t \in Plan, NEW src,
         NEW s \in PhaseState, NEW b \in Lamps
  PROVE  Decode(p, s, b, src, t) \in PhaseState
  <1>1. YellowLen[t][p] \in Nat
    BY PhasesAssumption
  <1> QED
    BY <1>1, NtcipType, GreenYellowType, GreenOnlyType DEF Decode

LEMMA FilledType ==
  ASSUME NEW s, NEW b \in Lamps, NEW src
  PROVE  /\ Filled(s, b, src) \in Lamps
         /\ Filled(s, b, src).green = b.green
  BY DEF Filled, Lamps, Bit

LEMMA TimeLeftType ==
  ASSUME NEW p \in Phase, NEW t \in Plan, NEW s \in PhaseState
  PROVE  TimeLeft(p, s, t) \in Int
  <1>1. /\ YellowLen[t][p] \in Nat /\ GreenLen[t][p] \in Nat
        /\ CycleLen[t] \in Nat /\ MaxAge \in Nat
    BY PhasesAssumption
  <1>2. /\ s.age_green \in Int /\ s.age_yellow \in Int /\ s.age_red \in Int
        /\ s.time_left \in Int
    BY <1>1 DEF PhaseState, Age, Unset
  <1> QED
    BY <1>1, <1>2 DEF TimeLeft, Clipped, UNKNOWN, GREEN, YELLOW, RED

\* A short is an integer of 16 bits, and wrapped to 16 bits stays itself.
LEMMA ShortMember ==
  ASSUME NEW x
  PROVE  x \in ShortRange <=> x \in Int /\ -32768 <= x /\ x <= 32767
  <1> DEFINE low == -32768
             high == 32767
  <1>1. ShortRange = low .. high /\ low \in Int /\ high \in Int
    BY DEF ShortRange
  <1> HIDE DEF low, high
  <1>2. x \in ShortRange => x \in Int /\ low <= x /\ x <= high
    BY <1>1
  <1>3. x \in Int /\ low <= x /\ x <= high => x \in ShortRange
    BY <1>1
  <1>4. low = -32768 /\ high = 32767
    BY DEF low, high
  <1> QED
    BY <1>2, <1>3, <1>4

LEMMA ShortType ==
  ASSUME NEW n \in Int
  PROVE  Short(n) \in ShortRange
  BY ShortMember DEF Short

LEMMA ShortInRange ==
  ASSUME NEW n \in ShortRange
  PROVE  Short(n) = n
  BY ShortMember DEF Short

LEMMA RememberType ==
  ASSUME NEW s \in PhaseState
  PROVE  Remember(s) \in PhaseState
  <1>1. /\ s.green \in Bit \cup GarbageBit \cup {-1}
        /\ s.yellow \in Bit \cup GarbageBit \cup {-1}
        /\ s.red \in Bit \cup GarbageBit \cup {-1}
    BY DEF PhaseState
  <1> QED
    BY <1>1, ZenonT(60) DEF Remember, PhaseState

LEMMA LaterType ==
  ASSUME NEW s \in PhaseState, NEW d \in 0 .. Period
  PROVE  Later(s, d) \in PhaseState
  <1> DEFINE ag == Older(s.age_green, d)
             ay == Older(s.age_yellow, d)
             ar == Older(s.age_red, d)
  <1>1. ag \in Age /\ ay \in Age \cup {Unset} /\ ar \in Age
    BY OlderType DEF PhaseState
  <1>2. Later(s, d) = [s EXCEPT !.age_green = ag, !.age_yellow = ay,
                                !.age_red = ar]
    BY DEF Later
  <1> HIDE DEF ag, ay, ar
  <1> QED
    BY <1>1, <1>2, ZenonT(60) DEF PhaseState

LEMMA ApproachType ==
  ASSUME NEW s \in PhaseState
  PROVE  Approach(s) \in [signal_state : Int, time_to_next : ShortRange]
  <1>1. s.color \in Int /\ s.time_left \in Int
    <2>1. /\ s.color \in (UNKNOWN .. RED) \cup GarbageColor
          /\ s.time_left \in Int
      BY DEF PhaseState
    <2>2. GarbageColor \subseteq Int
      BY PhasesAssumption
    <2>3. UNKNOWN .. RED \subseteq Int
      BY DEF UNKNOWN, RED
    <2> QED BY <2>1, <2>2, <2>3, Zenon
  <1> DEFINE n == TenthsPerTick * s.time_left
  <1>2. n \in Int
    <2>1. TenthsPerTick \in Int
      BY PhasesAssumption
    <2> QED BY <1>1, <2>1
  <1>3. Approach(s) = [signal_state |-> Byte(s.color),
                        time_to_next |-> Short(n)]
    BY DEF Approach
  <1> HIDE DEF n
  <1>4. Short(n) \in ShortRange
    BY <1>2, ShortType
  <1>5. Byte(s.color) \in Int
    BY <1>1 DEF Byte
  <1> QED
    BY <1>3, <1>4, <1>5

\* The record a pass leaves behind, and the message it publishes.
LEMMA PassType ==
  ASSUME NEW p \in Phase, NEW t \in Plan, NEW src, NEW d \in 0 .. Period,
         NEW s \in PhaseState, NEW b \in Lamps
  PROVE  /\ Shows(p, s, b, src, t) \in PhaseState
         /\ Later(Remember(Shows(p, s, b, src, t)), d) \in PhaseState
         /\ Approach(Shows(p, s, b, src, t)) \in
              [signal_state : Int, time_to_next : ShortRange]
  <1> DEFINE c == Decode(p, s, b, src, t)
  <1>1. c \in PhaseState
    BY DecodeType
  <1>2. TimeLeft(p, c, t) \in Int
    BY <1>1, TimeLeftType
  <1>3. Countdown(p, c, t) \in PhaseState
    <2> HIDE DEF c
    <2> QED BY <1>1, <1>2 DEF Countdown, PhaseState
  <1>4. Shows(p, s, b, src, t) \in PhaseState
    BY <1>3 DEF Shows
  <1> HIDE DEF c
  <1> QED
    BY <1>4, RememberType, LaterType, ApproachType

-----------------------------------------------------------------------------
(***************************************************************************)
(* Type correctness.                                                       *)
(***************************************************************************)

LEMMA PassTypeOK ==
  ASSUME TypeOK, NEW src \in Sources \cup GarbageSource,
         NEW bits \in [Phase -> Lamps], NEW triggered \in BOOLEAN,
         NEW t \in Plan, NEW d \in 0 .. Period,
         Pass(src, bits, triggered, t, d)
  PROVE  TypeOK'
  <1> DEFINE now(p) == Shows(p, ph[p], bits[p], src, t)
  <1>1. ASSUME NEW p \in Phase
        PROVE  /\ Later(Remember(now(p)), d) \in PhaseState
               /\ Approach(now(p)) \in
                    [signal_state : Int, time_to_next : ShortRange]
               /\ Filled(now(p), bits[p], src) \in Lamps
    <2>1. ph[p] \in PhaseState /\ bits[p] \in Lamps
      BY DEF TypeOK
    <2> QED BY <2>1, PassType, FilledType
  <1>2. /\ ph' = [p \in Phase |-> Later(Remember(now(p)), d)]
        /\ atsc' = [p \in Phase |-> Filled(now(p), bits[p], src)]
        /\ info_source' = src /\ tindex' = t /\ first_trigger' = triggered
        /\ ix' = IF triggered THEN [p \in Phase |-> Approach(now(p))] ELSE ix
        /\ bcast' = IF triggered /\ src \in {SNIFF, AB3418}
                    THEN atsc' ELSE bcast
    BY DEF Pass
  <1> HIDE DEF now
  <1>3. ph' \in [Phase -> PhaseState] /\ atsc' \in [Phase -> Lamps]
    BY <1>1, <1>2
  <1>4. ix' \in [Phase -> [signal_state : Int, time_to_next : ShortRange]]
    BY <1>1, <1>2 DEF TypeOK
  <1>5. bcast' \in [Phase -> Lamps]
    BY <1>2, <1>3 DEF TypeOK
  <1> QED
    BY <1>2, <1>3, <1>4, <1>5 DEF TypeOK

LEMMA ReadingsType == [Phase -> Readings] \subseteq [Phase -> Lamps]
  <1>1. Readings \subseteq Lamps
    BY PhasesAssumption
  <1> QED BY <1>1

LEMMA WakeTypeOK ==
  ASSUME TypeOK, NEW d \in 0 .. Period, Wake(d)
  PROVE  TypeOK'
  <1>1. CASE Trigger(d)
    <2>1. PICK src \in Sources, bits \in [Phase -> Readings], t \in Plan :
            Pass(src, bits, TRUE, t, d)
      BY <1>1 DEF Trigger
    <2>2. bits \in [Phase -> Lamps]
      BY ReadingsType
    <2> QED BY <2>1, <2>2, PassTypeOK
  <1>2. CASE Timer(d)
    <2>1. PICK t \in Plan : Pass(info_source, atsc, first_trigger, t, d)
      BY <1>2 DEF Timer
    <2> QED BY <2>1, PassTypeOK DEF TypeOK
  <1> QED
    BY <1>1, <1>2 DEF Wake

LEMMA InitTypeOK == TInit => TTypeOK
  <1> SUFFICES ASSUME TInit PROVE TTypeOK
    OBVIOUS
  <1>1. ph \in [Phase -> PhaseState]
    <2>1. GarbageAge \subseteq Age /\ Age \subseteq Int
      BY PhasesAssumption DEF Age
    <2>2. GarbageAge \subseteq Int
      BY <2>1
    <2> QED BY <2>1, <2>2, ZenonT(60) DEF TInit, Init, PhaseState
  <1>2. atsc \in [Phase -> Lamps]
    <2>1. GarbageLamps \subseteq Lamps
      BY PhasesAssumption
    <2> QED BY <2>1 DEF TInit, Init
  <1>3. Dark \in Lamps
    BY DEF Dark, Lamps, Bit
  <1>4. NotPublished \in [signal_state : Int, time_to_next : ShortRange]
    BY ShortMember DEF NotPublished
  <1>5. 0 \in 0 .. MaxAge
    BY PhasesAssumption
  <1> QED
    BY <1>1, <1>2, <1>3, <1>4, <1>5 DEF TInit, Init, TTypeOK, TypeOK

LEMMA ObserveTypeOK ==
  ASSUME TTypeOK, NEW d \in 0 .. Period, NEW kind \in {"timer", "trigger"},
         Observe(kind, d)
  PROVE  /\ seen' \in [Phase -> BOOLEAN] /\ fresh' \in [Phase -> BOOLEAN]
         /\ off' \in [Phase -> 0 .. MaxAge] /\ held' \in [Phase -> 0 .. MaxAge]
         /\ woken' \in {"none", "timer", "trigger"} /\ site' \in Sites
  <1>1. MaxAge \in Nat /\ Period \in Nat
    BY PhasesAssumption
  <1>2. \A n \in 0 .. MaxAge : Saturated(n + d) \in 0 .. MaxAge
    BY <1>1 DEF Saturated
  <1>3. 0 \in 0 .. MaxAge
    BY <1>1
  <1>4. off' \in [Phase -> 0 .. MaxAge] /\ held' \in [Phase -> 0 .. MaxAge]
    BY <1>2, <1>3 DEF Observe, TTypeOK
  <1> QED
    BY <1>4 DEF Observe, TTypeOK

\* Every reachable state is well typed: the lamps and colours stay in range,
\* ages stay between -MaxAge and MaxAge, and a published countdown is a short.
THEOREM TypeCorrect == TSpec => []TTypeOK
  <1>1. TInit => TTypeOK
    BY InitTypeOK
  <1>2. TTypeOK /\ [TNext]_tvars => TTypeOK'
    <2> SUFFICES ASSUME TTypeOK, [TNext]_tvars
                 PROVE  TTypeOK'
      OBVIOUS
    <2>1. ASSUME NEW d \in 0 .. Period, TTrigger(d)
          PROVE  TTypeOK'
      <3>1. TypeOK'
        BY <2>1, WakeTypeOK DEF TTrigger, Wake, TTypeOK
      <3> QED BY <2>1, <3>1, ObserveTypeOK DEF TTrigger, TTypeOK
    <2>2. ASSUME NEW d \in 0 .. Period, TTimer(d)
          PROVE  TTypeOK'
      <3>1. TypeOK'
        BY <2>2, WakeTypeOK DEF TTimer, Wake, TTypeOK
      <3> QED BY <2>2, <3>1, ObserveTypeOK DEF TTimer, TTypeOK
    <2>3. CASE UNCHANGED tvars
      BY <2>3 DEF tvars, vars, obs, TTypeOK, TypeOK
    <2> QED
      BY <2>1, <2>2, <2>3 DEF TNext
  <1> QED
    BY <1>1, <1>2, PTL DEF TSpec

-----------------------------------------------------------------------------
(***************************************************************************)
(* What is shown where the source reports green only.                      *)
(***************************************************************************)

LEMMA GreenOnlyDecode ==
  ASSUME NEW src, GreenOnlyInput(src), NEW p \in Phase, NEW t \in Plan,
         NEW s, NEW b
  PROVE  /\ Decode(p, s, b, src, t) = DecodeGreenOnly(s, b, YellowLen[t][p])
         /\ ~GreenYellowInput(src)
         /\ src \in {SNIFF, AB3418}
  <1>1. src # NTCIP /\ ~GreenYellowInput(src) /\ src \in {SNIFF, AB3418}
    BY DEF GreenOnlyInput, GreenYellowInput, NTCIP, AB3418, SNIFF
  <1> QED
    BY <1>1 DEF Decode

\* The countdown, the bookkeeping and the ageing leave the colour alone.
LEMMA PassKeeps ==
  ASSUME NEW p \in Phase, NEW t \in Plan, NEW d \in 0 .. Period,
         NEW c \in PhaseState
  PROVE  LET n == Later(Remember(Countdown(p, c, t)), d)
         IN  /\ n.color = c.color
             /\ n.old_green = c.green
             /\ n.age_yellow = Older(c.age_yellow, d)
             /\ Approach(Countdown(p, c, t)).signal_state = Byte(c.color)
             /\ Countdown(p, c, t).color = c.color
  <1> DEFINE r == Countdown(p, c, t)
             m == Remember(r)
             n == Later(m, d)
  <1>1. /\ r.color = c.color /\ r.green = c.green
        /\ r.age_yellow = c.age_yellow
        /\ DOMAIN r = DOMAIN c
    BY Zenon DEF Countdown, PhaseState
  <1>2. DOMAIN c = {"green", "yellow", "red", "old_green", "old_yellow",
                    "old_red", "color", "age_green", "age_yellow", "age_red",
                    "time_left"}
    BY DEF PhaseState
  <1> HIDE DEF r
  <1>3. /\ m.color = r.color /\ m.old_green = r.green
        /\ m.age_yellow = r.age_yellow
        /\ DOMAIN m = DOMAIN r
    BY <1>1, <1>2 DEF Remember
  <1> HIDE DEF m
  <1>4. n.color = m.color /\ n.old_green = m.old_green
        /\ n.age_yellow = Older(m.age_yellow, d)
    BY <1>1, <1>2, <1>3 DEF Later
  <1>5. Approach(r).signal_state = Byte(r.color)
    BY DEF Approach
  <1> QED
    BY <1>1, <1>3, <1>4, <1>5 DEF r, m

\* A colour that is known or UNKNOWN fits the byte it is published in.
LEMMA ColorByte ==
  /\ Byte(UNKNOWN) = UNKNOWN /\ Byte(GREEN) = GREEN
  /\ Byte(YELLOW) = YELLOW /\ Byte(RED) = RED
  BY DEF Byte, UNKNOWN, GREEN, YELLOW, RED

\* A pass over one phase with green-only input: what it shows, what it writes
\* back into its copy of the lamps, and what it remembers.
LEMMA GreenOnlyPass ==
  ASSUME NEW src, GreenOnlyInput(src), NEW p \in Phase, NEW t \in Plan,
         NEW d \in 0 .. Period, NEW s \in PhaseState, NEW b \in Lamps,
         NEW now, now = Shows(p, s, b, src, t),
         NEW n, n = Later(Remember(now), d),
         NEW f, f = Filled(now, b, src),
         NEW y, y = YellowAge(s)
  PROVE  /\ n.color = now.color /\ Approach(now).signal_state = now.color
         /\ n.old_green = b.green /\ f.green = b.green
         /\ b.green = 1 =>
              now.color = GREEN /\ f.yellow = 0 /\ f.red = 0
         /\ b.green = 0 =>
              /\ n.age_yellow = Older(y, d)
              /\ \/ now.color = UNKNOWN /\ y = Unset
                 \/ /\ now.color = YELLOW /\ f.yellow = 1 /\ f.red = 0
                    /\ y \in Age /\ y <= YellowLen[t][p]
                 \/ /\ now.color = RED /\ f.yellow = 0 /\ f.red = 1
                    /\ y \in Age /\ y > YellowLen[t][p]
  <1> DEFINE c == DecodeGreenOnly(s, b, YellowLen[t][p])
  <1>1. YellowLen[t][p] \in Nat
    BY PhasesAssumption
  <1>2. now = Countdown(p, c, t) /\ c \in PhaseState
    BY <1>1, GreenOnlyDecode, GreenOnlyType DEF Shows
  <1>3. y \in Age \cup {Unset} /\ (Unset \notin Age)
    BY YellowAgeType, PhasesAssumption DEF Age, Unset
  <1>4. b.green \in {0, 1}
    BY DEF Lamps, Bit
  <1>5. CASE b.green = 1
    <2>1. c.green = 1 /\ c.color = GREEN
      BY <1>5 DEF DecodeGreenOnly, PhaseState
    <2> HIDE DEF c
    <2>2. now.color = GREEN /\ n.color = GREEN /\ n.old_green = 1
      BY <1>2, <2>1, PassKeeps
    <2>3. Approach(now).signal_state = now.color
      BY <1>2, <2>1, PassKeeps, ColorByte
    <2>4. f.green = 1 /\ f.yellow = 0 /\ f.red = 0
      BY <1>5, <2>2, GreenOnlyDecode
      DEF Filled, Lamps, UNKNOWN, GREEN, YELLOW, RED
    <2> QED
      BY <1>5, <2>2, <2>3, <2>4
  <1>6. CASE b.green = 0
    <2>1. /\ c.green = 0 /\ c.age_yellow = y
          /\ \/ y = Unset /\ c.color = UNKNOWN
             \/ y \in Age /\ y <= YellowLen[t][p] /\ c.color = YELLOW
             \/ y \in Age /\ y > YellowLen[t][p] /\ c.color = RED
      <3>1. CASE y = Unset
        BY <1>6, <3>1 DEF DecodeGreenOnly, PhaseState
      <3>2. CASE y \in Age /\ y <= YellowLen[t][p]
        BY <1>6, <1>3, <3>2 DEF DecodeGreenOnly, PhaseState
      <3>3. CASE y \in Age /\ ~(y <= YellowLen[t][p])
        <4>1. y > YellowLen[t][p]
          BY <3>3, <1>1, PhasesAssumption DEF Age
        <4> QED
          BY <1>6, <1>3, <3>3, <4>1 DEF DecodeGreenOnly, PhaseState
      <3> QED BY <1>3, <3>1, <3>2, <3>3
    <2> HIDE DEF c
    <2>2. /\ now.color = c.color /\ n.color = c.color /\ n.old_green = 0
          /\ n.age_yellow = Older(y, d)
          /\ Approach(now).signal_state = c.color
      BY <1>2, <2>1, PassKeeps, ColorByte
    <2>3. f.green = 0
      BY <1>6, FilledType
    <2>4. /\ c.color = YELLOW => f.yellow = 1 /\ f.red = 0
          /\ c.color = RED => f.yellow = 0 /\ f.red = 1
      BY <2>2, GreenOnlyDecode
      DEF Filled, Lamps, UNKNOWN, YELLOW, RED
    <2> QED
      BY <1>6, <2>1, <2>2, <2>3, <2>4 DEF UNKNOWN, YELLOW, RED
  <1> QED
    BY <1>4, <1>5, <1>6

\* What the two tests of DecodeGreenOnly make of the start of yellow.
LEMMA YellowAgeValue ==
  ASSUME NEW s \in PhaseState
  PROVE  /\ s.old_green = -1 => YellowAge(s) = Unset
         /\ s.old_green = 0 => YellowAge(s) = s.age_yellow
         /\ s.old_green = 1 => YellowAge(s) = 0
  BY DEF YellowAge, Restart

-----------------------------------------------------------------------------
(***************************************************************************)
(* GreenOnlyInv is inductive.  A pass before the first trigger publishes   *)
(* nothing and is trivial; after it the loop works with bits it has read.  *)
(***************************************************************************)

\* The pass over phase p of a wake, once the ATSC variable has been read.
LEMMA LampInvPass ==
  ASSUME GreenOnlySite, TTypeOK, NEW p \in Phase, LampInv(p),
         NEW src \in site, NEW bits \in [Phase -> Lamps], NEW t \in Plan,
         NEW d \in 0 .. Period, NEW kind \in {"timer", "trigger"},
         Pass(src, bits, TRUE, t, d), Observe(kind, d),
         first_trigger \/ kind = "trigger"
  PROVE  LampInv(p)'
  <1> DEFINE b   == bits[p]
             yel == YellowLen[t][p]
             y   == YellowAge(ph[p])
             now == Shows(p, ph[p], b, src, t)
  <1>1. /\ MaxAge \in Nat /\ Period \in Nat /\ d \in Nat /\ d <= Period
        /\ yel \in Nat /\ yel + Period < MaxAge
    BY PhasesAssumption
  <1>2. /\ ph[p] \in PhaseState /\ b \in Lamps
        /\ off[p] \in 0 .. MaxAge /\ seen[p] \in BOOLEAN
        /\ atsc[p].green \in {0, 1} /\ b.green \in {0, 1}
    BY DEF TTypeOK, TypeOK, Lamps, Bit
  <1>3. GreenOnlyInput(src) /\ src \in {SNIFF, AB3418}
    BY GreenOnlyDecode DEF GreenOnlySite, GreenOnlyInput
  <1>4. /\ ph'[p] = Later(Remember(now), d)
        /\ atsc'[p] = Filled(now, b, src)
        /\ info_source' = src /\ tindex' = t /\ first_trigger' = TRUE
        /\ ix'[p] = Approach(now)
        /\ bcast' = atsc'
    BY <1>3 DEF Pass
  <1> HIDE DEF now, b
  <1>5. /\ ph'[p].color = now.color /\ ix'[p].signal_state = now.color
        /\ ph'[p].old_green = b.green /\ atsc'[p].green = b.green
        /\ b.green = 1 =>
             now.color = GREEN /\ atsc'[p].yellow = 0 /\ atsc'[p].red = 0
        /\ b.green = 0 =>
             /\ ph'[p].age_yellow = Older(y, d)
             /\ \/ now.color = UNKNOWN /\ y = Unset
                \/ /\ now.color = YELLOW
                   /\ atsc'[p].yellow = 1 /\ atsc'[p].red = 0
                   /\ y \in Age /\ y <= yel
                \/ /\ now.color = RED
                   /\ atsc'[p].yellow = 0 /\ atsc'[p].red = 1
                   /\ y \in Age /\ y > yel
    BY <1>2, <1>3, <1>4, GreenOnlyPass DEF now
  <1>6. /\ seen'[p] = (seen[p] \/ b.green = 1)
        /\ off'[p] = IF b.green = 1 \/ atsc[p].green = 1 THEN 0
                     ELSE Saturated(off[p] + d)
        /\ woken' = IF woken = "none" THEN kind ELSE woken
        /\ site' = site
    BY <1>4, <1>5 DEF Observe
  <1>7. /\ ph[p].old_green = -1 => y = Unset
        /\ ph[p].old_green = 0 => y = ph[p].age_yellow
        /\ ph[p].old_green = 1 => y = 0
    BY <1>2, YellowAgeValue
  <1> HIDE DEF y, yel
  <1>8. CASE b.green = 1
    <2>1. seen'[p] = TRUE /\ woken' # "none" /\ atsc'[p].green = 1
      BY <1>5, <1>6, <1>8
    <2>2. 1 # 0
      OBVIOUS
    <2> QED
      BY <1>4, <1>5, <1>6, <1>8, <2>1, <2>2 DEF LampInv, Shown
  <1>9. CASE b.green = 0
    <2>1. seen'[p] = seen[p]
      BY <1>6, <1>9, <1>2
    <2>2. ASSUME seen[p]
          PROVE  /\ y \in Age /\ off'[p] \in Nat
                 /\ off'[p] <= y + d /\ y - Period <= off'[p]
                 /\ off'[p] <= Older(y, d)
                 /\ Older(y, d) <= off'[p] + Period
      <3>1. first_trigger /\ ph[p].old_green = atsc[p].green
        BY <2>2 DEF LampInv
      <3>2. CASE atsc[p].green = 1
        BY <1>1, <1>6, <1>7, <3>1, <3>2 DEF Older, Age, Unset
      <3>3. CASE atsc[p].green = 0
        <4>1. /\ y = ph[p].age_yellow
              /\ off[p] <= y /\ y <= off[p] + Period
          BY <1>7, <2>2, <3>1, <3>3 DEF LampInv
        <4>2. y \in Age
          BY <4>1, <1>1, <1>2 DEF PhaseState, Age, Unset
        <4>3. off'[p] = Saturated(off[p] + d)
          BY <1>6, <1>9, <3>3
        <4> QED
          BY <1>1, <1>2, <4>1, <4>2, <4>3 DEF Older, Saturated, Age, Unset
      <3> QED BY <1>2, <3>2, <3>3
    <2>3. y = Unset => Older(y, d) = Unset
      BY DEF Older
    <2>4. y \in Age => Older(y, d) \in Age /\ Older(y, d) >= y
      BY <1>1 DEF Older, Age, Unset
    <2>5. Inferred(p)'
      <3>1. yel = (YellowLen[tindex][p])'
        BY <1>4 DEF yel
      <3>2. CASE now.color = UNKNOWN /\ y = Unset
        BY <1>5, <1>9, <2>3, <3>2 DEF Inferred, Shown
      <3>3. CASE /\ now.color = YELLOW /\ y \in Age /\ y <= yel
                 /\ atsc'[p].yellow = 1 /\ atsc'[p].red = 0
        <4>1. seen[p] => off'[p] <= yel + Period
          BY <1>1, <2>2, <3>3 DEF Age
        <4> QED
          BY <1>5, <1>9, <2>1, <2>4, <3>1, <3>3, <4>1 DEF Inferred, Shown
      <3>4. CASE /\ now.color = RED /\ y \in Age /\ y > yel
                 /\ atsc'[p].yellow = 0 /\ atsc'[p].red = 1
        <4>1. seen[p] => off'[p] > yel - Period
          BY <1>1, <2>2, <3>4 DEF Age
        <4>2. Older(y, d) > yel
          BY <1>1, <2>4, <3>4 DEF Age
        <4> QED
          BY <1>5, <1>9, <2>1, <2>4, <3>1, <3>4, <4>1, <4>2
          DEF Inferred, Shown
      <3> QED BY <1>5, <1>9, <3>2, <3>3, <3>4
    <2>6. woken' = "trigger" => (~seen'[p] => ph'[p].age_yellow = Unset)
      <3> SUFFICES ASSUME woken' = "trigger", ~seen[p]
                   PROVE  y = Unset
        BY <1>5, <1>9, <2>1, <2>3
      <3>1. CASE woken = "none"
        BY <1>7, <3>1 DEF LampInv
      <3>2. CASE woken # "none"
        <4>1. woken = "trigger" /\ first_trigger /\ ph[p].age_yellow = Unset
          BY <1>6, <3>2 DEF LampInv
        <4>2. ph[p].old_green = 0
          BY <1>2, <4>1 DEF LampInv
        <4> QED BY <1>7, <4>1, <4>2
      <3> QED BY <3>1, <3>2
    <2>7. /\ seen'[p] /\ atsc'[p].green = 0 =>
               /\ off'[p] <= ph'[p].age_yellow
               /\ ph'[p].age_yellow <= off'[p] + Period
      BY <1>5, <1>9, <2>1, <2>2
    <2> QED
      BY <1>4, <1>5, <1>6, <1>9, <2>5, <2>6, <2>7 DEF LampInv, Shown
  <1> QED
    BY <1>2, <1>8, <1>9

\* The pass over phase p of a timer pulse that comes before the first trigger.
LEMMA LampInvEarly ==
  ASSUME NEW p \in Phase, LampInv(p), TTypeOK, ~first_trigger, NEW t \in Plan,
         NEW d \in 0 .. Period,
         Pass(info_source, atsc, first_trigger, t, d), Observe("timer", d)
  PROVE  LampInv(p)'
  <1>1. ~first_trigger'
    BY DEF Pass
  <1>2. ~seen[p] /\ woken \in {"none", "timer"}
    BY DEF LampInv, TTypeOK
  <1>3. ~seen'[p] /\ woken' = "timer"
    BY <1>1, <1>2 DEF Observe
  <1> QED
    BY <1>1, <1>3 DEF LampInv

\* Every step of the loop, as a pass.
LEMMA StepIsPass ==
  ASSUME TTypeOK, NEW d \in 0 .. Period, TTrigger(d) \/ TTimer(d)
  PROVE  \/ \E src \in site, bits \in [Phase -> Lamps], t \in Plan :
              Pass(src, bits, TRUE, t, d) /\ Observe("trigger", d)
         \/ \E t \in Plan :
              /\ Pass(info_source, atsc, first_trigger, t, d)
              /\ Observe("timer", d)
  <1>1. CASE TTrigger(d)
    <2>1. PICK src \in Sources, bits \in [Phase -> Readings], t \in Plan :
            Pass(src, bits, TRUE, t, d)
      BY <1>1 DEF TTrigger, Trigger
    <2>2. src \in site
      BY <1>1, <2>1 DEF TTrigger, Pass
    <2> QED BY <1>1, <2>1, <2>2, ReadingsType DEF TTrigger
  <1>2. CASE TTimer(d)
    BY <1>2 DEF TTimer, Timer
  <1> QED
    BY <1>1, <1>2

LEMMA LampInvStep ==
  ASSUME GreenOnlySite, TTypeOK, NEW p \in Phase, LampInv(p),
         NEW d \in 0 .. Period, TTrigger(d) \/ TTimer(d)
  PROVE  LampInv(p)'
  <1>1. ASSUME NEW src \in site, NEW bits \in [Phase -> Lamps],
               NEW t \in Plan, Pass(src, bits, TRUE, t, d),
               Observe("trigger", d)
        PROVE  LampInv(p)'
    BY <1>1, LampInvPass
  <1>2. ASSUME NEW t \in Plan, Observe("timer", d),
               Pass(info_source, atsc, first_trigger, t, d)
        PROVE  LampInv(p)'
    <2>1. CASE first_trigger
      <3>1. first_trigger = TRUE /\ info_source \in site
        BY <2>1 DEF TTypeOK, TypeOK, LampInv
      <3>2. atsc \in [Phase -> Lamps]
        BY DEF TTypeOK, TypeOK
      <3>3. Pass(info_source, atsc, TRUE, t, d)
        BY <1>2, <3>1
      <3> QED
        BY <1>2, <3>1, <3>2, <3>3, LampInvPass
    <2>2. CASE ~first_trigger
      BY <1>2, <2>2, LampInvEarly
    <2> QED BY <2>1, <2>2
  <1> QED
    BY <1>1, <1>2, StepIsPass

\* A site keeps the sources it started with.
LEMMA SiteFixed == [TNext]_tvars => site' = site
  <1>1. \A d \in 0 .. Period : TTrigger(d) => site' = site
    BY DEF TTrigger, Observe
  <1>2. \A d \in 0 .. Period : TTimer(d) => site' = site
    BY DEF TTimer, Observe
  <1>3. UNCHANGED tvars => site' = site
    BY DEF tvars, obs
  <1> QED
    BY <1>1, <1>2, <1>3 DEF TNext

\* At a site whose source shows green only, the start marks, the old lamps,
\* the stored ages, the published colours and the broadcast bits stay in step.
THEOREM GreenOnlyInvariant == TSpec => []GreenOnlyInv
  <1>1. TInit => GreenOnlyInv
    <2> SUFFICES ASSUME TInit, NEW p \in Phase
                 PROVE  LampInv(p)
      BY DEF GreenOnlyInv
    <2>1. /\ woken = "none" /\ ~first_trigger /\ ~seen[p]
      BY DEF TInit, Init
    <2>2. ph[p].old_green = -1
      BY DEF TInit, Init
    <2> QED BY <2>1, <2>2 DEF LampInv
  <1>2. TTypeOK /\ GreenOnlyInv /\ [TNext]_tvars => GreenOnlyInv'
    <2> SUFFICES ASSUME TTypeOK, GreenOnlyInv, [TNext]_tvars
                 PROVE  GreenOnlyInv'
      OBVIOUS
    <2>0. site' = site
      BY SiteFixed
    <2> SUFFICES ASSUME GreenOnlySite, NEW p \in Phase
                 PROVE  LampInv(p)'
      BY <2>0 DEF GreenOnlyInv, GreenOnlySite, GreenOnlyInput
    <2>1. LampInv(p)
      BY DEF GreenOnlyInv
    <2>2. ASSUME NEW d \in 0 .. Period, TTrigger(d) \/ TTimer(d)
          PROVE  LampInv(p)'
      BY <2>1, <2>2, LampInvStep
    <2>3. CASE UNCHANGED tvars
      BY <2>1, <2>3 DEF tvars, vars, obs, LampInv, Inferred, Shown
    <2> QED BY <2>2, <2>3 DEF TNext
  <1> QED
    BY <1>1, <1>2, TypeCorrect, PTL DEF TSpec

\* Once green has been seen, yellow is shown at most an interval too long, and
\* red at most an interval too soon.
THEOREM YellowWindowHolds == TSpec => []YellowWindow
  <1>1. TTypeOK /\ GreenOnlyInv => YellowWindow
    <2> SUFFICES ASSUME TTypeOK, GreenOnlySite, NEW p \in Phase, LampInv(p),
                        seen[p]
                 PROVE
                  /\ Shown(p) = YELLOW =>
                       off[p] <= YellowLen[tindex][p] + Period
                  /\ Shown(p) = RED => off[p] > YellowLen[tindex][p] - Period
      BY DEF YellowWindow, GreenOnlyInv
    <2>1. atsc[p].green \in {0, 1}
      BY DEF TTypeOK, TypeOK, Lamps, Bit
    <2>2. first_trigger
      BY DEF LampInv
    <2> QED
      BY <2>1, <2>2 DEF LampInv, Inferred, UNKNOWN, GREEN, YELLOW, RED
  <1> QED
    BY <1>1, TypeCorrect, GreenOnlyInvariant, PTL

\* A colour is not guessed before green has been seen, if the controller's data
\* woke the loop before the timer did.
THEOREM StartsUnknown == TSpec => []StartUnknownWhenTriggeredFirst
  <1>1. TTypeOK /\ GreenOnlyInv => StartUnknownWhenTriggeredFirst
    <2> SUFFICES ASSUME TTypeOK, GreenOnlySite, NEW p \in Phase, LampInv(p),
                        woken = "trigger", first_trigger, ~seen[p]
                 PROVE  Shown(p) = UNKNOWN
      BY DEF StartUnknownWhenTriggeredFirst, GreenOnlyInv
    <2>1. atsc[p].green = 0
      BY DEF TTypeOK, TypeOK, Lamps, Bit, LampInv
    <2>2. ph[p].age_yellow = Unset /\ Unset \notin Age
      BY PhasesAssumption DEF LampInv, Age, Unset
    <2> QED
      BY <2>1, <2>2 DEF LampInv, Inferred
  <1> QED
    BY <1>1, TypeCorrect, GreenOnlyInvariant, PTL

\* The broadcast bits and the published colour of a phase never disagree.
THEOREM BroadcastsAgree == TSpec => []BroadcastAgrees
  <1>1. TTypeOK /\ GreenOnlyInv => BroadcastAgrees
    <2> SUFFICES ASSUME TTypeOK, GreenOnlySite, NEW p \in Phase, LampInv(p),
                        first_trigger, Shown(p) # UNKNOWN
                 PROVE
                  bcast[p] =
                    [green  |-> IF Shown(p) = GREEN  THEN 1 ELSE 0,
                     yellow |-> IF Shown(p) = YELLOW THEN 1 ELSE 0,
                     red    |-> IF Shown(p) = RED    THEN 1 ELSE 0]
      BY DEF BroadcastAgrees, GreenOnlyInv
    <2>1. /\ bcast[p] = atsc[p] /\ atsc[p] \in Lamps
          /\ atsc[p].green \in {0, 1}
      BY DEF TTypeOK, TypeOK, Lamps, Bit, LampInv
    <2>2. atsc[p] = [green |-> atsc[p].green, yellow |-> atsc[p].yellow,
                     red |-> atsc[p].red]
      BY <2>1 DEF Lamps
    <2>3. CASE atsc[p].green = 1
      BY <2>1, <2>2, <2>3 DEF LampInv, GREEN, YELLOW, RED
    <2>4. CASE atsc[p].green = 0
      BY <2>1, <2>2, <2>4 DEF LampInv, Inferred, UNKNOWN, GREEN, YELLOW, RED
    <2> QED BY <2>1, <2>3, <2>4
  <1> QED
    BY <1>1, TypeCorrect, GreenOnlyInvariant, PTL

\* The colour a pass publishes after the one it finds published.
LEMMA ColorStep ==
  ASSUME GreenOnlySite, SameYellow, TTypeOK, NEW p \in Phase, LampInv(p),
         first_trigger, NEW src \in site, NEW bits \in [Phase -> Lamps],
         NEW t \in Plan, NEW d \in 0 .. Period, Pass(src, bits, TRUE, t, d)
  PROVE  FollowsOn(Shown(p), ix'[p].signal_state)
  <1> DEFINE b   == bits[p]
             yel == YellowLen[t][p]
             y   == YellowAge(ph[p])
             now == Shows(p, ph[p], b, src, t)
  <1>1. /\ ph[p] \in PhaseState /\ b \in Lamps /\ tindex \in Plan
        /\ atsc[p].green \in {0, 1} /\ b.green \in {0, 1}
        /\ ph[p].old_green = atsc[p].green
    BY DEF TTypeOK, TypeOK, Lamps, Bit, LampInv
  <1>2. GreenOnlyInput(src) /\ ix'[p] = Approach(now)
    BY DEF Pass, GreenOnlySite
  <1>3. /\ yel = YellowLen[tindex][p] /\ yel \in Nat
    BY <1>1, PhasesAssumption DEF SameYellow
  <1>4. /\ atsc[p].green = 0 => y = ph[p].age_yellow
        /\ atsc[p].green = 1 => y = 0
    BY <1>1, YellowAgeValue
  <1> HIDE DEF now, b
  <1>5. /\ b.green = 1 => ix'[p].signal_state = GREEN
        /\ b.green = 0 =>
             \/ ix'[p].signal_state = UNKNOWN /\ y = Unset
             \/ ix'[p].signal_state = YELLOW /\ y \in Age /\ y <= yel
             \/ ix'[p].signal_state = RED /\ y \in Age /\ y > yel
    BY <1>1, <1>2, GreenOnlyPass DEF now
  <1> HIDE DEF y, yel
  <1>6. CASE b.green = 1
    BY <1>5, <1>6 DEF FollowsOn
  <1>7. CASE b.green = 0 /\ atsc[p].green = 1
    <2>1. Shown(p) = GREEN /\ y = 0 /\ 0 # Unset
      BY <1>4, <1>7, PhasesAssumption DEF LampInv, Unset
    <2>2. ix'[p].signal_state = YELLOW
      BY <1>3, <1>5, <1>7, <2>1
    <2> QED BY <2>1, <2>2 DEF FollowsOn
  <1>8. CASE b.green = 0 /\ atsc[p].green = 0
    <2>1. Inferred(p) /\ y = ph[p].age_yellow /\ Unset \notin Age
      BY <1>4, <1>8, PhasesAssumption DEF LampInv, Age, Unset
    <2>2. CASE Shown(p) = UNKNOWN /\ y = Unset
      BY <1>5, <1>8, <2>1, <2>2 DEF FollowsOn
    <2>3. CASE Shown(p) = YELLOW /\ y \in Age
      BY <1>5, <1>8, <2>1, <2>3 DEF FollowsOn
    <2>4. CASE Shown(p) = RED /\ y \in Age /\ y > yel
      <3>1. ~(y <= yel)
        BY <1>3, <2>4, PhasesAssumption DEF Age
      <3> QED BY <1>5, <1>8, <2>1, <2>4, <3>1 DEF FollowsOn
    <2> QED
      BY <1>3, <2>1, <2>2, <2>3, <2>4 DEF Inferred
  <1> QED
    BY <1>1, <1>6, <1>7, <1>8

\* The colours of a phase are published in the order of a signal's cycle,
\* whatever the order of triggers, timer pulses and changes of plan.
THEOREM ColorsInOrder == TSpec => ColorOrder
  <1> DEFINE Ordered == GreenOnlySite /\ SameYellow /\ first_trigger =>
               \A p \in Phase : FollowsOn(Shown(p), ix'[p].signal_state)
  <1>1. TTypeOK /\ GreenOnlyInv /\ [TNext]_tvars => [Ordered]_tvars
    <2> SUFFICES ASSUME TTypeOK, GreenOnlyInv, GreenOnlySite, SameYellow,
                        first_trigger, TNext, NEW p \in Phase
                 PROVE  FollowsOn(Shown(p), ix'[p].signal_state)
      OBVIOUS
    <2>1. LampInv(p) /\ first_trigger = TRUE
      BY DEF GreenOnlyInv, TTypeOK, TypeOK
    <2>2. PICK d \in 0 .. Period : TTrigger(d) \/ TTimer(d)
      BY DEF TNext
    <2>3. ASSUME NEW src \in site, NEW bits \in [Phase -> Lamps],
                 NEW t \in Plan, Pass(src, bits, TRUE, t, d)
          PROVE  FollowsOn(Shown(p), ix'[p].signal_state)
      BY <2>1, <2>3, ColorStep
    <2>4. info_source \in site /\ atsc \in [Phase -> Lamps]
      BY <2>1 DEF LampInv, TTypeOK, TypeOK
    <2>5. ASSUME NEW t \in Plan, Pass(info_source, atsc, first_trigger, t, d)
          PROVE  FollowsOn(Shown(p), ix'[p].signal_state)
      <3>1. Pass(info_source, atsc, TRUE, t, d)
        BY <2>1, <2>5
      <3> QED BY <2>3, <2>4, <3>1
    <2> QED
      BY <2>2, <2>3, <2>5, StepIsPass
  <1> QED
    BY <1>1, TypeCorrect, GreenOnlyInvariant, PTL DEF TSpec, ColorOrder

-----------------------------------------------------------------------------
(***************************************************************************)
(* The countdown is anchored at the change of colour.                      *)
(***************************************************************************)

\* The lamps a phase remembers are those of its colour; where yellow and red
\* are inferred, so is the age of the yellow.
LampsTell(s) ==
  /\ s.color \in {GREEN, YELLOW, RED}
  /\ s.old_green = 1 <=> s.color = GREEN
  /\ s.old_yellow = 1 <=> s.color = YELLOW
  /\ s.old_red = 1 <=> s.color = RED

YellowTells(s, b) ==
  /\ s.color \in {GREEN, YELLOW, RED}
  /\ s.old_green = b.green /\ s.old_yellow = b.yellow
  /\ s.old_green = 1 /\ s.old_yellow # 1 <=> s.color = GREEN
  /\ s.old_yellow = 1 <=> s.color = YELLOW
  /\ s.old_red = 1 <=> s.color = RED

AgeTells(s, yel) ==
  \/ s.color = UNKNOWN /\ s.old_green = 0 /\ s.age_yellow = Unset
  \/ s.color = GREEN /\ s.old_green = 1
  \/ s.color = YELLOW /\ s.old_green = 0 /\ s.old_red # 1
     /\ s.age_yellow \in Age
  \/ s.color = RED /\ s.old_green = 0 /\ s.old_red = 1
     /\ s.age_yellow \in Age /\ s.age_yellow > yel

InStep(s, b, src, yel) ==
  /\ Decoder(src) = "all" => LampsTell(s)
  /\ Decoder(src) = "yellow" => YellowTells(s, b)
  /\ Decoder(src) = "green" => AgeTells(s, yel)

\* The age of the colour that is shown is the real time it has been shown, or
\* up to one wait more.
Aged(a, h) == h + Period < MaxAge => h <= a /\ a <= h + Period

ClockOf(p) ==
  /\ first_trigger =>
       /\ info_source \in site
       /\ Shown(p) = Byte(ph[p].color)
       /\ Clear(atsc[p], info_source)
       /\ InStep(ph[p], atsc[p], info_source, YellowLen[tindex][p])
  /\ fresh[p] =>
       /\ first_trigger
       /\ ph[p].color \in UNKNOWN .. RED
       /\ ph[p].color = GREEN  => Aged(ph[p].age_green, held[p])
       /\ ph[p].color = YELLOW => Aged(ph[p].age_yellow, held[p])
       /\ ph[p].color = RED    => Aged(ph[p].age_red, held[p])

ClockInv == \A p \in Phase : ClockOf(p)

-----------------------------------------------------------------------------
\* The start of the colour a pass shows: set when it comes on, kept while it
\* lasts.
Kept(s, c) ==
  /\ c.color = GREEN =>
       c.age_green = IF s.color = GREEN THEN s.age_green ELSE 0
  /\ c.color = YELLOW =>
       c.age_yellow = IF s.color = YELLOW THEN s.age_yellow ELSE 0
  /\ c.color = RED =>
       c.age_red = IF s.color = RED THEN s.age_red ELSE 0

\* What LampsTell says of a record about to become the remembered one.
LampsWillTell(c) ==
  /\ c.color \in {GREEN, YELLOW, RED}
  /\ c.green = 1 <=> c.color = GREEN
  /\ c.yellow = 1 <=> c.color = YELLOW
  /\ c.red = 1 <=> c.color = RED

YellowWillTell(c, b) ==
  /\ c.color \in {GREEN, YELLOW, RED}
  /\ c.green = b.green /\ c.yellow = b.yellow
  /\ c.green = 1 /\ c.yellow # 1 <=> c.color = GREEN
  /\ c.yellow = 1 <=> c.color = YELLOW
  /\ c.red = 1 <=> c.color = RED

AgeWillTell(c, yel) ==
  \/ c.color = UNKNOWN /\ c.green = 0 /\ c.age_yellow = Unset
  \/ c.color = GREEN /\ c.green = 1
  \/ c.color = YELLOW /\ c.green = 0 /\ c.red # 1 /\ c.age_yellow \in Age
  \/ c.color = RED /\ c.green = 0 /\ c.red = 1
     /\ c.age_yellow \in Age /\ c.age_yellow > yel

LEMMA AllLampsClock ==
  ASSUME NEW s \in PhaseState, NEW b \in Lamps,
         b.green + b.yellow + b.red = 1,
         NEW c, c = DecodeNtcip(s, b)
  PROVE  LampsWillTell(c) /\ (LampsTell(s) => Kept(s, c))
  <1>1. /\ b.green \in {0, 1} /\ b.yellow \in {0, 1} /\ b.red \in {0, 1}
    BY DEF Lamps, Bit
  <1>2. \/ b.green = 1 /\ b.yellow = 0 /\ b.red = 0
        \/ b.green = 0 /\ b.yellow = 1 /\ b.red = 0
        \/ b.green = 0 /\ b.yellow = 0 /\ b.red = 1
    BY <1>1
  <1>3. CASE b.green = 1 /\ b.yellow = 0 /\ b.red = 0
    <2>1. /\ c.green = 1 /\ c.yellow = 0 /\ c.red = 0 /\ c.color = GREEN
          /\ c.age_green = Restart(1 # s.old_green, s.age_green)
      BY <1>3 DEF DecodeNtcip, PhaseState
    <2> QED
      BY <2>1 DEF LampsWillTell, LampsTell, Kept, Restart, GREEN, YELLOW, RED
  <1>4. CASE b.green = 0 /\ b.yellow = 1 /\ b.red = 0
    <2>1. /\ c.green = 0 /\ c.yellow = 1 /\ c.red = 0 /\ c.color = YELLOW
          /\ c.age_yellow = Restart(1 # s.old_yellow, s.age_yellow)
      BY <1>4 DEF DecodeNtcip, PhaseState
    <2> QED
      BY <2>1 DEF LampsWillTell, LampsTell, Kept, Restart, GREEN, YELLOW, RED
  <1>5. CASE b.green = 0 /\ b.yellow = 0 /\ b.red = 1
    <2>1. /\ c.green = 0 /\ c.yellow = 0 /\ c.red = 1 /\ c.color = RED
          /\ c.age_red = Restart(1 # s.old_red, s.age_red)
      BY <1>5 DEF DecodeNtcip, PhaseState
    <2> QED
      BY <2>1 DEF LampsWillTell, LampsTell, Kept, Restart, GREEN, YELLOW, RED
  <1> QED
    BY <1>2, <1>3, <1>4, <1>5

LEMMA GreenYellowClock ==
  ASSUME NEW s \in PhaseState, NEW b \in Lamps, NEW o \in Lamps,
         NEW c, c = DecodeGreenYellow(s, b)
  PROVE  /\ YellowWillTell(c, b)
         /\ YellowTells(s, o) /\ ~Withdrawn(o, b) => Kept(s, c)
  <1>1. \/ b.green = 1 /\ b.yellow = 0
        \/ (b.green = 0 \/ b.green = 1) /\ b.yellow = 1
        \/ b.green = 0 /\ b.yellow = 0
    BY DEF Lamps, Bit
  <1>2. CASE b.green = 1 /\ b.yellow = 0
    <2>1. /\ c.green = 1 /\ c.yellow = 0 /\ c.red = 0 /\ c.color = GREEN
          /\ c.age_green = Restart(1 # s.old_green, s.age_green)
      BY <1>2 DEF DecodeGreenYellow, PhaseState
    <2>2. YellowWillTell(c, b)
      BY <1>2, <2>1 DEF YellowWillTell, GREEN, YELLOW, RED
    <2>3. YellowTells(s, o) /\ ~Withdrawn(o, b) =>
            (s.old_green = 1 <=> s.color = GREEN)
      BY <1>2 DEF YellowTells, Withdrawn, Lamps, Bit, GREEN, YELLOW, RED
    <2> QED
      BY <2>1, <2>2, <2>3 DEF Kept, Restart, GREEN, YELLOW, RED
  <1>3. CASE (b.green = 0 \/ b.green = 1) /\ b.yellow = 1
    <2>1. /\ c.green = b.green /\ c.yellow = 1 /\ c.red = 0
          /\ c.color = YELLOW
          /\ c.age_yellow = Restart(1 # s.old_yellow, s.age_yellow)
      BY <1>3 DEF DecodeGreenYellow, PhaseState
    <2>2. YellowWillTell(c, b)
      BY <1>3, <2>1 DEF YellowWillTell, GREEN, YELLOW, RED
    <2> QED
      BY <2>1, <2>2 DEF YellowTells, Kept, Restart, GREEN, YELLOW, RED
  <1>4. CASE b.green = 0 /\ b.yellow = 0
    <2>1. /\ c.green = 0 /\ c.yellow = 0 /\ c.red = 1 /\ c.color = RED
          /\ c.age_red = Restart(1 # s.old_red, s.age_red)
      BY <1>4 DEF DecodeGreenYellow, PhaseState
    <2>2. YellowWillTell(c, b)
      BY <1>4, <2>1 DEF YellowWillTell, GREEN, YELLOW, RED
    <2> QED
      BY <2>1, <2>2 DEF YellowTells, Kept, Restart, GREEN, YELLOW, RED
  <1> QED
    BY <1>1, <1>2, <1>3, <1>4

LEMMA GreenOnlyClock ==
  ASSUME NEW s \in PhaseState, NEW b \in Lamps, NEW yel \in Nat,
         NEW c, c = DecodeGreenOnly(s, b, yel)
  PROVE  AgeWillTell(c, yel) /\ (AgeTells(s, yel) => Kept(s, c))
  <1> DEFINE y == YellowAge(s)
  <1>1. b.green \in {0, 1}
    BY DEF Lamps, Bit
  <1>2. y \in Age \cup {Unset} /\ Unset \notin Age /\ Age \subseteq Int
    BY YellowAgeType, PhasesAssumption DEF Age, Unset
  <1>3. /\ s.old_green = 0 => y = s.age_yellow
        /\ s.old_green = 1 => y = 0
    BY YellowAgeValue
  <1> HIDE DEF y
  <1>4. CASE b.green = 1
    <2>1. /\ c.green = 1 /\ c.color = GREEN
          /\ c.age_green = Restart(s.old_green # 1, s.age_green)
      BY <1>4 DEF DecodeGreenOnly, PhaseState
    <2> QED
      BY <2>1
         DEF AgeWillTell, AgeTells, Kept, Restart, UNKNOWN, GREEN, YELLOW, RED
  <1>5. CASE b.green = 0 /\ y = Unset
    <2>1. c.green = 0 /\ c.color = UNKNOWN /\ c.age_yellow = Unset
      BY <1>5 DEF DecodeGreenOnly, PhaseState, y
    <2> QED
      BY <2>1 DEF AgeWillTell, Kept, UNKNOWN, GREEN, YELLOW, RED
  <1>6. CASE b.green = 0 /\ y \in Age /\ y <= yel
    <2>1. /\ c.green = 0 /\ c.red = 0 /\ c.color = YELLOW /\ c.age_yellow = y
      BY <1>2, <1>6 DEF DecodeGreenOnly, PhaseState, y
    <2>2. AgeTells(s, yel) =>
            \/ s.color = GREEN /\ s.old_green = 1
            \/ s.color = YELLOW /\ s.old_green = 0
      BY <1>2, <1>3, <1>6 DEF AgeTells
    <2> QED
      BY <1>3, <1>6, <2>1, <2>2
         DEF AgeWillTell, Kept, GREEN, YELLOW, RED
  <1>7. CASE b.green = 0 /\ y \in Age /\ y > yel
    <2>1. /\ c.green = 0 /\ c.red = 1 /\ c.color = RED /\ c.age_yellow = y
          /\ c.age_red = Restart(s.old_red # 1, s.age_red)
      BY <1>2, <1>7 DEF DecodeGreenOnly, PhaseState, y
    <2>2. AgeTells(s, yel) =>
            \/ s.color = YELLOW /\ s.old_red # 1
            \/ s.color = RED /\ s.old_red = 1
      BY <1>2, <1>3, <1>7 DEF AgeTells
    <2> QED
      BY <1>7, <2>1, <2>2
         DEF AgeWillTell, Kept, Restart, GREEN, YELLOW, RED
  <1> QED
    BY <1>1, <1>2, <1>4, <1>5, <1>6, <1>7

\* What else the countdown, the bookkeeping and the ageing leave alone.
LEMMA PassKeepsClock ==
  ASSUME NEW p \in Phase, NEW t \in Plan, NEW d \in 0 .. Period,
         NEW c \in PhaseState
  PROVE  LET r == Countdown(p, c, t)
             n == Later(Remember(r), d)
         IN  /\ n.old_yellow = c.yellow /\ n.old_red = c.red
             /\ n.age_green = Older(c.age_green, d)
             /\ n.age_red = Older(c.age_red, d)
             /\ Approach(r).time_to_next =
                  Short(TenthsPerTick * TimeLeft(p, c, t))
  <1> DEFINE left == TimeLeft(p, c, t)
             r == Countdown(p, c, t)
             m == Remember(r)
             n == Later(m, d)
  <1>1. DOMAIN c = {"green", "yellow", "red", "old_green", "old_yellow",
                    "old_red", "color", "age_green", "age_yellow", "age_red",
                    "time_left"}
    BY DEF PhaseState
  <1>2. r = [c EXCEPT !.time_left = left]
    BY DEF Countdown
  <1> HIDE DEF left, r
  <1>3. /\ r.yellow = c.yellow /\ r.red = c.red /\ r.time_left = left
        /\ r.age_green = c.age_green /\ r.age_red = c.age_red
        /\ DOMAIN r = DOMAIN c
    BY <1>1, <1>2
  <1>4. /\ m.old_yellow = r.yellow /\ m.old_red = r.red
        /\ m.age_green = r.age_green /\ m.age_red = r.age_red
        /\ DOMAIN m = DOMAIN r
    BY <1>1, <1>3 DEF Remember
  <1> HIDE DEF m
  <1>5. /\ n.old_yellow = m.old_yellow /\ n.old_red = m.old_red
        /\ n.age_green = Older(m.age_green, d)
        /\ n.age_red = Older(m.age_red, d)
    BY <1>1, <1>3, <1>4 DEF Later
  <1>6. Approach(r).time_to_next = Short(TenthsPerTick * r.time_left)
    BY DEF Approach
  <1> QED
    BY <1>3, <1>4, <1>5, <1>6 DEF r, m, left

\* An age that runs on stays past what it was past.
LEMMA OlderBeyond ==
  ASSUME NEW d \in 0 .. Period, NEW a \in Age \cup {Unset}
  PROVE  /\ a = Unset => Older(a, d) = Unset
         /\ a \in Age => Older(a, d) \in Age /\ Older(a, d) >= a
  BY PhasesAssumption DEF Older, Age, Unset

\* One pass over a phase: it leaves the lamps it remembers, and the age of an
\* inferred yellow, in step with the colour; and if they were in step before,
\* the start of the colour it shows is set when that colour comes on.
LEMMA DecodedInStep ==
  ASSUME NEW p \in Phase, NEW t \in Plan, NEW src, NEW d \in 0 .. Period,
         NEW s \in PhaseState, NEW b \in Lamps, Clear(b, src),
         NEW c, c = Decode(p, s, b, src, t),
         NEW r, r = Countdown(p, c, t),
         NEW n, n = Later(Remember(r), d),
         NEW f, f = Filled(r, b, src),
         NEW yel, yel = YellowLen[t][p],
         NEW o \in Lamps
  PROVE  /\ Clear(f, src) /\ InStep(n, f, src, yel)
         /\ Decoder(src) # "none" => c.color \in UNKNOWN .. RED
         /\ Decoder(src) = "none" => c = s
         /\ InStep(s, o, src, yel) /\ ~Withdrawn(o, f) => Kept(s, c)
  <1>1. c \in PhaseState /\ yel \in Nat
    BY DecodeType, PhasesAssumption
  <1>2. /\ n.color = c.color /\ n.old_green = c.green
        /\ n.old_yellow = c.yellow /\ n.old_red = c.red
        /\ n.age_yellow = Older(c.age_yellow, d)
        /\ r.color = c.color
    BY <1>1, PassKeeps, PassKeepsClock
  <1>3. /\ UNKNOWN \in UNKNOWN .. RED /\ GREEN \in UNKNOWN .. RED
        /\ YELLOW \in UNKNOWN .. RED /\ RED \in UNKNOWN .. RED
    BY DEF UNKNOWN, GREEN, YELLOW, RED
  <1>4. CASE Decoder(src) = "all"
    <2>1. src = NTCIP
      BY <1>4 DEF Decoder
    <2>2. c = DecodeNtcip(s, b) /\ b.green + b.yellow + b.red = 1
      BY <1>4, <2>1 DEF Decode, Clear
    <2>3. LampsWillTell(c) /\ (LampsTell(s) => Kept(s, c))
      BY <2>2, AllLampsClock
    <2>4. f = b
      BY <2>1 DEF Filled, GreenYellowInput, GreenOnlyInput,
                  NTCIP, AB3418, SNIFF
    <2>5. LampsTell(n) /\ c.color \in UNKNOWN .. RED
      BY <1>2, <1>3, <2>3 DEF LampsWillTell, LampsTell
    <2> QED
      BY <1>4, <2>3, <2>4, <2>5 DEF InStep
  <1>5. CASE Decoder(src) = "yellow"
    <2>1. src # NTCIP /\ GreenYellowInput(src)
      BY <1>5 DEF Decoder
    <2>2. c = DecodeGreenYellow(s, b)
      BY <2>1 DEF Decode
    <2>3. f.green = b.green /\ f.yellow = b.yellow
      BY <2>1 DEF Filled, Lamps
    <2>4. /\ YellowWillTell(c, b)
          /\ YellowTells(s, o) /\ ~Withdrawn(o, b) => Kept(s, c)
      BY <2>2, GreenYellowClock
    <2>5. YellowTells(n, f) /\ c.color \in UNKNOWN .. RED
      BY <1>2, <1>3, <2>3, <2>4 DEF YellowWillTell, YellowTells
    <2>6. Withdrawn(o, b) <=> Withdrawn(o, f)
      BY <2>3 DEF Withdrawn
    <2> QED
      BY <1>5, <2>4, <2>5, <2>6 DEF InStep, Clear
  <1>6. CASE Decoder(src) = "green"
    <2>1. src # NTCIP /\ ~GreenYellowInput(src) /\ GreenOnlyInput(src)
      BY <1>6 DEF Decoder
    <2>2. c = DecodeGreenOnly(s, b, yel)
      BY <2>1 DEF Decode
    <2>3. AgeWillTell(c, yel) /\ (AgeTells(s, yel) => Kept(s, c))
      BY <1>1, <2>2, GreenOnlyClock
    <2>4. /\ c.age_yellow \in Age \cup {Unset}
          /\ c.age_yellow = Unset => n.age_yellow = Unset
          /\ c.age_yellow \in Age =>
               n.age_yellow \in Age /\ n.age_yellow >= c.age_yellow
      BY <1>1, <1>2, OlderBeyond DEF PhaseState
    <2>5. c.age_yellow \in Age /\ c.age_yellow > yel => n.age_yellow > yel
      BY <1>1, <2>4, PhasesAssumption DEF Age
    <2>6. AgeTells(n, yel) /\ c.color \in UNKNOWN .. RED
      BY <1>2, <1>3, <2>3, <2>4, <2>5 DEF AgeWillTell, AgeTells
    <2> QED
      BY <1>6, <2>3, <2>6 DEF InStep, Clear
  <1>7. CASE Decoder(src) = "none"
    <2>1. src # NTCIP /\ ~GreenYellowInput(src) /\ ~GreenOnlyInput(src)
      BY <1>7 DEF Decoder
    <2>2. c = s
      BY <2>1 DEF Decode
    <2> QED
      BY <1>7, <2>2 DEF InStep, Clear, Kept
  <1>8. Decoder(src) \in {"all", "yellow", "green", "none"}
    BY DEF Decoder
  <1> QED
    BY <1>4, <1>5, <1>6, <1>7, <1>8

\* Multiplied by a natural number the order stays.
LEMMA ScaledOrder ==
  ASSUME NEW k \in Nat, NEW a \in Int, NEW b \in Int, a <= b
  PROVE  k * a <= k * b
  <1> DEFINE e == b - a
  <1>1. e \in Nat /\ b = a + e
    OBVIOUS
  <1> HIDE DEF e
  <1>2. k * e \in Nat /\ k * (a + e) = k * a + k * e /\ k * a \in Int
    BY <1>1
  <1> QED
    BY <1>1, <1>2

\* What is published while colour c has the age a and has been shown for h.
LEMMA PublishedCountdown ==
  ASSUME CountdownFits, NEW p \in Phase, NEW t \in Plan,
         TimingType[t] # ACTUATED, NEW c \in {GREEN, YELLOW, RED},
         NEW a \in 0 .. MaxAge, NEW h \in Nat,
         a <= h + Period, h <= a + Period,
         NEW left, left = Remaining(p, c, t, a),
         NEW exact, exact = Remaining(p, c, t, h)
  PROVE  /\ Short(TenthsPerTick * left) >= TenthsPerTick * (exact - Period)
         /\ Short(TenthsPerTick * left) <= TenthsPerTick * (exact + Period)
  <1>1. /\ TenthsPerTick \in Nat /\ Period \in Nat /\ MaxAge \in Nat
        /\ GreenLen[t][p] \in Nat /\ YellowLen[t][p] \in Nat
        /\ CycleLen[t] \in Nat
    BY PhasesAssumption
  <1>2. \E len \in Int : left = len - a /\ exact = len - h
    BY <1>1 DEF Remaining, GREEN, YELLOW, RED
  <1>3. /\ left \in Int /\ exact \in Int
        /\ exact - Period <= left /\ left <= exact + Period
    BY <1>1, <1>2
  <1>4. Short(TenthsPerTick * left) = TenthsPerTick * left
    BY ShortInRange DEF CountdownFits
  <1> QED
    BY <1>1, <1>3, <1>4, ScaledOrder

\* An age kept, or set as the colour comes on, then aged by the wait.
LEMMA AgedStep ==
  ASSUME NEW d \in 0 .. Period, NEW a \in Age \cup {Unset},
         NEW h \in 0 .. MaxAge, NEW h2, NEW on \in BOOLEAN,
         h2 = IF on THEN 0 ELSE Saturated(h + d),
         IF on THEN a = 0 ELSE Aged(a, h),
         h2 + Period < MaxAge
  PROVE  /\ a \in 0 .. MaxAge /\ h2 \in Nat
         /\ a <= h2 + Period /\ h2 <= a + Period
         /\ Aged(Older(a, d), h2)
  BY PhasesAssumption DEF Aged, Older, Saturated, Age, Unset

LEMMA ClockPass ==
  ASSUME SameYellow, ReadOneWay, CountdownFits, TTypeOK,
         NEW p \in Phase, ClockOf(p), YellowStays,
         NEW src \in site, NEW bits \in [Phase -> Lamps], Clear(bits[p], src),
         NEW t \in Plan, NEW d \in 0 .. Period,
         NEW kind \in {"timer", "trigger"},
         Pass(src, bits, TRUE, t, d), Observe(kind, d)
  PROVE  ClockOf(p)' /\ (TimingType[t] # ACTUATED => Anchored(p)')
  <1> DEFINE s   == ph[p]
             b   == bits[p]
             yel == YellowLen[t][p]
             c   == Decode(p, s, b, src, t)
             r   == Countdown(p, c, t)
             n   == ph'[p]
             f   == atsc'[p]
             h   == held[p]
             h2  == held'[p]
  <1>1. /\ s \in PhaseState /\ b \in Lamps /\ atsc[p] \in Lamps
        /\ h \in 0 .. MaxAge /\ tindex \in Plan /\ site \in Sites
        /\ MaxAge \in Nat /\ Period \in Nat
        /\ fresh[p] \in BOOLEAN /\ first_trigger \in BOOLEAN
    BY PhasesAssumption DEF TTypeOK, TypeOK
  <1>2. /\ n = Later(Remember(r), d) /\ f = Filled(r, b, src)
        /\ info_source' = src /\ tindex' = t /\ first_trigger' = TRUE
        /\ ix'[p] = Approach(r)
    BY DEF Pass, Shows
  <1>3. /\ h2 = IF Changes(p) THEN 0 ELSE Saturated(h + d)
        /\ fresh'[p] = (fresh[p] \/ (first_trigger /\ Changes(p)))
        /\ site' = site
    BY DEF Observe
  <1>4. c \in PhaseState
    BY <1>1, DecodeType
  <1>5. /\ Clear(f, src) /\ InStep(n, f, src, yel)
        /\ Decoder(src) # "none" => c.color \in UNKNOWN .. RED
        /\ Decoder(src) = "none" => c = s
        /\ InStep(s, atsc[p], src, yel) /\ ~Withdrawn(atsc[p], f) =>
             Kept(s, c)
    <2>1. /\ c = Decode(p, s, b, src, t) /\ r = Countdown(p, c, t)
          /\ yel = YellowLen[t][p] /\ Clear(b, src)
      OBVIOUS
    <2> HIDE DEF s, b, yel, c, r, n, f
    <2> QED
      BY <1>1, <1>2, <2>1, DecodedInStep
  <1>6. /\ n.color = c.color /\ r.color = c.color
        /\ n.age_green = Older(c.age_green, d)
        /\ n.age_yellow = Older(c.age_yellow, d)
        /\ n.age_red = Older(c.age_red, d)
        /\ Approach(r).signal_state = Byte(c.color)
        /\ Approach(r).time_to_next =
             Short(TenthsPerTick * TimeLeft(p, c, t))
    <2> HIDE DEF c
    <2> QED
      BY <1>2, <1>4, PassKeeps, PassKeepsClock
  <1>7. first_trigger =>
          Kept(s, c) /\ (Changes(p) <=> Byte(c.color) # Byte(s.color))
    <2> SUFFICES ASSUME first_trigger
                 PROVE  Kept(s, c) /\ (Changes(p) <=>
                                         Byte(c.color) # Byte(s.color))
      OBVIOUS
    <2>1. /\ info_source \in site /\ Shown(p) = Byte(s.color)
          /\ InStep(s, atsc[p], info_source, YellowLen[tindex][p])
      BY DEF ClockOf
    <2>2. Decoder(info_source) = Decoder(src) /\ YellowLen[tindex][p] = yel
      BY <1>1, <2>1 DEF ReadOneWay, SameYellow
    <2>3. InStep(s, atsc[p], src, yel) /\ ~Withdrawn(atsc[p], f)
      BY <2>1, <2>2 DEF InStep, YellowStays
    <2> QED
      BY <1>2, <1>5, <1>6, <2>1, <2>3 DEF Changes
  <1> HIDE DEF s, b, yel, c, r, n, f, h, h2
  <1>8. /\ c.age_green \in Age \cup {Unset}
        /\ c.age_yellow \in Age \cup {Unset}
        /\ c.age_red \in Age \cup {Unset}
    BY <1>4 DEF PhaseState
  \* A colour seen to come on was known before, and is known now.
  <1>9. ASSUME fresh'[p]
        PROVE  /\ first_trigger /\ c.color \in UNKNOWN .. RED
               /\ Changes(p) => c.color # s.color
               /\ ~Changes(p) => fresh[p] /\ c.color = s.color
    <2>1. first_trigger
      BY <1>3, <1>9 DEF ClockOf
    <2>2. CASE Decoder(src) = "none"
      <3>1. c = s /\ ~Changes(p)
        BY <1>5, <1>7, <2>1, <2>2
      <3> QED
        BY <1>3, <1>9, <2>1, <3>1 DEF ClockOf, s
    <2>3. CASE Decoder(src) # "none"
      <3>1. c.color \in UNKNOWN .. RED /\ Byte(c.color) = c.color
        BY <1>5, <2>3, ColorByte DEF UNKNOWN, GREEN, YELLOW, RED
      <3>2. CASE Changes(p)
        BY <1>7, <2>1, <3>1, <3>2
      <3>3. CASE ~Changes(p)
        <4>1. fresh[p] /\ s.color \in UNKNOWN .. RED
          BY <1>3, <1>9, <3>3 DEF ClockOf, s
        <4>2. Byte(s.color) = s.color
          BY <4>1, ColorByte DEF UNKNOWN, GREEN, YELLOW, RED
        <4> QED
          BY <1>7, <2>1, <3>1, <3>3, <4>1, <4>2
      <3> QED
        BY <3>2, <3>3
    <2> QED
      BY <2>2, <2>3
  <1>10. ASSUME fresh'[p], h2 + Period < MaxAge, NEW a \in Age \cup {Unset},
                IF Changes(p) THEN a = 0 ELSE Aged(a, h)
         PROVE  /\ a \in 0 .. MaxAge /\ h2 \in Nat
                /\ a <= h2 + Period /\ h2 <= a + Period
                /\ Aged(Older(a, d), h2)
    <2> DEFINE on == Changes(p)
    <2>1. on \in BOOLEAN /\ (on <=> Changes(p))
      BY DEF Changes
    <2> HIDE DEF on
    <2>2. h2 = IF on THEN 0 ELSE Saturated(h + d)
      BY <1>3, <2>1
    <2>3. IF on THEN a = 0 ELSE Aged(a, h)
      BY <1>10, <2>1
    <2> QED
      BY <1>1, <1>10, <2>1, <2>2, <2>3, AgedStep
  <1>11. ASSUME fresh'[p]
         PROVE  /\ c.color = GREEN => IF Changes(p) THEN c.age_green = 0
                                      ELSE Aged(c.age_green, h)
                /\ c.color = YELLOW => IF Changes(p) THEN c.age_yellow = 0
                                       ELSE Aged(c.age_yellow, h)
                /\ c.color = RED => IF Changes(p) THEN c.age_red = 0
                                    ELSE Aged(c.age_red, h)
    BY <1>7, <1>9, <1>11 DEF Kept, ClockOf, s, h
  <1>12. ClockOf(p)'
    <2>1. /\ info_source' \in site' /\ ix'[p].signal_state = Byte(n.color)
          /\ Clear(f, info_source')
          /\ InStep(n, f, info_source', (YellowLen[tindex][p])')
      BY <1>2, <1>3, <1>5, <1>6 DEF yel
    <2>2. ASSUME fresh'[p]
          PROVE  /\ n.color \in UNKNOWN .. RED
                 /\ n.color = GREEN => Aged(n.age_green, h2)
                 /\ n.color = YELLOW => Aged(n.age_yellow, h2)
                 /\ n.color = RED => Aged(n.age_red, h2)
      <3>1. CASE h2 + Period < MaxAge
        BY <1>6, <1>8, <1>9, <1>10, <1>11, <2>2, <3>1
      <3>2. CASE ~(h2 + Period < MaxAge)
        BY <1>6, <1>9, <2>2, <3>2 DEF Aged
      <3> QED
        BY <3>1, <3>2
    <2> QED
      BY <1>2, <2>1, <2>2 DEF ClockOf, Shown, n, f, h2
  <1>13. ASSUME TimingType[t] # ACTUATED PROVE Anchored(p)'
    <2> SUFFICES ASSUME fresh'[p], ix'[p].signal_state \in {GREEN, YELLOW, RED},
                        h2 + Period < MaxAge,
                        NEW exact,
                        exact = Remaining(p, ix'[p].signal_state, t, h2)
                 PROVE  /\ ix'[p].time_to_next >=
                             TenthsPerTick * (exact - Period)
                        /\ ix'[p].time_to_next <=
                             TenthsPerTick * (exact + Period)
      BY <1>2 DEF Anchored, Shown, Remaining, h2
    <2>1. /\ ix'[p].signal_state = c.color
          /\ ix'[p].time_to_next = Short(TenthsPerTick * TimeLeft(p, c, t))
      BY <1>2, <1>6, <1>9, ColorByte DEF UNKNOWN, GREEN, YELLOW, RED
    <2>2. CASE c.color = GREEN
      <3>1. TimeLeft(p, c, t) = Remaining(p, GREEN, t, c.age_green)
        BY <1>13, <2>2 DEF TimeLeft, Remaining, UNKNOWN, GREEN, YELLOW, RED
      <3> QED
        BY <1>8, <1>10, <1>11, <1>13, <2>1, <2>2, <3>1, PublishedCountdown
    <2>3. CASE c.color = YELLOW
      <3>1. TimeLeft(p, c, t) = Remaining(p, YELLOW, t, c.age_yellow)
        BY <2>3 DEF TimeLeft, Remaining, UNKNOWN, GREEN, YELLOW, RED
      <3> QED
        BY <1>8, <1>10, <1>11, <1>13, <2>1, <2>3, <3>1, PublishedCountdown
    <2>4. CASE c.color = RED
      <3>1. TimeLeft(p, c, t) = Remaining(p, RED, t, c.age_red)
        BY <1>13, <2>4 DEF TimeLeft, Remaining, UNKNOWN, GREEN, YELLOW, RED
      <3> QED
        BY <1>8, <1>10, <1>11, <1>13, <2>1, <2>4, <3>1, PublishedCountdown
    <2> QED
      BY <2>1, <2>2, <2>3, <2>4
  <1> QED
    BY <1>12, <1>13

\* Every step is a pass over clear readings: those of a trigger are, and the
\* timer takes those of the last one again.
LEMMA ClockStep ==
  ASSUME SameYellow, ReadOneWay, ReadClearly, CountdownFits, TTypeOK,
         NEW p \in Phase, ClockOf(p), YellowStays,
         NEW d \in 0 .. Period, TTrigger(d) \/ TTimer(d)
  PROVE  ClockOf(p)' /\ (TimingType[tindex'] # ACTUATED => Anchored(p)')
  <1>1. CASE TTrigger(d)
    <2>1. PICK src \in Sources, bits \in [Phase -> Readings], t \in Plan :
            Pass(src, bits, TRUE, t, d)
      BY <1>1 DEF TTrigger, Trigger
    <2>2. src \in site /\ tindex' = t /\ Observe("trigger", d)
      BY <1>1, <2>1 DEF TTrigger, Pass
    <2>3. Clear(bits[p], src) /\ bits \in [Phase -> Lamps]
      BY <2>2, ReadingsType DEF ReadClearly, TTypeOK
    <2> QED
      BY <2>1, <2>2, <2>3, ClockPass
  <1>2. CASE TTimer(d)
    <2>1. PICK t \in Plan : Pass(info_source, atsc, first_trigger, t, d)
      BY <1>2 DEF TTimer, Timer
    <2>2. tindex' = t /\ first_trigger' = first_trigger
          /\ Observe("timer", d)
      BY <1>2, <2>1 DEF TTimer, Pass
    <2>3. CASE first_trigger
      <3>1. first_trigger = TRUE /\ atsc \in [Phase -> Lamps]
        BY <2>3 DEF TTypeOK, TypeOK
      <3>2. info_source \in site /\ Clear(atsc[p], info_source)
        BY <2>3 DEF ClockOf
      <3>3. Pass(info_source, atsc, TRUE, t, d)
        BY <2>1, <3>1
      <3> QED
        BY <2>2, <3>1, <3>2, <3>3, ClockPass
    <2>4. CASE ~first_trigger
      <3>1. ~first_trigger' /\ ~fresh[p]
        BY <2>2, <2>4 DEF ClockOf
      <3>2. ~fresh'[p]
        BY <2>2, <2>4, <3>1 DEF Observe
      <3> QED
        BY <3>1, <3>2 DEF ClockOf, Anchored
    <2> QED
      BY <2>3, <2>4
  <1> QED
    BY <1>1, <1>2

\* In a plan that is not actuated the countdown of a colour that has been seen
\* to come on is the plan's length of that colour less the real time it has
\* been shown, to within one timer interval.  The premises are about the site:
\* its plans agree on the yellows, its source is read in one way, three lamps
\* are read with one lit, and a yellow is not withdrawn while green is lit.
THEOREM CountdownsAnchored ==
  ASSUME SameYellow, ReadOneWay, ReadClearly, CountdownFits
  PROVE  TSpec /\ [][YellowStays]_tvars => []CountdownAnchored
  <1>1. TInit => ClockInv /\ CountdownAnchored
    BY DEF TInit, Init, ClockInv, ClockOf, CountdownAnchored, Anchored
  <1>2. /\ TTypeOK /\ ClockInv /\ CountdownAnchored
        /\ [TNext]_tvars /\ [YellowStays]_tvars
        => ClockInv' /\ CountdownAnchored'
    <2> SUFFICES ASSUME TTypeOK, ClockInv, CountdownAnchored, [TNext]_tvars,
                        [YellowStays]_tvars
                 PROVE  ClockInv' /\ CountdownAnchored'
      OBVIOUS
    <2>1. CASE UNCHANGED tvars
      BY <2>1
         DEF tvars, vars, obs, ClockInv, ClockOf, Shown, CountdownAnchored,
             Anchored
    <2>2. CASE ~UNCHANGED tvars
      <3>1. YellowStays
        BY <2>2
      <3>2. PICK d \in 0 .. Period : TTrigger(d) \/ TTimer(d)
        BY <2>2 DEF TNext
      <3> QED
        BY <3>1, <3>2, ClockStep DEF ClockInv, CountdownAnchored
    <2> QED
      BY <2>1, <2>2
  <1> QED
    BY <1>1, <1>2, TypeCorrect, PTL DEF TSpec

-----------------------------------------------------------------------------
(***************************************************************************)
(* The way of a green from the lamp through the sniffer to the message.    *)
(***************************************************************************)
GreenSite == SniffGreen /\ ~SniffYellow

LEMMA WatchedPhase ==
  ASSUME NEW p \in Watched
  PROVE  GreenSite /\ p \in Phase /\ p \in 1 .. 8 /\ <<"G", p>> \in Wire
  BY DEF Watched, GreenSite

(***************************************************************************)
(* What one pass does to one phase of a site with green inputs.  Before    *)
(* the first trigger nothing is known of the record of a phase but which   *)
(* fields it has.                                                          *)
(***************************************************************************)

Fields == {"green", "yellow", "red", "old_green", "old_yellow", "old_red",
           "color", "age_green", "age_yellow", "age_red", "time_left"}

LEMMA DecodeFields ==
  ASSUME NEW p, NEW s, NEW b, NEW src, NEW t, NEW d, DOMAIN s = Fields
  PROVE  DOMAIN Later(Remember(Shows(p, s, b, src, t)), d) = Fields
  <1>1. DOMAIN Decode(p, s, b, src, t) = Fields
    BY DEF Decode, DecodeNtcip, DecodeGreenYellow, DecodeGreenOnly
  <1> QED
    BY <1>1 DEF Later, Remember, Shows, Countdown

\* The colour a pass gives, and what it remembers for the next one.
LEMMA GreenPass ==
  ASSUME GreenSite, NEW p, NEW s, NEW b \in Lamps, NEW t, NEW d,
         DOMAIN s = Fields
  PROVE  LET now == Shows(p, s, b, SNIFF, t)
             q == Later(Remember(now), d)
             age == YellowAge(s)
         IN  /\ b.green = 1 => now.color = GREEN /\ q.old_green = 1
             /\ b.green = 0 =>
                  /\ now.color = (IF age = Unset THEN UNKNOWN
                                  ELSE IF age <= YellowLen[t][p] THEN YELLOW
                                  ELSE RED)
                  /\ q.old_green = 0
                  /\ q.age_yellow = Older(age, d)
  <1> DEFINE now == Shows(p, s, b, SNIFF, t)
             q == Later(Remember(now), d)
             decoded == DecodeGreenOnly(s, b, YellowLen[t][p])
  <1>1. now = Countdown(p, decoded, t)
    BY DEF Shows, Decode, GreenYellowInput, GreenOnlyInput, GreenSite, SNIFF,
           NTCIP, AB3418
  <1>2. DOMAIN decoded = Fields
    BY DEF DecodeGreenOnly
  <1>3. /\ b.green = 1 => decoded.color = GREEN /\ decoded.green = 1
        /\ b.green = 0 =>
             /\ decoded.color = (IF YellowAge(s) = Unset THEN UNKNOWN
                                 ELSE IF YellowAge(s) <= YellowLen[t][p]
                                 THEN YELLOW ELSE RED)
             /\ decoded.green = 0 /\ decoded.age_yellow = YellowAge(s)
    BY DEF DecodeGreenOnly, Fields
  <1> HIDE DEF decoded
  <1>4. /\ DOMAIN now = Fields /\ now.color = decoded.color
        /\ now.green = decoded.green /\ now.age_yellow = decoded.age_yellow
    BY <1>1, <1>2 DEF Countdown, Fields
  <1> HIDE DEF now
  <1>5. q.old_green = now.green /\ q.age_yellow = Older(now.age_yellow, d)
    BY <1>4 DEF Later, Remember, Fields
  <1>6. b.green \in {0, 1}
    BY DEF Lamps, Bit
  <1> QED
    BY <1>3, <1>4, <1>5, <1>6 DEF now

\* What is published is the colour.
LEMMA ColorShown ==
  ASSUME NEW s, s.color \in {UNKNOWN, GREEN, YELLOW, RED}
  PROVE  Approach(s).signal_state = s.color
  BY DEF Approach, Byte, UNKNOWN, GREEN, YELLOW, RED

(***************************************************************************)
(* Types and clocks.  A trigger is queued only for a program that runs,    *)
(* and a timer pulse is late only while phases is behind.                  *)
(***************************************************************************)

STypeInv ==
  /\ \A p \in Phase : DOMAIN ph[p] = Fields
  /\ atsc \in [Phase -> Lamps] /\ db \in [Phase -> Lamps]
  /\ tindex \in Plan /\ first_trigger \in BOOLEAN /\ up \in BOOLEAN
  /\ was_green \in [Phase -> BOOLEAN]
  /\ lamp \in [Phase -> {GREEN, YELLOW, RED}]
  /\ lit \in [Phase -> 0 .. MaxAge]
  /\ polled \in 0 .. PollPeriod
  /\ queued \in Nat /\ behind \in 0 .. MaxDelay
  /\ timer \in 0 .. Period + behind
  /\ waited \in Nat /\ waited <= timer
  /\ ~up => queued = 0 /\ timer = 0 /\ behind = 0 /\ ~first_trigger

LEMMA DigioType == Digio \in [Phase -> Lamps]
  BY DEF Digio, Lit, Lamps, Bit

LEMMA TypeInit == SInit => STypeInv
  <1> SUFFICES ASSUME SInit PROVE STypeInv
    OBVIOUS
  <1>1. Dark \in Lamps
    BY DEF Dark, Lamps, Bit
  <1>2. \A p \in Phase : DOMAIN ph[p] = Fields
    BY DEF SInit, Init, Fields
  <1>3. atsc \in [Phase -> Lamps]
    BY PhasesAssumption DEF SInit, Init
  <1>4. /\ lamp \in [Phase -> {GREEN, YELLOW, RED}]
        /\ db \in [Phase -> Lamps]
        /\ lit \in [Phase -> 0 .. MaxAge]
        /\ was_green \in [Phase -> BOOLEAN]
    BY <1>1, PhasesAssumption DEF SInit
  <1>5. /\ tindex \in Plan /\ first_trigger = FALSE /\ up = FALSE
        /\ polled = PollPeriod /\ queued = 0 /\ timer = 0 /\ waited = 0
        /\ behind = 0
    BY DEF SInit, Init
  <1>6. polled \in 0 .. PollPeriod
    BY <1>5, SnifferAssumption
  <1>7. /\ timer \in 0 .. Period + behind /\ queued \in Nat
        /\ waited \in Nat /\ waited <= timer /\ behind \in 0 .. MaxDelay
    BY <1>5, PhasesAssumption, SnifferAssumption
  <1>8. /\ up \in BOOLEAN /\ first_trigger \in BOOLEAN
        /\ ~up => queued = 0 /\ timer = 0 /\ behind = 0 /\ ~first_trigger
    BY <1>5
  <1> QED
    BY <1>2, <1>3, <1>4, <1>5, <1>6, <1>7, <1>8 DEF STypeInv

\* A pass over any data, with any plan and after any wait.
LEMMA PassTypes ==
  ASSUME STypeInv, NEW src, NEW bits \in [Phase -> Lamps],
         NEW triggered \in BOOLEAN, NEW t \in Plan, NEW d,
         Pass(src, bits, triggered, t, d)
  PROVE  /\ \A p \in Phase : DOMAIN ph'[p] = Fields
         /\ atsc' \in [Phase -> Lamps] /\ tindex' \in Plan
         /\ first_trigger' = triggered
  <1>1. \A p \in Phase : DOMAIN ph'[p] = Fields
    BY DecodeFields DEF Pass, STypeInv
  <1>2. \A p \in Phase :
          Filled(Shows(p, ph[p], bits[p], src, t), bits[p], src) \in Lamps
    BY FilledType
  <1> QED
    BY <1>1, <1>2, Zenon DEF Pass

\* Which pass it is: over the variable, or over the copy of the last one.
LEMMA PassOnTriggerIs ==
  ASSUME PassOnTrigger
  PROVE  \E t \in Plan : Pass(SNIFF, db, TRUE, t, waited)
  BY DEF PassOnTrigger, PassOnDb

LEMMA PassOnTimerIs ==
  ASSUME PassOnTimer
  PROVE  \E t \in Plan :
           \/ Pass(info_source, atsc, first_trigger, t, waited)
           \/ first_trigger /\ Pass(SNIFF, db, TRUE, t, waited)
  BY DEF PassOnTimer, PassOnDb, Timer

\* What a pass leaves of the queue and the clocks.
LEMMA CatchUpTypes ==
  ASSUME STypeInv, NEW n \in {0, Period}, n <= timer, up' = up,
         timer' = timer - n, CatchUp
  PROVE  behind' \in 0 .. MaxDelay /\ timer' \in 0 .. Period + behind'
  <1>1. /\ Period \in Nat /\ MaxDelay \in Nat /\ behind \in 0 .. MaxDelay
        /\ timer \in 0 .. Period + behind
    BY PhasesAssumption, SnifferAssumption DEF STypeInv
  <1>2. CASE Due'
    <2>1. behind' = behind
      BY <1>2 DEF CatchUp
    <2> QED
      BY <1>1, <2>1
  <1>3. CASE ~Due'
    <2>1. behind' = 0
      BY <1>3 DEF CatchUp
    <2>2. up => ~(timer' >= Period)
      BY <1>3 DEF Due
    <2>3. ~up => timer = 0
      BY DEF STypeInv
    <2> QED
      BY <1>1, <2>1, <2>2, <2>3
  <1> QED
    BY <1>2, <1>3

LEMMA TypeStep == STypeInv /\ [SNext]_svars => STypeInv'
  <1> SUFFICES ASSUME STypeInv, [SNext]_svars PROVE STypeInv'
    OBVIOUS
  <1>1. ASSUME NEW p \in Phase, LampChange(p) PROVE STypeInv'
    <2>1. After(lamp[p]) \in {GREEN, YELLOW, RED}
      BY DEF STypeInv, After, GREEN, YELLOW, RED
    <2>2. was_green' \in [Phase -> BOOLEAN]
      BY <1>1 DEF LampChange, STypeInv
    <2> QED
      BY <1>1, <2>1, <2>2, PhasesAssumption
         DEF LampChange, STypeInv, vars, sniffer, waiting
  <1>2. CASE Poll
    BY <1>2, DigioType, SnifferAssumption
       DEF Poll, WriteAtscDbVar, Notify, STypeInv, vars, signal
  <1>3. CASE Start
    BY <1>3, PhasesAssumption DEF Start, STypeInv, vars, signal, sniffer
  <1>4. CASE PassOnTrigger
    <2>1. PICK t \in Plan : Pass(SNIFF, db, TRUE, t, waited)
      BY <1>4, PassOnTriggerIs
    <2>2. /\ \A p \in Phase : DOMAIN ph'[p] = Fields
          /\ atsc' \in [Phase -> Lamps] /\ tindex' \in Plan
          /\ first_trigger' = TRUE
      BY <2>1, PassTypes DEF STypeInv
    <2>3. was_green' \in [Phase -> BOOLEAN] /\ up
      BY <1>4 DEF PassOnTrigger, STypeInv
    <2>4. timer' = timer /\ waited' = 0 /\ up' = up /\ CatchUp
      BY <1>4 DEF PassOnTrigger
    <2>5. timer \in Nat /\ timer' = timer - 0
      BY <2>4, PhasesAssumption, SnifferAssumption DEF STypeInv
    <2>6. behind' \in 0 .. MaxDelay /\ timer' \in 0 .. Period + behind'
      BY <2>4, <2>5, CatchUpTypes
    <2>7. waited' \in Nat /\ waited' <= timer'
      BY <2>4, <2>5
    <2>8. queued' \in Nat
      BY <1>4 DEF PassOnTrigger, STypeInv
    <2>9. UNCHANGED <<lamp, lit, db, polled>>
      BY <1>4 DEF PassOnTrigger, signal, sniffer
    <2> QED
      BY <2>2, <2>3, <2>4, <2>6, <2>7, <2>8, <2>9 DEF STypeInv
  <1>5. CASE PassOnTimer
    <2>1. PICK t \in Plan :
            \/ Pass(info_source, atsc, first_trigger, t, waited)
            \/ first_trigger /\ Pass(SNIFF, db, TRUE, t, waited)
      BY <1>5, PassOnTimerIs
    <2>2. /\ \A p \in Phase : DOMAIN ph'[p] = Fields
          /\ atsc' \in [Phase -> Lamps] /\ tindex' \in Plan
          /\ first_trigger' = first_trigger
      BY <2>1, PassTypes DEF STypeInv
    <2>3. was_green' \in [Phase -> BOOLEAN]
      BY <1>5 DEF PassOnTimer, STypeInv
    <2>4. /\ timer' = timer - Period /\ timer >= Period /\ waited' = 0
          /\ up /\ up' = up /\ queued' = queued /\ CatchUp
      BY <1>5 DEF PassOnTimer
    <2>5. Period <= timer
      BY <2>4, PhasesAssumption, SnifferAssumption DEF STypeInv
    <2>6. behind' \in 0 .. MaxDelay /\ timer' \in 0 .. Period + behind'
      BY <2>4, <2>5, CatchUpTypes
    <2>7. waited' \in Nat /\ waited' <= timer'
      BY <2>4, <2>6, PhasesAssumption, SnifferAssumption
    <2>8. UNCHANGED <<lamp, lit, db, polled>>
      BY <1>5 DEF PassOnTimer, signal, sniffer
    <2> QED
      BY <2>2, <2>3, <2>4, <2>6, <2>7, <2>8 DEF STypeInv
  <1>6. CASE Tick
    <2>1. lit' \in [Phase -> 0 .. MaxAge]
      BY <1>6, PhasesAssumption DEF Tick, STypeInv
    <2>2. polled' \in 0 .. PollPeriod
      BY <1>6, SnifferAssumption DEF Tick, STypeInv
    <2>3. behind' \in 0 .. MaxDelay
      BY <1>6, SnifferAssumption DEF Tick, STypeInv
    <2>4. /\ timer' \in 0 .. Period + behind'
          /\ waited' \in Nat /\ waited' <= timer'
      BY <1>6, PhasesAssumption, SnifferAssumption DEF Tick, Due, STypeInv
    <2>5. ~up => timer' = 0 /\ behind' = 0
      BY <1>6, PhasesAssumption DEF Tick, Due, STypeInv
    <2>6. /\ UNCHANGED <<vars, lamp, last_greens, db, up, queued, was_green>>
      BY <1>6 DEF Tick
    <2> QED
      BY <2>1, <2>2, <2>3, <2>4, <2>5, <2>6 DEF STypeInv, vars
  <1>7. CASE UNCHANGED svars
    BY <1>7 DEF STypeInv, svars, vars, signal, sniffer, waiting
  <1> QED
    BY <1>1, <1>2, <1>3, <1>4, <1>5, <1>6, <1>7 DEF SNext

(***************************************************************************)
(* The way of a green.  The variable always has the greens last compared,  *)
(* and those are the lamps of all phases that did not change since the     *)
(* last poll.  What phases shows is what it read, and unless a trigger is  *)
(* queued that is what the variable has.  A change waits for a poll and    *)
(* then for as long as phases is behind.                                   *)
(***************************************************************************)

WayOf(p) ==
  /\ db[p].green = 1 <=> p \in last_greens
  /\ lit[p] > polled => (p \in last_greens <=> lamp[p] = GREEN)
  /\ first_trigger => (Shown(p) = GREEN <=> atsc[p].green = 1)
  /\ first_trigger /\ queued = 0 => atsc[p].green = db[p].green
  /\ first_trigger /\ lit[p] > PollPeriod + behind =>
       (Shown(p) = GREEN <=> lamp[p] = GREEN)
  /\ ~first_trigger => Shown(p) # GREEN

WayInv ==
  /\ first_trigger => info_source = SNIFF
  /\ \A p \in Watched : WayOf(p)

LEMMA WayInit == SInit => WayInv
  <1> SUFFICES ASSUME SInit PROVE WayInv
    OBVIOUS
  <1>1. ~first_trigger /\ last_greens = {} /\ polled = PollPeriod
    BY DEF SInit, Init
  <1>2. ASSUME NEW p \in Watched PROVE WayOf(p)
    <2>1. p \in Phase
      BY WatchedPhase
    <2>2. db[p].green = 0 /\ lit[p] = 0 /\ Shown(p) = -1
      BY <2>1 DEF SInit, Init, Dark, Shown, NotPublished
    <2> QED
      BY <1>1, <2>2, SnifferAssumption DEF WayOf, GREEN
  <1> QED
    BY <1>1, <1>2 DEF WayInv

\* What a pass over the data of a sniffer shows and remembers.
LEMMA PassShows ==
  ASSUME STypeInv, NEW p \in Watched, NEW bits \in [Phase -> Lamps],
         NEW t \in Plan, Pass(SNIFF, bits, TRUE, t, waited)
  PROVE  /\ atsc'[p].green = bits[p].green
         /\ bits[p].green \in {0, 1}
         /\ ix'[p].signal_state = GREEN <=> bits[p].green = 1
         /\ bits[p].green = 1 => ph'[p].old_green = 1
         /\ bits[p].green = 0 =>
              /\ ph'[p].old_green = 0
              /\ ph'[p].age_yellow = Older(YellowAge(ph[p]), waited)
              /\ ix'[p].signal_state =
                   IF YellowAge(ph[p]) = Unset THEN UNKNOWN
                   ELSE IF YellowAge(ph[p]) <= YellowLen[t][p] THEN YELLOW
                   ELSE RED
  <1> DEFINE now == Shows(p, ph[p], bits[p], SNIFF, t)
  <1>1. p \in Phase /\ GreenSite /\ DOMAIN ph[p] = Fields
    BY WatchedPhase DEF STypeInv
  <1>2. bits[p] \in Lamps /\ bits[p].green \in {0, 1}
    BY <1>1 DEF Lamps, Bit
  <1>3. /\ ph'[p] = Later(Remember(now), waited)
        /\ atsc'[p] = Filled(now, bits[p], SNIFF)
        /\ ix'[p] = Approach(now)
    BY <1>1 DEF Pass
  <1>4. atsc'[p].green = bits[p].green
    BY <1>2, <1>3, FilledType
  <1>5. /\ bits[p].green = 1 => now.color = GREEN /\ ph'[p].old_green = 1
        /\ bits[p].green = 0 =>
             /\ now.color = (IF YellowAge(ph[p]) = Unset THEN UNKNOWN
                             ELSE IF YellowAge(ph[p]) <= YellowLen[t][p]
                             THEN YELLOW ELSE RED)
             /\ ph'[p].old_green = 0
             /\ ph'[p].age_yellow = Older(YellowAge(ph[p]), waited)
    BY <1>1, <1>2, <1>3, GreenPass
  <1> HIDE DEF now
  <1>6. now.color \in {UNKNOWN, GREEN, YELLOW, RED}
    BY <1>2, <1>5
  <1>7. ix'[p].signal_state = now.color
    BY <1>3, <1>6, ColorShown
  <1> QED
    BY <1>2, <1>4, <1>5, <1>7 DEF UNKNOWN, GREEN, YELLOW, RED

\* A poll compares every green with what the variable has.
LEMMA PollWay ==
  ASSUME STypeInv, WayInv, Poll, NEW p \in Watched
  PROVE  WayOf(p)'
  <1>1. p \in Phase /\ p \in 1 .. 8 /\ <<"G", p>> \in Wire
    BY WatchedPhase
  <1>2. (Digio[p].green = 1) <=> (lamp[p] = GREEN)
    BY <1>1 DEF Digio, Lit
  <1>3. p \in Greens(Digio) <=> lamp[p] = GREEN
    BY <1>1, <1>2 DEF Greens
  <1>4. /\ polled' = 0 /\ lit' = lit /\ lamp' = lamp /\ atsc' = atsc
        /\ ix' = ix /\ first_trigger' = first_trigger /\ up' = up
        /\ behind' = behind
    BY DEF Poll, vars, signal
  <1>5. last_greens' = Greens(Digio)
    BY DEF Poll, WriteAtscDbVar
  <1>6. \/ db' = Digio /\ queued' = (IF up THEN queued + 1 ELSE queued)
        \/ UNCHANGED <<db, queued, last_greens>>
    BY DEF Poll, WriteAtscDbVar, Notify
  <1>7. db'[p].green = 1 <=> p \in last_greens'
    BY <1>2, <1>3, <1>5, <1>6 DEF WayInv, WayOf
  <1>8. first_trigger /\ queued' = 0 => atsc[p].green = db'[p].green
    BY <1>6 DEF WayInv, WayOf, STypeInv
  <1> QED
    BY <1>3, <1>4, <1>5, <1>7, <1>8 DEF WayInv, WayOf, Shown

\* A pass over the variable, by a trigger or by the timer.
LEMMA DbPassWay ==
  ASSUME STypeInv, WayInv, NEW p \in Watched, NEW t \in Plan,
         Pass(SNIFF, db, TRUE, t, waited), UNCHANGED <<signal, sniffer>>,
         behind' \in Nat
  PROVE  WayOf(p)'
  <1>1. /\ atsc'[p].green = db[p].green
        /\ ix'[p].signal_state = GREEN <=> db[p].green = 1
    BY PassShows DEF STypeInv
  <1>2. /\ lamp' = lamp /\ lit' = lit /\ polled' = polled /\ db' = db
        /\ last_greens' = last_greens
    BY DEF signal, sniffer
  <1>3. first_trigger'
    BY DEF Pass
  <1>4. p \in Phase /\ lit[p] \in 0 .. MaxAge /\ MaxAge \in Nat
    BY WatchedPhase, PhasesAssumption DEF STypeInv
  <1>5. lit[p] \in Nat /\ polled \in 0 .. PollPeriod /\ PollPeriod \in Nat
    BY <1>4, SnifferAssumption DEF STypeInv
  <1>6. lit[p] > PollPeriod + behind' => lit[p] > polled
    BY <1>5
  <1> QED
    BY <1>1, <1>2, <1>3, <1>6 DEF WayInv, WayOf, Shown

\* With no trigger queued, a green is published by the time of the next poll.
LEMMA NothingQueued ==
  ASSUME STypeInv, WayInv, first_trigger, queued = 0, NEW p \in Watched,
         lit[p] > PollPeriod
  PROVE  Shown(p) = GREEN <=> lamp[p] = GREEN
  <1>1. p \in Phase /\ lit[p] \in 0 .. MaxAge /\ MaxAge \in Nat
    BY WatchedPhase, PhasesAssumption DEF STypeInv
  <1>2. polled \in 0 .. PollPeriod /\ PollPeriod \in Nat
    BY SnifferAssumption DEF STypeInv
  <1>3. lit[p] > polled
    BY <1>1, <1>2
  <1> QED
    BY <1>3 DEF WayInv, WayOf

\* A pass over the copy of the last one.
LEMMA TimerPassWay ==
  ASSUME STypeInv, WayInv, NEW p \in Watched, NEW t \in Plan,
         Pass(info_source, atsc, first_trigger, t, waited),
         UNCHANGED <<signal, sniffer, queued>>,
         behind' = behind \/ (queued = 0 /\ behind' = 0)
  PROVE  WayOf(p)'
  <1>1. /\ lamp' = lamp /\ lit' = lit /\ polled' = polled /\ db' = db
        /\ last_greens' = last_greens /\ queued' = queued
        /\ first_trigger' = first_trigger
    BY DEF signal, sniffer, Pass
  <1>2. CASE first_trigger
    <2>1. Pass(SNIFF, atsc, TRUE, t, waited)
      BY <1>2 DEF WayInv, STypeInv
    <2>2. /\ atsc'[p].green = atsc[p].green
          /\ ix'[p].signal_state = GREEN <=> atsc[p].green = 1
      BY <2>1, PassShows DEF STypeInv
    <2>3. Shown(p) = GREEN <=> atsc[p].green = 1
      BY <1>2 DEF WayInv, WayOf
    <2>4. PollPeriod + 0 = PollPeriod
      BY SnifferAssumption
    <2>5. lit[p] > PollPeriod + behind' => (Shown(p) = GREEN <=> lamp[p] = GREEN)
      BY <1>2, <2>4, NothingQueued DEF WayInv, WayOf
    <2> QED
      BY <1>1, <1>2, <2>2, <2>3, <2>5 DEF WayInv, WayOf, Shown
  <1>3. CASE ~first_trigger
    <2>1. ix' = ix
      BY <1>3 DEF Pass
    <2> QED
      BY <1>1, <1>3, <2>1 DEF WayInv, WayOf, Shown
  <1> QED
    BY <1>2, <1>3

LEMMA LampWay ==
  ASSUME STypeInv, WayInv, NEW q \in Phase, LampChange(q), NEW p \in Watched
  PROVE  WayOf(p)'
  <1>1. /\ polled' = polled /\ last_greens' = last_greens /\ db' = db
        /\ queued' = queued /\ atsc' = atsc /\ ix' = ix
        /\ first_trigger' = first_trigger /\ behind' = behind
    BY DEF LampChange, vars, sniffer, waiting
  <1>2. p \in Phase
    BY WatchedPhase
  <1>3. \/ lamp'[p] = lamp[p] /\ lit'[p] = lit[p]
        \/ lamp[p] # GREEN /\ lamp'[p] # GREEN /\ lit'[p] = lit[p]
        \/ lit'[p] = 0
    BY <1>2 DEF LampChange, STypeInv, After, GREEN, YELLOW, RED
  <1>4. polled \in Nat /\ PollPeriod \in Nat /\ behind \in Nat
    BY SnifferAssumption DEF STypeInv
  <1> QED
    BY <1>1, <1>3, <1>4 DEF WayInv, WayOf, Shown

\* Time passes when no poll is due, whatever waits for phases.
LEMMA TickWay ==
  ASSUME STypeInv, WayInv, Tick, NEW p \in Watched
  PROVE  WayOf(p)'
  <1>1. /\ last_greens' = last_greens /\ db' = db /\ lamp' = lamp
        /\ queued' = queued /\ atsc' = atsc /\ ix' = ix
        /\ first_trigger' = first_trigger
        /\ polled' = polled + 1 /\ polled < PollPeriod
        /\ behind' = IF Due THEN behind + 1 ELSE 0
    BY DEF Tick, vars
  <1>2. p \in Phase /\ lit[p] \in 0 .. MaxAge /\ MaxAge \in Nat
    BY WatchedPhase, PhasesAssumption DEF STypeInv
  <1>3. lit'[p] = IF lit[p] < MaxAge THEN lit[p] + 1 ELSE MaxAge
    BY <1>2 DEF Tick
  <1>4. polled \in Nat /\ PollPeriod \in Nat /\ behind \in Nat
    BY SnifferAssumption DEF STypeInv
  <1>5. lit'[p] > polled' => lit[p] > polled
    BY <1>1, <1>2, <1>3, <1>4
  <1>6. ASSUME first_trigger, lit'[p] > PollPeriod + behind'
        PROVE  Shown(p) = GREEN <=> lamp[p] = GREEN
    <2>1. CASE Due
      <3>1. lit[p] > PollPeriod + behind
        BY <1>1, <1>2, <1>3, <1>4, <1>6, <2>1
      <3> QED
        BY <1>6, <3>1 DEF WayInv, WayOf
    <2>2. CASE ~Due
      <3>1. queued = 0
        BY <2>2 DEF Due, STypeInv
      <3>2. lit[p] > polled
        BY <1>1, <1>2, <1>3, <1>4, <1>6, <2>2
      <3> QED
        BY <1>6, <3>1, <3>2 DEF WayInv, WayOf
    <2> QED
      BY <2>1, <2>2
  <1>7. Shown(p)' = Shown(p)
    BY <1>1 DEF Shown
  <1>8. first_trigger /\ queued = 0 => atsc[p].green = db[p].green
    BY DEF WayInv, WayOf
  <1> QED
    BY <1>1, <1>5, <1>6, <1>7, <1>8 DEF WayInv, WayOf

LEMMA WayStep == STypeInv /\ WayInv /\ [SNext]_svars => WayInv'
  <1> SUFFICES ASSUME STypeInv, WayInv, [SNext]_svars PROVE WayInv'
    OBVIOUS
  <1>0. Watched' = Watched
    BY DEF Watched
  <1>1. ASSUME NEW q \in Phase, LampChange(q) PROVE WayInv'
    BY <1>1, LampWay DEF LampChange, WayInv, vars
  <1>2. CASE Poll
    BY <1>2, PollWay DEF Poll, WayInv, vars
  <1>3. CASE Start
    BY <1>3 DEF Start, WayInv, WayOf, Shown, vars, signal, sniffer
  <1>4. CASE PassOnTrigger
    <2>1. PICK t \in Plan : Pass(SNIFF, db, TRUE, t, waited)
      BY <1>4, PassOnTriggerIs
    <2>2. UNCHANGED <<signal, sniffer>>
      BY <1>4 DEF PassOnTrigger
    <2>5. behind' \in Nat
      BY <1>4, SnifferAssumption DEF PassOnTrigger, CatchUp, STypeInv
    <2>3. \A p \in Watched : WayOf(p)'
      BY <2>1, <2>2, <2>5, DbPassWay
    <2>4. info_source' = SNIFF
      BY <2>1 DEF Pass
    <2> QED
      BY <2>3, <2>4 DEF WayInv
  <1>5. CASE PassOnTimer
    <2>1. PICK t \in Plan :
            \/ Pass(info_source, atsc, first_trigger, t, waited)
            \/ first_trigger /\ Pass(SNIFF, db, TRUE, t, waited)
      BY <1>5, PassOnTimerIs
    <2>2. UNCHANGED <<signal, sniffer, queued>>
      BY <1>5 DEF PassOnTimer
    <2>5. behind' = behind \/ (queued = 0 /\ behind' = 0)
      BY <1>5, <2>2 DEF PassOnTimer, CatchUp, Due, STypeInv
    <2>6. behind' \in Nat
      BY <2>5, SnifferAssumption DEF STypeInv
    <2>3. \A p \in Watched : WayOf(p)'
      BY <2>1, <2>2, <2>5, <2>6, DbPassWay, TimerPassWay
    <2>4. first_trigger' => info_source' = SNIFF
      BY <2>1 DEF Pass, WayInv
    <2> QED
      BY <2>3, <2>4 DEF WayInv
  <1>6. CASE Tick
    BY <1>6, TickWay DEF Tick, WayInv, vars
  <1>7. CASE UNCHANGED svars
    BY <1>7 DEF WayInv, WayOf, Shown, svars, vars, signal, sniffer, waiting
  <1> QED
    BY <1>1, <1>2, <1>3, <1>4, <1>5, <1>6, <1>7 DEF SNext

LEMMA WayInductive == SSpec => [](STypeInv /\ WayInv)
  BY TypeInit, TypeStep, WayInit, WayStep, PTL DEF SSpec

(* Once triggered, and with no trigger queued, phases shows green exactly   *)
(* what rdsniff compared last, for any phases, wires, plans and intervals,  *)
(* at any moment phases may start and however often the variable was        *)
(* written while triggers waited.                                           *)
THEOREM TriggersBringTheLast == SSpec => []TriggersNotStale
  <1>1. STypeInv /\ WayInv => TriggersNotStale
    BY WatchedPhase DEF WayInv, WayOf, TriggersNotStale
  <1> QED
    BY <1>1, WayInductive, PTL

LEMMA PromptIsWay ==
  ASSUME STypeInv, NEW p \in Watched, WayOf(p), first_trigger,
         lit[p] > PollPeriod + MaxDelay
  PROVE  Shown(p) = GREEN <=> lamp[p] = GREEN
  <1>1. p \in Phase /\ lit[p] \in 0 .. MaxAge /\ MaxAge \in Nat
    BY WatchedPhase, PhasesAssumption DEF STypeInv
  <1>2. /\ behind \in 0 .. MaxDelay /\ MaxDelay \in Nat
        /\ PollPeriod \in Nat
    BY SnifferAssumption DEF STypeInv
  <1>3. lit[p] > PollPeriod + behind
    BY <1>1, <1>2
  <1> QED
    BY <1>3 DEF WayOf

(* A green that has been on, or off, for more than a poll and the longest   *)
(* delay of phases is published so, for any phases, wires, plans, intervals *)
(* and delays.                                                              *)
THEOREM GreensArePrompt == SSpec => []GreenPrompt
  <1>1. STypeInv /\ WayInv => GreenPrompt
    BY PromptIsWay DEF WayInv, GreenPrompt
  <1> QED
    BY <1>1, WayInductive, PTL

(***************************************************************************)
(* The age of a yellow.  After a green that was published when it ended,   *)
(* the age phases gives the yellow is never older than the end of the      *)
(* green by more than a wait, nor younger by more than a poll, a delay and *)
(* the wait.  While it shows yellow, the age the next pass will find is    *)
(* older than the plan's yellow by no more than an interval and what the   *)
(* timer is late: a pass that came late has pulses waiting behind it.      *)
(***************************************************************************)

AgeOf(p) ==
  /\ first_trigger => ph[p].old_green = atsc[p].green
  /\ was_green[p] /\ lamp[p] # GREEN =>
       /\ first_trigger
       /\ atsc[p].green = 0 =>
            /\ ph[p].age_yellow \in 0 .. MaxAge
            /\ Shown(p) = YELLOW =>
                 ph[p].age_yellow + waited
                   <= YellowLen[tindex][p] + Period + timer
            /\ Shown(p) = RED => ph[p].age_yellow > YellowLen[tindex][p]
            /\ lit[p] <= ph[p].age_yellow + waited + PollPeriod + MaxDelay
            /\ \/ lit[p] + MaxWait >= ph[p].age_yellow + waited
               \/ lit[p] + MaxWait >= MaxAge

AgeInv == \A p \in Watched : AgeOf(p)

LEMMA AgeInit == SInit => AgeInv
  BY WatchedPhase DEF SInit, Init, AgeInv, AgeOf

\* The numbers of a watched phase.
LEMMA Numbers ==
  ASSUME STypeInv, NEW p \in Watched, NEW t \in Plan
  PROVE  /\ p \in Phase /\ lit[p] \in Nat /\ lit[p] <= MaxAge
         /\ MaxAge \in Nat /\ Period \in Nat /\ PollPeriod \in Nat
         /\ MaxDelay \in Nat /\ MaxWait = Period + MaxDelay
         /\ timer \in Nat /\ timer <= MaxWait
         /\ waited \in Nat /\ waited <= timer
         /\ YellowLen[t][p] \in Nat /\ YellowLen[t][p] + MaxWait < MaxAge
  <1>1. p \in Phase
    BY WatchedPhase
  <1>2. lit[p] \in 0 .. MaxAge /\ MaxAge \in Nat /\ Period \in Nat
    BY <1>1, PhasesAssumption DEF STypeInv
  <1>3. /\ waited \in Nat /\ waited <= timer
        /\ timer \in 0 .. Period + behind /\ behind \in 0 .. MaxDelay
    BY DEF STypeInv
  <1>4. YellowLen[t][p] \in Nat
    BY <1>1, PhasesAssumption
  <1>5. PollPeriod \in Nat /\ MaxDelay \in Nat
    BY SnifferAssumption
  <1>6. YellowLen[t][p] + Period + MaxDelay < MaxAge
    BY <1>1, SnifferAssumption
  <1>7. MaxWait = Period + MaxDelay
    BY DEF MaxWait
  <1>8. timer \in Nat /\ timer <= Period + MaxDelay
    BY <1>2, <1>3, <1>5
  <1> QED
    BY <1>1, <1>2, <1>3, <1>4, <1>5, <1>6, <1>7, <1>8

\* A pass over the data of a sniffer, the lamps at rest.
LEMMA PassAge ==
  ASSUME STypeInv, WayInv, AgeInv, NEW p \in Watched,
         NEW bits \in [Phase -> Lamps], NEW t \in Plan,
         Pass(SNIFF, bits, TRUE, t, waited),
         waited' = 0, NEW late \in Nat, timer' = late, timer <= late + Period,
         UNCHANGED <<signal, sniffer, was_green>>
  PROVE  AgeOf(p)'
  <1> DEFINE age == YellowAge(ph[p])
             e == ph'[p].age_yellow
             yel == YellowLen[t][p]
  <1>1. /\ atsc'[p].green = bits[p].green
        /\ bits[p].green \in {0, 1}
        /\ ix'[p].signal_state = GREEN <=> bits[p].green = 1
        /\ bits[p].green = 1 => ph'[p].old_green = 1
        /\ bits[p].green = 0 =>
             /\ ph'[p].old_green = 0
             /\ e = Older(age, waited)
             /\ ix'[p].signal_state = IF age = Unset THEN UNKNOWN
                                      ELSE IF age <= yel THEN YELLOW ELSE RED
    BY PassShows
  <1>2. /\ p \in Phase /\ lit[p] \in Nat /\ lit[p] <= MaxAge
        /\ MaxAge \in Nat /\ Period \in Nat /\ PollPeriod \in Nat
        /\ MaxDelay \in Nat /\ MaxWait = Period + MaxDelay
        /\ timer \in Nat /\ timer <= MaxWait
        /\ waited \in Nat /\ waited <= timer
        /\ yel \in Nat /\ yel + MaxWait < MaxAge
    BY Numbers
  <1>3. /\ lamp' = lamp /\ lit' = lit /\ tindex' = t /\ first_trigger'
        /\ waited' = 0 /\ timer' = late /\ was_green' = was_green
    BY DEF signal, Pass
  <1>4. ph'[p].old_green = atsc'[p].green
    BY <1>1
  <1>5. CASE ~(was_green[p] /\ lamp[p] # GREEN) \/ bits[p].green = 1
    BY <1>1, <1>3, <1>4, <1>5 DEF AgeOf
  <1>6. CASE was_green[p] /\ lamp[p] # GREEN /\ bits[p].green = 0
    <2>1. /\ first_trigger /\ ph[p].old_green = atsc[p].green
          /\ atsc[p].green \in {0, 1}
      BY <1>2, <1>6 DEF AgeInv, AgeOf, STypeInv, Lamps, Bit
    <2>2. /\ age \in 0 .. MaxAge
          /\ lit[p] <= age + waited + PollPeriod + MaxDelay
          /\ \/ lit[p] + MaxWait >= age + waited
             \/ lit[p] + MaxWait >= MaxAge
      <3>1. CASE atsc[p].green = 1
        <4>1. age = 0
          BY <2>1, <3>1 DEF YellowAge, Restart
        <4>2. Shown(p) = GREEN
          BY <2>1, <3>1 DEF WayInv, WayOf
        <4>3. ~(lit[p] > PollPeriod + behind)
          BY <1>6, <2>1, <4>2 DEF WayInv, WayOf
        <4>4. behind \in 0 .. MaxDelay
          BY DEF STypeInv
        <4> QED
          BY <1>2, <4>1, <4>3, <4>4
      <3>2. CASE atsc[p].green = 0
        <4>1. age = ph[p].age_yellow
          BY <2>1, <3>2 DEF YellowAge, Restart
        <4> QED
          BY <1>6, <3>2, <4>1 DEF AgeInv, AgeOf
      <3> QED
        BY <2>1, <3>1, <3>2
    <2> HIDE DEF age
    <2>3. age # Unset
      BY <1>2, <2>2 DEF Unset
    <2>4. e = IF age + waited > MaxAge THEN MaxAge ELSE age + waited
      BY <1>1, <1>6, <2>3 DEF Older
    <2>5. ix'[p].signal_state = IF age <= yel THEN YELLOW ELSE RED
      BY <1>1, <1>6, <2>3
    <2> HIDE DEF e, yel
    <2>6. /\ e \in 0 .. MaxAge
          /\ age <= yel => e + 0 <= yel + Period + late
          /\ ~(age <= yel) => e > yel
      <3>1. age \in 0 .. MaxAge /\ age \in Nat
        BY <1>2, <2>2
      <3>2. e \in 0 .. MaxAge /\ e <= age + waited
        BY <1>2, <2>4, <3>1
      <3>3. age <= yel => e + 0 <= yel + Period + late
        BY <1>2, <3>1, <3>2
      <3>4. ~(age <= yel) => e > yel
        BY <1>2, <2>4, <3>1
      <3> QED
        BY <3>2, <3>3, <3>4
    <2>7. /\ lit[p] <= e + 0 + PollPeriod + MaxDelay
          /\ lit[p] + MaxWait >= e + 0 \/ lit[p] + MaxWait >= MaxAge
      BY <1>2, <2>2, <2>4
    <2>8. /\ ix'[p].signal_state = YELLOW => e + 0 <= yel + Period + late
          /\ ix'[p].signal_state = RED => e > yel
      BY <2>5, <2>6 DEF YELLOW, RED
    <2> QED
      BY <1>3, <1>4, <2>6, <2>7, <2>8 DEF AgeOf, Shown, e, yel
  <1> QED
    BY <1>1, <1>5, <1>6

\* When a green ends that is published, phases has not read of its end.
LEMMA LampAge ==
  ASSUME STypeInv, WayInv, AgeInv, NEW q \in Phase, LampChange(q),
         NEW p \in Watched
  PROVE  AgeOf(p)'
  <1>1. /\ first_trigger' = first_trigger /\ ph' = ph
        /\ atsc' = atsc /\ ix' = ix /\ tindex' = tindex /\ waited' = waited
        /\ timer' = timer
        /\ \A r \in Phase \ {q} : /\ lamp'[r] = lamp[r] /\ lit'[r] = lit[r]
                                  /\ was_green'[r] = was_green[r]
    BY DEF LampChange, STypeInv, vars, waiting
  <1>2. p \in Phase
    BY WatchedPhase
  <1>3. CASE p # q
    BY <1>1, <1>2, <1>3 DEF AgeInv, AgeOf, Shown
  <1>4. CASE p = q /\ lamp[p] = YELLOW
    <2>1. lit'[p] = lit[p] /\ was_green'[p] = was_green[p]
      BY <1>2, <1>4 DEF LampChange, STypeInv, GREEN, YELLOW
    <2> QED
      BY <1>1, <1>4, <2>1 DEF AgeInv, AgeOf, Shown, GREEN, YELLOW
  <1>5. CASE p = q /\ lamp[p] = RED
    <2>1. lamp'[p] = GREEN
      BY <1>2, <1>5 DEF LampChange, STypeInv, After, GREEN, YELLOW, RED
    <2> QED
      BY <1>1, <2>1 DEF AgeInv, AgeOf, Shown
  <1>6. CASE p = q /\ lamp[p] = GREEN
    <2>1. was_green'[p] = (Shown(p) = GREEN)
      BY <1>2, <1>6 DEF LampChange, STypeInv
    <2>2. Shown(p) = GREEN => first_trigger' /\ atsc'[p].green = 1
      BY <1>1 DEF WayInv, WayOf
    <2>3. first_trigger' => ph'[p].old_green = atsc'[p].green
      BY <1>1 DEF AgeInv, AgeOf
    <2>4. was_green'[p] => Shown(p) = GREEN
      BY <2>1, Zenon
    <2>5. atsc'[p].green = 1 => atsc'[p].green # 0
      OBVIOUS
    <2> QED
      BY <2>2, <2>3, <2>4, <2>5, Zenon DEF AgeOf
  <1> QED
    BY <1>2, <1>3, <1>4, <1>5, <1>6 DEF STypeInv

LEMMA TickAge ==
  ASSUME STypeInv, WayInv, AgeInv, Tick, NEW p \in Watched
  PROVE  AgeOf(p)'
  <1>1. /\ was_green' = was_green /\ first_trigger' = first_trigger
        /\ ph' = ph
        /\ atsc' = atsc /\ ix' = ix /\ tindex' = tindex /\ lamp' = lamp
    BY DEF Tick, vars
  <1>2. /\ p \in Phase /\ lit[p] \in Nat /\ lit[p] <= MaxAge
        /\ MaxAge \in Nat /\ Period \in Nat /\ PollPeriod \in Nat
        /\ MaxDelay \in Nat /\ MaxWait = Period + MaxDelay
        /\ waited \in Nat /\ timer \in Nat /\ YellowLen[tindex][p] \in Nat
    BY Numbers DEF STypeInv
  <1>3. lit'[p] = IF lit[p] < MaxAge THEN lit[p] + 1 ELSE MaxAge
    BY <1>2 DEF Tick
  <1>4. first_trigger => waited' = waited + 1 /\ timer' = timer + 1
    BY DEF Tick, STypeInv
  <1> DEFINE e == ph[p].age_yellow
             yel == YellowLen[tindex][p]
  <1> HIDE DEF e, yel
  <1>5. ASSUME e \in 0 .. MaxAge, waited' = waited + 1,
               lit[p] <= e + waited + PollPeriod + MaxDelay,
               \/ lit[p] + MaxWait >= e + waited
               \/ lit[p] + MaxWait >= MaxAge
        PROVE  /\ lit'[p] <= e + waited' + PollPeriod + MaxDelay
               /\ \/ lit'[p] + MaxWait >= e + waited'
                  \/ lit'[p] + MaxWait >= MaxAge
    BY <1>2, <1>3, <1>5
  <1>6. ASSUME e \in 0 .. MaxAge, waited' = waited + 1, timer' = timer + 1,
               e + waited <= yel + Period + timer
        PROVE  e + waited' <= yel + Period + timer'
    BY <1>2, <1>6 DEF yel
  <1> QED
    BY <1>1, <1>4, <1>5, <1>6 DEF AgeInv, AgeOf, Shown, e, yel

LEMMA AgeStep ==
  ASSUME STypeInv, WayInv, AgeInv, [SNext]_svars
  PROVE  AgeInv'
  <1>0. Watched' = Watched
    BY DEF Watched
  <1>1. ASSUME NEW q \in Phase, LampChange(q) PROVE AgeInv'
    BY <1>0, <1>1, LampAge DEF AgeInv
  <1>2. CASE Poll
    BY <1>0, <1>2 DEF Poll, AgeInv, AgeOf, Shown, vars, signal
  <1>3. CASE Start
    <2>1. /\ was_green' = was_green /\ lamp' = lamp
          /\ ~first_trigger /\ ~first_trigger'
      BY <1>3 DEF Start, STypeInv, signal, vars
    <2> QED
      BY <1>0, <2>1 DEF AgeInv, AgeOf
  <1>4. CASE PassOnTrigger
    <2>1. PICK t \in Plan : Pass(SNIFF, db, TRUE, t, waited)
      BY <1>4, PassOnTriggerIs
    <2>2. waited' = 0 /\ UNCHANGED <<signal, sniffer, was_green>>
      BY <1>4 DEF PassOnTrigger
    <2>3. timer' \in Nat /\ timer <= timer' + Period
      BY <1>4, PhasesAssumption, SnifferAssumption
         DEF PassOnTrigger, STypeInv
    <2>4. db \in [Phase -> Lamps]
      BY DEF STypeInv
    <2> QED
      BY <1>0, <2>1, <2>2, <2>3, <2>4, PassAge DEF AgeInv
  <1>5. CASE PassOnTimer
    <2>1. PICK t \in Plan :
            \/ Pass(info_source, atsc, first_trigger, t, waited)
            \/ first_trigger /\ Pass(SNIFF, db, TRUE, t, waited)
      BY <1>5, PassOnTimerIs
    <2>2. waited' = 0 /\ UNCHANGED <<signal, sniffer, was_green>>
      BY <1>5 DEF PassOnTimer
    <2>6. timer' \in Nat /\ timer <= timer' + Period
      BY <1>5, PhasesAssumption, SnifferAssumption DEF PassOnTimer, STypeInv
    <2>3. db \in [Phase -> Lamps] /\ atsc \in [Phase -> Lamps]
      BY DEF STypeInv
    <2>4. CASE first_trigger
      <3>1. \/ Pass(SNIFF, atsc, TRUE, t, waited)
            \/ Pass(SNIFF, db, TRUE, t, waited)
        BY <2>1, <2>4 DEF WayInv, STypeInv
      <3> QED
        BY <1>0, <2>2, <2>3, <2>4, <2>6, <3>1, PassAge DEF AgeInv
    <2>5. CASE ~first_trigger
      <3>1. ~first_trigger' /\ was_green' = was_green /\ lamp' = lamp
        BY <2>1, <2>2, <2>5 DEF Pass, signal
      <3> QED
        BY <1>0, <2>5, <3>1 DEF AgeInv, AgeOf
    <2> QED
      BY <2>4, <2>5
  <1>6. CASE Tick
    BY <1>0, <1>6, TickAge DEF AgeInv
  <1>7. CASE UNCHANGED svars
    BY <1>0, <1>7
       DEF AgeInv, AgeOf, Shown, svars, vars, signal, sniffer, waiting
  <1> QED
    BY <1>1, <1>2, <1>3, <1>4, <1>5, <1>6, <1>7 DEF SNext

LEMMA AgeGivesBounds ==
  ASSUME STypeInv, WayInv, AgeInv
  PROVE  YellowEndToEnd
  <1> SUFFICES ASSUME NEW p \in Watched, was_green[p], lamp[p] # GREEN
               PROVE  /\ Shown(p) = YELLOW =>
                           lit[p] <= YellowLen[tindex][p] + PollPeriod
                                     + 2 * MaxWait
                      /\ Shown(p) = RED =>
                           lit[p] > YellowLen[tindex][p] - MaxWait
    BY DEF YellowEndToEnd
  <1> DEFINE e == ph[p].age_yellow
             yel == YellowLen[tindex][p]
  <1>1. /\ p \in Phase /\ lit[p] \in Nat /\ lit[p] <= MaxAge
        /\ MaxAge \in Nat /\ Period \in Nat /\ PollPeriod \in Nat
        /\ MaxDelay \in Nat /\ MaxWait = Period + MaxDelay
        /\ timer \in Nat /\ timer <= MaxWait
        /\ waited \in Nat /\ waited <= timer
        /\ yel \in Nat /\ yel + MaxWait < MaxAge
    BY Numbers DEF STypeInv
  <1>2. atsc[p].green \in {0, 1}
    BY <1>1 DEF STypeInv, Lamps, Bit
  <1>3. Shown(p) = YELLOW \/ Shown(p) = RED => atsc[p].green = 0
    BY <1>2 DEF AgeInv, AgeOf, WayInv, WayOf, GREEN, YELLOW, RED
  <1>4. atsc[p].green = 0 =>
          /\ e \in 0 .. MaxAge
          /\ Shown(p) = YELLOW => e + waited <= yel + Period + timer
          /\ Shown(p) = RED => e > yel
          /\ lit[p] <= e + waited + PollPeriod + MaxDelay
          /\ lit[p] + MaxWait >= e + waited \/ lit[p] + MaxWait >= MaxAge
    BY DEF AgeInv, AgeOf
  <1> HIDE DEF e, yel
  <1>5. Shown(p) = YELLOW => lit[p] <= yel + PollPeriod + 2 * MaxWait
    BY <1>1, <1>3, <1>4
  <1>6. Shown(p) = RED => lit[p] > yel - MaxWait
    BY <1>1, <1>3, <1>4
  <1> QED
    BY <1>5, <1>6 DEF yel

(* After a green that was published when it ended, an inferred yellow ends, *)
(* and an inferred red begins, within the intervals of the two programs and *)
(* the longest delay of phases of the plan's yellow, for any phases and     *)
(* plans and however fast the lamps change.                                 *)
THEOREM YellowsKeepTime == SSpec => []YellowEndToEnd
  <1>1. STypeInv /\ WayInv /\ AgeInv /\ [SNext]_svars => AgeInv'
    BY AgeStep
  <1>2. STypeInv /\ WayInv /\ AgeInv => YellowEndToEnd
    BY AgeGivesBounds
  <1> QED
    BY <1>1, <1>2, AgeInit, WayInductive, PTL DEF SSpec
=============================================================================
