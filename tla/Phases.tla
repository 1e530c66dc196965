------------------------------- MODULE Phases -------------------------------
(***************************************************************************)
(* The main loop of phases/phases.c: the process that turns the lamp bits  *)
(* of a traffic signal controller (DB_ATSC_VAR) into a colour and a        *)
(* countdown for every NEMA phase, and publishes them.                     *)
(*                                                                         *)
(* The loop reads the clock, blocks in clt_ipc_receive until the ATSC      *)
(* variable is written (a trigger) or its own timer fires, decodes,        *)
(* publishes and goes round.  The clock is read BEFORE the wait, so a pass *)
(* works with the time of the previous wake: the wait d that precedes a    *)
(* pass is added to the program's time only after it.                      *)
(*                                                                         *)
(* The program stores start times and only ever uses time_sec minus a      *)
(* start time; the model stores that difference, the age of the colour.    *)
(* One unit of time is a tick of TenthsPerTick tenths of a second.         *)
(*                                                                         *)
(* The module is the program with no_overlaps = 0 and without -t, and      *)
(* gives every phase one approach.                                         *)
(***************************************************************************)
EXTENDS Integers

CONSTANTS
  Phase,          \* the NEMA phases listed in the timing plans
  Plan,           \* the timing plans of the site's phase.cfg
  GreenLen,       \* green_length[plan][phase]
  YellowLen,      \* yellow_length[plan][phase]
  CycleLen,       \* cycle_length[plan]
  TimingType,     \* timing_type[plan]
  SniffGreen,     \* sniff_green = 1 in phase.cfg
  SniffYellow,    \* sniff_yellow = 1 in phase.cfg
  Sources,        \* the info_source values the writers of DB_ATSC_VAR use
  Readings,       \* the lamp combinations those writers report for a phase
  Period,         \* the longest wait for a wake: the timer interval
  TenthsPerTick,  \* tenths of a second in a tick
  MaxAge,         \* BOUND: ages saturate here, beyond every length compared
  GarbageBit,     \* what the uninitialised green[], yellow[], red[] hold
  GarbageAge,     \* what the uninitialised start times amount to, as ages
  GarbageColor,   \* what the uninitialised signal_color[] holds
  GarbageLamps,   \* what the uninitialised bits of atsc hold
  GarbageSource   \* what the uninitialised atsc.info_source holds

NTCIP  == 1
AB3418 == 2
SNIFF  == 3

UNKNOWN == 0
GREEN   == 1
YELLOW  == 2
RED     == 3

FIXED       == 0
ACTUATED    == 1
COORDINATED == 2

\* start_yellow = -1, the mark of a phase whose colour is not known yet.
Unset == -(MaxAge + 1)
Age   == -MaxAge .. MaxAge

Bit   == {0, 1}
Lamps == [green : Bit, yellow : Bit, red : Bit]

ASSUME PhasesAssumption ==
  /\ Period \in Nat \ {0}
  /\ TenthsPerTick \in Nat \ {0}
  /\ MaxAge \in Nat
  /\ GreenLen  \in [Plan -> [Phase -> Nat]]
  /\ YellowLen \in [Plan -> [Phase -> Nat]]
  /\ CycleLen  \in [Plan -> Nat]
  /\ TimingType \in [Plan -> {FIXED, ACTUATED, COORDINATED}]
  /\ \A t \in Plan, p \in Phase : YellowLen[t][p] + Period < MaxAge
  /\ SniffGreen \in BOOLEAN
  /\ SniffYellow \in BOOLEAN
  /\ Sources \subseteq {NTCIP, AB3418, SNIFF}
  /\ Readings \subseteq Lamps
  /\ GarbageBit \subseteq Int
  /\ GarbageAge \subseteq Age
  /\ GarbageColor \subseteq Int
  /\ GarbageLamps \subseteq Lamps
  /\ GarbageSource \subseteq Int

VARIABLES
  ph,             \* per phase: the program's arrays, as one record
  atsc,           \* per phase: the lamp bits of the local copy of DB_ATSC_VAR
  info_source,    \* the source field of that copy
  tindex,         \* the timing plan used by the last pass
  first_trigger,  \* TRUE once the ATSC variable has triggered the loop
  ix,             \* per phase: what DB_IX_APPROACHn_VAR shows
  bcast           \* per phase: what DB_ATSC_BCAST_VAR shows

vars == <<ph, atsc, info_source, tindex, first_trigger, ix, bcast>>

Shown(p) == ix[p].signal_state

NotPublished == [signal_state |-> -1, time_to_next |-> 0]
Dark         == [green |-> 0, yellow |-> 0, red |-> 0]

PhaseState ==
  [green : Bit \cup GarbageBit, yellow : Bit \cup GarbageBit,
   red : Bit \cup GarbageBit,
   old_green : Bit \cup GarbageBit \cup {-1},
   old_yellow : Bit \cup GarbageBit \cup {-1},
   old_red : Bit \cup GarbageBit \cup {-1},
   color : (UNKNOWN .. RED) \cup GarbageColor,
   age_green : Age, age_yellow : Age \cup {Unset}, age_red : Age,
   time_left : Int]

-----------------------------------------------------------------------------
(* Decoding the signal colour of one phase: s is its record, b its lamps.  *)

GreenYellowInput(src) == src = SNIFF /\ SniffGreen /\ SniffYellow

GreenOnlyInput(src) ==
  \/ src = SNIFF /\ SniffGreen /\ ~SniffYellow
  \/ src = AB3418

\* The start time of a colour that has just come on is the program's time.
Restart(changed, age) == IF changed THEN 0 ELSE age

\* Inputs on all three colours; with no lamp lit the colour stays as it was.
DecodeNtcip(s, b) ==
  LET isGreen  == b.green = 1
      isYellow == ~isGreen /\ b.yellow = 1
      isRed    == ~isGreen /\ ~isYellow /\ b.red = 1
  IN  [s EXCEPT
        !.green = b.green, !.yellow = b.yellow, !.red = b.red,
        !.color = IF isGreen THEN GREEN ELSE IF isYellow THEN YELLOW
                  ELSE IF isRed THEN RED ELSE @,
        !.age_green  = Restart(isGreen /\ b.green # s.old_green, @),
        !.age_yellow = Restart(isYellow /\ b.yellow # s.old_yellow, @),
        !.age_red    = Restart(isRed /\ b.red # s.old_red, @)]

\* Inputs on green and yellow; yellow wins when both are on.
DecodeGreenYellow(s, b) ==
  LET isYellow == b.yellow = 1
      isGreen  == b.green = 1 /\ ~isYellow
      isRed    == b.green = 0 /\ ~isYellow
  IN  [s EXCEPT
        !.green = b.green, !.yellow = b.yellow,
        !.red = IF isRed THEN 1 ELSE 0,
        !.color = IF isGreen THEN GREEN ELSE IF isYellow THEN YELLOW ELSE RED,
        !.age_green  = Restart(isGreen /\ b.green # s.old_green, @),
        !.age_yellow = Restart(isYellow /\ b.yellow # s.old_yellow, @),
        !.age_red    = Restart(isRed /\ 1 # s.old_red, @)]

\* Faulty variants of the next definition: the mark -1 is not tested, the start
\* is set on every pass without green, or only the first time.
YellowAgeNoMark(s)    == Restart(s.old_green # 0, s.age_yellow)
YellowAgeEveryPass(s) == IF s.old_green = -1 THEN Unset ELSE 0
YellowAgeOnce(s) ==
  IF s.old_green = -1 THEN Unset
  ELSE Restart(s.old_green # 0 /\ s.age_yellow = Unset, s.age_yellow)

\* The yellow start of a phase without green, after the two tests that set it.
YellowAge(s) ==
  LET age == Restart(s.old_green \notin {0, -1}, s.age_yellow)
  IN  IF s.old_green = -1 THEN Unset ELSE age

\* Input on green only: yellow and red are inferred from the time that has
\* passed since green went off; yel is the phase's yellow length.
DecodeGreenOnly(s, b, yel) ==
  LET age == YellowAge(s)
  IN  IF b.green = 1
      THEN [s EXCEPT !.green = 1, !.yellow = 0, !.red = 0, !.color = GREEN,
                     !.age_green = Restart(s.old_green # 1, @)]
      ELSE IF age = Unset
      THEN [s EXCEPT !.green = 0, !.color = UNKNOWN, !.age_yellow = Unset]
      ELSE IF age <= yel
      THEN [s EXCEPT !.green = 0, !.yellow = 1, !.red = 0, !.color = YELLOW,
                     !.age_yellow = age]
      ELSE [s EXCEPT !.green = 0, !.yellow = 0, !.red = 1, !.color = RED,
                     !.age_yellow = age,
                     !.age_red = Restart(s.old_red # 1, @)]

\* No branch handles any other source: the arrays keep what they hold.
Decode(p, s, b, src, t) ==
  IF src = NTCIP THEN DecodeNtcip(s, b)
  ELSE IF GreenYellowInput(src) THEN DecodeGreenYellow(s, b)
  ELSE IF GreenOnlyInput(src) THEN DecodeGreenOnly(s, b, YellowLen[t][p])
  ELSE s

\* A faulty variant of the next definition: the yellow bit is never cleared.
FilledNoClear(s, b, src) ==
  IF GreenOnlyInput(src) /\ s.color \in {YELLOW, RED}
  THEN [b EXCEPT !.yellow = IF s.color = YELLOW THEN 1 ELSE @,
                 !.red    = IF s.color = RED THEN 1 ELSE 0]
  ELSE b

\* The bits the decoder writes back into its copy of the ATSC variable.
Filled(s, b, src) ==
  IF GreenYellowInput(src)
  THEN [b EXCEPT !.red = IF s.color = RED THEN 1 ELSE 0]
  ELSE IF GreenOnlyInput(src) /\ s.color # UNKNOWN
  THEN [b EXCEPT !.yellow = IF s.color = YELLOW THEN 1 ELSE 0,
                 !.red    = IF s.color = RED THEN 1 ELSE 0]
  ELSE b

-----------------------------------------------------------------------------
(* Countdown, publication and the bookkeeping at the end of the pass.      *)

\* Actuated plans count up to zero from minus the yellow length.
Clipped(n) == IF n > 0 THEN 0 ELSE n

TimeLeft(p, s, t) ==
  LET actuated == TimingType[t] = ACTUATED
      yel      == YellowLen[t][p]
      grn      == GreenLen[t][p]
  IN  CASE s.color = UNKNOWN -> 0
        [] s.color = GREEN ->
             IF actuated THEN Clipped(s.age_green - yel)
                         ELSE grn - s.age_green
        [] s.color = YELLOW -> yel - s.age_yellow
        [] s.color = RED ->
             IF actuated THEN Clipped(s.age_red - yel)
                         ELSE CycleLen[t] - grn - yel - s.age_red
        [] OTHER -> s.time_left

Countdown(p, s, t) == [s EXCEPT !.time_left = TimeLeft(p, s, t)]

\* A phase after the decoding and the countdown of a pass.
Shows(p, s, b, src, t) == Countdown(p, Decode(p, s, b, src, t), t)

\* signal_state is an unsigned char; time_to_next a signed short, 16 bits wide.
Byte(n) == n % 256

ShortRange == -32768 .. 32767

Short(n) == ((n + 32768) % 65536) - 32768

Approach(s) == [signal_state |-> Byte(s.color),
                time_to_next |-> Short(TenthsPerTick * s.time_left)]

\* A faulty variant of the next definition: red is forgotten.
RememberNoRed(s) == [s EXCEPT !.old_green = s.green, !.old_yellow = s.yellow]

\* The current lamps become the old ones.
Remember(s) == [s EXCEPT !.old_green = s.green, !.old_yellow = s.yellow,
                         !.old_red = s.red]

\* Faulty variants of the next definition: the clock does not advance, or is
\* not saturated.
OlderFrozen(a, d)    == a
OlderUnbounded(a, d) == IF a = Unset THEN Unset ELSE a + d

\* The clock read at the top of the next pass is d later.
Older(a, d) == IF a = Unset THEN Unset
               ELSE IF a + d > MaxAge THEN MaxAge ELSE a + d

Later(s, d) == [s EXCEPT !.age_green = Older(@, d), !.age_yellow = Older(@, d),
                         !.age_red = Older(@, d)]

-----------------------------------------------------------------------------
Init ==
  /\ ph \in [Phase -> [green : GarbageBit, yellow : GarbageBit,
                       red : GarbageBit,
                       old_green : {-1}, old_yellow : {-1}, old_red : {-1},
                       color : GarbageColor, age_green : GarbageAge,
                       age_yellow : GarbageAge \cup {Unset},
                       age_red : GarbageAge, time_left : GarbageAge]]
  /\ atsc \in [Phase -> GarbageLamps]
  /\ info_source \in GarbageSource
  /\ tindex \in Plan
  /\ first_trigger = FALSE
  /\ ix = [p \in Phase |-> NotPublished]
  /\ bcast = [p \in Phase |-> Dark]

\* One pass over the data in the local copy: src and bits are that copy, t the
\* plan get_timing_plan returns, d the wait that came before the pass.
Pass(src, bits, triggered, t, d) ==
  LET now(p) == Shows(p, ph[p], bits[p], src, t)
  IN  /\ ph' = [p \in Phase |-> Later(Remember(now(p)), d)]
      /\ atsc' = [p \in Phase |-> Filled(now(p), bits[p], src)]
      /\ info_source' = src
      /\ tindex' = t
      /\ first_trigger' = triggered
      /\ ix' = IF triggered THEN [p \in Phase |-> Approach(now(p))] ELSE ix
      /\ bcast' = IF triggered /\ src \in {SNIFF, AB3418}
                  THEN atsc' ELSE bcast

\* The ATSC variable was written: read it and make a pass.
Trigger(d) ==
  \E src \in Sources, bits \in [Phase -> Readings], t \in Plan :
    Pass(src, bits, TRUE, t, d)

\* The timer fired: make a pass over the copy read at the last trigger.
Timer(d) ==
  \E t \in Plan : Pass(info_source, atsc, first_trigger, t, d)

Wake(d) == Trigger(d) \/ Timer(d)

Next == \E d \in 0 .. Period : Wake(d)

\* Timer pulses are an interval apart, so time passes between wakes for ever.
Fairness == WF_vars(\E d \in 1 .. Period : Wake(d))

Spec     == Init /\ [][Next]_vars
FairSpec == Spec /\ Fairness

-----------------------------------------------------------------------------
TypeOK ==
  /\ ph \in [Phase -> PhaseState]
  /\ atsc \in [Phase -> Lamps]
  /\ info_source \in Sources \cup GarbageSource
  /\ tindex \in Plan
  /\ first_trigger \in BOOLEAN
  /\ ix \in [Phase -> [signal_state : Int, time_to_next : ShortRange]]
  /\ bcast \in [Phase -> Lamps]
=============================================================================
