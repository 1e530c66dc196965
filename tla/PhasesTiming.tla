---------------------------- MODULE PhasesTiming ----------------------------
(***************************************************************************)
(* Phases, watched by an observer that knows the real time, and the        *)
(* properties of what the loop publishes.  The observer changes nothing:   *)
(* it remembers, for every phase, whether the ATSC data has ever shown it  *)
(* green, how much real time has passed since the pass that first saw the  *)
(* green gone, and how long the published colour has been what it is.      *)
(***************************************************************************)
EXTENDS Phases

CONSTANT
  Sites   \* the sets of sources that may write the variable at one site

ASSUME SitesAssumption == Sites \subseteq SUBSET Sources

VARIABLES
  site,   \* the sources at this site
  seen,   \* seen[p]: some reading since the start had p green
  off,    \* off[p]: real time since the first reading without that green
  held,   \* held[p]: real time since the published colour last changed
  fresh,  \* fresh[p]: it has changed since it was first published
  woken   \* what woke the loop first: "none" yet, "timer" or "trigger"

obs   == <<site, seen, off, held, fresh, woken>>
tvars == <<vars, obs>>

Saturated(n) == IF n > MaxAge THEN MaxAge ELSE n

TInit ==
  /\ Init
  /\ site \in Sites
  /\ seen = [p \in Phase |-> FALSE]
  /\ off = [p \in Phase |-> 0]
  /\ held = [p \in Phase |-> 0]
  /\ fresh = [p \in Phase |-> FALSE]
  /\ woken = "none"

Changes(p) == ix'[p].signal_state # Shown(p)

Observe(kind, d) ==
  /\ seen' = [p \in Phase |-> seen[p] \/ (first_trigger' /\ atsc'[p].green = 1)]
  /\ off' = [p \in Phase |-> IF atsc'[p].green = 1 \/ atsc[p].green = 1
                             THEN 0 ELSE Saturated(off[p] + d)]
  /\ held' = [p \in Phase |-> IF Changes(p) THEN 0 ELSE Saturated(held[p] + d)]
  /\ fresh' = [p \in Phase |-> fresh[p] \/ (first_trigger /\ Changes(p))]
  /\ woken' = IF woken = "none" THEN kind ELSE woken
  /\ UNCHANGED site

TTrigger(d) ==
  Trigger(d) /\ info_source' \in site /\ Observe("trigger", d)

TTimer(d)   == Timer(d) /\ Observe("timer", d)

TNext == \E d \in 0 .. Period : TTrigger(d) \/ TTimer(d)

TFairness == WF_tvars(\E d \in 1 .. Period : TTrigger(d) \/ TTimer(d))

TSpec     == TInit /\ [][TNext]_tvars
TFairSpec == TSpec /\ TFairness

-----------------------------------------------------------------------------
TTypeOK ==
  /\ TypeOK
  /\ site \in Sites
  /\ seen \in [Phase -> BOOLEAN]
  /\ off \in [Phase -> 0 .. MaxAge]
  /\ held \in [Phase -> 0 .. MaxAge]
  /\ fresh \in [Phase -> BOOLEAN]
  /\ woken \in {"none", "timer", "trigger"}

\* The site's source reports green only.
GreenOnlySite == \A src \in site : GreenOnlyInput(src)

\* With input on green only, yellow is a guess from the clock.  The clock lags
\* by one wait, so the guess may be wrong by at most one timer interval either
\* way: once green has been seen, YELLOW is published no later than yellow
\* length + Period after the pass that saw it go, and RED not before yellow
\* length - Period.
YellowWindow ==
  GreenOnlySite => \A p \in Phase :
    seen[p] =>
      /\ Shown(p) = YELLOW => off[p] <= YellowLen[tindex][p] + Period
      /\ Shown(p) = RED    => off[p] > YellowLen[tindex][p] - Period

\* "If we start the process while green is 0, we don't know for sure whether we
\* are in yellow or red" (phases.c:790-791): until a phase has been seen green
\* its published colour is UNKNOWN, when the controller's data came before the
\* first timer pulse.  (When the pulse came first, the marks -1 set before the
\* loop are gone by the time they are first needed, and a colour is guessed.)
StartUnknownWhenTriggeredFirst ==
  GreenOnlySite /\ woken = "trigger" => \A p \in Phase :
    first_trigger /\ ~seen[p] => Shown(p) = UNKNOWN

\* With green-only input the broadcast copy of the ATSC data is completed by
\* the loop: for every phase whose colour is known it shows exactly the lamp of
\* the colour published in the intersection message.
BroadcastAgrees ==
  GreenOnlySite => \A p \in Phase :
    first_trigger /\ Shown(p) # UNKNOWN =>
      bcast[p] = [green  |-> IF Shown(p) = GREEN  THEN 1 ELSE 0,
                  yellow |-> IF Shown(p) = YELLOW THEN 1 ELSE 0,
                  red    |-> IF Shown(p) = RED    THEN 1 ELSE 0]

\* What a phase without green shows, given the age of its yellow.
Inferred(p) ==
  LET age == ph[p].age_yellow
      yel == YellowLen[tindex][p]
  IN  \/ Shown(p) = UNKNOWN /\ age = Unset
      \/ /\ Shown(p) = YELLOW /\ age \in Age
         /\ atsc[p].yellow = 1 /\ atsc[p].red = 0
         /\ seen[p] => off[p] <= yel + Period
      \/ /\ Shown(p) = RED /\ age \in Age /\ age > yel
         /\ atsc[p].yellow = 0 /\ atsc[p].red = 1
         /\ seen[p] => off[p] > yel - Period

\* The inductive invariant behind the properties above and below, phase by
\* phase: what the marks, the old lamps and the ages are worth.  Its heart is
\* that the age of a yellow runs ahead of the real time by less than a wait.
LampInv(p) ==
  /\ woken = "none" => ~first_trigger /\ ph[p].old_green = -1
  /\ seen[p] => first_trigger
  /\ first_trigger =>
       /\ info_source \in site
       /\ Shown(p) = ph[p].color
       /\ ph[p].old_green = atsc[p].green
       /\ bcast[p] = atsc[p]
       /\ atsc[p].green = 1 =>
            /\ seen[p] /\ Shown(p) = GREEN
            /\ atsc[p].yellow = 0 /\ atsc[p].red = 0
       /\ atsc[p].green = 0 => Inferred(p)
  /\ seen[p] /\ atsc[p].green = 0 =>
       off[p] <= ph[p].age_yellow /\ ph[p].age_yellow <= off[p] + Period
  /\ woken = "trigger" =>
       first_trigger /\ (~seen[p] => ph[p].age_yellow = Unset)

\* The invariant holds for every phase of a site whose source shows green only:
\* start marks, old lamps, stored ages, published colours and broadcast bits
\* never drift apart.
GreenOnlyInv == GreenOnlySite => \A p \in Phase : LampInv(p)

SameYellow ==
  \A s, t \in Plan, p \in Phase : YellowLen[s][p] = YellowLen[t][p]

\* The order of the colours published for a phase: from green to yellow, from
\* yellow to red, and back to green from anywhere; RED never reverts to YELLOW
\* and GREEN never jumps to RED, whatever the order of triggers and timer
\* pulses and wherever the plan changes, provided the plans agree on a phase's
\* yellow length.
FollowsOn(a, b) ==
  b \in {a, GREEN} \/ <<a, b>> \in {<<GREEN, YELLOW>>, <<YELLOW, RED>>}

ColorOrder ==
  [][GreenOnlySite /\ SameYellow /\ first_trigger =>
       \A p \in Phase : FollowsOn(Shown(p), ix'[p].signal_state)]_tvars

\* What is left of a colour that has been shown for n, in plan t.
Remaining(p, c, t, n) ==
  CASE c = GREEN  -> GreenLen[t][p] - n
    [] c = YELLOW -> YellowLen[t][p] - n
    [] c = RED    -> CycleLen[t] - GreenLen[t][p] - YellowLen[t][p] - n

\* The countdown of a phase is what is left of its colour, within an interval.
Anchored(p) ==
  /\ fresh[p] /\ Shown(p) \in {GREEN, YELLOW, RED}
  /\ held[p] + Period < MaxAge
  =>
    LET exact == Remaining(p, Shown(p), tindex, held[p])
    IN  /\ ix[p].time_to_next >= TenthsPerTick * (exact - Period)
        /\ ix[p].time_to_next <= TenthsPerTick * (exact + Period)

\* The published countdown is anchored at the change of colour: in a plan that
\* is not actuated, once a colour has been seen to come on, time_to_next is the
\* plan's length of that colour less the real time it has been shown, to
\* within one timer interval (the lag of the program's clock), whatever
\* mixture of triggers and timer pulses came in between.
CountdownAnchored ==
  TimingType[tindex] # ACTUATED => \A p \in Phase : Anchored(p)

\* How the program takes the data of a source.
Decoder(src) ==
  IF src = NTCIP THEN "all" ELSE IF GreenYellowInput(src) THEN "yellow"
  ELSE IF GreenOnlyInput(src) THEN "green" ELSE "none"

\* Where all three lamps are read, exactly one is lit: of two the decoder sees
\* one, and misses the start of the other (phases.c:700-718).
Clear(b, src) == Decoder(src) = "all" => b.green + b.yellow + b.red = 1

\* What the countdown owes to the site: its sources are read in one way, by
\* clear readings, and no countdown leaves its short while an age is counted.
ReadOneWay ==
  \A s \in Sites : \A a, b \in s : Decoder(a) = Decoder(b)

ReadClearly ==
  \A s \in Sites : \A src \in s : \A b \in Readings : Clear(b, src)

CountdownFits ==
  \A t \in Plan, p \in Phase, c \in {GREEN, YELLOW, RED}, n \in 0 .. MaxAge :
    TenthsPerTick * Remaining(p, c, t, n) \in ShortRange

\* Green and yellow may be lit together while the one gives way to the other
\* ("bug at RFS where green and yellow are both on for one trigger",
\* phases.c:738), but the yellow is not then withdrawn: the start of a green
\* that had not gone is not set again.
Withdrawn(o, b) ==
  o.green = 1 /\ o.yellow = 1 /\ b.green = 1 /\ b.yellow = 0

YellowStays == first_trigger => \A p \in Phase : ~Withdrawn(atsc[p], atsc'[p])

\* No yellow lasts for ever: a phase published YELLOW is eventually published
\* otherwise, even when no further ATSC data arrives (the timer alone decides).
YellowEnds ==
  \A p \in Phase :
    (GreenOnlySite /\ Shown(p) = YELLOW) ~> (Shown(p) # YELLOW)
=============================================================================
