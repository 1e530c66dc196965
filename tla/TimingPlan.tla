----------------------------- MODULE TimingPlan -----------------------------
(***************************************************************************)
(* get_timing_plan of phases/phases.c: which timing plan is in effect at a *)
(* time of day.  The site's phase.cfg lists intervals in order by time of  *)
(* day, each with the hour and minute it starts and the number of its      *)
(* plan; before the first start of a day the last interval of the day      *)
(* before is still running.                                                *)
(***************************************************************************)
EXTENDS Integers

CONSTANTS
  Hours,    \* hours in a day
  Minutes,  \* minutes in an hour
  Plan,     \* the plans of the site; plan 1 is among them
  Limit     \* BOUND: the longest list of intervals

ASSUME TimingPlanAssumption ==
  /\ Hours \in Nat \ {0} /\ Minutes \in Nat \ {0}
  /\ 1 \in Plan
  /\ Limit \in Nat

Hour   == 0 .. Hours - 1
Minute == 0 .. Minutes - 1

Interval == [hour_start : Hour, minute_start : Minute, plan_no : Plan]

\* The minute of the day at which an interval starts.
StartsAt(v) == v.hour_start * Minutes + v.minute_start

\* The lists phase.cfg may hold, as functions from 1 .. no_intervals.
Schedules(n) ==
  {s \in [1 .. n -> Interval] :
     \A i, j \in 1 .. n : i < j => StartsAt(s[i]) < StartsAt(s[j])}

Schedule == UNION {Schedules(n) : n \in 0 .. Limit}

-----------------------------------------------------------------------------
(* The scan: n is no_intervals, s the list, h and m the local time.  The   *)
(* tests of the first turn that name intervals 1 and n come before those   *)
(* that name interval i and the next.                                      *)

\* Plan of interval i once its start minute has come, of interval `before`
\* until then.
FromMinute(s, i, before, m) ==
  IF m >= s[i].minute_start THEN s[i].plan_no ELSE s[before].plan_no

\* A faulty variant of the next definition: the start minute is not looked at.
BetweenNoMinute(s, i, h, m) ==
  IF h = s[i + 1].hour_start THEN s[i + 1].plan_no ELSE s[i].plan_no

\* The hour lies between the start hours of intervals i and i + 1.
Between(s, i, h, m) ==
  IF h = s[i].hour_start THEN FromMinute(s, i, i - 1, m)
  ELSE IF h = s[i + 1].hour_start THEN FromMinute(s, i + 1, i, m)
  ELSE s[i].plan_no

Holds(s, i, h) == s[i].hour_start <= h /\ h <= s[i + 1].hour_start

\* The first turn of the loop on which interval i holds the hour ends it.
FirstHolding(s, n, h) ==
  CHOOSE i \in 1 .. n - 1 :
    Holds(s, i, h) /\ \A j \in 1 .. i - 1 : ~Holds(s, j, h)

get_timing_plan(s, n, h, m) ==
  IF n = 0 THEN 1
  ELSE IF h < s[1].hour_start THEN s[n].plan_no
  ELSE IF h = s[1].hour_start THEN FromMinute(s, 1, n, m)
  ELSE IF h = s[n].hour_start THEN FromMinute(s, n, n - 1, m)
  ELSE IF h > s[n].hour_start THEN s[n].plan_no
  ELSE Between(s, FirstHolding(s, n, h), h, m)

-----------------------------------------------------------------------------
(* A day of passes: phases asks for the plan again on every pass.          *)

VARIABLES
  no_intervals, \* how many intervals phase.cfg has
  sched,   \* hour_start, minute_start and plan_no of every interval
  hour,    \* the local time of the pass
  minute,
  tindex   \* the plan of the pass

dayvars == <<no_intervals, sched, hour, minute, tindex>>

DayInit ==
  /\ no_intervals \in 0 .. Limit /\ sched \in Schedules(no_intervals)
  /\ hour \in Hour /\ minute \in Minute
  /\ tindex = get_timing_plan(sched, no_intervals, hour, minute)

\* The next minute of the day, at midnight the first.
Advance ==
  IF minute + 1 < Minutes THEN minute' = minute + 1 /\ hour' = hour
  ELSE minute' = 0 /\ hour' = IF hour + 1 < Hours THEN hour + 1 ELSE 0

Pass ==
  /\ Advance
  /\ tindex' = get_timing_plan(sched, no_intervals, hour', minute')
  /\ UNCHANGED <<no_intervals, sched>>

DaySpec == DayInit /\ [][Pass]_dayvars

-----------------------------------------------------------------------------
\* What the list means: the interval in effect is the one that started last,
\* of those of the day, or the last of the day before.
Now == hour * Minutes + minute

Started(i) == StartsAt(sched[i]) <= Now

InEffect(i) ==
  \/ Started(i) /\ \A j \in i + 1 .. no_intervals : ~Started(j)
  \/ i = no_intervals /\ \A j \in 1 .. no_intervals : ~Started(j)

\* No two intervals start in the same hour.
HoursApart ==
  \A i, j \in 1 .. no_intervals :
    i < j => sched[i].hour_start < sched[j].hour_start

PlanOfInterval ==
  \A i \in 1 .. no_intervals : InEffect(i) => tindex = sched[i].plan_no

\* The plan of a pass is that of the interval that started last, whichever hour
\* and minute it is and across midnight, as long as no two intervals start in
\* the same hour: the scan compares hours, and looks at no minute but those of
\* one interval and the next.
PlanInEffect == HoursApart => PlanOfInterval
=============================================================================
