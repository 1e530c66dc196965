------------------------------ MODULE Phase170 ------------------------------
(***************************************************************************)
(* phase170/phase170e.c: it turns the status of a 170E controller and the  *)
(* priority requests for buses, both written to the database by another    *)
(* program, into the countdown the intersection broadcasts.                *)
(*                                                                         *)
(* Time goes in whole seconds.  The 170E runs one plan with two phases     *)
(* (int_cfg.h); for a bus it ends phase 4 early (early green) or lets      *)
(* phase 2 stay green ten seconds into the next cycle (green extension).   *)
(* The status is a second old at most when the program takes it over, but  *)
(* polls may be missed for longer than the program waits.                  *)
(***************************************************************************)
EXTENDS Integers, Sequences

CONSTANTS
  Cycle,        \* cycle_length of plan 1
  FreeCycle,    \* cycle_length of plan 0, which runs free
  ForceOff,     \* force_off of each phase
  Yellow,       \* yellow_intv of each phase
  AllRed,       \* allred_intv of each phase
  EarlyForceOff,\* desired_force_off of the requests for an early green
  MaxLag,       \* seconds from the poll of the controller to the trigger
  MaxSilence,   \* seconds from one poll to the next
  MaxRequests,  \* priority requests
  MaxFree       \* times the controller runs free, without a plan

Phase == {2, 4}
After(p) == IF p = 2 THEN 4 ELSE 2      \* phase_af
Before(p) == IF p = 2 THEN 4 ELSE 2     \* phase_bf
PhaseSwap(p) == p                       \* phase_swap: 2 stays 2 and 4 stays 4
AtscSwap(p) == IF p = 2 THEN 4 ELSE 2   \* atsc_phase_swap
Approach == 1..4
ControlPhase(a) == IF a % 2 = 1 THEN 2 ELSE 4

Early_Green == 2
Green_Extension == 3
MAX_GE == 10
MaxGap == 5             \* seconds without a status before it goes silent

Color == {"green", "yellow", "red"}

\* The clocks are bytes.  Phase 4 has a green longer than an extension, the
\* cycle room for one after it, and phase 2 begins no earlier than one ends.
ASSUME Phase170Assumption ==
  /\ Cycle \in 0..256 /\ FreeCycle \in Nat
  /\ MaxLag \in 0..1 /\ MaxSilence \in Nat \ {0}
  /\ ForceOff \in [Phase -> Nat]
  /\ Yellow \in [Phase -> Nat \ {0}] /\ AllRed \in [Phase -> Nat]
  /\ ForceOff[2] = 0 /\ Yellow[2] + AllRed[2] > MaxLag
  /\ Yellow[2] + AllRed[2] + MAX_GE < ForceOff[4]
  /\ ForceOff[4] + Yellow[4] + AllRed[4] + MAX_GE < Cycle
  /\ \A fo \in EarlyForceOff :
       /\ fo \in Yellow[2] + AllRed[2] + 1 .. ForceOff[4]
       /\ fo + Yellow[4] + AllRed[4] >= MAX_GE
  /\ MaxRequests \in Nat /\ MaxFree \in Nat

VARIABLES
  local, master, \* cycle clocks of the controller
  mode,          \* what it executes: 0, Early_Green or Green_Extension
  force_off,     \* where phase 4 ends in this cycle
  plan,          \* 1, or 0 when it runs free
  db_status,     \* the status in the database
  age,           \* seconds since it was polled
  db_request,    \* the priority request in the database
  triggers,      \* what was written and not read yet, in this order
  signal_trig,   \* a status arrived within the last seconds
  signal,        \* signal_trace.signal
  gap,           \* seconds since signal was taken over, MaxGap + 1 for more
  pattern,       \* the plan last looked up, a local variable
  priority_status,
  signal_EG_onset,
  bus_time_saved,
  published,     \* what the timer wrote with what is known now in this second:
                 \* ix_msg, ATSC message and traffic signal
  lag,           \* observer: age of signal when it was taken over
  requests, frees

Nothing == [ix |-> <<>>, atsc |-> <<>>, traffic_signal |-> <<>>]
current == published # Nothing

controller == <<local, master, mode, force_off, plan>>
database == <<db_status, age, db_request, triggers>>
trace == <<signal_trig, signal, gap, pattern, priority_status,
           signal_EG_onset, bus_time_saved>>
observed == <<published, lag>>
vars == <<controller, database, trace, observed, requests, frees>>

-----------------------------------------------------------------------------
(* Onsets.                                                                 *)

cycle_rounding(f, cycle_len) == IF f >= cycle_len THEN f - cycle_len ELSE f

\* get_signal_change_onset: when each colour of each phase begins.
signal_state_onset ==
  [p \in Phase |->
     [c \in Color |->
        CASE c = "green" -> cycle_rounding(ForceOff[Before(p)]
                              + Yellow[Before(p)] + AllRed[Before(p)], Cycle)
          [] c = "yellow" -> ForceOff[p]
          [] c = "red" -> cycle_rounding(ForceOff[p] + Yellow[p], Cycle)]]

NoOnset == [p \in Phase |-> [c \in Color |-> 0]]

\* A plan that is not in use has no onsets.
OnsetOf(plan_nr) == IF plan_nr = 0 THEN NoOnset ELSE signal_state_onset
CycleOf(plan_nr) == IF plan_nr = 0 THEN FreeCycle ELSE Cycle

\* Mutant of EarlyOnset: the yellow of phase 4 is left out.
EarlyOnsetNoYellow(plan_nr, fo) ==
  [OnsetOf(plan_nr) EXCEPT ![4].yellow = fo, ![4].red = fo,
     ![2].green = cycle_rounding(fo + AllRed[4], CycleOf(plan_nr))]

\* Phase 4 ends at fo and phase 2 begins earlier by as much.
EarlyOnset(plan_nr, fo) ==
  LET red4 == cycle_rounding(fo + Yellow[4], CycleOf(plan_nr))
  IN [OnsetOf(plan_nr) EXCEPT
        ![4].yellow = fo, ![4].red = red4,
        ![2].green = cycle_rounding(red4 + AllRed[4], CycleOf(plan_nr))]

Following(c) == CASE c = "green" -> "yellow" [] c = "yellow" -> "red"
              [] c = "red" -> "green"

-----------------------------------------------------------------------------
(* The controller.                                                         *)

Ended4 == force_off + Yellow[4] + AllRed[4]
Started4 == Yellow[2] + AllRed[2]

\* The colour of a phase by the local clock.
Shown(p) ==
  IF p = 4
  THEN CASE local >= Started4 /\ local < force_off -> "green"
         [] local >= force_off /\ local < force_off + Yellow[4] -> "yellow"
         [] OTHER -> "red"
  ELSE CASE local >= Ended4 -> "green"
         [] local < Yellow[2] -> "yellow"
         [] OTHER -> "red"

\* The phase that is not red or in its red clearance, and its interval.
ActivePhase == IF local < Started4 \/ local >= Ended4 THEN 2 ELSE 4
Interval == CASE Shown(ActivePhase) = "green" -> 1
              [] Shown(ActivePhase) = "yellow" -> 12
              [] OTHER -> 15

Status == [ringA_phase |-> ActivePhase, ringA_interval |-> Interval,
           local |-> local, master |-> master, pattern |-> plan]

Pending(variable) == \E i \in DOMAIN triggers : triggers[i] = variable
Written(variable) ==
  triggers' = IF Pending(variable) THEN triggers ELSE Append(triggers, variable)

Extended == mode = Green_Extension /\ local = Cycle - 1 /\ master # MAX_GE - 1

\* A second goes by; the timer runs five times in it.  An extension holds
\* the local clock, which catches up when phase 4 begins.
Tick ==
  /\ age < MaxSilence /\ ~Pending("request")
  /\ Pending("status") => age < MaxLag
  /\ signal_trig => pattern = signal.pattern /\ (pattern # 0 => current)
  /\ master' = (master + 1) % Cycle
  /\ local' = CASE Extended -> local
                [] mode = Green_Extension /\ local + 1 = Started4 -> master'
                [] OTHER -> (local + 1) % Cycle
  /\ mode' = IF \/ mode = Early_Green /\ local + 1 = Ended4
                \/ mode = Green_Extension /\ local + 1 = Started4
             THEN 0 ELSE mode
  /\ force_off' = IF local' = 0 THEN ForceOff[4] ELSE force_off
  /\ age' = age + 1
  /\ gap' = IF gap > MaxGap THEN gap ELSE gap + 1
  /\ published' = Nothing
  /\ UNCHANGED <<plan, db_status, db_request, triggers, signal_trig, signal,
                 pattern, priority_status, signal_EG_onset, bus_time_saved,
                 lag, requests, frees>>

\* The controller's status is written to the database, once in a second at
\* most, after the one before has been taken over.
Poll ==
  /\ age > 0 /\ ~Pending("status")
  /\ db_status' = Status /\ age' = 0 /\ Written("status")
  /\ UNCHANGED <<controller, db_request, trace, observed, requests, frees>>

\* A status the program has taken over is written again.
Repeat ==
  /\ db_status.master = signal.master
  /\ ~Pending("status") /\ Written("status")
  /\ UNCHANGED <<controller, db_status, age, db_request, trace, observed,
                 requests, frees>>

\* The program that polls the controller has it give a bus priority and writes
\* the request, an early green while phase 4 is green or an extension while
\* phase 2 is, by the status it just wrote.  The program may still announce the
\* priority before it.
Request ==
  /\ requests < MaxRequests /\ requests' = requests + 1
  /\ db_status = Status /\ age = 0 /\ plan = 1
  /\ mode = 0 /\ ~Pending("request")
  /\ \/ \E fo \in EarlyForceOff :
          /\ Shown(4) = "green" /\ local < fo
          /\ mode' = Early_Green /\ force_off' = fo
          /\ db_request' = [type |-> Early_Green, desired_force_off |-> fo,
                            execution_phase |-> 2]
     \/ /\ Shown(2) = "green"
        /\ mode' = Green_Extension /\ UNCHANGED force_off
        /\ db_request' = [type |-> Green_Extension, desired_force_off |-> 0,
                          execution_phase |-> 2]
  /\ Written("request")
  /\ UNCHANGED <<local, master, plan, db_status, age, trace, observed, frees>>

\* The controller leaves its plan, and takes it up again.
Free ==
  /\ mode = 0
  /\ IF plan = 1 THEN frees < MaxFree /\ frees' = frees + 1
     ELSE UNCHANGED frees
  /\ plan' = 1 - plan
  /\ UNCHANGED <<local, master, mode, force_off, database, trace, observed,
                 requests>>

-----------------------------------------------------------------------------
(* Triggers.                                                               *)

update_head_color(intv) ==
  CASE intv <= 7 -> "green" [] intv \in 12..14 -> "yellow" [] OTHER -> "red"

\* update_signal_state: the phases no ring is at are red.
Signal(status) ==
  [state |-> [p \in Phase |->
                IF p = status.ringA_phase
                THEN update_head_color(status.ringA_interval) ELSE "red"],
   local |-> status.local, master |-> status.master,
   pattern |-> status.pattern]

Received(variable) ==
  /\ triggers # <<>> /\ Head(triggers) = variable
  /\ triggers' = Tail(triggers)

\* A message with the master clock of the one before is a duplicate.
StatusTrigger ==
  /\ Received("status")
  /\ signal_trig' = TRUE /\ published' = Nothing
  /\ IF db_status.master # signal.master
     THEN signal' = Signal(db_status) /\ gap' = 0 /\ lag' = age
     ELSE UNCHANGED <<signal, gap, lag>>
  /\ UNCHANGED <<controller, db_status, age, db_request, pattern,
                 priority_status, signal_EG_onset, bus_time_saved, requests,
                 frees>>

\* What the compiler makes of the cast of a negative time.
UnsignedChar(n) == n % 256

\* The time an extension saves is looked up with the pattern of the last timer.
RequestTrigger ==
  /\ Received("request")
  /\ priority_status' = db_request.type /\ published' = Nothing
  /\ \/ /\ db_request.type = Early_Green
        /\ pattern' = signal.pattern
        /\ signal_EG_onset' = 
             EarlyOnset(pattern', db_request.desired_force_off)
        /\ bus_time_saved' =
             UnsignedChar(OnsetOf(pattern')[2].green
                            - signal_EG_onset'[2].green)
     \/ /\ db_request.type = Green_Extension
        /\ bus_time_saved' =
             UnsignedChar(OnsetOf(pattern)[2].green
                            - OnsetOf(pattern)[2].yellow - MAX_GE)
        /\ UNCHANGED <<pattern, signal_EG_onset>>
  /\ UNCHANGED <<controller, db_status, age, db_request, signal_trig,
                 signal, gap, lag, requests, frees>>

-----------------------------------------------------------------------------
(* The timer.                                                              *)

\* Mutant of TimeLeft: any end that has passed is taken for the next one.
TimeLeftWraps(onset, c, clock) ==
  LET left == onset[Following(c)] - clock
  IN IF left < 0 THEN left + Cycle ELSE left

\* Seconds from clock to the end of colour c.  A second past it is a late
\* status; more is taken for an end in the next cycle.
TimeLeft(onset, c, clock) ==
  LET left == onset[Following(c)] - clock
  IN CASE left < -1 -> left + Cycle
       [] left = -1 -> 0
       [] OTHER -> left

TimeUsed(onset, c, left) ==
  LET length == onset[Following(c)] - onset[c]
      used == IF length < 0 THEN length + Cycle - left ELSE length - left
  IN CASE used < -1 -> used + Cycle
       [] used = -1 -> 0
       [] OTHER -> used

\* Mutant of PriorityOver: a green of phase 2 does not end an early green.
OverByGreen4 ==
  priority_status = Green_Extension /\ signal.state[4] = "green"

\* The green a priority waits for has begun.
PriorityOver ==
  \/ priority_status = Green_Extension /\ signal.state[4] = "green"
  \/ priority_status = Early_Green /\ signal.state[2] = "green"

\* Mutant of Countdown: an extension changes nothing for phase 4.
CountdownUnextended(p, status, localclock, masterclock) ==
  LET state == signal.state[p]
      onset == IF status = Early_Green THEN signal_EG_onset[p]
               ELSE signal_state_onset[p]
      usual == TimeLeft(onset, state, localclock)
  IN [left |-> usual, used |-> TimeUsed(onset, state, usual)]

\* The countdown of phase p, with the status, the extension and the clocks as
\* they are at the timer.
Countdown(p, status, localclock, masterclock) ==
  LET state == signal.state
      onset == IF status = Early_Green THEN signal_EG_onset[p]
               ELSE signal_state_onset[p]
      extending == status = Green_Extension /\ masterclock <= MAX_GE
      usual == TimeLeft(onset, state[p], localclock)
      green == onset.yellow - masterclock
      red == MAX_GE + Yellow[2] + AllRed[2] - masterclock
  IN CASE extending /\ p = 2 /\ state[2] = "green" ->
            [left |-> green, used |-> TimeUsed(onset, "green", green)]
       [] extending /\ p = 4 /\ state[4] = "red" /\ state[2] = "green" ->
            [left |-> IF red < 0 THEN 0 ELSE red,
             used |-> Cycle - ForceOff[4] - Yellow[4] + masterclock]
       [] OTHER ->
            [left |-> usual, used |-> TimeUsed(onset, state[p], usual)]

\* assem_ix_msg: each approach gets the state and the time of its phase.
IxMsg(status, saved, count) ==
  [bus_priority_calls |-> status,
   bus_time_saved |-> IF status = 0 THEN 0 ELSE saved,
   signal_state |->
     [a \in Approach |-> signal.state[PhaseSwap(ControlPhase(a))]],
   time_to_next |->
     [a \in Approach |-> count[PhaseSwap(ControlPhase(a))].left]]

\* The phases swapped, as the receivers of the traffic signal and the ATSC
\* message know them.
Atsc(ix) ==
  LET of(color) == {AtscSwap(ControlPhase(a)) : a \in
                      {b \in Approach : ix.signal_state[b] = color}}
      ons == of("green") \cup of("yellow")
  IN [greens |-> of("green"), yellows |-> of("yellow"), reds |-> of("red"),
      ons |-> ons,
      next |-> {AtscSwap(After(ControlPhase(a))) : a \in
                  {b \in Approach : AtscSwap(ControlPhase(b)) \in ons}}]

\* State, time left and time used, found by different ways over the tables.
TrafficSignal(ix, count) ==
  LET shows(p) == CHOOSE a \in Approach : AtscSwap(ControlPhase(a)) = p
      used(p) == PhaseSwap(CHOOSE j \in Phase : AtscSwap(PhaseSwap(j)) = p)
  IN [p \in Phase |->
        [phase |-> ix.signal_state[shows(p)],
         time_left |-> ix.time_to_next[shows(p)],
         time_used |-> count[used(p)].used]]

\* What the timer writes.
Publication(status, saved) ==
  LET localclock == cycle_rounding(signal.local + gap, Cycle)
      masterclock == cycle_rounding(signal.master + gap, Cycle)
      count == [p \in Phase |-> Countdown(p, status, localclock, masterclock)]
      ix == IxMsg(status, saved, count)
  IN [ix |-> ix, atsc |-> Atsc(ix),
      traffic_signal |-> TrafficSignal(ix, count)]

Timer ==
  /\ signal_trig
  /\ pattern' = signal.pattern
  /\ \/ /\ pattern' # 0 /\ gap > MaxGap
        /\ signal_trig' = FALSE
        /\ UNCHANGED <<priority_status, bus_time_saved, published>>
     \/ /\ pattern' # 0 /\ gap <= MaxGap
        /\ priority_status' = IF PriorityOver THEN 0 ELSE priority_status
        /\ bus_time_saved' = IF PriorityOver THEN 0 ELSE bus_time_saved
        /\ published' = Publication(priority_status', bus_time_saved')
        /\ UNCHANGED signal_trig
     \/ /\ pattern' = 0
        /\ UNCHANGED <<signal_trig, priority_status, bus_time_saved, published>>
  /\ UNCHANGED <<controller, database, signal, gap, signal_EG_onset, lag,
                 requests, frees>>

-----------------------------------------------------------------------------
NoRequest == [type |-> 0, desired_force_off |-> 0, execution_phase |-> 0]

Init ==
  /\ local \in {0, Cycle - 1} /\ master = local /\ mode = 0
  /\ force_off = ForceOff[4] /\ plan \in {0, 1}
  /\ db_status = Status /\ age = 1 /\ db_request = NoRequest
  /\ triggers = <<>>
  /\ signal_trig = FALSE /\ gap = MaxGap + 1
  /\ signal = [state |-> [p \in Phase |-> "none"], local |-> 0, master |-> 0,
               pattern |-> 0]
  /\ pattern = 0 /\ priority_status = 0
  /\ signal_EG_onset = NoOnset /\ bus_time_saved = 0
  /\ published = Nothing /\ lag = 0
  /\ requests = 0 /\ frees = 0

Next ==
  \/ Tick \/ Poll \/ Repeat \/ Request \/ Free
  \/ StatusTrigger \/ RequestTrigger \/ Timer

Spec == Init /\ [][Next]_vars

-----------------------------------------------------------------------------
(* Properties.                                                             *)

\* Seconds from now to the moment colour c of phase p ends, less than 0 if it
\* has ended.
Ends(p, c) ==
  LET end == IF p = 4
             THEN CASE c = "green" -> force_off
                    [] c = "yellow" -> force_off + Yellow[4]
                    [] OTHER -> Started4
             ELSE CASE c = "green" -> 0
                    [] c = "yellow" -> Yellow[2]
                    [] OTHER -> Ended4
  IN IF Shown(p) = c THEN (end - local) % Cycle ELSE -((local - end) % Cycle)

\* The approaches phase p controls, whatever the program shows there.
Approaches(p) == {a \in Approach : ControlPhase(a) = p}

\* With a status that came at most two seconds ago, the countdown of every
\* approach goes to the moment its light changes, late by what the status was
\* when it came, and it is 0 when that moment has passed: in the plan, and in
\* an early green unless the controller left the plan in it.
CountdownRight ==
  current /\ gap <= 2 /\ ~Pending("request")
    /\ (published.ix.bus_priority_calls = 0 \/ frees = 0)
    /\ Green_Extension \notin {mode, published.ix.bus_priority_calls}
  => \A p \in Phase : \A a \in Approaches(p) :
       LET ends == Ends(p, published.ix.signal_state[a]) + lag
       IN published.ix.time_to_next[a] = IF ends < 0 THEN 0 ELSE ends

\* During the extension itself phase 4 counts down to its green.
ExtensionRed ==
  current /\ gap <= 1 /\ mode = Green_Extension /\ master < MAX_GE
    /\ published.ix.bus_priority_calls = Green_Extension
    /\ signal.master < master
  => \A a \in Approaches(4) :
       published.ix.time_to_next[a] = MAX_GE + Started4 - master + lag

\* Once the request was read, the time an early green is said to save is how
\* much earlier phase 2 begins.
SavedRight ==
  current /\ mode = Early_Green /\ ~Pending("request")
    /\ published.ix.bus_priority_calls = Early_Green
  => published.ix.bus_time_saved = signal_state_onset[2].green - Ended4

\* As long as the controller keeps to its plan, a priority is announced only
\* while it gives one, or as long after as the status takes to show it.
PriorityIsGiven ==
  current /\ gap <= 1 /\ published.ix.bus_priority_calls # 0 /\ mode = 0
    /\ frees = 0
  => local - (IF published.ix.bus_priority_calls = Early_Green THEN Ended4
              ELSE Started4 + MAX_GE) \in 0..gap + lag
=============================================================================
