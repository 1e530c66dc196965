--------------------------- MODULE SniffedPhases ----------------------------
(***************************************************************************)
(* A signal, the sniffer that watches its lamps (rdsniff: sniffer/         *)
(* atsc_dio.c and atsc_db.c) and phases, with one clock.  The sniffer      *)
(* polls a byte of digital inputs, and writes DB_ATSC_VAR only when the    *)
(* greens of the byte differ from those it wrote last; the write queues a  *)
(* trigger for phases, which reads the variable when it gets to it.        *)
(*                                                                         *)
(* Time passes in ticks.  A poll is made when it is due.  phases may be    *)
(* late: triggers and timer pulses wait in its queue while the signal, the *)
(* sniffer and the clock go on, and are received in any order.  It has     *)
(* emptied its queue at some moment of any MaxDelay ticks.                 *)
(***************************************************************************)
EXTENDS Phases

CONSTANTS
  Wire,        \* the digital inputs in use, <<colour, phase>> (nema.cfg)
  PollPeriod,  \* the sniffer's interval
  MinShow,     \* the least time the signal shows green, or does not
  MaxDelay     \* the longest phases has something to receive without a break

ASSUME SnifferAssumption ==
  /\ Phase \subseteq Nat
  /\ Wire \subseteq {"G", "Y", "R"} \X Phase
  /\ PollPeriod \in Nat \ {0}
  /\ MinShow \in Nat /\ MinShow < MaxAge
  /\ MaxDelay \in Nat
  /\ \A t \in Plan : \A p \in Phase :
       YellowLen[t][p] + Period + MaxDelay < MaxAge

VARIABLES
  lamp,         \* per phase: the colour the signal shows
  lit,          \* per phase: how long it has been green, or not green
  last_greens,  \* sniffer: the phases green in the last write
  polled,       \* sniffer: time since the last poll
  db,           \* DB_ATSC_VAR, per phase
  up,           \* phases has logged in and asked for triggers
  queued,       \* triggers phases has not received yet
  timer,        \* phases: time since the last timer pulse it received
  waited,       \* phases: time since it last read the clock
  behind,       \* phases: for how long it has had something to receive
  was_green     \* observer: the last green was published when it ended

signal  == <<lamp, lit>>
sniffer == <<last_greens, polled, db>>
waiting == <<up, queued, timer, waited, behind>>
svars   == <<vars, signal, sniffer, waiting, was_green>>

SInit ==
  /\ Init
  /\ lamp \in [Phase -> {GREEN, RED}] /\ lit = [p \in Phase |-> 0]
  /\ last_greens = {} /\ polled = PollPeriod
  /\ db = [p \in Phase |-> Dark]
  /\ up = FALSE /\ queued = 0 /\ timer = 0 /\ waited = 0 /\ behind = 0
  /\ was_green = [p \in Phase |-> FALSE]

-----------------------------------------------------------------------------
(* The signal: from green to yellow to red to green again.                 *)

After(c) == CASE c = GREEN -> YELLOW [] c = YELLOW -> RED [] c = RED -> GREEN

LampChange(p) ==
  /\ lamp[p] \in {GREEN, RED} => lit[p] >= MinShow
  /\ lamp' = [lamp EXCEPT ![p] = After(@)]
  /\ lit' = [lit EXCEPT ![p] = IF lamp[p] = YELLOW THEN @ ELSE 0]
  /\ was_green' = [was_green EXCEPT ![p] = IF lamp[p] = GREEN
                                          THEN Shown(p) = GREEN ELSE @]
  /\ UNCHANGED <<vars, sniffer, waiting>>

-----------------------------------------------------------------------------
(* The sniffer.                                                            *)

\* A bit for every wire whose lamp is lit, none for a lamp without a wire.
Lit(color, name, p) == IF lamp[p] = color /\ <<name, p>> \in Wire THEN 1 ELSE 0

Digio == [p \in Phase |-> [green  |-> Lit(GREEN, "G", p),
                           yellow |-> Lit(YELLOW, "Y", p),
                           red    |-> Lit(RED, "R", p)]]

\* phase_status_greens[0], all that is compared: one byte, phases 1 to 8.
Greens(reading) == {p \in Phase \cap 1 .. 8 : reading[p].green = 1}

\* A write of DB_ATSC_VAR sends a trigger to those who asked for one.
Notify == queued' = IF up THEN queued + 1 ELSE queued

\* A faulty variant of the next definition: the last greens are never noted.
WriteAtscDbVarForgetful ==
  /\ IF Greens(Digio) # last_greens THEN db' = Digio /\ Notify
     ELSE UNCHANGED <<db, queued>>
  /\ UNCHANGED last_greens

WriteAtscDbVar ==
  IF Greens(Digio) # last_greens
  THEN db' = Digio /\ Notify /\ last_greens' = Greens(Digio)
  ELSE UNCHANGED <<db, queued, last_greens>>

Poll ==
  /\ polled = PollPeriod
  /\ polled' = 0
  /\ WriteAtscDbVar
  /\ UNCHANGED <<vars, signal, up, timer, waited, behind, was_green>>

-----------------------------------------------------------------------------
(* phases, waiting, or late.                                               *)

\* There is a trigger to receive, or a timer pulse.
Due == queued > 0 \/ (up /\ timer >= Period)

\* The delay ends when the queue is empty.
CatchUp == behind' = IF Due' THEN behind ELSE 0

Start ==
  /\ ~up
  /\ up' = TRUE
  /\ timer' = 0 /\ waited' = 0
  /\ UNCHANGED <<vars, signal, sniffer, queued, behind, was_green>>

\* A faulty variant of the next definition: the variable is not read.
PassOnDbNoRead == \E t \in Plan : Pass(SNIFF, atsc, TRUE, t, waited)

\* Read the variable, whatever it holds by now, and make a pass.  The write
\* that sent the trigger need not be the last one any more.
PassOnDb == \E t \in Plan : Pass(SNIFF, db, TRUE, t, waited)

PassOnTrigger ==
  /\ queued > 0
  /\ PassOnDb
  /\ queued' = queued - 1 /\ waited' = 0
  /\ UNCHANGED <<signal, sniffer, up, timer, was_green>>
  /\ CatchUp

\* A timer pulse need not overwrite trig_info: after a trigger the loop may
\* take it for another one, and read the variable again.  The pulses of the
\* time phases was late are all received.
PassOnTimer ==
  /\ up /\ timer >= Period
  /\ Timer(waited) \/ (first_trigger /\ PassOnDb)
  /\ timer' = timer - Period /\ waited' = 0
  /\ UNCHANGED <<signal, sniffer, up, queued, was_green>>
  /\ CatchUp

\* A tick of the clock: no poll waits for it, nor what phases has had to
\* receive for MaxDelay.
Tick ==
  /\ polled < PollPeriod /\ (Due => behind < MaxDelay)
  /\ polled' = polled + 1
  /\ behind' = IF Due THEN behind + 1 ELSE 0
  /\ timer' = IF up THEN timer + 1 ELSE 0
  /\ waited' = IF up THEN waited + 1 ELSE 0
  /\ lit' = [p \in Phase |-> IF lit[p] < MaxAge THEN lit[p] + 1 ELSE MaxAge]
  /\ UNCHANGED <<vars, lamp, last_greens, db, up, queued, was_green>>

SNext ==
  \/ \E p \in Phase : LampChange(p)
  \/ Poll \/ Start \/ PassOnTrigger \/ PassOnTimer \/ Tick

SSpec == SInit /\ [][SNext]_svars

-----------------------------------------------------------------------------
\* The phases whose green the sniffer watches and compares, at a site where it
\* watches no other colour that counts.
Watched ==
  IF SniffGreen /\ ~SniffYellow
  THEN {p \in Phase \cap 1 .. 8 : <<"G", p>> \in Wire} ELSE {}

\* Once phases has been triggered at all, a green lamp is published GREEN when
\* it has been lit for more than a poll and phases' longest delay, and nothing
\* else is published GREEN when it has been out for longer: no change of the
\* greens is lost between the poll, the database and the loop, however many
\* triggers wait while the variable is written again.
GreenPrompt ==
  first_trigger => \A p \in Watched :
    lit[p] > PollPeriod + MaxDelay => (Shown(p) = GREEN <=> lamp[p] = GREEN)

\* The longest phases goes without reading the clock.
MaxWait == Period + MaxDelay

\* From lamp to message, after a green that was published when it ended:
\* YELLOW is published no longer than the plan's yellow, a poll and two waits
\* after the lamp left green (phases reads of it a poll and a delay later, its
\* clock lags by a timer interval and it notices a wait after), and RED no
\* sooner than the plan's yellow less a wait, however many triggers wait and
\* however soon the lamp is green again.
YellowEndToEnd ==
  \A p \in Watched : was_green[p] /\ lamp[p] # GREEN =>
    /\ Shown(p) = YELLOW =>
         lit[p] <= YellowLen[tindex][p] + PollPeriod + 2 * MaxWait
    /\ Shown(p) = RED => lit[p] > YellowLen[tindex][p] - MaxWait

\* A trigger tells phases to read a variable that may have been written again,
\* more than once, before phases gets to it, and the triggers of those writes
\* make it read the same again.  Once none is left phases shows what the
\* sniffer compared last, and no write was lost on the way.
TriggersNotStale ==
  first_trigger /\ queued = 0 =>
    \A p \in Watched : (Shown(p) = GREEN) = (p \in last_greens)
=============================================================================
