-------------------------- MODULE MCSniffedPhases ---------------------------
(***************************************************************************)
(* A small instance of SniffedPhases: the wiring of page.nema.cfg and      *)
(* cal.nema.cfg (greens only), one phase.  With a poll and a timer pulse   *)
(* in every tick, lamps that may change in every tick and phases up to two *)
(* ticks late, the variable is rewritten while triggers wait.  The yellow  *)
(* is longer than a wait, so that red can come too soon.                   *)
(***************************************************************************)
EXTENDS SniffedPhases

GreenWires == {"G"} \X Phase

DarkOnly == {[green |-> 0, yellow |-> 0, red |-> 0]}

ShortLen     == [t \in Plan |-> [p \in Phase |-> 1]]
MCYellowLen  == [t \in Plan |-> [p \in Phase |-> 4]]
NoCycle      == [t \in Plan |-> 0]
MCTimingType == [t \in Plan |-> COORDINATED]
=============================================================================
