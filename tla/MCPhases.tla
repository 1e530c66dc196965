------------------------------ MODULE MCPhases ------------------------------
(***************************************************************************)
(* Small instances of PhasesTiming: two coordinated plans and an actuated  *)
(* one with scaled-down lengths, one or two phases, and sets of what       *)
(* uninitialised memory may hold.                                          *)
(***************************************************************************)
EXTENDS PhasesTiming

Lamp(g, y, r) == [green |-> g, yellow |-> y, red |-> r]

\* The readings of a source with one lamp lit; what uninitialised lamp bits
\* may hold.
GreenOrLit == {Lamp(1, 0, 0), Lamp(0, 1, 0), Lamp(0, 0, 1)}
GreenOrNot == {Lamp(1, 0, 0), Lamp(0, 0, 0)}

\* A site on the AB3418 line, which gives greens only, one on the NTCIP
\* link, which gives all lamps, and one with a sniffer of green and yellow.
OneKindEach == {{AB3418}, {NTCIP}, {SNIFF}}

OneAge == {-3}

SamePhases(n) == [t \in Plan |-> [p \in Phase |-> n]]

MCGreenLen   == [t \in Plan |-> [p \in Phase |-> 1 + t]]
MCYellowLen  == SamePhases(2)
MCCycleLen   == [t \in Plan |-> 5 + t]
MCTimingType == [t \in Plan |-> IF t = 3 THEN ACTUATED ELSE COORDINATED]

\* The instances are sites the countdown is right at.
ASSUME SiteAssumption ==
  SameYellow /\ ReadOneWay /\ ReadClearly /\ CountdownFits
=============================================================================
