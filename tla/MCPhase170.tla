----------------------------- MODULE MCPhase170 ------------------------------
(* Plan 1 of int_cfg.h, with one force-off before the usual one.           *)
EXTENDS Phase170

MCForceOff == [p \in Phase |-> IF p = 2 THEN 0 ELSE 48]
MCYellow == [p \in Phase |-> 3]
MCAllRed == [p \in Phase |-> 0]
=============================================================================
