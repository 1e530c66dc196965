----------------------------- MODULE IxMixture ------------------------------
(***************************************************************************)
(* What the intersection broadcast promises.  Every pass of phases         *)
(* publishes a header and one record per approach; a value is known here   *)
(* by the number of the pass that wrote it.  A datagram may mix the passes *)
(* of its parts, but only so far: an approach is at most one pass older    *)
(* than the header, or than any approach before it in the datagram, and    *)
(* nothing comes from a pass that has not begun.  Datagrams may be lost,   *)
(* repeated and overtaken.                                                 *)
(***************************************************************************)
EXTENDS Integers

CONSTANTS
  N,      \* num_approaches of the intersection
  MaxSlot \* the most approaches a header may announce

Slot == 1 .. MaxSlot

VARIABLES
  newest,  \* the number of the last pass begun
  air,     \* the datagrams on their way
  shown    \* the datagram a receiver took last

mvars == <<newest, air, shown>>

Datagram == [seconds : Nat, num_approaches : Nat, approach : [Slot -> Nat]]

Nothing ==
  [seconds |-> 0, num_approaches |-> 0, approach |-> [i \in Slot |-> 0]]

\* The mixtures of passes up to n that may share a datagram; before the first
\* pass it may hold anything.
Mixed(m, n) ==
  m.seconds > 0 =>
    /\ m.num_approaches = N
    /\ m.seconds <= n
    /\ \A i \in 1 .. N :
         /\ m.approach[i] \in m.seconds - 1 .. n
         /\ \A j \in i .. N : m.approach[j] >= m.approach[i] - 1

MInit == newest = 0 /\ air = {} /\ shown = Nothing

Publish == newest' = newest + 1 /\ UNCHANGED <<air, shown>>

Broadcast ==
  /\ \E m \in air' : m \in Datagram /\ Mixed(m, newest) /\ air' = air \cup {m}
  /\ UNCHANGED <<newest, shown>>

Lost == \E m \in air : air' = air \ {m} /\ UNCHANGED <<newest, shown>>

Taken ==
  \E m \in air :
    /\ shown' = m
    /\ air' \in {air, air \ {m}}
    /\ UNCHANGED newest

MNext == Publish \/ Broadcast \/ Lost \/ Taken

MSpec == MInit /\ [][MNext]_mvars
=============================================================================
