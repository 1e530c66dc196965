----------------------------- MODULE MCAb3418Udp -----------------------------
(* A yellow beside a green, and a red clearance beside a yellow.           *)
EXTENDS Ab3418Udp

Seen(phases, ring1, ring2) == [active |-> phases, interval |-> <<ring1, ring2>>]

MCLamps == {Seen({2, 5}, 12, 5), Seen({3, 8}, 15, 13)}
=============================================================================
