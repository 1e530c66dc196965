------------------------------ MODULE MCNtcip -------------------------------
(* Two groups, with lamps that are a flag, an escape character and the two *)
(* characters that stand for them after an escape character.               *)
EXTENDS Ntcip

MCGroups == <<2, 4>>
MCLamps == << <<126, 93>>, <<125, 94>> >>
MCJunk == {0, 126}
MCHits == {{"tail", "request", "payload", "end"}, {"request", "payload", "end"},
           {"lost"}, {"start", "header", "count", "escape"}}
=============================================================================
