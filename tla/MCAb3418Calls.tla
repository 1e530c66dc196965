---------------------------- MODULE MCAb3418Calls ----------------------------
(* Ranges of up to six cells, read two at a time: from the cells without a *)
(* phase to those of phase 1, and from phase 15 to a new page; and a range *)
(* that is no short integer.  A byte above 127 never matches.              *)
EXTENDS Ab3418Calls

MCRanges == {<<270, 274>>, <<511, 512>>, <<0, 9>>}
MCValues == {0, 200}
=============================================================================
