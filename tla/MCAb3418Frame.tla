---------------------------- MODULE MCAb3418Frame ----------------------------
(* The requests of ab3418comm: both statuses, and patterns.  Of the 256    *)
(* patterns those six need escaping for themselves or their check          *)
(* sequence.  Three kinds of answer: bytes to escape at the end, in a row, *)
(* and none.                                                               *)
EXTENDS Ab3418Frame

Header == <<5, 19, 192>>

MCPatterns == {99, 125, 126, 217, 234, 242} \cup {1, 254}

MCRequests ==
  {Header \o <<140>>, Header \o <<132>>} \cup
  {Header \o <<147, pattern>> : pattern \in MCPatterns}

MCResponses ==
  {Header \o <<204, FLAG>>, Header \o <<196, ESCAPE, ESCAPED_FLAG>>,
   Header \o <<211>>}

\* The first row of the table in fcs.h.
ASSUME FirstRow ==
  [byte \in 0 .. 7 |-> fcstab[byte]] =
  [byte \in 0 .. 7 |->
     <<0, 4489, 8978, 12955, 17956, 22445, 25910, 29887>>[byte + 1]]
=============================================================================
