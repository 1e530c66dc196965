------------------------------- MODULE MCUrms --------------------------------
(* Two lanes, the third because the program treats lanes 3 and 4 apart.    *)
EXTENDS Urms

MCLane == {1, 3}

Both(one, three) == [l \in MCLane |-> IF l = 1 THEN one ELSE three]
At(action, rate) == [action |-> action, rate |-> rate]

\* One command in and out of range, one that asks to stop controlling.
MCCommands ==
  {[lane |-> Both(At(3, 400), At(9, 1200)), no_control |-> FALSE],
   [lane |-> Both(At(2, 0), At(3, 300)), no_control |-> TRUE]}
MCRequests == {Both(At(3, 400), At(0, 0))}
MCCommandLines ==
  {<<>>, <<"no_control">>, <<"no_control", "section_on">>,
   <<"section_off", "interval", "section_on">>, <<"section_bad">>,
   <<"section_on", "interval">>}
MCMoments == {[dow |-> 1, hour |-> 8], [dow |-> 1, hour |-> 10],
              [dow |-> 6, hour |-> 8]}
MCFirstSetting == {At(4, 240), At(6, 900)}
=============================================================================
