------------------------------ MODULE MCTiled ------------------------------
EXTENDS TiledBuild

\* Six nodes along the axis, three tiles that meet at 3 and 5.
MCPos == <<0, 2, 4, 5, 6, 9>>
MCTiles == {1, 2, 3}
MCCell == <<<<0, 3>>, <<3, 5>>, <<5, 9>>>>
MCBoxes == {<<0, 9>>, <<0, 3>>, <<2, 5>>, <<5, 9>>, <<3, 4>>}
MCOrder == <<"car", "foot">>

Main == {<<1, 2, 4, 6>>, <<1, 2, 5, 6>>, <<6, 4, 3, 1>>}
Side == {<<4, 3, 2>>, <<2, 5>>, <<3, 2, 3>>}
Third == {<<5, 4, 1>>, <<2, 6>>}

MCExtracts ==
  {[pos |-> MCPos, refs |-> <<m, s, t>>, kind |-> k, oneway |-> o,
    here |-> (1..6) \ h, barriers |-> {2, 4}] :
     m \in Main, s \in Side, t \in Third,
     k \in {<<"road", "road", "footway">>, <<"road", "minspeed", "road">>,
            <<"car ferry", "road", "foot ferry">>, <<"footway", "other", "footway">>},
     o \in {{1, 3}}, h \in {{}, {3}}}
=============================================================================
