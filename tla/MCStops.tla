------------------------------ MODULE MCStops ------------------------------
EXTENDS PoiBarriers, TLC

\* Unit 50 m: a grid of about 3 km around a route east and then north.
Route == <<<<12, 20>>, <<12, 60>>, <<24, 60>>>>
Box == <<0, 2, 40, 100>>
Region == <<0, 0, 44, 104>>

Tags(k, v) == k :> v
House == Tags("building", "yes")

\* Nodes 1 to 4: the barrier, 4 outside the box.  5 and 6: an outline with
\* an offset.  7, 8: points.
NodesOf(at, offset, point) ==
  [n \in 1..8 |->
     CASE n = 1 -> [at |-> <<10, 40>>, tags |-> << >>]
       [] n = 2 -> [at |-> <<16, 40>>, tags |-> << >>]
       [] n = 3 -> [at |-> <<16, 46>>, tags |-> << >>]
       [] n = 4 -> [at |-> <<42, 46>>, tags |-> << >>]
       [] n = 5 -> [at |-> at, tags |-> << >>]
       [] n = 6 -> [at |-> <<at[1] + offset, at[2] + offset>>, tags |-> << >>]
       [] n = 7 -> [at |-> <<13, 43>>, tags |-> point]
       [] n = 8 -> [at |-> <<42, 60>>, tags |-> House @@ Tags("natural", "spring")]]

Barriers ==
  {Tags("railway", "rail"), Tags("railway", "disused"), Tags("waterway", "river"),
   Tags("waterway", "fairway"), Tags("natural", "glacier"),
   Tags("natural", "glacier") @@ House}
Lines == {<<1, 2, 3>>, <<2, 3, 4>>, <<1, 2, 3, 1>>, <<2, 9, 4>>}

Points ==
  {<< >>, House, Tags("tourism", "alpine_hut") @@ Tags("operator", "DNT"),
   Tags("amenity", "parking") @@ Tags("hgv", "yes") @@ Tags("building", "no")}

MCScenes ==
  {[nodes |-> NodesOf(at, off, point),
    ways |-> 1 :> [refs |-> line, tags |-> barrier] @@ 2 :> [refs |-> <<5, 6>>, tags |-> House]
               @@ 3 :> [refs |-> <<5, 9>>, tags |-> House],
    nodeBlobs |-> {{1, 5, 7}, {2, 3, 4, 6, 8}}, wayBlobs |-> {{1}, {2, 3}},
    region |-> Region, bbox |-> Box, corridor |-> route,
    highways |-> {<<<<2, 70>>, <<8, 70>>>>}, own |-> {<<<<2, 72>>, <<8, 72>>>>},
    links |-> {<<<<12, 38>>, <<12, 42>>>>, <<<<16, 38>>, <<16, 40>>>>, <<<<13, 41>>, <<14, 41>>>>,
               <<<<15, 41>>, <<15, 42>>>>, <<<<30, 42>>, <<30, 46>>>>, <<<<4, 69>>, <<4, 73>>>>,
               <<<<10, 36>>, <<10, 39>>>>},
    nights |-> {<<<<12, 37>>, {}>>, <<<<14, 43>>, {"Cabin"}>>, <<<<17, 50>>, {}>>,
                <<<<22, 55>>, {"TentSite"}>>, <<<<28, 60>>, {}>>}] :
     barrier \in Barriers, line \in Lines, point \in Points,
     at \in {<<12, 34>>, <<16, 48>>, <<20, 56>>, <<30, 86>>}, off \in {0, 4, 8},
     route \in {Route, << >>}}

=============================================================================
