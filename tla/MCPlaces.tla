------------------------------ MODULE MCPlaces ------------------------------
EXTENDS PlacePoints, TLC

Name == <<"name", "A">>
Level == <<"admin_level", "7">>
Border == <<"boundary", "administrative">>
Amenity == <<"amenity", "cafe">>
Street == <<"addr:street", "S">>
Number == <<"addr:housenumber", "1">>

\* Nodes 1 to 4, with means on the grid, off it and halfway; 1 may be outside,
\* 2 a town, 3 an address.
NodesOf(outside, town, address) ==
  [n \in {1, 2, 3, 4} \ (IF outside THEN {1} ELSE {}) |->
     [at |-> 5 * n * n,
      tags |-> IF n = 2 THEN town ELSE IF n = 3 THEN address ELSE << >>]]

AreaTags == <<Border, Name, Level>>
RingTags == {AreaTags, <<Name, Amenity>>, <<Name, <<"highway", "pedestrian">>>>, << >>}
LineTags == {<<Name>>, <<<<"highway", "path">>, Name, Amenity>>, <<Amenity, <<"highway", "path">>, Name>>,
             <<Street, Number>>}

\* A ring numbered like a node, a line, and a way only routes use.
WaysOf(ring, line, refs) ==
  1 :> [refs |-> <<1, 2, 3, 1>>, tags |-> ring] @@ 2 :> [refs |-> refs, tags |-> line]
    @@ 7 :> [refs |-> <<4, 1>>, tags |-> << >>]

Way(id, role) == [type |-> "way", id |-> id, role |-> role]
RelOf(id) == [type |-> "rel", id |-> id, role |-> ""]

County(ms) == [id |-> 1, members |-> ms, tags |-> <<Border, <<"name", "C">>, <<"admin_level", "6">>>>]
Trail(ms, tags) == [id |-> 2, members |-> ms, tags |-> <<<<"type", "route">>>> \o tags]
Super(ms) == [id |-> 3, members |-> ms, tags |-> <<<<"type", "superroute">>, Name>>]
Leg(id, ms) == [id |-> id, members |-> ms, tags |-> <<<<"type", "route">>>>]

Hike == <<<<"route", "hiking">>, <<"network", "lwn">>, <<"ref", "T">>>>
Camino == <<<<"route", "foot">>, <<"name", "camino">>>>
Unnamed == <<<<"route", "mtb">>, <<"network", "rcn">>>>

RelsOf ==
  {{}, {County(<<Way(1, "outer")>>), Trail(<<Way(7, "")>>, Hike)},
   {County(<<Way(2, ""), Way(1, "inner"), Way(7, "part")>>), Trail(<<Way(2, ""), Way(7, "")>>, Camino)},
   {Super(<<RelOf(4), RelOf(5)>>), Leg(4, << >>), Leg(5, <<Way(7, "")>>), Trail(<<Way(2, "")>>, Unnamed)},
   {Super(<<RelOf(2), RelOf(4)>>), Trail(<<Way(2, ""), RelOf(4)>>, Hike), Leg(4, <<Way(1, "")>>)},
   {Super(<<RelOf(4)>>), Leg(4, <<RelOf(5)>>), Leg(5, <<Way(7, "")>>)},
   {County(<<Way(1, "outer"), Way(9, "outer")>>), Trail(<<Way(9, ""), Way(7, "")>>, Hike)}}

MCExtracts ==
  {[nodes |-> NodesOf(o, t, a), ways |-> WaysOf(ring, line, refs), rels |-> rels] :
     o \in BOOLEAN, t \in {<< >>, <<Name, <<"place", "town">>>>},
     a \in {<< >>, <<Street, Number>>, <<Street, Amenity>>, <<Number, Amenity>>},
     ring \in RingTags, line \in LineTags, refs \in {<<3, 4>>, <<4, 9>>, <<1>>}, rels \in RelsOf}

=============================================================================
