----------------------------- MODULE PlacePoints -----------------------------
(***************************************************************************)
(* place-source-points: an extract is reduced, in passes over the file, to *)
(* the objects the place index of the app reads, each of them a single     *)
(* point but for the outlines of administrative areas.  An extract is      *)
(*   nodes[id]  [at, tags]: a coordinate (one axis stands for two), tags,  *)
(*              coordinates counted in steps of the grid the points are      *)
(*              written on, on which the nodes of an extract lie             *)
(*   ways[id]   [refs, tags]: the nodes of the way in order, maybe absent  *)
(*   rels       [id, members, tags], a member being [type, id, role]       *)
(* Nodes, ways and relations number separately: a way may have the number  *)
(* of a node.  Tags are a sequence of pairs, for their order counts.       *)
(***************************************************************************)
EXTENDS Integers, SequencesExt, FiniteSetsExt

CONSTANT Extracts \* the extracts that may be given

\* Objects and what they refer to have numbers from 0 up, relations one each.
ASSUME ExtractAssumption ==
  \A x \in Extracts :
    /\ \A n \in DOMAIN x.nodes : n \in Nat /\ x.nodes[n].at \in Int
    /\ \A w \in DOMAIN x.ways : w \in Nat /\ x.ways[w].refs \in Seq(Nat)
    /\ \A r \in x.rels : /\ r.members \in Seq(Range(r.members))
                         /\ \A m \in Range(r.members) : m.id \in Nat
    /\ \A r, s \in x.rels : r.id = s.id => r = s

VARIABLES
  osm,          \* the extract
  keepVertices, \* PLACE_SOURCE_KEEP_VERTICES
  pass,         \* what is done next
  found,        \* what the passes have collected
  out,          \* the extract that is being made
  nextStub,     \* the next number of a made-up node or way
  todo          \* search ways, or routes, that are still to be emitted, in any
                \* order: that of the file, or of a hash map

placeVars == <<osm, keepVertices, pass, found, out, nextStub, todo>>

-----------------------------------------------------------------------------
(* Tags *)

Has(tags, k) == \E i \in DOMAIN tags : tags[i][1] = k
Get(tags, k) == IF Has(tags, k) THEN (CHOOSE t \in Range(tags) : t[1] = k)[2] ELSE ""

KindKeys == {"place", "tourism", "leisure", "highway", "amenity", "shop"}

\* classify_named: the last tag that says a kind decides it; without a name
\* the address serves.
Kind(tags) ==
  LET kinds == SelectSeq(tags, LAMBDA t : t[1] \in KindKeys \/ t = <<"natural", "peak">>)
  IN  IF kinds # << >> THEN Last(kinds)
      ELSE IF Has(tags, "name") THEN <<"named", "">>
      ELSE IF Has(tags, "addr:housenumber") THEN <<"addr", "housenumber">>
      ELSE <<"addr", "street">>
Named(tags) == Has(tags, "name") \/ Has(tags, "addr:street")
PlaceName(tags) ==
  IF Has(tags, "name") THEN <<Get(tags, "name")>>
  ELSE <<Get(tags, "addr:street"), Get(tags, "addr:housenumber")>>
SearchWay(way) == Named(way.tags) /\ Kind(way.tags)[1] # "highway"

Area(tags) ==
  /\ Get(tags, "boundary") = "administrative"
  /\ Get(tags, "name") # ""
  /\ Get(tags, "admin_level") \in {"6", "7", "8"}

OfficialRoute(tags, hiking) ==
  /\ Get(tags, "type") = "route"
  /\ Get(tags, "route") \in IF hiking THEN {"hiking", "foot"} ELSE {"bicycle", "mtb"}
  /\ Get(tags, "network") \in IF hiking THEN {"iwn", "nwn", "rwn", "lwn"}
                                        ELSE {"icn", "ncn", "rcn", "lcn"}
\* "camino" stands for the names the code knows.
Pilgrim(tags) ==
  /\ Get(tags, "type") = "route"
  /\ \/ Get(tags, "route") = "pilgrimage"
     \/ /\ Get(tags, "route") \in {"hiking", "foot"}
        /\ \E k \in {"name", "operator", "ref"} : Get(tags, k) = "camino"
Superroute(tags) == Get(tags, "type") = "superroute"
Interesting(tags) ==
  OfficialRoute(tags, TRUE) \/ OfficialRoute(tags, FALSE) \/ Pilgrim(tags) \/ Superroute(tags)
NamedRoute(r) == Interesting(r.tags) /\ (Has(r.tags, "name") \/ Has(r.tags, "ref"))

\* What of s is in set, in the order of s.
Those(s, set) ==
  LET upTo[k \in 0..Len(s)] == IF k = 0 THEN << >>
                               ELSE IF s[k] \in set THEN Append(upTo[k - 1], s[k]) ELSE upTo[k - 1]
  IN  upTo[Len(s)]

IdsOf(r, members) == LET ms == Those(r.members, members) IN [i \in DOMAIN ms |-> ms[i].id]
MembersOf(r, type) == IdsOf(r, {m \in Range(r.members) : m.type = type})
Outline(r) ==
  IdsOf(r, {m \in Range(r.members) : m.type = "way" /\ m.role \in {"", "outer", "part"}})

-----------------------------------------------------------------------------
(* Positions *)

\* The mean over the nodes of a way that are there, as a fraction.
Known(refs, nodes) == Those(refs, DOMAIN nodes)
Mean(refs, nodes) ==
  LET here == Known(refs, nodes)
      sum[k \in 0..Len(here)] == IF k = 0 THEN 0 ELSE sum[k - 1] + nodes[here[k]].at
  IN  [sum |-> sum[Len(here)], of |-> Len(here)]

\* No point of the grid is nearer to the mean than at; halfway either may serve.
Near(mean, at) == 2 * (mean.of * at - mean.sum) \in -mean.of .. mean.of
OnGrid(mean) ==
  {at \in mean.sum \div mean.of .. mean.sum \div mean.of + 1 : Near(mean, at)}

\* The first of ways, or else of the first child that has any.
FirstWay(ways, children, waysOf) ==
  LET some == Those(children, {c \in DOMAIN waysOf : waysOf[c] # << >>})
  IN  IF ways # << >> THEN {ways[1]} ELSE IF some # << >> THEN {waysOf[some[1]][1]} ELSE {}

-----------------------------------------------------------------------------
(* Passes over the extract *)

NoFinds == [areas |-> {}, areaWays |-> {}, routes |-> {}, childWays |-> << >>, jobs |-> {},
            outlines |-> << >>, standalone |-> {}, firstNode |-> << >>, needed |-> {},
            nodes |-> << >>, searchNodes |-> {}]
NoOut == [nodes |-> << >>, ways |-> << >>, rels |-> {}]

Init ==
  /\ osm \in Extracts /\ keepVertices \in BOOLEAN
  /\ pass = "relations" /\ found = NoFinds /\ out = NoOut /\ nextStub = -1 /\ todo = {}

Rel(id) == CHOOSE r \in osm.rels : r.id = id

ReadRelations ==
  /\ pass = "relations"
  /\ LET areas == {r \in osm.rels : Area(r.tags) /\ Outline(r) # << >>} IN
     found' = [found EXCEPT !.areas = areas,
                            !.areaWays = UNION {Range(Outline(r)) : r \in areas},
                            !.routes = {r \in osm.rels : Interesting(r.tags)}]
  /\ pass' = "children"
  /\ UNCHANGED <<osm, keepVertices, out, nextStub, todo>>

\* The members of interesting routes need not be interesting themselves.
ReadChildren ==
  /\ pass = "children"
  /\ LET needed == UNION {Range(MembersOf(r, "rel")) : r \in found.routes}
         here == {c \in needed : \E r \in osm.rels : r.id = c} IN
     found' = [found EXCEPT !.childWays = [c \in here |-> MembersOf(Rel(c), "way")]]
  /\ pass' = "ways"
  /\ UNCHANGED <<osm, keepVertices, out, nextStub, todo>>

\* Mutant of RouteWays: only the ways a route has itself.
RouteWaysOwn == UNION {Range(MembersOf(r, "way")) : r \in found.routes}

RouteWays ==
  UNION {Range(MembersOf(r, "way")) \cup
           UNION {Range(found.childWays[c]) :
                    c \in Range(MembersOf(r, "rel")) \cap DOMAIN found.childWays} : r \in found.routes}

Vertices(ways) == UNION {Range(osm.ways[w].refs) : w \in ways}

\* Mutant of NeededNodes: the outlines of areas are forgotten.
NeededNodesOfJobs(outlines, standalone, firstNode, jobs) ==
  Vertices(standalone \cup jobs) \cup Range(firstNode)

NeededNodes(outlines, standalone, firstNode, jobs) ==
  Vertices(DOMAIN outlines \cup standalone \cup jobs) \cup Range(firstNode)

ReadWays ==
  /\ pass = "ways"
  /\ LET outlines == [w \in found.areaWays \cap DOMAIN osm.ways |-> osm.ways[w].refs]
         standalone == {w \in DOMAIN osm.ways : Area(osm.ways[w].tags) /\ Len(osm.ways[w].refs) >= 3}
         firstNode == [w \in {v \in RouteWays \cap DOMAIN osm.ways : osm.ways[v].refs # << >>} |->
                         osm.ways[w].refs[1]]
         jobs == {w \in DOMAIN osm.ways : SearchWay(osm.ways[w]) /\ osm.ways[w].refs # << >>}
     IN  found' = [found EXCEPT !.outlines = outlines, !.standalone = standalone,
                                !.firstNode = firstNode, !.jobs = jobs,
                                !.needed = NeededNodes(outlines, standalone, firstNode, jobs)]
  /\ pass' = "nodes"
  /\ UNCHANGED <<osm, keepVertices, out, nextStub, todo>>

ReadNodes ==
  /\ pass = "nodes"
  /\ found' = [found EXCEPT
                 !.nodes = [n \in found.needed \cap DOMAIN osm.nodes |-> [at |-> osm.nodes[n].at]],
                 !.searchNodes = {n \in DOMAIN osm.nodes : Named(osm.nodes[n].tags)}]
  /\ pass' = "points"
  /\ UNCHANGED <<osm, keepVertices, out, nextStub, todo>>

-----------------------------------------------------------------------------
(* Output *)

\* f laid over g, and g with v at x.
Over(f, g) == [x \in DOMAIN f \cup DOMAIN g |-> IF x \in DOMAIN f THEN f[x] ELSE g[x]]
With(g, x, v) == [y \in DOMAIN g \cup {x} |-> IF y = x THEN v ELSE g[y]]

\* The nodes ns are kept, those that are there already as they are.
WithVertices(nodes, ns) ==
  Over(nodes, [n \in ns \cap DOMAIN found.nodes |-> [at |-> found.nodes[n].at, tags |-> << >>]])
WithStub(nodes, id, at) == With(nodes, id, [at |-> at, tags |-> << >>])

\* The vertices of outlines, then the named nodes, over them where they meet.
EmitNodes ==
  /\ pass = "points"
  /\ out' = [out EXCEPT !.nodes =
                Over([n \in found.searchNodes |-> osm.nodes[n]],
                     WithVertices(<< >>, Vertices(DOMAIN found.outlines \cup found.standalone)))]
  /\ pass' = "search" /\ todo' = found.jobs
  /\ UNCHANGED <<osm, keepVertices, found, nextStub>>

\* Mutant of KeptInFull: the ways of routes too.
KeptInFullRoutes == found.areaWays \cup found.standalone \cup DOMAIN found.firstNode

KeptInFull == found.areaWays \cup found.standalone
InFull(w) == w \in KeptInFull \/ keepVertices

\* A search way becomes one made-up node at the mean of its own, which is
\* rounded to the grid when the node is written; nothing reads it before.
Collapse(w, way, at) ==
  /\ out' = [out EXCEPT !.nodes = WithStub(@, nextStub, at),
                        !.ways = With(@, w, [refs |-> <<nextStub>>, tags |-> way.tags])]
  /\ nextStub' = nextStub - 1

EmitSearchWay(w) ==
  /\ pass = "search" /\ w \in todo
  /\ LET way == osm.ways[w] IN
     IF Known(way.refs, found.nodes) = << >> THEN UNCHANGED <<out, nextStub>>
     ELSE IF InFull(w)
     THEN /\ out' = [out EXCEPT !.nodes = WithVertices(@, Range(way.refs)), !.ways = With(@, w, way)]
          /\ UNCHANGED nextStub
     ELSE \E at \in OnGrid(Mean(way.refs, found.nodes)) : Collapse(w, way, at)
  /\ todo' = todo \ {w}
  /\ UNCHANGED <<osm, keepVertices, pass, found>>

\* Mutant of OutlineWay: also over a way that has been emitted.
OutlineWayAnew(w) == [refs |-> found.outlines[w], tags |-> << >>]

\* An outline keeps the tags it was searched by; a collapsed one is restored.
OutlineWay(w) ==
  IF w \notin DOMAIN out.ways THEN [refs |-> found.outlines[w], tags |-> << >>]
  ELSE IF Len(out.ways[w].refs) = 1 /\ out.ways[w].refs[1] < 0
  THEN [refs |-> found.outlines[w], tags |-> out.ways[w].tags]
  ELSE out.ways[w]

EmitOutlines ==
  /\ pass = "search" /\ todo = {}
  /\ out' = [out EXCEPT !.nodes = WithVertices(@, Vertices(DOMAIN found.outlines)),
                        !.ways = Over([w \in DOMAIN found.outlines |-> OutlineWay(w)], @)]
  /\ pass' = "areas"
  /\ UNCHANGED <<osm, keepVertices, found, nextStub, todo>>

\* The areas: ways that are one by themselves, and relations.
EmitAreas ==
  /\ pass = "areas"
  /\ LET tagsOf(w) == IF w \in DOMAIN out.ways /\ out.ways[w].tags # << >> THEN out.ways[w].tags
                      ELSE osm.ways[w].tags
         role(w) == [type |-> "way", id |-> w, role |-> "outer"] IN
     out' = [nodes |-> WithVertices(out.nodes, Vertices(found.standalone)),
             ways |-> Over([w \in found.standalone |->
                              [refs |-> osm.ways[w].refs, tags |-> tagsOf(w)]], out.ways),
             rels |-> out.rels \cup
                        {[id |-> r.id, members |-> [i \in DOMAIN Outline(r) |-> role(Outline(r)[i])],
                          tags |-> r.tags] : r \in found.areas}]
  /\ pass' = "routes" /\ todo' = {r \in found.routes : NamedRoute(r)}
  /\ UNCHANGED <<osm, keepVertices, found, nextStub>>

Numbers == 2

\* A route becomes a made-up way of one node, at the first node of its first
\* way.
EmitRoute(r) ==
  /\ pass = "routes" /\ r \in todo
  /\ LET first == FirstWay(MembersOf(r, "way"), MembersOf(r, "rel"), found.childWays)
                    \cap DOMAIN found.firstNode
         at == {found.nodes[n].at : n \in {found.firstNode[w] : w \in first} \cap DOMAIN found.nodes}
     IN  IF at = {} THEN UNCHANGED <<out, nextStub>>
         ELSE /\ out' = [nodes |-> WithStub(out.nodes, nextStub, CHOOSE x \in at : TRUE),
                         ways |-> With(out.ways, nextStub - 1, [refs |-> <<nextStub>>, tags |-> << >>]),
                         rels |-> out.rels \cup
                           {[id |-> r.id, members |-> <<[type |-> "way", id |-> nextStub - 1, role |-> ""]>>,
                              tags |-> r.tags]}]
              /\ nextStub' = nextStub - Numbers
  /\ todo' = todo \ {r}
  /\ UNCHANGED <<osm, keepVertices, pass, found>>

Write ==
  /\ pass = "routes" /\ todo = {}
  /\ pass' = "done"
  /\ UNCHANGED <<osm, keepVertices, found, out, nextStub, todo>>

Next ==
  \/ ReadRelations \/ ReadChildren \/ ReadWays \/ ReadNodes
  \/ EmitNodes \/ EmitOutlines \/ EmitAreas \/ Write
  \/ \E t \in todo : EmitSearchWay(t) \/ EmitRoute(t)

Spec == Init /\ [][Next]_placeVars

-----------------------------------------------------------------------------
(* What readers make of an extract *)

\* place_index_core_rows
RouteKind(tags) ==
  IF Pilgrim(tags) THEN <<"route", "pilgrimage">>
  ELSE IF OfficialRoute(tags, TRUE) THEN <<"hiking", Get(tags, "network")>>
  ELSE IF OfficialRoute(tags, FALSE) THEN <<"bicycle", Get(tags, "network")>>
  ELSE <<"route", "superroute">>
Row(id, tags) == [id |-> id, kind |-> Kind(tags), name |-> PlaceName(tags)]
CoreRows(x) ==
  {Row(n, x.nodes[n].tags) : n \in {m \in DOMAIN x.nodes : Named(x.nodes[m].tags)}}
    \cup {Row(w, x.ways[w].tags) : w \in {v \in DOMAIN x.ways : SearchWay(x.ways[v])}}
    \cup {[id |-> r.id, kind |-> RouteKind(r.tags),
           name |-> <<Get(r.tags, IF Has(r.tags, "name") THEN "name" ELSE "ref"),
                      Get(r.tags, "operator")>>] : r \in {s \in x.rels : NamedRoute(s)}}

\* The places the app's index finds and where it puts them: named nodes, named
\* ways at the mean of their nodes, a fraction, routes at the first node of the
\* first way.
Places(x) ==
  LET waysOf == [c \in {r.id : r \in x.rels} |->
                   MembersOf(CHOOSE r \in x.rels : r.id = c, "way")]
      first(r) == {x.ways[w].refs[1] :
                     w \in {v \in FirstWay(MembersOf(r, "way"), MembersOf(r, "rel"), waysOf)
                                  \cap DOMAIN x.ways : x.ways[v].refs # << >>}}
  IN  {<<"node", n, x.nodes[n].tags, x.nodes[n].at>> :
         n \in {m \in DOMAIN x.nodes : Named(x.nodes[m].tags)}}
    \cup {<<"way", w, x.ways[w].tags, Mean(x.ways[w].refs, x.nodes)>> :
         w \in {v \in DOMAIN x.ways :
                  SearchWay(x.ways[v]) /\ Known(x.ways[v].refs, x.nodes) # << >>}}
    \cup UNION {{<<"route", r.id, r.tags, x.nodes[n].at>> : n \in first(r) \cap DOMAIN x.nodes} :
         r \in {s \in x.rels : NamedRoute(s)}}

\* The areas the app shows as context: the outlines, vertex by vertex.
Shape(w, x) == IF w \notin DOMAIN x.ways THEN << >>
               ELSE [i \in DOMAIN x.ways[w].refs |->
                       LET n == x.ways[w].refs[i] IN
                       IF n \in DOMAIN x.nodes THEN <<x.nodes[n].at>> ELSE << >>]
Areas(x) ==
  {<<"way", w, x.ways[w].tags, Shape(w, x)>> :
     w \in {v \in DOMAIN x.ways : Area(x.ways[v].tags) /\ Len(x.ways[v].refs) >= 3}}
    \cup {<<"rel", r.id, r.tags, [i \in DOMAIN Outline(r) |-> Shape(Outline(r)[i], x)]>> :
     r \in {s \in x.rels : Area(s.tags) /\ Outline(s) # << >>}}

\* Nothing an object refers to is missing, and a route has a way, of its own or
\* of a child.
Whole(x) ==
  /\ \A w \in DOMAIN x.ways : x.ways[w].refs # << >> /\ Range(x.ways[w].refs) \subseteq DOMAIN x.nodes
  /\ \A r \in x.rels :
       /\ Range(MembersOf(r, "way")) \subseteq DOMAIN x.ways
       /\ NamedRoute(r) => \/ MembersOf(r, "way") # << >>
                           \/ \E c \in x.rels : /\ c.id \in Range(MembersOf(r, "rel"))
                                                /\ MembersOf(c, "way") # << >>

-----------------------------------------------------------------------------
(* Properties *)

Done == pass = "done"

\* The types.  Made-up numbers go down and none is given out twice: what is at
\* or below nextStub is not used yet.
PlaceTypeOK ==
  /\ pass \in {"relations", "children", "ways", "nodes", "points", "search", "areas", "routes", "done"}
  /\ nextStub < 0
  /\ \A n \in DOMAIN out.nodes : n > nextStub /\ out.nodes[n].at \in Int
  /\ \A w \in DOMAIN out.ways : w > nextStub

\* Every place the app finds in the extract it finds in the points, with the
\* same tags, and no other: nodes, routes and ways that keep their vertices at
\* the same position, and a way that is collapsed no further than half a step
\* of the grid from its mean (the rounding its comment admits).
SameSpot(p, q) ==
  \/ p = q
  \/ /\ <<p[1], p[2], p[3]>> = <<q[1], q[2], q[3]>>
     /\ p[1] = "way" /\ ~ InFull(p[2]) /\ q[4].of = 1 /\ Near(p[4], q[4].sum)
PlacesKept ==
  Done => /\ \A p \in Places(osm) : \E q \in Places(out) : SameSpot(p, q)
          /\ \A q \in Places(out) : \E p \in Places(osm) : SameSpot(p, q)

\* Reducing an extract that is whole loses no row of the place index and makes
\* none up (the claim of tests/points_fixture.rs).
RowsKept == Done /\ Whole(osm) => CoreRows(out) = CoreRows(osm)

\* Outlines of administrative areas come through with every vertex in place:
\* collapsing a way never touches geometry that is kept.
OutlinesKept == Done => Areas(out) = Areas(osm)

\* What is not an outline is a single point: the reduction is never undone for
\* a way another object refers to, and no vertex is left over.
OnlyPoints ==
  Done /\ ~ keepVertices =>
    LET outlines == {w \in DOMAIN out.ways : w \in DOMAIN osm.ways /\
                       (Area(osm.ways[w].tags) \/ \E r \in osm.rels : Area(r.tags) /\ w \in Range(Outline(r)))}
    IN  /\ \A w \in DOMAIN out.ways \ outlines : Len(out.ways[w].refs) = 1
        /\ \A n \in DOMAIN out.nodes :
             \/ Named(out.nodes[n].tags)
             \/ \E w \in outlines : n \in Range(out.ways[w].refs)
             \/ Cardinality({w \in DOMAIN out.ways : n \in Range(out.ways[w].refs)}) = 1

=============================================================================
