------------------------------ MODULE WayGraph ------------------------------
(***************************************************************************)
(* How OSM ways become a routing graph (graph_from_raw_ways of             *)
(* bbox_build.rs): ways are cut at their junctions, a link is kept in each *)
(* direction it may be travelled, barrier nodes are marked.  An extract is *)
(* a record                                                                *)
(*   pos[n]     where node n lies; one axis stands for latitude, longitude *)
(*   refs[w]    the nodes of way w, in order                               *)
(*   kind[w]    what its tags make of it, see Kinds                        *)
(*   oneway     the ways tagged oneway=yes, or roundabouts                 *)
(*   here       the nodes the file holds: a clipped extract lacks some     *)
(*   barriers   the nodes that carry a barrier forbidden to everyone       *)
(* Tags, shapes and speeds ride along on a link and are left out.          *)
(***************************************************************************)
EXTENDS Integers, Sequences, FiniteSets, FiniteSetsExt, SequencesExt

\* "road": open to all; "footway": foot only; "minspeed": a road whose
\* mandated minimum speed bars pedestrians; "car ferry", "foot ferry": a
\* ferry with and without car admission; "other": waterways, buildings.
Kinds == {"road", "footway", "minspeed", "car ferry", "foot ferry", "other"}
Profiles == {"car", "foot"}

\* The ways a profile's tiles hold: highways of the profile's classes, and
\* ferries that admit it.
Admits(p, k) ==
  CASE k \in {"road", "minspeed", "car ferry"} -> TRUE
    [] k \in {"footway", "foot ferry"} -> p = "foot"
    [] OTHER -> FALSE

\* Pass 1 keeps every ferry, and the highways of any of the profiles.
Kept(ps, k) == k \in {"car ferry", "foot ferry"} \/ \E p \in ps : Admits(p, k)

\* An included way of which no link is made.
Linkless(p, k) == p = "foot" /\ k = "minspeed"

Distance(a, b) == IF a < b THEN b - a ELSE a - b
In(x, box) == box[1] <= x /\ x <= box[2]
Widen(box, pad) == <<box[1] - pad, box[2] + pad>>
Meets(a, b) == a[1] <= b[2] /\ b[1] <= a[2]

WayNodes(x, w) == Range(x.refs[w])

\* The places of ways at which node n is.
Uses(x, ws, n) ==
  {wi \in UNION {{w} \X DOMAIN x.refs[w] : w \in ws} : x.refs[wi[1]][wi[2]] = n}

\* A use in the middle of a way counts once, one at its end twice; a junction
\* counts more than once.
IsEnd(x, wi) == wi[2] \in {1, Len(x.refs[wi[1]])}
Junctions(x, ws, cs) ==
  {n \in cs : \E u \in Uses(x, ws, n) : IsEnd(x, u) \/ \E v \in Uses(x, ws, n) : v # u}

\* The length along the places at of the refs r, each to the next.
Length(x, r, at) ==
  MapThenSumSet(LAMBDA k : Distance(x.pos[r[k]], x.pos[r[Min({m \in at : m > k})]]), at \ {Max(at)})

\* The stretch of a way from its i-th to its j-th node, measured along the
\* located ones, as a link; two links with the same ends and length are one
\* to the tile merge.
Stretch(x, r, cs, i, j) ==
  [src |-> r[i], tgt |-> r[j], len |-> Length(x, r, {k \in i..j : r[k] \in cs})]

Reversed(e) == [e EXCEPT !.src = e.tgt, !.tgt = e.src]

\* The links along a way between nodes of js that pass over no node of stops.
Forward(x, w, cs, js, stops) ==
  LET r == x.refs[w]
      cut == {i \in DOMAIN r : r[i] \in js}
      ends == {ij \in cut \X cut : /\ ij[1] < ij[2]
                                   /\ \A k \in DOMAIN r : r[k] \in stops => ~ (ij[1] < k /\ k < ij[2])}
  IN  {e \in {Stretch(x, r, cs, ij[1], ij[2]) : ij \in ends} : e.src # e.tgt /\ e.len > 0}

\* Those, in the directions the way may be travelled.
Stretches(x, w, cs, js, stops) ==
  LET links == Forward(x, w, cs, js, stops) IN
  links \cup (IF w \in x.oneway THEN {} ELSE {Reversed(e) : e \in links})

\* The graph of profile p over the ways ws and the located nodes cs.
GraphOf(x, p, ws, cs) ==
  LET js == Junctions(x, ws, cs) IN
  [links |-> UNION {Stretches(x, w, cs, js, js) : w \in {v \in ws : ~ Linkless(p, x.kind[v])}},
   blocked |-> js \cap x.barriers]

NoGraph == [links |-> {}, blocked |-> {}]

Admitted(x, p) == {w \in DOMAIN x.refs : Admits(p, x.kind[w])}

\* A plan without packs reads the extract itself and keeps the ways with a
\* node in the plan's box (build_from_pbf_bbox).
PlanGraph(x, p, box) ==
  LET ws == {w \in Admitted(x, p) : \E n \in WayNodes(x, w) \cap x.here : In(x.pos[n], box)}
  IN  GraphOf(x, p, ws, (UNION {WayNodes(x, w) : w \in ws}) \cap x.here)

\* The graph of the whole extract, and the ways through it that pass over
\* junctions: what a link of any tile may stand for.
WholeGraph(x, p) == GraphOf(x, p, Admitted(x, p), x.here)
Passages(x, p) ==
  LET ws == Admitted(x, p)
      js == Junctions(x, ws, x.here)
  IN  UNION {Stretches(x, w, x.here, js, {}) : w \in {v \in ws : ~ Linkless(p, x.kind[v])}}
=============================================================================
