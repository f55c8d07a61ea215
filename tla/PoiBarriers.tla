---------------------------- MODULE PoiBarriers ----------------------------
(***************************************************************************)
(* Points of interest and dangerous barriers.  A convert collects them from*)
(* the blobs of an extract in two parallel passes and writes one archive   *)
(* (poi_barrier_extract.rs, poi_barrier_pack.rs); a plan takes them from   *)
(* the archive, or scans the extract within its own bbox and along its     *)
(* route (poi/index.rs, corridor_band.rs, safety/).  From either it decides*)
(* which stops may be walked to and where a night may be spent.            *)
(*                                                                         *)
(* A position is <<lat, lon>> on a grid of degrees; a degree of latitude   *)
(* is LatUnit times as long as one of longitude, which is the unit.        *)
(* A scene fixes                                                           *)
(*   nodes[id] [at, tags], ways[id] [refs, tags]: the extract              *)
(*   nodeBlobs, wayBlobs: the elements by the block of the file            *)
(*   bbox, corridor: the plan's box <<lat, lon, lat, lon>> and its route   *)
(*   highways, own: motorway and trunk edges of the car graph, and those   *)
(*   the plan's own graph has                                              *)
(***************************************************************************)
EXTENDS Integers, SequencesExt, FiniteSetsExt

CONSTANTS
  Scenes,
  LatUnit,     \* a degree of latitude over one of longitude
  MinBuilding, \* SAFETY_MIN_BUILDING_DISTANCE_M
  MinGlacier,  \* SAFETY_MIN_GLACIER_DISTANCE_M
  Margin,      \* OVERNIGHT_BUILDING_CORRIDOR_MARGIN_M
  Step,        \* SAMPLE_STEP_M
  None

Position == Int \X Int

\* An extract is finite, its blobs hold what is in it and nothing else, and
\* its places are on the grid.
ASSUME SceneAssumption ==
  \A s \in Scenes :
    /\ IsFiniteSet(DOMAIN s.nodes) /\ IsFiniteSet(DOMAIN s.ways)
    /\ \A n \in DOMAIN s.nodes :
         LET t == s.nodes[n].tags
         IN  s.nodes[n].at \in Position /\ IsFiniteSet(DOMAIN t) /\ t \in [DOMAIN t -> Range(t)]
    /\ \A w \in DOMAIN s.ways : s.ways[w].refs \in Seq(Range(s.ways[w].refs))
    /\ UNION s.nodeBlobs = DOMAIN s.nodes /\ UNION s.wayBlobs = DOMAIN s.ways
    /\ s.links \cup s.highways \cup s.own \subseteq Position \X Position
    /\ IsFiniteSet(s.highways)
ASSUME LatUnitAssumption == LatUnit \in Nat \ {0}

VARIABLES
  scene,
  phase,   \* of the convert: "ways", "nodes", "packed" or "aborted"
  pending, \* blobs of the current pass that are not merged yet
  pass1,   \* what the blobs of the first pass have given
  pass2,   \* and of the second
  pack,    \* the archive
  plan     \* what the plan works with: [source, records, buildings, segs, glaciers]

poiVars == <<scene, phase, pending, pass1, pass2, pack, plan>>

-----------------------------------------------------------------------------
(* Tags *)

Is(t, k, vs) == k \in DOMAIN t /\ t[k] \in vs
Building(t) == "building" \in DOMAIN t /\ t["building"] # "no"

AllCategories ==
  <<"Water", "Cabin", "General", "NetworkHut", "Restroom", "OvernightFacility", "CraftBrewery",
    "TentSite", "Fishing", "RestArea", "Lodging">>

\* classify_tags: what a tag makes of its object.  A tag stands for those the
\* code treats alike, "alpine_hut" for the other hut, "hotel" for other lodging.
Kinds ==
  {<<"amenity", "drinking_water", {"Water"}>>, <<"natural", "spring", {"Water"}>>,
   <<"amenity", "toilets", {"Restroom"}>>, <<"amenity", "camping", {"TentSite"}>>,
   <<"amenity", "cafe", {"General"}>>, <<"amenity", "shelter", {"Cabin", "OvernightFacility"}>>,
   <<"tourism", "alpine_hut", {"Cabin", "OvernightFacility"}>>,
   <<"tourism", "camp_site", {"Cabin", "OvernightFacility", "TentSite"}>>,
   <<"tourism", "hostel", {"Cabin", "OvernightFacility", "Lodging"}>>,
   <<"tourism", "hotel", {"Lodging"}>>, <<"shop", "alcohol", {"CraftBrewery"}>>,
   <<"leisure", "fishing", {"Fishing"}>>, <<"highway", "services", {"RestArea"}>>}

\* Two take a second tag: "DNT" is the name of a network of huts.
Categorised(t, c) ==
  \/ \E row \in Kinds : Is(t, row[1], {row[2]}) /\ c \in row[3]
  \/ /\ c = "NetworkHut" /\ Is(t, "tourism", {"alpine_hut"})
     /\ Is(t, IF "operator" \in DOMAIN t THEN "operator" ELSE "network", {"DNT"})
  \/ c = "RestArea" /\ Is(t, "amenity", {"parking"}) /\ Is(t, "hgv", {"yes"})
Categories(t) == {c \in Range(AllCategories) : Categorised(t, c)}

Rail(t) == "railway" \in DOMAIN t
             /\ t["railway"] \notin {"abandoned", "disused", "razed", "dismantled"}

\* The convert's kinds and the scan's: the scan bars two more waterways.
KindOf(t, waterways) ==
  IF Rail(t) \/ Is(t, "waterway", waterways) \/ Is(t, "natural", {"cliff", "arete"}) THEN "line"
  ELSE IF Is(t, "natural", {"glacier"}) THEN "glacier" ELSE "none"
BarrierKind(t) == KindOf(t, {"river", "canal"})
ScanKind(t) == KindOf(t, {"river", "canal", "tidal_channel", "fairway"})

-----------------------------------------------------------------------------
(* Geometry *)

InBox(p, b) == b[1] <= p[1] /\ p[1] <= b[3] /\ b[2] <= p[2] /\ p[2] <= b[4]

\* p - q in units of length, and the squared distance.
Off(p, q) == <<LatUnit * (p[1] - q[1]), p[2] - q[2]>>
Dot(u, v) == u[1] * v[1] + u[2] * v[2]
Cross(u, v) == u[1] * v[2] - u[2] * v[1]
Apart2(p, q) == Dot(Off(p, q), Off(p, q))

\* Squared distance of p from the segment a b, as a fraction.
SegApart2(p, a, b) ==
  LET ab == Off(b, a) ap == Off(p, a) t == Dot(ap, ab)
  IN  IF t <= 0 THEN <<Apart2(p, a), 1>>
      ELSE IF t >= Dot(ab, ab) THEN <<Apart2(p, b), 1>>
      ELSE <<Cross(ap, ab) * Cross(ap, ab), Dot(ab, ab)>>
Within(d, r) == d[1] <= r * r * d[2]
Under(d, r) == d[1] < r * r * d[2]

\* Lists end to end: the first k of them.
Joined(lists) ==
  LET upTo[k \in 0..Len(lists)] == IF k = 0 THEN << >> ELSE upTo[k - 1] \o lists[k]
  IN  upTo

Resolved(refs, coords) ==
  Joined([i \in DOMAIN refs |-> IF refs[i] \in DOMAIN coords THEN <<coords[refs[i]]>> ELSE << >>])[Len(refs)]
Edges(line) == {<<line[i], line[i + 1]>> : i \in 1..Len(line) - 1}
Closed(ring) == IF ring[1] = Last(ring) THEN ring ELSE Append(ring, ring[1])

\* The ways with the nodes that are known.
Polylines(ways, coords) == {[kind |-> w.kind, line |-> Resolved(w.refs, coords)] : w \in ways}

\* barrier_geom: the segments of the lines, and glaciers as rings.
Geometry(lines) ==
  LET here == {l \in lines : Len(l.line) >= 2}
      rings == {Closed(l.line) : l \in {k \in here : k.kind = "glacier" /\ Len(k.line) >= 3}}
  IN  [segs |-> (UNION {Edges(l.line) : l \in here}) \cup (UNION {Edges(g) : g \in rings}),
       glaciers |-> rings]

\* The mean of the known nodes of a building, if one of them is in the box.
Mean(line, axis) == FoldLeft(LAMBDA s, p : s + p[axis], 0, line) \div Len(line)
Centroid(refs, coords, box) ==
  LET here == Resolved(refs, coords)
  IN  IF \E i \in DOMAIN here : InBox(here[i], box) THEN {<<Mean(here, 1), Mean(here, 2)>>} ELSE {}

\* segments_intersect
Meet(a, b, c, d) ==
  LET turn(p, q, r) == Cross(Off(q, p), Off(r, q))
      between(p, r, q, i) == (IF p[i] < q[i] THEN p[i] ELSE q[i]) <= r[i]
                               /\ r[i] <= (IF p[i] < q[i] THEN q[i] ELSE p[i])
      on(p, r, q) == turn(p, q, r) = 0 /\ between(p, r, q, 1) /\ between(p, r, q, 2)
  IN  \/ on(a, c, b) \/ on(a, d, b) \/ on(c, a, d) \/ on(c, b, d)
      \/ /\ (turn(a, b, c) > 0) # (turn(a, b, d) > 0)
         /\ (turn(c, d, a) > 0) # (turn(c, d, b) > 0)

\* point_in_ring: a ray to the east crosses the ring an odd number of times.
InRing(p, ring) ==
  LET crossed(i) ==
        LET u == ring[i] v == ring[IF i = 1 THEN Len(ring) ELSE i - 1]
            west == (p[2] - u[2]) * (v[1] - u[1]) - (v[2] - u[2]) * (p[1] - u[1])
        IN  /\ (u[1] > p[1]) # (v[1] > p[1])
            /\ IF v[1] > u[1] THEN west < 0 ELSE west > 0
  IN  Len(ring) >= 3 /\ Cardinality({i \in DOMAIN ring : crossed(i)}) % 2 = 1

-----------------------------------------------------------------------------
(* The convert: two passes over the blobs, merged under a mutex *)

At(n) == scene.nodes[n].at
NodeTags(n) == scene.nodes[n].tags
NoScan == [buildings |-> {}, barriers |-> {}, needed |-> {}]
NoNodes == [records |-> {}, overnight |-> {}, coords |-> << >>]

Init ==
  /\ scene \in Scenes
  /\ phase = "ways" /\ pending = scene.wayBlobs
  /\ pass1 = NoScan /\ pass2 = NoNodes /\ pack = None /\ plan = None

\* The ways of a blob that matter, and the nodes they need.
BuildingWays(ways) ==
  {scene.ways[w].refs : w \in {v \in ways : Building(scene.ways[v].tags) /\ Len(scene.ways[v].refs) >= 2}}
BarrierWays(ways, scan) ==
  LET kind(w) == IF scan THEN ScanKind(scene.ways[w].tags) ELSE BarrierKind(scene.ways[w].tags)
  IN  {[refs |-> scene.ways[w].refs, kind |-> kind(w)] :
         w \in {v \in ways : kind(v) # "none" /\ Len(scene.ways[v].refs) >= 2}}

\* Mutant of ScanWays: what barriers need is not merged.
ScanWaysForgets(b) ==
  /\ phase = "ways" /\ b \in pending
  /\ pass1' = [buildings |-> pass1.buildings \cup BuildingWays(b),
               barriers |-> pass1.barriers \cup BarrierWays(b, FALSE),
               needed |-> pass1.needed \cup UNION {Range(r) : r \in BuildingWays(b)}]
  /\ pending' = pending \ {b}
  /\ UNCHANGED <<scene, phase, pass2, pack, plan>>

ScanWays(b) ==
  /\ phase = "ways" /\ b \in pending
  /\ LET buildings == BuildingWays(b)
         barriers == BarrierWays(b, FALSE) IN
     pass1' = [buildings |-> pass1.buildings \cup buildings,
               barriers |-> pass1.barriers \cup barriers,
               needed |-> pass1.needed \cup (UNION {Range(r) : r \in buildings})
                            \cup (UNION {Range(w.refs) : w \in barriers})]
  /\ pending' = pending \ {b}
  /\ UNCHANGED <<scene, phase, pass2, pack, plan>>

\* The pass has to be over, and no cancel to be asked for meanwhile.
BeginNodes ==
  /\ phase = "ways" /\ pending = {}
  /\ phase' = "nodes" /\ pending' = scene.nodeBlobs
  /\ UNCHANGED <<scene, pass1, pass2, pack, plan>>

Abort ==
  /\ phase \in {"ways", "nodes"}
  /\ phase' = "aborted" /\ pending' = {}
  /\ UNCHANGED <<scene, pass1, pass2, pack, plan>>

Records(ns) ==
  {[id |-> n, at |-> At(n), categories |-> Categories(NodeTags(n)), tags |-> NodeTags(n)] :
     n \in {m \in ns : Categories(NodeTags(m)) # {}}}
BuildingNodes(ns, box) == {At(n) : n \in {m \in ns : Building(NodeTags(m)) /\ InBox(At(m), box)}}

ScanNodes(b) ==
  /\ phase = "nodes" /\ b \in pending
  /\ pass2' = [records |-> pass2.records \cup Records(b),
               overnight |-> pass2.overnight \cup BuildingNodes(b, scene.region),
               coords |-> [n \in (b \cap pass1.needed) \cup DOMAIN pass2.coords |->
                             IF n \in b THEN At(n) ELSE pass2.coords[n]]]
  /\ pending' = pending \ {b}
  /\ UNCHANGED <<scene, phase, pass1, pack, plan>>

\* FlatPoiBarrierPack: lists of lists lie end to end, with the offsets.
Flat(lists) ==
  [offsets |-> [i \in 1..Len(lists) + 1 |-> Len(Joined(lists)[i - 1])],
   items |-> Joined(lists)[Len(lists)]]

\* Mutant of Unflat: the offset after the last list is missing.
UnflatShort(f) ==
  [i \in 1..Len(f.offsets) - 2 |-> SubSeq(f.items, f.offsets[i] + 1, f.offsets[i + 1])]

Unflat(f) ==
  [i \in 1..Len(f.offsets) - 1 |-> SubSeq(f.items, f.offsets[i] + 1, f.offsets[i + 1])]

Bits == <<1, 2, 4, 8, 16, 32, 64, 128, 256, 512, 1024>>
Mask(cats) ==
  LET upTo[k \in 0..11] ==
        IF k = 0 THEN 0 ELSE upTo[k - 1] + IF AllCategories[k] \in cats THEN Bits[k] ELSE 0
  IN  upTo[11]
Unmask(m) == {AllCategories[i] : i \in {j \in 1..11 : (m \div Bits[j]) % 2 = 1}}

\* The tags of a record as a list of pairs, and back.
Pairs(t) == SetToSeq({<<k, t[k]>> : k \in DOMAIN t})
TagsOf(ps) == [k \in {t[1] : t \in Range(ps)} |-> (CHOOSE t \in Range(ps) : t[1] = k)[2]]

FlatPack(records, segs, glaciers, buildings) ==
  LET rs == SetToSeq(records) IN
  [ids |-> [i \in DOMAIN rs |-> rs[i].id], ats |-> [i \in DOMAIN rs |-> rs[i].at],
   masks |-> [i \in DOMAIN rs |-> Mask(rs[i].categories)],
   tags |-> Flat([i \in DOMAIN rs |-> Pairs(rs[i].tags)]),
   segs |-> SetToSeq(segs), glaciers |-> Flat(SetToSeq(glaciers)), buildings |-> SetToSeq(buildings)]

\* Centroids and geometry from what the passes gave, the highways of the car
\* graph, and the archive.
WritePack ==
  /\ phase = "nodes" /\ pending = {}
  /\ LET g == Geometry(Polylines(pass1.barriers, pass2.coords))
         centroids == UNION {Centroid(r, pass2.coords, scene.region) : r \in pass1.buildings}
     IN  pack' = FlatPack(pass2.records, g.segs \cup scene.highways, g.glaciers,
                          pass2.overnight \cup centroids)
  /\ phase' = "packed"
  /\ UNCHANGED <<scene, pending, pass1, pass2, plan>>

-----------------------------------------------------------------------------
(* The plan *)

\* to_poi_index and to_barrier_index
PlanFromPack ==
  /\ phase = "packed" /\ plan = None
  /\ LET tags == Unflat(pack.tags)
     IN  plan' = [source |-> "pack",
                  records |-> {[id |-> pack.ids[i], at |-> pack.ats[i],
                                categories |-> Unmask(pack.masks[i]), tags |-> TagsOf(tags[i])] :
                                 i \in DOMAIN pack.ids \cap DOMAIN tags},
                  buildings |-> Range(pack.buildings), segs |-> Range(pack.segs),
                  glaciers |-> Range(Unflat(pack.glaciers))]
  /\ UNCHANGED <<scene, phase, pending, pass1, pass2, pack>>

\* CorridorBand: samples along the route, and around it an envelope.
Samples(route) ==
  LET between(a, b) ==
        LET gap(i) == IF a[i] < b[i] THEN b[i] - a[i] ELSE a[i] - b[i]
            len == LatUnit * gap(1) + gap(2) \* a leg runs along an axis
        IN  [i \in 1..(len - 1) \div Step |->
               <<a[1] + (i * Step * (b[1] - a[1])) \div len, a[2] + (i * Step * (b[2] - a[2])) \div len>>]
  IN  FoldLeft(LAMBDA out, b : IF b = Last(out) THEN out ELSE Append(out \o between(Last(out), b), b),
               <<route[1]>>, Tail(route))
InEnvelope(p, line) ==
  LET lats == {s[1] : s \in Range(line)} lons == {s[2] : s \in Range(line)}
  IN  InBox(p, <<Min(lats) - Margin \div LatUnit, Min(lons) - Margin,
                 Max(lats) + Margin \div LatUnit, Max(lons) + Margin>>)

\* Mutant of InBand: it keeps what the night check is about.
InBandOfSamples(p, line) == \E s \in Range(line) : Apart2(p, s) <= MinBuilding * MinBuilding

\* Near the route: by the nearest sample, nearest in degrees, then by the
\* stretches around it.  Of several the tree returns any: here the worst.
InBand(p, line) ==
  LET degrees2(s) == (s[1] - p[1]) * (s[1] - p[1]) + (s[2] - p[2]) * (s[2] - p[2])
      least == Min({degrees2(s) : s \in Range(line)})
      first(s) == Min({i \in DOMAIN line : line[i] = s})
      nearest == {first(s) : s \in {t \in Range(line) : degrees2(t) = least}}
      around(i) == {k \in DOMAIN line : i - 2 <= k /\ k < i + 2 /\ k < Len(line)}
      sees(i) ==
        \/ Apart2(p, line[i]) <= Margin * Margin
        \/ /\ Apart2(p, line[i]) <= (Margin + Step) * (Margin + Step)
           /\ \E k \in around(i) : Within(SegApart2(p, line[k], line[k + 1]), Margin)
  IN  InEnvelope(p, line) /\ \A i \in nearest : sees(i)

\* DangerBarrierIndex::load_from_pbf_bbox, merged with the plan's own graph.
ScannedBarriers ==
  LET ways == BarrierWays(DOMAIN scene.ways, TRUE)
      needed == UNION {Range(w.refs) : w \in ways}
      lines == Polylines(ways, [n \in needed \cap DOMAIN scene.nodes |-> At(n)])
  IN  Geometry({l \in lines : \E i \in DOMAIN l.line : InBox(l.line[i], scene.bbox)})

\* load_near_corridor: nodes outside the envelope have no coordinates for the
\* ways that follow in the file.
BuildingsAlong ==
  LET line == Samples(scene.corridor)
      inside == {n \in DOMAIN scene.nodes : InBox(At(n), scene.bbox)}
      coords == [n \in {m \in inside : InEnvelope(At(m), line)} |-> At(n)]
      ways == {scene.ways[w].refs : w \in {v \in DOMAIN scene.ways : Building(scene.ways[v].tags)}}
  IN  {p \in BuildingNodes(inside, scene.bbox) \cup UNION {Centroid(r, coords, scene.bbox) : r \in ways} :
         InBand(p, line)}
\* load_from_pbf_filtered, when there is no route yet.
BuildingsInBox ==
  LET ways == BuildingWays(DOMAIN scene.ways)
      needed == UNION {Range(r) : r \in ways}
      coords == [n \in needed \cap DOMAIN scene.nodes |-> At(n)]
  IN  BuildingNodes(DOMAIN scene.nodes, scene.bbox) \cup UNION {Centroid(r, coords, scene.bbox) : r \in ways}

PlanFromScan ==
  /\ phase \in {"packed", "aborted"} /\ plan = None
  /\ LET g == ScannedBarriers IN
     plan' = [source |-> "scan",
              records |-> Records({n \in DOMAIN scene.nodes : InBox(At(n), scene.bbox)}),
              buildings |-> IF scene.corridor = << >> THEN BuildingsInBox ELSE BuildingsAlong,
              segs |-> g.segs \cup scene.own, glaciers |-> g.glaciers]
  /\ UNCHANGED <<scene, phase, pending, pass1, pass2, pack>>

Next ==
  \/ \E b \in pending : ScanWays(b) \/ ScanNodes(b)
  \/ BeginNodes \/ Abort \/ WritePack \/ PlanFromPack \/ PlanFromScan

Spec == Init /\ [][Next]_poiVars

\* blocks_access: the straight way from p to q.
Blocks(p, q) ==
  \/ \E r \in plan.glaciers : InRing(p, r) \/ InRing(q, r)
  \/ \E s \in plan.segs : Meet(p, q, s[1], s[2])

\* check_overnight_candidate
NightRefused(p, cats) ==
  \/ \E b \in plan.buildings : Apart2(p, b) < MinBuilding * MinBuilding
  \/ /\ {"OvernightFacility", "Cabin", "NetworkHut"} \cap cats = {}
     /\ \E r \in plan.glaciers :
          InRing(p, r) \/ \E e \in Edges(r) : Under(SegApart2(p, e[1], e[2]), MinGlacier)

-----------------------------------------------------------------------------
(* Properties *)

Served == plan # None
AllWays == DOMAIN scene.ways
AllAts == [n \in DOMAIN scene.nodes |-> At(n)]
Line(w) == Resolved(scene.ways[w].refs, AllAts)
InPlan(w) == \E i \in DOMAIN Line(w) : InBox(Line(w)[i], scene.bbox)

\* The types; the first pass only asks for nodes of ways of the extract.
PoiTypeOK ==
  /\ phase \in {"ways", "nodes", "packed", "aborted"}
  /\ pending \subseteq scene.wayBlobs \cup scene.nodeBlobs
  /\ pass1.needed \subseteq UNION {Range(scene.ways[w].refs) : w \in AllWays}
  /\ DOMAIN pass2.coords \subseteq pass1.needed \cap DOMAIN scene.nodes
  /\ phase # "packed" => pack = None
  /\ Served => plan.source \in {"pack", "scan"}

\* Whatever the order in which blobs are merged, and through the archive and
\* back, a plan gets the points of interest of the extract: all from the pack,
\* those in its box from a scan, with the categories their tags give.
RecordsSurvive ==
  Served => plan.records = Records({n \in DOMAIN scene.nodes :
                                      plan.source = "scan" => InBox(At(n), scene.bbox)})

\* Two segments share a point unless a line separates them: one across or along
\* either of them, or along an axis.
ShareAPoint(a, b, c, d) ==
  LET axes == {Off(b, a), Off(d, c), <<1, 0>>, <<0, 1>>}
      across == {<<- u[2], u[1]>> : u \in axes}
      o(p) == Off(p, <<0, 0>>)
      apart(u) == \/ \A p \in {a, b}, q \in {c, d} : Dot(u, o(p)) < Dot(u, o(q))
                  \/ \A p \in {a, b}, q \in {c, d} : Dot(u, o(p)) > Dot(u, o(q))
  IN  ~ \E u \in axes \cup across : apart(u)

\* No stop is offered across a railway, river, canal, cliff or glacier edge the
\* plan's box shows any node of, nor on a glacier, whichever source the plan
\* has; and none is refused that neither a barrier nor a highway lies before.
\* (A glacier that is tagged as a fairway too is a line to a scan.)
AccessIsBarred ==
  Served =>
    \A l \in scene.links :
      LET shown == {w \in AllWays : BarrierKind(scene.ways[w].tags) # "none" /\ InPlan(w)}
          any == {w \in AllWays : ScanKind(scene.ways[w].tags) # "none"}
          kind(w) == IF plan.source = "scan" THEN ScanKind(scene.ways[w].tags)
                                             ELSE BarrierKind(scene.ways[w].tags)
          ring(w) == kind(w) = "glacier" /\ Len(Line(w)) >= 3
          edges(w) == Edges(Line(w)) \cup IF ring(w) THEN Edges(Closed(Line(w))) ELSE {}
          crosses(w) == \E e \in edges(w) : ShareAPoint(l[1], l[2], e[1], e[2])
          on(w) == ring(w) /\ (InRing(l[1], Closed(Line(w))) \/ InRing(l[2], Closed(Line(w))))
      IN  /\ (\E w \in shown : crosses(w) \/ on(w)) => Blocks(l[1], l[2])
          /\ Blocks(l[1], l[2]) => \/ \E w \in any : crosses(w) \/ on(w)
                                   \/ \E h \in scene.highways \cup scene.own :
                                        ShareAPoint(l[1], l[2], h[1], h[2])

\* Where a night may be spent does not depend on the source of the plan: for a
\* place on the route, buildings left out for being far from it, or placed by
\* the part of them inside the envelope, never change the answer.
NightAgrees ==
  Served =>
    \A c \in scene.nights :
      LET p == c[1]
          buildings == BuildingNodes(DOMAIN scene.nodes, scene.region) \cup
                       UNION {Centroid(r, AllAts, scene.region) : r \in BuildingWays(AllWays)}
          glaciers == {Closed(Line(w)) : w \in {v \in AllWays : /\ BarrierKind(scene.ways[v].tags) = "glacier"
                                                                /\ Len(Line(v)) >= 3 /\ InPlan(v)}}
          tooNear(r) == \/ InRing(p, r)
                        \/ \E i \in 1..Len(r) - 1 : Under(SegApart2(p, r[i], r[i + 1]), MinGlacier)
      IN  NightRefused(p, c[2]) <=>
            \/ \E b \in buildings : Apart2(p, b) < MinBuilding * MinBuilding
            \/ /\ c[2] \cap {"Cabin", "NetworkHut", "OvernightFacility"} = {}
               /\ \E r \in glaciers : tooNear(r)

=============================================================================
