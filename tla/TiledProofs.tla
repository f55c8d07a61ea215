----------------------------- MODULE TiledProofs -----------------------------
(***************************************************************************)
(* What the tiled build keeps in memory and on disk, for any extract,      *)
(* number of workers, tiles, batch size and order of profiles: pass 1      *)
(* loses no way, no tile is built with a coordinate missing, the packs     *)
(* hold links of the extract only, and a plan across a seam finds the      *)
(* links that a plan over the extract has.                                 *)
(***************************************************************************)
EXTENDS TiledBuild, TLAPS

\* Everything but the contents of the packs.
StateOK ==
  /\ phase \in {"pass1", "pass2", "assign", "build", "done", "failed"}
  /\ blobs \subseteq DOMAIN x.refs
  /\ checks \subseteq Workers /\ spillErr \in BOOLEAN
  /\ spill \in [Workers -> SUBSET DOMAIN x.refs] /\ dest \subseteq DOMAIN x.refs
  /\ coords \subseteq x.here
  /\ prof \in DOMAIN Order
  /\ tileWays \in [Tiles -> SUBSET DOMAIN x.refs]
  /\ pending \subseteq Tiles /\ DOMAIN batch \subseteq Tiles

\* During pass 1 the files hold what was wanted of the blobs taken, or else
\* a worker has yet to find the error.
Spilled ==
  /\ phase = "pass1" /\ ~ spillErr => UNION Range(spill) = Wanted \ blobs
  /\ phase = "pass1" /\ spillErr => checks # {}
  /\ phase \notin {"pass1", "failed"} => dest = Wanted

\* The coordinates of all spilled ways.
Whole == NodesOf(dest) \cap x.here

\* Between profiles the coordinates are whole; while the last profile is
\* built, those of the tiles to come are there.
Located ==
  /\ phase = "assign" => coords = Whole
  /\ phase = "build" /\ prof # Len(Order) => coords = Whole
  /\ phase = "build" => \A t \in pending : NodesOf(tileWays[t]) \cap x.here \subseteq coords
  /\ phase = "build" => \A t \in Tiles : tileWays[t] \subseteq dest
  /\ \A t \in DOMAIN batch : batch[t] = NodesOf(tileWays[t]) \cap x.here
  /\ phase # "build" => DOMAIN batch = {}

BuildInv == StateOK /\ Spilled /\ Located

-----------------------------------------------------------------------------

\* More ways refer to more nodes.
LEMMA NodesMonotone ==
  ASSUME NEW ws, NEW vs, ws \subseteq vs
  PROVE  NodesOf(ws) \subseteq NodesOf(vs)
BY DEF NodesOf

LEMMA BuildInvInit == BuildInit => BuildInv
<1> SUFFICES ASSUME BuildInit PROVE BuildInv
  OBVIOUS
<1>1. StateOK
  <2>1. 1 \in DOMAIN Order
    BY TiledAssumption
  <2>2. DOMAIN batch = {}
    BY DEF BuildInit
  <2> QED BY <2>1, <2>2 DEF BuildInit, StateOK
<1>2. UNION Range(spill) = {}
  BY DEF BuildInit, Range
<1>3. Wanted \ blobs = {}
  BY DEF BuildInit, Wanted
<1>4. Spilled
  BY <1>2, <1>3 DEF BuildInit, Spilled
<1>5. Located
  BY DEF BuildInit, Located
<1> QED BY <1>1, <1>4, <1>5 DEF BuildInv

\* A step of a worker in pass 1.
LEMMA WorkerKeeps ==
  ASSUME BuildInv, NEW k \in Workers, WorkerStep(k)
  PROVE  BuildInv'
<1> USE DEF BuildInv, StateOK
<1>1. x' = x /\ Wanted' = Wanted
  BY DEF WorkerStep, Spill, SpillFails, Check, Wanted
<1>2. ASSUME NEW b \in blobs, Spill(k, b)
      PROVE  StateOK' /\ Spilled'
  <2>1. StateOK'
    BY <1>1, <1>2 DEF Spill
  <2>2. CASE spillErr
    BY <1>1, <1>2, <2>2 DEF Spill, Spilled
  <2>3. CASE ~ spillErr /\ b \notin Wanted
    BY <1>1, <1>2, <2>3 DEF Spill, Spilled
  <2>4. CASE ~ spillErr /\ b \in Wanted
    <3>1. UNION Range(spill') = (UNION Range(spill)) \cup {b}
      <4>1. spill' = [spill EXCEPT ![k] = @ \cup {b}]
        BY <1>2, <2>4 DEF Spill
      <4>2. DOMAIN spill = Workers /\ DOMAIN spill' = Workers
        BY <4>1
      <4>3. \A w \in Workers : spill'[w] = IF w = k THEN spill[w] \cup {b} ELSE spill[w]
        BY <4>1
      <4> HIDE DEF BuildInv, StateOK
      <4>4. UNION Range(spill') \subseteq (UNION Range(spill)) \cup {b}
        BY <4>2, <4>3 DEF Range
      <4>5. b \in UNION Range(spill')
        BY <4>2, <4>3 DEF Range
      <4>6. UNION Range(spill) \subseteq UNION Range(spill')
        BY <4>2, <4>3 DEF Range
      <4> QED BY <4>4, <4>5, <4>6
    <3>2. UNION Range(spill) = Wanted \ blobs
      BY <1>2, <2>4 DEF Spill, Spilled
    <3>3. (UNION Range(spill)) \cup {b} = Wanted \ blobs'
      BY <1>2, <2>4, <3>2 DEF Spill
    <3>4. phase' = "pass1" /\ spillErr' = FALSE
      BY <1>2, <2>4 DEF Spill
    <3> QED BY <1>1, <2>1, <3>1, <3>3, <3>4 DEF Spilled
  <2> QED BY <2>1, <2>2, <2>3, <2>4
<1>3. ASSUME NEW b \in blobs, SpillFails(k, b)
      PROVE  StateOK' /\ Spilled'
  BY <1>1, <1>3 DEF SpillFails, Spilled
<1>4. ASSUME phase = "pass1", Check(k)
      PROVE  StateOK' /\ Spilled'
  BY <1>1, <1>4 DEF Check, Spilled
<1>5. Located'
  <2>1. phase = "pass1" /\ phase' \in {"pass1", "failed"} /\ batch' = batch
    BY DEF WorkerStep, Spill, SpillFails, Check
  <2> QED BY <2>1 DEF Located
<1> QED BY <1>2, <1>3, <1>4, <1>5 DEF WorkerStep

LEMMA MergeKeeps ==
  ASSUME BuildInv, MergeSpills
  PROVE  BuildInv'
<1> USE DEF BuildInv, StateOK
<1>1. x' = x /\ Wanted' = Wanted
  BY DEF MergeSpills, Wanted
<1>2. dest' = Wanted
  BY DEF MergeSpills, Spilled
<1>3. StateOK'
  BY <1>1, <1>2 DEF MergeSpills, Wanted
<1> QED BY <1>1, <1>2, <1>3 DEF MergeSpills, Spilled, Located

LEMMA LoadKeeps ==
  ASSUME BuildInv, LoadCoords
  PROVE  BuildInv'
<1> USE DEF BuildInv, StateOK
<1>1. x' = x /\ Wanted' = Wanted /\ dest' = dest /\ Whole' = Whole
  BY DEF LoadCoords, Wanted, Whole, NodesOf
<1>2. coords' = Whole
  BY DEF LoadCoords, Whole
<1>3. StateOK' /\ Spilled'
  BY <1>1 DEF LoadCoords, Spilled
<1> QED BY <1>1, <1>2, <1>3 DEF LoadCoords, Located

LEMMA AssignKeeps ==
  ASSUME BuildInv, Assign
  PROVE  BuildInv'
<1> USE DEF BuildInv, StateOK
<1>1. x' = x /\ Wanted' = Wanted /\ Whole' = Whole
  BY DEF Assign, Wanted, Whole, NodesOf
<1>2. \A t \in Tiles : tileWays'[t] \subseteq dest
  BY DEF Assign
<1>3. StateOK' /\ Spilled'
  <2>1. tileWays' \in [Tiles -> SUBSET DOMAIN x.refs] /\ pending' \subseteq Tiles
    BY DEF Assign
  <2> QED BY <1>1, <2>1 DEF Assign, Spilled
<1>4. \A t \in Tiles : NodesOf(tileWays'[t]) \cap x.here \subseteq coords
  BY <1>2, NodesMonotone DEF Assign, Located, Whole
<1> QED BY <1>1, <1>2, <1>3, <1>4 DEF Assign, Located, NodesOf

LEMMA BatchKeeps ==
  ASSUME BuildInv, NEW ts \in SUBSET Tiles, StartBatch(ts)
  PROVE  BuildInv'
<1> USE DEF BuildInv, StateOK
<1>1. x' = x /\ Wanted' = Wanted /\ Whole' = Whole
  BY DEF StartBatch, Wanted, Whole, NodesOf
<1>2. StateOK' /\ Spilled'
  BY <1>1 DEF StartBatch, Spilled
<1>3. \A t \in ts : batch'[t] = NodesOf(tileWays[t]) \cap x.here
  BY DEF StartBatch, Located
<1> QED BY <1>1, <1>2, <1>3 DEF StartBatch, Located, NodesOf

LEMMA TileKeeps ==
  ASSUME BuildInv, NEW t \in Tiles, BuildTile(t)
  PROVE  BuildInv'
<1> USE DEF BuildInv, StateOK
<1>1. x' = x /\ Wanted' = Wanted /\ Whole' = Whole
  BY DEF BuildTile, Wanted, Whole, NodesOf
<1>2. StateOK' /\ Spilled'
  BY <1>1 DEF BuildTile, Spilled
<1>3. \A u \in DOMAIN batch' : u \in DOMAIN batch /\ batch'[u] = batch[u]
  BY DEF BuildTile
<1>4. \A u \in pending : NodesOf(tileWays[u]) \subseteq NodesOf(UNION {tileWays[v] : v \in pending})
  <2> SUFFICES ASSUME NEW u \in pending
               PROVE  NodesOf(tileWays[u]) \subseteq NodesOf(UNION {tileWays[v] : v \in pending})
    OBVIOUS
  <2>1. tileWays[u] \subseteq UNION {tileWays[v] : v \in pending}
    OBVIOUS
  <2> QED BY <2>1, NodesMonotone
<1>5. \A u \in pending : NodesOf(tileWays[u]) \cap x.here \subseteq coords'
  BY <1>4 DEF BuildTile, Located
<1>6. prof # Len(Order) => coords' = coords
  BY DEF BuildTile
<1> QED BY <1>1, <1>2, <1>3, <1>5, <1>6 DEF BuildTile, Located, NodesOf

LEMMA EndKeeps ==
  ASSUME BuildInv, EndProfile
  PROVE  BuildInv'
<1> USE DEF BuildInv, StateOK
<1>1. x' = x /\ Wanted' = Wanted /\ Whole' = Whole
  BY DEF EndProfile, Wanted, Whole, NodesOf
<1>2. prof' \in DOMAIN Order /\ (phase' = "assign" => prof # Len(Order))
  BY TiledAssumption DEF EndProfile
<1>3. DOMAIN batch = {}
  BY DEF EndProfile
<1>4. phase' \in {"failed", "done", "assign"}
  BY DEF EndProfile
<1>5. StateOK' /\ Spilled'
  BY <1>1, <1>2, <1>4 DEF EndProfile, Spilled
<1> QED BY <1>1, <1>2, <1>3, <1>4, <1>5 DEF EndProfile, Located

LEMMA BuildInvStep == BuildInv /\ [BuildNext]_buildVars => BuildInv'
<1> SUFFICES ASSUME BuildInv, [BuildNext]_buildVars
             PROVE  BuildInv'
  OBVIOUS
<1>1. CASE \E k \in Workers : WorkerStep(k)
  BY <1>1, WorkerKeeps
<1>2. CASE BuildStep
  BY <1>2, MergeKeeps, LoadKeeps, AssignKeeps, BatchKeeps, TileKeeps, EndKeeps DEF BuildStep
<1>3. CASE UNCHANGED buildVars
  BY <1>3 DEF buildVars, BuildInv, StateOK, Spilled, Located, Whole, Wanted, NodesOf
<1> QED BY <1>1, <1>2, <1>3 DEF BuildNext, Ended

\* The invariant holds throughout every build.
THEOREM BuildInvariant == BuildSpec => []BuildInv
<1>1. BuildInit => BuildInv
  BY BuildInvInit
<1>2. BuildInv /\ [BuildNext]_buildVars => BuildInv'
  BY BuildInvStep
<1> QED BY <1>1, <1>2, PTL DEF BuildSpec

\* However many workers share the error cell and in whatever order they look
\* at it, a build that gets past pass 1 has every wanted way
\* (bbox_build.rs:267).
THEOREM BuildLosesNoWay == BuildSpec => []NoWayLost
<1>1. BuildInv => NoWayLost
  BY DEF BuildInv, Spilled, NoWayLost
<1> QED BY <1>1, BuildInvariant, PTL

\* Whatever the tiles, the batches and the order of profiles, the coordinates
\* given back are of no tile still to be built (bbox_build.rs:998).
THEOREM BuildCoordsSuffice == BuildSpec => []CoordsSuffice
<1>1. BuildInv => CoordsSuffice
  BY DEF BuildInv, Located, CoordsSuffice
<1> QED BY <1>1, BuildInvariant, PTL

\* The build keeps every variable within its type.
THEOREM BuildTypeCorrect == BuildSpec => []BuildTypeOK
<1>1. BuildInv /\ x \in Extracts => BuildTypeOK
  BY DEF BuildInv, StateOK, BuildTypeOK
<1>2. BuildInit => x \in Extracts
  BY DEF BuildInit
<1>3. x \in Extracts /\ [BuildNext]_buildVars => (x \in Extracts)'
  <2> SUFFICES ASSUME x \in Extracts, [BuildNext]_buildVars
               PROVE  x' = x
    OBVIOUS
  <2>1. ASSUME NEW k \in Workers, WorkerStep(k)
        PROVE  x' = x
    BY <2>1 DEF WorkerStep, Spill, SpillFails, Check
  <2>2. CASE BuildStep
    BY <2>2 DEF BuildStep, MergeSpills, LoadCoords, Assign, StartBatch, BuildTile, EndProfile
  <2> QED BY <2>1, <2>2 DEF BuildNext, Ended, buildVars
<1> QED BY <1>1, <1>2, <1>3, BuildInvariant, PTL DEF BuildSpec
-----------------------------------------------------------------------------
\* Graphs over a part of an extract: what a tile, or a plan's box, makes of
\* some of the ways, and of all the coordinates these ways have.

NodesIn(y, ws) == UNION {WayNodes(y, w) : w \in ws}
PartOf(y, q, ws) == GraphOf(y, q, ws, NodesIn(y, ws) \cap y.here)

ShapeOf(y) ==
  /\ \A w \in DOMAIN y.refs : y.refs[w] \in Seq(Int)
  /\ \A n \in y.here : y.pos[n] \in Int

\* A stretch has the same length whatever other nodes are located.
LEMMA StretchSame ==
  ASSUME NEW y, NEW r \in Seq(Int), NEW cs, NEW ds, NEW i \in DOMAIN r, NEW j \in DOMAIN r,
         \A k \in DOMAIN r : r[k] \in cs <=> r[k] \in ds
  PROVE  Stretch(y, r, cs, i, j) = Stretch(y, r, ds, i, j)
<1>1. i..j \subseteq DOMAIN r
  OBVIOUS
<1>2. {k \in i..j : r[k] \in cs} = {k \in i..j : r[k] \in ds}
  BY <1>1
<1> QED BY <1>2 DEF Stretch

\* A link along a way, taken apart and put together.
LEMMA ForwardParts ==
  ASSUME NEW y, NEW w, NEW cs, NEW js, NEW stops, NEW e
  PROVE  e \in Forward(y, w, cs, js, stops) <=>
           \E i, j \in DOMAIN y.refs[w] :
             /\ y.refs[w][i] \in js /\ y.refs[w][j] \in js /\ i < j
             /\ \A k \in DOMAIN y.refs[w] : y.refs[w][k] \in stops => ~ (i < k /\ k < j)
             /\ e = Stretch(y, y.refs[w], cs, i, j)
             /\ e.src # e.tgt /\ e.len > 0
<1> DEFINE r == y.refs[w]
           cut == {i \in DOMAIN r : r[i] \in js}
           ends == {ij \in cut \X cut : /\ ij[1] < ij[2]
                                        /\ \A k \in DOMAIN r : r[k] \in stops => ~ (ij[1] < k /\ k < ij[2])}
<1>1. e \in Forward(y, w, cs, js, stops)
        <=> (\E ij \in ends : e = Stretch(y, r, cs, ij[1], ij[2])) /\ e.src # e.tgt /\ e.len > 0
  BY DEF Forward
<1>2. ASSUME NEW ij \in ends
      PROVE  /\ ij[1] \in DOMAIN r /\ ij[2] \in DOMAIN r /\ r[ij[1]] \in js /\ r[ij[2]] \in js
             /\ ij[1] < ij[2]
             /\ \A k \in DOMAIN r : r[k] \in stops => ~ (ij[1] < k /\ k < ij[2])
  OBVIOUS
<1>3. ASSUME NEW i \in DOMAIN r, NEW j \in DOMAIN r, r[i] \in js, r[j] \in js, i < j,
             \A k \in DOMAIN r : r[k] \in stops => ~ (i < k /\ k < j)
      PROVE  <<i, j>> \in ends
  BY <1>3
<1> HIDE DEF ends
<1>4. ASSUME e \in Forward(y, w, cs, js, stops)
      PROVE  \E i, j \in DOMAIN r :
               /\ r[i] \in js /\ r[j] \in js /\ i < j
               /\ \A k \in DOMAIN r : r[k] \in stops => ~ (i < k /\ k < j)
               /\ e = Stretch(y, r, cs, i, j)
               /\ e.src # e.tgt /\ e.len > 0
  <2>1. PICK ij \in ends : e = Stretch(y, r, cs, ij[1], ij[2])
    BY <1>1, <1>4
  <2> QED BY <1>1, <1>2, <1>4, <2>1
<1>5. ASSUME NEW i \in DOMAIN r, NEW j \in DOMAIN r, r[i] \in js, r[j] \in js, i < j,
             \A k \in DOMAIN r : r[k] \in stops => ~ (i < k /\ k < j),
             e = Stretch(y, r, cs, i, j), e.src # e.tgt, e.len > 0
      PROVE  e \in Forward(y, w, cs, js, stops)
  <2>1. <<i, j>> \in ends /\ <<i, j>>[1] = i /\ <<i, j>>[2] = j
    BY <1>3, <1>5
  <2> QED BY <1>1, <1>5, <2>1
<1> QED BY <1>4, <1>5

\* More ways make more junctions.
LEMMA JunctionsGrow ==
  ASSUME NEW y, NEW ws, NEW vs, ws \subseteq vs, NEW cs, NEW ds, cs \subseteq ds
  PROVE  Junctions(y, ws, cs) \subseteq Junctions(y, vs, ds)
<1>1. \A n : Uses(y, ws, n) \subseteq Uses(y, vs, n)
  BY DEF Uses
<1> QED BY <1>1 DEF Junctions

\* With all the ways through a node, it is as much of a junction as it was.
LEMMA JunctionsSame ==
  ASSUME NEW y, NEW ws, NEW vs, ws \subseteq vs, vs \subseteq DOMAIN y.refs, NEW cs, NEW n \in cs,
         \A v \in vs : n \in WayNodes(y, v) => v \in ws,
         NEW ds, n \in Junctions(y, vs, ds)
  PROVE  n \in Junctions(y, ws, cs)
<1>1. Uses(y, vs, n) \subseteq Uses(y, ws, n)
  <2> SUFFICES ASSUME NEW u \in Uses(y, vs, n) PROVE u \in Uses(y, ws, n)
    OBVIOUS
  <2>1. PICK v \in vs : u \in {v} \X DOMAIN y.refs[v] /\ y.refs[u[1]][u[2]] = n
    BY DEF Uses
  <2>2. n \in WayNodes(y, v)
    BY <2>1 DEF WayNodes, Range
  <2> QED BY <2>1, <2>2 DEF Uses
<1> QED BY <1>1 DEF Junctions

\* Every node of a way of the part that the file has is located for the part.
LEMMA PartLocates ==
  ASSUME NEW y, NEW ws, NEW w \in ws
  PROVE  \A k \in DOMAIN y.refs[w] :
           y.refs[w][k] \in NodesIn(y, ws) \cap y.here <=> y.refs[w][k] \in y.here
BY DEF NodesIn, WayNodes, Range

\* A link of the part is a passage of the whole: the part cuts its ways at
\* no node where the whole does not.
LEMMA PartIsSound ==
  ASSUME NEW y, ShapeOf(y), NEW q, NEW ws, ws \subseteq Admitted(y, q)
  PROVE  PartOf(y, q, ws).links \subseteq Passages(y, q)
<1> DEFINE all == Admitted(y, q)
           cs == NodesIn(y, ws) \cap y.here
           js == Junctions(y, ws, cs)
           jsAll == Junctions(y, all, y.here)
<1>1. js \subseteq jsAll
  BY JunctionsGrow
<1>2. ASSUME NEW w \in ws
      PROVE  Forward(y, w, cs, js, js) \subseteq Forward(y, w, y.here, jsAll, {})
  <2> SUFFICES ASSUME NEW e \in Forward(y, w, cs, js, js)
               PROVE  e \in Forward(y, w, y.here, jsAll, {})
    OBVIOUS
  <2>1. y.refs[w] \in Seq(Int)
    BY DEF ShapeOf, Admitted
  <2>2. \A k \in DOMAIN y.refs[w] : y.refs[w][k] \in cs <=> y.refs[w][k] \in y.here
    BY PartLocates
  <2> HIDE DEF cs, js, jsAll
  <2>3. PICK i \in DOMAIN y.refs[w], j \in DOMAIN y.refs[w] :
          /\ y.refs[w][i] \in js /\ y.refs[w][j] \in js /\ i < j
          /\ e = Stretch(y, y.refs[w], cs, i, j) /\ e.src # e.tgt /\ e.len > 0
    BY ForwardParts
  <2>4. e = Stretch(y, y.refs[w], y.here, i, j)
    BY <2>1, <2>2, <2>3, StretchSame
  <2> QED BY <1>1, <2>3, <2>4, ForwardParts
<1>3. ASSUME NEW w \in ws
      PROVE  Stretches(y, w, cs, js, js) \subseteq Stretches(y, w, y.here, jsAll, {})
  BY <1>2 DEF Stretches
<1>4. PartOf(y, q, ws).links = UNION {Stretches(y, w, cs, js, js) : w \in {v \in ws : ~ Linkless(q, y.kind[v])}}
  BY DEF PartOf, GraphOf
<1>5. Passages(y, q)
        = UNION {Stretches(y, w, y.here, jsAll, {}) : w \in {v \in all : ~ Linkless(q, y.kind[v])}}
  BY DEF Passages
<1> HIDE DEF cs, js, jsAll
<1> QED BY <1>3, <1>4, <1>5

\* A link of the whole is one of the part that holds every way through its
\* ends: the part cuts its way there, and nowhere between them.
LEMMA LinkInPart ==
  ASSUME NEW y, ShapeOf(y), NEW q, NEW ws, ws \subseteq Admitted(y, q),
         NEW e \in WholeGraph(y, q).links,
         \A v \in Admitted(y, q) : e.src \in WayNodes(y, v) \/ e.tgt \in WayNodes(y, v) => v \in ws
  PROVE  e \in PartOf(y, q, ws).links
<1> DEFINE all == Admitted(y, q)
           cs == NodesIn(y, ws) \cap y.here
           js == Junctions(y, ws, cs)
           jsAll == Junctions(y, all, y.here)
<1>1. js \subseteq jsAll
  BY JunctionsGrow
<1>2. PartOf(y, q, ws).links = UNION {Stretches(y, w, cs, js, js) : w \in {v \in ws : ~ Linkless(q, y.kind[v])}}
  BY DEF PartOf, GraphOf
<1>3. WholeGraph(y, q).links
        = UNION {Stretches(y, w, y.here, jsAll, jsAll) : w \in {v \in all : ~ Linkless(q, y.kind[v])}}
  BY DEF WholeGraph, GraphOf
<1>4. ASSUME NEW w \in all, NEW f \in Forward(y, w, y.here, jsAll, jsAll), {f.src, f.tgt} = {e.src, e.tgt}
      PROVE  w \in ws /\ f \in Forward(y, w, cs, js, js)
  <2>1. PICK i \in DOMAIN y.refs[w], j \in DOMAIN y.refs[w] :
          /\ y.refs[w][i] \in jsAll /\ y.refs[w][j] \in jsAll /\ i < j
          /\ \A k \in DOMAIN y.refs[w] : y.refs[w][k] \in jsAll => ~ (i < k /\ k < j)
          /\ f = Stretch(y, y.refs[w], y.here, i, j) /\ f.src # f.tgt /\ f.len > 0
    <3> HIDE DEF jsAll
    <3> QED BY ForwardParts
  <2>2. f.src = y.refs[w][i] /\ f.tgt = y.refs[w][j]
    BY <2>1 DEF Stretch
  <2>3. f.src \in WayNodes(y, w) /\ f.tgt \in WayNodes(y, w)
    BY <2>2 DEF WayNodes, Range
  <2>4. w \in ws
    BY <1>4, <2>3
  <2>5. f.src \in jsAll /\ f.tgt \in jsAll /\ jsAll \subseteq y.here
    BY <2>1, <2>2 DEF Junctions
  <2>6. f.src \in cs /\ f.tgt \in cs
    BY <2>3, <2>4, <2>5 DEF NodesIn
  <2>7. all \subseteq DOMAIN y.refs
    BY DEF Admitted
  <2>8. \A v \in all : f.src \in WayNodes(y, v) \/ f.tgt \in WayNodes(y, v) => v \in ws
    BY <1>4
  <2>9. f.src \in js /\ f.tgt \in js
    <3> HIDE DEF all, cs
    <3> QED BY <2>5, <2>6, <2>7, <2>8, JunctionsSame DEF all
  <2>10. y.refs[w] \in Seq(Int)
    BY <2>7 DEF ShapeOf
  <2>11. \A k \in DOMAIN y.refs[w] : y.refs[w][k] \in cs <=> y.refs[w][k] \in y.here
    BY <2>4, PartLocates
  <2> HIDE DEF all, cs, js, jsAll
  <2>12. f = Stretch(y, y.refs[w], cs, i, j)
    BY <2>1, <2>10, <2>11, StretchSame
  <2> QED BY <1>1, <2>1, <2>2, <2>4, <2>9, <2>12, ForwardParts
<1>5. PICK w \in all : ~ Linkless(q, y.kind[w]) /\ e \in Stretches(y, w, y.here, jsAll, jsAll)
  BY <1>3
<1>6. CASE e \in Forward(y, w, y.here, jsAll, jsAll)
  <2>1. w \in ws /\ e \in Stretches(y, w, cs, js, js)
    BY <1>4, <1>6 DEF Stretches
  <2> HIDE DEF cs, js
  <2> QED BY <1>2, <1>5, <2>1
<1>7. CASE w \notin y.oneway /\ \E f \in Forward(y, w, y.here, jsAll, jsAll) : e = Reversed(f)
  <2>1. PICK f \in Forward(y, w, y.here, jsAll, jsAll) : e = Reversed(f)
    BY <1>7
  <2>2. PICK i, j : f = [src |-> y.refs[w][i], tgt |-> y.refs[w][j],
                         len |-> Length(y, y.refs[w], {k \in i..j : y.refs[w][k] \in y.here})]
    <3>1. PICK i \in DOMAIN y.refs[w], j \in DOMAIN y.refs[w] : f = Stretch(y, y.refs[w], y.here, i, j)
      <4> HIDE DEF jsAll
      <4> QED BY ForwardParts
    <3> QED BY <3>1 DEF Stretch
  <2>3. e.src = f.tgt /\ e.tgt = f.src
    BY <2>1, <2>2 DEF Reversed
  <2>4. w \in ws /\ f \in Forward(y, w, cs, js, js)
    BY <1>4, <2>3
  <2>5. e \in Stretches(y, w, cs, js, js)
    BY <1>7, <2>1, <2>4 DEF Stretches
  <2> HIDE DEF cs, js
  <2> QED BY <1>2, <1>5, <2>4, <2>5
<1> QED BY <1>5, <1>6, <1>7 DEF Stretches

-----------------------------------------------------------------------------
\* What is on disk: the pack of a tile that is done has the links of all the
\* ways that touch the padded tile, and no pack has others than passages.

TileWays(q, t) ==
  {w \in Admitted(x, q) : \E n \in WayNodes(x, w) \cap x.here : In(x.pos[n], Widen(Cell[t], Pad))}
TileLinks(q, t) == PartOf(x, q, TileWays(q, t)).links

\* Tile t has had its turn in the k-th profile.
Done(k, t) ==
  \/ k < prof
  \/ k = prof /\ (phase = "done" \/ (phase = "build" /\ t \notin pending \cup DOMAIN batch))

Complete ==
  \A k \in DOMAIN Order, t \in Tiles : Done(k, t) => TileLinks(Order[k], t) \subseteq packs[Order[k]][t].links

PackInv ==
  /\ BuildInv
  /\ x \in Extracts
  /\ DOMAIN packs = Range(Order) /\ \A q \in Range(Order) : DOMAIN packs[q] = Tiles
  /\ phase = "build" => \A t \in Tiles : tileWays[t] = TileWays(p, t)
  /\ phase = "done" => prof = Len(Order)
  /\ PacksAreSound
  /\ Complete

LEMMA ShapeHolds == PackInv => ShapeOf(x) /\ p \in Range(Order) /\ prof \in 1..Len(Order)
BY ExtractAssumption, TiledAssumption DEF PackInv, ShapeOf, BuildInv, StateOK, p, Range

\* Pass 1 spills every way of every profile of the build.
LEMMA AdmittedSpilled ==
  ASSUME NEW q \in Range(Order)
  PROVE  Admitted(x, q) \subseteq Wanted
BY DEF Admitted, Wanted, Kept

LEMMA PackInvInit == BuildInit => PackInv
<1> SUFFICES ASSUME BuildInit PROVE PackInv
  OBVIOUS
<1>1. packs = [q \in Range(Order) |-> [t \in Tiles |-> NoGraph]] /\ phase = "pass1" /\ prof = 1 /\ x \in Extracts
  BY DEF BuildInit
<1>2. PacksAreSound
  BY <1>1 DEF PacksAreSound, NoGraph
<1>3. Complete
  BY <1>1, TiledAssumption DEF Complete, Done
<1> QED BY <1>1, <1>2, <1>3, BuildInvInit DEF PackInv

\* A step that builds no tile and ends no profile.
LEMMA PacksStay ==
  ASSUME PackInv, BuildInv', UNCHANGED <<x, prof, packs>>, phase' # "done",
         phase' = "build" => \A t \in Tiles : tileWays'[t] = TileWays(p, t),
         \A t \in Tiles : Done(prof, t)' => Done(prof, t) \/ TileWays(p, t) = {}
  PROVE  PackInv'
<1>1. p' = p /\ \A q, t : TileWays(q, t)' = TileWays(q, t) /\ TileLinks(q, t)' = TileLinks(q, t)
  BY DEF p, TileWays, TileLinks
<1>2. PacksAreSound'
  BY DEF PackInv, PacksAreSound
<1>3. Complete'
  <2> SUFFICES ASSUME NEW k \in DOMAIN Order, NEW t \in Tiles, Done(k, t)'
               PROVE  TileLinks(Order[k], t) \subseteq packs[Order[k]][t].links
    BY <1>1 DEF Complete
  <2>1. CASE k < prof
    BY <2>1 DEF PackInv, Complete, Done
  <2>2. CASE k = prof /\ Done(prof, t)
    BY <2>2 DEF PackInv, Complete
  <2>3. CASE k = prof /\ TileWays(p, t) = {}
    BY <2>3 DEF TileLinks, PartOf, GraphOf, p
  <2>4. k < prof \/ k = prof
    BY DEF Done
  <2> QED BY <2>1, <2>2, <2>3, <2>4
<1> QED BY <1>1, <1>2, <1>3 DEF PackInv

\* A way has a node with a known place in the padded tile, and the
\* coordinates in memory are of all the ways spilled.
LEMMA AssignPacks ==
  ASSUME PackInv, Assign
  PROVE  PackInv'
<1>1. BuildInv'
  BY AssignKeeps DEF PackInv
<1>2. dest = Wanted /\ coords = Whole
  BY DEF PackInv, BuildInv, Spilled, Located, Assign
<1>3. ASSUME NEW t \in Tiles
      PROVE  tileWays'[t] = TileWays(p, t)
  <2>1. tileWays'[t] = {w \in dest : Admits(p, x.kind[w]) /\ Touches(w, t)}
    BY DEF Assign
  <2>2. \A w \in dest : WayNodes(x, w) \cap coords = WayNodes(x, w) \cap x.here
    BY <1>2 DEF Whole, NodesOf
  <2>3. \A w \in dest : Touches(w, t)
          <=> \E n \in WayNodes(x, w) \cap x.here : In(x.pos[n], Widen(Cell[t], Pad))
    BY <2>2 DEF Touches
  <2>4. Admitted(x, p) = {w \in dest : Admits(p, x.kind[w])}
    <3>1. Admitted(x, p) \subseteq dest
      BY <1>2, ShapeHolds, AdmittedSpilled
    <3>2. dest \subseteq DOMAIN x.refs
      BY <1>2 DEF Wanted
    <3> QED BY <3>1, <3>2 DEF Admitted
  <2> QED BY <2>1, <2>3, <2>4 DEF TileWays
<1>4. ASSUME NEW t \in Tiles, Done(prof, t)'
      PROVE  TileWays(p, t) = {}
  <2>1. t \notin pending' /\ pending' = {u \in Tiles : tileWays'[u] # {}}
    BY <1>4, ShapeHolds DEF Assign, Done
  <2> QED BY <1>3, <2>1
<1> QED BY <1>1, <1>3, <1>4, PacksStay DEF Assign

LEMMA BatchPacks ==
  ASSUME PackInv, NEW ts \in SUBSET Tiles, StartBatch(ts)
  PROVE  PackInv'
<1>1. BuildInv'
  BY BatchKeeps DEF PackInv
<1>2. UNCHANGED <<x, prof, packs, tileWays>> /\ phase = "build" /\ phase' = "build"
      /\ pending' = pending \ ts /\ DOMAIN batch' = ts
  BY DEF StartBatch
<1>3. \A t \in Tiles : Done(prof, t)' => Done(prof, t)
  <2>1. DOMAIN batch = {}
    BY DEF StartBatch
  <2> QED BY <1>2, <2>1, ShapeHolds DEF Done
<1> QED BY <1>1, <1>2, <1>3, PacksStay DEF PackInv

\* The tile that is built has the coordinates of all its ways.
LEMMA TilePacks ==
  ASSUME PackInv, NEW t \in Tiles, BuildTile(t)
  PROVE  PackInv'
<1> DEFINE g == PartOf(x, p, TileWays(p, t))
<1>1. BuildInv'
  BY TileKeeps DEF PackInv
<1>2. UNCHANGED <<x, prof, phase, tileWays, pending>> /\ phase = "build" /\ t \in DOMAIN batch
      /\ DOMAIN batch' = DOMAIN batch \ {t} /\ p' = p
  BY DEF BuildTile, p
<1>3. GraphOf(x, p, tileWays[t], batch[t]) = g
  <2>1. tileWays[t] = TileWays(p, t) /\ batch[t] = NodesOf(tileWays[t]) \cap x.here
    BY <1>2 DEF PackInv, BuildInv, Located
  <2> QED BY <2>1 DEF PartOf, NodesIn, NodesOf
<1>4. packs' = IF g.links = {} THEN packs ELSE [packs EXCEPT ![p][t] = g]
  BY <1>3 DEF BuildTile
<1>5. g.links \subseteq Passages(x, p)
  <2>1. TileWays(p, t) \subseteq Admitted(x, p)
    BY DEF TileWays
  <2> QED BY <2>1, ShapeHolds, PartIsSound
<1> HIDE DEF g
<1>6. DOMAIN packs = Range(Order) /\ (\A q \in Range(Order) : DOMAIN packs[q] = Tiles) /\ p \in Range(Order)
  BY ShapeHolds DEF PackInv
<1>7. /\ DOMAIN packs' = Range(Order) /\ \A q \in Range(Order) : DOMAIN packs'[q] = Tiles
      /\ \A q \in Range(Order), u \in Tiles : q # p \/ u # t => packs'[q][u] = packs[q][u]
      /\ packs'[p][t] = (IF g.links = {} THEN packs[p][t] ELSE g)
  BY <1>4, <1>6
<1>8. PacksAreSound'
  <2> SUFFICES ASSUME NEW q \in Range(Order), NEW u \in Tiles
               PROVE  packs'[q][u].links \subseteq Passages(x, q)
    BY <1>2 DEF PacksAreSound
  <2>1. packs[q][u].links \subseteq Passages(x, q)
    BY DEF PackInv, PacksAreSound
  <2> QED BY <1>5, <1>7, <2>1
<1>9. Complete'
  <2> SUFFICES ASSUME NEW k \in DOMAIN Order, NEW u \in Tiles, Done(k, u)'
               PROVE  TileLinks(Order[k], u) \subseteq packs'[Order[k]][u].links
    BY <1>2 DEF Complete, TileLinks, TileWays
  <2>1. Order[k] \in Range(Order)
    BY DEF Range
  <2>2. CASE Order[k] = p /\ u = t
    BY <1>7, <2>2 DEF TileLinks, g
  <2>3. CASE Order[k] # p \/ u # t
    <3>1. Done(k, u)
      BY <1>2, <2>3 DEF Done, p
    <3>2. TileLinks(Order[k], u) \subseteq packs[Order[k]][u].links
      BY <3>1 DEF PackInv, Complete
    <3> QED BY <1>7, <2>1, <2>3, <3>2
  <2> QED BY <2>2, <2>3
<1> QED BY <1>1, <1>2, <1>7, <1>8, <1>9 DEF PackInv, TileWays

LEMMA EndPacks ==
  ASSUME PackInv, EndProfile
  PROVE  PackInv'
<1>1. BuildInv'
  BY EndKeeps DEF PackInv
<1>2. UNCHANGED <<x, packs, pending, batch>> /\ phase = "build" /\ pending = {} /\ DOMAIN batch = {}
  BY DEF EndProfile
<1>3. /\ phase' \in {"failed", "done", "assign"} /\ prof' \in {prof, prof + 1}
      /\ phase' = "done" => prof = Len(Order) /\ prof' = prof
  BY DEF EndProfile
<1>4. PacksAreSound'
  BY <1>2 DEF PackInv, PacksAreSound
<1>5. Complete'
  <2> SUFFICES ASSUME NEW k \in DOMAIN Order, NEW t \in Tiles, Done(k, t)'
               PROVE  TileLinks(Order[k], t) \subseteq packs[Order[k]][t].links
    BY <1>2 DEF Complete, TileLinks, TileWays
  <2>1. k \in Nat /\ prof \in Nat
    BY TiledAssumption, ShapeHolds
  <2>2. k < prof \/ k = prof
    BY <1>2, <1>3, <2>1 DEF Done
  <2>3. Done(k, t)
    BY <1>2, <2>2 DEF Done
  <2> QED BY <2>3 DEF PackInv, Complete
<1> QED BY <1>1, <1>2, <1>3, <1>4, <1>5 DEF PackInv

LEMMA PackInvStep == PackInv /\ [BuildNext]_buildVars => PackInv'
<1> SUFFICES ASSUME PackInv, [BuildNext]_buildVars
             PROVE  PackInv'
  OBVIOUS
<1>1. BuildInv'
  BY BuildInvStep DEF PackInv
<1>2. CASE UNCHANGED buildVars
  <2>1. \A t \in Tiles : Done(prof, t)' => Done(prof, t)
    BY <1>2 DEF Done, buildVars
  <2>2. CASE phase # "done"
    BY <1>1, <1>2, <2>1, <2>2, PacksStay DEF buildVars, PackInv
  <2>3. CASE phase = "done"
    BY <1>1, <1>2, <2>3 DEF PackInv, buildVars, PacksAreSound, Complete, Done, TileLinks, TileWays
  <2> QED BY <2>2, <2>3
<1>3. ASSUME NEW k \in Workers, WorkerStep(k)
      PROVE  PackInv'
  <2>1. UNCHANGED <<x, prof, packs>> /\ phase' \in {"pass1", "failed"} /\ phase = "pass1"
    BY <1>3 DEF WorkerStep, Spill, SpillFails, Check
  <2>2. \A t \in Tiles : Done(prof, t)' => Done(prof, t)
    BY <2>1, ShapeHolds DEF Done
  <2> QED BY <1>1, <2>1, <2>2, PacksStay
<1>4. CASE MergeSpills \/ LoadCoords
  <2>1. UNCHANGED <<x, prof, packs>> /\ phase' \in {"failed", "pass2", "assign"}
    BY <1>4 DEF MergeSpills, LoadCoords
  <2>2. \A t \in Tiles : Done(prof, t)' => Done(prof, t)
    BY <2>1, ShapeHolds DEF Done
  <2> QED BY <1>1, <2>1, <2>2, PacksStay
<1> QED BY <1>2, <1>3, <1>4, AssignPacks, BatchPacks, TilePacks, EndPacks DEF BuildNext, BuildStep, Ended

\* The packs grow complete and stay sound throughout every build.
THEOREM PackInvariant == BuildSpec => []PackInv
BY PackInvInit, PackInvStep, PTL DEF BuildSpec

\* No pack of any tile ever holds a link that the extract's ways do not have
\* (bbox_build.rs:1081).
THEOREM BuildPacksAreSound == BuildSpec => []PacksAreSound
<1>1. PackInv => PacksAreSound
  BY DEF PackInv
<1> QED BY <1>1, PackInvariant, PTL

-----------------------------------------------------------------------------
\* What a plan makes of the packs.

\* Every way through a node inside a tile, or no farther than the pad from
\* one, is a way of the tile.
LEMMA TileHolds ==
  ASSUME ShapeOf(x), NEW q, NEW t \in Tiles, NEW n \in x.here, NEW m \in x.here,
         In(x.pos[n], Cell[t]), Distance(x.pos[n], x.pos[m]) <= Pad,
         NEW v \in Admitted(x, q), n \in WayNodes(x, v) \/ m \in WayNodes(x, v)
  PROVE  v \in TileWays(q, t)
<1>1. x.pos[n] \in Int /\ x.pos[m] \in Int /\ Pad \in Int /\ Pad >= 0
  BY TiledAssumption DEF ShapeOf
<1>2. Cell[t][1] \in Int /\ Cell[t][2] \in Int
  BY GridAssumption
<1>3. In(x.pos[n], Widen(Cell[t], Pad)) /\ In(x.pos[m], Widen(Cell[t], Pad))
  <2> DEFINE a == x.pos[n]
             b == x.pos[m]
             lo == Cell[t][1]
             hi == Cell[t][2]
  <2>1. lo <= a /\ a <= hi /\ (IF a < b THEN b - a ELSE a - b) <= Pad
    BY DEF In, Distance
  <2> HIDE DEF a, b, lo, hi
  <2>2. a \in Int /\ b \in Int /\ lo \in Int /\ hi \in Int
    BY <1>1, <1>2 DEF a, b, lo, hi
  <2>3. lo - Pad <= a /\ a <= hi + Pad /\ lo - Pad <= b /\ b <= hi + Pad
    BY <1>1, <2>1, <2>2
  <2> QED BY <2>3 DEF In, Widen, a, b, lo, hi
<1> QED BY <1>3 DEF TileWays

\* The ends of a link of the whole graph are nodes the file has.
LEMMA LinkEnds ==
  ASSUME NEW y, NEW q, NEW e \in WholeGraph(y, q).links
  PROVE  e.src \in y.here /\ e.tgt \in y.here
<1> DEFINE js == Junctions(y, Admitted(y, q), y.here)
<1>1. PICK w : e \in Stretches(y, w, y.here, js, js)
  BY DEF WholeGraph, GraphOf
<1>2. ASSUME NEW f \in Forward(y, w, y.here, js, js)
      PROVE  \E i, j, l : f = [src |-> i, tgt |-> j, len |-> l] /\ i \in y.here /\ j \in y.here
  <2>1. js \subseteq y.here
    BY DEF Junctions
  <2> HIDE DEF js
  <2>2. PICK i \in DOMAIN y.refs[w], j \in DOMAIN y.refs[w] :
          y.refs[w][i] \in js /\ y.refs[w][j] \in js /\ f = Stretch(y, y.refs[w], y.here, i, j)
    BY ForwardParts
  <2> QED BY <2>1, <2>2 DEF Stretch
<1>3. CASE e \in Forward(y, w, y.here, js, js)
  BY <1>2, <1>3
<1>4. CASE \E f \in Forward(y, w, y.here, js, js) : e = Reversed(f)
  BY <1>2, <1>4 DEF Reversed
<1> HIDE DEF js
<1> QED BY <1>1, <1>3, <1>4 DEF Stretches

\* A plan over packs, and one over the extract, has every link of the whole
\* graph inside its box that is no longer than the pad, across the seams of
\* the tiles (load.rs:225): the tile its source lies in holds every way
\* through both its ends.
THEOREM BuildSeamsHold == BuildSpec => []SeamsHold
<1>1. ASSUME PackInv, phase = "done", NEW q \in Range(Order), NEW box \in Boxes, NEW e \in Near(q, box)
      PROVE  e \in Merged(q, box).links \cap PlanGraph(x, q, box).links
  <2>1. /\ e \in WholeGraph(x, q).links /\ In(x.pos[e.src], box) /\ In(x.pos[e.tgt], box)
        /\ Distance(x.pos[e.src], x.pos[e.tgt]) <= Pad
    BY <1>1 DEF Near
  <2>2. ShapeOf(x) /\ e.src \in x.here /\ e.tgt \in x.here
    BY <1>1, <2>1, ShapeHolds, LinkEnds
  <2>3. x.pos[e.src] \in Int /\ box[1] \in Int /\ box[2] \in Int
    BY <2>2, GridAssumption DEF ShapeOf
  <2>4. e \in Merged(q, box).links
    <3>1. PICK k \in DOMAIN Order : Order[k] = q
      BY DEF Range
    <3>2. x.pos[e.src] \in box[1]..box[2]
      BY <2>1, <2>3 DEF In
    <3>3. PICK t \in Tiles : In(x.pos[e.src], Cell[t])
      BY <3>2, GridAssumption
    <3>4. \A v \in Admitted(x, q) : e.src \in WayNodes(x, v) \/ e.tgt \in WayNodes(x, v) => v \in TileWays(q, t)
      BY <2>1, <2>2, <3>3, TileHolds
    <3>5. e \in TileLinks(q, t)
      <4>1. TileWays(q, t) \subseteq Admitted(x, q)
        BY DEF TileWays
      <4> QED BY <2>1, <2>2, <3>4, <4>1, LinkInPart DEF TileLinks
    <3>6. Done(k, t)
      <4>1. k \in 1..Len(Order) /\ prof = Len(Order) /\ Len(Order) \in Nat
        BY <1>1, TiledAssumption DEF PackInv
      <4> QED BY <1>1, <4>1 DEF Done
    <3>7. e \in packs[q][t].links
      BY <1>1, <3>1, <3>5, <3>6 DEF PackInv, Complete
    <3>8. packs[q][t] # NoGraph
      BY <3>7 DEF NoGraph
    <3>9. Meets(Cell[t], box)
      <4>1. Cell[t][1] \in Int /\ Cell[t][2] \in Int
        BY GridAssumption
      <4> QED BY <2>1, <2>3, <3>3, <4>1 DEF Meets, In
    <3>10. t \in Selected(q, box)
      BY <3>8, <3>9 DEF Selected
    <3>11. e \in Clip(packs[q][t], box).links
      BY <2>1, <3>7 DEF Clip
    <3> QED BY <3>10, <3>11 DEF Merged
  <2>5. e \in PlanGraph(x, q, box).links
    <3> DEFINE ws == {w \in Admitted(x, q) : \E n \in WayNodes(x, w) \cap x.here : In(x.pos[n], box)}
    <3>1. PlanGraph(x, q, box) = PartOf(x, q, ws)
      BY DEF PlanGraph, PartOf, NodesIn
    <3>2. \A v \in Admitted(x, q) : e.src \in WayNodes(x, v) \/ e.tgt \in WayNodes(x, v) => v \in ws
      BY <2>1, <2>2
    <3>3. ws \subseteq Admitted(x, q)
      OBVIOUS
    <3> HIDE DEF ws
    <3> QED BY <2>1, <2>2, <3>1, <3>2, <3>3, LinkInPart
  <2> QED BY <2>4, <2>5
<1>2. PackInv => SeamsHold
  BY <1>1 DEF SeamsHold
<1> QED BY <1>2, PackInvariant, PTL
=============================================================================
