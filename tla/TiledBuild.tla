----------------------------- MODULE TiledBuild -----------------------------
(***************************************************************************)
(* The tiled build of a region's graph packs                               *)
(* (build_tiled_from_pbf_profiles in bbox_build.rs) and the load of them   *)
(* for a plan (indexed/load.rs).  Pass 1 spills the wanted ways to one     *)
(* file per Rayon worker; pass 2 loads their coordinates; then, for one    *)
(* profile after the other, ways are assigned to padded tiles and the      *)
(* tiles are built in batches, while the coordinates of finished tiles are *)
(* given back.  A plan merges the tiles its box meets.                     *)
(* Ferry boarding links, off by default, are left out.                     *)
(***************************************************************************)
EXTENDS WayGraph

CONSTANTS
  Extracts, \* the extracts a build may be given
  Order,    \* the profiles, in the order they are built
  Workers,  \* the Rayon pool
  Tiles,    \* the tiles
  Cell,     \* Cell[t]: the logical box of tile t
  Pad,      \* how far a tile reaches beyond its box (0.05 degrees)
  Batch,    \* how many tiles are in memory at once
  Boxes     \* boxes of plans, within the grid of tiles

ASSUME TiledAssumption ==
  /\ Order \in Seq(Profiles) /\ Order # << >>
  /\ Pad \in Nat /\ Batch \in Nat \ {0}

\* A node the file holds lies somewhere.
ASSUME ExtractAssumption ==
  \A y \in Extracts : /\ \A w \in DOMAIN y.refs : y.refs[w] \in Seq(Int)
                      /\ \A n \in y.here : y.pos[n] \in Int

\* The tiles divide the region's box (tile_grid), and leave no gap in it.
ASSUME GridAssumption ==
  /\ Cell \in [Tiles -> Int \X Int] /\ Boxes \subseteq Int \X Int
  /\ \A box \in Boxes : \A v \in box[1]..box[2] : \E t \in Tiles : In(v, Cell[t])

VARIABLES
  x,        \* the extract
  phase,    \* where the build is
  blobs,    \* blobs no worker has taken; a blob is one way here
  checks,   \* workers that have still to look at the error cell
  spillErr, \* the error cell the workers share
  spill,    \* spill[w]: the ways in worker w's file
  dest,     \* the ways in the common spill file
  coords,   \* the nodes whose coordinates are in memory
  prof,     \* index of the profile being built
  tileWays, \* tileWays[t]: the ways assigned to tile t
  pending,  \* tiles of the profile not yet in a batch
  batch,    \* batch[t]: the coordinates tile t was given, for the running batch
  packs     \* packs[p][t]: the pack on disk, NoGraph if there is none

buildVars == <<x, phase, blobs, checks, spillErr, spill, dest, coords, prof, tileWays, pending,
               batch, packs>>

p == Order[prof]
Wanted == {w \in DOMAIN x.refs : Kept(Range(Order), x.kind[w])}
NodesOf(ws) == UNION {WayNodes(x, w) : w \in ws}

BuildInit ==
  /\ x \in Extracts
  /\ phase = "pass1"
  /\ blobs = DOMAIN x.refs
  /\ checks = {} /\ spillErr = FALSE
  /\ spill = [w \in Workers |-> {}] /\ dest = {}
  /\ coords = {}
  /\ prof = 1
  /\ tileWays = [t \in Tiles |-> {}] /\ pending = {} /\ batch = << >>
  /\ packs = [q \in Range(Order) |-> [t \in Tiles |-> NoGraph]]

-----------------------------------------------------------------------------

\* Mutant of Spill: a way is spilled only if the first profile wants it.
SpillFirst(k, b) ==
  /\ phase = "pass1" /\ k \notin checks /\ b \in blobs
  /\ blobs' = blobs \ {b}
  /\ checks' = checks \cup {k}
  /\ spill' = IF spillErr \/ ~ Kept({Order[1]}, x.kind[b]) THEN spill
              ELSE [spill EXCEPT ![k] = @ \cup {b}]
  /\ UNCHANGED <<x, phase, spillErr, dest, coords, prof, tileWays, pending, batch, packs>>

\* A worker decodes a blob into its own file; once the error cell is set it
\* passes over what it is given, without looking at the cell again.
Spill(k, b) ==
  /\ phase = "pass1" /\ k \notin checks /\ b \in blobs
  /\ blobs' = blobs \ {b}
  /\ checks' = IF spillErr THEN checks ELSE checks \cup {k}
  /\ spill' = IF spillErr \/ b \notin Wanted THEN spill ELSE [spill EXCEPT ![k] = @ \cup {b}]
  /\ UNCHANGED <<x, phase, spillErr, dest, coords, prof, tileWays, pending, batch, packs>>

\* The write of a way fails.
SpillFails(k, b) ==
  /\ phase = "pass1" /\ k \notin checks /\ b \in blobs \cap Wanted /\ ~ spillErr
  /\ blobs' = blobs \ {b}
  /\ checks' = checks \cup {k}
  /\ spillErr' = TRUE
  /\ UNCHANGED <<x, phase, spill, dest, coords, prof, tileWays, pending, batch, packs>>

\* At the end of its blob a worker takes the error, whoever set it, and the
\* pass returns it.
Check(k) ==
  /\ k \in checks
  /\ checks' = checks \ {k}
  /\ spillErr' = FALSE
  /\ phase' = IF spillErr THEN "failed" ELSE phase
  /\ UNCHANGED <<x, blobs, spill, dest, coords, prof, tileWays, pending, batch, packs>>

\* The workers' files are appended to the common one.
MergeSpills ==
  /\ phase = "pass1" /\ blobs = {} /\ checks = {}
  /\ dest' = UNION Range(spill)
  /\ phase' = IF dest' = {} THEN "failed" ELSE "pass2"
  /\ UNCHANGED <<x, blobs, checks, spillErr, spill, coords, prof, tileWays, pending, batch, packs>>

\* The coordinates of the nodes the spilled ways refer to, where the file
\* has them.
LoadCoords ==
  /\ phase = "pass2"
  /\ coords' = NodesOf(dest) \cap x.here
  /\ phase' = "assign"
  /\ UNCHANGED <<x, blobs, checks, spillErr, spill, dest, prof, tileWays, pending, batch, packs>>

\* Mutant of Touches: only the ends of a way decide where it belongs.
TouchesEnds(w, t) ==
  \E n \in {Head(x.refs[w]), Last(x.refs[w])} \cap coords : In(x.pos[n], Widen(Cell[t], Pad))

\* A way belongs to a tile if any of its nodes is in the padded tile.
Touches(w, t) == \E n \in WayNodes(x, w) \cap coords : In(x.pos[n], Widen(Cell[t], Pad))

\* Mutant of Assign: every spilled way goes to every profile's tiles.
AssignAll ==
  /\ phase = "assign"
  /\ tileWays' = [t \in Tiles |-> {w \in dest : Touches(w, t)}]
  /\ pending' = {t \in Tiles : tileWays'[t] # {}}
  /\ phase' = "build"
  /\ UNCHANGED <<x, blobs, checks, spillErr, spill, dest, coords, prof, batch, packs>>

\* The profile's ways go to the tiles they touch.
Assign ==
  /\ phase = "assign"
  /\ tileWays' = [t \in Tiles |-> {w \in dest : Admits(p, x.kind[w]) /\ Touches(w, t)}]
  /\ pending' = {t \in Tiles : tileWays'[t] # {}}
  /\ phase' = "build"
  /\ UNCHANGED <<x, blobs, checks, spillErr, spill, dest, coords, prof, batch, packs>>

\* The next tiles read their ways back, and copy their coordinates.
StartBatch(ts) ==
  /\ phase = "build" /\ batch = << >>
  /\ ts \subseteq pending /\ ts # {}
  /\ Cardinality(ts) = Batch \/ (ts = pending /\ Cardinality(ts) < Batch)
  /\ pending' = pending \ ts
  /\ batch' = [t \in ts |-> NodesOf(tileWays[t]) \cap coords]
  /\ UNCHANGED <<x, phase, blobs, checks, spillErr, spill, dest, coords, prof, tileWays, packs>>

\* Mutant of BuildTile: the coordinates of the tiles built are given back,
\* those a tile to come shares with them too.
BuildTileFreeing(t) ==
  /\ phase = "build" /\ t \in DOMAIN batch
  /\ LET g == GraphOf(x, p, tileWays[t], batch[t]) IN
       packs' = IF g.links = {} THEN packs ELSE [packs EXCEPT ![p][t] = g]
  /\ batch' = [u \in DOMAIN batch \ {t} |-> batch[u]]
  /\ coords' = IF batch' # << >> \/ prof # Len(Order) THEN coords
               ELSE coords \ NodesOf(UNION {tileWays[u] : u \in Tiles \ pending})
  /\ UNCHANGED <<x, phase, blobs, checks, spillErr, spill, dest, prof, tileWays, pending>>

\* A worker builds a tile of the batch and writes its pack.
BuildTile(t) ==
  /\ phase = "build" /\ t \in DOMAIN batch
  /\ LET g == GraphOf(x, p, tileWays[t], batch[t]) IN
       packs' = IF g.links = {} THEN packs ELSE [packs EXCEPT ![p][t] = g]
  /\ batch' = [u \in DOMAIN batch \ {t} |-> batch[u]]
  /\ coords' = IF batch' # << >> \/ prof # Len(Order) THEN coords
               ELSE coords \cap NodesOf(UNION {tileWays[u] : u \in pending})
  /\ UNCHANGED <<x, phase, blobs, checks, spillErr, spill, dest, prof, tileWays, pending>>

\* Mutant of EndProfile: the same profile is built again.
EndProfileAgain ==
  /\ phase = "build" /\ pending = {} /\ batch = << >>
  /\ phase' = "assign"
  /\ UNCHANGED <<x, blobs, checks, spillErr, spill, dest, coords, prof, tileWays, pending, batch, packs>>

\* A profile of which no tile has a link fails the build.
EndProfile ==
  /\ phase = "build" /\ pending = {} /\ batch = << >>
  /\ LET empty == \A t \in Tiles : packs[p][t] = NoGraph
         last == prof = Len(Order) IN
       /\ phase' = IF empty THEN "failed" ELSE IF last THEN "done" ELSE "assign"
       /\ prof' = IF empty \/ last THEN prof ELSE prof + 1
  /\ UNCHANGED <<x, blobs, checks, spillErr, spill, dest, coords, tileWays, pending, batch, packs>>

Ended == phase \in {"done", "failed"} /\ UNCHANGED buildVars

WorkerStep(k) ==
  \/ \E b \in blobs : Spill(k, b) \/ SpillFails(k, b)
  \/ phase = "pass1" /\ Check(k)

BuildStep ==
  \/ MergeSpills \/ LoadCoords \/ Assign \/ EndProfile
  \/ \E ts \in SUBSET Tiles : StartBatch(ts)
  \/ \E t \in Tiles : BuildTile(t)

BuildNext == (\E k \in Workers : WorkerStep(k)) \/ BuildStep \/ Ended

\* The threads of a build that is not killed keep running.
BuildSpec ==
  /\ BuildInit /\ [][BuildNext]_buildVars
  /\ \A k \in Workers : WF_buildVars(WorkerStep(k))
  /\ WF_buildVars(BuildStep)

-----------------------------------------------------------------------------
\* What a plan makes of the packs.

\* The links with an end in the box; the barriers of the pack go with them.
Clip(g, box) ==
  LET ls == {e \in g.links : In(x.pos[e.src], box) \/ In(x.pos[e.tgt], box)} IN
  [links |-> ls, blocked |-> g.blocked \cap UNION {{e.src, e.tgt} : e \in ls}]

Selected(q, box) == {t \in Tiles : packs[q][t] # NoGraph /\ Meets(Cell[t], box)}

\* Links that agree in ends and length are one; the merged graph is made by
\* from_parts, which is given no barrier nodes.
Merged(q, box) ==
  LET gs == {Clip(packs[q][t], box) : t \in Selected(q, box)} IN
  [links |-> UNION {g.links : g \in gs}, blocked |-> {}]

-----------------------------------------------------------------------------

BuildTypeOK ==
  /\ x \in Extracts
  /\ phase \in {"pass1", "pass2", "assign", "build", "done", "failed"}
  /\ blobs \subseteq DOMAIN x.refs
  /\ checks \subseteq Workers /\ spillErr \in BOOLEAN
  /\ spill \in [Workers -> SUBSET DOMAIN x.refs] /\ dest \subseteq DOMAIN x.refs
  /\ coords \subseteq x.here
  /\ prof \in DOMAIN Order
  /\ tileWays \in [Tiles -> SUBSET DOMAIN x.refs]
  /\ pending \subseteq Tiles /\ DOMAIN batch \subseteq Tiles

\* A build that gets past pass 1 has spilled every way some profile wants,
\* whatever worker read it and whatever error was taken by whom
\* (bbox_build.rs:267, one spill file and one error cell for all workers).
NoWayLost == phase \notin {"pass1", "failed"} => dest = Wanted

\* A tile is built with the coordinates of all its ways' nodes, although
\* coordinates are given back while batches and profiles are still to come
\* (bbox_build.rs:998, "Keep shared coords intact until the last profile
\* finishes").
CoordsSuffice == \A t \in DOMAIN batch : batch[t] = NodesOf(tileWays[t]) \cap x.here

\* A pack holds no link that the extract's ways do not have: tiles cut ways
\* at fewer junctions than the whole does, never elsewhere, and never turn a
\* one-way around (bbox_build.rs:1081).
PacksAreSound ==
  \A q \in Range(Order), t \in Tiles : packs[q][t].links \subseteq Passages(x, q)

\* Links of the whole graph inside a box, with ends no farther apart than
\* the pad.
Near(q, box) ==
  {e \in WholeGraph(x, q).links :
     /\ In(x.pos[e.src], box) /\ In(x.pos[e.tgt], box)
     /\ Distance(x.pos[e.src], x.pos[e.tgt]) <= Pad}

\* A plan over packs has the links a plan over the extract has, across the
\* seams of the tiles, as long as they are no longer than the pad; both
\* have those of the whole graph (load.rs:225).
SeamsHold ==
  phase = "done" => \A q \in Range(Order), box \in Boxes :
    Near(q, box) \subseteq Merged(q, box).links \cap PlanGraph(x, q, box).links

\* The build ends, well or with an error.
BuildEnds == <>(phase \in {"done", "failed"})
=============================================================================
