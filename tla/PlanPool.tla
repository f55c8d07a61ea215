------------------------------ MODULE PlanPool ------------------------------
(***************************************************************************)
(* Plans and a background convert of the same region in one process (the   *)
(* app): what they share is the count of foreground plans, for which the   *)
(* convert sleeps (download/pbf_priority.rs), the ids by which plans are   *)
(* cancelled (download/plan_cancel.rs), the region lock, the mutex of      *)
(* bounded graph builds and the Rayon pool whose workers decode the blobs  *)
(* of whoever scans the extract.  The order of a plan's calls is that of   *)
(* its caller: loading packs first, and on a miss the region lock, the     *)
(* mutex and the scan, all of it as a foreground plan.                     *)
(***************************************************************************)
EXTENDS PackLoad, Sequences

CONSTANTS
  Workers, \* of the Rayon pool
  Blobs,   \* blobs of the extract
  Convert, \* the background convert
  Free     \* nobody

ASSUME PoolAssumption ==
  /\ Blobs \in Nat \ {0}
  /\ IsFiniteSet(Workers) /\ IsFiniteSet(Plans)
  /\ Free \notin Plans \cup {Convert} /\ Convert \notin Plans

VARIABLES
  at,         \* at[x]: where plan or convert x is
  foreground, \* FOREGROUND_PLANS
  current,    \* CURRENT_PLAN, Free for 0
  cancelled,  \* CANCELLED
  region,     \* the region's registry entry: Free, Convert or a plan
  bbox,       \* who holds BBOX_BUILD
  left,       \* left[x]: blobs of x's scan not yet pulled
  failed,     \* failed[x]: x's scan has met an error
  worker,     \* worker[w]: whose blob it has, and whether it is decoding it
  phase       \* the phase of the convert

sharedVars == <<foreground, current, cancelled, region, bbox>>
scanVars == <<left, failed, worker>>
poolVars == <<loadVars, at, sharedVars, scanVars, phase>>

Scanners == Plans \cup {Convert}
Idle == [of |-> Free, decoding |-> FALSE]

\* The phases of a convert in turn, with the archives each one writes.
Writes == <<Tiles, {"poi"}, {"wetland"}>>

PlanEnds == {"ended", "cancelled"}
Running(p) == at[p] \notin {"idle"} \cup PlanEnds

PoolTypeOK ==
  /\ LoadTypeOK
  /\ at \in [Scanners -> {"idle", "load", "region", "install", "bbox", "scan", "decoded", "search",
                          "yield", "write", "manifest", "leave", "sweep"} \cup PlanEnds]
  /\ foreground \in 0..Cardinality(Plans)
  /\ current \in Plans \cup {Free}
  /\ cancelled \subseteq Plans
  /\ region \in Scanners \cup {Free}
  /\ bbox \in Plans \cup {Free}
  /\ left \in [Scanners -> 0..Blobs]
  /\ failed \in [Scanners -> BOOLEAN]
  /\ worker \in [Workers -> [of : Scanners \cup {Free}, decoding : BOOLEAN]]
  /\ phase \in 1..Len(Writes)

Goto(x, to) == at' = [at EXCEPT ![x] = to]

-----------------------------------------------------------------------------
\* Plans.

\* A foreground plan begins: its id becomes the current one.
BeginPlan(p) ==
  /\ at[p] = "idle"
  /\ Goto(p, "load")
  /\ foreground' = foreground + 1
  /\ current' = p
  /\ UNCHANGED <<loadVars, cancelled, region, bbox, scanVars, phase>>

Load(p) ==
  /\ at[p] = "load"
  /\ ReadManifest(p) \/ Merge(p) \/ \E t \in Tiles : MapTile(p, t)
  /\ UNCHANGED <<at, sharedVars, scanVars, phase>>

Loaded(p) ==
  /\ at[p] = "load"
  /\ load[p] \in {"loaded", "missed"}
  /\ Goto(p, IF load[p] = "loaded" THEN "search" ELSE "region")
  /\ UNCHANGED <<loadVars, sharedVars, scanVars, phase>>

\* A plan's guard of the region removes whatever entry of its kind is there.
HasRegion(p) == load[p] = "missed" /\ at[p] \in {"bbox", "scan", "decoded", "search"}

\* Mutant of Leave: a cancelled plan keeps the mutex.
LeaveLocked(p, to) ==
  /\ Goto(p, to)
  /\ foreground' = IF foreground = 0 THEN 0 ELSE foreground - 1
  /\ current' = IF current = p THEN Free ELSE current
  /\ region' = IF HasRegion(p) /\ region \in Plans THEN Free ELSE region
  /\ bbox' = IF bbox = p /\ to = "ended" THEN Free ELSE bbox
  /\ UNCHANGED <<loadVars, cancelled, scanVars, phase>>

\* What a plan gives back, by the Drop of its guards, wherever it stops.
Leave(p, to) ==
  /\ Goto(p, to)
  /\ foreground' = IF foreground = 0 THEN 0 ELSE foreground - 1
  /\ current' = IF current = p THEN Free ELSE current
  /\ region' = IF HasRegion(p) /\ region \in Plans THEN Free ELSE region
  /\ bbox' = IF bbox = p THEN Free ELSE bbox
  /\ UNCHANGED <<loadVars, cancelled, scanVars, phase>>

\* Mutant of Polling: the wait for the region does not poll.
PollingLate == {"decoded", "search"}

\* The head of the loops that wait, the ends of scans and of the search.
Polling == {"region", "decoded", "search"}

AbortIfCancelled(p) ==
  /\ at[p] \in Polling
  /\ p \in cancelled
  /\ Leave(p, "cancelled")

\* acquire_plan_fallback: the check, and then the installation, of an entry.
CheckRegion(p) ==
  /\ at[p] = "region"
  /\ p \notin cancelled
  /\ region = Free
  /\ Goto(p, "install")
  /\ UNCHANGED <<loadVars, sharedVars, scanVars, phase>>

InstallRegion(x) ==
  /\ at[x] = "install"
  /\ region' = x
  /\ Goto(x, IF x = Convert THEN "yield" ELSE "bbox")
  /\ UNCHANGED <<loadVars, foreground, current, cancelled, bbox, scanVars, phase>>

StartScan(x) ==
  /\ left' = [left EXCEPT ![x] = Blobs]
  /\ failed' = [failed EXCEPT ![x] = FALSE]
  /\ Goto(x, "scan")

LockBbox(p) ==
  /\ at[p] = "bbox"
  /\ bbox = Free
  /\ bbox' = p
  /\ StartScan(p)
  /\ UNCHANGED <<loadVars, foreground, current, cancelled, region, worker, phase>>

\* The graph is built, and the mutex given back with it.
Built(p) ==
  /\ at[p] = "decoded"
  /\ p \in Plans \ cancelled
  /\ Goto(p, "search")
  /\ bbox' = IF bbox = p THEN Free ELSE bbox
  /\ UNCHANGED <<loadVars, foreground, current, cancelled, region, scanVars, phase>>

\* The search has come to its end and finds the plan not cancelled.
Answer(p) ==
  /\ at[p] = "search"
  /\ p \notin cancelled
  /\ Leave(p, "ended")

\* The host's cancel reaches the plan that began last.
RequestCancel ==
  /\ current # Free
  /\ cancelled' = cancelled \cup {current}
  /\ UNCHANGED <<loadVars, at, foreground, current, region, bbox, scanVars, phase>>

-----------------------------------------------------------------------------
\* Scans, on the pool.

Holders(x) == {w \in Workers : worker[w].of = x}
Background(x) == x = Convert

\* An idle worker takes the next blob of some scan.
Pull(w, x) ==
  /\ at[x] = "scan" /\ worker[w] = Idle
  /\ left[x] > 0 /\ ~ failed[x]
  /\ left' = [left EXCEPT ![x] = @ - 1]
  /\ worker' = [worker EXCEPT ![w] = [of |-> x, decoding |-> FALSE]]
  /\ UNCHANGED <<loadVars, at, sharedVars, failed, phase>>

\* The poll before and after a blob is decoded.
Abort(w) ==
  /\ worker[w].of \in cancelled
  /\ failed' = [failed EXCEPT ![worker[w].of] = TRUE]
  /\ worker' = [worker EXCEPT ![w] = Idle]
  /\ UNCHANGED <<loadVars, at, sharedVars, left, phase>>

\* A worker with a blob of the convert sleeps while a plan is in the
\* foreground.
Decode(w) ==
  /\ worker[w].of \notin {Free} \cup cancelled /\ ~ worker[w].decoding
  /\ Background(worker[w].of) => foreground = 0
  /\ worker' = [worker EXCEPT ![w].decoding = TRUE]
  /\ UNCHANGED <<loadVars, at, sharedVars, left, failed, phase>>

Decoded(w) ==
  /\ worker[w].decoding /\ worker[w].of \notin cancelled
  /\ worker' = [worker EXCEPT ![w] = Idle]
  /\ UNCHANGED <<loadVars, at, sharedVars, left, failed, phase>>

EndScan(x) ==
  /\ at[x] = "scan"
  /\ Holders(x) = {}
  /\ failed[x] \/ left[x] = 0
  /\ Goto(x, IF x = Convert THEN "write" ELSE "decoded")
  /\ UNCHANGED <<loadVars, sharedVars, scanVars, phase>>

WorkerStep(w) ==
  \/ \E x \in Scanners : Pull(w, x)
  \/ Abort(w) \/ Decode(w) \/ Decoded(w)

Asleep(w) == worker[w].of = Convert /\ ~ worker[w].decoding /\ foreground > 0
Saturated == \A w \in Workers : Asleep(w)

-----------------------------------------------------------------------------
\* The convert.

ConvertBegins ==
  /\ at[Convert] = "idle"
  /\ ~ Ready
  /\ Goto(Convert, "sweep")
  /\ UNCHANGED <<loadVars, sharedVars, scanVars, phase>>

Sweep ==
  /\ at[Convert] = "sweep"
  /\ Goto(Convert, "region")
  /\ SweepTiles
  /\ UNCHANGED <<sharedVars, scanVars, phase>>

\* try_acquire_convert waits for a plan to give the region up.
ConvertAcquires ==
  /\ at[Convert] = "region"
  /\ region = Free
  /\ Goto(Convert, "install")
  /\ UNCHANGED <<loadVars, sharedVars, scanVars, phase>>

\* yield_if_foreground_plan at the head of every phase.
ConvertYields ==
  /\ at[Convert] = "yield"
  /\ foreground = 0
  /\ StartScan(Convert)
  /\ UNCHANGED <<loadVars, sharedVars, worker, phase>>

ConvertWrites(a) ==
  /\ at[Convert] = "write"
  /\ a \in Writes[phase] /\ files[a] # Current
  /\ WriteArchive(a)
  /\ UNCHANGED <<at, sharedVars, scanVars, phase>>

NextPhase ==
  /\ at[Convert] = "write"
  /\ \A a \in Writes[phase] : files[a] = Current
  /\ IF phase < Len(Writes) THEN phase' = phase + 1 /\ Goto(Convert, "yield")
                            ELSE phase' = 1 /\ Goto(Convert, "manifest")
  /\ UNCHANGED <<loadVars, sharedVars, scanVars>>

ConvertSaves ==
  /\ at[Convert] = "manifest"
  /\ Goto(Convert, "leave")
  /\ SaveManifest
  /\ UNCHANGED <<sharedVars, scanVars, phase>>

\* Mutant of ConvertLeaves: the entry stays.
ConvertKeeps ==
  /\ at[Convert] = "leave"
  /\ Goto(Convert, "idle")
  /\ UNCHANGED <<loadVars, sharedVars, scanVars, phase>>

ConvertLeaves ==
  /\ at[Convert] = "leave"
  /\ Goto(Convert, "idle")
  /\ region' = IF region = Convert THEN Free ELSE region
  /\ UNCHANGED <<loadVars, foreground, current, cancelled, bbox, scanVars, phase>>

ConvertStep ==
  \/ Sweep \/ ConvertAcquires \/ InstallRegion(Convert) \/ ConvertYields
  \/ EndScan(Convert) \/ (\E a \in Archives : ConvertWrites(a)) \/ NextPhase
  \/ ConvertSaves \/ ConvertLeaves

-----------------------------------------------------------------------------

\* A download replaces the extract between two converts.
Download ==
  /\ at[Convert] = "idle"
  /\ NewExtract
  /\ UNCHANGED <<at, sharedVars, scanVars, phase>>

\* The process dies; what starts next may be a newer version of it.
Restart ==
  /\ format < MaxFormat
  /\ format' = format + 1
  /\ at' = [x \in Scanners |-> IF x \in Plans /\ Running(x) THEN "ended"
                               ELSE IF x = Convert THEN "idle" ELSE at[x]]
  /\ load' = [p \in Plans |-> IF Running(p) THEN "missed" ELSE load[p]]
  /\ foreground' = 0 /\ current' = Free /\ region' = Free /\ bbox' = Free
  /\ left' = [x \in Scanners |-> 0]
  /\ failed' = [x \in Scanners |-> FALSE]
  /\ worker' = [w \in Workers |-> Idle]
  /\ phase' = 1
  /\ UNCHANGED <<files, manifest, pbf, got, stirred, cancelled>>

PoolInit ==
  /\ files = [a \in Archives |-> None] /\ manifest = None
  /\ pbf = 1 /\ format = 1
  /\ load = [p \in Plans |-> "no"] /\ got = [p \in Plans |-> {}] /\ stirred = {}
  /\ at = [x \in Scanners |-> "idle"]
  /\ foreground = 0 /\ current = Free /\ cancelled = {} /\ region = Free /\ bbox = Free
  /\ left = [x \in Scanners |-> 0]
  /\ failed = [x \in Scanners |-> FALSE]
  /\ worker = [w \in Workers |-> Idle]
  /\ phase = 1

PlanStep(p) ==
  \/ Load(p) \/ Loaded(p) \/ AbortIfCancelled(p) \/ CheckRegion(p) \/ InstallRegion(p)
  \/ LockBbox(p) \/ EndScan(p) \/ Built(p) \/ Answer(p)

PoolNext ==
  \/ \E p \in Plans : BeginPlan(p) \/ PlanStep(p)
  \/ \E w \in Workers : WorkerStep(w)
  \/ ConvertBegins \/ ConvertStep \/ Download \/ Restart \/ RequestCancel

PoolSpec == PoolInit /\ [][PoolNext]_poolVars

\* Threads run: a plan, the convert and every worker that can take a step
\* takes one.  Nobody has to begin a plan, to cancel one or to download.
PoolFairSpec ==
  /\ PoolSpec
  /\ \A p \in Plans : WF_poolVars(PlanStep(p))
  /\ \A w \in Workers : WF_poolVars(WorkerStep(w))
  /\ WF_poolVars(ConvertStep)

-----------------------------------------------------------------------------

\* Whatever a plan waits for and wherever it is cancelled, afterwards no lock,
\* no blob on a worker and no foreground count is left of it, so that the
\* convert and the next plan go on (pbf_priority.rs:29-61, region_lock.rs:374).
EndedLeavesNothing ==
  /\ foreground = Cardinality({p \in Plans : Running(p)})
  /\ \A p \in Plans : ~ Running(p) => bbox # p /\ region # p /\ current # p /\ Holders(p) = {}

\* A plan that was cancelled comes back, waiting for a lock or scanning
\* (plan_cancel.rs:3-6), unless the convert's blobs sleep on all workers.
CancelledPlanEnds ==
  \A p \in Plans : p \in cancelled ~> ~ Running(p) \/ Saturated

\* Once the last plan is gone, a convert that has begun finishes
\* (pbf_priority.rs:1, "background convert ... yield while").
ConvertFinishes ==
  (<>[](foreground = 0)) => []<>(at[Convert] = "idle")

\* A plan that had to fall back gets the region and comes to an end
\* (region_lock.rs:464, "wait until convert (or another plan) releases, then
\* take").
PlanIsServed ==
  \A p \in Plans : at[p] = "region" ~> ~ Running(p)

=============================================================================
