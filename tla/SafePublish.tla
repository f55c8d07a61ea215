----------------------------- MODULE SafePublish -----------------------------
(***************************************************************************)
(* publish_single_region_safe (scripts/lib/publish-safe.sh), called by the *)
(* workers of the planet and smoke runs: each publishes one region as a    *)
(* generation of its own, and finalizes it under the flock .publish.lock.  *)
(* The callers run it under set +e, so inside the lock a failing python    *)
(* step is skipped over: the links are swapped all the same and the        *)
(* subshell returns 0.  A return of 0 makes the caller record region_ok.   *)
(***************************************************************************)
EXTENDS PackTree

CONSTANTS
    Worker, \* publishing processes
    Free    \* not a worker: nobody holds the flock

ASSUME FreeAssumption == Free \notin Worker

VARIABLES
    spc,     \* spc[w]: control point of worker w
    sregion, \* sregion[w]: the set of regions w publishes: one, or none
    sgen,    \* sgen[w]: its generation id
    ssnap,   \* ssnap[w]: the catalogue w scanned and has not yet written
    lock,    \* holder of .publish.lock
    okd      \* regions recorded as region_ok

safeVars == <<spc, sregion, sgen, ssnap, lock, okd>>

SPoint == {"idle", "wait", "begin", "copy", "prune", "scan", "replace",
           "swap", "pointer", "reap"}
InPython == {"copy", "prune", "scan", "replace"}
InLock == InPython \cup {"begin", "swap", "pointer", "reap"}

NoScan == [r \in Region |-> NoGen]

SafeTypeOK ==
    /\ spc \in [Worker -> SPoint]
    /\ sregion \in [Worker -> SUBSET Region]
    /\ sgen \in [Worker -> GenOrNone]
    /\ ssnap \in [Worker -> [Region -> GenOrNone]]
    /\ lock \in Worker \cup {Free}
    /\ okd \subseteq Region

SafeInit ==
    /\ spc = [w \in Worker |-> "idle"]
    /\ sregion = [w \in Worker |-> {}]
    /\ sgen = [w \in Worker |-> NoGen]
    /\ ssnap = [w \in Worker |-> NoScan]
    /\ lock = Free
    /\ okd = {}

Goto(w, point) == spc' = [spc EXCEPT ![w] = point]

-----------------------------------------------------------------------------
\* The region is converted and valid, and no other worker has it: copy it to
\* generations/<gen>, marked .smoke_in_progress.
SStage(w, r) ==
    /\ spc[w] = "idle"
    /\ \A v \in Worker : r \notin sregion[v]
    /\ IssueGen
    /\ sregion' = [sregion EXCEPT ![w] = {r}]
    /\ sgen' = [sgen EXCEPT ![w] = issued + 1]
    /\ gens' = gens \cup {issued + 1}
    /\ busy' = busy \cup {issued + 1}
    /\ Goto(w, "wait")
    /\ UNCHANGED <<ssnap, lock, okd, packs, current, live, previous, pointer, faults>>

\* A mutant: the finalize is not under the flock.
SLockNever(w) ==
    /\ spc[w] = "wait"
    /\ lock' = w
    /\ Goto(w, "begin")
    /\ UNCHANGED <<sregion, sgen, ssnap, okd, treeVars>>

\* flock 9
SLock(w) ==
    /\ spc[w] = "wait"
    /\ lock = Free
    /\ lock' = w
    /\ Goto(w, "begin")
    /\ UNCHANGED <<sregion, sgen, ssnap, okd, treeVars>>

SBegin(w, r) ==
    /\ spc[w] = "begin" /\ r \in sregion[w]
    /\ SetDir(r, sgen[w], "partial")
    /\ Goto(w, "copy")
    /\ UNCHANGED <<sregion, sgen, ssnap, lock, okd, current, gens, busy, live,
                   previous, pointer, issued, faults>>

SSeal(w, r) ==
    /\ spc[w] = "copy" /\ r \in sregion[w] /\ sgen[w] \in gens
    /\ SealDir(r, sgen[w])
    /\ Goto(w, "prune")
    /\ UNCHANGED <<sregion, sgen, ssnap, lock, okd, current, gens, busy, live,
                   previous, pointer, issued>>

SPrune(w, r) ==
    /\ spc[w] = "prune" /\ r \in sregion[w]
    /\ PruneStale(r)
    /\ Goto(w, "scan")
    /\ UNCHANGED <<sregion, sgen, ssnap, lock, okd, current, gens, busy, live,
                   previous, pointer, issued, faults>>

SScan(w) ==
    /\ spc[w] = "scan"
    /\ ssnap' = [ssnap EXCEPT ![w] = Catalog]
    /\ Goto(w, "replace")
    /\ UNCHANGED <<sregion, sgen, lock, okd, treeVars>>

SReplace(w) ==
    /\ spc[w] = "replace"
    /\ current' = ssnap[w]
    /\ ssnap' = [ssnap EXCEPT ![w] = NoScan]
    /\ Goto(w, "swap")
    /\ UNCHANGED <<sregion, sgen, lock, okd, packs, gens, busy, live, previous,
                   pointer, issued, faults>>

\* The python step fails (no space, or its source is gone) and bash goes on.
SPythonFails(w) ==
    /\ spc[w] \in InPython
    /\ \/ Fault
       \/ spc[w] = "copy" /\ sgen[w] \notin gens /\ faults' = faults
    /\ ssnap' = [ssnap EXCEPT ![w] = NoScan]
    /\ Goto(w, "swap")
    /\ UNCHANGED <<sregion, sgen, lock, okd, packs, current, gens, busy, live,
                   previous, pointer, issued>>

SSwapLive(w) ==
    /\ spc[w] = "swap"
    /\ live' = sgen[w]
    /\ Goto(w, "pointer")
    /\ UNCHANGED <<sregion, sgen, ssnap, lock, okd, packs, current, gens, busy,
                   previous, pointer, issued, faults>>

\* CURRENT_GENERATION, then rm .smoke_in_progress.
SSetPointer(w) ==
    /\ spc[w] = "pointer"
    /\ pointer' = sgen[w]
    /\ busy' = busy \ {sgen[w]}
    /\ Goto(w, "reap")
    /\ UNCHANGED <<sregion, sgen, ssnap, lock, okd, packs, current, gens, live,
                   previous, issued, faults>>

\* A mutant: the in-progress marker is not looked at.
FinishedUnmarked(w) == {g \in gens : g # live /\ g # sgen[w]}

\* Generations that are not in progress, not live and not this one.
Finished(w) == {g \in gens : g \notin busy /\ g # live /\ g # sgen[w]}

\* Remove those, release the lock and return 0: the caller records region_ok.
SReap(w) ==
    /\ spc[w] = "reap"
    /\ gens' = gens \ Finished(w)
    /\ lock' = Free
    /\ okd' = okd \cup sregion[w]
    /\ sregion' = [sregion EXCEPT ![w] = {}]
    /\ sgen' = [sgen EXCEPT ![w] = NoGen]
    /\ Goto(w, "idle")
    /\ UNCHANGED <<ssnap, packs, current, busy, live, previous, pointer, issued, faults>>

\* The worker is killed; the kernel drops its flock, its markers stay.
SCrash(w) ==
    /\ spc[w] # "idle"
    /\ Fault
    /\ lock' = IF lock = w THEN Free ELSE lock
    /\ sregion' = [sregion EXCEPT ![w] = {}]
    /\ sgen' = [sgen EXCEPT ![w] = NoGen]
    /\ ssnap' = [ssnap EXCEPT ![w] = NoScan]
    /\ Goto(w, "idle")
    /\ \/ spc[w] # "prune" /\ packs' = packs
       \/ spc[w] = "prune" /\ \E r \in sregion[w] : PruneTorn(r)
    /\ UNCHANGED <<okd, current, gens, busy, live, previous, pointer, issued>>

SafeStep(w) ==
    \/ SLock(w)
    \/ \E r \in Region : SBegin(w, r) \/ SSeal(w, r) \/ SPrune(w, r)
    \/ SScan(w)
    \/ SReplace(w)
    \/ SPythonFails(w)
    \/ SSwapLive(w)
    \/ SSetPointer(w)
    \/ SReap(w)

SafeNext ==
    \E w \in Worker : (\E r \in Region : SStage(w, r)) \/ SafeStep(w) \/ SCrash(w)

safeOnlyVars == <<safeVars, treeVars>>

PlanetInit == TreeInit /\ SafeInit

SafeSpec == PlanetInit /\ [][SafeNext]_safeOnlyVars

(***************************************************************************)
(* A worker that has staged its region keeps running, and a waiting flock  *)
(* is granted: the lock is held only for a finite finalize, and a planet   *)
(* run publishes finitely many regions.  Nothing makes a worker take up a  *)
(* region, or crash.                                                       *)
(***************************************************************************)
SafeFairSpec == SafeSpec /\ \A w \in Worker : WF_safeOnlyVars(SafeStep(w))

-----------------------------------------------------------------------------
\* A region recorded as region_ok has a complete generation: its scratch is
\* deleted and a resumed run will not come back to it.
RegionOkIsPublished == \A r \in okd : Complete(r) # {}

\* The same while nothing has failed.
RegionOkUnlessFault == faults = 0 => RegionOkIsPublished

\* Every region a worker stages is in the end listed with that generation or a
\* newer one, unless something fails: nobody starves at the flock.
StagedGetsListed ==
    \A w \in Worker, r \in Region, g \in Gen :
        (r \in sregion[w] /\ sgen[w] = g) ~> (current[r] >= g \/ faults > 0)
=============================================================================
