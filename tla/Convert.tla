------------------------------ MODULE Convert ------------------------------
(***************************************************************************)
(* The conversion of one region's extract into its pack directory          *)
(* (convert_region_packs in indexed/convert.rs, run by convert_one of      *)
(* convert-region.sh): a checkpoint on disk lets a killed convert resume,  *)
(* the region lock keeps converts and plans apart, and the wrapper script  *)
(* removes the directory, file by file, when the converter fails.  Every   *)
(* convert here is a process of its own, as navi_indexed_convert is; plans *)
(* are the other users of the lock.  Archives carry the version of the PBF *)
(* they were built from; their preamble does not, so presence is all that  *)
(* is tested.  The wetland tiles of a region are one archive.              *)
(***************************************************************************)
EXTENDS RegionLock

CONSTANTS
  Tiles,   \* the graph tiles of the region, one set for each profile
  Turn,    \* the place of a tile's profile in the build order; car is 1
  MaxPbf,  \* bound on the versions of the extract
  Overlaps \* bound on the converts that overlap: "never", "calm" or "any"

ASSUME ConvertAssumption ==
  /\ Overlaps \in {"never", "calm", "any"}
  /\ MaxPbf \in Nat \ {0} /\ Turn \in [Tiles -> Nat \ {0}]
  /\ Tiles \cap {"poi", "wetland", "graphs", "ckpt", "manifest", "lock"} = {}

VARIABLES
  step,     \* step[c]: where converter c is
  run,      \* run[c]: what it has in memory, see Fresh
  files,    \* files[a]: the PBF version archive a was built from, 0 if absent
  inPoi,    \* car tiles whose highway barriers are in the POI archive
  manifest, \* the PBF version the manifest names, 0 if there is none
  pbf,      \* the version of the extract
  overlap   \* history: a convert began while another one was running

dirVars == <<files, inPoi, ckpt, manifest>>
envVars == <<pbf, overlap>>
convertVars == <<lockVars, dirVars, step, run, envVars>>

Archives == Tiles \cup {"poi", "wetland"}
Items == Archives \cup {"graphs"} \* "graphs" stands for graphs_complete
Checkpoint == [pbf : 0..MaxPbf, done : SUBSET Items, owner : Procs \cup {"none", "torn"}]
Names == Archives \cup {"ckpt", "manifest", "lock"} \* what is in the directory

\* A converter's memory: its copy of the checkpoint, the archives the
\* running phase has to build (or the names its script has to remove), those
\* written and not yet recorded, those it has built itself, whether it gave
\* the wetlands up and whether it has recorded itself as the owner.
Fresh == [ck |-> NoCkpt, todo |-> {}, wrote |-> {}, built |-> {}, lost |-> FALSE, owns |-> FALSE]
Runs == [ck : Checkpoint, todo : SUBSET Names, wrote : SUBSET Archives,
         built : SUBSET Archives, lost : BOOLEAN, owns : BOOLEAN]

Phases == {"graphs", "poi", "wetland"}
Building == {"tiles", "build_poi", "build_wetland"}
Stopped == {"idle", "ended", "killed"}

ConvertTypeOK ==
  /\ LockTypeOK
  /\ step \in [Converts -> Stopped \cup Phases \cup Building
                             \cup {"recover", "scan", "sweep", "manifest", "clean",
                                   "return", "fail", "removing"}]
  /\ run \in [Converts -> Runs]
  /\ draft \in [Tasks -> [stage : {"none", "open", "fill"}, text : Checkpoint]]
  /\ files \in [Archives -> 0..MaxPbf]
  /\ inPoi \subseteq Tiles
  /\ ckpt \in Checkpoint
  /\ manifest \in 0..MaxPbf
  /\ pbf \in 1..MaxPbf
  /\ overlap \in BOOLEAN

ConvertInit ==
  /\ LockInit
  /\ step = [c \in Converts |-> "idle"]
  /\ run = [c \in Converts |-> Fresh]
  /\ files = [a \in Archives |-> 0]
  /\ inPoi = {}
  /\ manifest = 0
  /\ pbf = 1
  /\ overlap = FALSE

Goto(c, to) == step' = [step EXCEPT ![c] = to]
Forget(c) == run' = [run EXCEPT ![c] = Fresh]

Listed(c) == run[c].ck.done
Present(c, a) == a \in Listed(c) /\ files[a] # 0

\* graph_files_present, poi_present, wetland_present
PhasePresent(c, ph) ==
  IF ph = "graphs"
  THEN "graphs" \in Listed(c) /\ \A t \in Tiles : Present(c, t)
  ELSE Present(c, ph)

After(ph) == CASE ph = "graphs" -> "poi" [] ph = "poi" -> "wetland" [] OTHER -> "manifest"
Builds(ph) == CASE ph = "graphs" -> "tiles" [] ph = "poi" -> "build_poi" [] OTHER -> "build_wetland"

\* What a phase builds: skip_tiles_from_checkpoint leaves finished tiles out.
Todo(c, ph) == IF ph = "graphs" THEN {t \in Tiles : ~ Present(c, t)} ELSE {ph}

\* Items enter the checkpoint, in memory and on disk.
Save(c, items) ==
  LET saved == [run[c].ck EXCEPT !.done = @ \cup items] IN
  /\ ckpt' = saved
  /\ run' = [run EXCEPT ![c].ck = saved, ![c].todo = @ \ items, ![c].wrote = @ \ items]

-----------------------------------------------------------------------------

\* Mutant of Loaded: the extract's fingerprint is not compared.
LoadedAny == IF ckpt.pbf = 0 THEN [NoCkpt EXCEPT !.pbf = pbf] ELSE [ckpt EXCEPT !.pbf = pbf]

\* The checkpoint on disk if it is of this extract, else a fresh one.
Loaded == IF ckpt.pbf = pbf THEN ckpt ELSE [NoCkpt EXCEPT !.pbf = pbf]

\* The converts that are running beside c.
Others(c) == {d \in Converts \ {c} : step[d] \notin Stopped}

\* Bounds: one convert begins while another one is running at any time, never,
\* or calmly, before the first archive, with nothing killed and no plan at work...
MayOverlap ==
  \/ Overlaps = "any"
  \/ /\ Overlaps = "calm" /\ pbf = 1 /\ dead = {}
     /\ \A a \in Archives : files[a] = 0
     /\ \A t \in Plans : at[t] \in {"idle"} \cup Over

\* ...and then nothing but the two converts goes on.
MayDisturb == overlap => Overlaps = "any"

\* A convert begins by recovering stale owners, as the lock does.
Begin(c) ==
  /\ step[c] = "idle"
  /\ Ask(c)
  /\ Goto(c, "recover")
  /\ Others(c) # {} => MayOverlap
  /\ overlap' = (overlap \/ Others(c) # {})
  /\ UNCHANGED <<dirVars, run, pbf>>

\* The stale owners are gone that Begin has asked for.
Recovered(t) == t \in Converts /\ step[t] = "recover" /\ at[t] = "registry" /\ Settled(t)

\* The checkpoint is loaded or removed; the bounds scan follows.  No lock is
\* held.
Load(c) ==
  /\ Recovered(c)
  /\ Go(c, "registry", "idle")
  /\ Goto(c, "scan")
  /\ run' = [run EXCEPT ![c].ck = Loaded]
  /\ ckpt' = IF ckpt.pbf = pbf THEN ckpt ELSE NoCkpt
  /\ UNCHANGED <<registry, lockFile, dead, draft, files, inPoi, manifest, envVars>>

\* Still without the lock, the checkpoint loaded before the scan is saved
\* over whatever is there now.
SaveLoaded(c) ==
  /\ step[c] = "scan"
  /\ Goto(c, "sweep")
  /\ ckpt' = run[c].ck
  /\ UNCHANGED <<lockVars, run, files, inPoi, manifest, envVars>>

\* The graph tiles the checkpoint in memory lists are kept.
Swept(c) == [a \in Archives |-> IF a \in Tiles \ Listed(c) THEN 0 ELSE files[a]]

\* Still without the lock, tiles the checkpoint does not list are removed.
Sweep(c) ==
  /\ step[c] = "sweep"
  /\ Goto(c, "graphs")
  /\ files' = Swept(c)
  /\ UNCHANGED <<lockVars, run, inPoi, ckpt, manifest, envVars>>

SkipPhase(c) ==
  /\ step[c] \in Phases
  /\ PhasePresent(c, step[c])
  /\ Goto(c, After(step[c]))
  /\ UNCHANGED <<lockVars, dirVars, run, envVars>>

\* enter_convert_phase: the first phase that has work takes the lock...
AskLock(c) ==
  /\ step[c] \in Phases
  /\ ~ PhasePresent(c, step[c])
  /\ Ask(c)
  /\ UNCHANGED <<dirVars, step, run, envVars>>

\* ...the later ones record themselves in its file, and all of them in the
\* checkpoint.
Enter(c) ==
  LET ph == step[c]
      owned == [run[c].ck EXCEPT !.owner = ProcOf[c]] IN
  /\ ph \in Phases
  /\ ~ PhasePresent(c, ph)
  /\ at[c] = "held"
  /\ IF run[c].owns THEN SetPhase(c) ELSE UNCHANGED lockVars
  /\ Goto(c, Builds(ph))
  /\ ckpt' = owned
  /\ run' = [run EXCEPT ![c].ck = owned, ![c].owns = TRUE, ![c].todo = Todo(c, ph)]
  /\ files' = IF ph = "wetland" /\ ph \notin Listed(c) THEN [files EXCEPT ![ph] = 0] ELSE files
  /\ UNCHANGED <<inPoi, manifest, envVars>>

Refused(c) ==
  /\ step[c] \in Phases
  /\ at[c] = "refused"
  /\ Goto(c, "fail")
  /\ Forget(c)
  /\ UNCHANGED <<lockVars, dirVars, envVars>>

CarTiles == {t \in Tiles : Turn[t] = 1}

\* The tiles of the n-th profile.
TilesOf(n) == {t \in Tiles : Turn[t] = n}

\* The n-th profile is over, and this process built none of its tiles.
Unproductive(c, n) ==
  TilesOf(n) \cap run[c].todo = {} /\ TilesOf(n) \cap run[c].built = {}

\* Profiles are built one after the other, each from what this process has to
\* build, and each has to produce something.
MayBuild(c, a) ==
  a \in Tiles => \A t \in Tiles : Turn[t] < Turn[a] =>
                   t \notin run[c].todo /\ ~ Unproductive(c, Turn[t])

\* Mutant of Write: the archive is recorded when its building starts.
WriteUnbuilt(c, a) ==
  /\ step[c] \in Building
  /\ a \in run[c].todo \ run[c].wrote
  /\ MayBuild(c, a)
  /\ run' = [run EXCEPT ![c].wrote = @ \cup {a}, ![c].built = @ \cup {a}]
  /\ UNCHANGED <<lockVars, step, dirVars, envVars>>

\* Mutant of Write: the roads of every profile's tiles are collected.
WriteAllRoads(c, a) ==
  /\ step[c] \in Building
  /\ a \in run[c].todo \ run[c].wrote
  /\ MayBuild(c, a)
  /\ files' = [files EXCEPT ![a] = pbf]
  /\ run' = [run EXCEPT ![c].wrote = @ \cup {a}, ![c].built = @ \cup {a}]
  /\ inPoi' = IF a = "poi" THEN run[c].built \cap Tiles ELSE inPoi
  /\ UNCHANGED <<lockVars, step, ckpt, manifest, envVars>>

\* One archive is written and renamed to its final name; a car tile's
\* motorways and trunk roads are kept in memory for the POI archive.
Write(c, a) ==
  /\ step[c] \in Building
  /\ a \in run[c].todo \ run[c].wrote
  /\ MayBuild(c, a)
  /\ files' = [files EXCEPT ![a] = pbf]
  /\ run' = [run EXCEPT ![c].wrote = @ \cup {a}, ![c].built = @ \cup {a}]
  /\ inPoi' = IF a = "poi" THEN run[c].built \cap CarTiles ELSE inPoi
  /\ UNCHANGED <<lockVars, step, ckpt, manifest, envVars>>

\* The extract's wetlands cannot be read or encoded: that is logged, and the
\* convert goes on with those the checkpoint lists, or with an empty archive
\* written for want of any.
SkipWetland(c) ==
  /\ MayDisturb
  /\ step[c] = "build_wetland"
  /\ run[c].wrote = {} /\ ~ run[c].lost
  /\ ckpt' = run[c].ck
  /\ run' = [run EXCEPT ![c].lost = TRUE]
  /\ IF "wetland" \in Listed(c) THEN Goto(c, "manifest") ELSE UNCHANGED step
  /\ UNCHANGED <<lockVars, files, inPoi, manifest, envVars>>

\* The archive is entered in the checkpoint, which is saved.
RecordArchive(c, a) ==
  /\ step[c] \in Building
  /\ a \in run[c].wrote
  /\ Save(c, {a})
  /\ IF a \in Tiles THEN UNCHANGED step ELSE Goto(c, After(a))
  /\ UNCHANGED <<lockVars, files, inPoi, manifest, envVars>>

\* The first profile this process built no tile of ends the convert.
NothingProduced(c) ==
  /\ step[c] = "tiles"
  /\ \E t \in Tiles : Unproductive(c, Turn[t])
                     /\ \A u \in Tiles : Turn[u] < Turn[t] => u \notin run[c].todo
  /\ Goto(c, "fail")
  /\ Forget(c)
  /\ UNCHANGED <<lockVars, dirVars, envVars>>

GraphsComplete(c) ==
  /\ step[c] = "tiles"
  /\ run[c].todo = {}
  /\ \A t \in Tiles : ~ Unproductive(c, Turn[t])
  /\ Goto(c, "poi")
  /\ Save(c, {"graphs"})
  /\ UNCHANGED <<lockVars, files, inPoi, manifest, envVars>>

SaveManifest(c) ==
  /\ step[c] = "manifest"
  /\ Goto(c, "clean")
  /\ manifest' = run[c].ck.pbf
  /\ UNCHANGED <<lockVars, run, files, inPoi, ckpt, envVars>>

RemoveCheckpoint(c) ==
  /\ step[c] = "clean"
  /\ Goto(c, "return")
  /\ ckpt' = NoCkpt
  /\ Forget(c)
  /\ UNCHANGED <<lockVars, files, inPoi, manifest, envVars>>

\* A read or write error, or a full disk, other than in SkipWetland.
Fails(c) ==
  /\ MayDisturb
  /\ step[c] \in Building \cup {"scan", "manifest"}
  /\ Goto(c, "fail")
  /\ Forget(c)
  /\ UNCHANGED <<lockVars, dirVars, envVars>>

\* The guard is dropped on the way out.
Leave(c) ==
  /\ step[c] \in {"return", "fail"}
  /\ Release(c)
  /\ UNCHANGED <<dirVars, step, run, envVars>>

Succeed(c) ==
  /\ step[c] = "return"
  /\ at[c] \in {"idle"} \cup Over
  /\ Goto(c, "ended")
  /\ UNCHANGED <<lockVars, dirVars, run, envVars>>

\* The names in the directory.
Named ==
  {a \in Archives : files[a] # 0}
    \cup {n \in {"ckpt"} : ckpt # NoCkpt} \cup {n \in {"manifest"} : manifest # 0}
    \cup {n \in {"lock"} : lockFile # NoLock}

\* convert_one removes the directory of a converter that did not succeed, or
\* whose list of files could not be written...
StartRemoval(c) ==
  /\ step[c] = "fail" \/ (step[c] = "return" /\ MayDisturb)
  /\ at[c] \in {"idle"} \cup Over
  /\ Goto(c, "removing")
  /\ run' = [run EXCEPT ![c] = [Fresh EXCEPT !.todo = Named]]
  /\ UNCHANGED <<lockVars, dirVars, envVars>>

\* ...one name after the other in any order, the lock file of whoever works
\* in it included; what is made again meanwhile stays.
RemoveName(c, n) ==
  /\ step[c] = "removing"
  /\ n \in run[c].todo
  /\ run' = [run EXCEPT ![c].todo = @ \ {n}]
  /\ files' = [a \in Archives |-> IF a = n THEN 0 ELSE files[a]]
  /\ inPoi' = IF n = "poi" THEN {} ELSE inPoi
  /\ ckpt' = IF n = "ckpt" THEN NoCkpt ELSE ckpt
  /\ manifest' = IF n = "manifest" THEN 0 ELSE manifest
  /\ lockFile' = IF n = "lock" THEN NoLock ELSE lockFile
  /\ UNCHANGED <<at, registry, dead, draft, step, envVars>>

EndRemoval(c) ==
  /\ step[c] = "removing"
  /\ run[c].todo = {}
  /\ Goto(c, "ended")
  /\ Forget(c)
  /\ UNCHANGED <<lockVars, dirVars, envVars>>

\* The converters killed alone or with their scripts, and the killed scripts,
\* are MaxKills at most.
KillsLeft ==
  MayDisturb /\ Cardinality(dead \cup {ProcOf[c] : c \in {d \in Converts : step[d] = "killed"}}) < MaxKills

\* The script is killed with the directory half removed.
ScriptKilled(c) ==
  /\ step[c] = "removing"
  /\ KillsLeft
  /\ Goto(c, "killed")
  /\ Forget(c)
  /\ UNCHANGED <<lockVars, dirVars, envVars>>

\* The converter is killed, alone ("fail": the script goes on and removes
\* the directory) or with its script (the directory stays).
Kill(p) ==
  LET hit == {c \in Converts : ProcOf[c] = p /\ step[c] \notin Stopped \cup {"removing"}} IN
  /\ KillProc(p)
  /\ KillsLeft
  /\ \E to \in {"fail", "killed"} :
       step' = [c \in Converts |-> IF c \in hit THEN to ELSE step[c]]
  /\ run' = [c \in Converts |-> IF c \in hit THEN Fresh ELSE run[c]]
  /\ UNCHANGED <<dirVars, envVars>>

\* The pipeline fetches between converts, never during one.
NewExtract ==
  /\ MayDisturb
  /\ pbf < MaxPbf
  /\ \A c \in Converts : step[c] \in Stopped
  /\ pbf' = pbf + 1
  /\ UNCHANGED <<lockVars, dirVars, step, run, overlap>>

-----------------------------------------------------------------------------

ConvertLock(t) ==
  /\ ~ Recovered(t)
  /\ LockStep(t)
  /\ UNCHANGED <<files, inPoi, manifest, step, run, envVars>>

PlanAsks(t) == MayDisturb /\ Ask(t) /\ UNCHANGED <<dirVars, step, run, envVars>>
PlanLeaves(t) == Release(t) /\ UNCHANGED <<dirVars, step, run, envVars>>
PlanCancelled(t) == Cancel(t) /\ UNCHANGED <<dirVars, step, run, envVars>>

ConvertStep(c) ==
  \/ Load(c) \/ SaveLoaded(c) \/ Sweep(c) \/ SkipPhase(c) \/ AskLock(c) \/ Enter(c) \/ Refused(c)
  \/ \E a \in Archives : Write(c, a) \/ RecordArchive(c, a)
  \/ NothingProduced(c) \/ GraphsComplete(c) \/ SaveManifest(c) \/ RemoveCheckpoint(c)
  \/ Leave(c) \/ Succeed(c)
  \/ StartRemoval(c) \/ EndRemoval(c) \/ \E n \in Names : RemoveName(c, n)

ConvertNext ==
  \/ \E c \in Converts : Begin(c) \/ ConvertStep(c) \/ Fails(c) \/ SkipWetland(c) \/ ScriptKilled(c)
  \/ \E t \in Tasks : ConvertLock(t)
  \/ \E t \in Plans : PlanAsks(t) \/ PlanLeaves(t) \/ PlanCancelled(t)
  \/ \E p \in Procs : Kill(p)
  \/ NewExtract

ConvertSpec == ConvertInit /\ [][ConvertNext]_convertVars

\* A task that has started keeps running until it ends or is killed.
ConvertFairSpec ==
  /\ ConvertSpec
  /\ \A c \in Converts : WF_convertVars(ConvertLock(c) \/ ConvertStep(c))
  /\ \A t \in Plans : WF_convertVars(ConvertLock(t) \/ PlanLeaves(t))

-----------------------------------------------------------------------------

\* The archives are those of version v, less the wetlands if they are lost.
WholeSet(v, lost) ==
  /\ \A a \in Archives \ {"wetland"} : files[a] = v
  /\ files["wetland"] \in {v} \cup {w \in {0} : lost}

\* A manifest is written only over the archives of every tile and of the
\* points of interest, and over a wetland archive unless its phase swallowed
\* an error, all of the PBF version it names: through kills, resumes, half
\* removed directories and new extracts, as long as no two converts of the
\* region overlapped (convert.rs:563, "a rebuild must not mix layouts or
\* leftover files").
ManifestIsWholeAlone ==
  [][\A c \in Converts : SaveManifest(c) /\ ~ overlap =>
       WholeSet(manifest', run[c].lost)]_convertVars

\* Whatever a resume will trust, the archives that a checkpoint of the
\* present extract lists and that are still there, was built from that
\* extract, at every moment a kill may come, in the middle of a removal or of
\* a rewriting of the checkpoint too, and whoever wrote an old text of it back
\* (convert.rs:104, "so a force-stop can skip completed archives").
CheckpointHonest ==
  ~ overlap /\ ckpt.pbf = pbf => \A a \in ckpt.done \cap Archives : files[a] \in {0, pbf}

\* A convert that built every tile and the POI archive itself leaves the
\* motorway and trunk barriers of the car tiles, and of no other profile's, in
\* that archive (convert.rs:890).
BarriersKeptUnlessResumed ==
  [][\A c \in Converts : SaveManifest(c) /\ ~ overlap /\ Tiles \cup {"poi"} \subseteq run[c].built =>
       inPoi = CarTiles]_convertVars

\* No convert gives up because the archives it has to produce are already
\* there (convert.rs:104, "so a force-stop can skip completed archives").
ResumeNotRefused ==
  [][\A c \in Converts : ~ NothingProduced(c)]_convertVars

=============================================================================
