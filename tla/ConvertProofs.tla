--------------------------- MODULE ConvertProofs ---------------------------
(***************************************************************************)
(* The region lock leaks nothing, for any number of converts, plans and    *)
(* processes, with any number of them killed.                              *)
(*                                                                         *)
(* NothingLeaks says something of the moments in which no task owns the    *)
(* lock and nothing of the others, so it is strengthened to name an owner  *)
(* at every moment: a lock file with a living pid belongs to a task that   *)
(* holds the lock (HeldFile), a registry entry to a task of its process    *)
(* and kind that is on its way in or out (HeldEntry).  The owner of the    *)
(* file need not be the only holder, and a holder need not have the file:  *)
(* neither is needed.                                                      *)
(***************************************************************************)
EXTENDS Convert, TLAPS

HeldFile ==
  FileOwned => \E t \in Tasks : at[t] \in {"held", "unlock"} /\ lockFile = Record(t)

HeldEntry ==
  \A p \in Procs : registry[p] # "none" =>
    \E t \in Tasks : ProcOf[t] = p /\ Kind(t) = registry[p] /\ at[t] \in Owning

LockInv == LockTypeOK /\ HeldFile /\ HeldEntry

-----------------------------------------------------------------------------

\* A task that moves, but neither to nor from owning, disturbs nothing.
LEMMA OtherMoves ==
  ASSUME LockInv, NEW t \in Tasks, NEW to,
         at' = [at EXCEPT ![t] = to],
         at[t] \notin Owning,
         to \in {"idle"} \cup Waiting \cup Owning \cup Over,
         UNCHANGED <<registry, dead>>,
         lockFile' = lockFile \/ lockFile' = NoLock
  PROVE  LockInv'
<1>1. LockTypeOK'
  BY DEF LockInv, LockTypeOK
<1>2. \A u \in Tasks : at[u] \in Owning => at'[u] = at[u]
  BY DEF LockInv, LockTypeOK
<1>3. HeldFile'
  <2>1. CASE lockFile' = lockFile
    BY <2>1, <1>2 DEF LockInv, HeldFile, FileOwned, Alive, Owning, Record, Kind
  <2>2. CASE lockFile' = NoLock
    BY <2>2, LockAssumption DEF HeldFile, FileOwned, Alive, NoLock
  <2> QED BY <2>1, <2>2
<1>4. HeldEntry'
  BY <1>2 DEF LockInv, HeldEntry, Kind
<1> QED BY <1>1, <1>3, <1>4 DEF LockInv

\* Nothing of the lock changes, except that the file may go.
LEMMA FileGoes ==
  ASSUME LockInv, UNCHANGED <<at, registry, dead>>,
         lockFile' = lockFile \/ lockFile' = NoLock
  PROVE  LockInv'
<1>1. LockTypeOK'
  BY DEF LockInv, LockTypeOK
<1>2. HeldFile'
  BY LockAssumption DEF LockInv, HeldFile, FileOwned, Alive, NoLock, Record, Kind
<1>3. HeldEntry'
  BY DEF LockInv, HeldEntry, Kind
<1> QED BY <1>1, <1>2, <1>3 DEF LockInv

\* The steps by which a task comes to own the lock and gives it up.
LEMMA InstallKeeps == ASSUME LockInv, NEW t \in Tasks, Install(t) PROVE LockInv'
<1>1. at[t] = "install" /\ at' = [at EXCEPT ![t] = "persist"]
  BY DEF Install, Go
<1>2. \A u \in Tasks : at[u] \in Owning => at'[u] = at[u]
  BY <1>1 DEF LockInv, LockTypeOK, Owning
<1>3. at'[t] \in Owning /\ ProcOf[t] \in Procs
  BY <1>1, LockAssumption DEF LockInv, LockTypeOK, Owning
<1>4. LockTypeOK'
  BY <1>1, <1>3 DEF LockInv, LockTypeOK, Install, Kind, Owning
<1>5. HeldFile'
  BY <1>2 DEF LockInv, HeldFile, FileOwned, Alive, Install, Owning, Record, Kind
<1>6. HeldEntry'
  <2> SUFFICES ASSUME NEW p \in Procs, registry'[p] # "none"
               PROVE  \E u \in Tasks : ProcOf[u] = p /\ Kind(u) = registry'[p] /\ at'[u] \in Owning
    BY DEF HeldEntry, Kind
  <2>1. CASE p = ProcOf[t]
    BY <2>1, <1>3 DEF Install, LockInv, LockTypeOK
  <2>2. CASE p # ProcOf[t]
    BY <2>2, <1>2 DEF Install, LockInv, LockTypeOK, HeldEntry
  <2> QED BY <2>1, <2>2
<1> QED BY <1>4, <1>5, <1>6 DEF LockInv

LEMMA PersistKeeps == ASSUME LockInv, NEW t \in Tasks, Persist(t) \/ SetPhase(t) PROVE LockInv'
<1>1. at[t] \in Owning /\ at' = [at EXCEPT ![t] = "held"]
  BY DEF Persist, SetPhase, Go, Owning, LockInv, LockTypeOK
<1>2. lockFile' = Record(t) /\ UNCHANGED <<registry, dead>>
  BY DEF Persist, SetPhase
<1>3. LockTypeOK'
  BY <1>1, <1>2, LockAssumption DEF LockInv, LockTypeOK, Owning, Record, Kind
<1>4. HeldFile'
  BY <1>1, <1>2 DEF LockInv, LockTypeOK, HeldFile, Record, Kind
<1>5. HeldEntry'
  BY <1>1, <1>2 DEF LockInv, LockTypeOK, HeldEntry, Owning, Kind
<1> QED BY <1>3, <1>4, <1>5 DEF LockInv

LEMMA ReleaseKeeps == ASSUME LockInv, NEW t \in Tasks, Release(t) PROVE LockInv'
<1>1. at[t] = "held" /\ at' = [at EXCEPT ![t] = "unlock"] /\ UNCHANGED <<registry, lockFile, dead>>
  BY DEF Release, Go
<1>2. \A u \in Tasks : at[u] \in {"held", "unlock"} => at'[u] \in {"held", "unlock"}
  BY <1>1 DEF LockInv, LockTypeOK
<1>3. LockTypeOK'
  BY <1>1 DEF LockInv, LockTypeOK, Owning
<1>4. HeldFile'
  BY <1>1, <1>2 DEF LockInv, HeldFile, FileOwned, Alive, Record, Kind
<1>5. HeldEntry'
  BY <1>1 DEF LockInv, LockTypeOK, HeldEntry, Owning, Kind
<1> QED BY <1>3, <1>4, <1>5 DEF LockInv

LEMMA UnlockKeeps == ASSUME LockInv, NEW t \in Tasks, Unlock(t) PROVE LockInv'
<1>1. at[t] = "unlock" /\ at' = [at EXCEPT ![t] = "unregister"]
  BY DEF Unlock, Go
<1>2. lockFile' = NoLock /\ UNCHANGED <<registry, dead>>
  BY DEF Unlock
<1>3. LockTypeOK'
  BY <1>1, <1>2 DEF LockInv, LockTypeOK, Owning
<1>4. HeldFile'
  BY <1>2, LockAssumption DEF HeldFile, FileOwned, Alive, NoLock
<1>5. HeldEntry'
  BY <1>1, <1>2 DEF LockInv, LockTypeOK, HeldEntry, Owning, Kind
<1> QED BY <1>3, <1>4, <1>5 DEF LockInv

LEMMA UnregisterKeeps == ASSUME LockInv, NEW t \in Tasks, Unregister(t) PROVE LockInv'
<1>1. at[t] = "unregister" /\ at' = [at EXCEPT ![t] = "done"]
  BY DEF Unregister, Go
<1>2. \A u \in Tasks : u # t => at'[u] = at[u]
  BY <1>1 DEF LockInv, LockTypeOK
<1>3. LockTypeOK'
  BY <1>1 DEF LockInv, LockTypeOK, Unregister, Over
<1>4. HeldFile'
  BY <1>1, <1>2 DEF LockInv, HeldFile, FileOwned, Alive, Unregister, Record, Kind
<1>5. HeldEntry'
  <2> SUFFICES ASSUME NEW p \in Procs, registry'[p] # "none"
               PROVE  \E u \in Tasks : ProcOf[u] = p /\ Kind(u) = registry'[p] /\ at'[u] \in Owning
    BY DEF HeldEntry, Kind
  <2>1. registry'[p] = registry[p] /\ (p = ProcOf[t] => registry[p] # Kind(t))
    BY DEF Unregister, LockInv, LockTypeOK
  <2>2. PICK u \in Tasks : ProcOf[u] = p /\ Kind(u) = registry[p] /\ at[u] \in Owning
    BY <2>1 DEF LockInv, HeldEntry
  <2>3. u # t
    BY <2>1, <2>2
  <2> QED BY <2>1, <2>2, <2>3, <1>2
<1> QED BY <1>3, <1>4, <1>5 DEF LockInv

LEMMA KillKeeps == ASSUME LockInv, NEW p \in Procs, KillProc(p) PROVE LockInv'
<1>1. \A t \in Tasks : ProcOf[t] # p => at'[t] = at[t]
  BY DEF KillProc
<1>2. LockTypeOK'
  BY DEF KillProc, LockInv, LockTypeOK, Over
<1>3. HeldFile'
  <2> SUFFICES ASSUME FileOwned'
               PROVE  \E t \in Tasks : at'[t] \in {"held", "unlock"} /\ lockFile' = Record(t)
    BY DEF HeldFile, Record, Kind
  <2>1. lockFile' = lockFile /\ lockFile.pid # p /\ FileOwned
    BY DEF KillProc, FileOwned, Alive
  <2>2. PICK t \in Tasks : at[t] \in {"held", "unlock"} /\ lockFile = Record(t)
    BY <2>1 DEF LockInv, HeldFile
  <2>3. ProcOf[t] # p
    BY <2>1, <2>2 DEF Record
  <2> QED BY <2>1, <2>2, <2>3, <1>1
<1>4. HeldEntry'
  <2> SUFFICES ASSUME NEW q \in Procs, registry'[q] # "none"
               PROVE  \E u \in Tasks : ProcOf[u] = q /\ Kind(u) = registry'[q] /\ at'[u] \in Owning
    BY DEF HeldEntry, Kind
  <2>1. q # p /\ registry'[q] = registry[q]
    BY DEF KillProc, LockInv, LockTypeOK
  <2> QED BY <2>1, <1>1 DEF LockInv, HeldEntry
<1> QED BY <1>2, <1>3, <1>4 DEF LockInv

-----------------------------------------------------------------------------

LEMMA LockStepKeeps == ASSUME LockInv, NEW t \in Tasks, LockStep(t) PROVE LockInv'
<1> USE DEF Waiting, Owning, Over
<1>1. CASE Recover(t)
  BY <1>1, OtherMoves DEF Recover, Go
<1>2. CASE Reclaim(t)
  BY <1>2, OtherMoves DEF Reclaim, Go
<1>3. CASE CheckRegistry(t)
  <2> DEFINE to == IF registry[ProcOf[t]] = "none" THEN "file" ELSE OnOwner(t, registry[ProcOf[t]])
  <2>1. to \in {"file", "refused", "recover"}
    BY DEF OnOwner
  <2>2. at[t] = "registry" /\ at' = [at EXCEPT ![t] = to]
        /\ UNCHANGED <<registry, lockFile, dead>>
    BY <1>3 DEF CheckRegistry, Go
  <2> HIDE DEF to
  <2> QED BY <2>1, <2>2, OtherMoves
<1>4. CASE CheckFile(t)
  <2> DEFINE to == IF FileOwned THEN OnOwner(t, lockFile.kind) ELSE "install"
  <2>1. to \in {"install", "refused", "recover"}
    BY DEF OnOwner
  <2>2. at[t] = "file" /\ at' = [at EXCEPT ![t] = to] /\ UNCHANGED <<registry, lockFile, dead>>
    BY <1>4 DEF CheckFile, Go
  <2> HIDE DEF to
  <2> QED BY <2>1, <2>2, OtherMoves
<1>5. CASE Install(t) \/ Persist(t) \/ Unlock(t) \/ Unregister(t)
  BY <1>5, InstallKeeps, PersistKeeps, UnlockKeeps, UnregisterKeeps
<1>6. CASE Open(t) \/ Fill(t)
  BY <1>6, FileGoes DEF Open, Fill
<1> QED BY <1>1, <1>2, <1>3, <1>4, <1>5, <1>6 DEF LockStep

LEMMA AskKeeps == ASSUME LockInv, NEW t \in Tasks, Ask(t) \/ Cancel(t) PROVE LockInv'
<1>1. CASE Ask(t)
  BY <1>1, OtherMoves DEF Ask, Go, Waiting, Owning, Over
<1>2. CASE Cancel(t)
  BY <1>2, OtherMoves DEF Cancel, Go, Waiting, Owning, Over
<1> QED BY <1>1, <1>2

LEMMA ConvertsAreTasks == Converts \subseteq Tasks /\ Plans \subseteq Tasks
BY DEF Tasks

\* What one converter may do.
Does(c) == Begin(c) \/ ConvertStep(c) \/ Fails(c) \/ SkipWetland(c) \/ ScriptKilled(c)

\* What a converter does to the lock outside of acquiring it.
LEMMA ConvertStepKeeps == ASSUME LockInv, NEW c \in Converts, Does(c) PROVE LockInv'
<1>1. c \in Tasks
  BY ConvertsAreTasks
<1>2. CASE Begin(c) \/ AskLock(c)
  BY <1>2, <1>1, AskKeeps DEF Begin, AskLock
<1>3. CASE Load(c)
  BY <1>3, <1>1, OtherMoves DEF Load, Go, Waiting, Owning, Over
<1>4. CASE \E n \in Names : RemoveName(c, n)
  BY <1>4, FileGoes DEF RemoveName
<1>5. CASE Leave(c)
  BY <1>5, <1>1, ReleaseKeeps DEF Leave
<1>6. CASE UNCHANGED lockVars
  BY <1>6, FileGoes DEF lockVars
<1>7. CASE Enter(c)
  BY <1>7, <1>1, <1>6, PersistKeeps DEF Enter
<1>8. CASE \E a \in Archives : Write(c, a) \/ RecordArchive(c, a)
  BY <1>8, <1>6 DEF Write, RecordArchive
<1>9. CASE SaveLoaded(c) \/ Sweep(c) \/ SkipPhase(c) \/ Refused(c) \/ SkipWetland(c) \/ ScriptKilled(c)
  BY <1>9, <1>6 DEF SaveLoaded, Sweep, SkipPhase, Refused, SkipWetland, ScriptKilled
<1>10. CASE \/ NothingProduced(c) \/ GraphsComplete(c) \/ SaveManifest(c) \/ RemoveCheckpoint(c)
            \/ Succeed(c) \/ Fails(c) \/ StartRemoval(c) \/ EndRemoval(c)
  BY <1>10, <1>6 DEF NothingProduced, GraphsComplete, SaveManifest, RemoveCheckpoint, Succeed, Fails,
                     StartRemoval, EndRemoval
<1> QED BY <1>2, <1>3, <1>4, <1>5, <1>7, <1>8, <1>9, <1>10 DEF ConvertStep, Does

LEMMA NextKeeps == LockInv /\ [ConvertNext]_convertVars => LockInv'
<1> SUFFICES ASSUME LockInv, [ConvertNext]_convertVars PROVE LockInv'
  OBVIOUS
<1>1. ASSUME NEW c \in Converts, Does(c) PROVE LockInv'
  BY <1>1, ConvertStepKeeps
<1>2. ASSUME NEW t \in Tasks, ConvertLock(t) PROVE LockInv'
  BY <1>2, LockStepKeeps DEF ConvertLock
<1>3. ASSUME NEW t \in Plans, PlanAsks(t) \/ PlanLeaves(t) \/ PlanCancelled(t) PROVE LockInv'
  <2>1. t \in Tasks
    BY ConvertsAreTasks
  <2> QED BY <1>3, <2>1, AskKeeps, ReleaseKeeps DEF PlanAsks, PlanLeaves, PlanCancelled
<1>4. ASSUME NEW p \in Procs, Kill(p) PROVE LockInv'
  BY <1>4, KillKeeps DEF Kill
<1>5. CASE NewExtract \/ UNCHANGED convertVars
  BY <1>5, FileGoes DEF NewExtract, convertVars, lockVars
<1> QED BY <1>1, <1>2, <1>3, <1>4, <1>5 DEF ConvertNext, Does

LEMMA InitHolds == ConvertInit => LockInv
<1> SUFFICES ASSUME ConvertInit PROVE LockInv
  OBVIOUS
<1>1. LockTypeOK
  BY DEF ConvertInit, LockInit, LockTypeOK
<1>2. HeldFile
  BY LockAssumption DEF ConvertInit, LockInit, HeldFile, FileOwned, Alive, NoLock
<1>3. HeldEntry
  BY DEF ConvertInit, LockInit, HeldEntry
<1> QED BY <1>1, <1>2, <1>3 DEF LockInv

\* Whatever the races, failures and kills, a region that no task owns is
\* free to the next caller (region_lock.rs:374-391).
THEOREM LockNeverLeaks == ConvertSpec => []NothingLeaks
<1>1. LockInv => NothingLeaks
  BY DEF LockInv, HeldFile, HeldEntry, NothingLeaks, Owning
<1> QED BY <1>1, InitHolds, NextKeeps, PTL DEF ConvertSpec

-----------------------------------------------------------------------------
(***************************************************************************)
(* The checkpoint and the manifest of a convert, for any tiles, extracts,  *)
(* converters, kills and half removed directories: whatever text of a      *)
(* checkpoint is about, on disk, in a converter's memory or in the hands   *)
(* of a task that rewrites it, can be trusted, and while converts of the   *)
(* region do not overlap a manifest stands for a whole set of archives.    *)
(*                                                                         *)
(* Neither is inductive.  Texts of the checkpoint come back late and are   *)
(* older than the directory, so that no text equals another: each is Sound *)
(* on its own, which no change of the directory undoes, because a file     *)
(* only ever goes or becomes one of the present extract (Truth).  For the  *)
(* manifest, each phase passed leaves its archives in place (WholeOf), as  *)
(* nobody else is at work.                                                 *)
(***************************************************************************)

Working == {"scan", "sweep", "manifest", "clean"} \cup Phases \cup Building
Steps == Stopped \cup Working \cup {"recover", "return", "fail", "removing"}
Draft == [stage : {"none", "open", "fill"}, text : Checkpoint]

DirTypeOK ==
  /\ step \in [Converts -> Steps]
  /\ run \in [Converts -> Runs]
  /\ draft \in [Tasks -> Draft]
  /\ files \in [Archives -> 0..MaxPbf]
  /\ inPoi \subseteq Tiles
  /\ ckpt \in Checkpoint
  /\ manifest \in 0..MaxPbf
  /\ pbf \in 1..MaxPbf
  /\ overlap \in BOOLEAN

MemoryOf(c) ==
  /\ step[c] \in {"idle", "recover"} => run[c] = Fresh
  /\ step[c] \in {"scan", "sweep"} \cup Phases \cup {"removing"} => run[c].wrote = {}
  /\ run[c].wrote \subseteq run[c].todo
  /\ step[c] = "tiles" => run[c].todo \subseteq Tiles
  /\ step[c] = "build_poi" => run[c].todo \subseteq {"poi"}
  /\ step[c] = "build_wetland" => run[c].todo \subseteq {"wetland"}

Memory == \A c \in Converts : MemoryOf(c)

\* A resume from the archives fs and the extract v may trust what K lists.
Sound(K, fs, v) ==
  /\ K.pbf <= v
  /\ K.pbf = v => \A a \in K.done \cap Archives : fs[a] \in {0, v}

\* What a converter at work has in memory is of the present extract.
RightOf(c) ==
  step[c] \in Working =>
    /\ run[c].ck.pbf = pbf
    /\ \A a \in run[c].wrote : a \in Archives /\ files[a] \in {0, pbf}

Truth ==
  /\ Sound(ckpt, files, pbf)
  /\ \A t \in Tasks : Sound(draft[t].text, files, pbf)
  /\ \A c \in Converts : Sound(run[c].ck, files, pbf) /\ RightOf(c)

OneAtWork == \A c, d \in Converts : step[c] \notin Stopped /\ step[d] \notin Stopped => c = d

\* The archives of the phases passed are in place.
WholeOf(c) ==
  /\ step[c] \in Building => \A a \in run[c].wrote : files[a] = pbf
  /\ step[c] = "tiles" => \A t \in Tiles : t \in run[c].todo \/ files[t] = pbf
  /\ step[c] \in {"poi", "build_poi", "wetland", "build_wetland", "manifest"} => \A t \in Tiles : files[t] = pbf
  /\ step[c] \in {"wetland", "build_wetland", "manifest"} => files["poi"] = pbf
  /\ step[c] = "manifest" => files["wetland"] = pbf \/ (files["wetland"] = 0 /\ run[c].lost)

\* Whoever built the tiles and the POI archive put the barriers into it.
BarrierOf(c) ==
  /\ step[c] \in {"scan", "sweep", "graphs"} => run[c].built = {}
  /\ step[c] \in {"tiles", "poi"} => "poi" \notin run[c].built
  /\ step[c] \in {"build_poi", "wetland", "build_wetland", "manifest"} =>
       (Tiles \cup {"poi"} \subseteq run[c].built => inPoi = CarTiles)

Alone == ~ overlap => OneAtWork /\ \A c \in Converts : WholeOf(c) /\ BarrierOf(c)

DirInv == DirTypeOK /\ Memory /\ Truth /\ Alone

-----------------------------------------------------------------------------

LEMMA Constants ==
  /\ NoCkpt \in Checkpoint /\ Torn \in Checkpoint /\ NoDraft \in Draft /\ Fresh \in Runs
  /\ 0 \in 0..MaxPbf /\ 1 \in 1..MaxPbf
  /\ NoCkpt.pbf = 0 /\ NoCkpt.done = {} /\ Torn.pbf = 0 /\ Torn.done = {} /\ NoDraft.text = NoCkpt
  /\ Fresh.ck = NoCkpt /\ Fresh.todo = {} /\ Fresh.wrote = {} /\ Fresh.built = {}
BY ConvertAssumption DEF NoCkpt, Torn, NoDraft, Fresh, Checkpoint, Draft, Runs

LEMMA DirInvInit == ConvertInit => DirInv
<1> SUFFICES ASSUME ConvertInit PROVE DirInv
  OBVIOUS
<1> USE Constants
<1>1. DirTypeOK
  <2>1. step \in [Converts -> Steps]
    BY DEF ConvertInit, Steps, Stopped
  <2>2. run \in [Converts -> Runs] /\ draft \in [Tasks -> Draft]
    BY DEF ConvertInit, LockInit
  <2>3. files \in [Archives -> 0..MaxPbf] /\ manifest \in 0..MaxPbf /\ pbf \in 1..MaxPbf
    BY DEF ConvertInit
  <2>4. inPoi \subseteq Tiles /\ ckpt \in Checkpoint /\ overlap \in BOOLEAN
    BY DEF ConvertInit, LockInit
  <2> QED BY <2>1, <2>2, <2>3, <2>4 DEF DirTypeOK
<1>2. Memory
  BY DEF ConvertInit, Memory, MemoryOf, Phases
<1>3. Sound(NoCkpt, files, pbf)
  BY DEF ConvertInit, Sound
<1>4. Truth
  BY <1>3 DEF ConvertInit, LockInit, Truth, RightOf, Working, Phases, Building
<1>5. Alone
  BY DEF ConvertInit, Alone, OneAtWork, WholeOf, BarrierOf, Stopped, Building
<1> QED BY <1>1, <1>2, <1>4, <1>5 DEF DirInv

\* What a text says stays true while files only go or are built anew.
LEMMA SoundStays ==
  ASSUME NEW K, NEW fs, NEW gs, NEW v, Sound(K, fs, v),
         \A a \in Archives : gs[a] \in {fs[a], 0, v}
  PROVE  Sound(K, gs, v)
BY DEF Sound

LEMMA NothingIsSound == ASSUME NEW fs, NEW v \in 1..MaxPbf PROVE Sound(NoCkpt, fs, v)
BY Constants DEF Sound

FilesMove == pbf' = pbf /\ \A a \in Archives : files'[a] \in {files[a], 0, pbf}

\* Where the rewritings of the checkpoint come from.
DraftsMove ==
  /\ draft' \in [Tasks -> Draft]
  /\ \A t \in Tasks : draft'[t].text \in {draft[t].text, ckpt, NoCkpt}

LEMMA DraftsStay ==
  ASSUME DirInv, FilesMove, DraftsMove
  PROVE  \A t \in Tasks : Sound(draft'[t].text, files', pbf')
<1> SUFFICES ASSUME NEW t \in Tasks PROVE Sound(draft'[t].text, files', pbf')
  OBVIOUS
<1>1. pbf \in 1..MaxPbf /\ Sound(NoCkpt, files, pbf)
  BY NothingIsSound DEF DirInv, DirTypeOK
<1>2. Sound(draft'[t].text, files, pbf)
  BY <1>1 DEF DirInv, Truth, DraftsMove
<1> QED BY <1>2, SoundStays DEF FilesMove

\* The checkpoint on disk says what K says, but for its owner.
Says(K) == ckpt'.pbf = K.pbf /\ ckpt'.done = K.done

LEMMA SaysSound ==
  ASSUME FilesMove, NEW K, Sound(K, files', pbf'), Says(K)
  PROVE  Sound(ckpt', files', pbf')
BY DEF Says, Sound

\* What the converters but c remember stays right.
LEMMA OthersStay ==
  ASSUME DirInv, FilesMove, NEW D \in SUBSET Converts,
         \A d \in D : step'[d] = step[d] /\ run'[d] = run[d]
  PROVE  \A d \in D : MemoryOf(d)' /\ Sound(run'[d].ck, files', pbf') /\ RightOf(d)'
<1> SUFFICES ASSUME NEW d \in D
             PROVE  MemoryOf(d)' /\ Sound(run'[d].ck, files', pbf') /\ RightOf(d)'
  OBVIOUS
<1>1. MemoryOf(d)'
  BY DEF DirInv, Memory, MemoryOf
<1>2. Sound(run'[d].ck, files', pbf')
  BY SoundStays DEF DirInv, Truth, FilesMove
<1>3. RightOf(d)'
  BY DEF DirInv, Truth, RightOf, FilesMove
<1> QED BY <1>1, <1>2, <1>3

\* A step of the converter c, whatever it does to the lock.  While converts
\* do not overlap the others have stopped.
LEMMA WorkKeeps ==
  ASSUME DirInv, NEW c \in Converts, DirTypeOK', FilesMove, DraftsMove,
         \A d \in Converts : d # c => step'[d] = step[d] /\ run'[d] = run[d],
         step[c] \notin Stopped, overlap' = overlap,
         MemoryOf(c)', RightOf(c)', Sound(run'[c].ck, files', pbf'),
         Sound(ckpt', files', pbf'),
         ~ overlap => WholeOf(c)' /\ BarrierOf(c)'
  PROVE  DirInv'
<1> DEFINE D == Converts \ {c}
<1>1. \A d \in D : MemoryOf(d)' /\ Sound(run'[d].ck, files', pbf') /\ RightOf(d)'
  BY OthersStay
<1>2. Memory'
  BY <1>1 DEF Memory
<1>3. Truth'
  BY <1>1, DraftsStay DEF Truth
<1>4. Alone'
  <2> SUFFICES ASSUME ~ overlap
               PROVE  OneAtWork' /\ \A d \in D : WholeOf(d)' /\ BarrierOf(d)'
    BY DEF Alone
  <2>1. \A d \in D : step[d] \in Stopped
    BY DEF DirInv, Alone, OneAtWork
  <2>2. OneAtWork'
    BY <2>1 DEF OneAtWork
  <2>3. ASSUME NEW d \in D PROVE WholeOf(d)' /\ BarrierOf(d)'
    <3>1. step'[d] \in Stopped
      BY <2>1, <2>3
    <3> QED BY <3>1 DEF WholeOf, BarrierOf, Stopped, Building
  <2> QED BY <2>2, <2>3
<1> QED BY <1>2, <1>3, <1>4 DEF DirInv

\* Steps of the lock alone.
LEMMA AsideKeeps ==
  ASSUME DirInv, UNCHANGED <<files, inPoi, manifest, step, run, envVars>>, DraftsMove,
         ckpt' \in Checkpoint, Sound(ckpt', files', pbf')
  PROVE  DirInv'
<1>1. FilesMove
  BY DEF FilesMove, envVars
<1>2. DirTypeOK'
  BY DEF DirInv, DirTypeOK, DraftsMove, envVars
<1>3. \A d \in Converts : MemoryOf(d)' /\ Sound(run'[d].ck, files', pbf') /\ RightOf(d)'
  BY <1>1, OthersStay
<1>4. Alone'
  BY DEF DirInv, Alone, OneAtWork, WholeOf, BarrierOf, CarTiles, envVars
<1> QED BY <1>1, <1>2, <1>3, <1>4, DraftsStay DEF DirInv, Memory, Truth

\* The lock rewrites the checkpoint from what it once said.
LEMMA LockDrafts ==
  ASSUME DirInv, NEW t \in Tasks, LockStep(t)
  PROVE  /\ DraftsMove /\ ckpt' \in Checkpoint
         /\ \E K \in {ckpt, NoCkpt, draft[t].text} : Says(K)
<1> USE Constants
<1>1. draft \in [Tasks -> Draft] /\ ckpt \in Checkpoint
  BY DEF DirInv, DirTypeOK
<1>2. ASSUME NEW pids, ClearOwner(t, pids) PROVE DraftsMove
  <2>1. [stage |-> "open", text |-> ckpt] \in Draft
    BY <1>1 DEF Draft
  <2> QED BY <1>1, <1>2, <2>1 DEF ClearOwner, DraftsMove
<1>3. draft' = draft => DraftsMove
  BY <1>1 DEF DraftsMove
<1>4. ckpt' = ckpt => ckpt' \in Checkpoint /\ Says(ckpt)
  BY <1>1 DEF Says
<1>5. CASE Recover(t) \/ Reclaim(t)
  BY <1>2, <1>4, <1>5 DEF Recover, Reclaim
<1>6. CASE CheckRegistry(t) \/ CheckFile(t) \/ Install(t) \/ Persist(t) \/ Unlock(t) \/ Unregister(t)
  BY <1>3, <1>4, <1>6 DEF CheckRegistry, CheckFile, Install, Persist, Unlock, Unregister
<1>7. CASE Open(t)
  <2>1. DraftsMove
    BY <1>1, <1>7 DEF Open, DraftsMove, Draft
  <2>2. CASE ckpt' = Torn
    BY <2>1, <2>2 DEF Says
  <2> QED BY <1>4, <1>7, <2>1, <2>2 DEF Open
<1>8. CASE Fill(t)
  <2>1. DraftsMove
    BY <1>1, <1>8 DEF Fill, DraftsMove
  <2>2. CASE ckpt' = [draft[t].text EXCEPT !.owner = "none"]
    <3>1. draft[t].text \in Checkpoint
      BY <1>1 DEF Draft
    <3>2. ckpt' \in Checkpoint /\ Says(draft[t].text)
      BY <2>2, <3>1 DEF Checkpoint, Says
    <3> QED BY <2>1, <3>2
  <2> QED BY <1>4, <1>8, <2>1, <2>2 DEF Fill
<1> QED BY <1>5, <1>6, <1>7, <1>8 DEF LockStep

LEMMA LockKeepsDir ==
  ASSUME DirInv, NEW t \in Tasks, ConvertLock(t)
  PROVE  DirInv'
<1>1. LockStep(t) /\ UNCHANGED <<files, inPoi, manifest, step, run, envVars>>
  BY DEF ConvertLock
<1>2. DraftsMove /\ ckpt' \in Checkpoint
  BY <1>1, LockDrafts
<1>3. PICK K \in {ckpt, NoCkpt, draft[t].text} : Says(K)
  BY <1>1, LockDrafts
<1>4. Sound(K, files, pbf)
  BY <1>3, NothingIsSound DEF DirInv, DirTypeOK, Truth
<1>5. Sound(ckpt', files', pbf')
  BY <1>1, <1>3, <1>4 DEF Says, Sound, envVars
<1> QED BY <1>1, <1>2, <1>5, AsideKeeps

\* The lock's own moves that a converter or a plan makes elsewhere.
LEMMA PlanKeepsDir ==
  ASSUME DirInv, NEW t \in Tasks, Ask(t) \/ Release(t) \/ Cancel(t), UNCHANGED <<dirVars, step, run, envVars>>
  PROVE  DirInv'
<1>1. draft \in [Tasks -> Draft] /\ ckpt \in Checkpoint /\ [stage |-> "open", text |-> ckpt] \in Draft
  BY DEF DirInv, DirTypeOK, Draft
<1>2. DraftsMove
  BY <1>1 DEF Ask, Release, Cancel, ClearOwner, DraftsMove
<1>3. Sound(ckpt', files', pbf')
  BY DEF DirInv, Truth, dirVars, envVars
<1> QED BY <1>1, <1>2, <1>3, AsideKeeps DEF dirVars

-----------------------------------------------------------------------------

LEMMA StepsKnown ==
  /\ Working \subseteq Steps /\ Stopped \subseteq Steps /\ {"recover", "return", "fail", "removing"} \subseteq Steps
  /\ Phases \cup Building \cup {"scan", "sweep", "manifest", "clean"} = Working
  /\ Working \cap (Stopped \cup {"recover", "return", "fail", "removing"}) = {}
  /\ Stopped \cap {"recover", "return", "fail", "removing"} = {}
BY DEF Steps, Working, Stopped, Phases, Building

\* A converter that stops or gives up has nothing left in memory.
LEMMA StopKeeps ==
  ASSUME DirInv, NEW c \in Converts, NEW to \in {"return", "fail", "ended", "killed"},
         step[c] \notin Stopped, step' = [step EXCEPT ![c] = to],
         run' = run \/ run' = [run EXCEPT ![c] = Fresh],
         step[c] \in Working => run' = [run EXCEPT ![c] = Fresh],
         ckpt' = ckpt \/ ckpt' = NoCkpt,
         UNCHANGED <<draft, files, inPoi, manifest, envVars>>
  PROVE  DirInv'
<1> USE Constants
<1>1. \A d \in Converts : d # c => step'[d] = step[d] /\ run'[d] = run[d]
  BY DEF DirInv, DirTypeOK
<1>2. step'[c] = to /\ run'[c] \in {run[c], Fresh}
  BY DEF DirInv, DirTypeOK
<1>3. DirTypeOK'
  BY StepsKnown DEF DirInv, DirTypeOK, envVars, Stopped
<1>4. FilesMove /\ DraftsMove /\ overlap' = overlap
  BY DEF FilesMove, DraftsMove, DirInv, DirTypeOK, envVars
<1>5. Sound(NoCkpt, files, pbf)
  BY NothingIsSound DEF DirInv, DirTypeOK
<1>6. Sound(ckpt', files', pbf') /\ Sound(run'[c].ck, files', pbf')
  BY <1>2, <1>5 DEF DirInv, Truth, envVars
<1>7. MemoryOf(c)'
  BY <1>2 DEF DirInv, Memory, MemoryOf, Phases
<1>8. RightOf(c)' /\ WholeOf(c)' /\ BarrierOf(c)'
  BY <1>2 DEF RightOf, WholeOf, BarrierOf, Working, Phases, Building
<1> QED BY <1>1, <1>3, <1>4, <1>6, <1>7, <1>8, WorkKeeps

LEMMA BeginKeeps ==
  ASSUME DirInv, NEW c \in Converts, Begin(c)
  PROVE  DirInv'
<1> USE Constants
<1>1. /\ step[c] = "idle" /\ step' = [step EXCEPT ![c] = "recover"] /\ UNCHANGED <<dirVars, run, pbf, draft>>
      /\ overlap' = (overlap \/ Others(c) # {})
  BY DEF Begin, Ask, Goto
<1>2. step'[c] = "recover" /\ \A d \in Converts : d # c => step'[d] = step[d]
  BY <1>1 DEF DirInv, DirTypeOK
<1>3. DirTypeOK'
  BY <1>1, StepsKnown DEF DirInv, DirTypeOK, dirVars
<1>4. FilesMove /\ DraftsMove
  BY <1>1 DEF FilesMove, DraftsMove, DirInv, DirTypeOK, dirVars
<1>5. Memory'
  BY <1>1, <1>2 DEF DirInv, Memory, MemoryOf, Phases
<1>6. Truth'
  BY <1>1, <1>2 DEF DirInv, Truth, RightOf, dirVars, Working, Phases, Building
<1>7. Alone'
  <2> SUFFICES ASSUME ~ overlap'
               PROVE  OneAtWork' /\ \A d \in Converts : WholeOf(d)' /\ BarrierOf(d)'
    BY DEF Alone
  <2>1. \A d \in Converts : d # c => step'[d] \in Stopped
    BY <1>1, <1>2 DEF Others
  <2>2. OneAtWork'
    BY <2>1 DEF OneAtWork
  <2>3. ASSUME NEW d \in Converts PROVE step'[d] \in Stopped \cup {"recover"}
    BY <1>2, <2>1, <2>3
  <2>4. ASSUME NEW d \in Converts PROVE WholeOf(d)' /\ BarrierOf(d)'
    BY <2>3, <2>4 DEF WholeOf, BarrierOf, Stopped, Building
  <2> QED BY <2>2, <2>4
<1> QED BY <1>3, <1>5, <1>6, <1>7 DEF DirInv

\* What is loaded is a sound text of the present extract.
LEMMA LoadKeeps ==
  ASSUME DirInv, NEW c \in Converts, Load(c)
  PROVE  DirInv'
<1> USE Constants
<1>1. /\ step[c] = "recover" /\ step' = [step EXCEPT ![c] = "scan"]
      /\ run' = [run EXCEPT ![c].ck = Loaded]
      /\ ckpt' \in {ckpt, NoCkpt} /\ UNCHANGED <<draft, files, inPoi, manifest, pbf, overlap>>
  BY DEF Load, Recovered, Goto, envVars
<1>2. pbf \in 1..MaxPbf /\ pbf \in 0..MaxPbf /\ ckpt \in Checkpoint
  BY DEF DirInv, DirTypeOK
<1>3. Loaded \in Checkpoint /\ Loaded.pbf = pbf
  BY <1>2 DEF Loaded, Checkpoint, NoCkpt
<1>4. Sound(Loaded, files, pbf)
  BY <1>2 DEF Loaded, Sound, NoCkpt, DirInv, Truth
<1>5. run[c] = Fresh
  BY <1>1 DEF DirInv, Memory, MemoryOf
<1>6. /\ run'[c].ck = Loaded /\ run'[c].todo = {} /\ run'[c].wrote = {} /\ run'[c].built = {} /\ step'[c] = "scan"
      /\ run'[c] \in Runs
  BY <1>1, <1>3, <1>5 DEF DirInv, DirTypeOK, Runs, Fresh
<1>7. \A d \in Converts : d # c => step'[d] = step[d] /\ run'[d] = run[d]
  BY <1>1 DEF DirInv, DirTypeOK
<1>8. DirTypeOK'
  <2>1. run' \in [Converts -> Runs]
    BY <1>1, <1>6, <1>7 DEF DirInv, DirTypeOK
  <2>2. step' \in [Converts -> Steps]
    BY <1>1, StepsKnown DEF DirInv, DirTypeOK
  <2> QED BY <1>1, <2>1, <2>2 DEF DirInv, DirTypeOK
<1>9. FilesMove /\ DraftsMove
  BY <1>1 DEF FilesMove, DraftsMove, DirInv, DirTypeOK
<1>10. Sound(NoCkpt, files, pbf)
  BY <1>2, NothingIsSound
<1>11. Sound(ckpt', files', pbf') /\ Sound(run'[c].ck, files', pbf')
  BY <1>1, <1>4, <1>6, <1>10 DEF DirInv, Truth
<1>12. MemoryOf(c)' /\ RightOf(c)'
  BY <1>1, <1>3, <1>6 DEF MemoryOf, RightOf
<1>13. WholeOf(c)' /\ BarrierOf(c)'
  BY <1>6 DEF WholeOf, BarrierOf, Building
<1>14. step[c] \notin Stopped
  BY <1>1 DEF Stopped
<1> QED BY <1>1, <1>7, <1>8, <1>9, <1>11, <1>12, <1>13, <1>14, WorkKeeps

\* Saving and sweeping, still without the lock.
LEMMA SaveKeeps ==
  ASSUME DirInv, NEW c \in Converts, SaveLoaded(c) \/ Sweep(c)
  PROVE  DirInv'
<1> USE Constants
<1>1. /\ step[c] \in {"scan", "sweep"} /\ step'[c] \in {"sweep", "graphs"} /\ step' \in [Converts -> Steps]
      /\ \A d \in Converts : d # c => step'[d] = step[d]
      /\ ckpt' \in {ckpt, run[c].ck} /\ UNCHANGED <<draft, run, inPoi, manifest, pbf, overlap>>
  BY StepsKnown DEF SaveLoaded, Sweep, Goto, envVars, lockVars, DirInv, DirTypeOK, Working, Phases
<1>2. files' \in [Archives -> 0..MaxPbf] /\ \A a \in Archives : files'[a] \in {files[a], 0}
  BY DEF SaveLoaded, Sweep, Swept, DirInv, DirTypeOK
<1>3. FilesMove /\ DraftsMove
  BY <1>1, <1>2 DEF FilesMove, DraftsMove, DirInv, DirTypeOK
<1>4. run[c] \in Runs
  BY DEF DirInv, DirTypeOK
<1>5. DirTypeOK'
  BY <1>1, <1>2, <1>4 DEF DirInv, DirTypeOK, Runs
<1>6. Sound(ckpt, files, pbf) /\ Sound(run[c].ck, files, pbf)
  BY DEF DirInv, Truth
<1>7. Sound(ckpt, files', pbf) /\ Sound(run[c].ck, files', pbf)
  BY <1>3, <1>6, SoundStays DEF FilesMove
<1>8. Sound(ckpt', files', pbf') /\ Sound(run'[c].ck, files', pbf')
  BY <1>1, <1>7
<1>9. run[c].wrote = {} /\ run[c].ck.pbf = pbf
  BY <1>1 DEF DirInv, Memory, MemoryOf, Truth, RightOf, Working
<1>10. MemoryOf(c)' /\ RightOf(c)'
  BY <1>1, <1>9 DEF MemoryOf, RightOf, Phases, DirInv, Memory
<1>11. ~ overlap => WholeOf(c)' /\ BarrierOf(c)'
  BY <1>1 DEF WholeOf, BarrierOf, Building, DirInv, Alone
<1>12. step[c] \notin Stopped
  BY <1>1 DEF Stopped
<1> QED BY <1>1, <1>3, <1>5, <1>8, <1>10, <1>11, <1>12, WorkKeeps

\* A listed archive that is there is of the present extract.
LEMMA PresentIsRight ==
  ASSUME DirInv, NEW c \in Converts, step[c] \in Working, NEW a \in Archives, Present(c, a)
  PROVE  files[a] = pbf
BY DEF DirInv, Truth, RightOf, Sound, Present, Listed

LEMMA ArchivesKnown == Tiles \subseteq Archives /\ "poi" \in Archives /\ "wetland" \in Archives
BY DEF Archives

LEMMA SkipKeeps ==
  ASSUME DirInv, NEW c \in Converts, SkipPhase(c)
  PROVE  DirInv'
<1> USE Constants
<1>1. /\ step[c] \in Phases /\ step'[c] = After(step[c]) /\ step' = [step EXCEPT ![c] = After(step[c])]
      /\ UNCHANGED <<draft, run, files, inPoi, ckpt, manifest, pbf, overlap>>
      /\ \A d \in Converts : d # c => step'[d] = step[d]
  BY DEF SkipPhase, Goto, DirInv, DirTypeOK, envVars, dirVars, lockVars
<1>2. step[c] \in Working /\ step[c] \notin Stopped
  BY <1>1 DEF Working, Phases, Stopped
<1>3. step'[c] \in {"poi", "wetland", "manifest"}
  BY <1>1 DEF After, Phases
<1>4. DirTypeOK'
  BY <1>1, <1>3 DEF DirInv, DirTypeOK, Steps, Working, Phases
<1>5. FilesMove /\ DraftsMove
  BY <1>1 DEF FilesMove, DraftsMove, DirInv, DirTypeOK
<1>6. Sound(ckpt', files', pbf') /\ Sound(run'[c].ck, files', pbf')
  BY <1>1 DEF DirInv, Truth
<1>7. MemoryOf(c)' /\ RightOf(c)'
  BY <1>1, <1>2, <1>3 DEF DirInv, Memory, MemoryOf, Truth, RightOf, Phases
<1>8. ASSUME ~ overlap PROVE WholeOf(c)' /\ BarrierOf(c)'
  <2>1. WholeOf(c) /\ BarrierOf(c)
    BY <1>8 DEF DirInv, Alone
  <2>2. CASE step[c] = "graphs"
    <3>1. \A t \in Tiles : files[t] = pbf
      BY <1>2, <2>2, PresentIsRight, ArchivesKnown DEF SkipPhase, PhasePresent
    <3>2. step'[c] = "poi" /\ run[c].built = {}
      BY <1>1, <2>1, <2>2 DEF After, BarrierOf
    <3> QED BY <1>1, <3>1, <3>2 DEF WholeOf, BarrierOf, Building
  <2>3. CASE step[c] = "poi"
    <3>1. files["poi"] = pbf
      BY <1>2, <2>3, PresentIsRight, ArchivesKnown DEF SkipPhase, PhasePresent
    <3>2. step'[c] = "wetland" /\ "poi" \notin run[c].built
      BY <1>1, <2>1, <2>3 DEF After, BarrierOf
    <3> QED BY <1>1, <2>1, <2>3, <3>1, <3>2 DEF WholeOf, BarrierOf, Building
  <2>4. CASE step[c] = "wetland"
    <3>1. files["wetland"] = pbf
      BY <1>2, <2>4, PresentIsRight, ArchivesKnown DEF SkipPhase, PhasePresent
    <3>2. step'[c] = "manifest"
      BY <1>1, <2>4 DEF After
    <3>3. WholeOf(c)'
      BY <1>1, <2>1, <2>4, <3>1, <3>2 DEF WholeOf, Building
    <3>4. BarrierOf(c)'
      BY <1>1, <2>1, <2>4, <3>2 DEF BarrierOf, CarTiles
    <3> QED BY <3>3, <3>4
  <2> QED BY <1>1, <2>2, <2>3, <2>4 DEF Phases
<1> QED BY <1>1, <1>2, <1>4, <1>5, <1>6, <1>7, <1>8, WorkKeeps

\* A phase that is entered has in place or still has to build what is its.
LEMMA EnterKeeps ==
  ASSUME DirInv, NEW c \in Converts, Enter(c)
  PROVE  DirInv'
<1> USE Constants
<1> DEFINE ph == step[c]
           owned == [run[c].ck EXCEPT !.owner = ProcOf[c]]
<1>1. /\ ph \in Phases /\ step' = [step EXCEPT ![c] = Builds(ph)]
      /\ run' = [run EXCEPT ![c].ck = owned, ![c].owns = TRUE, ![c].todo = Todo(c, ph)]
      /\ ckpt' = owned /\ UNCHANGED <<draft, inPoi, manifest, pbf, overlap>>
  BY DEF Enter, SetPhase, Goto, envVars, lockVars
<1>2. run[c] \in Runs /\ run[c].wrote = {} /\ ph \in Working /\ ph \notin Stopped
  BY <1>1 DEF DirInv, DirTypeOK, Memory, MemoryOf, Working, Phases, Stopped
<1>3. owned \in Checkpoint /\ owned.pbf = run[c].ck.pbf /\ owned.done = run[c].ck.done
  <2>1. ProcOf[c] \in Procs /\ run[c].ck \in Checkpoint
    BY <1>2, LockAssumption, ConvertsAreTasks DEF Runs
  <2> QED BY <2>1 DEF Checkpoint
<1> HIDE DEF owned
<1>4. Todo(c, ph) \subseteq Archives /\ Archives \subseteq Names
  BY <1>1 DEF Todo, Archives, Phases, Names
<1>5. /\ run'[c].ck = owned /\ run'[c].todo = Todo(c, ph) /\ run'[c].wrote = {}
      /\ run'[c].built = run[c].built /\ run'[c].lost = run[c].lost /\ run'[c] \in Runs
  BY <1>1, <1>2, <1>3, <1>4 DEF DirInv, DirTypeOK, Runs
<1>6. \A d \in Converts : d # c => step'[d] = step[d] /\ run'[d] = run[d]
  BY <1>1 DEF DirInv, DirTypeOK
<1>7. step'[c] = Builds(ph) /\ step'[c] \in Building
  BY <1>1 DEF DirInv, DirTypeOK, Builds, Building
<1>8. files' \in [Archives -> 0..MaxPbf] /\ \A a \in Archives \ {"wetland"} : files'[a] = files[a]
  BY DEF Enter, DirInv, DirTypeOK
<1>9. files'["wetland"] \in {files["wetland"], 0} /\ (ph # "wetland" => files' = files)
  BY ArchivesKnown DEF Enter, DirInv, DirTypeOK
<1>10. FilesMove /\ DraftsMove
  BY <1>1, <1>8, <1>9 DEF FilesMove, DraftsMove, DirInv, DirTypeOK
<1>11. DirTypeOK'
  <2>1. run' \in [Converts -> Runs]
    BY <1>1, <1>5, <1>6 DEF DirInv, DirTypeOK
  <2>2. step' \in [Converts -> Steps]
    BY <1>1, <1>7, StepsKnown DEF DirInv, DirTypeOK
  <2> QED BY <1>1, <1>3, <1>8, <2>1, <2>2 DEF DirInv, DirTypeOK
<1>12. Sound(run[c].ck, files', pbf)
  BY <1>10, SoundStays DEF DirInv, Truth, FilesMove
<1>13. Sound(owned, files', pbf)
  BY <1>3, <1>12 DEF Sound
<1>14. Sound(ckpt', files', pbf') /\ Sound(run'[c].ck, files', pbf')
  BY <1>1, <1>5, <1>13
<1>15. RightOf(c)'
  BY <1>1, <1>2, <1>3, <1>5 DEF DirInv, Truth, RightOf
<1>16. MemoryOf(c)'
  <2>1. step'[c] \notin {"idle", "recover", "scan", "sweep", "removing"} \cup Phases
    BY <1>7 DEF Building, Phases
  <2>2. CASE ph = "graphs"
    BY <1>5, <1>7, <2>1, <2>2 DEF MemoryOf, Builds, Todo
  <2>3. CASE ph = "poi"
    BY <1>5, <1>7, <2>1, <2>3 DEF MemoryOf, Builds, Todo
  <2>4. CASE ph = "wetland"
    BY <1>5, <1>7, <2>1, <2>4 DEF MemoryOf, Builds, Todo
  <2> QED BY <1>1, <2>2, <2>3, <2>4 DEF Phases
<1>17. ASSUME ~ overlap PROVE WholeOf(c)' /\ BarrierOf(c)'
  <2>1. WholeOf(c) /\ BarrierOf(c)
    BY <1>17 DEF DirInv, Alone
  <2>2. CASE ph = "graphs"
    <3>1. step'[c] = "tiles"
      BY <1>7, <2>2 DEF Builds
    <3>2. \A t \in Tiles : t \in Todo(c, ph) \/ files[t] = pbf
      BY <1>2, <2>2, PresentIsRight, ArchivesKnown DEF Todo
    <3>3. files' = files /\ run[c].built = {}
      BY <1>9, <2>1, <2>2 DEF BarrierOf
    <3> QED BY <1>1, <1>5, <3>1, <3>2, <3>3 DEF WholeOf, BarrierOf
  <2>3. CASE ph = "poi"
    <3>1. step'[c] = "build_poi" /\ files' = files
      BY <1>7, <1>9, <2>3 DEF Builds
    <3>2. "poi" \notin run[c].built /\ \A t \in Tiles : files[t] = pbf
      BY <2>1, <2>3 DEF WholeOf, BarrierOf
    <3> QED BY <1>1, <1>5, <3>1, <3>2 DEF WholeOf, BarrierOf
  <2>4. CASE ph = "wetland"
    <3>1. step'[c] = "build_wetland"
      BY <1>7, <2>4 DEF Builds
    <3>2. files["poi"] = pbf /\ \A t \in Tiles : files[t] = pbf
      BY <2>1, <2>4 DEF WholeOf
    <3>3. "wetland" \notin Tiles
      BY ConvertAssumption
    <3>4. files'["poi"] = pbf /\ \A t \in Tiles : files'[t] = pbf
      BY <1>8, <3>2, <3>3, ArchivesKnown
    <3>5. Tiles \cup {"poi"} \subseteq run'[c].built => inPoi' = CarTiles'
      BY <1>1, <1>5, <2>1, <2>4 DEF BarrierOf, CarTiles
    <3> QED BY <1>1, <1>5, <3>1, <3>4, <3>5 DEF WholeOf, BarrierOf
  <2> QED BY <1>1, <2>2, <2>3, <2>4 DEF Phases
<1> QED BY <1>1, <1>2, <1>6, <1>10, <1>11, <1>14, <1>15, <1>16, <1>17, WorkKeeps

LEMMA WriteKeeps ==
  ASSUME DirInv, NEW c \in Converts, NEW a \in Archives, Write(c, a)
  PROVE  DirInv'
<1> USE Constants
<1>1. /\ step[c] \in Building /\ step' = step /\ a \in run[c].todo
      /\ files' = [files EXCEPT ![a] = pbf]
      /\ run' = [run EXCEPT ![c].wrote = @ \cup {a}, ![c].built = @ \cup {a}]
      /\ inPoi' = (IF a = "poi" THEN run[c].built \cap CarTiles ELSE inPoi)
      /\ UNCHANGED <<draft, ckpt, manifest, pbf, overlap>>
  BY DEF Write, envVars, lockVars
<1>2. /\ run[c] \in Runs /\ pbf \in 1..MaxPbf /\ pbf \in 0..MaxPbf
      /\ step[c] \in Working /\ step[c] \notin Stopped
  BY <1>1 DEF DirInv, DirTypeOK, Working, Building, Stopped
<1>3. /\ run'[c].ck = run[c].ck /\ run'[c].todo = run[c].todo /\ run'[c].lost = run[c].lost
      /\ run'[c].wrote = run[c].wrote \cup {a} /\ run'[c].built = run[c].built \cup {a}
      /\ run'[c] \in Runs
  BY <1>1, <1>2 DEF DirInv, DirTypeOK, Runs
<1>4. \A d \in Converts : d # c => step'[d] = step[d] /\ run'[d] = run[d]
  BY <1>1 DEF DirInv, DirTypeOK
<1>5. files' \in [Archives -> 0..MaxPbf] /\ files'[a] = pbf /\ \A b \in Archives : b # a => files'[b] = files[b]
  BY <1>1, <1>2 DEF DirInv, DirTypeOK
<1>6. FilesMove /\ DraftsMove
  BY <1>1, <1>5 DEF FilesMove, DraftsMove, DirInv, DirTypeOK
<1>7. DirTypeOK'
  <2>1. run' \in [Converts -> Runs]
    BY <1>1, <1>3, <1>4 DEF DirInv, DirTypeOK
  <2>2. inPoi' \subseteq Tiles
    BY <1>1 DEF DirInv, DirTypeOK, CarTiles
  <2> QED BY <1>1, <1>5, <2>1, <2>2 DEF DirInv, DirTypeOK
<1>8. Sound(ckpt', files', pbf') /\ Sound(run'[c].ck, files', pbf')
  <2>1. Sound(ckpt, files, pbf) /\ Sound(run[c].ck, files, pbf)
    BY DEF DirInv, Truth
  <2>2. Sound(ckpt, files', pbf) /\ Sound(run[c].ck, files', pbf)
    BY <1>6, <2>1, SoundStays DEF FilesMove
  <2> QED BY <1>1, <1>3, <2>2
<1>9. RightOf(c)'
  <2>1. RightOf(c)
    BY DEF DirInv, Truth
  <2>2. \A b \in run'[c].wrote : b \in Archives /\ files'[b] \in {0, pbf}
    BY <1>2, <1>3, <1>5, <2>1 DEF RightOf
  <2> QED BY <1>1, <1>2, <1>3, <2>1, <2>2 DEF RightOf
<1>10. MemoryOf(c)'
  BY <1>1, <1>3 DEF DirInv, Memory, MemoryOf, Building, Phases
<1>11. ASSUME ~ overlap PROVE WholeOf(c)' /\ BarrierOf(c)'
  <2>1. WholeOf(c) /\ BarrierOf(c)
    BY <1>11 DEF DirInv, Alone
  <2>2. \A b \in Archives : files[b] = pbf => files'[b] = pbf
    BY <1>5
  <2>3. WholeOf(c)'
    <3>1. \A b \in run'[c].wrote : files'[b] = pbf
      BY <1>1, <1>2, <1>3, <1>5, <2>1, <2>2 DEF WholeOf, DirInv, Truth, RightOf
    <3> QED BY <1>1, <1>3, <2>1, <2>2, <3>1, ArchivesKnown DEF WholeOf, Building
  <2>4. BarrierOf(c)'
    <3>1. CASE step[c] = "tiles"
      <4>1. a # "poi"
        BY <1>1, <3>1, ConvertAssumption DEF DirInv, Memory, MemoryOf
      <4> QED BY <1>1, <1>3, <2>1, <3>1, <4>1 DEF BarrierOf
    <3>2. CASE step[c] = "build_poi"
      <4>1. a = "poi" /\ a \notin Tiles
        BY <1>1, <3>2, ConvertAssumption DEF DirInv, Memory, MemoryOf
      <4>2. Tiles \subseteq run'[c].built => inPoi' = CarTiles
        BY <1>1, <1>3, <4>1 DEF CarTiles
      <4> QED BY <1>1, <3>2, <4>2 DEF BarrierOf, CarTiles
    <3>3. CASE step[c] = "build_wetland"
      <4>1. a = "wetland" /\ a \notin Tiles /\ inPoi' = inPoi
        BY <1>1, <3>3, ConvertAssumption DEF DirInv, Memory, MemoryOf
      <4>2. Tiles \cup {"poi"} \subseteq run'[c].built => Tiles \cup {"poi"} \subseteq run[c].built
        BY <1>3, <4>1
      <4>3. Tiles \cup {"poi"} \subseteq run[c].built => inPoi = CarTiles
        BY <2>1, <3>3 DEF BarrierOf
      <4> QED BY <1>1, <3>3, <4>1, <4>2, <4>3 DEF BarrierOf, CarTiles
    <3> QED BY <1>1, <3>1, <3>2, <3>3 DEF Building
  <2> QED BY <2>3, <2>4
<1> QED BY <1>1, <1>2, <1>4, <1>6, <1>7, <1>8, <1>9, <1>10, <1>11, WorkKeeps

\* Given up, the wetlands listed are there or not.
LEMMA SkipWetlandKeeps ==
  ASSUME DirInv, NEW c \in Converts, SkipWetland(c)
  PROVE  DirInv'
<1> USE Constants
<1>1. /\ step[c] = "build_wetland" /\ run[c].wrote = {} /\ ckpt' = run[c].ck
      /\ run' = [run EXCEPT ![c].lost = TRUE]
      /\ step' = IF "wetland" \in Listed(c) THEN [step EXCEPT ![c] = "manifest"] ELSE step
      /\ UNCHANGED <<draft, files, inPoi, manifest, pbf, overlap>>
  BY DEF SkipWetland, Goto, envVars, lockVars
<1>2. run[c] \in Runs /\ step[c] \in Working /\ step[c] \notin Stopped
  BY <1>1 DEF DirInv, DirTypeOK, Working, Building, Stopped
<1>3. /\ run'[c].ck = run[c].ck /\ run'[c].todo = run[c].todo /\ run'[c].wrote = {}
      /\ run'[c].built = run[c].built /\ run'[c].lost = TRUE /\ run'[c] \in Runs
  BY <1>1, <1>2 DEF DirInv, DirTypeOK, Runs
<1>4. \A d \in Converts : d # c => step'[d] = step[d] /\ run'[d] = run[d]
  BY <1>1 DEF DirInv, DirTypeOK
<1>5. step'[c] = (IF "wetland" \in Listed(c) THEN "manifest" ELSE "build_wetland")
  BY <1>1 DEF DirInv, DirTypeOK
<1>6. FilesMove /\ DraftsMove
  BY <1>1 DEF FilesMove, DraftsMove, DirInv, DirTypeOK
<1>7. DirTypeOK'
  <2>1. run' \in [Converts -> Runs]
    BY <1>1, <1>3, <1>4 DEF DirInv, DirTypeOK
  <2>2. step' \in [Converts -> Steps]
    BY <1>1, StepsKnown DEF DirInv, DirTypeOK, Working
  <2>3. ckpt' \in Checkpoint
    BY <1>1, <1>2 DEF Runs
  <2> QED BY <1>1, <2>1, <2>2, <2>3 DEF DirInv, DirTypeOK
<1>8. Sound(ckpt', files', pbf') /\ Sound(run'[c].ck, files', pbf')
  BY <1>1, <1>3 DEF DirInv, Truth
<1>9. MemoryOf(c)' /\ RightOf(c)'
  BY <1>1, <1>2, <1>3, <1>5 DEF DirInv, Memory, MemoryOf, Truth, RightOf, Phases
<1>10. ASSUME ~ overlap PROVE WholeOf(c)' /\ BarrierOf(c)'
  <2>1. WholeOf(c) /\ BarrierOf(c)
    BY <1>10 DEF DirInv, Alone
  <2>2. "wetland" \in Listed(c) => files["wetland"] \in {0, pbf}
    BY <1>2, ArchivesKnown DEF DirInv, Truth, RightOf, Sound, Listed
  <2>3. files["poi"] = pbf /\ \A t \in Tiles : files[t] = pbf
    BY <1>1, <2>1 DEF WholeOf
  <2>4. WholeOf(c)'
    BY <1>1, <1>3, <1>5, <2>2, <2>3 DEF WholeOf
  <2>5. Tiles \cup {"poi"} \subseteq run[c].built => inPoi = CarTiles
    BY <1>1, <2>1 DEF BarrierOf
  <2>6. BarrierOf(c)'
    BY <1>1, <1>3, <1>5, <2>5 DEF BarrierOf, CarTiles
  <2> QED BY <2>4, <2>6
<1> QED BY <1>1, <1>2, <1>4, <1>6, <1>7, <1>8, <1>9, <1>10, WorkKeeps

\* What Save leaves in memory and on disk.
LEMMA Saved ==
  ASSUME DirInv, NEW c \in Converts, NEW items \in SUBSET Items, Save(c, items)
  PROVE  /\ run'[c].ck.pbf = run[c].ck.pbf /\ run'[c].ck.done = run[c].ck.done \cup items
         /\ run'[c].todo = run[c].todo \ items /\ run'[c].wrote = run[c].wrote \ items
         /\ run'[c].built = run[c].built /\ run'[c].lost = run[c].lost
         /\ ckpt' = run'[c].ck
         /\ ckpt' \in Checkpoint
         /\ run' \in [Converts -> Runs]
         /\ \A d \in Converts : d # c => run'[d] = run[d]
<1> DEFINE saved == [run[c].ck EXCEPT !.done = @ \cup items]
<1>1. run[c] \in Runs
  BY DEF DirInv, DirTypeOK
<1>2. saved \in Checkpoint /\ saved.pbf = run[c].ck.pbf /\ saved.done = run[c].ck.done \cup items
  BY <1>1 DEF Runs, Checkpoint
<1>3. ckpt' = saved
  BY DEF Save
<1> HIDE DEF saved
<1>4. run' = [run EXCEPT ![c].ck = saved, ![c].todo = @ \ items, ![c].wrote = @ \ items]
  BY DEF Save, saved
<1>5. /\ run'[c].ck = saved /\ run'[c].todo = run[c].todo \ items /\ run'[c].wrote = run[c].wrote \ items
      /\ run'[c].built = run[c].built /\ run'[c].lost = run[c].lost /\ run'[c] \in Runs
  BY <1>1, <1>2, <1>4 DEF DirInv, DirTypeOK, Runs
<1>6. \A d \in Converts : d # c => run'[d] = run[d]
  BY <1>4 DEF DirInv, DirTypeOK
<1>7. run' \in [Converts -> Runs]
  BY <1>4, <1>5, <1>6 DEF DirInv, DirTypeOK
<1> QED BY <1>2, <1>3, <1>5, <1>6, <1>7

\* A text that also lists what was just built is as sound as before.
LEMMA SavedSound ==
  ASSUME NEW K, NEW L, NEW fs, NEW v, Sound(K, fs, v), L.pbf = K.pbf, NEW items,
         L.done = K.done \cup items, \A a \in items \cap Archives : fs[a] \in {0, v}
  PROVE  Sound(L, fs, v)
BY DEF Sound

LEMMA RecordKeeps ==
  ASSUME DirInv, NEW c \in Converts, NEW a \in Archives, RecordArchive(c, a)
  PROVE  DirInv'
<1> USE Constants
<1>1. /\ step[c] \in Building /\ a \in run[c].wrote /\ Save(c, {a})
      /\ step' = IF a \in Tiles THEN step ELSE [step EXCEPT ![c] = After(a)]
      /\ UNCHANGED <<draft, files, inPoi, manifest, pbf, overlap>>
  BY DEF RecordArchive, Goto, envVars, lockVars
<1>2. {a} \in SUBSET Items
  BY DEF Items
<1>3. /\ run'[c].ck.pbf = run[c].ck.pbf /\ run'[c].ck.done = run[c].ck.done \cup {a}
      /\ run'[c].todo = run[c].todo \ {a} /\ run'[c].wrote = run[c].wrote \ {a}
      /\ run'[c].built = run[c].built /\ run'[c].lost = run[c].lost
  BY <1>1, <1>2, Saved
<1>4. /\ ckpt' = run'[c].ck /\ ckpt' \in Checkpoint /\ run' \in [Converts -> Runs]
      /\ \A d \in Converts : d # c => run'[d] = run[d]
  BY <1>1, <1>2, Saved
<1>5. /\ step'[c] = (IF a \in Tiles THEN step[c] ELSE After(a))
      /\ \A d \in Converts : d # c => step'[d] = step[d]
  BY <1>1 DEF DirInv, DirTypeOK
<1>6. step[c] \in Working /\ step[c] \notin Stopped
  BY <1>1 DEF Working, Building, Stopped
<1>7. DirTypeOK'
  <2>1. After(a) \in Steps
    BY DEF After, Steps, Working, Phases
  <2> QED BY <1>1, <1>4, <2>1 DEF DirInv, DirTypeOK
<1>8. FilesMove /\ DraftsMove
  BY <1>1 DEF FilesMove, DraftsMove, DirInv, DirTypeOK
<1>9. RightOf(c) /\ MemoryOf(c) /\ Sound(run[c].ck, files, pbf) /\ a \in run[c].todo
  BY <1>1 DEF DirInv, Truth, Memory, MemoryOf
<1>10. Sound(run'[c].ck, files, pbf)
  <2>1. files[a] \in {0, pbf}
    BY <1>1, <1>6, <1>9 DEF RightOf
  <2> QED BY <1>3, <1>9, <2>1, SavedSound
<1>11. Sound(ckpt', files', pbf') /\ Sound(run'[c].ck, files', pbf')
  BY <1>1, <1>4, <1>10
<1>12. RightOf(c)'
  BY <1>1, <1>3, <1>6, <1>9 DEF RightOf
<1>13. CASE step[c] = "tiles"
  <2>1. a \in Tiles /\ step'[c] = "tiles"
    BY <1>5, <1>9, <1>13 DEF MemoryOf
  <2>2. MemoryOf(c)'
    BY <1>3, <1>9, <1>13, <2>1 DEF MemoryOf, Phases
  <2>3. ASSUME ~ overlap PROVE WholeOf(c)' /\ BarrierOf(c)'
    <3>1. WholeOf(c) /\ BarrierOf(c)
      BY <2>3 DEF DirInv, Alone
    <3>2. WholeOf(c)'
      BY <1>1, <1>3, <1>13, <2>1, <3>1 DEF WholeOf
    <3>3. BarrierOf(c)'
      BY <1>3, <1>13, <2>1, <3>1 DEF BarrierOf
    <3> QED BY <3>2, <3>3
  <2> QED BY <1>1, <1>4, <1>5, <1>6, <1>7, <1>8, <1>11, <1>12, <2>2, <2>3, WorkKeeps
<1>14. CASE step[c] = "build_poi"
  <2>1. a = "poi" /\ a \notin Tiles
    BY <1>9, <1>14, ConvertAssumption DEF MemoryOf
  <2>2. step'[c] = "wetland"
    BY <1>5, <2>1 DEF After
  <2>3. MemoryOf(c)'
    BY <1>3, <1>9, <1>14, <2>1, <2>2 DEF MemoryOf, Phases
  <2>4. ASSUME ~ overlap PROVE WholeOf(c)' /\ BarrierOf(c)'
    <3>1. WholeOf(c) /\ BarrierOf(c)
      BY <2>4 DEF DirInv, Alone
    <3>2. files["poi"] = pbf /\ \A t \in Tiles : files[t] = pbf
      BY <1>1, <1>14, <2>1, <3>1 DEF WholeOf
    <3>3. WholeOf(c)'
      BY <1>1, <2>2, <3>2 DEF WholeOf, Building
    <3>4. BarrierOf(c)'
      BY <1>1, <1>3, <1>14, <2>2, <3>1 DEF BarrierOf, CarTiles
    <3> QED BY <3>3, <3>4
  <2> QED BY <1>1, <1>4, <1>5, <1>6, <1>7, <1>8, <1>11, <1>12, <2>3, <2>4, WorkKeeps
<1>15. CASE step[c] = "build_wetland"
  <2>1. a = "wetland" /\ a \notin Tiles
    BY <1>9, <1>15, ConvertAssumption DEF MemoryOf
  <2>2. step'[c] = "manifest"
    BY <1>5, <2>1 DEF After
  <2>3. MemoryOf(c)'
    BY <1>3, <1>9, <1>15, <2>1, <2>2 DEF MemoryOf, Phases
  <2>4. ASSUME ~ overlap PROVE WholeOf(c)' /\ BarrierOf(c)'
    <3>1. WholeOf(c) /\ BarrierOf(c)
      BY <2>4 DEF DirInv, Alone
    <3>2. files["wetland"] = pbf /\ files["poi"] = pbf /\ \A t \in Tiles : files[t] = pbf
      BY <1>1, <1>15, <2>1, <3>1 DEF WholeOf
    <3>3. WholeOf(c)'
      BY <1>1, <2>2, <3>2 DEF WholeOf, Building
    <3>4. BarrierOf(c)'
      BY <1>1, <1>3, <1>15, <2>2, <3>1 DEF BarrierOf, CarTiles
    <3> QED BY <3>3, <3>4
  <2> QED BY <1>1, <1>4, <1>5, <1>6, <1>7, <1>8, <1>11, <1>12, <2>3, <2>4, WorkKeeps
<1> QED BY <1>1, <1>13, <1>14, <1>15 DEF Building

LEMMA GraphsKeep ==
  ASSUME DirInv, NEW c \in Converts, GraphsComplete(c)
  PROVE  DirInv'
<1> USE Constants
<1>1. /\ step[c] = "tiles" /\ run[c].todo = {} /\ Save(c, {"graphs"})
      /\ step' = [step EXCEPT ![c] = "poi"]
      /\ UNCHANGED <<draft, files, inPoi, manifest, pbf, overlap>>
  BY DEF GraphsComplete, Goto, envVars, lockVars
<1>2. {"graphs"} \in SUBSET Items /\ "graphs" \notin Archives
  BY ConvertAssumption DEF Items, Archives
<1>3. /\ run'[c].ck.pbf = run[c].ck.pbf /\ run'[c].ck.done = run[c].ck.done \cup {"graphs"}
      /\ run'[c].todo = run[c].todo \ {"graphs"} /\ run'[c].wrote = run[c].wrote \ {"graphs"}
      /\ run'[c].built = run[c].built /\ run'[c].lost = run[c].lost
  BY <1>1, <1>2, Saved
<1>4. /\ ckpt' = run'[c].ck /\ ckpt' \in Checkpoint /\ run' \in [Converts -> Runs]
      /\ \A d \in Converts : d # c => run'[d] = run[d]
  BY <1>1, <1>2, Saved
<1>5. step'[c] = "poi" /\ \A d \in Converts : d # c => step'[d] = step[d]
  BY <1>1 DEF DirInv, DirTypeOK
<1>6. step[c] \in Working /\ step[c] \notin Stopped
  BY <1>1 DEF Working, Building, Stopped
<1>7. DirTypeOK'
  BY <1>1, <1>4 DEF DirInv, DirTypeOK, Steps, Working, Phases
<1>8. FilesMove /\ DraftsMove
  BY <1>1 DEF FilesMove, DraftsMove, DirInv, DirTypeOK
<1>9. RightOf(c) /\ MemoryOf(c) /\ Sound(run[c].ck, files, pbf) /\ run[c].wrote = {}
  BY <1>1 DEF DirInv, Truth, Memory, MemoryOf
<1>10. Sound(run'[c].ck, files, pbf)
  <2>1. \A b \in {"graphs"} \cap Archives : files[b] \in {0, pbf}
    BY <1>2
  <2> QED BY <1>3, <1>9, <2>1, SavedSound
<1>11. Sound(ckpt', files', pbf') /\ Sound(run'[c].ck, files', pbf')
  BY <1>1, <1>4, <1>10
<1>12. RightOf(c)' /\ MemoryOf(c)'
  BY <1>1, <1>3, <1>5, <1>6, <1>9 DEF RightOf, MemoryOf
<1>13. ~ overlap => WholeOf(c)' /\ BarrierOf(c)'
  BY <1>1, <1>3, <1>5 DEF DirInv, Alone, WholeOf, BarrierOf, Building
<1> QED BY <1>1, <1>4, <1>5, <1>6, <1>7, <1>8, <1>11, <1>12, <1>13, WorkKeeps

LEMMA ManifestKeeps ==
  ASSUME DirInv, NEW c \in Converts, SaveManifest(c)
  PROVE  DirInv'
<1> USE Constants
<1>1. /\ step[c] = "manifest" /\ step' = [step EXCEPT ![c] = "clean"] /\ manifest' = run[c].ck.pbf
      /\ UNCHANGED <<draft, run, files, inPoi, ckpt, pbf, overlap>>
  BY DEF SaveManifest, Goto, envVars, lockVars
<1>2. step'[c] = "clean" /\ \A d \in Converts : d # c => step'[d] = step[d]
  BY <1>1 DEF DirInv, DirTypeOK
<1>3. DirTypeOK'
  <2>1. manifest' \in 0..MaxPbf
    BY <1>1 DEF DirInv, DirTypeOK, Runs, Checkpoint
  <2> QED BY <1>1, <2>1 DEF DirInv, DirTypeOK, Steps, Working
<1>4. FilesMove /\ DraftsMove
  BY <1>1 DEF FilesMove, DraftsMove, DirInv, DirTypeOK
<1>5. Sound(ckpt', files', pbf') /\ Sound(run'[c].ck, files', pbf')
  BY <1>1 DEF DirInv, Truth
<1>6. RightOf(c)' /\ MemoryOf(c)' /\ WholeOf(c)' /\ BarrierOf(c)'
  BY <1>1, <1>2 DEF DirInv, Truth, RightOf, Memory, MemoryOf, WholeOf, BarrierOf, Working, Phases, Building
<1>7. step[c] \notin Stopped
  BY <1>1 DEF Stopped
<1> QED BY <1>1, <1>2, <1>3, <1>4, <1>5, <1>6, <1>7, WorkKeeps

\* The script takes the directory away.
LEMMA RemovalKeeps ==
  ASSUME DirInv, NEW c \in Converts, StartRemoval(c) \/ \E n \in Names : RemoveName(c, n)
  PROVE  DirInv'
<1> USE Constants
<1>1. /\ step[c] \in {"fail", "return", "removing"} /\ step' = [step EXCEPT ![c] = "removing"]
      /\ UNCHANGED <<draft, pbf, overlap>> /\ inPoi' \in {inPoi, {}} /\ ckpt' \in {ckpt, NoCkpt}
      /\ manifest' \in {manifest, 0}
  BY DEF StartRemoval, RemoveName, Goto, envVars, dirVars, lockVars, DirInv, DirTypeOK
<1>2. files' \in [Archives -> 0..MaxPbf] /\ \A a \in Archives : files'[a] \in {files[a], 0}
  BY DEF StartRemoval, RemoveName, dirVars, DirInv, DirTypeOK
<1>3. /\ \E todo \in SUBSET Names :
           \/ run' = [run EXCEPT ![c] = [Fresh EXCEPT !.todo = todo]]
           \/ run' = [run EXCEPT ![c].todo = todo] /\ step[c] = "removing"
  <2>1. CASE StartRemoval(c)
    <3>1. Named \in SUBSET Names
      BY DEF Named, Names
    <3> QED BY <2>1, <3>1 DEF StartRemoval
  <2>2. CASE \E n \in Names : RemoveName(c, n)
    <3>1. run[c].todo \subseteq Names
      BY DEF DirInv, DirTypeOK, Runs
    <3> QED BY <2>2, <3>1 DEF RemoveName
  <2> QED BY <2>1, <2>2
<1>4. step'[c] = "removing" /\ \A d \in Converts : d # c => step'[d] = step[d] /\ run'[d] = run[d]
  BY <1>1, <1>3 DEF DirInv, DirTypeOK
<1>5. run[c] \in Runs /\ (step[c] = "removing" => run[c].wrote = {})
  BY DEF DirInv, DirTypeOK, Memory, MemoryOf
<1>6. run'[c] \in Runs /\ run'[c].wrote = {} /\ run'[c].ck \in {run[c].ck, NoCkpt}
  BY <1>3, <1>5 DEF Runs, DirInv, DirTypeOK
<1>7. DirTypeOK'
  <2>1. run' \in [Converts -> Runs]
    BY <1>3, <1>4, <1>6 DEF DirInv, DirTypeOK
  <2>2. step' \in [Converts -> Steps]
    BY <1>1 DEF DirInv, DirTypeOK, Steps
  <2> QED BY <1>1, <1>2, <2>1, <2>2 DEF DirInv, DirTypeOK
<1>8. FilesMove /\ DraftsMove
  BY <1>1, <1>2 DEF FilesMove, DraftsMove, DirInv, DirTypeOK
<1>9. Sound(NoCkpt, files, pbf) /\ Sound(ckpt, files, pbf) /\ Sound(run[c].ck, files, pbf)
  BY NothingIsSound DEF DirInv, DirTypeOK, Truth
<1>10. Sound(NoCkpt, files', pbf) /\ Sound(ckpt, files', pbf) /\ Sound(run[c].ck, files', pbf)
  BY <1>8, <1>9, SoundStays DEF FilesMove
<1>11. Sound(ckpt', files', pbf') /\ Sound(run'[c].ck, files', pbf')
  BY <1>1, <1>6, <1>10
<1>12. RightOf(c)' /\ MemoryOf(c)' /\ WholeOf(c)' /\ BarrierOf(c)'
  BY <1>4, <1>6 DEF RightOf, MemoryOf, WholeOf, BarrierOf, Working, Phases, Building
<1>13. step[c] \notin Stopped
  BY <1>1 DEF Stopped
<1> QED BY <1>1, <1>4, <1>7, <1>8, <1>11, <1>12, <1>13, WorkKeeps

\* A kill stops the converters of its process, wherever they were.
LEMMA KillKeepsDir ==
  ASSUME DirInv, NEW p \in Procs, Kill(p)
  PROVE  DirInv'
<1> USE Constants
<1> DEFINE hit == {c \in Converts : ProcOf[c] = p /\ step[c] \notin Stopped \cup {"removing"}}
<1>1. PICK to \in {"fail", "killed"} : step' = [c \in Converts |-> IF c \in hit THEN to ELSE step[c]]
  BY DEF Kill
<1>2. run' = [c \in Converts |-> IF c \in hit THEN Fresh ELSE run[c]]
  BY DEF Kill
<1>3. UNCHANGED <<files, inPoi, ckpt, manifest, pbf, overlap>>
  BY DEF Kill, dirVars, envVars
<1>4. draft' = [t \in Tasks |-> IF ProcOf[t] = p THEN NoDraft ELSE draft[t]]
  BY DEF Kill, KillProc
<1>5. \A c \in Converts \ hit : step'[c] = step[c] /\ run'[c] = run[c]
  BY <1>1, <1>2
<1>6. hit \subseteq Converts /\ \A c \in hit : step'[c] \in {"fail", "killed"} /\ run'[c] = Fresh /\ step[c] \notin Stopped
  BY <1>1, <1>2
<1>7. DirTypeOK'
  <2>1. run' \in [Converts -> Runs] /\ step' \in [Converts -> Steps]
    BY <1>1, <1>2, StepsKnown DEF DirInv, DirTypeOK, Stopped
  <2>2. draft' \in [Tasks -> Draft]
    BY <1>4 DEF DirInv, DirTypeOK
  <2> QED BY <1>3, <2>1, <2>2 DEF DirInv, DirTypeOK
<1> HIDE DEF hit
<1>8. FilesMove /\ DraftsMove
  BY <1>3, <1>4, <1>7 DEF FilesMove, DraftsMove, DirTypeOK
<1>9. \A c \in Converts \ hit : MemoryOf(c)' /\ Sound(run'[c].ck, files', pbf') /\ RightOf(c)'
  BY <1>5, <1>8, OthersStay
<1>10. \A c \in hit : MemoryOf(c)' /\ RightOf(c)' /\ WholeOf(c)' /\ BarrierOf(c)'
  BY <1>6 DEF MemoryOf, RightOf, WholeOf, BarrierOf, Working, Phases, Building
<1>11. Sound(NoCkpt, files', pbf')
  BY <1>3, NothingIsSound DEF DirInv, DirTypeOK
<1>12. Sound(ckpt', files', pbf') /\ \A c \in hit : Sound(run'[c].ck, files', pbf')
  BY <1>3, <1>6, <1>11 DEF DirInv, Truth
<1>13. Alone'
  <2> SUFFICES ASSUME ~ overlap
               PROVE  OneAtWork' /\ \A c \in Converts \ hit : WholeOf(c)' /\ BarrierOf(c)'
    BY <1>3, <1>10 DEF Alone
  <2>1. OneAtWork'
    BY <1>5, <1>6 DEF DirInv, Alone, OneAtWork
  <2>2. ASSUME NEW c \in Converts \ hit PROVE WholeOf(c)' /\ BarrierOf(c)'
    <3>1. WholeOf(c) /\ BarrierOf(c) /\ step'[c] = step[c] /\ run'[c] = run[c]
      BY <1>5, <2>2 DEF DirInv, Alone
    <3>2. WholeOf(c)'
      BY <1>3, <3>1 DEF WholeOf
    <3>3. BarrierOf(c)'
      BY <1>3, <3>1 DEF BarrierOf, CarTiles
    <3> QED BY <3>2, <3>3
  <2> QED BY <2>1, <2>2
<1> QED BY <1>7, <1>8, <1>9, <1>10, <1>12, <1>13, DraftsStay DEF DirInv, Memory, Truth

\* No text is of an extract that is yet to come.
LEMMA ExtractKeeps ==
  ASSUME DirInv, NewExtract
  PROVE  DirInv'
<1> USE Constants
<1>1. /\ UNCHANGED <<files, inPoi, ckpt, manifest, step, run, draft, overlap>> /\ pbf' = pbf + 1
      /\ pbf < MaxPbf /\ \A c \in Converts : step[c] \in Stopped
  BY DEF NewExtract, dirVars, lockVars
<1>2. DirTypeOK'
  <2>1. pbf' \in 1..MaxPbf
    BY <1>1, ConvertAssumption DEF DirInv, DirTypeOK
  <2> QED BY <1>1, <2>1 DEF DirInv, DirTypeOK
<1>3. Memory'
  BY <1>1 DEF DirInv, Memory, MemoryOf
<1>4. ASSUME NEW K \in Checkpoint, Sound(K, files, pbf) PROVE Sound(K, files', pbf')
  BY <1>1, <1>4 DEF Sound, Checkpoint, DirInv, DirTypeOK
<1>5. /\ ckpt \in Checkpoint /\ \A t \in Tasks : draft[t].text \in Checkpoint
      /\ \A c \in Converts : run[c].ck \in Checkpoint
  BY DEF DirInv, DirTypeOK, Draft, Runs
<1>6. /\ Sound(ckpt', files', pbf') /\ \A t \in Tasks : Sound(draft'[t].text, files', pbf')
      /\ \A c \in Converts : Sound(run'[c].ck, files', pbf')
  BY <1>1, <1>4, <1>5 DEF DirInv, Truth
<1>7. \A c \in Converts : RightOf(c)' /\ WholeOf(c)' /\ BarrierOf(c)'
  BY <1>1 DEF RightOf, WholeOf, BarrierOf, Working, Stopped, Phases, Building
<1>8. Alone'
  BY <1>1, <1>7 DEF Alone, OneAtWork
<1> QED BY <1>2, <1>3, <1>6, <1>7, <1>8 DEF DirInv, Truth

-----------------------------------------------------------------------------

LEMMA ConvertStepKeepsDir ==
  ASSUME DirInv, NEW c \in Converts, Does(c)
  PROVE  DirInv'
<1>1. CASE Begin(c) \/ Load(c) \/ SaveLoaded(c) \/ Sweep(c) \/ SkipPhase(c) \/ Enter(c) \/ SkipWetland(c)
  BY <1>1, BeginKeeps, LoadKeeps, SaveKeeps, SkipKeeps, EnterKeeps, SkipWetlandKeeps
<1>2. CASE GraphsComplete(c) \/ SaveManifest(c) \/ StartRemoval(c) \/ \E n \in Names : RemoveName(c, n)
  BY <1>2, GraphsKeep, ManifestKeeps, RemovalKeeps
<1>3. CASE \E a \in Archives : Write(c, a) \/ RecordArchive(c, a)
  BY <1>3, WriteKeeps, RecordKeeps
<1>4. CASE AskLock(c) \/ Leave(c)
  BY <1>4, PlanKeepsDir, ConvertsAreTasks DEF AskLock, Leave
<1>5. CASE \/ Refused(c) \/ NothingProduced(c) \/ Fails(c) \/ RemoveCheckpoint(c)
           \/ Succeed(c) \/ EndRemoval(c) \/ ScriptKilled(c)
  <2>1. step[c] \notin Stopped
    BY <1>5 DEF Refused, NothingProduced, Fails, RemoveCheckpoint, Succeed, EndRemoval, ScriptKilled,
                Stopped, Phases, Building
  <2>2. step[c] \in Working => ~ Succeed(c)
    BY DEF Succeed, Working, Phases, Building
  <2> QED BY <1>5, <2>1, <2>2, StopKeeps
        DEF Refused, NothingProduced, Fails, RemoveCheckpoint, Succeed, EndRemoval, ScriptKilled,
            Goto, Forget, dirVars, lockVars, envVars
<1> QED BY <1>1, <1>2, <1>3, <1>4, <1>5 DEF ConvertStep, Does

LEMMA DirInvStep == DirInv /\ [ConvertNext]_convertVars => DirInv'
<1> SUFFICES ASSUME DirInv, [ConvertNext]_convertVars PROVE DirInv'
  OBVIOUS
<1>1. ASSUME NEW c \in Converts, Does(c) PROVE DirInv'
  BY <1>1, ConvertStepKeepsDir
<1>2. ASSUME NEW t \in Tasks, ConvertLock(t) PROVE DirInv'
  BY <1>2, LockKeepsDir
<1>3. ASSUME NEW t \in Plans, PlanAsks(t) \/ PlanLeaves(t) \/ PlanCancelled(t) PROVE DirInv'
  BY <1>3, PlanKeepsDir, ConvertsAreTasks DEF PlanAsks, PlanLeaves, PlanCancelled
<1>4. ASSUME NEW p \in Procs, Kill(p) PROVE DirInv'
  BY <1>4, KillKeepsDir
<1>5. CASE NewExtract
  BY <1>5, ExtractKeeps
<1>6. CASE UNCHANGED convertVars
  <2>1. DraftsMove /\ ckpt' \in Checkpoint /\ Sound(ckpt', files', pbf')
    BY <1>6 DEF convertVars, lockVars, dirVars, envVars, DirInv, DirTypeOK, Truth, DraftsMove
  <2> QED BY <1>6, <2>1, AsideKeeps DEF convertVars, dirVars
<1> QED BY <1>1, <1>2, <1>3, <1>4, <1>5, <1>6 DEF ConvertNext, Does

\* The invariant holds through every kill, resume, rewriting of the
\* checkpoint, half removed directory and new extract.
THEOREM DirInvariant == ConvertSpec => []DirInv
BY DirInvInit, DirInvStep, PTL DEF ConvertSpec

\* Whenever a kill may come, the archives that the checkpoint lists and that
\* are there are of the present extract, if it is that extract's checkpoint
\* (convert.rs:104).
THEOREM CheckpointIsHonest == ConvertSpec => []CheckpointHonest
<1>1. DirInv => CheckpointHonest
  BY DEF DirInv, Truth, Sound, CheckpointHonest
<1> QED BY <1>1, DirInvariant, PTL

\* A manifest is saved over a whole set of archives of the extract it names,
\* but for wetlands given up, through kills, resumes, half removed
\* directories and new extracts (convert.rs:563).
THEOREM ManifestIsWhole == ConvertSpec => ManifestIsWholeAlone
<1> DEFINE Step == \A c \in Converts : SaveManifest(c) /\ ~ overlap => WholeSet(manifest', run[c].lost)
<1>1. DirInv /\ [ConvertNext]_convertVars => [Step]_convertVars
  <2> SUFFICES ASSUME DirInv, NEW c \in Converts, SaveManifest(c), ~ overlap
               PROVE  WholeSet(manifest', run[c].lost)
    OBVIOUS
  <2>1. step[c] = "manifest" /\ manifest' = run[c].ck.pbf
    BY DEF SaveManifest
  <2>2. run[c].ck.pbf = pbf
    BY <2>1 DEF DirInv, Truth, RightOf, Working
  <2>3. WholeOf(c)
    BY DEF DirInv, Alone
  <2> QED BY <2>1, <2>2, <2>3 DEF WholeOf, WholeSet, Archives
<1>2. ConvertSpec => [][Step]_convertVars
  BY <1>1, DirInvariant, PTL DEF ConvertSpec
<1> QED BY <1>2 DEF ManifestIsWholeAlone

\* Locks, memory and directory keep their types.
THEOREM ConvertTypeCorrect == ConvertSpec => []ConvertTypeOK
<1>1. LockInv /\ DirInv => ConvertTypeOK
  BY DEF LockInv, DirInv, DirTypeOK, Steps, Working, Draft, ConvertTypeOK
<1>2. ConvertSpec => []LockInv
  BY InitHolds, NextKeeps, PTL DEF ConvertSpec
<1> QED BY <1>1, <1>2, DirInvariant, PTL

\* A convert that built every tile and the POI archive itself leaves the
\* barriers of the car tiles, and of no other profile's, in that archive
\* (convert.rs:890).
THEOREM BarriersAreKept == ConvertSpec => BarriersKeptUnlessResumed
<1> DEFINE Kept == \A c \in Converts :
                     SaveManifest(c) /\ ~ overlap /\ Tiles \cup {"poi"} \subseteq run[c].built => inPoi = CarTiles
<1>1. DirInv => Kept
  BY DEF DirInv, Alone, BarrierOf, SaveManifest
<1>2. DirInv /\ [ConvertNext]_convertVars => [Kept]_convertVars
  BY <1>1
<1>3. ConvertSpec => [][Kept]_convertVars
  BY <1>2, DirInvariant, PTL DEF ConvertSpec
<1> QED BY <1>3 DEF BarriersKeptUnlessResumed
=============================================================================
