----------------------------- MODULE PoolProofs -----------------------------
(***************************************************************************)
(* Plans beside a background convert, for any number of plans, workers,    *)
(* blobs, tiles and versions: a plan that got its graph from packs has     *)
(* current ones, and a plan that is over has left nothing behind.          *)
(***************************************************************************)
EXTENDS PlanPool, FiniteSetTheorems, TLAPS

\* Where plans are, and what they hold there.
PlanPlaces ==
  \A p \in Plans :
    /\ at[p] \in {"idle", "load", "region", "install", "bbox", "scan", "decoded", "search"} \cup PlanEnds
    /\ region = p => HasRegion(p)
    /\ bbox = p => at[p] \in {"scan", "decoded"}
    /\ current = p => Running(p)
    /\ load[p] = "mapping" => at[p] = "load"
    /\ load[p] = "no" => got[p] = {}
    /\ at[p] \in {"region", "install", "bbox", "scan", "decoded"} => load[p] = "missed"

\* Workers have blobs of scans that are going on.
Blobbed == \A w \in Workers : worker[w].of \in Plans => at[worker[w].of] = "scan"

Counted == foreground = Cardinality({p \in Plans : Running(p)})

\* Phases of the convert that are over have written their archives, and the
\* extract stays what it was meanwhile.
ConvertPlace ==
  /\ at[Convert] \in {"idle", "sweep", "region", "install", "yield", "scan", "write", "manifest", "leave"}
  /\ at[Convert] \notin {"yield", "scan", "write"} => phase = 1
  /\ at[Convert] \in {"yield", "scan", "write"} =>
       \A k \in 1..3 : k < phase => \A a \in Writes[k] : files[a] = Current
  /\ at[Convert] = "manifest" => \A a \in Archives : files[a] = Current

\* A manifest of this extract and program has no older archive beside it.
Directory ==
  /\ manifest.pbf <= pbf /\ manifest.format <= format
  /\ manifest = Current => \A a \in Archives : files[a] \in {None, Current}

\* What an undisturbed load has mapped so far.
Loads ==
  \A p \in Plans : load[p] = "mapping" /\ p \notin stirred =>
    /\ manifest = Current
    /\ got[p] \subseteq Wanted[p] \X {Current}

PoolInv ==
  PoolTypeOK /\ PlanPlaces /\ Blobbed /\ Counted /\ ConvertPlace /\ Directory /\ Loads

-----------------------------------------------------------------------------

LEMMA PoolInvInit == PoolInit => PoolInv
<1> SUFFICES ASSUME PoolInit PROVE PoolInv
  OBVIOUS
<1> USE PoolAssumption, LoadAssumption
<1>1. Counted
  <2>1. {p \in Plans : Running(p)} = {}
    BY DEF PoolInit, Running, Scanners
  <2> QED BY <2>1, FS_EmptySet DEF PoolInit, Counted
<1>2. PoolTypeOK
  <2>1. Cardinality(Plans) \in Nat
    BY FS_CardinalityType
  <2>2. LoadTypeOK
    BY DEF PoolInit, LoadTypeOK
  <2> QED BY <2>1, <2>2 DEF PoolInit, PoolTypeOK, Scanners, Idle, Writes
<1>3. PlanPlaces
  BY DEF PoolInit, PlanPlaces, Scanners
<1>4. Blobbed
  BY DEF PoolInit, Blobbed, Idle
<1>5. ConvertPlace /\ Directory /\ Loads
  BY DEF PoolInit, ConvertPlace, Directory, Loads, Scanners, None, Current
<1> QED BY <1>1, <1>2, <1>3, <1>4, <1>5 DEF PoolInv

-----------------------------------------------------------------------------
\* The directory and the loads.

LEMMA LoadTypeKept ==
  ASSUME PoolInv, PoolNext
  PROVE  LoadTypeOK'
<1> USE PoolAssumption, LoadAssumption DEF PoolInv, PoolTypeOK, LoadTypeOK
<1>1. Current \in Build
  BY DEF Current, Build
<1>2. ASSUME NEW p \in Plans, Load(p)
      PROVE  LoadTypeOK'
  <2>1. CASE ReadManifest(p) \/ Merge(p)
    <3>1. \E to \in {"mapping", "loaded", "missed"} : load' = [load EXCEPT ![p] = to]
      BY <2>1 DEF ReadManifest, Merge
    <3> QED BY <2>1, <3>1 DEF ReadManifest, Merge, dirOf
  <2>2. ASSUME NEW t \in Tiles, MapTile(p, t)
        PROVE  LoadTypeOK'
    <3>1. files[t].format = format => files[t] \in Build
      BY DEF Archives, None
    <3> QED BY <2>2, <3>1 DEF MapTile, dirOf
  <2> QED BY <1>2, <2>1, <2>2 DEF Load
<1>3. CASE Sweep
  BY <1>3 DEF Sweep, SweepTiles, Stir
<1>4. ASSUME NEW a \in Archives, ConvertWrites(a)
      PROVE  LoadTypeOK'
  BY <1>1, <1>4 DEF ConvertWrites, WriteArchive, Stir
<1>5. CASE ConvertSaves
  BY <1>1, <1>5 DEF ConvertSaves, SaveManifest, Stir
<1>6. CASE Download
  BY <1>6 DEF Download, NewExtract, Stir
<1>7. CASE Restart
  BY <1>7 DEF Restart
<1>8. ASSUME UNCHANGED loadVars
      PROVE  LoadTypeOK'
  BY <1>8 DEF loadVars
<1>9. ASSUME NEW p \in Plans, BeginPlan(p) \/ (PlanStep(p) /\ ~ Load(p))
      PROVE  UNCHANGED loadVars
  BY <1>9 DEF BeginPlan, PlanStep, Loaded, AbortIfCancelled, Leave, CheckRegion, InstallRegion,
              LockBbox, EndScan, Built, Answer
<1>10. ASSUME NEW w \in Workers, WorkerStep(w)
       PROVE  UNCHANGED loadVars
  BY <1>10 DEF WorkerStep, Pull, Abort, Decode, Decoded
<1>11. CASE ConvertBegins \/ ConvertAcquires \/ InstallRegion(Convert) \/ ConvertYields
            \/ EndScan(Convert) \/ NextPhase \/ ConvertLeaves \/ RequestCancel
  BY <1>8, <1>11 DEF ConvertBegins, ConvertAcquires, InstallRegion, ConvertYields, EndScan,
                     NextPhase, ConvertLeaves, RequestCancel
<1> QED BY <1>2, <1>3, <1>4, <1>5, <1>6, <1>7, <1>8, <1>9, <1>10, <1>11
        DEF PoolNext, ConvertStep, PlanStep

LEMMA DirectoryKept ==
  ASSUME PoolInv, PoolNext
  PROVE  Directory' /\ Loads'
<1> USE PoolAssumption, LoadAssumption DEF PoolInv, PoolTypeOK, LoadTypeOK
<1>1. ASSUME UNCHANGED loadVars
      PROVE  Directory' /\ Loads'
  BY <1>1 DEF loadVars, Directory, Loads, Current
<1>2. ASSUME NEW p \in Plans, Load(p)
      PROVE  Directory' /\ Loads'
  <2>1. Directory'
    BY <1>2 DEF Load, ReadManifest, Merge, MapTile, dirOf, Directory, Current
  <2>2. CASE ReadManifest(p)
    BY <2>1, <2>2 DEF ReadManifest, dirOf, Loads, Current, Ready, PlanPlaces
  <2>3. CASE Merge(p)
    BY <2>1, <2>3 DEF Merge, dirOf, Loads, Current
  <2>4. ASSUME NEW t \in Tiles, MapTile(p, t)
        PROVE  Loads'
    <3>1. ASSUME p \notin stirred, files[t].format = format
          PROVE  files[t] = Current
      BY <2>4, <3>1 DEF MapTile, Loads, Directory, Archives, None
    <3>2. UNCHANGED <<dirOf, stirred>> /\ Current' = Current
      BY <2>4 DEF MapTile, dirOf, Current
    <3>3. SUFFICES ASSUME NEW q \in Plans, load'[q] = "mapping", q \notin stirred
                   PROVE  manifest = Current /\ got'[q] \subseteq Wanted[q] \X {Current}
      BY <3>2 DEF Loads, dirOf
    <3>4. load[q] = "mapping" /\ manifest = Current /\ got[q] \subseteq Wanted[q] \X {Current}
      BY <2>4, <3>3 DEF MapTile, Loads
    <3>5. CASE q # p
      BY <2>4, <3>4, <3>5 DEF MapTile
    <3>6. CASE q = p
      <4>1. files[t].format = format
        BY <2>4, <3>3, <3>6 DEF MapTile
      <4>2. got'[p] = got[p] \cup {<<t, Current>>} /\ t \in Wanted[p]
        BY <2>4, <3>1, <3>3, <3>6, <4>1 DEF MapTile
      <4> QED BY <3>4, <3>6, <4>2
    <3> QED BY <3>5, <3>6
  <2> QED BY <1>2, <2>1, <2>2, <2>3, <2>4 DEF Load
<1>3. CASE Sweep
  BY <1>3 DEF Sweep, SweepTiles, Stir, Directory, Loads, Current
<1>4. ASSUME NEW a \in Archives, ConvertWrites(a)
      PROVE  Directory' /\ Loads'
  BY <1>4 DEF ConvertWrites, WriteArchive, Stir, Directory, Loads, Current
<1>5. CASE ConvertSaves
  BY <1>5 DEF ConvertSaves, SaveManifest, Stir, Directory, Loads, Current, ConvertPlace
<1>6. CASE Download
  <2>1. manifest'.pbf < pbf' /\ manifest'.pbf <= pbf' /\ manifest'.format <= format'
    <3>1. manifest.pbf \in Int /\ manifest.format \in Int
      BY DEF Build, None
    <3>2. manifest' = manifest /\ pbf' = pbf + 1 /\ format' = format
      BY <1>6 DEF Download, NewExtract
    <3> QED BY <3>1, <3>2 DEF Directory
  <2>2. manifest' # Current'
    BY <1>6, <2>1 DEF Current, Download, NewExtract
  <2>3. Loads'
    BY <1>6 DEF Download, NewExtract, Stir, Loads
  <2> QED BY <2>1, <2>2, <2>3 DEF Directory
<1>7. CASE Restart
  <2>1. manifest'.format < format' /\ manifest'.format <= format' /\ manifest'.pbf <= pbf'
    <3>1. manifest.pbf \in Int /\ manifest.format \in Int
      BY DEF Build, None
    <3>2. manifest' = manifest /\ pbf' = pbf /\ format' = format + 1
      BY <1>7 DEF Restart
    <3> QED BY <3>1, <3>2 DEF Directory
  <2>2. manifest' # Current'
    BY <1>7, <2>1 DEF Current, Restart
  <2>3. \A p \in Plans : load'[p] # "mapping"
    BY <1>7 DEF Restart, PlanPlaces, Running, PlanEnds
  <2> QED BY <2>1, <2>2, <2>3 DEF Directory, Loads
<1>8. ASSUME NEW p \in Plans, BeginPlan(p) \/ (PlanStep(p) /\ ~ Load(p))
      PROVE  UNCHANGED loadVars
  BY <1>8 DEF BeginPlan, PlanStep, Loaded, AbortIfCancelled, Leave, CheckRegion, InstallRegion,
              LockBbox, EndScan, Built, Answer
<1>9. ASSUME NEW w \in Workers, WorkerStep(w)
      PROVE  UNCHANGED loadVars
  BY <1>9 DEF WorkerStep, Pull, Abort, Decode, Decoded
<1>10. CASE ConvertBegins \/ ConvertAcquires \/ InstallRegion(Convert) \/ ConvertYields
            \/ EndScan(Convert) \/ NextPhase \/ ConvertLeaves \/ RequestCancel
  BY <1>1, <1>10 DEF ConvertBegins, ConvertAcquires, InstallRegion, ConvertYields, EndScan,
                     NextPhase, ConvertLeaves, RequestCancel
<1> QED BY <1>1, <1>2, <1>3, <1>4, <1>5, <1>6, <1>7, <1>8, <1>9, <1>10
        DEF PoolNext, ConvertStep, PlanStep

-----------------------------------------------------------------------------
\* The convert.

LEMMA ConvertPlaceKept ==
  ASSUME PoolInv, PoolNext
  PROVE  ConvertPlace'
<1> USE PoolAssumption DEF PoolInv, PoolTypeOK, LoadTypeOK, Scanners
<1>1. ASSUME NEW p \in Plans, BeginPlan(p) \/ PlanStep(p)
      PROVE  ConvertPlace'
  <2>1. at'[Convert] = at[Convert] /\ phase' = phase
    BY <1>1 DEF BeginPlan, PlanStep, Load, Loaded, AbortIfCancelled, Leave, CheckRegion,
                InstallRegion, LockBbox, StartScan, EndScan, Built, Answer, Goto, scanVars
  <2>2. UNCHANGED dirOf
    BY <1>1 DEF BeginPlan, PlanStep, Load, ReadManifest, Merge, MapTile, Loaded, AbortIfCancelled,
                Leave, CheckRegion, InstallRegion, LockBbox, EndScan, Built, Answer, loadVars, dirOf
  <2> QED BY <2>1, <2>2 DEF ConvertPlace, dirOf, Current
<1>2. ASSUME NEW w \in Workers, WorkerStep(w)
      PROVE  ConvertPlace'
  BY <1>2 DEF WorkerStep, Pull, Abort, Decode, Decoded, ConvertPlace, Current, loadVars
<1>3. CASE ConvertBegins \/ Sweep \/ ConvertAcquires \/ ConvertLeaves
  BY <1>3 DEF ConvertBegins, Sweep, ConvertAcquires, ConvertLeaves, Goto, ConvertPlace, SweepTiles,
              scanVars
<1>4. CASE InstallRegion(Convert)
  BY <1>4 DEF InstallRegion, Goto, ConvertPlace, loadVars, Current, scanVars
<1>5. CASE ConvertYields
  BY <1>5 DEF ConvertYields, StartScan, Goto, ConvertPlace, loadVars, Current
<1>6. CASE EndScan(Convert)
  BY <1>6 DEF EndScan, Goto, ConvertPlace, loadVars, Current
<1>7. ASSUME NEW a \in Archives, ConvertWrites(a)
      PROVE  ConvertPlace'
  BY <1>7 DEF ConvertWrites, WriteArchive, ConvertPlace, Current, Archives, Writes
<1>8. CASE NextPhase
  <2>1. phase \in 1..3 /\ \A k \in 1..3 : k <= phase => \A a \in Writes[k] : files[a] = Current
    BY <1>8 DEF NextPhase, ConvertPlace, Writes
  <2>2. CASE phase < 3
    BY <1>8, <2>1, <2>2 DEF NextPhase, ConvertPlace, Goto, loadVars, Current, Writes
  <2>3. CASE phase = 3
    <3>1. \A a \in Archives : files[a] = Current
      BY <2>1, <2>3 DEF Archives, Writes
    <3>2. at'[Convert] = "manifest" /\ phase' = 1 /\ UNCHANGED loadVars
      BY <1>8, <2>3 DEF NextPhase, Goto, Writes
    <3> QED BY <3>1, <3>2 DEF ConvertPlace, loadVars, Current
  <2> QED BY <2>1, <2>2, <2>3
<1>9. CASE ConvertSaves
  BY <1>9 DEF ConvertSaves, Goto, ConvertPlace, SaveManifest, scanVars
<1>10. CASE Download
  BY <1>10 DEF Download, ConvertPlace
<1>11. CASE Restart
  BY <1>11 DEF Restart, ConvertPlace
<1>12. CASE RequestCancel
  BY <1>12 DEF RequestCancel, ConvertPlace, loadVars, Current
<1> QED BY <1>1, <1>2, <1>3, <1>4, <1>5, <1>6, <1>7, <1>8, <1>9, <1>10, <1>11, <1>12
        DEF PoolNext, ConvertStep

-----------------------------------------------------------------------------
\* Who is where, and what is held.

\* The variables the scheduling types speak of.
SharedTypeOK ==
  /\ at \in [Scanners -> {"idle", "load", "region", "install", "bbox", "scan", "decoded", "search",
                          "yield", "write", "manifest", "leave", "sweep"} \cup PlanEnds]
  /\ current \in Plans \cup {Free}
  /\ cancelled \subseteq Plans
  /\ region \in Scanners \cup {Free}
  /\ bbox \in Plans \cup {Free}
  /\ left \in [Scanners -> 0..Blobs]
  /\ failed \in [Scanners -> BOOLEAN]
  /\ worker \in [Workers -> [of : Scanners \cup {Free}, decoding : BOOLEAN]]
  /\ phase \in 1..3

\* The phases of a convert turn round.
LEMMA PhaseTurns ==
  ASSUME phase \in 1..3, DOMAIN at = Plans \cup {Convert}, NextPhase
  PROVE  phase' \in 1..3 /\ at'[Convert] \in {"yield", "manifest"}
<1>1. Len(Writes) = 3
  BY DEF Writes
<1>2. \/ phase < Len(Writes) /\ phase' = phase + 1 /\ Goto(Convert, "yield")
      \/ phase' = 1 /\ Goto(Convert, "manifest")
  BY Zenon DEF NextPhase
<1>3. phase' \in 1..3
  BY <1>1, <1>2
<1>4. at'[Convert] \in {"yield", "manifest"}
  BY <1>2 DEF Goto
<1> QED BY <1>3, <1>4

LEMMA PlanKeeps ==
  ASSUME PoolInv, NEW p \in Plans, BeginPlan(p) \/ PlanStep(p)
  PROVE  SharedTypeOK' /\ PlanPlaces' /\ Blobbed'
<1> USE PoolAssumption DEF PoolInv, PoolTypeOK, LoadTypeOK, Scanners, Writes, SharedTypeOK
<1>1. SharedTypeOK'
  <2>1. CASE BeginPlan(p)
    BY <2>1 DEF BeginPlan, Goto, scanVars
  <2>2. CASE Load(p) \/ Loaded(p) \/ CheckRegion(p) \/ Built(p)
    BY <2>2 DEF Load, Loaded, CheckRegion, Built, Goto, sharedVars, scanVars
  <2>3. ASSUME NEW to \in PlanEnds, Leave(p, to)
        PROVE  SharedTypeOK'
    BY <2>3 DEF Leave, Goto, scanVars
  <2>4. CASE AbortIfCancelled(p) \/ Answer(p)
    BY <2>3, <2>4 DEF AbortIfCancelled, Answer, PlanEnds
  <2>5. CASE InstallRegion(p)
    BY <2>5 DEF InstallRegion, Goto, scanVars
  <2>6. CASE LockBbox(p)
    BY <2>6 DEF LockBbox, StartScan, Goto
  <2>7. CASE EndScan(p)
    BY <2>7 DEF EndScan, Goto, sharedVars, scanVars
  <2> QED BY <2>1, <2>2, <2>4, <2>5, <2>6, <2>7 DEF PlanStep
<1>2. CASE BeginPlan(p)
  BY <1>2 DEF BeginPlan, Goto, PlanPlaces, Blobbed, loadVars, scanVars, HasRegion, Running, PlanEnds
<1>3. CASE Load(p)
  BY <1>3 DEF Load, ReadManifest, Merge, MapTile, sharedVars, scanVars, dirOf, PlanPlaces, Blobbed,
              HasRegion, Running, PlanEnds
<1>4. CASE Loaded(p)
  BY <1>4 DEF Loaded, Goto, loadVars, sharedVars, scanVars, PlanPlaces, Blobbed, HasRegion, Running,
              PlanEnds
<1>5. ASSUME NEW to \in PlanEnds, at[p] \in Polling, Leave(p, to)
      PROVE  PlanPlaces' /\ Blobbed'
  BY <1>5 DEF Leave, Polling, Goto, loadVars, scanVars, PlanPlaces, Blobbed, HasRegion, Running,
              PlanEnds
<1>6. CASE AbortIfCancelled(p) \/ Answer(p)
  BY <1>1, <1>5, <1>6 DEF AbortIfCancelled, Answer, Polling, PlanEnds
<1>7. CASE CheckRegion(p)
  BY <1>7 DEF CheckRegion, Goto, loadVars, sharedVars, scanVars, PlanPlaces, Blobbed, HasRegion,
              Running, PlanEnds
<1>8. CASE InstallRegion(p)
  BY <1>8 DEF InstallRegion, Goto, loadVars, scanVars, PlanPlaces, Blobbed, HasRegion, Running,
              PlanEnds
<1>9. CASE LockBbox(p)
  BY <1>9 DEF LockBbox, StartScan, Goto, loadVars, PlanPlaces, Blobbed, HasRegion, Running, PlanEnds
<1>10. CASE EndScan(p)
  BY <1>10 DEF EndScan, Holders, Goto, loadVars, sharedVars, scanVars, PlanPlaces, Blobbed, HasRegion,
               Running, PlanEnds
<1>11. CASE Built(p)
  BY <1>11 DEF Built, Goto, loadVars, sharedVars, scanVars, PlanPlaces, Blobbed, HasRegion, Running,
               PlanEnds
<1> QED BY <1>1, <1>2, <1>3, <1>4, <1>6, <1>7, <1>8, <1>9, <1>10, <1>11 DEF PlanStep

LEMMA OthersKeep ==
  ASSUME PoolInv, PoolNext, \A p \in Plans : ~ (BeginPlan(p) \/ PlanStep(p))
  PROVE  SharedTypeOK' /\ PlanPlaces' /\ Blobbed'
<1> USE PoolAssumption DEF PoolInv, PoolTypeOK, LoadTypeOK, Scanners, Writes, SharedTypeOK
<1>1. ASSUME NEW w \in Workers, WorkerStep(w)
      PROVE  SharedTypeOK' /\ PlanPlaces' /\ Blobbed'
  <2>1. UNCHANGED <<loadVars, at, sharedVars, phase>>
    BY <1>1 DEF WorkerStep, Pull, Abort, Decode, Decoded
  <2>2. SharedTypeOK'
    <3>1. ASSUME NEW y \in Scanners, Pull(w, y)
          PROVE  SharedTypeOK'
      <4>1. [of |-> y, decoding |-> FALSE] \in [of : Scanners \cup {Free}, decoding : BOOLEAN]
        OBVIOUS
      <4>2. left' \in [Scanners -> 0..Blobs]
        BY <3>1 DEF Pull
      <4> QED BY <2>1, <3>1, <4>1, <4>2 DEF Pull, sharedVars
    <3>2. CASE Abort(w) \/ Decoded(w)
      <4>1. Idle \in [of : Scanners \cup {Free}, decoding : BOOLEAN]
        BY DEF Idle
      <4>2. failed' \in [Scanners -> BOOLEAN]
        BY <3>2 DEF Abort, Decoded
      <4>3. worker' \in [Workers -> [of : Scanners \cup {Free}, decoding : BOOLEAN]]
        BY <3>2, <4>1 DEF Abort, Decoded
      <4>4. left' = left
        BY <3>2 DEF Abort, Decoded
      <4> QED BY <2>1, <4>2, <4>3, <4>4 DEF sharedVars
    <3>3. CASE Decode(w)
      <4>1. [worker[w] EXCEPT !.decoding = TRUE] \in [of : Scanners \cup {Free}, decoding : BOOLEAN]
        OBVIOUS
      <4>2. worker' = [worker EXCEPT ![w] = [worker[w] EXCEPT !.decoding = TRUE]]
        BY <3>3 DEF Decode
      <4>3. worker' \in [Workers -> [of : Scanners \cup {Free}, decoding : BOOLEAN]]
        BY <4>1, <4>2
      <4>4. left' = left /\ failed' = failed
        BY <3>3 DEF Decode
      <4> QED BY <2>1, <4>3, <4>4 DEF sharedVars
    <3> QED BY <1>1, <3>1, <3>2, <3>3 DEF WorkerStep
  <2>3. PlanPlaces'
    BY <2>1 DEF PlanPlaces, loadVars, sharedVars, HasRegion, Running
  <2>4. Blobbed'
    BY <1>1, <2>1 DEF WorkerStep, Pull, Abort, Decode, Decoded, Idle, Blobbed
  <2> QED BY <2>2, <2>3, <2>4
<1>2. CASE ConvertBegins
  BY <1>2 DEF ConvertBegins, Goto, loadVars, sharedVars, scanVars, PlanPlaces, Blobbed, HasRegion,
              Running
<1>3. CASE Sweep
  BY <1>3 DEF Sweep, SweepTiles, Goto, sharedVars, scanVars, PlanPlaces, Blobbed, HasRegion, Running
<1>4. CASE ConvertAcquires
  BY <1>4 DEF ConvertAcquires, Goto, loadVars, sharedVars, scanVars, PlanPlaces, Blobbed, HasRegion,
              Running
<1>5. CASE InstallRegion(Convert)
  BY <1>5 DEF InstallRegion, Goto, loadVars, scanVars, PlanPlaces, Blobbed, HasRegion, Running
<1>6. CASE ConvertYields
  BY <1>6 DEF ConvertYields, StartScan, Goto, loadVars, sharedVars, PlanPlaces, Blobbed, HasRegion,
              Running
<1>7. CASE EndScan(Convert)
  BY <1>7 DEF EndScan, Goto, loadVars, sharedVars, scanVars, PlanPlaces, Blobbed, HasRegion, Running
<1>8. CASE ConvertLeaves
  BY <1>8 DEF ConvertLeaves, Goto, loadVars, scanVars, PlanPlaces, Blobbed, HasRegion, Running
<1>9. CASE NextPhase
  <2>1. phase' \in 1..3 /\ at'[Convert] \in {"yield", "manifest"}
    BY <1>9, PhaseTurns, Zenon DEF SharedTypeOK, Scanners
  <2>2. at' = [at EXCEPT ![Convert] = at'[Convert]]
    BY <1>9 DEF NextPhase, Goto
  <2> QED BY <1>9, <2>1, <2>2 DEF NextPhase, loadVars, sharedVars, scanVars, PlanPlaces, Blobbed,
                                   HasRegion, Running
<1>10. ASSUME NEW a \in Archives, ConvertWrites(a)
      PROVE  SharedTypeOK' /\ PlanPlaces' /\ Blobbed'
  BY <1>10 DEF ConvertWrites, WriteArchive, sharedVars, scanVars, PlanPlaces, Blobbed, HasRegion, Running
<1>11. CASE ConvertSaves
  BY <1>11 DEF ConvertSaves, SaveManifest, Goto, sharedVars, scanVars, PlanPlaces, Blobbed, HasRegion,
              Running
<1>12. CASE Download
  BY <1>12 DEF Download, NewExtract, sharedVars, scanVars, PlanPlaces, Blobbed, HasRegion, Running
<1>13. CASE Restart
  BY <1>13 DEF Restart, Idle, PlanPlaces, Blobbed, HasRegion, Running, PlanEnds
<1>14. CASE RequestCancel
  BY <1>14 DEF RequestCancel, loadVars, scanVars, PlanPlaces, Blobbed, HasRegion, Running
<1> QED BY <1>1, <1>2, <1>3, <1>4, <1>5, <1>6, <1>7, <1>8, <1>10, <1>11, <1>12, <1>13, <1>14, <1>9
        DEF PoolNext, ConvertStep

\* Exactly the running plans are counted.
LEMMA CountKept ==
  ASSUME PoolInv, PoolNext
  PROVE  Counted'
<1> DEFINE R == {p \in Plans : Running(p)}
<1> USE PoolAssumption DEF PoolInv, PoolTypeOK, Scanners
<1>1. IsFiniteSet(R) /\ foreground = Cardinality(R) /\ foreground \in Nat
  <2>1. IsFiniteSet(R)
    BY FS_Subset
  <2> QED BY <2>1, FS_CardinalityType DEF Counted
<1>2. ASSUME R' = R, foreground' = foreground
      PROVE  Counted'
  BY <1>1, <1>2 DEF Counted
<1>3. ASSUME NEW p \in Plans, BeginPlan(p)
      PROVE  Counted'
  <2>1. p \notin R /\ R' = R \cup {p}
    BY <1>3 DEF BeginPlan, Goto, Running, PlanEnds
  <2>2. Cardinality(R') = Cardinality(R) + 1
    BY <1>1, <2>1, FS_AddElement
  <2> QED BY <1>1, <1>3, <2>2 DEF BeginPlan, Counted
<1>4. ASSUME NEW p \in Plans, NEW to \in PlanEnds, at[p] \in Polling, Leave(p, to)
      PROVE  Counted'
  <2>1. p \in R /\ R' = R \ {p}
    BY <1>4 DEF Leave, Goto, Running, Polling, PlanEnds
  <2>2. Cardinality(R') = Cardinality(R) - 1
    <3>1. Cardinality(R \ {p}) = Cardinality(R) - 1
      BY <1>1, <2>1, FS_RemoveElement
    <3> QED BY <2>1, <3>1
  <2>3. Cardinality(R) # 0
    BY <1>1, <2>1, FS_EmptySet
  <2>4. foreground' = foreground - 1
    BY <1>1, <1>4, <2>3 DEF Leave
  <2> QED BY <1>1, <2>2, <2>4 DEF Counted
<1>5. ASSUME NEW p \in Plans, PlanStep(p)
      PROVE  Counted'
  <2>1. CASE AbortIfCancelled(p) \/ Answer(p)
    BY <1>4, <2>1 DEF AbortIfCancelled, Answer, Polling, PlanEnds
  <2>2. CASE Load(p) \/ Loaded(p) \/ CheckRegion(p) \/ InstallRegion(p) \/ LockBbox(p)
             \/ EndScan(p) \/ Built(p)
    <3>1. R' = R /\ foreground' = foreground
      BY <2>2 DEF Load, Loaded, CheckRegion, InstallRegion, LockBbox, StartScan, EndScan, Built,
                  Goto, sharedVars, Running, PlanEnds
    <3> QED BY <1>2, <3>1
  <2> QED BY <1>5, <2>1, <2>2 DEF PlanStep
<1>6. CASE Restart
  <2>1. R' = {}
    BY <1>6 DEF Restart, Running, PlanEnds
  <2> QED BY <1>6, <2>1, FS_EmptySet DEF Restart, Counted
<1>7. CASE (\E w \in Workers : WorkerStep(w)) \/ ConvertBegins \/ ConvertStep \/ Download \/ RequestCancel
  <2>1. foreground' = foreground /\ \A p \in Plans : at'[p] = at[p]
    <3>1. CASE \E w \in Workers : WorkerStep(w)
      BY <3>1 DEF WorkerStep, Pull, Abort, Decode, Decoded, sharedVars
    <3>2. CASE ConvertBegins \/ Download \/ RequestCancel
      BY <3>2 DEF ConvertBegins, Download, RequestCancel, Goto, sharedVars
    <3>3. CASE ConvertStep
      BY <3>3 DEF ConvertStep, Sweep, ConvertAcquires, InstallRegion, ConvertYields, StartScan,
                  EndScan, ConvertWrites, NextPhase, ConvertSaves, ConvertLeaves, Goto, sharedVars
    <3> QED BY <1>7, <3>1, <3>2, <3>3
  <2>2. R' = R
    BY <2>1 DEF Running
  <2> QED BY <1>2, <2>1, <2>2
<1> QED BY <1>3, <1>5, <1>6, <1>7 DEF PoolNext

LEMMA PoolInvStep == PoolInv /\ [PoolNext]_poolVars => PoolInv'
<1> SUFFICES ASSUME PoolInv, [PoolNext]_poolVars
             PROVE  PoolInv'
  OBVIOUS
<1>1. CASE PoolNext
  <2>1. SharedTypeOK' /\ PlanPlaces' /\ Blobbed'
    BY <1>1, PlanKeeps, OthersKeep
  <2>2. LoadTypeOK' /\ Directory' /\ Loads' /\ ConvertPlace' /\ Counted'
    BY <1>1, LoadTypeKept, DirectoryKept, ConvertPlaceKept, CountKept
  <2>3. foreground' \in 0..Cardinality(Plans)
    <3> DEFINE R == {p \in Plans : Running(p)}
    <3>1. IsFiniteSet(R') /\ Cardinality(R') <= Cardinality(Plans)
      BY PoolAssumption, FS_Subset
    <3>2. Cardinality(R') \in Nat /\ Cardinality(Plans) \in Nat
      BY <3>1, PoolAssumption, FS_CardinalityType
    <3> QED BY <2>2, <3>1, <3>2 DEF Counted
  <2> QED BY <2>1, <2>2, <2>3 DEF PoolInv, PoolTypeOK, SharedTypeOK, Writes
<1>2. CASE UNCHANGED poolVars
  BY <1>2 DEF poolVars, loadVars, sharedVars, scanVars, PoolInv, PoolTypeOK, LoadTypeOK, PlanPlaces,
              Blobbed, Counted, ConvertPlace, Directory, Loads, HasRegion, Running, Current
<1> QED BY <1>1, <1>2

-----------------------------------------------------------------------------

\* The invariant holds however plans, workers, the convert, downloads and
\* restarts interleave.
THEOREM PoolInvariant == PoolSpec => []PoolInv
<1>1. PoolInit => PoolInv
  BY PoolInvInit
<1>2. PoolInv /\ [PoolNext]_poolVars => PoolInv'
  BY PoolInvStep
<1> QED BY <1>1, <1>2, PTL DEF PoolSpec

\* Plans, pool and convert keep every variable within its type.
THEOREM PoolTypeCorrect == PoolSpec => []PoolTypeOK
<1>1. PoolInv => PoolTypeOK
  BY DEF PoolInv
<1> QED BY <1>1, PoolInvariant, PTL

\* However plans end, the foreground count, the region, the mutex and the
\* current plan are free of them (pbf_priority.rs:29-61).
THEOREM EndedPlansLeaveNothing == PoolSpec => []EndedLeavesNothing
<1>1. PoolInv => EndedLeavesNothing
  <2> SUFFICES ASSUME PoolInv PROVE EndedLeavesNothing
    OBVIOUS
  <2>1. ASSUME NEW p \in Plans, ~ Running(p)
        PROVE  bbox # p /\ region # p /\ current # p /\ Holders(p) = {}
    <3>1. at[p] \in {"idle"} \cup PlanEnds
      BY <2>1 DEF Running
    <3>2. bbox # p /\ region # p /\ current # p
      BY <2>1, <3>1 DEF PoolInv, PlanPlaces, HasRegion, PlanEnds
    <3>3. \A w \in Workers : worker[w].of # p
      BY <3>1 DEF PoolInv, Blobbed, PlanEnds
    <3> QED BY <3>2, <3>3 DEF Holders
  <2>2. foreground = Cardinality({p \in Plans : Running(p)})
    BY DEF PoolInv, Counted
  <2> QED BY <2>1, <2>2 DEF EndedLeavesNothing
<1> QED BY <1>1, PoolInvariant, PTL

\* A load that nobody disturbed has whole tiles of the extract that is there
\* (load.rs:1), for any tiles, plans and versions.
THEOREM PoolLoadsAreCurrent == PoolSpec => QuietLoadIsCurrent
<1> DEFINE Step == \A p \in Plans : load[p] = "mapping" /\ load'[p] = "loaded" /\ p \notin stirred =>
                     got[p] = Wanted[p] \X {Current}
<1>1. PoolInv /\ [PoolNext]_poolVars => [Step]_loadVars
  <2> SUFFICES ASSUME PoolInv, [PoolNext]_poolVars, NEW p \in Plans,
                      load[p] = "mapping", load'[p] = "loaded", p \notin stirred
               PROVE  got[p] = Wanted[p] \X {Current}
    OBVIOUS
  <2> USE DEF PoolInv, PoolTypeOK, LoadTypeOK
  <2>1. Mapped(p) = Wanted[p]
    <3>1. ASSUME NEW q \in Plans, Load(q)
          PROVE  Merge(p)
      BY <3>1 DEF Load, ReadManifest, Merge, MapTile
    <3>2. ASSUME NEW q \in Plans, BeginPlan(q) \/ (PlanStep(q) /\ ~ Load(q))
          PROVE  UNCHANGED load
      BY <3>2 DEF BeginPlan, PlanStep, Loaded, AbortIfCancelled, Leave, CheckRegion, InstallRegion,
                  LockBbox, EndScan, Built, Answer, loadVars
    <3>3. ASSUME NEW w \in Workers, WorkerStep(w)
          PROVE  UNCHANGED load
      BY <3>3 DEF WorkerStep, Pull, Abort, Decode, Decoded, loadVars
    <3>4. CASE ConvertBegins \/ ConvertStep \/ Download \/ RequestCancel \/ UNCHANGED poolVars
      BY <3>4 DEF ConvertBegins, ConvertStep, Sweep, ConvertAcquires, InstallRegion, ConvertYields,
                  EndScan, ConvertWrites, NextPhase, ConvertSaves, ConvertLeaves, Download,
                  RequestCancel, SweepTiles, WriteArchive, SaveManifest, NewExtract, loadVars, poolVars
    <3>5. CASE Restart
      BY <3>5 DEF Restart
    <3>6. Merge(p) => Mapped(p) = Wanted[p]
      BY DEF Merge
    <3> QED BY <3>1, <3>2, <3>3, <3>4, <3>5, <3>6 DEF PoolNext
  <2>2. got[p] \subseteq Wanted[p] \X {Current}
    BY DEF Loads
  <2>3. ASSUME NEW t \in Wanted[p]
        PROVE  <<t, Current>> \in got[p]
    <3>1. PICK m \in got[p] : m[1] = t
      BY <2>1 DEF Mapped
    <3>2. m = <<t, Current>>
      BY <2>2, <3>1
    <3> QED BY <3>1, <3>2
  <2> QED BY <2>2, <2>3
<1>2. PoolSpec => [][Step]_loadVars
  BY <1>1, PoolInvariant, PTL DEF PoolSpec
<1> QED BY <1>2 DEF QuietLoadIsCurrent
=============================================================================
