----------------------------- MODULE RegionLock -----------------------------
(***************************************************************************)
(* Exclusive ownership of one region's PBF-backed work                     *)
(* (pack-convert-core/src/routing/region_lock.rs): an in-process registry  *)
(* entry per process and a sibling lock file that all processes share.     *)
(* Both are looked at first and written afterwards, so that two tasks may  *)
(* pass the look before either writes.  Whoever recovers a dead owner or   *)
(* gives the lock up also takes the owner out of the convert's checkpoint  *)
(* beside it, which is read, cut to nothing and written anew, in place and *)
(* under no lock.  A task is one call: it ends, is refused or cancelled,   *)
(* or dies with its process.  A process keeps its pid for good: pids are   *)
(* not reused.                                                             *)
(***************************************************************************)
EXTENDS Integers, FiniteSets

CONSTANTS
  Converts, \* tasks that call try_acquire_convert
  Plans,    \* tasks that call acquire_plan_fallback
  Procs,    \* operating system processes, named by their pid
  ProcOf,   \* the process each task runs in
  MaxKills  \* bound on the kills

Tasks == Converts \cup Plans

ASSUME LockAssumption ==
  /\ Converts \cap Plans = {}
  /\ {"none", "torn"} \cap Procs = {}
  /\ ProcOf \in [Tasks -> Procs]
  /\ MaxKills \in Nat

VARIABLES
  at,       \* at[t]: where task t is in acquiring and releasing the lock
  registry, \* registry[p]: the kind of the owner in process p, or "none"
  lockFile, \* the record in the lock file, or NoLock
  dead,     \* the processes that were killed
  ckpt,     \* the checkpoint file; pbf = 0 if there is none to be read
  draft     \* draft[t]: task t's rewriting of the checkpoint, or NoDraft

lockVars == <<at, registry, lockFile, dead, draft>>

Kind(t) == IF t \in Converts THEN "convert" ELSE "plan_fallback"
NoLock == [pid |-> "none", kind |-> "none"]
Record(t) == [pid |-> ProcOf[t], kind |-> Kind(t)]

NoCkpt == [pbf |-> 0, done |-> {}, owner |-> "none"]

\* A checkpoint cut to nothing, which nobody can read.
Torn == [NoCkpt EXCEPT !.owner = "torn"]
NoDraft == [stage |-> "none", text |-> NoCkpt]

Waiting == {"recover", "reclaim", "registry", "file", "install"}
Owning == {"persist", "held", "unlock", "unregister"}
Over == {"done", "refused", "cancelled", "killed"}

LockTypeOK ==
  /\ at \in [Tasks -> {"idle"} \cup Waiting \cup Owning \cup Over]
  /\ registry \in [Procs -> {"none", "convert", "plan_fallback"}]
  /\ lockFile \in {NoLock} \cup [pid : Procs, kind : {"convert", "plan_fallback"}]
  /\ dead \subseteq Procs

LockInit ==
  /\ at = [t \in Tasks |-> "idle"]
  /\ registry = [p \in Procs |-> "none"]
  /\ lockFile = NoLock
  /\ dead = {}
  /\ ckpt = NoCkpt
  /\ draft = [t \in Tasks |-> NoDraft]

Go(t, from, to) ==
  /\ at[t] = from
  /\ at' = [at EXCEPT ![t] = to]

\* Mutant of Alive: a dead owner is taken for a living one.
AliveAlways(p) == p \in Procs

\* pid_is_alive
Alive(p) == p \in Procs \ dead

StaleLock == lockFile # NoLock /\ ~ Alive(lockFile.pid)
FileOwned == Alive(lockFile.pid)

\* What a caller does on meeting an owner of kind k: a convert refuses to
\* run beside a convert; everyone else sleeps and starts over.
OnOwner(t, k) == IF Kind(t) = "convert" /\ k = "convert" THEN "refused" ELSE "recover"

-----------------------------------------------------------------------------

\* clear_checkpoint_owner_fields: a checkpoint owned by one of the pids is
\* read here, and rewritten in the two steps below.
ClearOwner(t, pids) ==
  draft' = IF ckpt.owner \in pids
           THEN [draft EXCEPT ![t] = [stage |-> "open", text |-> ckpt]]
           ELSE draft

\* Task t is not rewriting the checkpoint.
Settled(t) == draft[t] = NoDraft

\* fs::write cuts the file short, or makes it again if it has gone, unless
\* the directory is gone as well...
Open(t) ==
  /\ draft[t].stage = "open"
  /\ \/ ckpt' = Torn /\ draft' = [draft EXCEPT ![t].stage = "fill"]
     \/ UNCHANGED ckpt /\ draft' = [draft EXCEPT ![t] = NoDraft]
  /\ UNCHANGED <<at, registry, lockFile, dead>>

\* ...and writes the text into it: a file that another one replaced or
\* removed in between stays as that left it.
Fill(t) ==
  /\ draft[t].stage = "fill"
  /\ ckpt' = IF ckpt = Torn THEN [draft[t].text EXCEPT !.owner = "none"] ELSE ckpt
  /\ draft' = [draft EXCEPT ![t] = NoDraft]
  /\ UNCHANGED <<at, registry, lockFile, dead>>

-----------------------------------------------------------------------------

Ask(t) ==
  /\ Alive(ProcOf[t])
  /\ Go(t, "idle", "recover")
  /\ UNCHANGED <<registry, lockFile, dead, draft>>

\* recover_stale reads the file here and removes it in a later step,
\* whatever it then holds, after the dead owner's mark on the checkpoint.
Recover(t) ==
  /\ Go(t, "recover", IF StaleLock THEN "reclaim" ELSE "registry")
  /\ ClearOwner(t, IF StaleLock THEN {lockFile.pid} ELSE dead)
  /\ UNCHANGED <<registry, lockFile, dead, ckpt>>

\* The checkpoint is looked at once more, now for any dead owner.
Reclaim(t) ==
  /\ Settled(t)
  /\ Go(t, "reclaim", "registry")
  /\ lockFile' = NoLock
  /\ ClearOwner(t, dead)
  /\ UNCHANGED <<registry, dead, ckpt>>

CheckRegistry(t) ==
  LET owner == registry[ProcOf[t]] IN
  /\ Settled(t)
  /\ Go(t, "registry", IF owner = "none" THEN "file" ELSE OnOwner(t, owner))
  /\ UNCHANGED <<registry, lockFile, dead, ckpt, draft>>

CheckFile(t) ==
  /\ Go(t, "file", IF FileOwned THEN OnOwner(t, lockFile.kind) ELSE "install")
  /\ UNCHANGED <<registry, lockFile, dead, ckpt, draft>>

Install(t) ==
  /\ Go(t, "install", "persist")
  /\ registry' = [registry EXCEPT ![ProcOf[t]] = Kind(t)]
  /\ UNCHANGED <<lockFile, dead, ckpt, draft>>

Persist(t) ==
  /\ Go(t, "persist", "held")
  /\ lockFile' = Record(t)
  /\ UNCHANGED <<registry, dead, ckpt, draft>>

SetPhase(t) ==
  /\ at[t] = "held"
  /\ lockFile' = Record(t)
  /\ UNCHANGED <<at, registry, dead, draft>>

\* Drop takes its mark off the checkpoint...
Release(t) ==
  /\ Go(t, "held", "unlock")
  /\ ClearOwner(t, {ProcOf[t]})
  /\ UNCHANGED <<registry, lockFile, dead>>

\* ...removes the lock file without asking whose it is, then its own entry.
Unlock(t) ==
  /\ Settled(t)
  /\ Go(t, "unlock", "unregister")
  /\ lockFile' = NoLock
  /\ UNCHANGED <<registry, dead, ckpt, draft>>

\* Mutant of Unregister: the entry is left to whoever comes next.
UnregisterNever(t) ==
  /\ Go(t, "unregister", "done")
  /\ UNCHANGED <<registry, lockFile, dead, ckpt, draft>>

Unregister(t) ==
  /\ Go(t, "unregister", "done")
  /\ registry' = [registry EXCEPT ![ProcOf[t]] = IF @ = Kind(t) THEN "none" ELSE @]
  /\ UNCHANGED <<lockFile, dead, ckpt, draft>>

\* abort_if_cancelled at the head of the loop; a batch convert has no plan
\* id and is never cancelled.
Cancel(t) ==
  /\ t \in Plans
  /\ Go(t, "recover", "cancelled")
  /\ UNCHANGED <<registry, lockFile, dead, draft>>

\* SIGKILL: no Drop runs, the file stays, the registry and what was being
\* written die with the process.
KillProc(p) ==
  /\ p \notin dead
  /\ Cardinality(dead) < MaxKills
  /\ dead' = dead \cup {p}
  /\ at' = [t \in Tasks |-> IF ProcOf[t] = p /\ at[t] \notin Over THEN "killed" ELSE at[t]]
  /\ registry' = [registry EXCEPT ![p] = "none"]
  /\ draft' = [t \in Tasks |-> IF ProcOf[t] = p THEN NoDraft ELSE draft[t]]
  /\ UNCHANGED lockFile

\* The steps of an acquisition and of a release in progress.
LockStep(t) ==
  \/ Recover(t) \/ Reclaim(t) \/ CheckRegistry(t) \/ CheckFile(t)
  \/ Install(t) \/ Persist(t) \/ Unlock(t) \/ Unregister(t)
  \/ Open(t) \/ Fill(t)

-----------------------------------------------------------------------------

\* No sequence of races and kills leaves the region owned by nobody: once no
\* task is acquiring or holding it, no registry entry is left and the lock
\* file is gone or stale, so that the next caller gets in
\* (region_lock.rs:374-391, "recover after force-stop").
NothingLeaks ==
  (\A t \in Tasks : at[t] \notin Owning) =>
    /\ \A p \in Procs : registry[p] = "none"
    /\ ~ FileOwned

\* A plan that asks for the region, the one task that waits for it, gets it or
\* is cancelled, whatever dies meanwhile (region_lock.rs:469-492).
WaitersServed ==
  \A t \in Plans : at[t] = "recover" ~> at[t] \in {"held"} \cup Over

=============================================================================
