-------------------------------- MODULE Scrub --------------------------------
(***************************************************************************)
(* The generation retention of scripts/cleanup.sh, run at the end of every *)
(* weekly bake and by a daily timer of its own: keep the Keep newest       *)
(* generations and whatever live and previous point to, remove the others, *)
(* and with each the directories of its name two levels below packs/.      *)
(*                                                                         *)
(* Regions whose publish path is one segment (url: and planet sources) lie *)
(* at that depth: Flat.  Geofabrik paths are deeper and are not matched.   *)
(*                                                                         *)
(* The links are resolved and the generations listed by two consecutive    *)
(* commands, taken as one step.                                            *)
(***************************************************************************)
EXTENDS PackTree

CONSTANTS
    Keep, \* NAVI_KEEP_GENERATIONS
    Flat  \* regions published as packs/<id>/<gen>

\* cleanup.sh dies when it is asked to keep fewer.
ASSUME KeepAssumption == Keep \in Nat \ {0, 1}
ASSUME FlatAssumption == Flat \subseteq Region

VARIABLES
    cdoomed, \* generations the running scrub has still to remove
    later    \* later[g]: generation directories, staged ones too, modified after g

ScrubTypeOK ==
    /\ cdoomed \subseteq Gen
    /\ later \in [Gen -> SUBSET Gen]
    /\ \A g \in Gen : g \notin later[g]

ScrubInit == cdoomed = {} /\ later = [g \in Gen |-> {}]

\* A mutant: the rollback is not protected.
ProtectLive == {live}

Protected == {live, previous}

\* The newest Keep directories of generations/ by modification time.
Recent == {g \in gens : Cardinality(later[g] \cap gens) < Keep}

(***************************************************************************)
(* A directory is modified when it is made and when its .smoke_in_progress *)
(* is removed; a rename does not count.  before and after are the          *)
(* generation directories, wherever they are, around a step; a step        *)
(* modifies at most one of them.                                           *)
(***************************************************************************)
Modified(before, after) == (after \ before) \cup ((busy \ busy') \cap after)

\* A mutant: a directory that is modified again keeps its old place too.
StampTwice(before, after) ==
    LET touched == Modified(before, after)
    IN  later' = [g \in Gen |->
          IF g \in after THEN (later[g] \cap after) \cup touched ELSE {}]

Stamp(before, after) ==
    LET touched == Modified(before, after)
    IN  later' = [g \in Gen |->
          IF g \in after \ touched THEN (later[g] \cap after) \cup touched ELSE {}]

CStart ==
    /\ cdoomed = {}
    /\ cdoomed' = gens \ (Recent \cup Protected)
    /\ UNCHANGED treeVars

CRemove(g) ==
    /\ g \in cdoomed
    /\ gens' = gens \ {g}
    /\ busy' = busy \ {g}
    /\ packs' = [r \in Region |->
          IF r \in Flat THEN [packs[r] EXCEPT ![g] = "absent"] ELSE packs[r]]
    /\ cdoomed' = cdoomed \ {g}
    /\ UNCHANGED <<current, live, previous, pointer, issued, faults>>

\* A scrub that is killed leaves the rest to the next one.
CCrash ==
    /\ cdoomed # {}
    /\ Fault
    /\ cdoomed' = {}
    /\ UNCHANGED <<packs, current, gens, busy, live, previous, pointer, issued>>

ScrubNext == CStart \/ (\E g \in Gen : CRemove(g)) \/ CCrash
=============================================================================
