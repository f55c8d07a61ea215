------------------------------- MODULE PackTree -------------------------------
(***************************************************************************)
(* The on-disk state every publisher and the scrub share, and the library  *)
(* that reads it (scripts/lib/published_tree.py).                          *)
(*                                                                         *)
(*   generations/<gen>/         internal trees, linked by live / previous  *)
(*   published/packs/<r>/<gen>/ what HTTP clients download                 *)
(*   published/current.json     the catalogue: the generation of each      *)
(*                              region that clients are told to fetch      *)
(*                                                                         *)
(* A generation id is a UTC stamp with a random suffix; ids sort by name   *)
(* in the order they are handed out, so Gen is an interval of Nat.         *)
(***************************************************************************)
EXTENDS Naturals, FiniteSets

CONSTANTS
    Region,      \* bake regions
    MaxGen,      \* bound: generation ids ever handed out
    KeepPrior,   \* NAVI_PUBLISHED_KEEP_PER_REGION
    MaxFaults    \* bound: crashes, failing commands and corrupt copies

ASSUME MaxGenAssumption == MaxGen \in Nat
ASSUME KeepPriorAssumption == KeepPrior \in Nat
ASSUME MaxFaultsAssumption == MaxFaults \in Nat

Gen == 1 .. MaxGen
NoGen == 0
GenOrNone == Gen \cup {NoGen}

(***************************************************************************)
(* A published generation directory is absent; partial, when it has a      *)
(* .publish_in_progress marker or no manifest.json; or complete, and then  *)
(* its bytes match checksums.sha256 ("good") or do not ("bad").            *)
(***************************************************************************)
DirState == {"absent", "partial", "good", "bad"}
CompleteState == {"good", "bad"}

VARIABLES
    packs,    \* packs[r][g]: state of published/packs/<r>/<g>
    current,  \* current[r]: the generation current.json lists for r
    gens,     \* directories under generations/
    busy,     \* those of them that hold .smoke_in_progress
    live,     \* target of the live symlink
    previous, \* target of the previous symlink
    pointer,  \* content of CURRENT_GENERATION
    issued,   \* generation ids handed out so far
    faults    \* crashes, failing commands and corrupt copies so far

treeVars == <<packs, current, gens, busy, live, previous, pointer, issued, faults>>

TreeTypeOK ==
    /\ packs \in [Region -> [Gen -> DirState]]
    /\ current \in [Region -> GenOrNone]
    /\ gens \subseteq Gen /\ busy \subseteq Gen
    /\ live \in GenOrNone /\ previous \in GenOrNone /\ pointer \in GenOrNone
    /\ issued \in 0 .. MaxGen
    /\ faults \in 0 .. MaxFaults

TreeInit ==
    /\ packs = [r \in Region |-> [g \in Gen |-> "absent"]]
    /\ current = [r \in Region |-> NoGen]
    /\ gens = {} /\ busy = {}
    /\ live = NoGen /\ previous = NoGen /\ pointer = NoGen
    /\ issued = 0
    /\ faults = 0

-----------------------------------------------------------------------------
\* complete_gens: the generations of a region without marker, with manifest.
Complete(r) == {g \in Gen : packs[r][g] \in CompleteState}

\* A mutant: sorted without reverse.
Oldest(S) ==
    IF S = {} THEN NoGen ELSE CHOOSE g \in S : \A h \in S : g <= h

\* complete_gens(...)[0]: the newest by name, or none.
Newest(S) ==
    IF S = {} THEN NoGen ELSE CHOOSE g \in S : \A h \in S : h <= g

\* Mutants: sorted without reverse; [keep_prior :]; the whole of packs/<r>/.
StaleAscending(r) ==
    {g \in Complete(r) :
        Cardinality({h \in Complete(r) : h < g}) > KeepPrior}
StaleOffByOne(r) ==
    {g \in Complete(r) :
        Cardinality({h \in Complete(r) : h > g}) >= KeepPrior}
StaleAll(r) == Complete(r)

\* complete_gens(...)[1 + keep_prior :]: all but the newest and KeepPrior more.
Stale(r) ==
    {g \in Complete(r) :
        Cardinality({h \in Complete(r) : h > g}) > KeepPrior}

\* What rebuild_current_json reads from the tree.
Catalog == [r \in Region |-> Newest(Complete(r))]

Fault ==
    /\ faults < MaxFaults
    /\ faults' = faults + 1

SetDir(r, g, s) == packs' = [packs EXCEPT ![r][g] = s]

\* A mutant: the marker stays.
SealKeepsMarker(r, g) == SetDir(r, g, "partial") /\ faults' = faults

\* The copy is finished and the marker removed; a faulty write leaves bytes
\* that do not match the digests.
SealDir(r, g) ==
    \/ SetDir(r, g, "good") /\ faults' = faults
    \/ SetDir(r, g, "bad") /\ Fault

\* shutil.rmtree of every stale generation of one region.
PruneStale(r) ==
    packs' = [packs EXCEPT ![r] =
        [g \in Gen |-> IF g \in Stale(r) THEN "absent" ELSE packs[r][g]]]

(***************************************************************************)
(* The same loop cut off by a crash: some stale generations are gone, one  *)
(* may be half removed, with its manifest still there ("bad") or not.      *)
(***************************************************************************)
PruneTorn(r) ==
    \E gone \in SUBSET Stale(r) :
        \/ packs' = [packs EXCEPT ![r] =
              [g \in Gen |-> IF g \in gone THEN "absent" ELSE packs[r][g]]]
        \/ \E torn \in Stale(r) \ gone, s \in {"bad", "partial"} :
              packs' = [packs EXCEPT ![r] =
                 [g \in Gen |-> IF g \in gone THEN "absent"
                                ELSE IF g = torn THEN s ELSE packs[r][g]]]

\* generation_id: a fresh id, later than every id handed out before.
IssueGen ==
    /\ issued < MaxGen
    /\ issued' = issued + 1

-----------------------------------------------------------------------------
(***************************************************************************)
(* What publish promises of the tree, whoever writes it.                   *)
(***************************************************************************)

\* A region that has a complete generation never ends up with none: "never
\* wipe packs/<path>/", "a mid-publish failure must leave the previous
\* generation intact" (publish-packs.sh, publish-safe.sh).
RegionsSurvive ==
    [][\A r \in Region : Complete(r) # {} => Complete(r)' # {}]_treeVars

\* The same for generations whose bytes match their checksums: pruning waits
\* until the new generation is confirmed, so a corrupt one never replaces the
\* last good one.
LastGoodSurvives ==
    [][\A r \in Region :
        (\E g \in Gen : packs[r][g] = "good") =>
            (\E g \in Gen : packs[r][g] = "good")']_treeVars

\* The catalogue never sends a region's clients back to an older generation.
CatalogNeverRegresses ==
    [][\A r \in Region : current[r] <= current'[r]]_treeVars

\* Every manifest_url that current.json lists can be fetched
\* (docs/client-fetch.md:64).
CatalogAlwaysResolves ==
    \A r \in Region : current[r] # NoGen => current[r] \in Complete(r)

\* The same until something fails.
CatalogResolves == faults = 0 => CatalogAlwaysResolves

\* Until something fails, the live and previous symlinks have a generation
\* behind them: previous is kept "as rollback" (publish-packs.sh:3), through
\* promotion and scrub.  (A run killed between the two swaps leaves the last
\* generation named by neither link, free for the next scrub.)
LinksResolve ==
    faults = 0 =>
        /\ live # NoGen => live \in gens
        /\ previous # NoGen => previous \in gens

\* A generation marked .smoke_in_progress is never removed under its writer:
\* "no cross-gen rm -rf of in-flight dirs" (run-planet-smoke-parallel.sh:10).
InFlightSurvives ==
    [][\A g \in busy \cap gens : g \in gens']_treeVars

\* The catalogue and the generations behind it, as a client sees them.
Client == INSTANCE ClientCatalogue
    WITH complete <- [r \in Region |-> Complete(r)], listed <- current

\* Every step of the publishers adds a generation, retires superseded ones, or
\* replaces the catalogue by the newest of each region, and does nothing else
\* that a client could see.
ImplementsCatalogue == Client!Spec
=============================================================================
