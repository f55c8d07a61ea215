----------------------------- MODULE PublishProofs -----------------------------
(***************************************************************************)
(* Theorems about the publishers and the scrub, for any numbers of         *)
(* regions, workers, generations and faults: first of the planet workers   *)
(* by themselves (SafeSpec), then of Spec, in which everything runs at     *)
(* once, then of a host that runs the weekly bake and the scrub            *)
(* (WeeklyHost).                                                           *)
(***************************************************************************)
EXTENDS PublishSystem, FiniteSetTheorems, WellFoundedInduction, TLAPS

-----------------------------------------------------------------------------
(* THE PLANET WORKERS BY THEMSELVES (SafeSpec)                             *)

-----------------------------------------------------------------------------
(* The newest generation of a set, and what pruning leaves.                *)

LEMMA GreatestGen ==
    ASSUME NEW S \in SUBSET Gen, S # {}
    PROVE  \E g \in S : \A h \in S : h <= g
<1> DEFINE Below == {MaxGen - g : g \in S}
<1>1. Below \subseteq Nat /\ Below # {}
    BY MaxGenAssumption DEF Gen
<1>2. PICK x \in Below : \A y \in Below : ~ (<<y, x>> \in OpToRel(<, Nat))
    BY <1>1, WFMin, NatLessThanWellFounded
<1>3. \A y \in Below : x <= y
    <2>1. \A y \in Below : <<y, x>> \in Nat \X Nat
        BY <1>1
    <2>2. \A y \in Below : ~ (y < x)
        BY <1>2, <2>1 DEF OpToRel
    <2>3. QED
        BY <1>1, <2>2
<1>4. PICK g \in S : x = MaxGen - g
    OBVIOUS
<1>5. \A h \in S : h <= g
    BY <1>3, <1>4, MaxGenAssumption DEF Gen
<1>6. QED
    BY <1>5

LEMMA NewestIsGreatest ==
    ASSUME NEW S \in SUBSET Gen
    PROVE  /\ Newest(S) \in GenOrNone
           /\ S # {} => Newest(S) \in S /\ \A h \in S : h <= Newest(S)
           /\ S = {} => Newest(S) = NoGen
<1>1. CASE S = {}
    BY <1>1 DEF Newest, GenOrNone
<1>2. CASE S # {}
    <2>1. \E g \in S : \A h \in S : h <= g
        BY <1>2, GreatestGen
    <2>2. Newest(S) \in S /\ \A h \in S : h <= Newest(S)
        BY <1>2, <2>1 DEF Newest
    <2>3. QED
        BY <1>2, <2>2 DEF GenOrNone
<1>3. QED
    BY <1>1, <1>2

LEMMA NewestMonotone ==
    ASSUME NEW S \in SUBSET Gen, NEW T \in SUBSET Gen,
           S # {} => Newest(S) \in T
    PROVE  Newest(S) <= Newest(T)
<1>1. CASE S = {}
    BY <1>1, NewestIsGreatest, MaxGenAssumption DEF GenOrNone, Gen, NoGen
<1>2. CASE S # {}
    BY <1>2, NewestIsGreatest
<1>3. QED
    BY <1>1, <1>2

LEMMA NewestIsNotStale ==
    ASSUME NEW r \in Region, Complete(r) # {}
    PROVE  Newest(Complete(r)) \in Complete(r) \ Stale(r)
<1> DEFINE n == Newest(Complete(r))
<1>1. Complete(r) \in SUBSET Gen
    BY DEF Complete
<1>2. n \in Complete(r) /\ \A h \in Complete(r) : h <= n
    BY <1>1, NewestIsGreatest
<1>3. {h \in Complete(r) : h > n} = {}
    BY <1>1, <1>2, MaxGenAssumption DEF Gen
<1>4. Cardinality({h \in Complete(r) : h > n}) = 0
    BY <1>3, FS_EmptySet
<1>5. ~ (Cardinality({h \in Complete(r) : h > n}) > KeepPrior)
    BY <1>4, KeepPriorAssumption
<1>6. QED
    BY <1>2, <1>5 DEF Stale

-----------------------------------------------------------------------------
(* The inductive invariant.                                                *)

AllTypeOK == TreeTypeOK /\ SafeTypeOK

\* Ids not handed out yet have left no trace under published/.
Unissued ==
    \A r \in Region, g \in Gen : g > issued => packs[r][g] = "absent"

\* A worker with a region has an id of its own among those handed out, one
\* region to publish under it, and the lock where the code holds it.
Owned ==
    \A w \in Worker :
        /\ spc[w] = "idle" <=> sgen[w] = NoGen
        /\ sgen[w] <= issued
        /\ \A v \in Worker : v # w /\ sgen[w] # NoGen => sgen[v] # sgen[w]
        /\ spc[w] \in InLock => lock = w

\* Nothing complete carries the id of a worker that has yet to seal it.
Unsealed ==
    \A w \in Worker : spc[w] \in {"wait", "begin"} =>
        \A r \in Region : packs[r][sgen[w]] \notin CompleteState

\* A catalogue scanned under the lock is still the newest state of the tree
\* when it is written, and the one on disk is not ahead of the tree.
Listing ==
    /\ \A w \in Worker : spc[w] = "replace" => ssnap[w] = Catalog
    /\ \A r \in Region : current[r] <= Newest(Complete(r))

SafeInv == AllTypeOK /\ Unissued /\ Owned /\ Unsealed /\ Listing

-----------------------------------------------------------------------------
(* Type correctness.                                                       *)

LEMMA CatalogType == Catalog \in [Region -> GenOrNone]
<1>1. \A r \in Region : Complete(r) \in SUBSET Gen
    BY DEF Complete
<1>2. QED
    BY <1>1, NewestIsGreatest DEF Catalog

\* Pruning, whole or torn, keeps the tree well typed.
LEMMA PruneType ==
    ASSUME TreeTypeOK, NEW r \in Region, PruneStale(r) \/ PruneTorn(r)
    PROVE  packs' \in [Region -> [Gen -> DirState]]
<1>1. CASE PruneStale(r)
    BY <1>1 DEF PruneStale, TreeTypeOK, DirState
<1>2. CASE PruneTorn(r)
    BY <1>2 DEF PruneTorn, TreeTypeOK, DirState
<1>3. QED
    BY <1>1, <1>2

LEMMA SafeInitType == TreeInit /\ SafeInit => AllTypeOK
    BY MaxGenAssumption, MaxFaultsAssumption
    DEF TreeInit, SafeInit, AllTypeOK, TreeTypeOK, SafeTypeOK, DirState,
        GenOrNone, SPoint, NoScan

LEMMA SafeTypeStep ==
    ASSUME AllTypeOK, [SafeNext]_safeOnlyVars
    PROVE  AllTypeOK'
<1> USE MaxGenAssumption, MaxFaultsAssumption DEF AllTypeOK, SPoint
<1>1. ASSUME NEW w \in Worker, NEW r \in Region, SStage(w, r)
      PROVE  AllTypeOK'
    <2>1. issued + 1 \in Gen /\ issued' \in 0 .. MaxGen
        BY <1>1 DEF SStage, IssueGen, TreeTypeOK, Gen
    <2>2. TreeTypeOK'
        BY <1>1, <2>1 DEF SStage, TreeTypeOK
    <2>3. SafeTypeOK'
        BY <1>1, <2>1 DEF SStage, SafeTypeOK, Goto, GenOrNone
    <2>4. QED
        BY <2>2, <2>3
<1>2. ASSUME NEW w \in Worker, SLock(w)
      PROVE  AllTypeOK'
    BY <1>2 DEF SLock, Goto, TreeTypeOK, SafeTypeOK, treeVars
<1>3. ASSUME NEW w \in Worker, NEW r \in Region, SBegin(w, r)
      PROVE  AllTypeOK'
    BY <1>3 DEF SBegin, SetDir, Goto, TreeTypeOK, SafeTypeOK, DirState
<1>4. ASSUME NEW w \in Worker, NEW r \in Region, SSeal(w, r)
      PROVE  AllTypeOK'
    <2>1. packs' \in [Region -> [Gen -> DirState]] /\ faults' \in 0 .. MaxFaults
        BY <1>4 DEF SSeal, SealDir, SetDir, Fault, TreeTypeOK, DirState
    <2>2. QED
        BY <1>4, <2>1 DEF SSeal, Goto, TreeTypeOK, SafeTypeOK
<1>5. ASSUME NEW w \in Worker, NEW r \in Region, SPrune(w, r)
      PROVE  AllTypeOK'
    <2>1. packs' \in [Region -> [Gen -> DirState]]
        BY <1>5, PruneType DEF SPrune
    <2>2. QED
        BY <1>5, <2>1 DEF SPrune, Goto, TreeTypeOK, SafeTypeOK
<1>6. ASSUME NEW w \in Worker, SScan(w)
      PROVE  AllTypeOK'
    BY <1>6, CatalogType DEF SScan, Goto, TreeTypeOK, SafeTypeOK, treeVars
<1>7. ASSUME NEW w \in Worker, SReplace(w)
      PROVE  AllTypeOK'
    BY <1>7 DEF SReplace, Goto, TreeTypeOK, SafeTypeOK, NoScan, GenOrNone
<1>8. ASSUME NEW w \in Worker, SPythonFails(w)
      PROVE  AllTypeOK'
    BY <1>8 DEF SPythonFails, Fault, Goto, TreeTypeOK, SafeTypeOK, NoScan, GenOrNone
<1>9. ASSUME NEW w \in Worker, SSwapLive(w)
      PROVE  AllTypeOK'
    BY <1>9 DEF SSwapLive, Goto, TreeTypeOK, SafeTypeOK
<1>10. ASSUME NEW w \in Worker, SSetPointer(w)
       PROVE  AllTypeOK'
    BY <1>10 DEF SSetPointer, Goto, TreeTypeOK, SafeTypeOK
<1>11. ASSUME NEW w \in Worker, SReap(w)
       PROVE  AllTypeOK'
    BY <1>11 DEF SReap, Goto, TreeTypeOK, SafeTypeOK, GenOrNone
<1>12. ASSUME NEW w \in Worker, SCrash(w)
       PROVE  AllTypeOK'
    <2>1. packs' \in [Region -> [Gen -> DirState]]
        <3>1. CASE packs' = packs
            BY <3>1 DEF TreeTypeOK
        <3>2. CASE \E r \in sregion[w] : PruneTorn(r)
            BY <3>2, PruneType DEF SafeTypeOK
        <3>3. QED
            BY <1>12, <3>1, <3>2 DEF SCrash
    <2>2. QED
        BY <1>12, <2>1 DEF SCrash, Fault, Goto, TreeTypeOK, SafeTypeOK, NoScan, GenOrNone
<1>13. CASE UNCHANGED safeOnlyVars
    BY <1>13 DEF safeOnlyVars, safeVars, treeVars, TreeTypeOK, SafeTypeOK
<1>14. QED
    BY <1>1, <1>2, <1>3, <1>4, <1>5, <1>6, <1>7, <1>8, <1>9, <1>10, <1>11,
       <1>12, <1>13 DEF SafeNext, SafeStep

\* The workers keep every variable within its type.
THEOREM SafeTypeCorrect == SafeSpec => [](TreeTypeOK /\ SafeTypeOK)
<1>1. AllTypeOK /\ [SafeNext]_safeOnlyVars => AllTypeOK'
    BY SafeTypeStep
<1>2. QED
    BY <1>1, SafeInitType, PTL DEF SafeSpec, PlanetInit, AllTypeOK

-----------------------------------------------------------------------------
(* What one step does to the published generations.                        *)

LEMMA PruneEffect ==
    ASSUME TreeTypeOK, NEW r \in Region, PruneStale(r) \/ PruneTorn(r),
           NEW q \in Region, NEW g \in Gen, q # r \/ g \notin Stale(r)
    PROVE  packs'[q][g] = packs[q][g]
<1>1. CASE PruneStale(r)
    BY <1>1 DEF PruneStale, TreeTypeOK
<1>2. CASE PruneTorn(r)
    BY <1>2 DEF PruneTorn, TreeTypeOK
<1>3. QED
    BY <1>1, <1>2

\* Only the worker whose id it is begins or seals a generation, and all else
\* that changes is stale.
LEMMA PacksStep ==
    ASSUME AllTypeOK, [SafeNext]_safeOnlyVars, NEW q \in Region, NEW g \in Gen
    PROVE  \/ packs'[q][g] = packs[q][g]
           \/ g \in Stale(q)
           \/ \E w \in Worker :
                 /\ g = sgen[w]
                 /\ \/ spc[w] = "begin" /\ packs'[q][g] = "partial"
                    \/ spc[w] = "copy" /\ packs'[q][g] \in CompleteState
<1> DEFINE Goal == \/ packs'[q][g] = packs[q][g]
                   \/ g \in Stale(q)
                   \/ \E w \in Worker :
                         /\ g = sgen[w]
                         /\ \/ spc[w] = "begin" /\ packs'[q][g] = "partial"
                            \/ spc[w] = "copy" /\ packs'[q][g] \in CompleteState
<1>1. CASE packs' = packs
    BY <1>1
<1>2. ASSUME NEW w \in Worker, NEW r \in Region, SBegin(w, r)
      PROVE  Goal
    BY <1>2 DEF SBegin, SetDir, AllTypeOK, TreeTypeOK, SafeTypeOK
<1>3. ASSUME NEW w \in Worker, NEW r \in Region, SSeal(w, r)
      PROVE  Goal
    BY <1>3 DEF SSeal, SealDir, SetDir, CompleteState, AllTypeOK, TreeTypeOK, SafeTypeOK
<1>4. ASSUME NEW r \in Region, PruneStale(r) \/ PruneTorn(r)
      PROVE  Goal
    <2>1. CASE q = r /\ g \in Stale(r)
        BY <2>1
    <2>2. CASE q # r \/ g \notin Stale(r)
        BY <1>4, <2>2, PruneEffect DEF AllTypeOK
    <2>3. QED
        BY <2>1, <2>2
<1>5. ASSUME NEW w \in Worker, SCrash(w)
      PROVE  Goal
    BY <1>1, <1>4, <1>5 DEF SCrash, AllTypeOK, SafeTypeOK
<1>6. \/ packs' = packs
      \/ \E w \in Worker, r \in Region : SBegin(w, r) \/ SSeal(w, r) \/ SPrune(w, r)
      \/ \E w \in Worker : SCrash(w)
    BY DEF SafeNext, SafeStep, SStage, SLock, SScan, SReplace, SPythonFails,
           SSwapLive, SSetPointer, SReap, safeOnlyVars, treeVars
<1>7. QED
    BY <1>1, <1>2, <1>3, <1>4, <1>5, <1>6 DEF SPrune

\* Whoever changes a published generation is in the finalize.
LEMMA WriterInLock ==
    ASSUME [SafeNext]_safeOnlyVars, packs' # packs
    PROVE  \E w \in Worker : spc[w] \in {"begin", "copy", "prune"}
    BY DEF SafeNext, SafeStep, SStage, SLock, SBegin, SSeal, SPrune, SScan,
           SReplace, SPythonFails, SSwapLive, SSetPointer, SReap, SCrash,
           safeOnlyVars, treeVars

-----------------------------------------------------------------------------
(* The invariant is preserved, part by part.                               *)

LEMMA UnissuedStep ==
    ASSUME AllTypeOK, Unissued, Owned, [SafeNext]_safeOnlyVars
    PROVE  Unissued'
<1>1. issued \in Nat /\ issued' \in Nat /\ issued <= issued'
    BY MaxGenAssumption
    DEF SafeNext, SafeStep, SStage, IssueGen, SLock, SBegin, SSeal, SPrune, SScan,
        SReplace, SPythonFails, SSwapLive, SSetPointer, SReap, SCrash,
        safeOnlyVars, treeVars, AllTypeOK, TreeTypeOK
<1>2. SUFFICES ASSUME NEW r \in Region, NEW g \in Gen, g > issued'
               PROVE  packs'[r][g] = "absent"
    BY DEF Unissued
<1>3. g > issued /\ packs[r][g] = "absent"
    BY <1>1, <1>2, MaxGenAssumption DEF Unissued, Gen
<1>4. g \notin Stale(r)
    BY <1>3 DEF Stale, Complete, CompleteState
<1>5. \A w \in Worker : g # sgen[w]
    BY <1>1, <1>3, MaxGenAssumption DEF Owned, AllTypeOK, SafeTypeOK, GenOrNone, NoGen, Gen
<1>6. QED
    BY <1>3, <1>4, <1>5, PacksStep

LEMMA OwnedStep ==
    ASSUME AllTypeOK, Owned, [SafeNext]_safeOnlyVars
    PROVE  Owned'
<1> USE FreeAssumption DEF Owned, SafeTypeOK, InLock, InPython, SPoint
<1>1. ASSUME NEW w \in Worker, NEW r \in Region, SStage(w, r)
      PROVE  Owned'
    <2>1. issued \in Nat /\ issued' = issued + 1 /\ NoGen # issued + 1
        BY <1>1, MaxGenAssumption DEF SStage, IssueGen, AllTypeOK, TreeTypeOK, NoGen
    <2>2. \A v \in Worker : sgen[v] \in Nat
        BY MaxGenAssumption DEF AllTypeOK, GenOrNone, Gen, NoGen
    <2>3. QED
        BY <1>1, <2>1, <2>2 DEF SStage, Goto, AllTypeOK
<1>2. ASSUME NEW w \in Worker, SLock(w)
      PROVE  Owned'
    BY <1>2 DEF SLock, Goto, AllTypeOK, treeVars
<1>3. ASSUME NEW w \in Worker, NEW r \in Region,
             SBegin(w, r) \/ SSeal(w, r) \/ SPrune(w, r)
      PROVE  Owned'
    BY <1>3 DEF SBegin, SSeal, SPrune, Goto, AllTypeOK
<1>4. ASSUME NEW w \in Worker, SScan(w) \/ SReplace(w) \/ SPythonFails(w)
      PROVE  Owned'
    BY <1>4 DEF SScan, SReplace, SPythonFails, Goto, AllTypeOK, treeVars
<1>5. ASSUME NEW w \in Worker, SSwapLive(w) \/ SSetPointer(w)
      PROVE  Owned'
    BY <1>5 DEF SSwapLive, SSetPointer, Goto, AllTypeOK
<1>6. ASSUME NEW w \in Worker, SReap(w) \/ SCrash(w)
      PROVE  Owned'
    <2>1. \A v \in Worker : v # w => sgen'[v] = sgen[v] /\ spc'[v] = spc[v]
        BY <1>6 DEF SReap, SCrash, Goto, AllTypeOK
    <2>2. spc'[w] = "idle" /\ sgen'[w] = NoGen /\ issued' = issued
        BY <1>6 DEF SReap, SCrash, Goto, AllTypeOK
    <2>3. \A v \in Worker : v # w /\ lock = v => lock' = v
        BY <1>6 DEF SReap, SCrash, AllTypeOK
    <2>4. issued \in Nat
        BY DEF AllTypeOK, TreeTypeOK
    <2>5. QED
        BY <2>1, <2>2, <2>3, <2>4 DEF NoGen
<1>7. CASE UNCHANGED safeOnlyVars
    BY <1>7 DEF safeOnlyVars, safeVars, treeVars
<1>8. QED
    BY <1>1, <1>2, <1>3, <1>4, <1>5, <1>6, <1>7 DEF SafeNext, SafeStep

LEMMA UnsealedStep ==
    ASSUME AllTypeOK, Unissued, Owned, Unsealed, [SafeNext]_safeOnlyVars
    PROVE  Unsealed'
<1>1. SUFFICES ASSUME NEW w \in Worker, spc'[w] \in {"wait", "begin"}, NEW r \in Region
               PROVE  packs'[r][sgen'[w]] \notin CompleteState
    BY DEF Unsealed
<1>2. CASE spc[w] = "idle"
    <2>1. PICK q \in Region : SStage(w, q)
        BY <1>1, <1>2
        DEF SafeNext, SafeStep, SStage, SLock, SBegin, SSeal, SPrune, SScan,
            SReplace, SPythonFails, SSwapLive, SSetPointer, SReap, SCrash, Goto,
            InPython, safeOnlyVars, safeVars, treeVars, AllTypeOK, SafeTypeOK
    <2>2. issued + 1 \in Gen /\ issued + 1 > issued
        BY <2>1, MaxGenAssumption DEF SStage, IssueGen, AllTypeOK, TreeTypeOK, Gen
    <2>3. packs[r][issued + 1] = "absent"
        BY <2>2 DEF Unissued
    <2>4. QED
        BY <2>1, <2>3 DEF SStage, AllTypeOK, SafeTypeOK, CompleteState
<1>3. CASE spc[w] # "idle"
    <2>1. spc[w] \in {"wait", "begin"} /\ sgen'[w] = sgen[w]
        BY <1>1, <1>3
        DEF SafeNext, SafeStep, SStage, SLock, SBegin, SSeal, SPrune, SScan,
            SReplace, SPythonFails, SSwapLive, SSetPointer, SReap, SCrash, Goto,
            InPython, safeOnlyVars, safeVars, treeVars, AllTypeOK, SafeTypeOK
    <2>2. packs[r][sgen[w]] \notin CompleteState
        BY <2>1 DEF Unsealed
    <2>3. sgen[w] \in Gen /\ sgen[w] # NoGen
        BY <1>3 DEF Owned, AllTypeOK, SafeTypeOK, GenOrNone
    <2>4. sgen[w] \notin Stale(r)
        BY <2>2 DEF Stale, Complete
    <2>5. \A v \in Worker : sgen[v] = sgen[w] => v = w
        BY <2>3 DEF Owned
    <2>6. packs'[r][sgen[w]] = packs[r][sgen[w]] \/ packs'[r][sgen[w]] = "partial"
        BY <2>1, <2>3, <2>4, <2>5, PacksStep
    <2>7. QED
        BY <2>1, <2>2, <2>6 DEF CompleteState
<1>4. QED
    BY <1>2, <1>3

\* The newest complete generation of a region outlives every step.
LEMMA StepKeepsNewest ==
    ASSUME AllTypeOK, Unsealed, [SafeNext]_safeOnlyVars,
           NEW r \in Region, Complete(r) # {}
    PROVE  Newest(Complete(r)) \in Complete(r)'
<1> DEFINE n == Newest(Complete(r))
<1>1. n \in Gen /\ packs[r][n] \in CompleteState /\ n \notin Stale(r)
    BY NewestIsNotStale DEF Complete
<1>2. packs'[r][n] \in CompleteState
    <2>1. \A w \in Worker : n = sgen[w] => spc[w] # "begin"
        BY <1>1 DEF Unsealed
    <2>2. QED
        BY <1>1, <2>1, PacksStep
<1>3. QED
    BY <1>1, <1>2 DEF Complete

\* So the newest generation of a region only ever gets newer.
LEMMA NewestGrows ==
    ASSUME AllTypeOK, Unsealed, [SafeNext]_safeOnlyVars, NEW r \in Region
    PROVE  Newest(Complete(r)) <= Newest(Complete(r)')
<1>1. Complete(r) \in SUBSET Gen /\ Complete(r)' \in SUBSET Gen
    BY DEF Complete
<1>2. QED
    BY <1>1, StepKeepsNewest, NewestMonotone

\* current.json is only ever replaced by the newest generation of each region.
LEMMA CatalogStep ==
    ASSUME Listing, [SafeNext]_safeOnlyVars
    PROVE  current' = current \/ current' = Catalog
<1>1. CASE \E w \in Worker : SReplace(w)
    BY <1>1 DEF SReplace, Listing
<1>2. CASE ~ \E w \in Worker : SReplace(w)
    BY <1>2
    DEF SafeNext, SafeStep, SStage, SLock, SBegin, SSeal, SPrune, SScan,
        SPythonFails, SSwapLive, SSetPointer, SReap, SCrash, safeOnlyVars, treeVars
<1>3. QED
    BY <1>1, <1>2

\* Generations are numbers, NoGen included.
LEMMA GenerationsAreNumbers ==
    ASSUME AllTypeOK, NEW r \in Region
    PROVE  current[r] \in Nat /\ Newest(Complete(r)) \in Nat
<1>1. GenOrNone \subseteq Nat
    BY MaxGenAssumption DEF GenOrNone, Gen, NoGen
<1>2. Complete(r) \in SUBSET Gen
    BY DEF Complete
<1>3. QED
    BY <1>1, <1>2, NewestIsGreatest DEF AllTypeOK, TreeTypeOK

LEMMA ListingStep ==
    ASSUME AllTypeOK, Owned, Unsealed, Listing, [SafeNext]_safeOnlyVars
    PROVE  Listing'
<1>1. ASSUME NEW w \in Worker, spc'[w] = "replace"
      PROVE  ssnap'[w] = Catalog'
    <2>1. CASE SScan(w)
        BY <2>1 DEF SScan, Catalog, Complete, treeVars, AllTypeOK, SafeTypeOK
    <2>2. CASE ~ SScan(w)
        <3>1. spc[w] = "replace" /\ ssnap'[w] = ssnap[w]
            BY <1>1, <2>2
            DEF SafeNext, SafeStep, SStage, SLock, SBegin, SSeal, SPrune, SScan,
                SReplace, SPythonFails, SSwapLive, SSetPointer, SReap, SCrash,
                Goto, InPython, safeOnlyVars, safeVars, treeVars, AllTypeOK, SafeTypeOK
        <3>2. packs' = packs
            BY <3>1, WriterInLock DEF Owned, InLock, InPython
        <3>3. QED
            BY <3>1, <3>2 DEF Listing, Catalog, Complete
    <2>3. QED
        BY <2>1, <2>2
<1>2. ASSUME NEW r \in Region
      PROVE  current'[r] <= Newest(Complete(r)')
    <2>1. current'[r] <= Newest(Complete(r))
        BY CatalogStep, GenerationsAreNumbers DEF Listing, Catalog
    <2>2. Newest(Complete(r)) <= Newest(Complete(r)')
        BY NewestGrows
    <2>3. current'[r] \in Nat /\ Newest(Complete(r)') \in Nat
        <3>1. GenOrNone \subseteq Nat
            BY MaxGenAssumption DEF GenOrNone, Gen, NoGen
        <3>2. current'[r] \in GenOrNone
            BY SafeTypeStep DEF AllTypeOK, TreeTypeOK
        <3>3. Complete(r)' \in SUBSET Gen
            BY DEF Complete
        <3>4. QED
            BY <3>1, <3>2, <3>3, NewestIsGreatest
    <2>4. QED
        BY <2>1, <2>2, <2>3, GenerationsAreNumbers
<1>3. QED
    BY <1>1, <1>2 DEF Listing

-----------------------------------------------------------------------------
(* The theorems.                                                           *)

LEMMA SafeInvInit == TreeInit /\ SafeInit => SafeInv
<1> SUFFICES ASSUME TreeInit, SafeInit
             PROVE  SafeInv
    OBVIOUS
<1>1. AllTypeOK
    BY SafeInitType
<1>2. \A r \in Region : Complete(r) = {}
    BY DEF TreeInit, Complete, CompleteState
<1>3. Unissued /\ Owned /\ Unsealed
    BY DEF TreeInit, SafeInit, Unissued, Owned, Unsealed, InLock, InPython, NoGen
<1>4. Listing
    BY <1>2 DEF TreeInit, SafeInit, Listing, Newest, NoGen
<1>5. QED
    BY <1>1, <1>3, <1>4 DEF SafeInv

LEMMA SafeInvStep == SafeInv /\ [SafeNext]_safeOnlyVars => SafeInv'
    BY SafeTypeStep, UnissuedStep, OwnedStep, UnsealedStep, ListingStep DEF SafeInv

\* However the workers interleave, fail and crash, the inductive invariant
\* holds: ids are unshared, the lock excludes, the catalogue trails the tree.
THEOREM SafeInvariant == SafeSpec => []SafeInv
    BY SafeInvInit, SafeInvStep, PTL DEF SafeSpec, PlanetInit

\* No finalize, prune or crash of any number of workers ever takes the last
\* complete generation of a region away.
THEOREM SafeRegionsSurvive == SafeSpec => RegionsSurvive
<1>1. SafeInv /\ [SafeNext]_safeOnlyVars =>
        [\A r \in Region : Complete(r) # {} => Complete(r)' # {}]_treeVars
    BY StepKeepsNewest DEF SafeInv
<1>2. QED
    BY <1>1, SafeInvariant, PTL DEF SafeSpec, PlanetInit, RegionsSurvive

\* Under the flock no rebuild of current.json sends a region's clients back to
\* an older generation than the one listed.
THEOREM SafeCatalogNeverRegresses == SafeSpec => CatalogNeverRegresses
<1>1. SafeInv /\ [SafeNext]_safeOnlyVars =>
        [\A r \in Region : current[r] <= current'[r]]_treeVars
    <2>1. ASSUME SafeInv, [SafeNext]_safeOnlyVars, NEW r \in Region
          PROVE  current[r] <= current'[r]
        <3>1. AllTypeOK /\ Listing
            BY <2>1 DEF SafeInv
        <3>2. current[r] \in Nat /\ current[r] <= Newest(Complete(r))
            BY <3>1, GenerationsAreNumbers DEF Listing
        <3>3. QED
            BY <2>1, <3>1, <3>2, CatalogStep DEF Catalog
    <2>2. QED
        BY <2>1
<1>2. QED
    BY <1>1, SafeInvariant, PTL DEF SafeSpec, PlanetInit, CatalogNeverRegresses

-----------------------------------------------------------------------------
(* The workers implement the catalogue that clients are promised.          *)

LEMMA PruneRetires ==
    ASSUME TreeTypeOK, NEW r \in Region, PruneStale(r) \/ PruneTorn(r), UNCHANGED current
    PROVE  Client!Next
<1> DEFINE old == Complete(r) \ Complete(r)'
           n == Newest(Complete(r))
<1>1. \A g \in old : g \in Stale(r)
    BY PruneEffect DEF Complete
<1>2. Complete(r)' = Complete(r) \ old
    <2>1. \A g \in Gen : g \notin Stale(r) => packs'[r][g] = packs[r][g]
        BY PruneEffect
    <2>2. \A g \in Gen : g \in Complete(r)' => g \in Complete(r)
        BY <2>1 DEF Complete, Stale
    <2>3. QED
        BY <2>2 DEF Complete
<1>3. \A q \in Region : q # r => Complete(q)' = Complete(q)
    BY PruneEffect DEF Complete
<1>4. ASSUME NEW g \in old
      PROVE  n \in Complete(r) \ old /\ g < n
    <2>1. n \in Complete(r) \ Stale(r)
        BY NewestIsNotStale
    <2>2. g <= n /\ g # n
        BY <1>1, <2>1, NewestIsGreatest DEF Complete
    <2>3. g \in Nat /\ n \in Nat
        BY <2>1, MaxGenAssumption DEF Complete, Gen
    <2>4. QED
        BY <1>1, <2>1, <2>2, <2>3
<1>5. Client!Retire(r, old)
    BY <1>2, <1>3, <1>4 DEF Client!Retire
<1>6. old \in SUBSET Client!Gen
    BY DEF Complete, Gen, Client!Gen
<1>7. QED
    BY <1>5, <1>6 DEF Client!Next

LEMMA SealPublishes ==
    ASSUME AllTypeOK, NEW w \in Worker, NEW r \in Region, SSeal(w, r)
    PROVE  Client!Next \/ \A q \in Region : Complete(q)' = Complete(q)
<1> DEFINE g == sgen[w]
<1>1. /\ g \in Gen
      /\ \A q \in Region, h \in Gen :
            packs'[q][h] = packs[q][h] \/ (q = r /\ h = g)
      /\ packs'[r][g] \in CompleteState
      /\ current' = current
    BY DEF SSeal, SealDir, SetDir, CompleteState, AllTypeOK, TreeTypeOK, SafeTypeOK
<1>2. \A q \in Region : q # r => Complete(q)' = Complete(q)
    BY <1>1 DEF Complete
<1>3. Complete(r)' = Complete(r) \cup {g}
    BY <1>1 DEF Complete
<1>4. CASE g \in Complete(r)
    BY <1>2, <1>3, <1>4
<1>5. CASE g \notin Complete(r)
    <2>1. Client!Publish(r, g)
        BY <1>1, <1>2, <1>3, <1>5 DEF Client!Publish
    <2>2. QED
        BY <1>1, <2>1 DEF Client!Next, Client!Gen, Gen
<1>6. QED
    BY <1>4, <1>5

LEMMA CatalogRefreshes ==
    ASSUME current' = Catalog, packs' = packs
    PROVE  Client!Next
<1>1. \A r \in Region : Complete(r) \in SUBSET Gen /\ Complete(r)' = Complete(r)
    BY DEF Complete
<1>2. Catalog \in [Region -> 0 .. MaxGen]
    BY CatalogType, MaxGenAssumption DEF GenOrNone, Gen, NoGen
<1>3. \A r \in Region : Client!IsNewest(r, Catalog[r])
    BY <1>1, NewestIsGreatest DEF Catalog, Client!IsNewest, NoGen
<1>4. QED
    BY <1>1, <1>2, <1>3 DEF Client!Refresh, Client!Next

\* Every step is a step of the catalogue, or one that no client can see.
LEMMA StepRefines ==
    ASSUME AllTypeOK, Unsealed, Listing, [SafeNext]_safeOnlyVars
    PROVE  \/ Client!Next
           \/ current' = current /\ \A r \in Region : Complete(r)' = Complete(r)
<1> DEFINE Goal == \/ Client!Next
                   \/ current' = current /\ \A r \in Region : Complete(r)' = Complete(r)
<1>1. CASE packs' = packs
    <2>1. \A r \in Region : Complete(r)' = Complete(r)
        BY <1>1 DEF Complete
    <2>2. QED
        BY <1>1, <2>1, CatalogStep, CatalogRefreshes
<1>2. ASSUME NEW w \in Worker, NEW r \in Region, SBegin(w, r)
      PROVE  Goal
    <2>1. \A q \in Region, g \in Gen :
             packs'[q][g] = packs[q][g] \/ (q = r /\ g = sgen[w] /\ packs'[q][g] = "partial")
        BY <1>2 DEF SBegin, SetDir, AllTypeOK, TreeTypeOK
    <2>2. packs[r][sgen[w]] \notin CompleteState
        BY <1>2 DEF SBegin, Unsealed
    <2>3. \A q \in Region : Complete(q)' = Complete(q)
        BY <2>1, <2>2 DEF Complete, CompleteState
    <2>4. QED
        BY <1>2, <2>3 DEF SBegin
<1>3. ASSUME NEW w \in Worker, NEW r \in Region, SSeal(w, r)
      PROVE  Goal
    BY <1>3, SealPublishes DEF SSeal
<1>4. ASSUME NEW r \in Region, PruneStale(r) \/ PruneTorn(r), current' = current
      PROVE  Goal
    BY <1>4, PruneRetires DEF AllTypeOK
<1>5. ASSUME NEW w \in Worker, SCrash(w)
      PROVE  Goal
    BY <1>1, <1>4, <1>5 DEF SCrash, AllTypeOK, SafeTypeOK
<1>6. \/ packs' = packs
      \/ \E w \in Worker, r \in Region : SBegin(w, r) \/ SSeal(w, r) \/ SPrune(w, r)
      \/ \E w \in Worker : SCrash(w)
    BY DEF SafeNext, SafeStep, SStage, SLock, SScan, SReplace, SPythonFails,
           SSwapLive, SSetPointer, SReap, safeOnlyVars, treeVars
<1>7. QED
    BY <1>1, <1>2, <1>3, <1>4, <1>5, <1>6 DEF SPrune

\* What clients see of any number of planet workers, faults and crashes is
\* the promised catalogue: generations are added, superseded ones retired, and
\* current.json replaced by the newest of every region.
THEOREM SafeImplementsCatalogue == SafeSpec => ImplementsCatalogue
<1>1. TreeInit => Client!Init
    BY DEF TreeInit, Client!Init, Complete, CompleteState, NoGen
<1>2. SafeInv /\ [SafeNext]_safeOnlyVars =>
        [Client!Next]_<<[r \in Region |-> Complete(r)], current>>
    BY StepRefines DEF SafeInv
<1>3. QED
    BY <1>1, <1>2, SafeInvariant, PTL DEF SafeSpec, PlanetInit, ImplementsCatalogue, Client!Spec

-----------------------------------------------------------------------------
(* What a return of 0 means.                                               *)

\* A worker's generation is there, and marked, until the worker unmarks it
\* under the lock; and it publishes one region.
Marked ==
    \A w \in Worker :
        /\ spc[w] \notin {"idle", "reap"} => sgen[w] \in gens \cap busy
        /\ \A q, r \in sregion[w] : q = r

\* Once its python step is through, a worker's region has a generation.
Sealed ==
    \A w \in Worker :
        spc[w] \in {"prune", "scan", "replace", "swap", "pointer", "reap"} =>
            \A r \in sregion[w] : Complete(r) # {}

OkInv ==
    /\ SafeInv
    /\ Marked
    /\ faults = 0 => Sealed /\ RegionOkIsPublished

\* No worker removes or unmarks what another one is writing: SReap spares what
\* is marked, and no two workers have the same id.
LEMMA MarkedStep ==
    ASSUME SafeInv, Marked, [SafeNext]_safeOnlyVars
    PROVE  Marked'
<1> USE DEF SafeInv
<1>1. ASSUME NEW w \in Worker, NEW r \in Region, SStage(w, r)
      PROVE  Marked'
    BY <1>1 DEF SStage, Goto, Marked, AllTypeOK, SafeTypeOK
<1>2. ASSUME NEW w \in Worker, SLock(w) \/ SScan(w) \/ SReplace(w) \/ SPythonFails(w)
      PROVE  Marked'
    BY <1>2 DEF SLock, SScan, SReplace, SPythonFails, InPython, Goto, treeVars,
                Marked, AllTypeOK, SafeTypeOK
<1>3. ASSUME NEW w \in Worker, NEW r \in Region,
             SBegin(w, r) \/ SSeal(w, r) \/ SPrune(w, r)
      PROVE  Marked'
    BY <1>3 DEF SBegin, SSeal, SPrune, Goto, Marked, AllTypeOK, SafeTypeOK
<1>4. ASSUME NEW w \in Worker, SSwapLive(w)
      PROVE  Marked'
    BY <1>4 DEF SSwapLive, Goto, Marked, AllTypeOK, SafeTypeOK
<1>5. ASSUME NEW w \in Worker, SSetPointer(w)
      PROVE  Marked'
    <2>1. \A v \in Worker : v # w /\ spc[v] # "idle" => sgen[v] # sgen[w]
        BY DEF Owned
    <2>2. QED
        BY <1>5, <2>1 DEF SSetPointer, Goto, Marked, AllTypeOK, SafeTypeOK
<1>6. ASSUME NEW w \in Worker, SReap(w)
      PROVE  Marked'
    BY <1>6 DEF SReap, Finished, Goto, Marked, AllTypeOK, SafeTypeOK
<1>7. ASSUME NEW w \in Worker, SCrash(w)
      PROVE  Marked'
    BY <1>7 DEF SCrash, Goto, Marked, AllTypeOK, SafeTypeOK
<1>8. CASE UNCHANGED safeOnlyVars
    BY <1>8 DEF safeOnlyVars, safeVars, treeVars, Marked
<1>9. QED
    BY <1>1, <1>2, <1>3, <1>4, <1>5, <1>6, <1>7, <1>8 DEF SafeNext, SafeStep

\* No step takes a fault back.
LEMMA SafeFaultsStay ==
    ASSUME AllTypeOK, [SafeNext]_safeOnlyVars
    PROVE  faults' # 0 \/ faults' = faults
<1>1. faults' = faults \/ Fault
    BY DEF SafeNext, SafeStep, SStage, SLock, SBegin, SSeal, SealDir, SPrune, SScan,
           SReplace, SPythonFails, SSwapLive, SSetPointer, SReap, SCrash,
           safeOnlyVars, treeVars
<1>2. faults \in Nat
    BY MaxFaultsAssumption DEF AllTypeOK, TreeTypeOK
<1>3. QED
    BY <1>1, <1>2 DEF Fault

LEMMA SealedStep ==
    ASSUME SafeInv, Marked, Sealed, RegionOkIsPublished,
           [SafeNext]_safeOnlyVars, faults' = faults
    PROVE  Sealed' /\ RegionOkIsPublished'
<1> USE DEF SafeInv
<1> DEFINE Done == {"prune", "scan", "replace", "swap", "pointer", "reap"}
<1>1. faults \in Nat
    BY MaxFaultsAssumption DEF AllTypeOK, TreeTypeOK
<1>2. ASSUME NEW r \in Region, Complete(r) # {}
      PROVE  Complete(r)' # {}
    BY <1>2, StepKeepsNewest
<1>3. ASSUME NEW w \in Worker, spc'[w] \in Done, NEW r \in sregion'[w]
      PROVE  Complete(r)' # {}
    <2>1. r \in Region
        BY <1>3, SafeTypeStep DEF AllTypeOK, SafeTypeOK
    <2>2. CASE spc[w] \in Done
        <3>1. sregion'[w] = sregion[w]
            BY <1>3, <2>2
            DEF SafeNext, SafeStep, SStage, SLock, SBegin, SSeal, SPrune, SScan,
                SReplace, SPythonFails, SSwapLive, SSetPointer, SReap, SCrash, Goto,
                safeOnlyVars, safeVars, AllTypeOK, SafeTypeOK
        <3>2. QED
            BY <1>2, <1>3, <2>1, <2>2, <3>1 DEF Sealed
    <2>3. CASE spc[w] \notin Done
        <3>1. spc[w] = "copy" => sgen[w] \in gens
            BY DEF Marked
        <3>2. PICK q \in Region : SSeal(w, q)
            BY <1>1, <1>3, <2>3, <3>1
            DEF SafeNext, SafeStep, SStage, SLock, SBegin, SSeal, SPrune, SScan,
                SReplace, SPythonFails, SSwapLive, SSetPointer, SReap, SCrash, Goto,
                InPython, Fault, safeOnlyVars, safeVars, AllTypeOK, SafeTypeOK
        <3>3. r = q
            BY <1>3, <3>2 DEF SSeal, Marked
        <3>4. sgen[w] \in Gen
            BY <3>2 DEF SSeal, Owned, AllTypeOK, SafeTypeOK, GenOrNone
        <3>5. packs'[r][sgen[w]] \in CompleteState
            BY <3>2, <3>3, <3>4 DEF SSeal, SealDir, SetDir, CompleteState, AllTypeOK, TreeTypeOK
        <3>6. QED
            BY <3>4, <3>5 DEF Complete
    <2>4. QED
        BY <2>2, <2>3
<1>4. ASSUME NEW r \in okd'
      PROVE  Complete(r)' # {}
    <2>1. r \in okd \/ \E w \in Worker : spc[w] = "reap" /\ r \in sregion[w]
        BY <1>4
        DEF SafeNext, SafeStep, SStage, SLock, SBegin, SSeal, SPrune, SScan,
            SReplace, SPythonFails, SSwapLive, SSetPointer, SReap, SCrash,
            safeOnlyVars, safeVars
    <2>2. r \in Region /\ Complete(r) # {}
        BY <2>1 DEF Sealed, RegionOkIsPublished, AllTypeOK, SafeTypeOK
    <2>3. QED
        BY <1>2, <2>2
<1>5. QED
    BY <1>3, <1>4 DEF Sealed, RegionOkIsPublished

\* A region recorded as region_ok has a complete generation as long as nothing
\* fails: no worker finds its source taken away by another one's finalize, so
\* none skips its python step.
THEOREM SafeRegionOkUnlessFault == SafeSpec => []RegionOkUnlessFault
<1>1. PlanetInit => OkInv
    <2>1. SUFFICES ASSUME PlanetInit
                   PROVE  OkInv
        OBVIOUS
    <2>2. Marked /\ Sealed /\ RegionOkIsPublished
        BY <2>1 DEF PlanetInit, SafeInit, Marked, Sealed, RegionOkIsPublished
    <2>3. QED
        BY <2>1, <2>2, SafeInvInit DEF OkInv, PlanetInit
<1>2. OkInv /\ [SafeNext]_safeOnlyVars => OkInv'
    <2>1. SUFFICES ASSUME OkInv, [SafeNext]_safeOnlyVars
                   PROVE  OkInv'
        OBVIOUS
    <2>2. SafeInv' /\ Marked'
        BY <2>1, SafeInvStep, MarkedStep DEF OkInv
    <2>3. faults' = 0 => Sealed' /\ RegionOkIsPublished'
        BY <2>1, SafeFaultsStay, SealedStep DEF OkInv, SafeInv
    <2>4. QED
        BY <2>2, <2>3 DEF OkInv
<1>3. OkInv => RegionOkUnlessFault
    BY DEF OkInv, RegionOkUnlessFault
<1>4. QED
    BY <1>1, <1>2, <1>3, PTL DEF SafeSpec

\* No step of any worker removes a generation that is marked as in progress.
THEOREM SafeInFlightSurvives == SafeSpec => InFlightSurvives
<1>1. [SafeNext]_safeOnlyVars => [\A g \in busy \cap gens : g \in gens']_treeVars
    BY DEF SafeNext, SafeStep, SStage, SLock, SBegin, SSeal, SPrune, SScan,
           SReplace, SPythonFails, SSwapLive, SSetPointer, SReap, Finished, SCrash,
           safeOnlyVars, treeVars
<1>2. QED
    BY <1>1, PTL DEF SafeSpec, InFlightSurvives

-----------------------------------------------------------------------------
(* EVERYTHING AT ONCE (Spec)                                               *)

-----------------------------------------------------------------------------
(* The inductive invariant.                                                *)

WAssembled == {"preverify", "promote", "swap", "previous", "pointer"}
WCopying == {"copy", "verify", "prune"}

\* The weekly run has an id of those handed out, and it is no worker's.
WeeklyOwned ==
    /\ wpc \notin WIdle => wgen # NoGen
    /\ wgen <= issued
    /\ \A w \in Worker : sgen[w] # NoGen => sgen[w] # wgen

\* It copies one region at a time and has put nothing in those still to come.
WeeklyUntouched ==
    /\ wpc \notin WCopying => wregion = {}
    /\ wregion \subseteq wtodo /\ \A q, r \in wregion : q = r
    /\ wpc \in WAssembled => \A r \in Region : packs[r][wgen] = "absent"
    /\ wpc \in WCopying \cup {"sync"} =>
          \A r \in wtodo \ wregion : packs[r][wgen] = "absent"

SystemInv ==
    /\ TypeOK
    /\ Unissued /\ Owned /\ Unsealed
    /\ WeeklyOwned /\ WeeklyUntouched

-----------------------------------------------------------------------------
(* Type correctness.                                                       *)

LEMMA EndType ==
    ASSUME WeeklyTypeOK, NEW point \in WIdle, WEnd(point), staging' = staging
    PROVE  WeeklyTypeOK'
    BY DEF WeeklyTypeOK, WEnd, WIdle, WPoint, NoCatalog, GenOrNone

LEMMA WeeklyTypeStep ==
    ASSUME TreeTypeOK, WeeklyTypeOK, WeeklyOwned, WeeklyNext
    PROVE  TreeTypeOK' /\ WeeklyTypeOK'
<1> USE DEF WPoint, WIdle, locals, treeVars
<1> DEFINE Goal == TreeTypeOK' /\ WeeklyTypeOK'
<1>1. ASSUME NEW regions \in SUBSET Region, WAssemble(regions)
      PROVE  Goal
    <2>1. issued + 1 \in Gen /\ issued' \in 0 .. MaxGen
        BY <1>1, MaxGenAssumption DEF WAssemble, IssueGen, Gen, TreeTypeOK
    <2>2. QED
        BY <1>1, <2>1 DEF WAssemble, GenOrNone, TreeTypeOK, WeeklyTypeOK
<1>2. CASE WPreVerify
    BY <1>2, EndType DEF WPreVerify, TreeTypeOK, WeeklyTypeOK
<1>3. CASE WPromote \/ WSwapLive \/ WSetPrevious \/ WSetPointer
    <2>1. wgen \in Gen
        BY <1>3 DEF WeeklyOwned, WPromote, WSwapLive, WSetPrevious, WSetPointer,
                    WeeklyTypeOK, GenOrNone
    <2>2. QED
        BY <1>3, <2>1 DEF WPromote, WSwapLive, WSetPrevious, WSetPointer, GenOrNone,
                          TreeTypeOK, WeeklyTypeOK
<1>4. CASE WSourceGone
    BY <1>4, EndType DEF WSourceGone, TreeTypeOK
<1>5. ASSUME NEW r \in Region, WBeginRegion(r)
      PROVE  Goal
    BY <1>5 DEF WBeginRegion, SetDir, DirState, TreeTypeOK, WeeklyTypeOK
<1>6. ASSUME NEW r \in Region, WSeal(r)
      PROVE  Goal
    <2>1. packs' \in [Region -> [Gen -> DirState]] /\ faults' \in 0 .. MaxFaults
        BY <1>6, MaxFaultsAssumption DEF WSeal, SealDir, SetDir, Fault, TreeTypeOK, DirState
    <2>2. QED
        BY <1>6, <2>1 DEF WSeal, TreeTypeOK, WeeklyTypeOK
<1>7. ASSUME NEW r \in Region, WPostVerify(r)
      PROVE  Goal
    BY <1>7, EndType DEF WPostVerify, TreeTypeOK, WeeklyTypeOK
<1>8. ASSUME NEW r \in Region, WPrune(r)
      PROVE  Goal
    <2>1. packs' \in [Region -> [Gen -> DirState]]
        BY <1>8, PruneType DEF WPrune
    <2>2. QED
        BY <1>8, <2>1 DEF WPrune, TreeTypeOK, WeeklyTypeOK
<1>9. CASE WScan
    BY <1>9, CatalogType DEF WScan, TreeTypeOK, WeeklyTypeOK
<1>10. CASE WReplace
    <2>1. WeeklyTypeOK'
        BY <1>10, EndType DEF WReplace
    <2>2. TreeTypeOK'
        BY <1>10 DEF WReplace, TreeTypeOK, WeeklyTypeOK
    <2>3. QED
        BY <2>1, <2>2
<1>11. CASE WInterrupt
    <2>1. packs' \in [Region -> [Gen -> DirState]]
        BY <1>11, PruneType DEF WInterrupt, TreeTypeOK, WeeklyTypeOK
    <2>2. faults' \in 0 .. MaxFaults
        BY <1>11, MaxFaultsAssumption DEF WInterrupt, Fault, TreeTypeOK
    <2>3. WeeklyTypeOK'
        BY <1>11, EndType DEF WInterrupt
    <2>4. QED
        BY <1>11, <2>1, <2>2, <2>3 DEF WInterrupt, TreeTypeOK
<1>12. QED
    BY <1>1, <1>2, <1>3, <1>4, <1>5, <1>6, <1>7, <1>8, <1>9, <1>10, <1>11 DEF WeeklyNext

LEMMA ScrubTypeStep ==
    ASSUME TreeTypeOK, cdoomed \subseteq Gen, ScrubNext
    PROVE  TreeTypeOK' /\ cdoomed' \subseteq Gen
<1>1. CASE CStart
    BY <1>1 DEF CStart, TreeTypeOK, treeVars
<1>2. ASSUME NEW g \in Gen, CRemove(g)
      PROVE  TreeTypeOK' /\ cdoomed' \subseteq Gen
    BY <1>2 DEF CRemove, TreeTypeOK, DirState
<1>3. CASE CCrash
    BY <1>3, MaxFaultsAssumption DEF CCrash, Fault, TreeTypeOK
<1>4. QED
    BY <1>1, <1>2, <1>3 DEF ScrubNext

\* Whatever a step does to the directories, their order stays one.
LEMMA StampType ==
    ASSUME ScrubTypeOK, Stamped, (gens \cup staging)' \subseteq Gen
    PROVE  /\ later' \in [Gen -> SUBSET Gen]
           /\ \A g \in Gen : g \notin later'[g]
<1> DEFINE after == (gens \cup staging)'
           touched == Modified(gens \cup staging, after)
<1>1. touched \subseteq Gen
    BY DEF Modified
<1>2. later' = [g \in Gen |->
          IF g \in after \ touched THEN (later[g] \cap after) \cup touched ELSE {}]
    BY DEF Stamped, Stamp
<1> HIDE DEF touched, after
<1>3. QED
    BY <1>1, <1>2 DEF ScrubTypeOK

LEMMA TypeStep ==
    ASSUME TypeOK, WeeklyOwned, [Next]_vars
    PROVE  TypeOK'
<1> USE DEF TypeOK
<1>1. CASE Weekly
    <2>1. TreeTypeOK' /\ WeeklyTypeOK'
        BY <1>1, WeeklyTypeStep DEF Weekly
    <2>2. ScrubTypeOK'
        BY <1>1, <2>1, StampType DEF Weekly, ScrubTypeOK, TreeTypeOK, WeeklyTypeOK
    <2>3. QED
        BY <1>1, <2>1, <2>2 DEF Weekly, SafeTypeOK, safeVars
<1>2. CASE Safe
    <2>1. TreeTypeOK' /\ SafeTypeOK'
        BY <1>2, SafeTypeStep DEF Safe, AllTypeOK
    <2>2. WeeklyTypeOK'
        BY <1>2 DEF Safe, weeklyVars, WeeklyTypeOK
    <2>3. ScrubTypeOK'
        BY <1>2, <2>1, <2>2, StampType DEF Safe, ScrubTypeOK, TreeTypeOK, WeeklyTypeOK
    <2>4. QED
        BY <2>1, <2>2, <2>3
<1>3. CASE Cleanup
    <2>1. TreeTypeOK' /\ cdoomed' \subseteq Gen
        BY <1>3, ScrubTypeStep DEF Cleanup, ScrubTypeOK
    <2>2. WeeklyTypeOK' /\ SafeTypeOK'
        BY <1>3 DEF Cleanup, weeklyVars, safeVars, WeeklyTypeOK, SafeTypeOK
    <2>3. ScrubTypeOK'
        BY <1>3, <2>1, <2>2, StampType DEF Cleanup, ScrubTypeOK, TreeTypeOK, WeeklyTypeOK
    <2>4. QED
        BY <2>1, <2>2, <2>3
<1>4. CASE UNCHANGED vars
    BY <1>4 DEF vars, treeVars, weeklyVars, safeVars, TreeTypeOK, WeeklyTypeOK,
                SafeTypeOK, ScrubTypeOK
<1>5. QED
    BY <1>1, <1>2, <1>3, <1>4 DEF Next

-----------------------------------------------------------------------------
(* What one step does to the published generations.                        *)

\* The weekly run begins and seals its own generation of a region it has to
\* sync, and all else it changes is stale.
LEMMA WeeklyPacksStep ==
    ASSUME TypeOK, WeeklyOwned, WeeklyNext, NEW q \in Region, NEW g \in Gen
    PROVE  \/ packs'[q][g] = packs[q][g]
           \/ g \in Stale(q)
           \/ g = wgen /\ wpc = "sync" /\ q \in wtodo /\ packs'[q][g] = "partial"
           \/ g = wgen /\ wpc = "copy" /\ q \in wregion /\ packs'[q][g] \in CompleteState
<1> DEFINE Goal ==
       \/ packs'[q][g] = packs[q][g]
       \/ g \in Stale(q)
       \/ g = wgen /\ wpc = "sync" /\ q \in wtodo /\ packs'[q][g] = "partial"
       \/ g = wgen /\ wpc = "copy" /\ q \in wregion /\ packs'[q][g] \in CompleteState
<1>1. wpc \notin WIdle => wgen \in Gen
    BY DEF TypeOK, WeeklyTypeOK, WeeklyOwned, GenOrNone
<1>2. CASE packs' = packs
    BY <1>2
<1>3. ASSUME NEW r \in Region, WBeginRegion(r)
      PROVE  Goal
    BY <1>3 DEF WBeginRegion, SetDir, TypeOK, TreeTypeOK
<1>4. ASSUME NEW r \in Region, WSeal(r)
      PROVE  Goal
    BY <1>4 DEF WSeal, SealDir, SetDir, CompleteState, TypeOK, TreeTypeOK
<1>5. ASSUME NEW r \in Region, PruneStale(r) \/ PruneTorn(r)
      PROVE  Goal
    BY <1>5, PruneEffect DEF TypeOK
<1>6. \/ packs' = packs
      \/ \E r \in Region : WBeginRegion(r) \/ WSeal(r) \/ PruneStale(r) \/ PruneTorn(r)
    BY DEF WeeklyNext, WAssemble, WPreVerify, WPromote, WSwapLive, WSetPrevious,
           WSetPointer, WSourceGone, WPostVerify, WPrune, WScan, WReplace,
           WInterrupt, treeVars, TypeOK, WeeklyTypeOK
<1>7. QED
    BY <1>2, <1>3, <1>4, <1>5, <1>6

\* The scrub takes whole generations of flat regions.
LEMMA ScrubPacksStep ==
    ASSUME TypeOK, ScrubNext, NEW q \in Region, NEW g \in Gen
    PROVE  packs'[q][g] = packs[q][g] \/ (q \in Flat /\ packs'[q][g] = "absent")
    BY DEF ScrubNext, CStart, CRemove, CCrash, treeVars, TypeOK, TreeTypeOK

\* Whoever takes the step: a directory becomes partial or complete at the hands
\* of the one whose id it carries; otherwise it was stale, or is gone.
LEMMA SystemPacksStep ==
    ASSUME TypeOK, WeeklyOwned, [Next]_vars, NEW q \in Region, NEW g \in Gen
    PROVE  \/ packs'[q][g] = packs[q][g]
           \/ g \in Stale(q)
           \/ /\ Safe
              /\ \E w \in Worker :
                    /\ g = sgen[w]
                    /\ \/ spc[w] = "begin" /\ packs'[q][g] = "partial"
                       \/ spc[w] = "copy" /\ packs'[q][g] \in CompleteState
           \/ /\ Weekly
              /\ \/ g = wgen /\ wpc = "sync" /\ q \in wtodo /\ packs'[q][g] = "partial"
                 \/ g = wgen /\ wpc = "copy" /\ q \in wregion
                      /\ packs'[q][g] \in CompleteState
           \/ Cleanup /\ q \in Flat /\ packs'[q][g] = "absent"
<1>1. CASE Weekly
    BY <1>1, WeeklyPacksStep DEF Weekly
<1>2. CASE Safe
    BY <1>2, PacksStep DEF Safe, TypeOK, AllTypeOK
<1>3. CASE Cleanup
    BY <1>3, ScrubPacksStep DEF Cleanup
<1>4. CASE UNCHANGED vars
    BY <1>4 DEF vars, treeVars
<1>5. QED
    BY <1>1, <1>2, <1>3, <1>4 DEF Next

-----------------------------------------------------------------------------
(* The invariant is preserved, part by part.                               *)

\* Ids are handed out in order, by whoever takes the step.
LEMMA IssuedStep ==
    ASSUME TypeOK, [Next]_vars
    PROVE  issued \in Nat /\ issued' \in Nat /\ issued <= issued'
<1>1. issued \in Nat
    BY MaxGenAssumption DEF TypeOK, TreeTypeOK
<1>2. issued' = issued \/ IssueGen
    BY DEF Next, Weekly, Safe, Cleanup, ScrubNext, CStart, CRemove, CCrash,
           WeeklyNext, WAssemble, WPreVerify, WPromote, WSwapLive, WSetPrevious,
           WSetPointer, WSourceGone, WBeginRegion, WSeal, WPostVerify, WPrune,
           WScan, WReplace, WInterrupt, SafeNext, SafeStep, SStage, SLock, SBegin,
           SSeal, SPrune, SScan, SReplace, SPythonFails, SSwapLive, SSetPointer,
           SReap, SCrash, vars, treeVars
<1>3. QED
    BY <1>1, <1>2 DEF IssueGen

LEMMA SystemUnissuedStep ==
    ASSUME SystemInv, [Next]_vars
    PROVE  Unissued'
<1> USE DEF SystemInv
<1>1. SUFFICES ASSUME NEW r \in Region, NEW g \in Gen, g > issued'
               PROVE  packs'[r][g] = "absent"
    BY DEF Unissued
<1>2. g > issued /\ packs[r][g] = "absent"
    BY <1>1, IssuedStep, MaxGenAssumption DEF Unissued, Gen
<1>3. g \notin Stale(r)
    BY <1>2 DEF Stale, Complete, CompleteState
<1>4. \A w \in Worker : g # sgen[w]
    BY <1>1, <1>2, MaxGenAssumption
    DEF Owned, TypeOK, SafeTypeOK, TreeTypeOK, GenOrNone, NoGen, Gen
<1>5. g # wgen
    BY <1>1, <1>2, MaxGenAssumption
    DEF WeeklyOwned, TypeOK, WeeklyTypeOK, TreeTypeOK, GenOrNone, NoGen, Gen
<1>6. QED
    BY <1>2, <1>3, <1>4, <1>5, SystemPacksStep

\* A weekly step and the scrub leave the workers' ids alone.
LEMMA SystemOwnedStep ==
    ASSUME SystemInv, [Next]_vars
    PROVE  Owned'
<1> USE DEF SystemInv
<1>1. CASE Safe
    BY <1>1, OwnedStep DEF Safe, TypeOK, AllTypeOK
<1>2. CASE ~ Safe
    <2>1. UNCHANGED safeVars
        BY <1>2 DEF Next, Weekly, Cleanup, vars
    <2>2. \A w \in Worker : sgen[w] \in Nat
        BY MaxGenAssumption DEF TypeOK, SafeTypeOK, GenOrNone, Gen, NoGen
    <2>3. QED
        BY <2>1, <2>2, IssuedStep DEF Owned, safeVars
<1>3. QED
    BY <1>1, <1>2

LEMMA SystemUnsealedStep ==
    ASSUME SystemInv, [Next]_vars
    PROVE  Unsealed'
<1> USE DEF SystemInv
<1>1. CASE Safe
    BY <1>1, UnsealedStep DEF Safe, TypeOK, AllTypeOK
<1>2. CASE ~ Safe
    <2>1. SUFFICES ASSUME NEW w \in Worker, spc'[w] \in {"wait", "begin"}, NEW r \in Region
                   PROVE  packs'[r][sgen'[w]] \notin CompleteState
        BY DEF Unsealed
    <2>2. spc'[w] = spc[w] /\ sgen'[w] = sgen[w]
        BY <1>2 DEF Next, Weekly, Cleanup, vars, safeVars
    <2>3. packs[r][sgen[w]] \notin CompleteState
        BY <2>1, <2>2 DEF Unsealed
    <2>4. sgen[w] \in Gen /\ sgen[w] # NoGen /\ sgen[w] # wgen
        BY <2>1, <2>2 DEF Owned, WeeklyOwned, TypeOK, SafeTypeOK, GenOrNone
    <2>5. sgen[w] \notin Stale(r)
        BY <2>3 DEF Stale, Complete
    <2>6. packs'[r][sgen[w]] = packs[r][sgen[w]] \/ packs'[r][sgen[w]] = "absent"
        BY <1>2, <2>4, <2>5, SystemPacksStep
    <2>7. QED
        BY <2>2, <2>3, <2>6 DEF CompleteState
<1>3. QED
    BY <1>1, <1>2

\* An id is handed out to one publisher at a time, so the weekly run's and the
\* workers' stay apart.
LEMMA WeeklyOwnedStep ==
    ASSUME SystemInv, [Next]_vars
    PROVE  WeeklyOwned'
<1> USE DEF SystemInv
<1>1. \A w \in Worker : sgen[w] \in Nat /\ sgen[w] <= issued
    BY MaxGenAssumption DEF Owned, TypeOK, SafeTypeOK, GenOrNone, Gen, NoGen
<1>2. wgen \in Nat /\ wgen <= issued /\ issued \in Nat
    BY MaxGenAssumption DEF WeeklyOwned, TypeOK, WeeklyTypeOK, TreeTypeOK, GenOrNone, Gen, NoGen
<1>3. CASE Weekly
    <2>1. UNCHANGED safeVars /\ WeeklyNext
        BY <1>3 DEF Weekly
    <2>2. CASE \E regions \in SUBSET Region : WAssemble(regions)
        BY <1>1, <1>2, <2>1, <2>2 DEF WAssemble, IssueGen, WeeklyOwned, safeVars, NoGen
    <2>3. CASE ~ \E regions \in SUBSET Region : WAssemble(regions)
        <3>1. /\ wgen' = wgen \/ (wgen' = NoGen /\ wpc' \in WIdle)
              /\ wpc' \notin WIdle => wpc \notin WIdle
              /\ issued' = issued
            BY <2>1, <2>3
            DEF WeeklyNext, WPreVerify, WPromote, WSwapLive, WSetPrevious, WSetPointer,
                WSourceGone, WBeginRegion, WSeal, WPostVerify, WPrune, WScan, WReplace,
                WInterrupt, WEnd, WIdle, treeVars
        <3>2. QED
            BY <1>1, <1>2, <2>1, <3>1 DEF WeeklyOwned, safeVars, NoGen
    <2>4. QED
        BY <2>2, <2>3
<1>4. CASE Safe
    <2>1. wpc' = wpc /\ wgen' = wgen
        BY <1>4 DEF Safe, weeklyVars
    <2>2. \A w \in Worker : sgen'[w] \in {sgen[w], NoGen, issued + 1}
        BY <1>4 DEF Safe, SafeNext, SafeStep, SStage, SLock, SBegin, SSeal, SPrune,
                    SScan, SReplace, SPythonFails, SSwapLive, SSetPointer, SReap,
                    SCrash, TypeOK, SafeTypeOK
    <2>3. QED
        BY <1>2, <2>1, <2>2, IssuedStep DEF WeeklyOwned, NoGen
<1>5. CASE Cleanup \/ UNCHANGED vars
    <2>1. UNCHANGED <<weeklyVars, safeVars>>
        BY <1>5 DEF Cleanup, vars
    <2>2. QED
        BY <1>2, <2>1, IssuedStep DEF WeeklyOwned, weeklyVars, safeVars
<1>6. QED
    BY <1>3, <1>4, <1>5 DEF Next

\* What is not there at the weekly run's id stays so, unless the weekly run
\* itself begins that region.
LEMMA UntouchedStays ==
    ASSUME SystemInv, [Next]_vars, wgen # NoGen,
           NEW r \in Region, packs[r][wgen] = "absent",
           ~ (Weekly /\ wpc = "sync" /\ r \in wtodo /\ packs'[r][wgen] = "partial"),
           ~ (Weekly /\ wpc = "copy" /\ r \in wregion)
    PROVE  packs'[r][wgen] = "absent"
<1> USE DEF SystemInv
<1>1. wgen \in Gen /\ \A w \in Worker : sgen[w] # wgen
    BY DEF WeeklyOwned, TypeOK, WeeklyTypeOK, GenOrNone
<1>2. wgen \notin Stale(r)
    BY DEF Stale, Complete, CompleteState
<1>3. QED
    BY <1>1, <1>2, SystemPacksStep

LEMMA WeeklyUntouchedStep ==
    ASSUME SystemInv, [Next]_vars
    PROVE  WeeklyUntouched'
<1> USE DEF SystemInv
<1> DEFINE Left(r) == packs'[r][wgen] = "absent"
<1>1. CASE Weekly
    <2>1. WeeklyNext
        BY <1>1 DEF Weekly
    <2>2. ASSUME NEW regions \in SUBSET Region, WAssemble(regions)
          PROVE  WeeklyUntouched'
        <3>1. issued + 1 \in Gen /\ issued + 1 > issued
            BY <2>2, MaxGenAssumption DEF WAssemble, IssueGen, TypeOK, TreeTypeOK, Gen
        <3>2. \A r \in Region : packs[r][issued + 1] = "absent"
            BY <3>1 DEF Unissued
        <3>3. QED
            BY <2>2, <3>2 DEF WAssemble, WeeklyUntouched, WAssembled, WCopying, WIdle
    <2>3. ASSUME NEW point \in WIdle, WEnd(point)
          PROVE  WeeklyUntouched'
        BY <2>3 DEF WEnd, WeeklyUntouched, WAssembled, WCopying, WIdle
    <2>4. CASE WPreVerify \/ WPromote \/ WSwapLive \/ WSetPrevious
        BY <2>3, <2>4
        DEF WPreVerify, WPromote, WSwapLive, WSetPrevious, WeeklyUntouched,
            WAssembled, WCopying, WIdle, locals, treeVars
    <2>5. CASE WSetPointer
        BY <2>5 DEF WSetPointer, WeeklyUntouched, WAssembled, WCopying,
                    TypeOK, WeeklyTypeOK
    <2>6. ASSUME NEW r \in Region, WBeginRegion(r)
          PROVE  WeeklyUntouched'
        <3>1. \A q \in Region : q # r => packs'[q] = packs[q]
            BY <2>6 DEF WBeginRegion, SetDir, TypeOK, TreeTypeOK
        <3>2. QED
            BY <2>6, <3>1 DEF WBeginRegion, WeeklyUntouched, WAssembled, WCopying,
                              TypeOK, WeeklyTypeOK
    <2>7. ASSUME NEW r \in Region, WSeal(r)
          PROVE  WeeklyUntouched'
        <3>1. \A q \in Region : q # r => packs'[q] = packs[q]
            BY <2>7 DEF WSeal, SealDir, SetDir, TypeOK, TreeTypeOK
        <3>2. QED
            BY <2>7, <3>1 DEF WSeal, WeeklyUntouched, WAssembled, WCopying, locals,
                              TypeOK, WeeklyTypeOK
    <2>8. ASSUME NEW r \in Region, WPostVerify(r)
          PROVE  WeeklyUntouched'
        BY <2>3, <2>8 DEF WPostVerify, WeeklyUntouched, WAssembled, WCopying, WIdle,
                          locals, treeVars
    <2>9. ASSUME NEW r \in Region, WPrune(r)
          PROVE  WeeklyUntouched'
        <3>1. \A q \in Region : q # r => packs'[q] = packs[q]
            BY <2>9 DEF WPrune, PruneStale, TypeOK, TreeTypeOK
        <3>2. QED
            BY <2>9, <3>1 DEF WPrune, WeeklyUntouched, WAssembled, WCopying,
                              TypeOK, WeeklyTypeOK
    <2>10. CASE WScan
        BY <2>10 DEF WScan, WeeklyUntouched, WAssembled, WCopying
    <2>11. CASE WSourceGone \/ WReplace \/ WInterrupt
        BY <2>3, <2>11 DEF WSourceGone, WReplace, WInterrupt, WIdle
    <2>12. QED
        BY <2>1, <2>2, <2>4, <2>5, <2>6, <2>7, <2>8, <2>9, <2>10, <2>11 DEF WeeklyNext
<1>2. CASE ~ Weekly
    <2>1. UNCHANGED weeklyVars
        BY <1>2 DEF Next, Safe, Cleanup, vars
    <2>2. wpc \notin WIdle => \A r \in Region : packs[r][wgen] = "absent" => Left(r)
        BY <1>2, UntouchedStays DEF WeeklyOwned
    <2>3. \A r \in wtodo : r \in Region
        BY DEF TypeOK, WeeklyTypeOK
    <2>4. wpc \in WAssembled \cup WCopying \cup {"sync"} => wpc \notin WIdle
        BY DEF WAssembled, WCopying, WIdle
    <2>5. QED
        BY <2>1, <2>2, <2>3, <2>4 DEF WeeklyUntouched, weeklyVars
<1>3. QED
    BY <1>1, <1>2

-----------------------------------------------------------------------------
(* The theorems.                                                           *)

LEMMA SystemInvInit == Init => SystemInv
<1> SUFFICES ASSUME Init
             PROVE  SystemInv
    OBVIOUS
<1>1. AllTypeOK /\ Unissued /\ Owned /\ Unsealed
    BY SafeInvInit DEF Init, SafeInv
<1>2. WeeklyTypeOK
    BY DEF Init, WeeklyInit, WeeklyTypeOK, WPoint, NoCatalog, GenOrNone
<1>3. ScrubTypeOK
    BY DEF Init, ScrubInit, ScrubTypeOK
<1>4. WeeklyOwned
    BY DEF Init, WeeklyInit, TreeInit, SafeInit, WeeklyOwned, WIdle, NoGen
<1>5. WeeklyUntouched
    BY DEF Init, WeeklyInit, WeeklyUntouched, WAssembled, WCopying
<1>6. QED
    BY <1>1, <1>2, <1>3, <1>4, <1>5 DEF SystemInv, TypeOK, AllTypeOK

LEMMA SystemInvStep == SystemInv /\ [Next]_vars => SystemInv'
    BY TypeStep, SystemUnissuedStep, SystemOwnedStep, SystemUnsealedStep,
       WeeklyOwnedStep, WeeklyUntouchedStep DEF SystemInv

\* With every publisher and the scrub running at once the inductive invariant
\* holds: no two of them share an id, and none finds the directory it is about
\* to fill already there.
THEOREM SystemInvariant == Spec => []SystemInv
    BY SystemInvInit, SystemInvStep, PTL DEF Spec

\* However publishers, scrub and faults interleave, every variable stays in
\* its range.
THEOREM SystemTypeOK == Spec => []TypeOK
<1>1. SystemInv => TypeOK
    BY DEF SystemInv
<1>2. QED
    BY <1>1, SystemInvariant, PTL

\* The newest complete generation of a region outlives every step, where the
\* scrub does not reach the published tree.
LEMMA SystemKeepsNewest ==
    ASSUME SystemInv, [Next]_vars, Flat = {}, NEW r \in Region, Complete(r) # {}
    PROVE  Newest(Complete(r)) \in Complete(r)'
<1> DEFINE n == Newest(Complete(r))
<1> USE DEF SystemInv
<1>1. n \in Gen /\ packs[r][n] \in CompleteState /\ n \notin Stale(r)
    BY NewestIsNotStale DEF Complete
<1>2. \A w \in Worker : n = sgen[w] => spc[w] # "begin"
    BY <1>1 DEF Unsealed
<1>3. ~ (n = wgen /\ wpc = "sync" /\ r \in wtodo)
    BY <1>1 DEF WeeklyUntouched, WCopying, CompleteState
<1>4. packs'[r][n] \in CompleteState
    BY <1>1, <1>2, <1>3, SystemPacksStep
<1>5. QED
    BY <1>1, <1>4 DEF Complete

\* No publisher, crash or interleaving ever takes the last complete generation
\* of a region away; where regions are published under one path segment the
\* scrub can, so Flat is empty.
THEOREM SystemRegionsSurvive ==
    ASSUME Flat = {}
    PROVE  Spec => RegionsSurvive
<1>1. SystemInv /\ [Next]_vars =>
        [\A r \in Region : Complete(r) # {} => Complete(r)' # {}]_treeVars
    BY SystemKeepsNewest
<1>2. QED
    BY <1>1, SystemInvariant, PTL DEF Spec, RegionsSurvive

-----------------------------------------------------------------------------
(* The weekly host.                                                        *)

HostNext == Weekly \/ Cleanup

-----------------------------------------------------------------------------
(* The inductive invariant.                                                *)

\* From the promotion on the run's generation is linked, or about to be.
WPromoted == {"swap", "previous", "pointer", "sync", "copy", "verify", "prune",
              "scan", "replace"}

\* Ids are handed out to weekly runs only, one after the other: a run's is the
\* latest, its directory the last modified.
HostIds ==
    /\ gens \cup staging \subseteq 1 .. issued
    /\ wpc \notin WIdle => wgen = issued
    /\ wpc \in {"preverify", "promote"} => wgen \in staging \ gens
    /\ busy = {}
    /\ cdoomed \subseteq gens
    /\ \A g \in Gen : later[g] \subseteq {h \in gens \cup staging : h > g}

\* A link, or what is about to become one, has a generation behind it that no
\* scrub has picked.
Held(g) == g # NoGen => g \in gens \ cdoomed

\* Before the first swap live points to the newest of generations/, the run's
\* own aside: so between the two swaps the scrub, which keeps two, keeps what
\* previous is about to point to.
LinksHeld ==
    /\ Held(live) /\ Held(previous)
    /\ wpc \in WPromoted => Held(wgen)
    /\ wpc \notin {"swap", "previous"} => \A g \in gens : g <= live
    /\ wpc = "swap" => live = wold
    /\ wpc = "previous" => live = wgen
    /\ wpc \in {"swap", "previous"} =>
          Held(wold) /\ \A g \in gens : g # wgen => g <= wold

LinkInv ==
    /\ SystemInv
    /\ HostIds
    /\ faults = 0 => LinksHeld

\* What the run has found out of its own copy, and of the tree, still holds.
HostCopied ==
    /\ wpc = "copy" => \A r \in wregion : packs[r][wgen] = "partial"
    /\ wpc = "prune" => \A r \in wregion : packs[r][wgen] = "good"
    /\ wpc = "replace" => wsnap = Catalog

\* The catalogue is not ahead of the tree.
HostListing == \A r \in Region : current[r] <= Newest(Complete(r))

\* The catalogue lists the newest generation of each region, the run's own
\* aside; its own copies are sound, and a run that ended has left none.
CatalogTrails ==
    /\ wpc = "verify" => \A r \in wregion : packs[r][wgen] = "good"
    /\ wpc \in WIdle => \A r \in Region : wgen \notin Complete(r)
    /\ \A r \in Region : current[r] = Newest(Complete(r) \ {wgen})

HostInv ==
    /\ LinkInv
    /\ HostCopied /\ HostListing
    /\ faults = 0 /\ KeepPrior # 0 => CatalogTrails

-----------------------------------------------------------------------------
(* The run's id and its directory.                                         *)

LEMMA HostStepIsStep == [HostNext]_vars => [Next]_vars
    BY DEF HostNext, Next

\* Of one generation at most, fewer than Keep.
LEMMA AtMostOne ==
    ASSUME NEW x, NEW S \in SUBSET {x}
    PROVE  Cardinality(S) \in {0, 1} /\ Cardinality(S) < Keep
<1>1. S = {} \/ S = {x}
    OBVIOUS
<1>2. Cardinality(S) \in {0, 1}
    BY <1>1, FS_EmptySet, FS_Singleton
<1>3. QED
    BY <1>2, KeepAssumption

LEMMA Numbers ==
    ASSUME TypeOK
    PROVE  /\ issued \in Nat /\ faults \in Nat /\ wgen \in Nat /\ wold \in Nat
           /\ live \in Nat /\ previous \in Nat
           /\ Gen \subseteq Nat
    BY MaxGenAssumption, MaxFaultsAssumption
    DEF TypeOK, TreeTypeOK, WeeklyTypeOK, GenOrNone, Gen, NoGen

\* Only a run that assembles makes a directory, and hands out its id.
LEMMA HostDirs ==
    ASSUME SystemInv, HostIds, [HostNext]_vars
    PROVE  \/ /\ issued' = issued + 1
              /\ gens' = gens /\ staging' = staging \cup {issued'}
              /\ wgen' = issued' /\ wpc' = "preverify" /\ cdoomed' = cdoomed
           \/ /\ issued' = issued
              /\ (gens \cup staging)' \subseteq gens \cup staging
              /\ wpc' \notin WIdle => wpc \notin WIdle /\ wgen' = wgen
              /\ wpc' = "preverify" => wpc = "preverify"
<1>1. CASE Weekly
    <2>1. WeeklyNext /\ cdoomed' = cdoomed
        BY <1>1 DEF Weekly
    <2>2. CASE \E regions \in SUBSET Region : WAssemble(regions)
        BY <2>1, <2>2 DEF WAssemble, IssueGen
    <2>3. CASE WPromote
        BY <2>3 DEF WPromote, HostIds, WIdle
    <2>4. CASE ~ WPromote /\ ~ \E regions \in SUBSET Region : WAssemble(regions)
        BY <2>1, <2>4
        DEF WeeklyNext, WPreVerify, WSwapLive, WSetPrevious, WSetPointer,
            WSourceGone, WBeginRegion, WSeal, WPostVerify, WPrune, WScan, WReplace,
            WInterrupt, WEnd, WIdle, treeVars, locals
    <2>5. QED
        BY <2>2, <2>3, <2>4
<1>2. CASE Cleanup
    BY <1>2 DEF Cleanup, ScrubNext, CStart, CRemove, CCrash, weeklyVars, treeVars
<1>3. CASE UNCHANGED vars
    BY <1>3 DEF vars, weeklyVars, treeVars
<1>4. QED
    BY <1>1, <1>2, <1>3 DEF HostNext

LEMMA HostBusyStep ==
    ASSUME SystemInv, HostIds, [HostNext]_vars
    PROVE  busy' = {}
    BY DEF HostIds, HostNext, Weekly, Cleanup, ScrubNext, CStart, CRemove, CCrash,
           WeeklyNext, WAssemble, WPreVerify, WPromote, WSwapLive, WSetPrevious,
           WSetPointer, WSourceGone, WBeginRegion, WSeal, WPostVerify, WPrune,
           WScan, WReplace, WInterrupt, vars, treeVars

\* A directory made later is modified later, and none is touched again.
LEMMA HostLaterStep ==
    ASSUME SystemInv, HostIds, [HostNext]_vars, NEW g \in Gen
    PROVE  later'[g] \subseteq {h \in (gens \cup staging)' : h > g}
<1> DEFINE before == gens \cup staging
           after == (gens \cup staging)'
           touched == Modified(before, after)
<1> USE DEF SystemInv
<1>1. later[g] \subseteq {h \in before : h > g} /\ before \subseteq 1 .. issued
    BY DEF HostIds
<1>2. CASE Stamped
    <2>1. later'[g] = IF g \in after \ touched
                      THEN (later[g] \cap after) \cup touched ELSE {}
        BY <1>2 DEF Stamped, Stamp
    <2>2. touched = after \ before
        BY DEF HostIds, Modified
    <2>3. g \in after \ touched => \A h \in touched : h \in after /\ h > g
        <3>1. SUFFICES ASSUME g \in after \ touched, NEW h \in touched
                       PROVE  h > g
            BY <2>2
        <3>2. g <= issued /\ h \in after /\ h \notin before
            BY <1>1, <2>2, <3>1, Numbers
        <3>3. h = issued + 1 /\ issued \in Nat
            BY <3>2, HostDirs, Numbers
        <3>4. QED
            BY <3>2, <3>3, Numbers
    <2>4. QED
        BY <1>1, <2>1, <2>3
<1>3. CASE UNCHANGED vars
    BY <1>1, <1>3 DEF vars, treeVars, weeklyVars
<1>4. QED
    BY <1>2, <1>3 DEF HostNext, Weekly, Cleanup

LEMMA HostIdsStep ==
    ASSUME SystemInv, HostIds, [HostNext]_vars
    PROVE  HostIds'
<1> USE DEF SystemInv
<1>1. (gens \cup staging)' \subseteq (1 .. issued)'
    BY HostDirs, Numbers DEF HostIds
<1>2. (wpc \notin WIdle)' => wgen' = issued'
    BY HostDirs DEF HostIds
<1>3. wpc' \in {"preverify", "promote"} => wgen' \in staging' \ gens'
    <2>1. CASE Weekly
        <3>1. WeeklyNext
            BY <2>1 DEF Weekly
        <3>2. CASE \E regions \in SUBSET Region : WAssemble(regions)
            BY <3>2, Numbers DEF WAssemble, IssueGen, HostIds
        <3>3. CASE ~ \E regions \in SUBSET Region : WAssemble(regions)
            BY <3>1, <3>3
            DEF WeeklyNext, WPreVerify, WPromote, WSwapLive, WSetPrevious,
                WSetPointer, WSourceGone, WBeginRegion, WSeal, WPostVerify, WPrune,
                WScan, WReplace, WInterrupt, WEnd, WIdle, treeVars, locals, HostIds
        <3>4. QED
            BY <3>2, <3>3
    <2>2. CASE Cleanup
        BY <2>2 DEF Cleanup, ScrubNext, CStart, CRemove, CCrash, weeklyVars,
                    treeVars, HostIds
    <2>3. CASE UNCHANGED vars
        BY <2>3 DEF vars, weeklyVars, treeVars, HostIds
    <2>4. QED
        BY <2>1, <2>2, <2>3 DEF HostNext
<1>4. cdoomed' \subseteq gens'
    BY DEF HostIds, HostNext, Weekly, Cleanup, ScrubNext, CStart, CRemove, CCrash,
           WeeklyNext, WAssemble, WPreVerify, WPromote, WSwapLive, WSetPrevious,
           WSetPointer, WSourceGone, WBeginRegion, WSeal, WPostVerify, WPrune,
           WScan, WReplace, WInterrupt, vars, treeVars
<1>5. QED
    BY <1>1, <1>2, <1>3, <1>4, HostBusyStep, HostLaterStep DEF HostIds

-----------------------------------------------------------------------------
(* The links.                                                              *)

\* No step takes a fault back.
LEMMA FaultsStay ==
    ASSUME TypeOK, [HostNext]_vars
    PROVE  faults' # 0 \/ faults' = faults
<1>1. faults' = faults \/ Fault
    BY DEF HostNext, Weekly, Cleanup, ScrubNext, CStart, CRemove, CCrash,
           WeeklyNext, WAssemble, WPreVerify, WPromote, WSwapLive, WSetPrevious,
           WSetPointer, WSourceGone, WBeginRegion, WSeal, SealDir, WPostVerify,
           WPrune, WScan, WReplace, WInterrupt, vars, treeVars
<1>2. QED
    BY <1>1, Numbers DEF Fault

\* A scrub that starts spares the generation modified last, and the one before
\* it when all others are older.
LEMMA ScrubSpares ==
    ASSUME SystemInv, HostIds, NEW g \in gens,
           \A h \in gens : h # wgen => h <= g
    PROVE  g \in Recent
<1>1. g \in Gen
    BY DEF SystemInv, TypeOK, TreeTypeOK
<1>2. later[g] \cap gens \subseteq {wgen}
    <2>1. \A h \in later[g] : h > g
        BY <1>1 DEF HostIds
    <2>2. \A h \in gens : h # wgen => ~ (h > g)
        BY Numbers DEF SystemInv, TypeOK, TreeTypeOK
    <2>3. QED
        BY <2>1, <2>2
<1>3. Cardinality(later[g] \cap gens) < Keep
    BY <1>2, AtMostOne
<1>4. QED
    BY <1>3 DEF Recent

LEMMA LinksScrubStep ==
    ASSUME LinkInv, LinksHeld, Cleanup, faults' = 0
    PROVE  LinksHeld'
<1> USE DEF LinkInv
<1>1. UNCHANGED <<wpc, wgen, wold, live, previous>>
    BY DEF Cleanup, weeklyVars, ScrubNext, CStart, CRemove, CCrash, treeVars
<1>2. CASE CStart
    <2>1. gens' = gens /\ cdoomed' = gens \ (Recent \cup Protected)
        BY <1>2 DEF CStart, treeVars
    <2>2. Held(live)' /\ Held(previous)'
        BY <1>1, <2>1 DEF LinksHeld, Held, Protected
    <2>3. wpc \in WPromoted => wgen \in Recent
        <3>1. SUFFICES ASSUME wpc \in WPromoted
                       PROVE  wgen \in Recent
            OBVIOUS
        <3>2. wgen \in gens /\ wgen = issued
            BY <3>1 DEF LinksHeld, Held, HostIds, WPromoted, WIdle, SystemInv, WeeklyOwned
        <3>3. \A h \in gens : h <= wgen
            BY <3>2, Numbers DEF HostIds, SystemInv
        <3>4. QED
            BY <3>2, <3>3, ScrubSpares
    <2>4. wpc \in {"swap", "previous"} /\ wold # NoGen => wold \in Recent
        BY ScrubSpares DEF LinksHeld, Held
    <2>5. QED
        BY <1>1, <2>1, <2>2, <2>3, <2>4 DEF LinksHeld, Held
<1>3. ASSUME NEW g \in Gen, CRemove(g)
      PROVE  LinksHeld'
    BY <1>1, <1>3 DEF CRemove, LinksHeld, Held
<1>4. CASE CCrash
    BY <1>4, Numbers DEF CCrash, Fault, SystemInv
<1>5. QED
    BY <1>2, <1>3, <1>4 DEF Cleanup, ScrubNext

LEMMA LinksWeeklyStep ==
    ASSUME LinkInv, LinksHeld, Weekly, faults' = 0
    PROVE  LinksHeld'
<1> USE DEF LinkInv, WPromoted
<1>1. WeeklyNext /\ cdoomed' = cdoomed
    BY DEF Weekly
<1>2. ASSUME NEW regions \in SUBSET Region, WAssemble(regions)
      PROVE  LinksHeld'
    BY <1>1, <1>2 DEF WAssemble, WIdle, LinksHeld, Held
<1>3. ASSUME NEW point \in WIdle, WEnd(point), UNCHANGED <<live, previous, gens>>,
             wpc \notin {"swap", "previous"}
      PROVE  LinksHeld'
    BY <1>1, <1>3 DEF WEnd, WIdle, LinksHeld, Held
<1>4. CASE WPreVerify
    BY <1>1, <1>3, <1>4 DEF WPreVerify, WIdle, LinksHeld, Held, treeVars, locals
<1>5. CASE WPromote
    <2>1. wgen \notin cdoomed
        BY <1>5 DEF WPromote, HostIds
    <2>2. QED
        BY <1>1, <1>5, <2>1 DEF WPromote, LinksHeld, Held
<1>6. CASE WSwapLive
    BY <1>1, <1>6 DEF WSwapLive, LinksHeld, Held, locals
<1>7. CASE WSetPrevious
    <2>1. \A h \in gens : h <= live
        BY <1>7, Numbers DEF WSetPrevious, LinksHeld, Held, HostIds, SystemInv, WIdle
    <2>2. QED
        BY <1>1, <1>7, <2>1 DEF WSetPrevious, LinksHeld, Held, locals
<1>8. CASE \/ WSetPointer \/ WScan
           \/ \E r \in Region : WBeginRegion(r) \/ WSeal(r) \/ WPrune(r)
    BY <1>1, <1>8 DEF WSetPointer, WScan, WBeginRegion, WSeal, WPrune, LinksHeld,
                      Held, locals, treeVars
<1>9. ASSUME NEW r \in Region, WPostVerify(r)
      PROVE  LinksHeld'
    BY <1>1, <1>3, <1>9 DEF WPostVerify, WIdle, LinksHeld, Held, treeVars, locals
<1>10. CASE WSourceGone \/ WReplace
    BY <1>3, <1>10 DEF WSourceGone, WReplace, WIdle, treeVars
<1>11. CASE WInterrupt
    BY <1>11, Numbers DEF WInterrupt, Fault, SystemInv
<1>12. QED
    BY <1>1, <1>2, <1>4, <1>5, <1>6, <1>7, <1>8, <1>9, <1>10, <1>11 DEF WeeklyNext

LEMMA LinkInvStep ==
    ASSUME LinkInv, [HostNext]_vars
    PROVE  LinkInv'
<1>1. SystemInv' /\ HostIds'
    BY HostStepIsStep, SystemInvStep, HostIdsStep DEF LinkInv
<1>2. ASSUME faults' = 0
      PROVE  LinksHeld'
    <2>1. LinksHeld
        BY <1>2, FaultsStay DEF LinkInv, SystemInv
    <2>2. CASE UNCHANGED vars
        BY <2>1, <2>2 DEF vars, weeklyVars, treeVars, LinksHeld, Held
    <2>3. QED
        BY <1>2, <2>1, <2>2, LinksScrubStep, LinksWeeklyStep DEF HostNext
<1>3. QED
    BY <1>1, <1>2 DEF LinkInv

LEMMA LinkInvInit == Init => LinkInv
<1> SUFFICES ASSUME Init
             PROVE  LinkInv
    OBVIOUS
<1>1. HostIds
    BY DEF Init, TreeInit, WeeklyInit, ScrubInit, HostIds, WIdle
<1>2. LinksHeld
    BY DEF Init, TreeInit, WeeklyInit, LinksHeld, Held, WPromoted
<1>3. QED
    BY <1>1, <1>2, SystemInvInit DEF LinkInv

\* Until something fails, neither live nor previous ever loses the generation
\* behind it, at whatever point of a weekly run the scrub starts, removes or
\* is overtaken by the next run.
THEOREM WeeklyLinksResolve == WeeklyHost => []LinksResolve
<1>1. LinkInv => LinksResolve
    BY DEF LinkInv, LinksHeld, Held, LinksResolve
<1>2. LinkInv /\ [HostNext]_vars => LinkInv'
    BY LinkInvStep
<1>3. QED
    BY <1>1, <1>2, LinkInvInit, PTL DEF WeeklyHost, HostNext

-----------------------------------------------------------------------------
(* The published tree, where the scrub does not reach it.                  *)

LEMMA ScrubSparesPacks ==
    ASSUME TypeOK, Flat = {}, Cleanup \/ UNCHANGED vars
    PROVE  packs' = packs /\ UNCHANGED <<weeklyVars, current>>
<1>1. CASE Cleanup
    <2>1. ASSUME NEW g \in Gen, CRemove(g)
          PROVE  packs' = packs
        BY <2>1 DEF CRemove, TypeOK, TreeTypeOK
    <2>2. QED
        BY <1>1, <2>1 DEF Cleanup, ScrubNext, CStart, CRemove, CCrash, treeVars
<1>2. CASE UNCHANGED vars
    BY <1>2 DEF vars, treeVars
<1>3. QED
    BY <1>1, <1>2

LEMMA HostCopiedStep ==
    ASSUME SystemInv, HostCopied, Flat = {}, [HostNext]_vars
    PROVE  HostCopied'
<1> USE DEF SystemInv
<1>1. CASE Weekly
    <2>1. WeeklyNext
        BY <1>1 DEF Weekly
    <2>2. ASSUME NEW r \in Region, WBeginRegion(r)
          PROVE  HostCopied'
        <3>1. wgen \in Gen
            BY <2>2 DEF WBeginRegion, WeeklyOwned, WIdle, TypeOK, WeeklyTypeOK, GenOrNone
        <3>2. packs'[r][wgen] = "partial"
            BY <2>2, <3>1 DEF WBeginRegion, SetDir, TypeOK, TreeTypeOK
        <3>3. QED
            BY <2>2, <3>2 DEF WBeginRegion, HostCopied
    <2>3. ASSUME NEW r \in Region, WPostVerify(r)
          PROVE  HostCopied'
        <3>1. \A q \in wregion : q = r
            BY <2>3 DEF WPostVerify, WeeklyUntouched
        <3>2. QED
            BY <2>3, <3>1 DEF WPostVerify, WEnd, HostCopied, locals, treeVars
    <2>4. CASE WScan
        BY <2>4 DEF WScan, HostCopied, Catalog, Complete, treeVars
    <2>5. CASE ~ WScan /\ ~ \E r \in Region : WBeginRegion(r) \/ WPostVerify(r)
        <3>1. wpc' \notin {"copy", "prune", "replace"}
            BY <2>1, <2>5
            DEF WeeklyNext, WAssemble, WPreVerify, WPromote, WSwapLive, WSetPrevious,
                WSetPointer, WSourceGone, WSeal, WPrune, WReplace, WInterrupt, WEnd
        <3>2. QED
            BY <3>1 DEF HostCopied
    <2>6. QED
        BY <2>2, <2>3, <2>4, <2>5
<1>2. CASE Cleanup \/ UNCHANGED vars
    BY <1>2, ScrubSparesPacks DEF HostCopied, Catalog, Complete, weeklyVars
<1>3. QED
    BY <1>1, <1>2 DEF HostNext

\* current.json is only ever replaced by the newest generation of each region.
LEMMA HostCatalogStep ==
    ASSUME SystemInv, HostCopied, Flat = {}, [HostNext]_vars
    PROVE  current' = current \/ (Weekly /\ WReplace /\ current' = Catalog)
<1>1. CASE Weekly
    <2>1. CASE WReplace
        BY <1>1, <2>1 DEF WReplace, HostCopied
    <2>2. CASE ~ WReplace
        BY <1>1, <2>2
        DEF Weekly, WeeklyNext, WAssemble, WPreVerify, WPromote, WSwapLive,
            WSetPrevious, WSetPointer, WSourceGone, WBeginRegion, WSeal, WPostVerify,
            WPrune, WScan, WInterrupt, treeVars
    <2>3. QED
        BY <2>1, <2>2
<1>2. CASE Cleanup \/ UNCHANGED vars
    BY <1>2, ScrubSparesPacks DEF SystemInv
<1>3. QED
    BY <1>1, <1>2 DEF HostNext

LEMMA HostListingStep ==
    ASSUME SystemInv, HostCopied, HostListing, Flat = {}, [HostNext]_vars
    PROVE  /\ HostListing'
           /\ \A r \in Region : current[r] <= current'[r]
<1>1. SystemInv'
    BY HostStepIsStep, SystemInvStep
<1>2. ASSUME NEW r \in Region
      PROVE  /\ current[r] \in Nat /\ current'[r] \in Nat
             /\ Newest(Complete(r)) \in Nat /\ Newest(Complete(r)') \in Nat
    <2>1. GenOrNone \subseteq Nat
        BY MaxGenAssumption DEF GenOrNone, Gen, NoGen
    <2>2. current[r] \in GenOrNone /\ current'[r] \in GenOrNone
        BY <1>1 DEF SystemInv, TypeOK, TreeTypeOK
    <2>3. Complete(r) \in SUBSET Gen /\ Complete(r)' \in SUBSET Gen
        BY DEF Complete
    <2>4. QED
        BY <2>1, <2>2, <2>3, NewestIsGreatest
<1>3. ASSUME NEW r \in Region
      PROVE  Newest(Complete(r)) <= Newest(Complete(r)')
    <2>1. Complete(r) \in SUBSET Gen /\ Complete(r)' \in SUBSET Gen
        BY DEF Complete
    <2>2. Complete(r) # {} => Newest(Complete(r)) \in Complete(r)'
        BY HostStepIsStep, SystemKeepsNewest
    <2>3. QED
        BY <2>1, <2>2, NewestMonotone
<1>4. ASSUME NEW r \in Region
      PROVE  current[r] <= current'[r] /\ current'[r] <= Newest(Complete(r))
    BY <1>2, HostCatalogStep DEF HostListing, Catalog
<1>5. QED
    BY <1>2, <1>3, <1>4 DEF HostListing

-----------------------------------------------------------------------------
(* What is listed, while nothing fails.                                    *)

\* With one prior generation kept, pruning spares the newest beside the run's.
LEMMA PruneSparesListed ==
    ASSUME TypeOK, KeepPrior # 0, NEW r \in Region, PruneStale(r), wgen' = wgen
    PROVE  Newest(Complete(r) \ {wgen})' = Newest(Complete(r) \ {wgen})
<1> DEFINE S == Complete(r) \ {wgen}
           T == Complete(r)' \ {wgen}
           n == Newest(S)
<1>1. S \in SUBSET Gen /\ T \in SUBSET Gen /\ Gen \subseteq Nat
    BY Numbers DEF Complete
<1>2. Complete(r)' = Complete(r) \ Stale(r)
    BY DEF PruneStale, Complete, CompleteState, Stale, TypeOK, TreeTypeOK
<1>3. CASE S = {}
    BY <1>2, <1>3
<1>4. CASE S # {}
    <2>1. n \in S /\ \A h \in S : h <= n
        BY <1>1, <1>4, NewestIsGreatest
    <2>2. {h \in Complete(r) : h > n} \subseteq {wgen}
        <3>1. SUFFICES ASSUME NEW h \in Complete(r), h > n, h # wgen
                       PROVE  FALSE
            OBVIOUS
        <3>2. h \in S /\ h \in Nat /\ n \in Nat /\ h <= n
            BY <1>1, <2>1, <3>1
        <3> HIDE DEF n
        <3>3. QED
            BY <3>1, <3>2
    <2>3. Cardinality({h \in Complete(r) : h > n}) \in {0, 1}
        BY <2>2, AtMostOne
    <2>4. n \notin Stale(r)
        BY <2>3, KeepPriorAssumption DEF Stale
    <2>5. n \in T /\ \A h \in T : h <= n
        BY <1>2, <2>1, <2>4
    <2>6. Newest(T) \in T /\ \A h \in T : h <= Newest(T)
        BY <1>1, <2>5, NewestIsGreatest
    <2>7. Newest(T) = n
        <3>1. n <= Newest(T) /\ Newest(T) <= n
            BY <2>5, <2>6
        <3>2. n \in Nat /\ Newest(T) \in Nat
            BY <1>1, <2>5, <2>6
        <3>3. QED
            BY <3>1, <3>2
    <2>8. QED
        BY <2>7
<1>5. QED
    BY <1>3, <1>4

\* The regions of which only the run's own generation changes.
LEMMA OwnCopyAside ==
    ASSUME TypeOK, wgen' = wgen,
           \A r \in Region, g \in Gen : g # wgen => packs'[r][g] = packs[r][g],
           NEW r \in Region
    PROVE  (Complete(r) \ {wgen})' = Complete(r) \ {wgen}
    BY DEF Complete

LEMMA TrailsStep ==
    ASSUME LinkInv, HostCopied, LinksHeld, CatalogTrails, Weekly,
           KeepPrior # 0, faults' = 0
    PROVE  CatalogTrails'
<1> USE DEF LinkInv, SystemInv
<1> DEFINE Trails == \A r \in Region : current'[r] = Newest(Complete(r) \ {wgen})'
<1>1. WeeklyNext
    BY DEF Weekly
<1>2. wpc \notin WIdle => wgen \in Gen
    BY DEF WeeklyOwned, TypeOK, WeeklyTypeOK, GenOrNone
<1>3. ASSUME packs' = packs, current' = current, wgen' = wgen
      PROVE  Trails
    BY <1>3 DEF CatalogTrails, Complete
<1>4. ASSUME NEW regions \in SUBSET Region, WAssemble(regions)
      PROVE  CatalogTrails'
    <2>1. wgen' = issued + 1 /\ packs' = packs /\ current' = current /\ wpc' = "preverify"
        BY <1>4 DEF WAssemble
    <2>2. ASSUME NEW r \in Region
          PROVE  Complete(r)' = Complete(r) /\ wgen \notin Complete(r)
                 /\ issued + 1 \notin Complete(r)
        <3>1. wgen \notin Complete(r)
            BY <1>4 DEF WAssemble, CatalogTrails
        <3>2. \A g \in Gen : g > issued => g \notin Complete(r)
            BY DEF Unissued, Complete, CompleteState
        <3>3. issued + 1 > issued
            BY Numbers
        <3>4. QED
            BY <2>1, <3>1, <3>2, <3>3 DEF Complete
    <2>3. \A r \in Region : (Complete(r) \ {wgen})' = Complete(r) \ {wgen}
        BY <2>1, <2>2
    <2>4. QED
        BY <2>1, <2>3 DEF CatalogTrails, WIdle
<1>5. CASE WPreVerify
    <2>1. \A r \in Region : wgen \notin Complete(r)
        BY <1>5 DEF WPreVerify, WeeklyUntouched, WAssembled, Complete, CompleteState
    <2>2. UNCHANGED <<packs, current, wgen>> /\ wpc' # "verify"
        BY <1>5 DEF WPreVerify, WEnd, treeVars
    <2>3. \A r \in Region : Complete(r)' = Complete(r)
        BY <2>2 DEF Complete
    <2>4. QED
        BY <1>3, <2>1, <2>2, <2>3 DEF CatalogTrails
<1>6. CASE WPromote \/ WSwapLive \/ WSetPrevious \/ WSetPointer \/ WScan
    <2>1. UNCHANGED <<packs, current, wgen>> /\ wpc' # "verify" /\ wpc' \notin WIdle
        BY <1>6 DEF WPromote, WSwapLive, WSetPrevious, WSetPointer, WScan, WIdle,
                    treeVars, locals
    <2>2. QED
        BY <1>3, <2>1 DEF CatalogTrails
<1>7. CASE WSourceGone
    BY <1>7 DEF WSourceGone, LinksHeld, Held, WPromoted, WeeklyOwned, WIdle
<1>8. ASSUME NEW r \in Region, WBeginRegion(r) \/ WSeal(r)
      PROVE  CatalogTrails'
    <2>1. /\ wgen' = wgen /\ current' = current /\ wpc' \notin WIdle
          /\ wpc' = "verify" => WSeal(r)
        BY <1>8 DEF WBeginRegion, WSeal, WIdle
    <2>2. \A q \in Region, g \in Gen : g # wgen => packs'[q][g] = packs[q][g]
        BY <1>8 DEF WBeginRegion, WSeal, SealDir, SetDir, TypeOK, TreeTypeOK
    <2>3. Trails
        BY <2>1, <2>2, OwnCopyAside DEF CatalogTrails
    <2>4. ASSUME WSeal(r), NEW q \in wregion'
          PROVE  packs'[q][wgen] = "good"
        <3>1. q = r /\ wgen \in Gen
            BY <1>2, <2>4 DEF WSeal, WeeklyUntouched, WIdle, locals
        <3>2. SetDir(r, wgen, "good")
            BY <2>4, Numbers DEF WSeal, SealDir, Fault
        <3>3. QED
            BY <3>1, <3>2 DEF SetDir, TypeOK, TreeTypeOK
    <2>5. QED
        BY <2>1, <2>3, <2>4 DEF CatalogTrails
<1>9. ASSUME NEW r \in Region, WPostVerify(r)
      PROVE  CatalogTrails'
    <2>1. packs[r][wgen] = "good"
        BY <1>9 DEF WPostVerify, CatalogTrails
    <2>2. UNCHANGED <<packs, current, wgen>> /\ wpc' = "prune"
        BY <1>9, <2>1 DEF WPostVerify, treeVars
    <2>3. QED
        BY <1>3, <2>2 DEF CatalogTrails, WIdle
<1>10. ASSUME NEW r \in Region, WPrune(r)
       PROVE  CatalogTrails'
    <2>1. /\ PruneStale(r) /\ wgen' = wgen /\ current' = current
          /\ wpc' \notin WIdle /\ wpc' # "verify"
        BY <1>10 DEF WPrune, WIdle
    <2>2. \A q \in Region : q # r => Complete(q)' = Complete(q)
        BY <2>1, PruneEffect DEF Complete, TypeOK
    <2>3. Trails
        BY <2>1, <2>2, PruneSparesListed DEF CatalogTrails
    <2>4. QED
        BY <2>1, <2>3 DEF CatalogTrails
<1>11. CASE WReplace
    <2>1. wgen' = NoGen /\ packs' = packs /\ current' = Catalog /\ wpc' = "idle"
        BY <1>11 DEF WReplace, WEnd, HostCopied
    <2>2. \A r \in Region : NoGen \notin Complete(r) /\ Complete(r)' = Complete(r)
        BY <2>1 DEF Complete, Gen, NoGen
    <2>3. \A r \in Region : (Complete(r) \ {wgen})' = Complete(r)
        BY <2>1, <2>2
    <2>4. QED
        BY <2>1, <2>2, <2>3 DEF CatalogTrails, Catalog
<1>12. CASE WInterrupt
    BY <1>12, Numbers DEF WInterrupt, Fault
<1>13. QED
    BY <1>1, <1>4, <1>5, <1>6, <1>7, <1>8, <1>9, <1>10, <1>11, <1>12 DEF WeeklyNext

LEMMA CatalogTrailsStep ==
    ASSUME LinkInv, HostCopied, Flat = {}, [HostNext]_vars,
           faults = 0 /\ KeepPrior # 0 => CatalogTrails,
           faults' = 0, KeepPrior # 0
    PROVE  CatalogTrails'
<1>1. LinksHeld /\ CatalogTrails
    BY FaultsStay DEF LinkInv, SystemInv
<1>2. CASE Weekly
    BY <1>1, <1>2, TrailsStep
<1>3. CASE Cleanup \/ UNCHANGED vars
    <2>1. packs' = packs /\ UNCHANGED <<weeklyVars, current>>
        BY <1>3, ScrubSparesPacks DEF LinkInv, SystemInv
    <2>2. QED
        BY <1>1, <2>1 DEF CatalogTrails, Complete, weeklyVars
<1>4. QED
    BY <1>2, <1>3 DEF HostNext

LEMMA HostInvStep ==
    ASSUME Flat = {}, HostInv, [HostNext]_vars
    PROVE  HostInv'
<1>1. LinkInv /\ SystemInv
    BY DEF HostInv, LinkInv
<1>2. HostCopied' /\ HostListing'
    BY <1>1, HostCopiedStep, HostListingStep DEF HostInv
<1>3. faults' = 0 /\ KeepPrior # 0 => CatalogTrails'
    BY <1>1, CatalogTrailsStep DEF HostInv
<1>4. QED
    BY <1>1, <1>2, <1>3, LinkInvStep DEF HostInv

LEMMA HostInvInit == Init => HostInv
<1> SUFFICES ASSUME Init
             PROVE  HostInv
    OBVIOUS
<1>1. \A r \in Region : Complete(r) = {} /\ Complete(r) \ {wgen} = {}
    BY DEF Init, TreeInit, Complete, CompleteState
<1>2. \A r \in Region : current[r] = 0 /\ Newest(Complete(r)) = 0
                        /\ Newest(Complete(r) \ {wgen}) = 0
    BY <1>1 DEF Init, TreeInit, Newest, NoGen
<1>3. HostCopied /\ HostListing /\ CatalogTrails
    BY <1>1, <1>2 DEF Init, WeeklyInit, HostCopied, HostListing, CatalogTrails, NoGen
<1>4. QED
    BY <1>3, LinkInvInit DEF HostInv

-----------------------------------------------------------------------------
(* The theorems.                                                           *)

\* On a weekly host the inductive invariant holds: what a run found out of the
\* tree stays true until it acts on it.
THEOREM HostInvariant ==
    ASSUME Flat = {}
    PROVE  WeeklyHost => []HostInv
<1>1. HostInv /\ [HostNext]_vars => HostInv'
    BY HostInvStep
<1>2. QED
    BY <1>1, HostInvInit, PTL DEF WeeklyHost, HostNext

\* A corrupt copy never costs a region its last sound generation: the run
\* prunes only behind a copy it has found good, and that one is the newest.
THEOREM WeeklyLastGoodSurvives ==
    ASSUME Flat = {}
    PROVE  WeeklyHost => LastGoodSurvives
<1>1. ASSUME HostInv, [HostNext]_vars, NEW r \in Region,
             NEW g \in Gen, packs[r][g] = "good"
      PROVE  \E h \in Gen : packs'[r][h] = "good"
    <2>1. LinkInv /\ SystemInv /\ TypeOK /\ TreeTypeOK /\ HostCopied
        BY <1>1 DEF HostInv, LinkInv, SystemInv, TypeOK
    <2>2. ASSUME PruneStale(r) \/ PruneTorn(r), r \in wregion, wpc = "prune"
          PROVE  packs'[r][wgen] = "good" /\ wgen \in Gen
        <3>1. packs[r][wgen] = "good"
            BY <2>1, <2>2 DEF HostCopied
        <3>2. wgen \in Gen /\ wgen = issued
            BY <2>1, <2>2 DEF SystemInv, WeeklyOwned, WIdle, TypeOK, WeeklyTypeOK,
                              GenOrNone, LinkInv, HostIds
        <3>3. wgen \in Complete(r)
            BY <3>1, <3>2 DEF Complete, CompleteState
        <3>4. {h \in Complete(r) : h > wgen} = {}
            BY <2>1, <3>2, Numbers DEF SystemInv, Unissued, Complete, CompleteState
        <3>5. wgen \notin Stale(r)
            BY <3>4, FS_EmptySet, KeepPriorAssumption DEF Stale
        <3>6. QED
            BY <2>1, <2>2, <3>1, <3>2, <3>5, PruneEffect
    <2>3. CASE packs' = packs
        BY <1>1, <2>3
    <2>4. ASSUME NEW q \in Region, WBeginRegion(q) \/ WSeal(q)
          PROVE  packs'[r][g] = "good"
        <3>1. packs[q][wgen] # "good"
            BY <2>1, <2>4 DEF WBeginRegion, WSeal, HostCopied, SystemInv,
                              WeeklyUntouched, WCopying
        <3>2. \A h \in Gen : packs'[r][h] = packs[r][h] \/ (r = q /\ h = wgen)
            BY <2>1, <2>4 DEF WBeginRegion, WSeal, SealDir, SetDir, TreeTypeOK
        <3>3. QED
            BY <1>1, <3>1, <3>2
    <2>5. ASSUME NEW q \in Region, PruneStale(q) \/ PruneTorn(q), q # r
          PROVE  packs'[r][g] = "good"
        BY <1>1, <2>1, <2>5, PruneEffect
    <2>6. \/ packs' = packs
          \/ \E q \in Region : WBeginRegion(q) \/ WSeal(q)
          \/ \E q \in Region :
                (PruneStale(q) \/ PruneTorn(q)) /\ q \in wregion /\ wpc = "prune"
        <3>1. CASE Weekly
            BY <2>1, <3>1
            DEF Weekly, WeeklyNext, WAssemble, WPreVerify, WPromote, WSwapLive,
                WSetPrevious, WSetPointer, WSourceGone, WPostVerify, WPrune, WScan,
                WReplace, WInterrupt, treeVars, TypeOK, WeeklyTypeOK
        <3>2. CASE Cleanup \/ UNCHANGED vars
            BY <2>1, <3>2, ScrubSparesPacks
        <3>3. QED
            BY <1>1, <3>1, <3>2 DEF HostNext
    <2>7. QED
        BY <1>1, <2>2, <2>3, <2>4, <2>5, <2>6
<1>2. HostInv /\ [HostNext]_vars =>
        [\A r \in Region :
            (\E g \in Gen : packs[r][g] = "good") =>
                (\E g \in Gen : packs[r][g] = "good")']_treeVars
    BY <1>1
<1>3. QED
    BY <1>2, HostInvariant, PTL DEF WeeklyHost, HostNext, LastGoodSurvives

\* Until something fails, every generation the catalogue lists is there whole,
\* also while the run that will replace it prunes.  This is what a prior
\* generation is kept for: with KeepPrior = 0 it is false.
THEOREM WeeklyCatalogResolves ==
    ASSUME Flat = {}, KeepPrior # 0
    PROVE  WeeklyHost => []CatalogResolves
<1>1. ASSUME HostInv, faults = 0
      PROVE  CatalogAlwaysResolves
    <2>1. ASSUME NEW r \in Region, current[r] # NoGen
          PROVE  current[r] \in Complete(r)
        <3>1. current[r] = Newest(Complete(r) \ {wgen})
            BY <1>1 DEF HostInv, CatalogTrails
        <3>2. Complete(r) \ {wgen} \in SUBSET Gen
            BY DEF Complete
        <3>3. QED
            BY <2>1, <3>1, <3>2, NewestIsGreatest
    <2>2. QED
        BY <2>1 DEF CatalogAlwaysResolves
<1>2. HostInv => CatalogResolves
    BY <1>1 DEF CatalogResolves
<1>3. QED
    BY <1>2, HostInvariant, PTL

\* Weekly runs never send a region's clients back to an older generation.
THEOREM WeeklyCatalogNeverRegresses ==
    ASSUME Flat = {}
    PROVE  WeeklyHost => CatalogNeverRegresses
<1>1. HostInv /\ [HostNext]_vars =>
        [\A r \in Region : current[r] <= current'[r]]_treeVars
    BY HostListingStep DEF HostInv, LinkInv
<1>2. QED
    BY <1>1, HostInvariant, PTL DEF WeeklyHost, HostNext, CatalogNeverRegresses

-----------------------------------------------------------------------------
(* Weekly runs implement the catalogue that clients are promised.          *)

\* Sealing a copy, sound or not, adds a generation clients may fetch.
LEMMA WeeklySealPublishes ==
    ASSUME SystemInv, NEW r \in Region, WSeal(r)
    PROVE  Client!Next \/ \A q \in Region : Complete(q)' = Complete(q)
<1> DEFINE g == wgen
<1>1. g \in Gen
    BY DEF WSeal, SystemInv, WeeklyOwned, WIdle, TypeOK, WeeklyTypeOK, GenOrNone
<1>2. /\ \A q \in Region, h \in Gen :
            packs'[q][h] = packs[q][h] \/ (q = r /\ h = g)
      /\ packs'[r][g] \in CompleteState
      /\ current' = current
    BY <1>1 DEF WSeal, SealDir, SetDir, CompleteState, SystemInv, TypeOK, TreeTypeOK
<1>3. \A q \in Region : q # r => Complete(q)' = Complete(q)
    BY <1>2 DEF Complete
<1>4. Complete(r)' = Complete(r) \cup {g}
    BY <1>1, <1>2 DEF Complete
<1>5. CASE g \in Complete(r)
    BY <1>3, <1>4, <1>5
<1>6. CASE g \notin Complete(r)
    <2>1. Client!Publish(r, g)
        BY <1>2, <1>3, <1>4, <1>6 DEF Client!Publish
    <2>2. QED
        BY <1>1, <2>1 DEF Client!Next, Client!Gen, Gen
<1>7. QED
    BY <1>5, <1>6

LEMMA HostStepRefines ==
    ASSUME HostInv, Flat = {}, [HostNext]_vars
    PROVE  \/ Client!Next
           \/ current' = current /\ \A r \in Region : Complete(r)' = Complete(r)
<1> DEFINE Goal == \/ Client!Next
                   \/ current' = current /\ \A r \in Region : Complete(r)' = Complete(r)
<1>1. LinkInv /\ SystemInv /\ TypeOK /\ TreeTypeOK /\ HostCopied
    BY DEF HostInv, LinkInv, SystemInv, TypeOK
<1>2. current' = current \/ current' = Catalog
    BY <1>1, HostCatalogStep
<1>3. CASE packs' = packs
    <2>1. \A r \in Region : Complete(r)' = Complete(r)
        BY <1>3 DEF Complete
    <2>2. QED
        BY <1>2, <1>3, <2>1, CatalogRefreshes
<1>4. ASSUME NEW r \in Region, WBeginRegion(r)
      PROVE  Goal
    <2>1. packs[r][wgen] = "absent"
        BY <1>1, <1>4 DEF WBeginRegion, SystemInv, WeeklyUntouched, WCopying
    <2>2. \A q \in Region, g \in Gen :
             packs'[q][g] = packs[q][g] \/ (q = r /\ g = wgen /\ packs'[q][g] = "partial")
        BY <1>1, <1>4 DEF WBeginRegion, SetDir, TreeTypeOK
    <2>3. \A q \in Region : Complete(q)' = Complete(q)
        BY <2>1, <2>2 DEF Complete, CompleteState
    <2>4. QED
        BY <1>4, <2>3 DEF WBeginRegion
<1>5. ASSUME NEW r \in Region, WSeal(r)
      PROVE  Goal
    BY <1>1, <1>5, WeeklySealPublishes DEF WSeal
<1>6. ASSUME NEW r \in Region, PruneStale(r) \/ PruneTorn(r), current' = current
      PROVE  Goal
    BY <1>1, <1>6, PruneRetires
<1>7. \/ packs' = packs
      \/ \E r \in Region : WBeginRegion(r) \/ WSeal(r)
      \/ \E r \in Region : (PruneStale(r) \/ PruneTorn(r)) /\ current' = current
    <2>1. CASE Weekly
        BY <1>1, <2>1
        DEF Weekly, WeeklyNext, WAssemble, WPreVerify, WPromote, WSwapLive,
            WSetPrevious, WSetPointer, WSourceGone, WPostVerify, WPrune, WScan,
            WReplace, WInterrupt, treeVars, TypeOK, WeeklyTypeOK
    <2>2. CASE Cleanup \/ UNCHANGED vars
        BY <1>1, <2>2, ScrubSparesPacks
    <2>3. QED
        BY <2>1, <2>2 DEF HostNext
<1>8. QED
    BY <1>3, <1>4, <1>5, <1>6, <1>7

\* What clients see of weekly runs that fail, crash and follow each other, with
\* the scrub beside them, is the promised catalogue.
THEOREM WeeklyImplementsCatalogue ==
    ASSUME Flat = {}
    PROVE  WeeklyHost => ImplementsCatalogue
<1>1. Init => Client!Init
    BY DEF Init, TreeInit, Client!Init, Complete, CompleteState, NoGen
<1>2. HostInv /\ [HostNext]_vars =>
        [Client!Next]_<<[r \in Region |-> Complete(r)], current>>
    BY HostStepRefines
<1>3. QED
    BY <1>1, <1>2, HostInvariant, PTL
    DEF WeeklyHost, HostNext, ImplementsCatalogue, Client!Spec
=============================================================================
