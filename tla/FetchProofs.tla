------------------------------ MODULE FetchProofs ------------------------------
(***************************************************************************)
(* The types and the retry budget of fetch_one, and what a skipped download*)
(* holds, for any budget, backoff, interval and provider.                  *)
(***************************************************************************)
EXTENDS Fetch, TLAPS

\* The part of the state the clock depends on.
ClockTypeOK ==
    /\ fpc \in FPoint /\ url \in {"latest", "dated"}
    /\ now \in Nat /\ backoff \in Nat

\* How late it can be at each point of a run: a probe, of two curls, starts
\* before the deadline and leads to one request, that to one look-up of the
\* dated sibling, of three, and that to one more request.
Deadlines ==
    /\ fpc \in {"idle", "incremental"} => now = 0
    /\ fpc = "probe" => now <= Budget + 2 * MaxRequest
    /\ fpc = "request" /\ url = "latest" => now <= Budget + 2 * MaxRequest
    /\ fpc = "dated" => now <= Budget + 3 * MaxRequest
    /\ fpc = "request" => now <= Budget + 6 * MaxRequest
    /\ now <= Budget + 7 * MaxRequest

ClockInv == ClockTypeOK /\ Deadlines

LEMMA ClockInit == Init => ClockInv
    BY FetchAssumption DEF Init, ClockInv, ClockTypeOK, FPoint, Deadlines

LEMMA ClockStep == ClockInv /\ [Next]_vars => ClockInv'
<1> SUFFICES ASSUME ClockInv, [Next]_vars
             PROVE  ClockInv'
    OBVIOUS
<1> USE FetchAssumption DEF ClockInv, ClockTypeOK, FPoint, Deadlines
<1>1. CASE Start
    BY <1>1 DEF Start
<1>2. ASSUME NEW result, End(result)
      PROVE  ClockInv'
    BY <1>2 DEF End
<1>3. CASE Incremental \/ IncrementalFails \/ NotModified \/ Reject \/ DatedMissing
    BY <1>2, <1>3 DEF Incremental, IncrementalFails, NotModified, Reject,
                      DatedMissing, Die
<1>4. CASE BudgetExhausted \/ ChecksumOk \/ ChecksumMismatch \/ ChecksumMissing \/ Kill
    BY <1>2, <1>4 DEF BudgetExhausted, ChecksumOk, ChecksumMismatch,
                      ChecksumMissing, Kill, Die
<1>5. CASE IncrementalUnavailable
    BY <1>5 DEF IncrementalUnavailable
<1>6. CASE Download \/ Transient
    BY <1>6 DEF Download, Transient, Requests
<1>7. CASE LatestMissing
    BY <1>7 DEF LatestMissing, Requests
<1>8. CASE Dated
    BY <1>8 DEF Dated, Requests
<1>9. CASE Sleep
    BY <1>9 DEF Sleep, LesserOf
<1>10. CASE ProbeRecovered
    BY <1>10 DEF ProbeRecovered, Requests, LesserOf
<1>11. CASE Probe
    BY <1>11 DEF Probe, LesserOf
<1>12. CASE SaveValidators \/ Move
    BY <1>12 DEF SaveValidators, Move, retryVars
<1>13. CASE DropHeld \/ PublishExtract \/ PublishDigest \/ UNCHANGED vars
    BY <1>13 DEF DropHeld, PublishExtract, PublishDigest, vars, retryVars
<1>14. QED
    BY <1>1, <1>3, <1>4, <1>5, <1>6, <1>7, <1>8, <1>9, <1>10, <1>11, <1>12, <1>13
    DEF Next, FetchStep

\* Whatever the provider does, a run outlives the transient budget by no more
\* than seven curls, the ones that were in flight.
THEOREM FetchBudgetRespected == Spec => []BudgetRespected
<1>1. ClockInv => BudgetRespected
    BY DEF ClockInv, Deadlines, BudgetRespected
<1>2. QED
    BY <1>1, ClockInit, ClockStep, PTL DEF Spec

-----------------------------------------------------------------------------

\* What the two ends and the disk know of each other while nothing failed: the
\* saved validators are of the held extract or an older one, of the .partial
\* between their saving and the move, and nothing is newer than the provider.
Abreast ==
    /\ validator <= served /\ held.version <= served /\ tmp.version <= served
    /\ faults = 0 =>
         /\ fpc = "move" => tmp.version = validator
         /\ fpc # "move" => held = NoBody \/ validator <= held.version

\* TypeOK without its two flags, which no backend treats together with numbers.
PlainTypeOK ==
    /\ served \in Version /\ digest \in Version
    /\ held \in Body /\ tmp \in Body
    /\ validator \in Version \cup {NoVersion}
    /\ fpc \in FPoint /\ url \in {"latest", "dated"}
    /\ now \in Nat /\ backoff \in Nat \ {0} /\ streak \in 0 .. CleanNeed
    /\ outcome \in Outcome
    /\ faults \in 0 .. MaxFaults

Flags == verified \in BOOLEAN /\ cond \in BOOLEAN

FetchInv == PlainTypeOK /\ Flags /\ Abreast

LEMMA EmptyBody == NoBody \in Body /\ NoBody.version = NoVersion
    BY DEF Body, NoBody

LEMMA BodyVersion == \A b \in Body : b.version \in Version \cup {NoVersion}
    BY DEF Body

LEMMA FlagsInit == Init => Flags
    BY Zenon DEF Init, Flags

LEMMA FlagsStep == Flags /\ [Next]_vars => Flags'
<1> SUFFICES ASSUME Flags, [Next]_vars
             PROVE  Flags'
    OBVIOUS
<1> USE DEF Flags
<1>1. CASE Start \/ IncrementalUnavailable
    BY <1>1, Zenon DEF Start, IncrementalUnavailable, diskVars
<1>2. ASSUME NEW result, End(result), verified' \in BOOLEAN
      PROVE  Flags'
    BY <1>2, Zenon DEF End
<1>3. CASE \/ Incremental \/ IncrementalFails \/ NotModified \/ Reject \/ DatedMissing
           \/ BudgetExhausted \/ ChecksumOk \/ ChecksumMismatch \/ ChecksumMissing \/ Kill
  <2>1. verified' \in BOOLEAN
      BY <1>3, Zenon DEF Incremental, IncrementalFails, NotModified, Reject, DatedMissing,
         BudgetExhausted, ChecksumOk, ChecksumMismatch, ChecksumMissing, Kill, diskVars
  <2>2. \E result : End(result)
      BY <1>3, Zenon DEF Incremental, IncrementalFails, NotModified, Reject, DatedMissing,
         BudgetExhausted, ChecksumOk, ChecksumMismatch, ChecksumMissing, Kill, Die
  <2> QED BY <1>2, <2>1, <2>2
<1>4. CASE Download \/ LatestMissing \/ Transient \/ Sleep \/ ProbeRecovered \/ Probe
    BY <1>4, Zenon DEF Download, LatestMissing, Transient, Sleep, ProbeRecovered, Probe, diskVars
<1>5. CASE Dated
    BY <1>5, Zenon DEF Dated, diskVars
<1>6. CASE SaveValidators \/ Move \/ DropHeld \/ PublishExtract \/ PublishDigest \/ UNCHANGED vars
    BY <1>6, Zenon DEF SaveValidators, Move, DropHeld, PublishExtract, PublishDigest, vars,
       diskVars, retryVars
<1> QED
    BY <1>1, <1>3, <1>4, <1>5, <1>6 DEF Next, FetchStep

LEMMA PlainInit == Init => PlainTypeOK /\ Abreast
    BY FetchAssumption, EmptyBody DEF Init, PlainTypeOK, Abreast, FPoint, Outcome,
       Version, NoVersion

LEMMA PlainStep == PlainTypeOK /\ Abreast /\ [Next]_vars => (PlainTypeOK /\ Abreast)'
<1> SUFFICES ASSUME PlainTypeOK, Abreast, [Next]_vars
             PROVE  (PlainTypeOK /\ Abreast)'
    OBVIOUS
<1> USE FetchAssumption DEF PlainTypeOK, Abreast, FPoint, Outcome, Version,
        NoVersion
<1>0. NoBody \in Body /\ NoBody.version = 0 /\ \A b \in Body : b.version \in Nat
    BY EmptyBody, BodyVersion
<1>1. CASE Start
    BY <1>1 DEF Start, providerVars, diskVars
<1>2. CASE Incremental
  <2>1. PICK tip \in held.version .. served : held' = [held EXCEPT !.version = tip]
      BY <1>2 DEF Incremental
  <2>2. held' \in Body /\ held'.version = tip /\ tip \in Nat /\ tip >= held.version
      BY <2>1, <1>2 DEF Incremental, Body
  <2>3. fpc # "move" /\ held # NoBody
      BY <1>2 DEF Incremental
  <2> QED BY <1>0, <1>2, <2>1, <2>2, <2>3 DEF Incremental, End, providerVars
<1>3. CASE IncrementalFails \/ NotModified \/ Reject \/ DatedMissing
    BY <1>0, <1>3 DEF IncrementalFails, NotModified, Reject, DatedMissing, Die, End,
       providerVars, diskVars
<1>4. CASE BudgetExhausted \/ ChecksumOk \/ ChecksumMismatch \/ ChecksumMissing
    BY <1>0, <1>4 DEF BudgetExhausted, ChecksumOk, ChecksumMismatch, ChecksumMissing,
       Die, End, providerVars, diskVars
<1>5. CASE Kill
    BY <1>0, <1>5 DEF Kill, Fault, Die, End, providerVars, diskVars
<1>6. CASE Download
  <2>0. \A b \in BOOLEAN : [version |-> served, intact |-> b] \in Body
      BY DEF Body
  <2>1. tmp' \in Body /\ tmp'.version = served
    <3>1. CASE tmp' = [version |-> served, intact |-> TRUE]
        BY <2>0, <3>1
    <3>2. CASE tmp' = [version |-> served, intact |-> FALSE]
        BY <2>0, <3>2
    <3> QED BY <1>6, <3>1, <3>2 DEF Download
  <2>2. now' \in Nat
      BY <1>6 DEF Download, Requests
  <2> QED BY <1>6, <2>1, <2>2 DEF Download, Fault, providerVars, diskVars
<1>7. CASE Transient \/ LatestMissing \/ Dated
    BY <1>7 DEF Transient, LatestMissing, Dated, Requests, providerVars, diskVars
<1>7a. CASE IncrementalUnavailable
    BY <1>7a DEF IncrementalUnavailable, providerVars, diskVars
<1>8. CASE Sleep
    BY <1>8 DEF Sleep, LesserOf, providerVars, diskVars
<1>9. CASE ProbeRecovered
    BY <1>9 DEF ProbeRecovered, Requests, LesserOf, providerVars, diskVars
<1>10. CASE Probe
    BY <1>10 DEF Probe, LesserOf, providerVars, diskVars
<1>11. CASE SaveValidators
    BY <1>11 DEF SaveValidators, Body, providerVars, retryVars
<1>12. CASE Move
    BY <1>0, <1>12 DEF Move, providerVars, retryVars
<1>13. CASE DropHeld \/ PublishExtract \/ PublishDigest
    BY <1>0, <1>13 DEF DropHeld, PublishExtract, PublishDigest, providerVars, diskVars,
       retryVars
<1>14. CASE UNCHANGED vars
    BY <1>14 DEF vars, providerVars, diskVars, retryVars
<1> QED
    BY <1>1, <1>2, <1>3, <1>4, <1>5, <1>6, <1>7, <1>7a, <1>8, <1>9, <1>10, <1>11, <1>12,
       <1>13, <1>14
    DEF Next, FetchStep

LEMMA FetchInvInit == Init => FetchInv
    BY PlainInit, FlagsInit DEF FetchInv

LEMMA FetchInvStep == FetchInv /\ [Next]_vars => FetchInv'
    BY PlainStep, FlagsStep DEF FetchInv

\* fetch_one and its provider keep every variable within its type.
THEOREM FetchTypeCorrect == Spec => []TypeOK
<1>1. FetchInv => TypeOK
    BY Zenon DEF FetchInv, PlainTypeOK, Flags, TypeOK
<1>2. QED
    BY <1>1, FetchInvInit, FetchInvStep, PTL DEF Spec

\* A run answered by a 304 ends with the provider's version, whatever diffs,
\* failed checksums and dated siblings came before, until a first kill or
\* damaged body.
THEOREM FetchUnchangedIsCurrent == Spec => UnchangedIsCurrent
<1>1. FetchInv /\ [Next]_vars =>
        [(outcome' = "unchanged" /\ outcome # "unchanged" /\ faults = 0) =>
            held = NoBody \/ held.version = served]_vars
  <2> SUFFICES ASSUME FetchInv, Next, outcome' = "unchanged", outcome # "unchanged", faults = 0
               PROVE  held = NoBody \/ held.version = served
      BY DEF vars
  <2>1. NotModified
      BY DEF Next, FetchStep, Start, Kill, DropHeld, PublishExtract, PublishDigest,
         Incremental, IncrementalUnavailable, IncrementalFails, Download, Reject,
         LatestMissing, Dated, DatedMissing, Transient, Sleep, BudgetExhausted,
         ProbeRecovered, Probe, SaveValidators, Move, ChecksumOk, ChecksumMismatch,
         ChecksumMissing, Die, End
  <2>2. validator = served /\ fpc # "move"
      BY <2>1 DEF NotModified
  <2>3. held.version \in Nat /\ served \in Nat
      BY FetchAssumption DEF FetchInv, PlainTypeOK, Body, Version, NoVersion
  <2> QED BY <2>2, <2>3 DEF FetchInv, Abreast
<1>2. QED
    BY <1>1, FetchInvInit, FetchInvStep, PTL DEF Spec, UnchangedIsCurrent
=============================================================================
