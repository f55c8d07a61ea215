-------------------------------- MODULE Fetch --------------------------------
(***************************************************************************)
(* fetch_one of scripts/fetch-extracts.sh for one region whose provider    *)
(* publishes an .md5, in the runs of successive bakes, against a provider  *)
(* that replaces the extract and its .md5 one after the other, answers     *)
(* badly at times, and offers replication diffs.                           *)
(*                                                                         *)
(* Time is in seconds since the run started, until the body is there: what *)
(* comes after it has no budget.  No curl takes longer than MaxRequest,    *)
(* its redirects included, which is an assumption: the one that downloads  *)
(* is given no --max-time.                                                 *)
(***************************************************************************)
EXTENDS Naturals

CONSTANTS
    MaxVersion,     \* bound: versions of the extract the provider publishes
    MaxFaults,      \* bound: corrupted bodies and killed runs
    MaxRequest,     \* seconds one curl may take
    Budget,         \* NAVI_FETCH_TRANSIENT_BUDGET_SECS
    BackoffInitial, \* NAVI_FETCH_BACKOFF_INITIAL_SECS
    BackoffMax,     \* NAVI_FETCH_BACKOFF_MAX_SECS
    CleanNeed,      \* NAVI_FETCH_RECOVERY_CLEAN_NEED
    Interval        \* NAVI_FETCH_RECOVERY_INTERVAL_SECS

ASSUME FetchAssumption ==
    /\ MaxVersion \in Nat \ {0} /\ MaxFaults \in Nat
    /\ MaxRequest \in Nat /\ Budget \in Nat
    /\ BackoffInitial \in Nat \ {0} /\ BackoffMax \in Nat \ {0}
    /\ CleanNeed \in Nat \ {0} /\ Interval \in Nat \ {0}

Version == 1 .. MaxVersion
NoVersion == 0

\* An extract on disk, and whether its bytes are the provider's.
Body == [version : Version \cup {NoVersion}, intact : BOOLEAN]
NoBody == [version |-> NoVersion, intact |-> TRUE]

VARIABLES
    served,    \* version of -latest.osm.pbf at the provider
    digest,    \* version its .md5 is about
    held,      \* the region's extract on disk
    verified,  \* held matched an .md5, or was advanced by diffs from one that did
    validator, \* version the saved etag and last-modified are about
    tmp,       \* the .partial
    fpc,       \* control point of the run
    url,       \* "latest" or "dated"
    cond,      \* the request carries If-None-Match
    now,       \* seconds since the run started
    backoff,   \* next sleep after a transient failure
    streak,    \* consecutive clean probes
    outcome,   \* how the last run ended
    faults     \* corrupted bodies and killed runs so far

providerVars == <<served, digest>>
diskVars == <<held, verified, validator>>
retryVars == <<url, cond, now, backoff, streak>>
vars == <<providerVars, diskVars, retryVars, tmp, fpc, outcome, faults>>

FPoint == {"idle", "incremental", "request", "dated", "backoff", "probe",
           "validators", "move", "checksum"}
Outcome == {"none", "incremental", "unchanged", "downloaded", "died"}

TypeOK ==
    /\ served \in Version /\ digest \in Version
    /\ held \in Body /\ verified \in BOOLEAN
    /\ validator \in Version \cup {NoVersion}
    /\ tmp \in Body
    /\ fpc \in FPoint /\ url \in {"latest", "dated"} /\ cond \in BOOLEAN
    /\ now \in Nat /\ backoff \in Nat \ {0} /\ streak \in 0 .. CleanNeed
    /\ outcome \in Outcome
    /\ faults \in 0 .. MaxFaults

Init ==
    /\ served = 1 /\ digest = 1
    /\ held = NoBody /\ verified = FALSE /\ validator = NoVersion
    /\ tmp = NoBody
    /\ fpc = "idle" /\ url = "latest" /\ cond = FALSE
    /\ now = 0 /\ backoff = BackoffInitial /\ streak = 0
    /\ outcome = "none"
    /\ faults = 0

Fault == faults < MaxFaults /\ faults' = faults + 1

\* The run is over; the .partial is removed, by it or by the next.
End(result) ==
    /\ fpc' = "idle"
    /\ outcome' = result
    /\ tmp' = NoBody
    /\ url' = "latest" /\ cond' = FALSE
    /\ now' = 0 /\ backoff' = BackoffInitial /\ streak' = 0

Die == End("died")

\* Up to n curls, one after the other, take some time.
Requests(n) == \E d \in 0 .. n * MaxRequest : now' = now + d

-----------------------------------------------------------------------------
\* Incremental first when the bake prefers it, else the full fetch.
Start ==
    /\ fpc = "idle"
    /\ fpc' \in {"incremental", "request"}
    /\ cond' = (held # NoBody /\ validator # NoVersion)
    /\ outcome' = "none"
    /\ UNCHANGED <<providerVars, diskVars, tmp, url, now, backoff, streak, faults>>

\* Diffs bring the held extract to the tip of the feed: the sequence number in
\* its header is checked, its bytes are not.
Incremental ==
    /\ fpc = "incremental" /\ held # NoBody
    /\ \E tip \in held.version .. served : held' = [held EXCEPT !.version = tip]
    /\ End("incremental")
    /\ UNCHANGED <<providerVars, verified, validator, faults>>

\* Exit code 10: no held extract, not published yet, or outside retention.
IncrementalUnavailable ==
    /\ fpc = "incremental"
    /\ fpc' = "request"
    /\ cond' = (held # NoBody /\ validator # NoVersion)
    /\ UNCHANGED <<providerVars, diskVars, tmp, url, now, backoff, streak,
                   outcome, faults>>

\* Any other exit code.
IncrementalFails ==
    /\ fpc = "incremental" /\ held # NoBody
    /\ Die
    /\ UNCHANGED <<providerVars, diskVars, faults>>

-----------------------------------------------------------------------------
\* 200 with an extract, whole or damaged on its way.
Download ==
    /\ fpc = "request"
    /\ cond => validator # served
    /\ Requests(1)
    /\ \/ tmp' = [version |-> served, intact |-> TRUE] /\ faults' = faults
       \/ tmp' = [version |-> served, intact |-> FALSE] /\ Fault
    /\ fpc' = "validators"
    /\ UNCHANGED <<providerVars, diskVars, url, cond, backoff, streak, outcome>>

\* 304
NotModified ==
    /\ fpc = "request"
    /\ cond /\ validator = served
    /\ End("unchanged")
    /\ UNCHANGED <<providerVars, diskVars, faults>>

\* A mutant: the validators are saved before the body is looked at.
RejectLate ==
    /\ fpc = "request"
    /\ validator' = served
    /\ Die
    /\ UNCHANGED <<providerVars, held, verified, faults>>

\* An empty or HTML body, or a failure for a human.
Reject ==
    /\ fpc = "request"
    /\ Die
    /\ UNCHANGED <<providerVars, diskVars, faults>>

\* A redirect loop or a 404 of -latest: look for its dated sibling.
LatestMissing ==
    /\ fpc = "request" /\ url = "latest"
    /\ Requests(1)
    /\ fpc' = "dated"
    /\ UNCHANGED <<providerVars, diskVars, tmp, url, cond, backoff, streak,
                   outcome, faults>>

\* The sibling is in the Location of -latest, on the extract's page or in its
\* directory, asked one after the other.  It is another resource: no
\* conditional request.
Dated ==
    /\ fpc = "dated"
    /\ Requests(3)
    /\ url' = "dated" /\ cond' = FALSE
    /\ fpc' = "request"
    /\ UNCHANGED <<providerVars, diskVars, tmp, backoff, streak, outcome, faults>>

DatedMissing ==
    /\ fpc = "dated"
    /\ Die
    /\ UNCHANGED <<providerVars, diskVars, faults>>

Transient ==
    /\ fpc = "request"
    /\ Requests(1)
    /\ fpc' = "backoff"
    /\ UNCHANGED <<providerVars, diskVars, tmp, url, cond, backoff, streak,
                   outcome, faults>>

LesserOf(a, b) == IF a < b THEN a ELSE b

\* A mutant: the sleep is not cut at the deadline.
SleepUncut ==
    /\ fpc = "backoff" /\ now < Budget
    /\ now' = now + backoff
    /\ streak' = 0
    /\ fpc' = "probe"
    /\ UNCHANGED <<providerVars, diskVars, tmp, url, cond, backoff, outcome, faults>>

\* Sleep, but not past the deadline.
Sleep ==
    /\ fpc = "backoff" /\ now < Budget
    /\ now' = LesserOf(now + backoff, Budget)
    /\ streak' = 0
    /\ fpc' = "probe"
    /\ UNCHANGED <<providerVars, diskVars, tmp, url, cond, backoff, outcome, faults>>

\* A mutant: off by one.
BudgetOverrun ==
    /\ fpc \in {"backoff", "probe"} /\ now > Budget
    /\ Die
    /\ UNCHANGED <<providerVars, diskVars, faults>>

BudgetExhausted ==
    /\ fpc \in {"backoff", "probe"} /\ now >= Budget
    /\ Die
    /\ UNCHANGED <<providerVars, diskVars, faults>>

\* The last of CleanNeed clean probes in a row: request again.  A probe is a
\* HEAD, and a GET of one byte if that tells no length.
ProbeRecovered ==
    /\ fpc = "probe" /\ now < Budget /\ streak + 1 >= CleanNeed
    /\ Requests(2)
    /\ streak' = 0
    /\ backoff' = IF backoff < BackoffMax
                  THEN LesserOf(2 * backoff, BackoffMax) ELSE backoff
    /\ fpc' = "request"
    /\ UNCHANGED <<providerVars, diskVars, tmp, url, cond, outcome, faults>>

\* Clean but not enough, or not clean; then the pause before the next probe.
Probe ==
    /\ fpc = "probe" /\ now < Budget
    /\ streak' \in {0} \cup {s \in {streak + 1} : s < CleanNeed}
    /\ \E d \in 0 .. 2 * MaxRequest :
          now' = IF now + d < Budget THEN LesserOf(now + d + Interval, Budget)
                 ELSE now + d
    /\ UNCHANGED <<providerVars, diskVars, tmp, fpc, url, cond, backoff, outcome,
                   faults>>

-----------------------------------------------------------------------------
\* The etag and last-modified of the body are saved before the body is.
SaveValidators ==
    /\ fpc = "validators"
    /\ validator' = tmp.version
    /\ fpc' = "move"
    /\ UNCHANGED <<providerVars, held, verified, tmp, retryVars, outcome, faults>>

Move ==
    /\ fpc = "move"
    /\ held' = tmp
    /\ tmp' = NoBody
    /\ verified' = FALSE
    /\ fpc' = "checksum"
    /\ UNCHANGED <<providerVars, validator, retryVars, outcome, faults>>

\* The .md5 of -latest is whatever the provider has by now; the dated one is
\* that of the dated extract.
Matches == held.intact /\ (url = "latest" => held.version = digest)

ChecksumOk ==
    /\ fpc = "checksum" /\ held # NoBody /\ Matches
    /\ verified' = TRUE
    /\ End("downloaded")
    /\ UNCHANGED <<providerVars, held, validator, faults>>

\* CHECKSUM MISMATCH, or the extract is gone: nothing is undone.
ChecksumMismatch ==
    /\ fpc = "checksum" /\ (held = NoBody \/ ~Matches)
    /\ Die
    /\ UNCHANGED <<providerVars, diskVars, faults>>

\* The .md5 cannot be had: the extract is removed.
ChecksumMissing ==
    /\ fpc = "checksum"
    /\ held' = NoBody /\ verified' = FALSE
    /\ Die
    /\ UNCHANGED <<providerVars, validator, faults>>

\* The run is killed.
Kill ==
    /\ fpc # "idle"
    /\ Fault
    /\ Die
    /\ UNCHANGED <<providerVars, diskVars>>

-----------------------------------------------------------------------------
\* The held-PBF policy of cleanup.sh drops the extract, not its validators.
DropHeld ==
    /\ held # NoBody
    /\ held' = NoBody /\ verified' = FALSE
    /\ UNCHANGED <<providerVars, validator, retryVars, tmp, fpc, outcome, faults>>

\* The provider replaces the extract, then its .md5.
PublishExtract ==
    /\ digest = served /\ served < MaxVersion
    /\ served' = served + 1
    /\ UNCHANGED <<digest, diskVars, retryVars, tmp, fpc, outcome, faults>>

PublishDigest ==
    /\ digest # served
    /\ digest' = served
    /\ UNCHANGED <<served, diskVars, retryVars, tmp, fpc, outcome, faults>>

FetchStep ==
    \/ Incremental \/ IncrementalUnavailable \/ IncrementalFails
    \/ Download \/ NotModified \/ Reject
    \/ LatestMissing \/ Dated \/ DatedMissing
    \/ Transient \/ Sleep \/ BudgetExhausted \/ ProbeRecovered \/ Probe
    \/ SaveValidators \/ Move \/ ChecksumOk \/ ChecksumMismatch \/ ChecksumMissing

Next ==
    \/ Start \/ FetchStep \/ Kill
    \/ DropHeld \/ PublishExtract \/ PublishDigest

Spec == Init /\ [][Next]_vars

\* A started run keeps running: requests end, sleeps end.
FairSpec == Spec /\ WF_vars(FetchStep)

-----------------------------------------------------------------------------
\* A run retries "for up to NAVI_FETCH_TRANSIENT_BUDGET_SECS" (README.md:906):
\* no sleep goes past the deadline, and beyond it there is only what was in
\* flight: seven curls at most, the two of a last probe, a last request, the
\* three that look for the dated sibling and the request of that one.
BudgetRespected ==
    /\ now <= Budget + 7 * MaxRequest
    /\ fpc = "probe" => now <= Budget + 2 * MaxRequest

\* However the provider flaps, a run ends.
RunsEnd == fpc # "idle" ~> fpc = "idle"

\* A run that skips the download as unchanged holds the provider's version,
\* unless a run was killed in between or the scrub took the extract away.
UnchangedIsCurrent ==
    [][(outcome' = "unchanged" /\ outcome # "unchanged" /\ faults = 0) =>
          held = NoBody \/ held.version = served]_vars
=============================================================================
