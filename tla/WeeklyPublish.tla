---------------------------- MODULE WeeklyPublish ----------------------------
(***************************************************************************)
(* scripts/publish-packs.sh, the publish step of the weekly bake.  One run *)
(* assembles a generation from the convert output of any set of regions,   *)
(* checks the published generations it is about to supersede, promotes the *)
(* generation, swaps the live and previous links, copies every region to   *)
(* the published tree, and rewrites current.json.  The systemd unit is     *)
(* oneshot, so runs follow each other; none of them takes .publish.lock.   *)
(***************************************************************************)
EXTENDS PackTree

VARIABLES
    wpc,     \* control point of the current run
    wgen,    \* its generation id
    wstage,  \* regions in its generation-manifest.json
    wtodo,   \* regions of it not yet synced to published/
    wregion, \* the regions being synced: one, or none
    wold,    \* live_target, read before the swap
    wsnap,   \* the catalogue it has scanned and not yet written
    staging  \* generation directories under staging/

weeklyVars == <<wpc, wgen, wstage, wtodo, wregion, wold, wsnap, staging>>

locals == <<wstage, wtodo, wregion, wold, wsnap>>

WPoint == {"idle", "failed", "preverify", "promote", "swap", "previous",
           "pointer", "sync", "copy", "verify", "prune", "scan", "replace"}
WIdle == {"idle", "failed"}

NoCatalog == [r \in Region |-> NoGen]

WeeklyTypeOK ==
    /\ wpc \in WPoint
    /\ wgen \in GenOrNone /\ wold \in GenOrNone
    /\ wstage \subseteq Region /\ wtodo \subseteq Region /\ wregion \subseteq Region
    /\ wsnap \in [Region -> GenOrNone]
    /\ staging \subseteq Gen

WeeklyInit ==
    /\ wpc = "idle" /\ wgen = NoGen /\ wold = NoGen
    /\ wstage = {} /\ wtodo = {} /\ wregion = {}
    /\ wsnap = NoCatalog
    /\ staging = {}

\* The run ends, and what its shell and python processes held is gone.
WEnd(point) ==
    /\ wpc' = point
    /\ wstage' = {} /\ wtodo' = {} /\ wregion' = {}
    /\ wold' = NoGen
    /\ wsnap' = NoCatalog
    /\ wgen' = IF point = "failed" THEN wgen ELSE NoGen

-----------------------------------------------------------------------------
(***************************************************************************)
(* The regions that are selected, untagged, converted and pass validation  *)
(* are an input; a run in which none remains exits without a trace.        *)
(***************************************************************************)
WAssemble(regions) ==
    /\ wpc \in WIdle /\ regions # {}
    /\ IssueGen
    /\ wgen' = issued + 1
    /\ wstage' = regions
    /\ staging' = staging \cup {wgen'}
    /\ wpc' = "preverify"
    /\ UNCHANGED <<wtodo, wregion, wold, wsnap, packs, current, gens, busy,
                   live, previous, pointer, faults>>

\* The newest published generation of every staged region must match its
\* checksums; a region without one has nothing to supersede.
LiveVerified ==
    \A r \in wstage :
        Complete(r) # {} => packs[r][Newest(Complete(r))] = "good"

WPreVerify ==
    /\ wpc = "preverify"
    /\ \/ LiveVerified /\ wpc' = "promote" /\ UNCHANGED <<wgen, locals>>
       \/ ~LiveVerified /\ WEnd("failed")
    /\ UNCHANGED <<staging, treeVars>>

\* mv staging/<gen> generations/<gen>, then readlink of the live link.
WPromote ==
    /\ wpc = "promote"
    /\ staging' = staging \ {wgen}
    /\ gens' = gens \cup {wgen}
    /\ wold' = live
    /\ wpc' = "swap"
    /\ UNCHANGED <<wgen, wstage, wtodo, wregion, wsnap, packs, current, busy,
                   live, previous, pointer, issued, faults>>

WSwapLive ==
    /\ wpc = "swap"
    /\ live' = wgen
    /\ wpc' = "previous"
    /\ UNCHANGED <<wgen, locals, staging, packs, current, gens, busy, previous,
                   pointer, issued, faults>>

WSetPrevious ==
    /\ wpc = "previous"
    /\ previous' = IF wold \in gens \ {wgen} THEN wold ELSE previous
    /\ wpc' = "pointer"
    /\ UNCHANGED <<wgen, locals, staging, packs, current, gens, busy, live,
                   pointer, issued, faults>>

WSetPointer ==
    /\ wpc = "pointer"
    /\ pointer' = wgen
    /\ wtodo' = wstage
    /\ wpc' = "sync"
    /\ UNCHANGED <<wgen, wstage, wregion, wold, wsnap, staging, packs, current,
                   gens, busy, live, previous, issued, faults>>

\* A sync whose source under generations/ is gone stops.
WSourceGone ==
    /\ wpc \in {"sync", "copy"} /\ wtodo # {} /\ wgen \notin gens
    /\ WEnd("idle")
    /\ UNCHANGED <<staging, treeVars>>

WBeginRegion(r) ==
    /\ wpc = "sync" /\ r \in wtodo /\ wgen \in gens
    /\ SetDir(r, wgen, "partial")
    /\ wregion' = {r}
    /\ wpc' = "copy"
    /\ UNCHANGED <<wgen, wstage, wtodo, wold, wsnap, staging, current, gens,
                   busy, live, previous, pointer, issued, faults>>

\* Copy the files, write manifest.json and checksums.sha256, drop the marker.
WSeal(r) ==
    /\ wpc = "copy" /\ r \in wregion /\ wgen \in gens
    /\ SealDir(r, wgen)
    /\ wpc' = "verify"
    /\ UNCHANGED <<wgen, locals, staging, current, gens, busy, live, previous,
                   pointer, issued>>

\* verify_pack_dir(dst, "post-write-new").
WPostVerify(r) ==
    /\ wpc = "verify" /\ r \in wregion
    /\ \/ packs[r][wgen] = "good" /\ wpc' = "prune" /\ UNCHANGED <<wgen, locals>>
       \/ packs[r][wgen] # "good" /\ WEnd("failed")
    /\ UNCHANGED <<staging, treeVars>>

WPrune(r) ==
    /\ wpc = "prune" /\ r \in wregion
    /\ PruneStale(r)
    /\ wtodo' = wtodo \ {r}
    /\ wregion' = {}
    /\ wpc' = IF wtodo' = {} THEN "scan" ELSE "sync"
    /\ UNCHANGED <<wgen, wstage, wold, wsnap, staging, current, gens, busy,
                   live, previous, pointer, issued, faults>>

\* rebuild_current_json: walk the tree, then replace current.json.
WScan ==
    /\ wpc = "scan"
    /\ wsnap' = Catalog
    /\ wpc' = "replace"
    /\ UNCHANGED <<wgen, wstage, wtodo, wregion, wold, staging, treeVars>>

WReplace ==
    /\ wpc = "replace"
    /\ current' = wsnap
    /\ WEnd("idle")
    /\ UNCHANGED <<staging, packs, gens, busy, live, previous, pointer, issued,
                   faults>>

\* A crash, or any command failing under set -e: the run stops where it is.
WInterrupt ==
    /\ wpc \notin WIdle
    /\ Fault
    /\ WEnd("idle")
    /\ \/ wpc # "prune" /\ packs' = packs
       \/ wpc = "prune" /\ \E r \in wregion : PruneTorn(r)
    /\ UNCHANGED <<staging, current, gens, busy, live, previous, pointer, issued>>

WeeklyNext ==
    \/ \E regions \in SUBSET Region : WAssemble(regions)
    \/ WPreVerify
    \/ WPromote
    \/ WSwapLive
    \/ WSetPrevious
    \/ WSetPointer
    \/ WSourceGone
    \/ \E r \in Region : WBeginRegion(r)
    \/ \E r \in Region : WSeal(r)
    \/ \E r \in Region : WPostVerify(r)
    \/ \E r \in Region : WPrune(r)
    \/ WScan
    \/ WReplace
    \/ WInterrupt

=============================================================================
