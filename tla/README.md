# navi-server: TLA+ models, checks and proofs

navi-server turns OpenStreetMap extracts into routing packs and serves them as
static files. A bake is a pipeline of scripts and one Rust program,

    fetch extract -> convert -> validate -> publish -> scrub

run weekly for a configured set of regions, or over the whole planet region by
region. There is no daemon that owns the data: every guarantee comes from the
order in which short-lived processes touch files that several of them share.
The app embeds the same Rust crate: it loads packs, converts in the background,
plans over the extract where a pack is missing, and takes its place names from
a reduced extract. The models here are about that order, and about the places
where the same question is answered twice, from a pack and from the extract,
and the answers must agree.

All paths below are relative to `src/` of the repository.

## Inventory

| Part | Source | State it keeps | Operations |
|---|---|---|---|
| Published tree | `scripts/lib/published_tree.py`, `lib/common.sh`, `verify-published-checksums.sh` | `published/packs/<region>/<gen>/` with `manifest.json`, `checksums.sha256` and a `.publish_in_progress` marker; `current.json` | complete generations, newest, prune, rebuild the catalogue, verify one pack |
| Pack root | the same | `generations/<gen>/`, `.smoke_in_progress`, links `live` and `previous`, `CURRENT_GENERATION` | swapped by both publishers, pruned by the scrub |
| Weekly publisher | `scripts/publish-packs.sh` | the run's generation, the regions it still has to sync | assemble, verify, promote, swap links, sync each region, rebuild the catalogue |
| Planet and smoke publisher | `scripts/lib/publish-safe.sh`, `run-planet-leaves-batched.sh`, `run-planet-smoke*.sh` | one region and generation per worker, the flock `.publish.lock`, the record of finished regions | stage, finalize under the flock, swap, reap |
| Scrub | `scripts/cleanup.sh` | a list of doomed generations | retention of generations, of flat published directories, of held extracts, of leftovers |
| Extract fetch | `scripts/fetch-extracts.sh`, `fetch-incremental.sh`, `lib/fetch_http_classify.sh` | the held extract, its etag and last-modified, `.partial`, the time budget of the run | conditional request, dated fallback, retries with back-off and recovery probes, checksum, incremental update |
| Region convert | `pack-convert-core/src/routing/indexed/convert.rs`, `scripts/convert-region.sh`, `navi-indexed-convert` | archives of the region, checkpoint, manifest | scan, sweep, three phases that can be skipped, record, manifest, removal of a failed directory |
| Region lock | `pack-convert-core/src/routing/region_lock.rs` | a registry entry per process and a lock file with the owner's pid | acquire for a convert or a plan, recover a stale file, record the phase, drop |
| Orchestrators | `scripts/run-weekly.sh`, `run-planet-*.sh`, `stop-smoke.sh`, `watch-planet-leaves.sh` | state file, PAUSED and stop files, batch plan | order of the pipeline, pause, resume, worker pool |
| DEM caches | `scripts/prefetch-dem-bbox.py`, `lib/dem_*.py` | elevation cells, leases on them, the index of missing cells | lease, download, evict, refresh |
| Plan and download scheduling | `pack-convert-core/src/download/` | count of foreground plans, current and cancelled plan ids, bounding-box mutex, workers of the shared pool | begin, cancel and end a plan; scan blobs; indexers yield to plans |
| Pack formats | `pack-convert-core/src/routing/indexed/` | manifest and archives of a region | readiness, map, clip and merge tiles, write and read the POI archive |
| Graph builder | `pack-convert-core/src/routing/graph/` | spill files, coordinates, a graph per profile | pass 1 and 2, assign ways to tiles, build tiles in batches, weights, snap, search, recover paths |
| POI, safety, elevation | `pack-convert-core/src/poi`, `routing/safety`, `routing/indexed/poi_barrier_*.rs`, `routing/elevation` | none that outlives a call | extraction passes, scans along a corridor, where a stop or a night is allowed |
| Place source points | `place-source-points/src/lib.rs` | none that outlives a run | an extract reduced to one point per place |
| Mirror plugins | `plugins/` | mirrored files of their own | poll and publish |
| Installation, HTTP, systemd | `scripts/setup-server.sh`, `http/`, `systemd/` | configuration | timers that start the above |

How the parts meet:

- The weekly publisher, the planet workers and the scrub share the pack root
  and the published tree. Only the planet workers take `.publish.lock`; the
  weekly publisher and the scrub do not, and the scrub has a daily timer
  (`systemd/navi-pack-scrub.timer`) besides its call at the end of
  `run-weekly.sh`.
- All publishers write `current.json`, each by scanning the whole tree and
  replacing the file. Clients read only `current.json` and what it names.
- Fetch and convert share the extract; converts and the app's plan fallbacks
  share the region lock; converts share the directory they write, and the
  script around a convert removes it when the convert fails.

What is hard about them, and what makes each part correct:

- *Published tree.* A region once published stays published with good bytes,
  whatever is interrupted; the catalogue lists the newest complete generation
  at the time it was scanned and never sends clients back.
- *Publishers.* Gates that refuse a bad generation must refuse it before it is
  visible. Workers exclude each other, nobody starves at the flock, and a
  region recorded as done is published.
- *Scrub.* It may run between any two steps of a publisher and must spare what
  is live, what is kept for rollback and what is being written.
- *Fetch.* Retries end in bounded time; what a run accepts is current and
  verified, although validators, body and digest change one at a time at both
  ends.
- *Lock.* Two looks and two writes with nothing atomic across them: it must
  never stay taken by nobody, and whoever waits must be served.
- *Plans.* Plans overlap and are cancelled at any point, in sleep or on a shared
  worker: afterwards nothing of them may be left, nothing may wait for them, and
  what they loaded must be whole and of one extract.
- *Tiled build.* Ways are cut into tiles and put together again, coordinates are
  given back as early as possible and workers share one error: no way and no
  node may get lost on the way, and a plan across seams sees what the extract
  has.
- *Router.* Weights, avoidances, seasons, vehicles, barriers, wetlands and
  surface transitions meet in one search: its answer must be legal and
  cheapest, and snapping must not strand a waypoint.
- *Points of interest.* The archive and the scan answer the same questions.
- *Convert.* A kill at any moment leaves a checkpoint that tells the truth,
  and a manifest stands for a whole set of archives of one extract.

`PROJECT.json` lists every component with its status and every hazard with the
line where it bites and the properties that watch it.

## Modules

| Module | What it is |
|---|---|
| `PackTree` | the published tree and the pack root, with the operators of `published_tree.py` and the properties stated of the tree whoever writes it |
| `ClientCatalogue` | abstract specification: what an HTTP client may rely on |
| `WeeklyPublish` | `publish-packs.sh`, one action per step between two visible effects |
| `SafePublish` | `publish_single_region_safe` by any number of workers |
| `Scrub` | the generation retention of `cleanup.sh`, one removal at a time |
| `PublishSystem` | the three composed, with the modification times the scrub goes by |
| `Fetch` | `fetch_one` of one region in successive runs, and its provider |
| `RegionLock` | the lock's two stores and the steps of acquiring and releasing |
| `Convert` | `convert_region_packs` and `convert_one`, extending `RegionLock` |
| `WayGraph` | pure: which ways a profile admits, the links cut from them at junctions, and the graph a plan builds from the extract |
| `TiledBuild` | `build_tiled_from_pbf_profiles`: spill by workers, coordinates, tiles, batches, profiles; then `clip` and `merge_tile_graphs` as a plan loads them |
| `PackLoad` | readiness, manifest and mapping of a region's archives by plans, beside whoever writes the directory |
| `PlanPool` | plans, background convert, locks, foreground count, cancellation and the workers of the decoder pool, extending `PackLoad` |
| `WayTags` | pure: access, restrictions, tolls, speeds, surfaces and weights of a tagged way |
| `Router` | one route: build, snap, A* with polls of the cancel flag, delivery, extending `WayTags` |
| `PlacePoints` | the reduction of an extract to place points, and the app's place index over an extract |
| `PoiBarriers` | the two extraction passes, the archive, the scans a plan makes without one, and the decisions on stops and nights |
| `PublishProofs`, `FetchProofs`, `ConvertProofs`, `TiledProofs`, `PoolProofs`, `RouterProofs`, `PlaceProofs`, `PoiProofs` | theorems; `PublishProofs` has those of the planet workers, of all publishers together and of the weekly host, `ConvertProofs` of the lock and of the pack directory |
| `MCSafe`, `MCPublish`, `MCConvert`, `MCTiled`, `MCPool`, `MCRouter`, `MCPlaces`, `MCStops` | instances for TLC |

`WayGraph` is extended by `TiledBuild`, `PackLoad` by `PlanPool`, `WayTags` by
`Router`, `RegionLock` by `Convert`. `PublishSystem` composes the publishers.
`PackLoad` has its own small directory with a sweep and a rebuild, taken from
`convert.rs`, and `Convert` the full one: composing them multiplies states that
no property relates.

### From code to state

*Generations.* `generation_id` (`lib/common.sh:543-560`) makes ids that sort by
name; `Gen` is an interval of numbers and `IssueGen` hands out the next one.
`packs[r][g]` is `absent`; `partial` with a `.publish_in_progress` marker or
without a manifest; or complete, and then `good` or `bad` by whether the bytes
match `checksums.sha256`. That is all `complete_gens`, `prune` and
`verify_pack_dir` tell apart. `Stale` is `complete_gens(...)[1 + keep_prior:]`,
and `Catalog` what `rebuild_current_json` would write; scan and replacement are
two steps (`WScan`/`WReplace`, `SScan`/`SReplace`), because another process can
come between.

*Weekly publisher.* `wpc` is the line the script has reached. The set of
regions that validated is an input of `WAssemble`. Each gate (`WPreVerify`,
`WPostVerify`) either lets the run go on or ends it with `wpc = "failed"`.
`WInterrupt` ends a run anywhere: a kill, or a command failing under `set -e`.
An interrupted prune leaves any part of its work (`PruneTorn`), a half-removed
directory with or without its manifest included.

*Planet workers.* `lock` is the flock, dropped by the kernel when its holder
dies. The callers run the function under `set +e`, so a failing python step is
followed by the link swap and a return of 0 (`SPythonFails`, `SReap`): that is
the code, and `RegionOkUnlessFault` says how far a record of `region_ok` can be
trusted.

*Scrub.* `cleanup.sh` sorts by mtime and not by name: `later[g]` are the
generation directories modified after `g`; a directory is stamped when it is
made and when its marker is removed. `Flat` are the regions whose publish path
is one segment: the depth-two `find` of `cleanup.sh:126` matches their
published directories.

*Fetch.* A version number stands for an extract's contents. The provider
replaces the extract and then its `.md5`. A run walks through `fpc` with the
seconds since its start in `now`; validators are saved in a step before the
body is moved, the checksum is compared in a step after. Kills and damaged
bodies are counted in `faults`. The scrub's held-extract policy is `DropHeld`.

*Region lock.* `at[t]` says where task `t` is: it looks at the file and may
remove it as stale (`recover`, `reclaim`), looks at the registry of its own
process and then at the file, installs itself in the registry and then writes
the file. Release removes the file by path, then the registry entry. A killed
process takes its registry along and leaves the file. Recovering and releasing
also take the owner out of the checkpoint (`clear_checkpoint_owner_fields`):
`ClearOwner` reads it, `Open` cuts the file short and `Fill` writes what was read
into it (`draft[t]`), three steps in which anybody may be killed or come between.
A process that ended by itself keeps its pid among the living; only an owner mark
that its own `Drop` failed to clear could tell the difference.

*Convert.* `step[c]` is the position of converter `c`, `run[c]` what it holds
in memory; `files`, `ckpt` and `manifest` are on disk. Every archive carries the
version of the extract it was built from, which the code does not record: it
is what the properties compare. The three phases are entered through
`AskLock`/`Enter`; `SaveLoaded` and `Sweep` come before any lock is asked for,
as in `convert.rs:509-583`. `overlap` is a history variable, read by properties
and bounds only: a convert began while another one was at work. The graph phase builds the
tiles of two profiles in turn and collects the barriers of the car tiles in
memory (`inPoi`); tiles found on disk are left out, and a profile all of whose
tiles are left out is refused (`NothingProduced`, `bbox_build.rs:1010`). An error
ends the convert (`Fails`), but not where wetlands are read and encoded: there it
is logged, and the convert goes on with what is listed or with an empty archive
(`SkipWetland`, `convert.rs:1013-1095`; `lost` records it). A converter that fails
has its directory removed by the script one name after the other
(`StartRemoval`, `RemoveName`), and the script may be killed half way
(`ScriptKilled`): then a checkpoint may list archives that have gone. The removal
that a DEM gap causes before a converter starts (`convert-region.sh:142`) is not an
action of its own.

*Tiled build.* An extract `x` has positions, ways with a kind, one-ways, the
nodes that are `here` and barriers. Positions are numbers on a line and a tile
an interval: what the seams do to ways shows in one dimension. `Spill` is one
block read by one worker, with the way kept or not (`spill_keep_way`) and the
write failing or not into the shared error cell; `checks` are the looks at that
cell after each pass. `coords` are the coordinates in memory, `batch` the tiles
being built with what each took from them; `BuildTile` keeps those of the tiles
to come (`retain_coords_for_pending_tiles`) in the last profile only. `packs`
are the graphs in the archives, links with their two ends. Two assumptions
bound the inputs: `ExtractAssumption`, that the nodes in the file have a
position, and `GridAssumption`, that the tiles leave no gap in the boxes plans
are made in (`tile_grid`, `convert.rs:380-411`, divides the region's box). It
says nothing of nodes outside: `pbf_node_bbox` takes percentiles, and so a few
may lie beyond every tile.

*Plans and packs.* `manifest` and the archives carry the extract and the format
they are of; `load[p]` and `got[p]` are what a plan has mapped, tile by tile,
`stirred` (history) the plans during whose load the directory was written to.
`at[s]` is where a plan or the convert is, `region`, `bbox` and `foreground` the
lock file's owner, the bounding-box mutex and the counter of `pbf_priority.rs`,
`current` and `cancelled` the plan ids of `plan_cancel.rs`. A worker of the pool
holds a blob of one scanner, decoding or, for the convert, asleep while a plan is
in the foreground.

*Router.* A query has nodes on a line, tagged ways, node tags and wetlands, a
traveller and the options; weights are in centimetres and multiplied out, eco
weights in joules (490 a metre, 14710 a metre of climb, two fifths of that back
on the way down, and never less than one per cent above what the heuristic
counts). Edge `2w - 1` goes along way `w` and `2w` against it; `Travelled` are
those the profile may use. `QueryAssumption` says what an extract gives: ways
between nodes of the file, numbers for lengths and durations, and no way shorter
than the line between its ends, since lengths are sums of great circles. The
search keeps `seen` (cheapest way to a state, an edge in, as the code's states
carry the surface they came over) and `open`; ties are broken as the heap does
or not at all. A poll of the cancel flag comes every `PollEvery` expansions.

*Place points.* Nodes, ways and relations of an extract are functions from ids,
tags a sequence of pairs; made-up nodes and ways take falling negative numbers
as in the code. `way_jobs` and the route map are walked one by one in any order
(`todo`). `Places`, `CoreRows` and
`Areas` are the app's reading of a file, of which the reduction must not be
noticed. Coordinates are whole numbers of steps of the grid points are written on
(`{:.9}`, lib.rs:714, and osmium, which is external); the mean of a way is a
fraction (`Mean`), and its made-up node is at a nearest point of the grid
(`OnGrid`), either one when the mean is halfway. That the code's mean is itself
a float, and the second axis, are left out.

*Points of interest.* Coordinates are whole numbers of 50 m with a longitude
unit half as long as a latitude unit, as at 60 degrees north. Blobs are merged
in any order. `FlatPack` and `PlanFromPack` are the archive's masks and offsets;
`PlanFromScan` is the plan over the extract, its corridor filter with samples
every `Step` included.

## Runs

Runs that pass:

| Run | Instance | What it shows |
|---|---|---|
| `weekly_host` | 2 regions (symmetric), 5 generations, 2 faults, scrub keeps 2 | Successive weekly runs and the scrub at any moment: no interruption or corrupt copy loses a region's last good generation (`LastGoodSurvives`); the tree and catalogue implement `ClientCatalogue`; and until something fails, `live`, `previous` and every listed generation resolve. |
| `planet_faults` | 2 workers, 2 regions, 4 generations, 2 faults | The catalogue never regresses, in-flight generations are spared, `region_ok` is truthful and every staged region gets listed until something fails, and the catalogue refinement holds. |
| `all_publishers` | weekly publisher, 2 workers, scrub, 2 regions, 3 generations, 1 fault | However they interleave, no region with a nested publish path loses its last complete generation. |
| `fetch_retries` | 3 versions, 1 fault, budget 6 with back-off 2..4 | Every run ends, at most seven curls after its budget, and a run that reports "unchanged" holds the provider's version. |
| `region_convert` | 2 converters, one after the other or overlapping undisturbed, and 1 plan in 3 processes, 1 kill of a converter or of a script, 2 extracts, 2 profiles of one tile each; 1.5 million states | The lock never stays taken by nobody, whoever waits is served; no kill, half removed directory or rewriting of the checkpoint makes it lie, and a manifest stands for a whole set of archives, wetlands that were given up aside; a convert that built every tile and the POI archive itself leaves the barriers in it. |
| `tiled_build` | 144 extracts of 3 ways over 6 nodes, 3 tiles, 2 profiles, 2 workers, batches of 2 | Whatever worker reads what and whatever write fails: no way is lost, tiles are built with all their coordinates, packs hold only passages the extract has, a plan over packs has the short links of the whole graph across seams, and the build ends. |
| `app_plans` | 2 plans, 2 tiles, 1 worker, 1 blob, 2 extracts, 2 formats | However plans overlap and are cancelled: nothing is left of them, quiet loads are whole and current, cancelled plans come back and the convert gets its turn. |
| `route_plan` | 6 casts of tags on a diamond with a rung and parallel ways, a ladder, an island; 6 travellers | The answer is the cheapest route, open to the traveller throughout, or there is none; waypoints by the main network are not stranded; recovered paths agree. |
| `place_points` | 4 nodes, 3 ways, 7 sets of up to 4 relations, whole and cut off; means on the grid, off it and halfway | The reduced file has the places, rows and outlines of the whole one and nothing else, a collapsed way no further off than half a step of the grid. |
| `break_stops` | 8 nodes, 3 ways, 6 kinds of barrier, a corner in the route | Archive and scan give the same points, bar stops across what lies between, and allow the same nights on the route. |

Runs in which TLC refutes what the repository says of itself (the findings in
`PROJECT.json` quote the lines):

| Run | What happens |
|---|---|
| `plan_waits_for_convert` | A convert holds the region lock and sleeps while a plan is in the foreground; a pack-miss plan in the foreground waits for that lock. Neither moves until the plan is cancelled. |
| `resume_refused` | A convert killed after the last tile of a profile, with tiles of another still to build, is refused at each resume: the tiles left out are not counted, and the build bails with "tiled graph empty for profile". |

Bounds, and why they are enough. `MaxGen` bounds the generations ever issued: a
region needs three complete ones before anything is pruned (`KeepPrior = 1`)
and the scrub dooms a generation from the third on (`Keep = 2`), so 5 lets a
prune and a scrub follow a failed run and its repair; 4 lets two workers
publish two regions twice. `MaxFaults` counts crashes, failing commands and
corrupt copies; two let one fault hit the recovery from another. `MaxVersion =
3` lets a provider move on twice, between the halves of a fetch and between
runs; the budget of 6 with a back-off that starts at 2 and doubles lets several
rounds of sleep, probe and request happen before it is spent. `MaxPbf = 2` and
one kill let a convert resume, and resume over the remains of an older extract;
two tiles, one for each of two profiles, and two more archives suffice for a set
to be incomplete and for a profile to be finished before the other. `MaxKills`
counts killed converters and killed scripts together. `Overlaps` bounds the
converts that overlap. In `resume_refused` none do. In `region_convert` they do
"calmly": the second begins before the first archive is written, with nothing
killed and no plan at work, and from then on there is no kill, error or new
extract, so that the races of the two for the registry and the lock file are
explored by themselves, and so are the refusal of one and the removal of the
directory under the other. Overlaps at any time, with kills and plans beside them,
do not end in time under TLC; the theorems hold for every value of `Overlaps`, and
`LockNeverLeaks` is the one that speaks of overlapping converts.
Three tiles, the middle one narrower than a way, and six nodes let a way cross a
seam with a node in the pad, with none in a tile, and with a node missing from
the file; two batches per profile and two profiles are where coordinates could
be given back early. Two plans suffice to overlap; with one worker and one blob
each the pool is saturated as soon as anybody sleeps on it. Wherever a graph,
an extract or a map is an input, the instance lists casts chosen so that every
branch of the tag tables is taken and every property is sensitive: the mutants
in `PROJECT.json` show that. `CHECK_DEADLOCK
FALSE` is said where the bounds, or the end of all tasks, stop the system.
`Fetch` has no such end and is checked for deadlock.

Symmetry is used in safety runs only, and in `weekly_host` only because no
region is flat there.

Properties with a condition, and why it is there:

- `LinksResolve`, `CatalogResolves` and `RegionOkUnlessFault` are stated until
  the first fault. A run killed between the two link updates leaves the last
  good generation under neither `live` nor `previous`, and the next scrub may
  remove it; a pruned generation stays listed by a catalogue whose rebuild was
  killed. The code does not promise otherwise, and the properties that must
  survive faults (`LastGoodSurvives`, `RegionsSurvive`, `ImplementsCatalogue`)
  have no such condition.
- `UnchangedIsCurrent` is stated until the first fault: a kill between the
  saving of the validators and the move of the body makes the next 304 keep the
  old extract.
- `CheckpointHonest`, `ManifestIsWholeAlone` and `BarriersKeptUnlessResumed`
  exclude overlapping converts: those take each other's tiles and share the
  `.partial` names that archives are written under, which `Write` does not show,
  since it writes and renames in one step. The last one also excludes every
  resume that takes over a tile or the POI archive of an earlier run, and
  `ManifestIsWholeAlone` lets the wetlands be absent if their errors were
  swallowed; see "Seen while modelling".
- `QuietLoadIsCurrent` speaks of loads during which nobody wrote to the
  directory: nothing excludes a rebuild under a load, which then maps tiles of
  two extracts.
- `CancelledPlanEnds` excepts a pool all of whose workers sleep in blobs of the
  convert; they wake when no plan is in the foreground.
- `SeamsHold` speaks of links no longer than the pad around a tile and inside
  the plan's box.
- `NightAgrees` is stated of places near the route, `RecoveredRouteAgrees` of
  travellers whose surfaces do not count.
- `FerriesAreSlow` is a hypothesis of the theorem that routes are cheapest, and
  `MCRouter` assumes it, so TLC evaluates it on the queries of `route_plan`; see
  "Seen while modelling".
- `PlacesKept` allows a collapsed way to stand half a step of the grid from the
  mean of its nodes: a node cannot hold the mean itself, as the comment at
  lib.rs:462-464 says; with `PLACE_SOURCE_KEEP_VERTICES`, and for nodes, routes and
  outlines, positions are the same.
- `AreasAreNoRoutes` is a hypothesis of the theorems on outlines and places; it
  holds of the extracts of `place_points`, and both properties fail without it;
  see "Seen while modelling". `RowsKept` speaks of extracts of which nothing is
  missing (`Whole`): a named way without any of its nodes is left out.

Type invariants: `PublishSystem`'s is checked in `all_publishers` and proved;
those of `Fetch`, `Convert`, `SafePublish`, `TiledBuild`, `PlanPool`, `Router`,
`PlacePoints` and `PoiBarriers` are proved and not checked again.

### Seen while modelling

What the models showed of the code beside the two runs above. The first
contradicts a document, the header of the script; it has no run of its own,
since what happens can be read off two lines. The others contradict none plainly:

- `publish-packs.sh:428`: the post-write gate aborts with `live` and
  `CURRENT_GENERATION` already moved to the generation it rejects. The header
  says (5-9): "After writing the new HTTP gen, re-verifies that too. On
  CHECKSUM_REVERIFY=FAIL: abort, delete nothing, leave
  live/previous/CURRENT_GENERATION untouched." That holds of the gate before the
  swap (`WPreVerify`), not of this one (`WPostVerify`).
- `cleanup.sh:126`: the published directory of a one-segment region that was
  not re-baked for `Keep` generations is removed, its only one.
- `publish-packs.sh:435`: the weekly rebuild of `current.json` takes no flock
  and may write a scan older than a worker's.
- `publish-safe.sh:55`: a failing python finalize under `set +e` is recorded as
  `region_ok` with nothing published.
- `fetch-extracts.sh:279`: after a checksum mismatch the bad extract stays with
  validators that match the provider's, and the next 304 keeps it.
- `convert.rs:580`: a second convert removes, before it asks for the lock, tiles
  that the first has finished; the first then writes its manifest over an
  incomplete set. `convert-region.sh:170` removes the whole directory.
- `convert.rs:890`: a convert that leaves out tiles or whole graphs already on
  disk lacks the motorway and trunk barriers that the earlier run had collected
  of them in memory, and so does the POI archive.
- `convert.rs:1013-1095`: a wetland error is swallowed, and the region is
  published with an empty wetland archive; if a directory half removed by a killed
  script is resumed, its manifest may name wetland tiles that have gone.
- `load.rs:221`: `merge_tile_graphs` does not carry `access_blocked_nodes` over,
  so a plan over several tiles passes gates a plan over the extract does not.
- `builder.rs:1654`: foot is "treated as bidirectional when allowed at all";
  graphs cut from ways by `bbox_build.rs` honour one-ways on foot too.
- `poi_barrier_extract.rs:63` bars rivers and canals, `barriers.rs:275` also
  tidal channels and fairways: the archive offers stops the scan refuses. The
  scan in turn drops barriers without a node in its box.
- `corridor_band.rs:76` picks the nearest sample by degrees: at 60 degrees north
  a place within the margin may be refused. `PoiIndex::nearest` divides metres
  of longitude by 111000 likewise.
- `poi/index.rs:313`: the scan along a corridor takes buildings of a single node
  and the mean of the nodes inside the envelope; the archive asks for two nodes
  and takes the mean of all it knows.
- `builder.rs:1441`: a ferry with a tagged duration is weighed by that alone, so
  one tagged 0 is free on foot or by bicycle, and cheaper than the tenth of the
  distance that the heuristic counts for it: a search then stops at a route that
  is not the cheapest. The driver's fixed ten minutes of boarding cover it.
- `builder.rs:785`: a poll of the cancel flag drops one expansion; the check at
  829 keeps the result from being used.
- `place-source-points/src/lib.rs`: a superroute whose children hold only
  relations, or whose first way is cut off, drops out of the place index. An
  administrative boundary that is a named route as well comes out twice under one
  id (555 and 596), with its outline and with its made-up way; a reader then finds
  it at a second place, or an area with a made-up outline.
- `wetland.rs:286`: a ring is given only to tiles that hold one of its vertices.
- Ferry boarding thresholds are computed per tile (`bbox_build.rs:1061`).

## Fairness

Safety needs none. Where liveness is checked:

- `SafeFairSpec`: weak fairness of each worker's own step. A worker that has
  staged its region is a running process; the flock is blocking, its holder's
  finalize is finite, and a planet run publishes finitely many regions, so a
  waiter is granted the lock eventually. Nothing makes a worker start or crash.
- `Fetch!FairSpec`: weak fairness of the run's steps taken together. Sleeps
  end by themselves. Each curl ends within `MaxRequest`, which is an assumption
  for the one that downloads: the code gives it a connect timeout and no
  `--max-time` (`fetch-extracts.sh:120-129`). Those of the probes and of the
  look-up of the dated sibling have one, of 60 to 120 seconds.
- `ConvertFairSpec`: weak fairness of each task's steps in the lock, of each
  converter, and of a plan giving its lock back. The acquiring loops poll every
  50 ms and have no bound; a plan that owns the region works
  for a finite time. Failures, kills and cancellation are never forced.

- `BuildSpec`: weak fairness of each worker's steps and of the build's own. It
  is one call; blocks of a file and tiles are finite, and workers return.
- `PoolFairSpec`: weak fairness of each plan's steps, of each worker's and of
  the convert's. Sleeps poll every 20 or 50 ms. Nothing makes a plan begin, a host
  cancel, an extract change or the app restart.
- `RouterSpec`: weak fairness of the search's steps: a loop in one thread.

## Theorems

Proved by TLAPS for every value of the constants that satisfies the named
assumptions of the modules, which TLC evaluates in the runs: `MaxGenAssumption`,
`KeepPriorAssumption`, `MaxFaultsAssumption` (numbers), `FreeAssumption` (a free
flock has no worker), `KeepAssumption` (`cleanup.sh` dies when asked to keep
fewer than two), `FlatAssumption`, `FetchAssumption`,
`LockAssumption`, `ConvertAssumption`, `TiledAssumption`, `ExtractAssumption`,
`GridAssumption`, `LoadAssumption`, `PoolAssumption`, `RouterAssumption`,
`QueryAssumption`, `SceneAssumption` (an extract is finite, its blobs hold what is
in it, its places are on the grid), `LatUnitAssumption`. A theorem that needs more says so in an `ASSUME` of its own.

**Planet publishers** (`PublishProofs`, first part). The invariant is `SafeInv`:
every variable in its type; ids not handed out have left no trace (`Unissued`);
a worker has an id of its own and holds the flock where the code holds it
(`Owned`); nothing complete carries the id of a worker that has yet to seal it
(`Unsealed`); a catalogue about to be written is still what a scan would give,
and the one on disk is not ahead of the tree (`Listing`). None of the
properties is inductive alone: that the catalogue never regresses needs the
scan to be current when it is written, which needs the flock to exclude other
writers between scan and write, which needs `Owned`. From it follow

- `SafeTypeCorrect` and `SafeInvariant`;
- `SafeRegionsSurvive`: a step that removes generations removes stale ones, and
  the newest complete one is never stale (`NewestIsNotStale`), nor ever begun
  again, since a begun id is unsealed;
- `SafeCatalogNeverRegresses`: steps keep the newest generation of each region
  or replace it by a newer one (`NewestMonotone`, `StepKeepsNewest`), so a
  current scan is never behind the catalogue;
- `SafeImplementsCatalogue`: each step is a `Publish`, a `Retire`, a `Refresh`
  or a stutter of `ClientCatalogue`;
- `SafeRegionOkUnlessFault`: with `OkInv`, which follows a worker from its seal
  (`Sealed`) to its record: until a first fault what it has sealed stays whole
  until it is listed, and what is listed under the flock is not older;
- `SafeInFlightSurvives`: a generation with a marker is nobody's to remove
  (`Marked`).

**All publishers** (`PublishProofs`). `SystemInv` extends the above by the
weekly run: its id is none of a worker's (`WeeklyOwned`), it copies one region at
a time and has put nothing in those still to come (`WeeklyUntouched`). So its
id is never stale by its own doing, and with `Flat = {}` (no region published
under one segment) `SystemRegionsSurvive` holds of any interleaving of weekly
runs, workers, scrub and crashes. `SystemTypeOK` comes
with it; that the order by modification time stays one (`StampType`) is part of
it.

**Weekly host** (`PublishProofs`): weekly runs and the scrub. `LinkInv` bounds
what the scrub may take: ids are handed out in order and modified in order
(`HostIds`), so the scrub's two newest are the run's own and the one `live`
points to, and between the two swaps the one that `previous` is about to point
to (`LinksHeld`). `HostInv` adds what the run has found out of its own copy
(`HostCopied`) and that the catalogue lists the newest generation, the run's own
aside (`CatalogTrails`). From them

- `WeeklyLinksResolve`: until something fails no link ever dangles;
- `WeeklyLastGoodSurvives`: the run prunes only behind a copy it found good, and
  that copy is the newest and so not stale;
- `WeeklyCatalogResolves` and `WeeklyCatalogNeverRegresses`;
- `WeeklyImplementsCatalogue`: each step of a host is a step of
  `ClientCatalogue` or a stutter.

All but the first are stated for `Flat = {}`, the catalogue's resolving also
for `KeepPrior # 0`. TLC shows that neither can be left out: with a flat region
the scrub removes its only published generation, and with no prior generation
kept a run prunes what the catalogue lists before it writes the new one.

**Fetch** (`FetchProofs`): `FetchBudgetRespected`. `ClockInv` bounds the clock at each
point of a run: a probe, which is a HEAD and may be a ranged GET as well
(`fetch_http_classify.sh:104,115`), starts before the deadline and leads to one
request, that to one look-up of the dated sibling, which asks up to three URLs
(`fetch-extracts.sh:70,78,79`), and that to one more request, so the overrun is
at most seven curls, whatever budget, back-off and interval. The requests for
the `.md5` and the `.poly` that follow a download are outside the budget and
outside this bound.
`FetchUnchangedIsCurrent`: until a first fault the saved validators are never
newer than the held extract, except between their saving and the move, and
neither is newer than the provider (`Abreast`); a 304 then leaves no room
between the two. `FetchTypeCorrect` comes with the same invariant.

**Region lock** (`ConvertProofs`): `LockNeverLeaks`. `NothingLeaks` speaks of
the moments in which nobody owns the lock. `LockInv` names an owner at every
moment: a lock file with a living pid is that of a task that holds the lock or is
about to remove the file (`HeldFile`), a registry entry that of a task of its
process and kind on its way in or out (`HeldEntry`). The
proof does not assume that owners exclude each other, and they do not.

**Pack directory** (`ConvertProofs`, on top of the lock):
`CheckpointIsHonest`, `ManifestIsWhole`, `BarriersAreKept`,
`ConvertTypeCorrect`. None is inductive: a checkpoint is honest because whatever
may yet be written over it is, and a manifest is whole because every archive is
either listed by such a checkpoint and there or written by this very convert.
`DirInv` has

- `Memory`: what a running convert has to do and has written in each phase;
- `Truth`: the checkpoint on disk, every converter's copy of it and every text
  that somebody is about to write back are `Sound`: the archives they list are of
  the present extract or gone, if they are of that extract at all. Texts may be
  older than the directory, so that none need equal another; each is sound by
  itself, and stays so because a file only goes or becomes one of the present
  extract. This part holds of overlapping converts as well;
- `Alone`, as long as converts do not overlap: one at most is at work, the phases
  it has passed have left their archives in place (`WholeOf`), and if it built the
  tiles and the POI archive itself the barriers are in that (`BarrierOf`).

**Tiled build** (`TiledProofs`): `BuildLosesNoWay`, `BuildCoordsSuffice`,
`BuildTypeCorrect` from `BuildInv`. `Spilled`: what is spilled so far and what is
still in unread blocks make up what is wanted, unless the error cell is set or
an error was taken. `Located`: coordinates are whole outside the last profile,
and in it cover the tiles still pending.
`BuildPacksAreSound` and `BuildSeamsHold` from `PackInv`: the pack of a tile that
has had its turn holds every link cut from the ways that touch the padded tile
(`Complete`). A short link starts in some tile of the plan's box
(`GridAssumption`), its end is in that tile's pad, so all ways through either
end are among that tile's, and the junctions, which depend on how many ways
meet, are those of the extract: the tile cuts the same link.

**Plans** (`PoolProofs`): `EndedPlansLeaveNothing`, `PoolLoadsAreCurrent`,
`PoolTypeCorrect`. `PoolInv` ties each plan's place to what it owns (`PlanPlaces`,
`Blobbed`, `Counted`), the convert's likewise (`ConvertPlace`), and says what a
manifest of the present extract promises of the archives beside it (`Directory`)
and what a load that was not disturbed has mapped so far (`Loads`).

**Router** (`RouterProofs`): `RoutesAreDrivable`, `RoutesAreCheapest`,
`RoadsidesAreRouted`, `RecoveredRoutesAgree`, `RouterTypeCorrect`, for any map, tags and options, from
`RouterInv`:

- the edges are sound, each along a way open to the profile in its direction
  (`Sound`), and off hard wetland once prepared (`Clear`);
- what is known of a search state is a predecessor and a cost that covers the
  predecessor's and the step's (`Reached`); going back ends at the start
  (`Founded`). Costs need not fall on the way back, because a ferry may cost
  nothing; it is the order of discovery that is founded, and therefore the trail
  from a state is finite, a chain of edges, and repeats none (`TrailLeads`,
  `TrailRepeatsNothing`);
- every known state is listed in the heap at its cost or has all that follows it
  known (`Searching`), until a cancel; so an emptied heap means that the known
  states are closed under steps, and a component with both waypoints in it
  cannot end in "no route" (`ExploredCoversComponent`).

That a route is cheapest is the argument of A*: along any other route some state
is listed with a cost not above that route's (`GoalIsCheapest`), and the
heuristic does not exceed what remains, because no edge costs less than a tenth
of the line it covers (`AllDear`, from what the tag tables, avoidances, wetland,
eco and surface factors do to a weight). `GoalCosts` relaxes all edges as often
as there are edges; that this is enough (`LeastCostsAreLeast`, `RouteIsShort`) is
a counting of the edges of a trail that repeats none. That the edges guessed from
a route's nodes agree with it rests on the same: they too lead to the goal and
none is heavier than the route's, so a difference would make a cheaper route
(`LighterCostsLess`). Both theorems assume `FerriesAreSlow`: TLC refutes the first
without (see "Seen while modelling").

**Place points** (`PlaceProofs`): `OnlyPointsAreLeft`, `EveryRowIsKept`,
`OutlinesAreKept`, `EveryPlaceIsKept`, `PlaceTypeCorrect`, for any extracts, from
`PlaceInv`. The properties compare the file that is written with the one that was
read, and say nothing of the passes between; the invariant follows them:

- `FoundOK`: what each pass has collected, exactly, and that `needed` has the nodes
  of every outline, standalone area and named way and the first nodes of routes;
- `MadeOf`: every node is one of the extract, a bare vertex where an outline runs
  (or vertices are kept), or made up; every way is whole with all the nodes the
  extract has of it (`WholeWay`), or one made-up node near the mean of a named way
  (`PointWay`), or a route's (`RouteWay`); a made-up node has one way, and numbers
  from `nextStub` down are free, so nothing made up meets an id of the extract;
- `WaysMade`, `RelsMade`: what has come out by now, whatever the order in which jobs
  and routes are taken.

A whole way has the nodes the extract has (`WholeNodes`), so its shape and mean are
the same (`MeanAgrees`); the mean of one node is where it is (`MeanOfOne`), so a
collapsed way stands at the point of the grid it was rounded to (`OnGridIs`,
`PointPlace`); a route begins in at most one
place, the one its made-up node gets (`OneBegin`, `RoutesStand`). What `Those` and
`Mean` return is shown for every sequence (`ThoseAre`, `ThoseAll`, `MeanIs`). An area
that is a named route is excluded for the last two (`AreasAreNoRoutes`).

**Points of interest** (`PoiProofs`): `RecordsAlwaysSurvive`, `AccessIsAlwaysBarred`,
`PackNightsAgree`, `PoiTypeCorrect`, for any extracts in any number of blobs, from
`PoiInv`. What a pass has is what the blobs merged so far hold, a function of their
union (`Pass1OK`, `Pass2OK`), so the order of the merges leaves no trace; the archive
is made of all of it (`PackOK`), though it knows only the coordinates the ways asked
for (`KnownLine`); and a plan is one of two values that the extract alone decides
(`PlanOK`). A property of plans is then a property of these two values. Two lines of
argument remain:

- *The archive.* Lists that lie end to end come apart at their offsets, empty ones
  included (`UnflatIs`); no category is lost in its mask nor comes back from another's
  bit (`UnmaskIs`); tags come back from their pairs (`TagsComeBack`): so records
  (`RecordsComeBack`), rings and buildings do (`PackIs`).
- *The geometry.* `segments_intersect` decides by the signs of four turns and, where
  a turn is nought, by boxes. `MeetingIsSharing` says that this is right of any four
  places: it holds unless an axis along or across one of the segments, or of the grid,
  has them on different sides. One way, the common point divides both segments
  in proportions the turns give, so it lies between the ends of each along every axis
  (`Crossing`, `CommonPoint`, `OnIsAmid`). The other way, segments no such axis parts
  cross, or one end lies on the other segment (`CrossingTouches`), or they lie in one
  line (`OneLineTouches`) or are single places (`PlaceTouches`). Coordinates are whole
  numbers, where the code has floating-point ones and rounds.

The induction in these arguments is over numbers: a set of numbers that is not
empty has a least (`LeastExists`, from the well-foundedness of `<`), and a
function is defined by its value at 0 and its next (`NatRecursion`).

Only model-checked: `NightAgrees` of `PoiBarriers`. Of a plan of the archive
`PackNightsAgree` proves the like for any extract. Of a scan it is no theorem: a
scan drops a glacier without a node in its box, and places a building by the nodes
inside its envelope, so an extract with a night inside such a glacier, or beside
the only near node of a long building, gets two answers. That the extracts of
`break_stops` do not, for places on the route, is what TLC checks. And all liveness
(`StagedGetsListed`, `RunsEnd`, `WaitersServed`, `BuildEnds`, `CancelledPlanEnds`,
`ConvertFinishes`, `PlanEnds`), which needs ENABLED and is out of the reach of these
proofs.

## Not modelled

- Byte layouts and encodings, elevation and its cells, instructions, ferry
  boarding links, gap filling between islands, wetland tiles' rings, icons,
  ranking, percentile bounds of a region.
- Two dimensions in the tiled build: tiles are intervals, so a way that cuts a
  corner between tiles is not represented.
- Validation: which regions pass `validate-packs.sh` is an input.
- Half-written `current.json.partial` of two concurrent rebuilds, a sync that
  copies from a directory while a reap is removing it, the reap of the rollback
  target by a planet worker, generation ids issued within one second, reuse of
  a pid, an extract replaced under a running convert or between pass 1 and 2 of
  a build, a curl that stalls for ever, a mapped archive truncated in place.
- `.poly` files, `--force`, the choice of replication sequence, staging
  leftovers, logs, DEM-missing skips of a convert.
- Orchestrators (batch plan, pause, stop, quota, worker slots), DEM caches,
  plugins, Geofabrik tables, installation: other processes around the modelled
  ones; the publishers take from them only the order of validation and publish.

## Plan

Done, in this order: the published tree and its publishers; fetch, lock and
convert; proofs of the planet publishers, the fetch and the lock; the tiled
build and the load of its packs; plans and the decoder pool; the router; place
points; points of interest and barriers; proofs of the pack directory, the
tiled build and the plans; proofs of all publishers together, of the weekly
host, of packs and seams, of the router and of place points; proofs of points of
interest and barriers.

Left, the most important first:

1. `PlanetLeaves`: the batched orchestrator with pause, stop and resume over
   abstract fetch, convert and publish.
2. `DemCache`: leases, eviction, the index of missing cells with and without
   its lock.
3. The mirror plugins' poll and publish.
4. Proofs: `NightAgrees` of a scan, from conditions on an extract that exclude what
   is listed above, once it is known which of them real extracts meet.

## Running

    tlc -config weekly_host.cfg MCPublish
    tlapm PublishProofs.tla

Every run is listed with its module and configuration in `PROJECT.json`.
