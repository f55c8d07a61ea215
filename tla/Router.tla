------------------------------- MODULE Router -------------------------------
(***************************************************************************)
(* A plan on one graph (builder.rs, surface_quality.rs): the edges are     *)
(* made from the tagged ways, hazards and preferences change or remove     *)
(* them, two waypoints are snapped, A* searches, and the route is read off *)
(* the edges it recorded.  A query q fixes the map and what is asked:      *)
(*   pos[n]    metres along the axis that stands for latitude, longitude   *)
(*   ways      [a, b, len, dh, tags]: a stretch, its length and its climb  *)
(*   nodeTags  tags of some nodes                                          *)
(*   wet       wetland polygons [lo, hi, hard]                             *)
(*   from, to  the waypoints; traveller; opt, see WayTags; offroad, eco;   *)
(*   cap       the bicycle's capability; plan: the host may cancel         *)
(***************************************************************************)
EXTENDS WayTags

CONSTANTS
  Queries,   \* the queries asked
  PollEvery, \* expansions between two looks at the cancel flag (2048)
  None

ASSUME RouterAssumption == PollEvery \in Nat \ {0}

\* Positions, lengths, climbs and durations are numbers, ways lie between nodes
\* and are no shorter than the line from one to the other, and the travellers
\* are those there are.
ASSUME QueryAssumption ==
  \A x \in Queries :
    /\ \A n \in DOMAIN x.pos : x.pos[n] \in Int
    /\ x.from \in Int /\ x.to \in Int
    /\ x.ways \in Seq(Range(x.ways))
    /\ \A w \in DOMAIN x.ways :
         LET way == x.ways[w] IN
         /\ way.a \in DOMAIN x.pos /\ way.b \in DOMAIN x.pos
         /\ way.len \in Nat /\ way.dh \in Int
         /\ x.pos[way.a] - x.pos[way.b] \in (- way.len) .. way.len
         /\ Has(way.tags, "duration") => way.tags.duration \in Nat
    /\ \A w \in x.wet : w.lo \in Int /\ w.hi \in Int
    /\ x.traveller \in Travellers

VARIABLES
  q,         \* the query
  phase,     \* "build", "prepare", "snap", "search", "found", "done"
  edges,     \* edges[i]: [src, dst, way, dh, base, eco], i a number of EdgeOf
  start, goal, \* the nodes the waypoints snapped to
  open,      \* the heap: entries [f, cost, at]
  seen,      \* seen[s]: [cost, via], the best way known to search state s
  polls,     \* expansions, counted modulo PollEvery
  cancelled,
  answer     \* is: "pending", "too far", "cancelled", "no route" or "route"

routerVars == <<q, phase, edges, start, goal, open, seen, polls, cancelled, answer>>

p == RoutingProfile(q.traveller)
Nodes == DOMAIN q.pos
Tags(e) == q.ways[e.way].tags
Len1(e) == q.ways[e.way].len
Apart(x, y) == IF x < y THEN y - x ELSE x - y

\* Surface classes count on roads only, unless the traveller goes off road.
SurfaceCounts == ~ q.offroad /\ Motor(p)

-----------------------------------------------------------------------------
(* The graph *)

\* graph_from_raw_ways: an edge in each direction the way may be travelled, in
\* the order of the ways: 2w - 1 goes along way w and 2w against it.  An
\* archive on disk, and an edge made from ways, has no weight of its own for
\* eco plans; base serves there.
WayOf(i) == (i + 1) \div 2
Along(i) == i = 2 * WayOf(i) - 1

EdgeOf(i) ==
  LET way == q.ways[WayOf(i)]
      weight == BaseWeight(p, way.tags, way.len)
  IN  [src |-> IF Along(i) THEN way.a ELSE way.b, dst |-> IF Along(i) THEN way.b ELSE way.a,
       way |-> WayOf(i), dh |-> IF Along(i) THEN way.dh ELSE - way.dh,
       base |-> weight, eco |-> weight]

Travelled ==
  {i \in 1 .. 2 * Len(q.ways) :
     LET tags == q.ways[WayOf(i)].tags IN
     Included(p, tags, FALSE) /\ (OneWay(tags) => Along(i))}

\* A wetland is looked up at the middle of the chord; hard outranks soft.
Within(e, w) == LET mid == q.pos[e.src] + q.pos[e.dst] IN 2 * w.lo <= mid /\ mid <= 2 * w.hi
WetAt(e) ==
  LET here == {w \in q.wet : Within(e, w)}
  IN  IF \E w \in here : w.hard THEN "hard" ELSE IF here # {} THEN "soft" ELSE "dry"

Boardwalk(tags) == Is(tags, "bridge", {"boardwalk"}) \/ Is(tags, "surface", {"wood"})

\* n * num \div den, without a large product.
Share(n, num, den) == (n \div den) * num + ((n % den) * num) \div den
Scaled(e, num, den) == [e EXCEPT !.base = Share(@, num, den), !.eco = Share(@, num, den)]

\* reweight_graph_for_eco
Energised(es) == [i \in DOMAIN es |-> [es[i] EXCEPT !.eco = EcoWeight(Len1(es[i]), es[i].dh)]]

\* apply_wetland_hazards: hard wetland only on boardwalks, soft at five times
\* the cost.
OutOfWetlands(es) ==
  [i \in {j \in DOMAIN es : WetAt(es[j]) # "hard" \/ Boardwalk(Tags(es[j]))} |->
     IF WetAt(es[i]) = "soft" THEN Scaled(es[i], 5, 1) ELSE es[i]]

\* apply_bike_suitability
Rideable(es) ==
  [i \in {j \in DOMAIN es : p = "bicycle" => ~ Unsuitable(q.cap, Tags(es[j]))} |-> es[i]]

\* apply_surface_preference
Preferred(es) ==
  IF ~ SurfaceCounts THEN es
  ELSE [i \in DOMAIN es |->
          LET t == Tags(es[i]) IN
          Scaled(es[i], SurfaceTenths(q.traveller, Surface(t)) * UnpostedHundredths(q.traveller, t),
                 1000)]

Blocked == {n \in DOMAIN q.nodeTags : BarrierForbids(p, q.nodeTags[n])}

-----------------------------------------------------------------------------
(* Snapping *)

Linked == UNION {{edges[i].src, edges[i].dst} : i \in DOMAIN edges}

\* recompute_weak_components: the nodes joined to n, whatever the direction.
Component(n) ==
  LET closed(ns) == \A i \in DOMAIN edges : edges[i].src \in ns <=> edges[i].dst \in ns
  IN  {m \in Nodes : \A ns \in SUBSET Nodes : closed(ns) /\ n \in ns => m \in ns}

\* The largest components; of several the order of a hash map decides.
Giants == LET cs == {Component(n) : n \in Linked} IN
          {c \in cs : \A d \in cs : Cardinality(d) <= Cardinality(c)}

\* The worst surface a node sees, if surfaces count.
WorstAt(n) ==
  IF ~ SurfaceCounts THEN Good
  ELSE Max({Good} \cup {Surface(Tags(edges[i])) :
                          i \in {j \in DOMAIN edges : n \in {edges[j].src, edges[j].dst}}})

\* Of ns, those nearest to x, after the best surfaces.
Best(ns, x) ==
  LET rank(n) == WorstAt(n) * 1000000 + Apart(q.pos[n], x)
  IN  {n \in ns : \A m \in ns : rank(n) <= rank(m)}
Nearest(ns, x) == {n \in ns : \A m \in ns : Apart(q.pos[n], x) <= Apart(q.pos[m], x)}

\* Mutant of SnapsTo: the nearest node, whatever it is joined to.
SnapsToNearest(x, giant) ==
  LET pool == IF Linked = {} THEN Nodes ELSE Linked
  IN  Nearest(pool, x) \cap {n \in pool : Apart(q.pos[n], x) <= MaxSnap(p)}

\* nearest_routable: the nodes x may snap to when giant is the giant
\* component; none when the nearest is out of reach.
SnapsTo(x, giant) ==
  LET pool == IF Linked = {} THEN Nodes ELSE Linked
      reach == {n \in pool : Apart(q.pos[n], x) <= MaxSnap(p)}
      inGiant == {n \in reach : giant = {} \/ n \in giant}
  IN  IF inGiant # {} THEN Best(inGiant, x) ELSE Nearest(pool, x) \cap reach

-----------------------------------------------------------------------------
(* The search.  Search states are the edges taken last, 0 at the start: an
   edge fixes the node and the surface the search is on. *)

At(s) == IF s = 0 THEN start ELSE edges[s].dst

\* Every route starts as if it came from a paved road.
SurfaceAt(s) == IF s = 0 THEN Good ELSE Surface(Tags(edges[s]))

Weight(e) == IF q.eco THEN e.eco ELSE e.base

StepCost(s, i) ==
  Weight(edges[i]) + (IF SurfaceCounts THEN Transition(SurfaceAt(s), Surface(Tags(edges[i]))) ELSE 0)

\* Mutant of H: the whole distance, which soft-cost edges may undercut.
HFull(n) == Apart(q.pos[n], q.pos[goal]) * 200

\* A tenth of the distance, in the unit of the costs.
H(n) == Apart(q.pos[n], q.pos[goal]) * 10

\* A barrier ends a route, unless it starts there.
Passable(n) == n \notin Blocked \/ n = start

\* Mutant of Successors: the barrier nodes are forgotten.
SuccessorsUnbarred(s) ==
  {i \in DOMAIN edges : edges[i].src = At(s) /\ AllowedForOptions(p, Tags(edges[i]), q.opt)}

Successors(s) ==
  IF ~ Passable(At(s)) THEN {}
  ELSE {i \in DOMAIN edges : edges[i].src = At(s) /\ AllowedForOptions(p, Tags(edges[i]), q.opt)}

\* A better way to a state replaces the one known and is looked at again.
Improves(i, cost) == i \notin DOMAIN seen \/ cost < seen[i].cost

\* The edges from the start to search state s.
Trail[s \in DOMAIN seen] == IF s = 0 THEN << >> ELSE Append(Trail[seen[s].via], s)

Bare(kind) == [is |-> kind, edges |-> << >>, cost |-> 0]

RouterInit ==
  /\ q \in Queries
  /\ phase = "build"
  /\ edges = << >> /\ start = None /\ goal = None
  /\ open = {} /\ seen = << >> /\ polls = 0
  /\ cancelled = FALSE
  /\ answer = Bare("pending")

MakeEdges ==
  /\ phase = "build"
  /\ phase' = "prepare"
  /\ edges' = [i \in Travelled |-> EdgeOf(i)]
  /\ UNCHANGED <<q, start, goal, open, seen, polls, cancelled, answer>>

\* Energy first, then what is taken out, then what is made dearer.
Prepare ==
  /\ phase = "prepare"
  /\ phase' = "snap"
  /\ edges' = Preferred(Rideable(OutOfWetlands(IF q.eco THEN Energised(edges) ELSE edges)))
  /\ UNCHANGED <<q, start, goal, open, seen, polls, cancelled, answer>>

\* Mutant of Snap: a waypoint out of reach is not reported.
SnapOrStay ==
  /\ phase = "snap"
  /\ \E giant \in IF Linked = {} THEN {{}} ELSE Giants :
       /\ start' \in SnapsTo(q.from, giant) /\ goal' \in SnapsTo(q.to, giant)
       /\ phase' = "search"
       /\ open' = {[f |-> 0, cost |-> 0, at |-> 0]}
       /\ seen' = [s \in {0} |-> [cost |-> 0, via |-> 0]]
  /\ UNCHANGED <<q, edges, polls, cancelled, answer>>

Snap ==
  /\ phase = "snap"
  /\ \E giant \in IF Linked = {} THEN {{}} ELSE Giants :
       LET a == SnapsTo(q.from, giant)
           b == SnapsTo(q.to, giant)
       IN  \/ /\ a # {} /\ b # {}
              /\ start' \in a /\ goal' \in b
              /\ phase' = "search"
              /\ open' = {[f |-> 0, cost |-> 0, at |-> 0]}
              /\ seen' = [s \in {0} |-> [cost |-> 0, via |-> 0]]
              /\ UNCHANGED answer
           \/ /\ a = {} \/ b = {}
              /\ phase' = "done" /\ answer' = Bare("too far")
              /\ UNCHANGED <<start, goal, open, seen>>
  /\ UNCHANGED <<q, edges, polls, cancelled>>

Least(o) == o \in open /\ \A r \in open : o.f <= r.f

\* A pop that ends the search.
Reach(o) ==
  /\ phase = "search" /\ Least(o) /\ At(o.at) = goal
  /\ phase' = "found"
  /\ answer' = [is |-> "route", edges |-> Trail[o.at], cost |-> o.cost]
  /\ UNCHANGED <<q, edges, start, goal, open, seen, polls, cancelled>>

\* A pop of an entry that a better one has overtaken.
Overtaken(o) ==
  /\ phase = "search" /\ Least(o) /\ At(o.at) # goal /\ seen[o.at].cost < o.cost
  /\ open' = open \ {o}
  /\ UNCHANGED <<q, phase, edges, start, goal, seen, polls, cancelled, answer>>

\* A pop that is expanded: every 2048th time the plan asks whether it is
\* cancelled, and if so this one state gets no successors.
Expand(o) ==
  /\ phase = "search" /\ Least(o) /\ At(o.at) # goal /\ seen[o.at].cost = o.cost
  /\ polls' = IF q.plan THEN (polls + 1) % PollEvery ELSE polls
  /\ LET pruned == q.plan /\ polls = 0 /\ cancelled
         cost(i) == o.cost + StepCost(o.at, i)
         better == IF pruned THEN {} ELSE {i \in Successors(o.at) : Improves(i, cost(i))}
     IN  /\ seen' = [s \in DOMAIN seen \cup better |->
                       IF s \in better THEN [cost |-> cost(s), via |-> o.at] ELSE seen[s]]
         /\ open' = (open \ {o})
                      \cup {[f |-> cost(i) + H(edges[i].dst), cost |-> cost(i), at |-> i] : i \in better}
  /\ UNCHANGED <<q, phase, edges, start, goal, cancelled, answer>>

Exhausted ==
  /\ phase = "search" /\ open = {}
  /\ phase' = "found" /\ answer' = Bare("no route")
  /\ UNCHANGED <<q, edges, start, goal, open, seen, polls, cancelled>>

\* Whatever was found, a cancelled plan gets nothing.
Deliver ==
  /\ phase = "found"
  /\ phase' = "done"
  /\ answer' = IF cancelled THEN Bare("cancelled") ELSE answer
  /\ UNCHANGED <<q, edges, start, goal, open, seen, polls, cancelled>>

\* The host cancels the plan.
Cancel ==
  /\ q.plan /\ ~ cancelled /\ phase # "done"
  /\ cancelled' = TRUE
  /\ UNCHANGED <<q, phase, edges, start, goal, open, seen, polls, answer>>

RouterStep ==
  \/ MakeEdges \/ Prepare \/ Snap \/ Exhausted \/ Deliver
  \/ \E o \in open : Reach(o) \/ Overtaken(o) \/ Expand(o)

RouterNext == RouterStep \/ Cancel

\* The planning thread runs on; whether the host cancels is up to it.
RouterSpec == RouterInit /\ [][RouterNext]_routerVars /\ WF_routerVars(RouterStep)

-----------------------------------------------------------------------------
(* What is read off the route *)

NodesOn(route) == <<start>> \o [k \in DOMAIN route |-> edges[route[k]].dst]

\* Mutant of BestBetween: the first in adjacency order, as it once was.
FirstBetween(a, b, surface, eco, opt) ==
  LET between == {i \in DOMAIN edges : /\ edges[i].src = a /\ edges[i].dst = b
                                       /\ AllowedForOptions(p, Tags(edges[i]), opt)}
  IN  IF between = {} THEN 0 ELSE Min(between)

\* best_edge_index_between: of the parallel edges, the first of the cheapest.
BestBetween(a, b, surface, eco, opt) ==
  LET cost(i) == (IF eco THEN edges[i].eco ELSE edges[i].base)
                   + (IF SurfaceCounts THEN Transition(surface, Surface(Tags(edges[i]))) ELSE 0)
      between == {i \in DOMAIN edges : /\ edges[i].src = a /\ edges[i].dst = b
                                       /\ AllowedForOptions(p, Tags(edges[i]), opt)}
      best == {i \in between : \A j \in between : cost(i) <= cost(j)}
  IN  IF best = {} THEN 0 ELSE Min(best)

\* path_edge_indices_with_options: the edges guessed from the nodes alone.
PathEdges(nodes, eco, opt) ==
  LET taken[k \in 1..Len(nodes)] ==
        IF k = 1 THEN << >>
        ELSE LET es == taken[k - 1]
                 surface == IF es = << >> THEN Good ELSE Surface(Tags(edges[Last(es)]))
                 i == BestBetween(nodes[k - 1], nodes[k], surface, eco, opt)
             IN  IF i = 0 THEN es ELSE Append(es, i)
  IN  taken[Len(nodes)]

\* The numbers of a sequence, added up.
Added(c) == LET upTo[k \in 0..Len(c)] == IF k = 0 THEN 0 ELSE upTo[k - 1] + c[k]
            IN  upTo[Len(c)]

\* motor_path_minutes_from_edges, in seconds.
EtaOfEdges(route) ==
  Added([k \in DOMAIN route |-> Seconds(Tags(edges[route[k]]), Len1(edges[route[k]]))])

DefaultOptions == [avoid |-> {}, vehicle |-> << >>, season |-> q.now]

\* motor_path_minutes: from the nodes, under the default options; a hop with
\* no edge is the chord at 50 km/h.
EtaOfNodes(nodes) ==
  Added([k \in 1..Len(nodes) - 1 |->
           LET i == BestBetween(nodes[k], nodes[k + 1], Poor, FALSE, DefaultOptions) IN
           IF i # 0 THEN Seconds(Tags(edges[i]), Len1(edges[i]))
           ELSE Seconds(<< >>, Apart(q.pos[nodes[k]], q.pos[nodes[k + 1]]))])

-----------------------------------------------------------------------------
(* What a plan promises *)

\* What is known of search states after every edge was relaxed once more.
Relax(d) ==
  LET reached == UNION {Successors(s) : s \in DOMAIN d}
      costs(i) == {d[s] : s \in {i} \cap DOMAIN d}
                    \cup {d[s] + StepCost(s, i) : s \in {t \in DOMAIN d : i \in Successors(t)}}
  IN  [i \in DOMAIN d \cup reached |-> Min(costs(i))]

\* The search states that k edges or fewer lead to, with their least costs.
LeastCosts[k \in Nat] ==
  IF k = 0 THEN [s \in {0} |-> 0] ELSE Relax(LeastCosts[k - 1])

\* What it costs to get to the goal: no shortest route takes an edge twice.
GoalCosts ==
  LET d == LeastCosts[Cardinality(DOMAIN edges)] IN {d[s] : s \in {t \in DOMAIN d : At(t) = goal}}

\* No ferry is said to be so fast that it is weighed less than the tenth of the
\* distance that the heuristic counts.
FerriesAreSlow ==
  \A x \in Queries : \A w \in DOMAIN x.ways :
    LET way == x.ways[w] IN
    IsFerry(way.tags) /\ Has(way.tags, "duration") =>
      10 * Apart(x.pos[way.a], x.pos[way.b]) <= DriveEquivalent(way.tags.duration)

Routed == phase = "done" /\ answer.is = "route"
Unrouted == phase = "done" /\ answer.is = "no route"

\* The state is well formed while the search runs.
RouterTypeOK ==
  /\ phase \in {"build", "prepare", "snap", "search", "found", "done"}
  /\ \A i \in DOMAIN edges : edges[i].base \in Nat /\ edges[i].eco \in Nat
  /\ \A o \in open : o.at \in DOMAIN seen /\ seen[o.at].cost <= o.cost
  /\ polls \in 0..(PollEvery - 1)

\* A delivered route costs what the search says and no route costs less;
\* "no route" means there is none.  A search that was cut short by a cancel
\* never passes for a finished one.  (Parallel edges, surface transitions,
\* ferries, wetlands and equal costs all meet in StepCost and in the order
\* the heap pops.)
RouteIsCheapest ==
  /\ Routed => answer.cost \in GoalCosts /\ \A c \in GoalCosts : answer.cost <= c
  /\ Unrouted => GoalCosts = {}

\* The tags say the traveller may use the way: no key forbids it that a more
\* specific one does not overrule, what the profile must keep off it is kept
\* off, and it is open and large enough.
OpenByTags(t) ==
  LET own == IF Motor(p) THEN {"motorcar", "motor_vehicle", "vehicle"} ELSE {p} IN
  /\ Is(t, "access", {"no"}) => \E k \in own : Is(t, k, {"yes", "destination"})
  /\ ~ Motor(p) => ~ Is(t, p, {"no"}) /\ ~ Is(t, "highway", {"motorway"}) /\ ~ Has(t, "minspeed")
  /\ Motor(p) /\ ~ IsFerry(t) =>
       ~ Is(t, "motor_vehicle", {"no"}) /\ ~ Is(t, "highway", {"footway", "steps", "path"})
  /\ Motor(p) /\ IsFerry(t) =>
       /\ ~ Is(t, "motorcar", {"no"})
       /\ Is(t, "motor_vehicle", {"no"}) => Is(t, "motorcar", {"yes", "destination"})
  /\ Has(t, "access_conditional") =>
       [token |-> "no", season |-> q.opt.season] \notin Range(t.access_conditional)
  /\ \A d \in DOMAIN q.opt.vehicle : Has(t, d) => q.opt.vehicle[d] <= t[d]

\* A delivered route leads from start to goal over ways that are open to the
\* traveller as the tags say it, in their direction, clear of hard wetland but
\* for boardwalks, and through no barrier.
RouteIsDrivable ==
  Routed =>
    LET r == answer.edges
        ns == NodesOn(r)
    IN  /\ Last(ns) = goal
        /\ \A k \in DOMAIN r :
             LET e == edges[r[k]]
                 t == Tags(e)
             IN  /\ e.src = ns[k]
                 /\ OneWay(t) => e.src = q.ways[e.way].a
                 /\ OpenByTags(t)
                 /\ Boardwalk(t) \/ \A w \in q.wet : w.hard => ~ Within(e, w)
        /\ \A k \in 2..(Len(ns) - 1) :
             ns[k] # start /\ ns[k] \in DOMAIN q.nodeTags =>
               LET t == q.nodeTags[ns[k]] IN
               Has(t, "barrier") =>
                 /\ ~ Is(t, AccessKey(p), {"no"})
                 /\ Is(t, "access", {"no"}) => Is(t, AccessKey(p), {"yes"})

\* Where every road runs both ways and is open, a waypoint near the main
\* network is never stranded on a leftover island: if both waypoints have a
\* node of the one largest component within reach, there is a route.
RoadsideIsRouted ==
  Unrouted /\ Blocked = {} /\ (\E c \in Giants : Giants = {c})
    /\ (\A i \in DOMAIN edges :
          /\ AllowedForOptions(p, Tags(edges[i]), q.opt)
          /\ \E j \in DOMAIN edges : edges[j].src = edges[i].dst /\ edges[j].dst = edges[i].src)
    => \E x \in {q.from, q.to} : \A n \in UNION Giants : Apart(q.pos[n], x) > MaxSnap(p)

\* Where surfaces do not count, the edges guessed from a route's nodes cost
\* what the recorded ones cost, and with default options they take as long,
\* unless two of the parallel edges cost the same.
RecoveredRouteAgrees ==
  Routed /\ ~ SurfaceCounts =>
    LET r == answer.edges
        cost(es) == Added([k \in DOMAIN es |-> Weight(edges[es[k]])])
        tie == \E i, j \in DOMAIN edges : /\ i # j /\ edges[i].src = edges[j].src
                                          /\ edges[i].dst = edges[j].dst
                                          /\ edges[i].base = edges[j].base
    IN  /\ cost(PathEdges(NodesOn(r), q.eco, q.opt)) = answer.cost
        /\ q.opt = DefaultOptions /\ ~ q.eco /\ ~ tie => EtaOfNodes(NodesOn(r)) = EtaOfEdges(r)

\* Every plan ends, cancelled or not.
PlanEnds == <>(phase = "done")
=============================================================================
