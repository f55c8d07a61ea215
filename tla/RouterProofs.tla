---------------------------- MODULE RouterProofs ----------------------------
(***************************************************************************)
(* What a plan over one graph promises, for any queries: a route it gives  *)
(* may be driven and no route costs less, no route means that there is     *)
(* none, and a waypoint beside the main network is not stranded.           *)
(***************************************************************************)
EXTENDS Router, WellFoundedInduction, FiniteSetTheorems, TLAPS

-----------------------------------------------------------------------------
(* The inductive invariant.                                                *)

\* An edge goes along a way the profile may use, in its direction, and no
\* weight is negative.
Sound(e) ==
  /\ e \in [src : Nodes, dst : Nodes, way : DOMAIN q.ways, dh : Int, base : Nat, eco : Nat]
  /\ Included(p, Tags(e), FALSE)
  /\ OneWay(Tags(e)) => e.src = q.ways[e.way].a
Graph(es) == DOMAIN es \subseteq Nat \ {0} /\ \A i \in DOMAIN es : Sound(es[i])
Clear(es) == \A i \in DOMAIN es : WetAt(es[i]) # "hard" \/ Boardwalk(Tags(es[i]))

\* Going back from edge to edge ends at the start: what is closed under going
\* back has the start in it.
Founded == \A T \in SUBSET DOMAIN seen : T # {} /\ (\A s \in T : seen[s].via \in T) => 0 \in T

\* What is known of a search state is a way to get there and what it costs at
\* most; entries are listed by that and the rest of the distance.
Reached ==
  /\ 0 \in DOMAIN seen /\ seen[0].cost = 0 /\ DOMAIN seen \subseteq {0} \cup DOMAIN edges
  /\ \A s \in DOMAIN seen : seen[s].cost \in Nat /\ seen[s].via \in DOMAIN seen
  /\ \A s \in DOMAIN seen \ {0} :
       /\ s \in Successors(seen[s].via)
       /\ seen[seen[s].via].cost + StepCost(seen[s].via, s) <= seen[s].cost
  /\ \A o \in open : /\ o.at \in DOMAIN seen /\ o.cost \in Nat /\ seen[o.at].cost <= o.cost
                     /\ o.f = o.cost + (IF o.at = 0 THEN 0 ELSE H(At(o.at)))

\* A state that is not at the goal and of which all that follows is known, at
\* no more than it costs from here.
Explored(s) ==
  /\ At(s) # goal
  /\ \A i \in Successors(s) : i \in DOMAIN seen /\ seen[i].cost <= seen[s].cost + StepCost(s, i)
Listed(s) == \E o \in open : o.at = s /\ o.cost = seen[s].cost

\* Both waypoints were snapped by the same giant component.
Snapped ==
  \E giant \in IF Linked = {} THEN {{}} ELSE Giants :
    start \in SnapsTo(q.from, giant) /\ goal \in SnapsTo(q.to, giant)

\* The edges of r follow each other from the start to search state s.
Leads(r, s) ==
  /\ r \in Seq(DOMAIN edges)
  /\ \A k \in DOMAIN r : r[k] \in Successors(IF k = 1 THEN 0 ELSE r[k - 1])
  /\ s = IF r = << >> THEN 0 ELSE r[Len(r)]

\* c[k] is what the first k edges of r cost.
Costs(r, c) ==
  /\ c \in [DOMAIN r -> Int]
  /\ \A k \in DOMAIN r :
       c[k] = (IF k = 1 THEN 0 ELSE c[k - 1]) + StepCost(IF k = 1 THEN 0 ELSE r[k - 1], r[k])
Total(r, c) == IF r = << >> THEN 0 ELSE c[Len(r)]

\* No edges from start to goal cost less than this.
Cheapest(cost) ==
  \A r, s, c : Leads(r, s) /\ At(s) = goal /\ Costs(r, c) => cost <= Total(r, c)

\* No edge is shorter than its chord or costs less than a tenth of that.
Dear(e) ==
  LET chord == Apart(q.pos[e.src], q.pos[e.dst]) IN
  chord <= Len1(e) /\ 10 * chord <= e.base /\ 10 * chord <= e.eco
AllDear == \A i \in DOMAIN edges : Dear(edges[i])

Searching ==
  /\ Snapped /\ Reached /\ Founded
  /\ ~ cancelled => \A s \in DOMAIN seen : Listed(s) \/ Explored(s)

\* What an answer stands for; that there is no other or no better route only
\* counts while nobody cancels.
Answered ==
  /\ answer.is = "route" =>
       /\ \E s \in DOMAIN seen : Leads(answer.edges, s) /\ At(s) = goal
       /\ \A c : Costs(answer.edges, c) => Total(answer.edges, c) <= answer.cost
       /\ \A i, j \in DOMAIN answer.edges : answer.edges[i] = answer.edges[j] => i = j
       /\ answer.cost \in Nat
       /\ (phase = "done" \/ ~ cancelled) /\ AllDear => Cheapest(answer.cost)
  /\ answer.is = "no route" =>
       /\ Snapped /\ 0 \in DOMAIN seen
       /\ (phase = "done" \/ ~ cancelled) => \A s \in DOMAIN seen : Explored(s)

RouterInv ==
  /\ q \in Queries /\ polls \in 0 .. PollEvery - 1
  /\ phase \in {"build", "prepare", "snap", "search", "found", "done"}
  /\ Graph(edges)
  /\ phase \notin {"build", "prepare"} => Clear(edges)
  /\ phase \in {"build", "prepare", "snap"} => open = {}
  /\ phase = "search" => Searching
  /\ phase \in {"found", "done"} => Answered
  /\ \A o \in open : o.at \in DOMAIN seen /\ seen[o.at].cost <= o.cost

-----------------------------------------------------------------------------
(* Induction over numbers: sets of them have a least.                      *)

LEMMA LeastExists ==
  ASSUME NEW T, T \subseteq Nat, T # {}
  PROVE  \E x \in T : \A y \in T : x <= y
<1> DEFINE R == {ss \in Nat \X Nat : ss[1] < ss[2]}
<1>1. IsWellFoundedOn(R, Nat)
    BY NatLessThanWellFounded DEF OpToRel
<1>2. \A x, y \in Nat : <<y, x>> \in R <=> y < x
    OBVIOUS
<1> HIDE DEF R
<1>3. PICK x \in T : \A y \in T : ~ (<<y, x>> \in R)
    BY <1>1, WFMin
<1>4. \A y \in T : ~ (y < x)
    BY <1>2, <1>3
<1>5. \A y \in T : x <= y
    BY <1>4
<1>6. QED
    BY <1>5

\* A function over the numbers may be given by its value at 0 and the step
\* from one value to the next.
LEMMA NatRecursion ==
  ASSUME NEW D, NEW b \in D, NEW step \in [D -> D]
  PROVE  \E g \in [Nat -> D] : g[0] = b /\ \A k \in Nat : g[k + 1] = step[g[k]]
<1> DEFINE Approx(n, a) ==
             /\ a \in [0 .. n -> D] /\ a[0] = b
             /\ \A k \in 1 .. n : a[k] = step[a[k - 1]]
<1>1. \A n \in Nat : \E a : Approx(n, a)
    <2> DEFINE Bad == {n \in Nat : ~ \E a : Approx(n, a)}
    <2> SUFFICES ASSUME Bad # {}
                 PROVE  FALSE
        OBVIOUS
    <2>1. PICK n \in Bad : \A m \in Bad : n <= m
        <3>1. Bad \subseteq Nat
            OBVIOUS
        <3> HIDE DEF Bad
        <3>2. QED
            BY <3>1, LeastExists
    <2>2. n # 0
        <3>1. Approx(0, [k \in 0 .. 0 |-> b])
            OBVIOUS
        <3>2. QED
            BY <3>1
    <2>3. n \in Nat /\ n - 1 \in Nat /\ ~ (n <= n - 1)
        BY <2>2
    <2>4. PICK a : Approx(n - 1, a)
        <3>1. n - 1 \notin Bad
            BY <2>1, <2>3
        <3>2. QED
            BY <2>3, <3>1
    <2> DEFINE c == [k \in 0 .. n |-> IF k = n THEN step[a[n - 1]] ELSE a[k]]
    <2>5. Approx(n, c)
        <3>1. a[n - 1] \in D /\ \A k \in 0 .. n - 1 : a[k] \in D
            BY <2>3, <2>4
        <3>2. c \in [0 .. n -> D] /\ c[0] = b
            BY <2>2, <2>3, <2>4, <3>1
        <3>3. ASSUME NEW k \in 1 .. n
              PROVE  c[k] = step[c[k - 1]]
            <4>1. k - 1 \in 0 .. n /\ k - 1 # n /\ k \in 0 .. n /\ c[k - 1] = a[k - 1]
                BY <2>3
            <4>2. CASE k = n
                BY <4>1, <4>2
            <4>3. CASE k # n
                <5>1. k \in 1 .. n - 1
                    BY <2>3, <4>3
                <5>2. QED
                    BY <2>4, <4>1, <4>3, <5>1
            <4>4. QED
                BY <4>2, <4>3
        <3> HIDE DEF c
        <3>4. QED
            BY <3>2, <3>3
    <2>6. QED
        BY <2>5
<1>2. ASSUME NEW n \in Nat, NEW m \in Nat, NEW a, NEW c, Approx(n, a), Approx(m, c), n <= m
      PROVE  \A k \in 0 .. n : a[k] = c[k]
    <2> DEFINE Bad == {k \in 0 .. n : a[k] # c[k]}
    <2> SUFFICES ASSUME Bad # {}
                 PROVE  FALSE
        OBVIOUS
    <2>1. PICK k \in Bad : \A i \in Bad : k <= i
        <3>1. Bad \subseteq Nat
            OBVIOUS
        <3> HIDE DEF Bad
        <3>2. QED
            BY <3>1, LeastExists
    <2>2. k # 0
        BY <1>2
    <2>3. k \in 1 .. n /\ k - 1 \in 0 .. n /\ ~ (k <= k - 1) /\ k \in 1 .. m
        BY <1>2, <2>2
    <2>4. a[k - 1] = c[k - 1]
        BY <2>1, <2>3
    <2>5. a[k] = step[a[k - 1]] /\ c[k] = step[c[k - 1]]
        BY <1>2, <2>3
    <2>6. QED
        BY <2>4, <2>5
<1> DEFINE A(n) == CHOOSE a : Approx(n, a)
           g == [n \in Nat |-> A(n)[n]]
<1>3. \A n \in Nat : Approx(n, A(n))
    BY <1>1
<1> HIDE DEF A
<1>4. \A n \in Nat : A(n) \in [0 .. n -> D] /\ A(n)[0] = b /\ A(n)[n] \in D
    BY <1>3
<1>5. ASSUME NEW n \in Nat
      PROVE  A(n + 1)[n + 1] = step[A(n)[n]]
    <2>1. n + 1 \in Nat /\ n <= n + 1 /\ n \in 0 .. n /\ n + 1 \in 1 .. n + 1 /\ (n + 1) - 1 = n
        OBVIOUS
    <2>2. A(n)[n] = A(n + 1)[n]
        <3>1. Approx(n, A(n)) /\ Approx(n + 1, A(n + 1))
            BY <1>3, <2>1
        <3>2. \A a, c : Approx(n, a) /\ Approx(n + 1, c) => \A k \in 0 .. n : a[k] = c[k]
            BY <1>2, <2>1
        <3> HIDE DEF Approx
        <3>3. \A k \in 0 .. n : A(n)[k] = A(n + 1)[k]
            BY <3>1, <3>2
        <3>4. QED
            BY <2>1, <3>3
    <2>3. A(n + 1)[n + 1] = step[A(n + 1)[n]]
        BY <1>3, <2>1
    <2>4. QED
        BY <2>2, <2>3
<1>6. g \in [Nat -> D] /\ g[0] = b /\ \A n \in Nat : g[n + 1] = step[g[n]]
    BY <1>4, <1>5
<1>7. QED
    BY <1>6

-----------------------------------------------------------------------------
(* What the tag tables promise.                                            *)

LEMMA MaxOfTwo ==
  ASSUME NEW a \in Int, NEW b \in Int
  PROVE  Max({a, b}) \in {a, b} /\ Max({a, b}) >= b
<1>1. \E m \in {a, b} : \A y \in {a, b} : m >= y
    <2>1. CASE a >= b
        BY <2>1
    <2>2. CASE b >= a
        BY <2>2
    <2>3. QED
        BY <2>1, <2>2
<1>2. QED
    BY <1>1 DEF Max

\* No weight is negative.
LEMMA BaseWeightNat ==
  ASSUME NEW r, NEW tags, NEW len \in Nat, Has(tags, "duration") => tags.duration \in Nat
  PROVE  BaseWeight(r, tags, len) \in Nat
  BY DEF BaseWeight, FerryWeight, DriveEquivalent

LEMMA EcoWeightNat ==
  ASSUME NEW len \in Nat, NEW dh \in Int
  PROVE  EcoWeight(len, dh) \in Nat
<1> DEFINE flat == len * 49000
           climb == dh * 14710 * (IF dh >= 0 THEN 100 ELSE Regen)
           a == flat + climb
           b == flat \div 100
<1>1. a \in Int /\ b \in Nat
    BY DEF Regen
<1>2. EcoWeight(len, dh) = Max({a, b})
    BY DEF EcoWeight
<1> HIDE DEF a, b
<1>3. QED
    BY <1>1, <1>2, MaxOfTwo

LEMMA SurfaceType ==
  ASSUME NEW tags
  PROVE  Surface(tags) \in 0 .. 2
<1> DEFINE s == IF Has(tags, "surface") THEN {OfSurface(tags.surface)} ELSE {}
           g == IF Has(tags, "tracktype") THEN {OfGrade(tags.tracktype)} ELSE {}
           said == s \cup g
<1>1. said \subseteq 0 .. 2
    BY DEF OfSurface, OfGrade, Good, Marginal, Poor
<1>2. said # {} => Max(said) \in said
    <2>1. said # {} => \E m \in said : \A y \in said : m >= y
        BY <1>1
    <2>2. QED
        BY <2>1 DEF Max
<1>3. Surface(tags) \in {Good, Poor} \/ (said # {} /\ Surface(tags) = Max(said))
    BY DEF Surface
<1> HIDE DEF said
<1>4. Good \in 0 .. 2 /\ Poor \in 0 .. 2
    BY DEF Good, Poor
<1>5. \A m : m \in said => m \in 0 .. 2
    BY <1>1, Zenon
<1>6. QED
    BY <1>2, <1>3, <1>4, <1>5, Zenon

\* The first of three keys that is set is one of them, and none before it is.
LEMMA FirstOfThree ==
  ASSUME NEW tags, NEW a, NEW b, NEW c
  PROVE  LET keys == <<a, b, c>> IN
         /\ Present(tags, keys) = {} <=> ~ Has(tags, a) /\ ~ Has(tags, b) /\ ~ Has(tags, c)
         /\ Has(tags, a) => First(tags, keys) = tags[a]
         /\ ~ Has(tags, a) /\ Has(tags, b) => First(tags, keys) = tags[b]
         /\ ~ Has(tags, a) /\ ~ Has(tags, b) /\ Has(tags, c) => First(tags, keys) = tags[c]
<1> DEFINE keys == <<a, b, c>>
           set == Present(tags, keys)
<1>1. set = {i \in 1 .. 3 : Has(tags, keys[i])}
    BY DEF Present
<1>2. /\ 1 \in set <=> Has(tags, a)
      /\ 2 \in set <=> Has(tags, b)
      /\ 3 \in set <=> Has(tags, c)
      /\ set \subseteq 1 .. 3
    BY <1>1
<1> HIDE DEF set
<1>3. ASSUME NEW m \in set, \A i \in set : m <= i
      PROVE  Min(set) = m
    <2>1. \A n \in set : (\A i \in set : n <= i) => n = m
        BY <1>2, <1>3
    <2>2. QED
        BY <1>3, <2>1 DEF Min
<1>4. 1 \in set => Min(set) = 1
    BY <1>2, <1>3
<1>5. 1 \notin set /\ 2 \in set => Min(set) = 2
    BY <1>2, <1>3
<1>6. 1 \notin set /\ 2 \notin set /\ 3 \in set => Min(set) = 3
    BY <1>2, <1>3
<1>7. First(tags, keys) = tags[keys[Min(set)]]
    BY DEF First, set
<1>8. set = {} <=> 1 \notin set /\ 2 \notin set /\ 3 \notin set
    BY <1>2
<1>9. QED
    BY <1>2, <1>4, <1>5, <1>6, <1>7, <1>8 DEF set

-----------------------------------------------------------------------------
(* The graph.                                                              *)

LEMMA WaysAre ==
  ASSUME q \in Queries
  PROVE  /\ Len(q.ways) \in Nat /\ DOMAIN q.ways = 1 .. Len(q.ways)
         /\ \A n \in Nodes : q.pos[n] \in Int
         /\ \A w \in DOMAIN q.ways :
              /\ q.ways[w].a \in Nodes /\ q.ways[w].b \in Nodes
              /\ q.ways[w].len \in Nat /\ q.ways[w].dh \in Int
              /\ Has(q.ways[w].tags, "duration") => q.ways[w].tags.duration \in Nat
<1>1. q.ways \in Seq(Range(q.ways))
    BY QueryAssumption
<1>2. QED
    BY <1>1, QueryAssumption DEF Nodes

LEMMA MadeEdgesAreSound ==
  ASSUME q \in Queries
  PROVE  Graph([i \in Travelled |-> EdgeOf(i)])
<1>1. ASSUME NEW i \in Travelled
      PROVE  i \in Nat \ {0} /\ Sound(EdgeOf(i))
    <2> DEFINE w == WayOf(i)
               way == q.ways[w]
               e == EdgeOf(i)
    <2>1. i \in Nat \ {0} /\ w \in DOMAIN q.ways
        BY WaysAre DEF Travelled, WayOf
    <2>2. Included(p, way.tags, FALSE) /\ (OneWay(way.tags) => Along(i))
        BY DEF Travelled
    <2>3. BaseWeight(p, way.tags, way.len) \in Nat
        BY <2>1, WaysAre, BaseWeightNat
    <2>4. e.way = w /\ Tags(e) = way.tags /\ (Along(i) => e.src = way.a)
        BY DEF EdgeOf, Tags
    <2>5. e \in [src : Nodes, dst : Nodes, way : DOMAIN q.ways, dh : Int, base : Nat, eco : Nat]
        <3> HIDE DEF w
        <3>1. way.a \in Nodes /\ way.b \in Nodes /\ way.dh \in Int
            BY <2>1, WaysAre
        <3>2. e = [src |-> IF Along(i) THEN way.a ELSE way.b, dst |-> IF Along(i) THEN way.b ELSE way.a,
                   way |-> w, dh |-> IF Along(i) THEN way.dh ELSE - way.dh,
                   base |-> BaseWeight(p, way.tags, way.len), eco |-> BaseWeight(p, way.tags, way.len)]
            BY DEF EdgeOf, w
        <3> HIDE DEF e, way
        <3>3. QED
            BY <2>1, <2>3, <3>1, <3>2
    <2>6. QED
        BY <2>1, <2>2, <2>4, <2>5 DEF Sound
<1>2. QED
    BY <1>1 DEF Graph

\* What tells edges apart in tags and place is left alone by reweighting.
LEMMA Reweighted ==
  ASSUME NEW e, Sound(e), NEW base \in Nat, NEW eco \in Nat, NEW d,
         d = [e EXCEPT !.base = base, !.eco = eco]
  PROVE  Sound(d) /\ Tags(d) = Tags(e) /\ WetAt(d) = WetAt(e)
<1>1. d.src = e.src /\ d.dst = e.dst /\ d.way = e.way /\ d.dh = e.dh
    BY DEF Sound
<1>2. d \in [src : Nodes, dst : Nodes, way : DOMAIN q.ways, dh : Int, base : Nat, eco : Nat]
    BY DEF Sound
<1>3. Tags(d) = Tags(e)
    BY <1>1 DEF Tags
<1>4. WetAt(d) = WetAt(e)
    BY <1>1 DEF WetAt, Within
<1>5. QED
    BY <1>1, <1>2, <1>3, <1>4 DEF Sound

LEMMA ScaledIsSound ==
  ASSUME NEW e, Sound(e), NEW num \in Nat, NEW den \in Nat \ {0}
  PROVE  LET d == Scaled(e, num, den) IN
         Sound(d) /\ Tags(d) = Tags(e) /\ WetAt(d) = WetAt(e)
<1>1. e.base \in Nat /\ e.eco \in Nat
    BY DEF Sound
<1>2. \A x \in Nat : Share(x, num, den) \in Nat
    <2>1. \A x \in Nat : x \div den \in Nat /\ (x % den) \in Nat
        OBVIOUS
    <2>2. \A x, y \in Nat : x * y \in Nat /\ x + y \in Nat
        OBVIOUS
    <2>3. \A x \in Nat : (x \div den) * num \in Nat /\ (x % den) * num \in Nat
        BY <2>1, <2>2
    <2>4. QED
        BY <2>1, <2>2, <2>3 DEF Share
<1>3. Scaled(e, num, den) = [e EXCEPT !.base = Share(e.base, num, den), !.eco = Share(e.eco, num, den)]
    BY <1>1 DEF Scaled, Sound
<1> DEFINE base == Share(e.base, num, den)
           eco == Share(e.eco, num, den)
<1>4. base \in Nat /\ eco \in Nat
    BY <1>1, <1>2
<1> HIDE DEF base, eco
<1>5. Scaled(e, num, den) = [e EXCEPT !.base = base, !.eco = eco]
    BY <1>3 DEF base, eco
<1> DEFINE d == Scaled(e, num, den)
<1> HIDE DEF d
<1>6. d = [e EXCEPT !.base = base, !.eco = eco]
    BY <1>5 DEF d
<1>7. Sound(d) /\ Tags(d) = Tags(e) /\ WetAt(d) = WetAt(e)
    BY <1>4, <1>6, Reweighted, ZenonT(60)
<1>8. QED
    BY <1>7 DEF d

LEMMA EnergisedIsSound ==
  ASSUME q \in Queries, NEW es, Graph(es)
  PROVE  Graph(Energised(es))
<1>1. DOMAIN Energised(es) = DOMAIN es
    BY DEF Energised
<1>2. ASSUME NEW i \in DOMAIN es
      PROVE  Sound(Energised(es)[i])
    <2>1. Sound(es[i])
        BY DEF Graph
    <2>2. Len1(es[i]) \in Nat
        BY <2>1, WaysAre DEF Len1, Sound
    <2>3. EcoWeight(Len1(es[i]), es[i].dh) \in Nat
        BY <2>1, <2>2, EcoWeightNat DEF Sound
    <2>4. es[i].base \in Nat
        BY <2>1 DEF Sound
    <2>5. Energised(es)[i] =
            [es[i] EXCEPT !.base = es[i].base, !.eco = EcoWeight(Len1(es[i]), es[i].dh)]
        BY <2>1 DEF Energised, Sound
    <2>6. QED
        BY <2>1, <2>3, <2>4, <2>5, Reweighted
<1>3. QED
    BY <1>1, <1>2 DEF Graph

\* No edge in hard wetland is left but the boardwalks.
LEMMA WetlandsAreOut ==
  ASSUME NEW es, Graph(es)
  PROVE  Graph(OutOfWetlands(es)) /\ Clear(OutOfWetlands(es))
<1>1. DOMAIN OutOfWetlands(es) \subseteq DOMAIN es
    BY DEF OutOfWetlands
<1>2. ASSUME NEW i \in DOMAIN OutOfWetlands(es)
      PROVE  LET d == OutOfWetlands(es)[i] IN
             Sound(d) /\ (WetAt(d) # "hard" \/ Boardwalk(Tags(d)))
    <2>1. Sound(es[i]) /\ (WetAt(es[i]) # "hard" \/ Boardwalk(Tags(es[i])))
        BY DEF Graph, OutOfWetlands
    <2>2. OutOfWetlands(es)[i] \in {es[i], Scaled(es[i], 5, 1)}
        BY DEF OutOfWetlands
    <2>3. QED
        BY <2>1, <2>2, ScaledIsSound
<1>3. QED
    BY <1>1, <1>2 DEF Graph, Clear

LEMMA RideableIsSound ==
  ASSUME NEW es, Graph(es), Clear(es)
  PROVE  Graph(Rideable(es)) /\ Clear(Rideable(es))
  BY DEF Graph, Clear, Rideable

LEMMA PreferredIsSound ==
  ASSUME q \in Queries, NEW es, Graph(es), Clear(es)
  PROVE  Graph(Preferred(es)) /\ Clear(Preferred(es))
<1>1. CASE ~ SurfaceCounts
    BY <1>1 DEF Preferred
<1>2. CASE SurfaceCounts
    <2>1. DOMAIN Preferred(es) = DOMAIN es
        BY <1>2 DEF Preferred
    <2>2. ASSUME NEW i \in DOMAIN es
          PROVE  LET d == Preferred(es)[i] IN
                 Sound(d) /\ (WetAt(d) # "hard" \/ Boardwalk(Tags(d)))
        <3> DEFINE t == Tags(es[i])
                   num == SurfaceTenths(q.traveller, Surface(t)) * UnpostedHundredths(q.traveller, t)
        <3>1. q.traveller \in {"car", "motorcycle", "truck", "mobilehome"}
            BY <1>2, QueryAssumption DEF SurfaceCounts, Motor, p, RoutingProfile, Travellers
        <3>2. SurfaceTenths(q.traveller, Surface(t)) \in Nat
            BY <3>1, SurfaceType DEF SurfaceTenths, SurfaceTable, Good
        <3>3. UnpostedHundredths(q.traveller, t) \in Nat
            BY DEF UnpostedHundredths
        <3>4. num \in Nat
            BY <3>2, <3>3
        <3>5. Preferred(es)[i] = Scaled(es[i], num, 1000)
            BY <1>2 DEF Preferred
        <3> HIDE DEF num
        <3>6. QED
            BY <3>4, <3>5, ScaledIsSound DEF Graph, Clear
    <2>3. QED
        BY <2>1, <2>2 DEF Graph, Clear
<1>3. QED
    BY <1>1, <1>2

-----------------------------------------------------------------------------
(* Nothing but the graph and the waypoints decides what follows what.      *)

LEMMA SameGraph ==
  ASSUME UNCHANGED <<q, edges>>
  PROVE  /\ Graph(edges)' <=> Graph(edges)
         /\ Clear(edges)' <=> Clear(edges)
         /\ Linked' = Linked /\ Giants' = Giants
         /\ \A x, giant : SnapsTo(x, giant)' = SnapsTo(x, giant)
<1>1. p' = p /\ Nodes' = Nodes /\ \A e : Tags(e)' = Tags(e)
    BY DEF p, Nodes, Tags
<1>2. Graph(edges)' <=> Graph(edges)
    BY <1>1 DEF Graph, Sound, p, Nodes, Tags
<1>3. Clear(edges)' <=> Clear(edges)
    BY DEF Clear, WetAt, Within, Tags
<1>4. Linked' = Linked
    BY DEF Linked
<1>5. \A n : Component(n)' = Component(n)
    BY <1>1 DEF Component, Nodes
<1>6. Giants' = Giants
    BY <1>4, <1>5 DEF Giants, Component, Linked, Nodes
<1>7. SurfaceCounts' = SurfaceCounts
    BY DEF SurfaceCounts, p
<1>8. \A n : WorstAt(n)' = WorstAt(n)
    BY <1>7 DEF WorstAt, SurfaceCounts, p, Tags
<1>9. \A ns, x : Best(ns, x)' = Best(ns, x) /\ Nearest(ns, x)' = Nearest(ns, x)
    BY <1>8 DEF Best, Nearest, WorstAt, SurfaceCounts, p, Tags
<1>10. \A x, giant : SnapsTo(x, giant)' = SnapsTo(x, giant)
    BY <1>1, <1>4, <1>9 DEF SnapsTo
<1>11. QED
    BY <1>2, <1>3, <1>4, <1>6, <1>10

LEMMA SameSearch ==
  ASSUME UNCHANGED <<q, edges, start, goal>>
  PROVE  /\ \A s : At(s)' = At(s) /\ Successors(s)' = Successors(s)
         /\ \A s, i : StepCost(s, i)' = StepCost(s, i)
         /\ \A n : H(n)' = H(n)
         /\ Snapped' <=> Snapped
<1>1. p' = p /\ Blocked' = Blocked
    BY DEF p, Blocked
<1>2. \A s : At(s)' = At(s) /\ Successors(s)' = Successors(s)
    BY <1>1 DEF At, Successors, Passable, Tags
<1>3. \A s, i : StepCost(s, i)' = StepCost(s, i)
    BY DEF StepCost, Weight, SurfaceCounts, SurfaceAt, Tags, p
<1>4. \A n : H(n)' = H(n)
    BY DEF H
<1>5. Snapped' <=> Snapped
    BY SameGraph DEF Snapped
<1>6. QED
    BY <1>2, <1>3, <1>4, <1>5

-----------------------------------------------------------------------------
(* The trail of a search state.                                            *)

LEMMA EmptyIs ==
  ASSUME NEW S, NEW f \in Seq(S)
  PROVE  f = << >> <=> Len(f) = 0
  OBVIOUS

LEMMA AppendIs ==
  ASSUME NEW S, NEW f \in Seq(S), NEW e \in S
  PROVE  LET a == Append(f, e) IN
         /\ a \in Seq(S) /\ Len(a) = Len(f) + 1 /\ a # << >> /\ a[Len(f) + 1] = e
         /\ DOMAIN a = 1 .. Len(f) + 1 /\ \A k \in DOMAIN f : a[k] = f[k]
<1>1. Len(f) \in Nat /\ DOMAIN f = 1 .. Len(f)
    OBVIOUS
<1>2. Append(f, e) \in Seq(S) /\ Len(Append(f, e)) = Len(f) + 1
    OBVIOUS
<1>3. Append(f, e) # << >> /\ DOMAIN Append(f, e) = 1 .. Len(f) + 1
    BY <1>1, <1>2
<1>4. Append(f, e)[Len(f) + 1] = e /\ \A k \in DOMAIN f : Append(f, e)[k] = f[k]
    BY <1>1
<1>5. QED
    BY <1>2, <1>3, <1>4

\* The chain of edges that came one from the other until s.
Chain(r, s) ==
  /\ r \in Seq(DOMAIN seen \ {0})
  /\ \A k \in DOMAIN r : seen[r[k]].via = IF k = 1 THEN 0 ELSE r[k - 1]
  /\ s = IF r = << >> THEN 0 ELSE r[Len(r)]

\* A chain but the empty one is one edge longer than a chain to where that
\* edge came from.
LEMMA ChainShortens ==
  ASSUME NEW r, NEW s, Chain(r, s), s # 0
  PROVE  /\ r # << >> /\ s \in DOMAIN seen
         /\ Chain(SubSeq(r, 1, Len(r) - 1), seen[s].via)
         /\ r = Append(SubSeq(r, 1, Len(r) - 1), s)
<1> DEFINE f == SubSeq(r, 1, Len(r) - 1)
<1>1. r # << >> /\ r \in Seq(DOMAIN seen \ {0}) /\ s = r[Len(r)]
    BY DEF Chain
<1>2. Len(r) \in Nat \ {0} /\ DOMAIN r = 1 .. Len(r) /\ s \in DOMAIN seen
    BY <1>1
<1>3. f \in Seq(DOMAIN seen \ {0}) /\ Len(f) = Len(r) - 1 /\ DOMAIN f = 1 .. Len(r) - 1
    BY <1>1, <1>2
<1>4. \A k \in 1 .. Len(r) - 1 : f[k] = r[k]
    BY <1>1, <1>2
<1>5. \A k \in DOMAIN f : seen[f[k]].via = IF k = 1 THEN 0 ELSE f[k - 1]
    <2>1. \A k \in DOMAIN r : seen[r[k]].via = IF k = 1 THEN 0 ELSE r[k - 1]
        BY DEF Chain
    <2> HIDE DEF f
    <2>2. QED
        BY <1>2, <1>3, <1>4, <2>1
<1>6. seen[s].via = IF f = << >> THEN 0 ELSE f[Len(f)]
    <2>1. seen[s].via = IF Len(r) = 1 THEN 0 ELSE r[Len(r) - 1]
        BY <1>1, <1>2 DEF Chain
    <2> HIDE DEF f
    <2>2. f \in Seq(DOMAIN seen \ {0}) /\ Len(f) = Len(r) - 1 /\ Len(r) \in Nat
        BY <1>2, <1>3
    <2>3. f = << >> <=> Len(r) = 1
        <3>1. f = << >> <=> Len(f) = 0
            BY <2>2, EmptyIs
        <3>2. QED
            BY <2>2, <3>1
    <2>4. QED
        BY <1>2, <1>4, <2>1, <2>3, <2>2
<1>7. Chain(f, seen[s].via)
    BY <1>3, <1>5, <1>6 DEF Chain
<1>8. r = Append(f, s)
    <2> DEFINE a == Append(f, s)
    <2> HIDE DEF f
    <2>1. /\ a \in Seq(DOMAIN seen) /\ Len(a) = Len(r)
          /\ a[Len(r)] = s /\ \A k \in 1 .. Len(r) - 1 : a[k] = f[k]
        <3>1. f \in Seq(DOMAIN seen) /\ s \in DOMAIN seen
            BY <1>2, <1>3
        <3>2. /\ a \in Seq(DOMAIN seen) /\ Len(a) = Len(f) + 1 /\ a[Len(f) + 1] = s
              /\ \A k \in DOMAIN f : a[k] = f[k]
            BY <3>1, AppendIs
        <3> HIDE DEF a
        <3>3. Len(f) = Len(r) - 1 /\ Len(f) + 1 = Len(r) /\ DOMAIN f = 1 .. Len(r) - 1
            BY <1>2, <1>3
        <3>4. QED
            BY <3>2, <3>3, Zenon
    <2> HIDE DEF a
    <2>2. r \in Seq(DOMAIN seen) /\ DOMAIN a = 1 .. Len(r)
        BY <1>1, <1>2, <2>1
    <2>3. \A k \in 1 .. Len(r) : a[k] = r[k]
        <3>1. r[Len(r)] = s
            BY <1>1
        <3>2. QED
            BY <1>2, <1>4, <2>1, <3>1
    <2>4. a = r
        BY <1>2, <2>1, <2>2, <2>3
    <2>5. QED
        BY <2>4 DEF a
<1>9. QED
    BY <1>1, <1>2, <1>7, <1>8

LEMMA ChainLengthens ==
  ASSUME NEW s \in DOMAIN seen \ {0}, NEW r, Chain(r, seen[s].via)
  PROVE  Chain(Append(r, s), s)
<1> DEFINE a == Append(r, s)
<1>1. r \in Seq(DOMAIN seen \ {0})
    BY DEF Chain
<1>2. /\ a \in Seq(DOMAIN seen \ {0}) /\ Len(a) = Len(r) + 1 /\ Len(r) \in Nat
      /\ DOMAIN a = 1 .. Len(r) + 1 /\ DOMAIN r = 1 .. Len(r)
      /\ a[Len(r) + 1] = s /\ \A k \in DOMAIN r : a[k] = r[k]
      /\ a # << >> /\ (r = << >> <=> Len(r) = 0)
    BY <1>1
<1> HIDE DEF a
<1>3. \A k \in DOMAIN r : seen[r[k]].via = IF k = 1 THEN 0 ELSE r[k - 1]
    BY DEF Chain
<1>4. seen[s].via = IF r = << >> THEN 0 ELSE r[Len(r)]
    BY DEF Chain
<1>5. \A k \in DOMAIN a : seen[a[k]].via = IF k = 1 THEN 0 ELSE a[k - 1]
    BY <1>2, <1>3, <1>4
<1>6. Chain(a, s)
    BY <1>2, <1>5 DEF Chain
<1>7. QED
    BY <1>6 DEF a

\* Every known state has a chain, and one only.
LEMMA OneChainEach ==
  ASSUME Reached, Founded, NEW s \in DOMAIN seen
  PROVE  /\ \E r : Chain(r, s)
         /\ \A r, c : Chain(r, s) /\ Chain(c, s) => r = c
<1>1. \A t \in DOMAIN seen : seen[t].via \in DOMAIN seen
    BY DEF Reached
<1>2. \E r : Chain(r, s)
    <2> DEFINE T == {t \in DOMAIN seen : ~ \E r : Chain(r, t)}
    <2>1. 0 \notin T
        <3>1. Chain(<< >>, 0)
            BY DEF Chain
        <3>2. QED
            BY <3>1
    <2>2. \A t \in T : seen[t].via \in T
        BY <1>1, <2>1, ChainLengthens
    <2>3. QED
        BY <2>1, <2>2 DEF Founded
<1>3. \A r, c : Chain(r, s) /\ Chain(c, s) => r = c
    <2> DEFINE T == {t \in DOMAIN seen : \E r, c : Chain(r, t) /\ Chain(c, t) /\ r # c}
    <2>1. 0 \notin T
        <3>1. \A r : Chain(r, 0) => r = << >>
            <4> SUFFICES ASSUME NEW r, Chain(r, 0), r # << >>
                         PROVE  FALSE
                OBVIOUS
            <4>1. r \in Seq(DOMAIN seen \ {0}) /\ r[Len(r)] = 0
                BY DEF Chain
            <4>2. QED
                BY <4>1
        <3>2. QED
            BY <3>1
    <2>2. ASSUME NEW t \in T
          PROVE  seen[t].via \in T
        <3>1. PICK r, c : Chain(r, t) /\ Chain(c, t) /\ r # c
            OBVIOUS
        <3>2. t # 0
            BY <2>1
        <3> DEFINE f == SubSeq(r, 1, Len(r) - 1)
                   g == SubSeq(c, 1, Len(c) - 1)
        <3>3. Chain(f, seen[t].via) /\ r = Append(f, t)
            BY <3>1, <3>2, ChainShortens
        <3>4. Chain(g, seen[t].via) /\ c = Append(g, t)
            BY <3>1, <3>2, ChainShortens
        <3>5. f # g
            BY <3>1, <3>3, <3>4, Zenon
        <3> HIDE DEF f, g
        <3>6. QED
            BY <1>1, <3>3, <3>4, <3>5
    <2>3. QED
        BY <2>1, <2>2 DEF Founded
<1>4. QED
    BY <1>2, <1>3

\* The recursion of Trail has a solution.
LEMMA TrailDef ==
  ASSUME Reached, Founded
  PROVE  \A s \in DOMAIN seen : Trail[s] = IF s = 0 THEN << >> ELSE Append(Trail[seen[s].via], s)
<1> DEFINE step(g) == [s \in DOMAIN seen |-> IF s = 0 THEN << >> ELSE Append(g[seen[s].via], s)]
           chain(s) == CHOOSE r : Chain(r, s)
           g0 == [s \in DOMAIN seen |-> chain(s)]
<1>1. \A s \in DOMAIN seen : Chain(chain(s), s)
    BY OneChainEach
<1>2. \A s \in DOMAIN seen : seen[s].via \in DOMAIN seen
    BY DEF Reached
<1> HIDE DEF chain
<1>3. ASSUME NEW s \in DOMAIN seen
      PROVE  chain(s) = IF s = 0 THEN << >> ELSE Append(chain(seen[s].via), s)
    <2>1. CASE s = 0
        <3>1. Chain(<< >>, s)
            BY <2>1 DEF Chain
        <3>2. QED
            BY <1>1, <2>1, <3>1, OneChainEach
    <2>2. CASE s # 0
        <3>1. Chain(Append(chain(seen[s].via), s), s)
            BY <1>1, <1>2, <2>2, ChainLengthens
        <3>2. chain(s) = Append(chain(seen[s].via), s)
            BY <1>1, <3>1, OneChainEach, Zenon
        <3>3. QED
            BY <2>2, <3>2
    <2>3. QED
        BY <2>1, <2>2
<1>4. g0 = step(g0)
    BY <1>2, <1>3
<1>5. Trail = CHOOSE g : g = step(g)
    BY DEF Trail
<1> HIDE DEF g0, step
<1>6. Trail = step(Trail)
    BY <1>4, <1>5
<1>7. QED
    BY <1>6 DEF step

\* The trail of a known state leads there.
LEMMA TrailLeads ==
  ASSUME Reached, Founded, NEW s \in DOMAIN seen
  PROVE  Leads(Trail[s], s)
<1> DEFINE T == {t \in DOMAIN seen : ~ Leads(Trail[t], t)}
<1>1. \A t \in DOMAIN seen : seen[t].via \in DOMAIN seen
    BY DEF Reached
<1>2. 0 \notin T
    <2>1. 0 \in DOMAIN seen => Trail[0] = << >>
        BY TrailDef
    <2>2. QED
        BY <2>1 DEF Leads
<1>3. ASSUME NEW t \in T, seen[t].via \notin T
      PROVE  FALSE
    <2> DEFINE v == seen[t].via
               r == Trail[v]
               a == Append(r, t)
    <2>1. t # 0 /\ v \in DOMAIN seen /\ Leads(r, v)
        BY <1>1, <1>2, <1>3
    <2>2. Trail[t] = a
        BY <2>1, TrailDef
    <2>3. t \in DOMAIN edges /\ t \in Successors(v)
        BY <2>1 DEF Reached
    <2>4. r \in Seq(DOMAIN edges)
        BY <2>1 DEF Leads
    <2> HIDE DEF r
    <2>5. /\ a \in Seq(DOMAIN edges) /\ Len(a) = Len(r) + 1 /\ Len(r) \in Nat
          /\ DOMAIN a = 1 .. Len(r) + 1 /\ DOMAIN r = 1 .. Len(r)
          /\ a[Len(r) + 1] = t /\ (\A k \in DOMAIN r : a[k] = r[k])
          /\ a # << >> /\ (r = << >> <=> Len(r) = 0)
        BY <2>3, <2>4
    <2> HIDE DEF a, v
    <2>6. \A k \in DOMAIN r : r[k] \in Successors(IF k = 1 THEN 0 ELSE r[k - 1])
        BY <2>1 DEF Leads
    <2>7. v = IF r = << >> THEN 0 ELSE r[Len(r)]
        BY <2>1 DEF Leads
    <2>8. ASSUME NEW k \in DOMAIN a
          PROVE  a[k] \in Successors(IF k = 1 THEN 0 ELSE a[k - 1])
        <3>1. CASE k \in DOMAIN r
            <4>1. a[k] = r[k] /\ (k # 1 => a[k - 1] = r[k - 1])
                BY <2>5, <3>1
            <4>2. QED
                BY <2>6, <3>1, <4>1, Zenon
        <3>2. CASE k = Len(r) + 1
            <4>1. a[k] = t /\ v = IF k = 1 THEN 0 ELSE a[k - 1]
                BY <2>5, <2>7, <3>2
            <4>2. QED
                BY <2>3, <4>1, Zenon
        <3>3. QED
            BY <2>5, <3>1, <3>2
    <2>9. Leads(a, t)
        BY <2>5, <2>8 DEF Leads
    <2>10. QED
        BY <1>3, <2>2, <2>9
<1>4. QED
    BY <1>2, <1>3 DEF Founded

\* The trail of a known state is its chain, and so passes no edge twice.
LEMMA TrailIsChain ==
  ASSUME Reached, Founded, NEW s \in DOMAIN seen
  PROVE  Chain(Trail[s], s)
<1> DEFINE T == {t \in DOMAIN seen : ~ Chain(Trail[t], t)}
<1>1. \A t \in DOMAIN seen : seen[t].via \in DOMAIN seen
    BY DEF Reached
<1>2. 0 \notin T
    <2>1. 0 \in DOMAIN seen => Trail[0] = << >>
        BY TrailDef
    <2>2. QED
        BY <2>1 DEF Chain
<1>3. ASSUME NEW t \in T, seen[t].via \notin T
      PROVE  FALSE
    <2>1. t # 0 /\ Chain(Trail[seen[t].via], seen[t].via)
        BY <1>1, <1>2, <1>3
    <2>2. Trail[t] = Append(Trail[seen[t].via], t)
        BY <2>1, TrailDef
    <2>3. QED
        BY <1>3, <2>1, <2>2, ChainLengthens
<1>4. QED
    BY <1>2, <1>3 DEF Founded

LEMMA ChainStarts ==
  ASSUME NEW r, NEW s, Chain(r, s), NEW n \in DOMAIN r
  PROVE  Chain(SubSeq(r, 1, n), r[n]) /\ Len(SubSeq(r, 1, n)) = n
<1> DEFINE f == SubSeq(r, 1, n)
<1>1. r \in Seq(DOMAIN seen \ {0}) /\ DOMAIN r = 1 .. Len(r) /\ Len(r) \in Nat
    BY DEF Chain
<1>2. /\ f \in Seq(DOMAIN seen \ {0}) /\ Len(f) = n /\ DOMAIN f = 1 .. n
      /\ \A k \in 1 .. n : f[k] = r[k]
    BY <1>1
<1> HIDE DEF f
<1>3. \A k \in DOMAIN r : seen[r[k]].via = IF k = 1 THEN 0 ELSE r[k - 1]
    BY DEF Chain
<1>4. n \in Nat /\ n # 0 /\ n <= Len(r)
    BY <1>1
<1>5. ASSUME NEW k \in DOMAIN f
      PROVE  seen[f[k]].via = IF k = 1 THEN 0 ELSE f[k - 1]
    <2>1. k \in DOMAIN r /\ f[k] = r[k] /\ (k # 1 => f[k - 1] = r[k - 1])
        BY <1>1, <1>2, <1>4
    <2>2. QED
        BY <1>3, <2>1
<1>6. f # << >> /\ f[Len(f)] = r[n]
    BY <1>2, <1>4
<1>7. Chain(f, r[n])
    BY <1>2, <1>5, <1>6 DEF Chain
<1>8. QED
    BY <1>2, <1>7 DEF f

LEMMA TrailRepeatsNothing ==
  ASSUME Reached, Founded, NEW s \in DOMAIN seen
  PROVE  \A i, j \in DOMAIN Trail[s] : Trail[s][i] = Trail[s][j] => i = j
<1> DEFINE r == Trail[s]
<1>1. Chain(r, s)
    BY TrailIsChain
<1> HIDE DEF r
<1>2. ASSUME NEW i \in DOMAIN r, NEW j \in DOMAIN r, r[i] = r[j]
      PROVE  i = j
    <2> DEFINE f == SubSeq(r, 1, i)
               g == SubSeq(r, 1, j)
    <2>1. Chain(f, r[i]) /\ Len(f) = i /\ Chain(g, r[j]) /\ Len(g) = j
        BY <1>1, ChainStarts
    <2>2. r[i] \in DOMAIN seen
        BY <1>1 DEF Chain
    <2> HIDE DEF f, g
    <2>3. f = g
        BY <1>2, <2>1, <2>2, OneChainEach
    <2>4. QED
        BY <2>1, <2>3
<1>3. QED
    BY <1>2 DEF r

-----------------------------------------------------------------------------
(* The invariant is inductive.                                             *)

LEMMA SuccessorsAre ==
  ASSUME Graph(edges), NEW s
  PROVE  /\ Successors(s) \subseteq DOMAIN edges
         /\ \A i \in Successors(s) : i # 0 /\ edges[i].src = At(s) /\ Sound(edges[i])
  BY DEF Graph, Successors

\* Waypoints snap to nodes.
LEMMA GoalIsNode ==
  ASSUME Graph(edges), Snapped
  PROVE  goal \in Nodes
<1>1. PICK giant \in IF Linked = {} THEN {{}} ELSE Giants : goal \in SnapsTo(q.to, giant)
    BY DEF Snapped
<1>2. Linked \subseteq Nodes
    <2>1. \A i \in DOMAIN edges : edges[i].src \in Nodes /\ edges[i].dst \in Nodes
        BY DEF Graph, Sound
    <2>2. QED
        BY <2>1 DEF Linked
<1>3. SnapsTo(q.to, giant) \subseteq Nodes
    BY <1>2 DEF SnapsTo, Best, Nearest
<1>4. QED
    BY <1>1, <1>3

LEMMA StepCostNat ==
  ASSUME Graph(edges), NEW s, NEW i \in DOMAIN edges
  PROVE  StepCost(s, i) \in Nat
<1>1. edges[i].base \in Nat /\ edges[i].eco \in Nat
    BY DEF Graph, Sound
<1>2. Transition(SurfaceAt(s), Surface(Tags(edges[i]))) \in Nat
    BY DEF Transition
<1>3. Weight(edges[i]) \in Nat
    BY <1>1 DEF Weight
<1>4. QED
    BY <1>2, <1>3 DEF StepCost

\* The trail costs no more than the search says.
LEMMA TrailCosts ==
  ASSUME Graph(edges), Reached, Founded, NEW s \in DOMAIN seen, NEW c, Costs(Trail[s], c)
  PROVE  Total(Trail[s], c) <= seen[s].cost
<1> DEFINE T == {t \in DOMAIN seen :
                   \E d : Costs(Trail[t], d) /\ ~ (Total(Trail[t], d) <= seen[t].cost)}
<1>1. \A t \in DOMAIN seen : seen[t].via \in DOMAIN seen /\ seen[t].cost \in Nat
    BY DEF Reached
<1>2. 0 \notin T
    <2>1. 0 \in DOMAIN seen => Trail[0] = << >> /\ seen[0].cost = 0
        BY TrailDef DEF Reached
    <2>2. QED
        BY <2>1 DEF Total
<1>3. ASSUME NEW t \in T, seen[t].via \notin T
      PROVE  FALSE
    <2> DEFINE v == seen[t].via
               r == Trail[v]
               a == Append(r, t)
    <2>1. t # 0 /\ v \in DOMAIN seen /\ Leads(r, v) /\ v \notin T
        BY <1>1, <1>2, <1>3, TrailLeads
    <2>2. Trail[t] = a
        BY <2>1, TrailDef
    <2>3. t \in DOMAIN edges /\ seen[v].cost + StepCost(v, t) <= seen[t].cost
        BY <2>1 DEF Reached
    <2>4. r \in Seq(DOMAIN edges) /\ v = IF r = << >> THEN 0 ELSE r[Len(r)]
        BY <2>1 DEF Leads
    <2>5. PICK d : Costs(a, d) /\ ~ (Total(a, d) <= seen[t].cost)
        BY <2>2
    <2>6. \A e : Costs(r, e) => Total(r, e) <= seen[v].cost
        BY <2>1
    <2> HIDE DEF r
    <2>7. /\ a \in Seq(DOMAIN edges) /\ Len(a) = Len(r) + 1 /\ Len(r) \in Nat
          /\ DOMAIN a = 1 .. Len(r) + 1 /\ DOMAIN r = 1 .. Len(r)
          /\ a[Len(r) + 1] = t /\ (\A k \in DOMAIN r : a[k] = r[k])
          /\ a # << >> /\ (r = << >> <=> Len(r) = 0)
        BY <2>3, <2>4, AppendIs, EmptyIs
    <2> HIDE DEF a, v, T
    <2>8. /\ d \in [DOMAIN a -> Int]
          /\ \A k \in DOMAIN a :
               d[k] = (IF k = 1 THEN 0 ELSE d[k - 1]) + StepCost(IF k = 1 THEN 0 ELSE a[k - 1], a[k])
        BY <2>5 DEF Costs
    <2> DEFINE e == [k \in DOMAIN r |-> d[k]]
    <2>9. Costs(r, e)
        <3>1. e \in [DOMAIN r -> Int]
            BY <2>7, <2>8
        <3>2. ASSUME NEW k \in DOMAIN r
              PROVE  e[k] = (IF k = 1 THEN 0 ELSE e[k - 1])
                              + StepCost(IF k = 1 THEN 0 ELSE r[k - 1], r[k])
            <4>1. k \in DOMAIN a /\ a[k] = r[k] /\ e[k] = d[k]
                BY <2>7
            <4>2. k # 1 => a[k - 1] = r[k - 1] /\ e[k - 1] = d[k - 1]
                BY <2>7
            <4> HIDE DEF e
            <4>3. d[k] = (IF k = 1 THEN 0 ELSE d[k - 1])
                           + StepCost(IF k = 1 THEN 0 ELSE a[k - 1], a[k])
                BY <2>8, <4>1
            <4>4. CASE k = 1
                BY <4>1, <4>3, <4>4
            <4>5. CASE k # 1
                BY <4>1, <4>2, <4>3, <4>5
            <4>6. QED
                BY <4>4, <4>5
        <3>3. QED
            BY <3>1, <3>2 DEF Costs
    <2>10. Total(a, d) = Total(r, e) + StepCost(v, t)
        <3> DEFINE n == Len(r) + 1
        <3>1. n \in DOMAIN a /\ Total(a, d) = d[n] /\ a[n] = t
            BY <2>7 DEF Total
        <3>2. d[n] = (IF n = 1 THEN 0 ELSE d[n - 1]) + StepCost(IF n = 1 THEN 0 ELSE a[n - 1], a[n])
            BY <2>8, <3>1
        <3>3. CASE r = << >>
            <4>1. n = 1 /\ v = 0 /\ Total(r, e) = 0
                BY <2>4, <2>7, <3>3 DEF Total
            <4>2. QED
                BY <3>1, <3>2, <4>1
        <3>4. CASE r # << >>
            <4>1. n # 1 /\ n - 1 = Len(r) /\ Len(r) \in DOMAIN r
                BY <2>7, <3>4
            <4>2. v = r[Len(r)] /\ a[Len(r)] = r[Len(r)] /\ Total(r, e) = d[Len(r)]
                BY <2>4, <2>7, <3>4, <4>1 DEF Total
            <4> HIDE DEF n, e
            <4>3. QED
                BY <3>1, <3>2, <4>1, <4>2
        <3>5. QED
            BY <3>3, <3>4
    <2>11. StepCost(v, t) \in Nat /\ seen[v].cost \in Nat /\ seen[t].cost \in Nat
        BY <1>1, <2>1, <2>3, StepCostNat DEF T
    <2>12. Total(r, e) \in Int
        <3>1. r # << >> => Len(r) \in DOMAIN r
            BY <2>7
        <3>2. QED
            BY <2>9, <3>1 DEF Total, Costs
    <2> HIDE DEF e
    <2>13. QED
        BY <2>3, <2>5, <2>6, <2>9, <2>10, <2>11, <2>12
<1>4. QED
    BY <1>2, <1>3 DEF Founded

LEMMA TotalIsInt ==
  ASSUME NEW r \in Seq(DOMAIN edges), NEW c, Costs(r, c)
  PROVE  Total(r, c) \in Int
<1>1. r # << >> => Len(r) \in DOMAIN r
    OBVIOUS
<1>2. QED
    BY <1>1 DEF Total, Costs

\* A pop at the goal: whatever edges lead there, somewhere along them is an
\* entry that was not preferred to this one.
LEMMA GoalIsCheapest ==
  ASSUME q \in Queries, Graph(edges), Snapped, Reached, AllDear,
         \A s \in DOMAIN seen : Listed(s) \/ Explored(s),
         NEW o \in open, Least(o), At(o.at) = goal
  PROVE  Cheapest(o.cost)
<1> SUFFICES ASSUME NEW r, NEW t, NEW c, Leads(r, t), At(t) = goal, Costs(r, c)
             PROVE  o.cost <= Total(r, c)
    BY DEF Cheapest
<1> DEFINE n == Len(r)
           S(k) == IF k = 0 THEN 0 ELSE r[k]
           C(k) == IF k = 0 THEN 0 ELSE c[k]
           E(k) == C(k) + H(At(S(k)))
<1>1. r \in Seq(DOMAIN edges) /\ n \in Nat /\ DOMAIN r = 1 .. n /\ c \in [1 .. n -> Int]
    BY DEF Leads, Costs
<1>2. \A k \in 1 .. n : S(k) \in Successors(S(k - 1)) /\ C(k) = C(k - 1) + StepCost(S(k - 1), S(k))
    <2> TAKE k \in 1 .. n
    <2>1. /\ r[k] \in Successors(IF k = 1 THEN 0 ELSE r[k - 1])
          /\ c[k] = (IF k = 1 THEN 0 ELSE c[k - 1]) + StepCost(IF k = 1 THEN 0 ELSE r[k - 1], r[k])
        BY <1>1 DEF Leads, Costs
    <2>2. k - 1 = 0 <=> k = 1
        BY <1>1
    <2>3. k # 0
        BY <1>1
    <2>4. QED
        BY <2>1, <2>2, <2>3
<1>3. \A k \in 0 .. n : C(k) \in Int
    BY <1>1
<1>4. S(0) = 0 /\ C(0) = 0 /\ S(n) = t /\ C(n) = Total(r, c)
    <2>1. r = << >> <=> n = 0
        BY <1>1, EmptyIs
    <2>2. QED
        BY <2>1 DEF Leads, Total
<1> HIDE DEF S, C
<1>5. \A i \in Nodes, m \in Nodes : Apart(q.pos[i], q.pos[m]) \in Nat
    BY WaysAre DEF Apart
<1>6. goal \in Nodes
    BY GoalIsNode
<1>7. \A i \in DOMAIN edges : /\ edges[i].src \in Nodes /\ edges[i].dst \in Nodes /\ i # 0
                              /\ H(edges[i].src) \in Nat /\ H(edges[i].dst) \in Nat
                              /\ H(edges[i].src) <= Weight(edges[i]) + H(edges[i].dst)
    <2> TAKE i \in DOMAIN edges
    <2> DEFINE e == edges[i]
    <2>1. e.src \in Nodes /\ e.dst \in Nodes /\ i # 0 /\ e.base \in Nat /\ e.eco \in Nat
        BY DEF Graph, Sound
    <2>2. q.pos[e.src] \in Int /\ q.pos[e.dst] \in Int /\ q.pos[goal] \in Int
        BY <1>6, <2>1, WaysAre
    <2>3. 10 * Apart(q.pos[e.src], q.pos[e.dst]) <= Weight(e)
        BY DEF AllDear, Dear, Weight
    <2>4. Weight(e) \in Nat
        BY <2>1 DEF Weight
    <2> HIDE DEF e
    <2>5. H(e.src) \in Nat /\ H(e.dst) \in Nat /\ H(e.src) <= Weight(e) + H(e.dst)
        BY <2>2, <2>3, <2>4 DEF H, Apart
    <2>6. QED
        BY <2>1, <2>5 DEF e
<1>8. \A k \in 1 .. n : /\ E(k - 1) <= E(k) /\ H(At(S(k - 1))) \in Nat
                       /\ H(At(S(k))) \in Nat
    <2> TAKE k \in 1 .. n
    <2> DEFINE i == S(k)
    <2>1. i \in DOMAIN edges /\ edges[i].src = At(S(k - 1))
        BY <1>2, SuccessorsAre
    <2>2. At(i) = edges[i].dst
        BY <1>7, <2>1 DEF At
    <2>3. StepCost(S(k - 1), i) >= Weight(edges[i])
        <3>1. Weight(edges[i]) \in Nat
            BY <2>1 DEF Weight, Graph, Sound
        <3>2. Transition(SurfaceAt(S(k - 1)), Surface(Tags(edges[i]))) \in Nat
            BY DEF Transition
        <3>3. QED
            BY <3>1, <3>2 DEF StepCost
    <2>4. StepCost(S(k - 1), i) \in Nat /\ Weight(edges[i]) \in Nat
        BY <2>1, StepCostNat DEF Weight, Graph, Sound
    <2>5. C(k) = C(k - 1) + StepCost(S(k - 1), i) /\ C(k - 1) \in Int /\ C(k) \in Int
        BY <1>1, <1>2, <1>3
    <2>6. H(At(S(k - 1))) \in Nat /\ H(At(i)) \in Nat /\ H(At(S(k - 1))) <= Weight(edges[i]) + H(At(i))
        BY <1>7, <2>1, <2>2
    <2>7. QED
        BY <2>3, <2>4, <2>5, <2>6
<1>9. H(At(S(n))) = 0
    BY <1>4, <1>6, WaysAre DEF H, Apart
<1>10. \A k \in 0 .. n : H(At(S(k))) \in Nat
    <2>1. \A k \in 1 .. n : H(At(S(k))) \in Nat
        BY <1>8
    <2>2. CASE n = 0
        BY <1>9, <2>2
    <2>3. CASE n # 0
        <3>1. 1 \in 1 .. n /\ 1 - 1 = 0
            BY <1>1, <2>3
        <3>2. H(At(S(0))) \in Nat
            BY <1>8, <3>1
        <3>3. QED
            BY <1>1, <2>1, <3>2
    <2>4. QED
        BY <2>2, <2>3
<1>11. \A k \in 0 .. n : E(k) <= Total(r, c)
    <2> DEFINE Bad == {j \in 0 .. n : ~ (E(n - j) <= E(n))}
    <2>1. \A k \in 0 .. n : E(k) \in Int
        BY <1>3, <1>10
    <2> HIDE DEF E
    <2>2. Bad = {}
        <3> SUFFICES ASSUME Bad # {}
                     PROVE  FALSE
            OBVIOUS
        <3>1. Bad \subseteq Nat
            BY <1>1
        <3>2. \A j \in 0 .. n : j \notin Bad => E(n - j) <= E(n)
            OBVIOUS
        <3>3. \A j \in Bad : j \in 0 .. n /\ ~ (E(n - j) <= E(n))
            OBVIOUS
        <3> HIDE DEF Bad
        <3>4. PICK j \in Bad : \A i \in Bad : j <= i
            BY <3>1, LeastExists
        <3>5. j # 0
            <4>1. n \in 0 .. n /\ n - 0 = n
                BY <1>1
            <4>2. E(n) <= E(n)
                BY <2>1, <4>1
            <4>3. QED
                BY <3>3, <3>4, <4>1, <4>2
        <3>6. j \in 1 .. n /\ j - 1 \in 0 .. n /\ ~ (j <= j - 1)
            BY <1>1, <3>3, <3>4, <3>5
        <3>7. n - (j - 1) \in 1 .. n /\ n - (j - 1) \in 0 .. n /\ (n - (j - 1)) - 1 = n - j /\ n - j \in 0 .. n
            BY <1>1, <3>6
        <3>8. E(n - j) <= E(n - (j - 1))
            <4> DEFINE m == n - (j - 1)
            <4> HIDE DEF m
            <4>1. m \in 1 .. n /\ m - 1 = n - j
                BY <3>7 DEF m
            <4>2. E(m - 1) <= E(m)
                BY <1>8, <4>1 DEF E
            <4>3. QED
                BY <4>1, <4>2 DEF m
        <3>9. E(n - (j - 1)) <= E(n)
            BY <3>2, <3>4, <3>6
        <3>10. E(n - j) \in Int /\ E(n - (j - 1)) \in Int /\ E(n) \in Int
            BY <1>1, <2>1, <3>7
        <3>11. QED
            BY <3>3, <3>4, <3>8, <3>9, <3>10
    <2>3. \A k \in 0 .. n : n - k \in 0 .. n /\ n - (n - k) = k
        BY <1>1
    <2>4. \A k \in 0 .. n : E(k) <= E(n)
        BY <2>2, <2>3
    <2>5. E(n) = Total(r, c)
        BY <1>1, <1>3, <1>4, <1>9 DEF E
    <2>6. QED
        BY <2>4, <2>5
<1>12. PICK k \in 0 .. n : S(k) \in DOMAIN seen /\ seen[S(k)].cost <= C(k) /\ Listed(S(k))
    <2> DEFINE M == {k \in 0 .. n : ~ (/\ S(k) \in DOMAIN seen /\ seen[S(k)].cost <= C(k)
                                       /\ Explored(S(k)))}
    <2>1. n \in M /\ M \subseteq Nat
        BY <1>1, <1>4 DEF Explored
    <2>2. PICK k \in M : \A i \in M : k <= i
        <3> HIDE DEF M
        <3>1. QED
            BY <2>1, LeastExists
    <2>3. S(k) \in DOMAIN seen /\ seen[S(k)].cost <= C(k)
        <3>1. CASE k = 0
            BY <1>4, <3>1 DEF Reached
        <3>2. CASE k # 0
            <4>1. k \in 1 .. n /\ k - 1 \in 0 .. n /\ ~ (k <= k - 1)
                BY <1>1, <2>2, <3>2
            <4>2. k \in 1 .. n /\ k - 1 \in 0 .. n /\ k - 1 \notin M
                <5> HIDE DEF M
                <5>1. QED
                    BY <2>2, <4>1
            <4>3. S(k - 1) \in DOMAIN seen /\ seen[S(k - 1)].cost <= C(k - 1) /\ Explored(S(k - 1))
                BY <4>2
            <4>4. S(k) \in DOMAIN seen /\ seen[S(k)].cost <= seen[S(k - 1)].cost + StepCost(S(k - 1), S(k))
                BY <1>2, <4>2, <4>3 DEF Explored
            <4>5. C(k) = C(k - 1) + StepCost(S(k - 1), S(k)) /\ C(k - 1) \in Int
                BY <1>2, <1>3, <4>2
            <4>6. StepCost(S(k - 1), S(k)) \in Nat
                BY <1>2, <4>2, SuccessorsAre, StepCostNat
            <4>7. seen[S(k)].cost \in Nat /\ seen[S(k - 1)].cost \in Nat
                BY <4>3, <4>4 DEF Reached
            <4> HIDE DEF M
            <4>8. QED
                BY <4>3, <4>4, <4>5, <4>6, <4>7
        <3>3. QED
            BY <3>1, <3>2
    <2>4. Listed(S(k))
        BY <2>2, <2>3
    <2>5. QED
        BY <2>3, <2>4
<1>13. PICK e \in open : e.at = S(k) /\ e.cost = seen[S(k)].cost
    BY <1>12 DEF Listed
<1>14. o.f <= e.f
    BY DEF Least
<1>15. e.cost \in Nat /\ e.f = e.cost + (IF e.at = 0 THEN 0 ELSE H(At(e.at)))
    BY DEF Reached
<1>16. e.f \in Nat /\ e.f <= E(k)
    BY <1>3, <1>10, <1>12, <1>13, <1>15
<1>17. o.cost \in Nat /\ o.f = o.cost
    <2>1. o.cost \in Nat /\ o.f = o.cost + (IF o.at = 0 THEN 0 ELSE H(At(o.at)))
        BY DEF Reached
    <2>2. H(At(o.at)) = 0
        BY <1>6, WaysAre DEF H, Apart
    <2>3. QED
        BY <2>1, <2>2
<1>18. E(k) <= Total(r, c) /\ E(k) \in Int /\ Total(r, c) \in Int
    BY <1>1, <1>3, <1>4, <1>10, <1>11
<1> HIDE DEF E
<1>19. QED
    BY <1>14, <1>16, <1>17, <1>18

LEMMA SameSteps ==
  ASSUME UNCHANGED <<q, edges, start, goal, seen>>
  PROVE  /\ Founded' <=> Founded
         /\ \A s : Explored(s)' <=> Explored(s)
         /\ \A r, s : Leads(r, s)' <=> Leads(r, s)
         /\ \A r, c : Costs(r, c)' <=> Costs(r, c)
         /\ \A cost : Cheapest(cost)' <=> Cheapest(cost)
         /\ AllDear' <=> AllDear
<1>1. Founded' <=> Founded
    BY DEF Founded
<1>2. \A s : Explored(s)' <=> Explored(s)
    BY SameSearch DEF Explored
<1>3. \A r, s : Leads(r, s)' <=> Leads(r, s)
    BY SameSearch DEF Leads
<1>4. \A r, c : Costs(r, c)' <=> Costs(r, c)
    BY SameSearch DEF Costs
<1>5. \A cost : Cheapest(cost)' <=> Cheapest(cost)
    BY <1>3, <1>4, SameSearch DEF Cheapest, Total
<1>6. AllDear' <=> AllDear
    BY DEF AllDear, Dear, Len1
<1>7. QED
    BY <1>1, <1>2, <1>3, <1>4, <1>5, <1>6

LEMMA InitInv ==
  RouterInit => RouterInv
<1> SUFFICES ASSUME RouterInit
             PROVE  RouterInv
    OBVIOUS
<1>1. Graph(edges)
    BY DEF RouterInit, Graph
<1>2. 0 \in 0 .. PollEvery - 1
    BY RouterAssumption
<1>3. QED
    BY <1>1, <1>2 DEF RouterInit, RouterInv

\* A graph stays one while the map is the same.
LEMMA SameMap ==
  ASSUME q' = q
  PROVE  /\ Graph(edges') => Graph(edges)'
         /\ Clear(edges') => Clear(edges)'
<1>1. Graph(edges') => Graph(edges)'
    BY DEF Graph, Sound, p, Nodes, Tags
<1>2. Clear(edges') => Clear(edges)'
    BY DEF Clear, WetAt, Within, Tags
<1>3. QED
    BY <1>1, <1>2

LEMMA MakeEdgesInv ==
  ASSUME RouterInv, MakeEdges
  PROVE  RouterInv'
<1>1. Graph(edges')
    BY MadeEdgesAreSound DEF RouterInv, MakeEdges
<1>2. Graph(edges)'
    BY <1>1, SameMap DEF MakeEdges
<1>3. QED
    BY <1>2 DEF RouterInv, MakeEdges

LEMMA PrepareInv ==
  ASSUME RouterInv, Prepare
  PROVE  RouterInv'
<1> DEFINE es == IF q.eco THEN Energised(edges) ELSE edges
           dry == OutOfWetlands(es)
<1>1. Graph(es)
    BY EnergisedIsSound DEF RouterInv
<1>2. Graph(dry) /\ Clear(dry)
    BY <1>1, WetlandsAreOut
<1>3. Graph(Rideable(dry)) /\ Clear(Rideable(dry))
    BY <1>2, RideableIsSound
<1>4. edges' = Preferred(Rideable(dry)) /\ q' = q
    BY DEF Prepare
<1>5. Graph(edges') /\ Clear(edges')
    BY <1>3, <1>4, PreferredIsSound DEF RouterInv
<1>6. Graph(edges)' /\ Clear(edges)'
    BY <1>4, <1>5, SameMap
<1>7. QED
    BY <1>6 DEF RouterInv, Prepare

LEMMA SnapInv ==
  ASSUME RouterInv, Snap
  PROVE  RouterInv'
<1>1. UNCHANGED <<q, edges, polls, cancelled>>
    BY DEF Snap
<1>2. Graph(edges)' /\ Clear(edges)'
    BY <1>1, SameGraph DEF RouterInv, Snap
<1>3. CASE phase' = "done" /\ answer' = Bare("too far") /\ open' = open
    <2>1. answer'.is = "too far"
        BY <1>3 DEF Bare
    <2>2. Answered'
        BY <2>1 DEF Answered
    <2>3. QED
        BY <1>1, <1>2, <1>3, <2>2 DEF RouterInv, Snap
<1>4. CASE phase' = "search"
    <2>1. PICK giant \in IF Linked = {} THEN {{}} ELSE Giants :
            start' \in SnapsTo(q.from, giant) /\ goal' \in SnapsTo(q.to, giant)
        BY <1>4 DEF Snap
    <2>2. /\ open' = {[f |-> 0, cost |-> 0, at |-> 0]}
          /\ seen' = [s \in {0} |-> [cost |-> 0, via |-> 0]]
        BY <1>4 DEF Snap
    <2>3. Snapped'
        BY <1>1, <2>1, SameGraph DEF Snapped
    <2>4. Reached'
        BY <2>2 DEF Reached
    <2>5. Founded'
        BY <2>2 DEF Founded
    <2>6. Listed(0)'
        BY <2>2 DEF Listed
    <2>7. Searching'
        BY <2>2, <2>3, <2>4, <2>5, <2>6 DEF Searching
    <2>8. \A o \in open' : o.at \in DOMAIN seen' /\ seen'[o.at].cost <= o.cost
        BY <2>2
    <2>9. QED
        BY <1>1, <1>2, <1>4, <2>7, <2>8 DEF RouterInv
<1>5. QED
    BY <1>3, <1>4 DEF Snap

LEMMA ReachInv ==
  ASSUME RouterInv, NEW o \in open, Reach(o)
  PROVE  RouterInv'
<1>1. UNCHANGED <<q, edges, start, goal, open, seen, polls, cancelled>>
    BY DEF Reach
<1>2. Graph(edges)' /\ Clear(edges)'
    BY <1>1, SameGraph DEF RouterInv, Reach
<1>3. Reached /\ Founded /\ o.at \in DOMAIN seen
    BY DEF RouterInv, Reach, Searching
<1>4. answer'.is = "route" /\ answer'.edges = Trail[o.at] /\ answer'.cost = o.cost /\ At(o.at) = goal
    BY DEF Reach
<1>5. Leads(answer'.edges, o.at)
    BY <1>3, <1>4, TrailLeads
<1>6. /\ \A r, s : Leads(r, s)' <=> Leads(r, s)
      /\ \A r, c : Costs(r, c)' <=> Costs(r, c)
      /\ \A cost : Cheapest(cost)' <=> Cheapest(cost)
      /\ AllDear' <=> AllDear
    BY <1>1, SameSteps
<1>7. \A c : Costs(answer'.edges, c) => Total(answer'.edges, c) <= answer'.cost
    <2>1. seen[o.at].cost \in Nat /\ seen[o.at].cost <= o.cost /\ o.cost \in Nat
        BY <1>3 DEF Reached
    <2>2. \A c : Costs(Trail[o.at], c) => Total(Trail[o.at], c) <= seen[o.at].cost
        BY <1>3, TrailCosts DEF RouterInv
    <2>3. \A c : Costs(Trail[o.at], c) => Total(Trail[o.at], c) \in Int
        BY <1>3, TrailLeads, TotalIsInt DEF Leads
    <2>4. QED
        BY <1>4, <2>1, <2>2, <2>3
<1>8. ~ cancelled /\ AllDear => Cheapest(answer'.cost)
    BY <1>4, GoalIsCheapest DEF RouterInv, Reach, Searching
<1>9. Answered'
    <2>1. answer'.is = "route" /\ phase' = "found"
        BY DEF Reach
    <2>2. /\ \A i, j \in DOMAIN answer'.edges : answer'.edges[i] = answer'.edges[j] => i = j
          /\ answer'.cost \in Nat
        BY <1>3, <1>4, TrailRepeatsNothing DEF Reached
    <2>3. \E s \in DOMAIN seen' : Leads(answer.edges, s)' /\ At(s)' = goal'
        BY <1>1, <1>3, <1>4, <1>5, SameSearch DEF Leads
    <2>4. \A c : Costs(answer.edges, c)' => Total(answer'.edges, c) <= answer'.cost
        BY <1>1, <1>7, SameSearch DEF Costs
    <2>5. ~ cancelled' /\ AllDear' => Cheapest(answer.cost)'
        BY <1>1, <1>6, <1>8, SameSearch DEF Cheapest, Leads, Costs
    <2>6. QED
        BY <2>2, <2>1, <2>3, <2>4, <2>5 DEF Answered, Total
<1>10. QED
    BY <1>1, <1>2, <1>9 DEF RouterInv, Reach

LEMMA OvertakenInv ==
  ASSUME RouterInv, NEW o \in open, Overtaken(o)
  PROVE  RouterInv'
<1>1. UNCHANGED <<q, phase, edges, start, goal, seen, polls, cancelled, answer>> /\ open' = open \ {o}
    BY DEF Overtaken
<1>2. Graph(edges)' /\ Clear(edges)'
    BY <1>1, SameGraph DEF RouterInv, Overtaken
<1>3. Searching /\ Reached
    BY DEF RouterInv, Overtaken, Searching
<1>4. Snapped' /\ Founded'
    BY <1>1, <1>3, SameSearch, SameSteps DEF Searching
<1>5. Reached'
    BY <1>1, <1>3, SameSearch DEF Reached
<1>6. ASSUME NEW s \in DOMAIN seen, Listed(s)
      PROVE  Listed(s)'
    <2>1. PICK r \in open : r.at = s /\ r.cost = seen[s].cost
        BY <1>6 DEF Listed
    <2>2. r # o
        BY <1>3, <2>1 DEF Overtaken, Reached
    <2>3. QED
        BY <1>1, <2>1, <2>2 DEF Listed
<1>7. Searching'
    BY <1>1, <1>3, <1>4, <1>5, <1>6, SameSteps DEF Searching
<1>8. QED
    BY <1>1, <1>2, <1>7 DEF RouterInv, Overtaken

LEMMA ExhaustedInv ==
  ASSUME RouterInv, Exhausted
  PROVE  RouterInv'
<1>1. UNCHANGED <<q, edges, start, goal, open, seen, polls, cancelled>> /\ phase' = "found"
    BY DEF Exhausted
<1>2. Graph(edges)' /\ Clear(edges)'
    BY <1>1, SameGraph DEF RouterInv, Exhausted
<1>3. Searching /\ 0 \in DOMAIN seen
    BY DEF RouterInv, Exhausted, Searching, Reached
<1>4. ~ cancelled => \A s \in DOMAIN seen : Explored(s)
    BY <1>3 DEF Exhausted, Searching, Listed
<1>5. answer'.is = "no route"
    BY DEF Exhausted, Bare
<1>6. Snapped' /\ \A s : Explored(s)' <=> Explored(s)
    BY <1>1, <1>3, SameSearch, SameSteps DEF Searching
<1>7. Answered'
    BY <1>1, <1>3, <1>4, <1>5, <1>6 DEF Answered
<1>8. QED
    BY <1>1, <1>2, <1>7 DEF RouterInv, Exhausted

LEMMA DeliverInv ==
  ASSUME RouterInv, Deliver
  PROVE  RouterInv'
<1>1. UNCHANGED <<q, edges, start, goal, open, seen, polls, cancelled>>
    BY DEF Deliver
<1>2. Graph(edges)' /\ Clear(edges)'
    BY <1>1, SameGraph DEF RouterInv, Deliver
<1>3. Answered'
    <2>1. CASE cancelled
        <3>1. answer'.is = "cancelled"
            BY <2>1 DEF Deliver, Bare
        <3>2. QED
            BY <3>1 DEF Answered
    <2>2. CASE ~ cancelled
        <3>1. answer' = answer /\ Answered /\ phase = "found"
            BY <2>2 DEF Deliver, RouterInv
        <3>2. Snapped' <=> Snapped
            BY <1>1, SameSearch
        <3>3. answer.is = "no route" => Snapped /\ 0 \in DOMAIN seen /\ \A s \in DOMAIN seen : Explored(s)
            BY <2>2, <3>1 DEF Answered
        <3>4. answer.is = "route" =>
                /\ \E s \in DOMAIN seen : Leads(answer.edges, s) /\ At(s) = goal
                /\ \A c : Costs(answer.edges, c) => Total(answer.edges, c) <= answer.cost
                /\ AllDear => Cheapest(answer.cost)
                /\ \A i, j \in DOMAIN answer.edges : answer.edges[i] = answer.edges[j] => i = j
                /\ answer.cost \in Nat
            BY <2>2, <3>1 DEF Answered
        <3>5. answer.is = "route" => /\ \E s \in DOMAIN seen' : Leads(answer.edges, s)' /\ At(s)' = goal'
            BY <1>1, <3>1, <3>4, SameSearch DEF Leads
        <3>6. answer.is = "route" => \A c : Costs(answer.edges, c)' => Total(answer'.edges, c) <= answer'.cost
            BY <1>1, <3>1, <3>4, SameSearch DEF Costs
        <3>7. answer.is = "route" /\ AllDear' => Cheapest(answer.cost)'
            BY <1>1, <3>1, <3>4, SameSearch, SameSteps DEF Cheapest, Leads, Costs
        <3>8. answer.is = "no route" => Snapped' /\ 0 \in DOMAIN seen' /\ \A s \in DOMAIN seen' : Explored(s)'
            BY <1>1, <3>2, <3>3, SameSteps
        <3>9. QED
            BY <3>1, <3>4, <3>5, <3>6, <3>7, <3>8 DEF Answered, Total
    <2>3. QED
        BY <2>1, <2>2
<1>4. QED
    BY <1>1, <1>2, <1>3 DEF RouterInv, Deliver

LEMMA CancelInv ==
  ASSUME RouterInv, Cancel
  PROVE  RouterInv'
<1>1. UNCHANGED <<q, phase, edges, start, goal, open, seen, polls, answer>> /\ cancelled'
    BY DEF Cancel
<1>2. Graph(edges)' /\ (Clear(edges)' <=> Clear(edges))
    BY <1>1, SameGraph DEF RouterInv
<1>3. Searching => Searching'
    <2>1. Reached => Reached'
        BY <1>1, SameSearch DEF Reached
    <2>2. QED
        BY <1>1, <2>1, SameSearch, SameSteps DEF Searching
<1>4. Answered /\ phase # "done" => Answered'
    BY <1>1, SameSearch, SameSteps DEF Answered
<1>5. QED
    BY <1>1, <1>2, <1>3, <1>4 DEF RouterInv, Cancel

\* What an expansion makes of what is known: the states it improves come from
\* the one that is expanded, the others are as they were.
LEMMA ExpandInv ==
  ASSUME RouterInv, NEW o \in open, Expand(o)
  PROVE  RouterInv'
<1> DEFINE better == IF q.plan /\ polls = 0 /\ cancelled THEN {}
                     ELSE {i \in Successors(o.at) : Improves(i, o.cost + StepCost(o.at, i))}
           cost(i) == o.cost + StepCost(o.at, i)
           entry(i) == [f |-> cost(i) + H(edges[i].dst), cost |-> cost(i), at |-> i]
<1>1. UNCHANGED <<q, phase, edges, start, goal, cancelled, answer>>
    BY DEF Expand
<1>2. o.at \in DOMAIN seen /\ o.cost \in Nat /\ seen[o.at].cost = o.cost
    BY DEF RouterInv, Searching, Reached, Expand
<1>3. better \subseteq Successors(o.at) /\ better \subseteq DOMAIN edges /\ 0 \notin better
    BY SuccessorsAre DEF RouterInv
<1>4. ASSUME NEW i \in better
      PROVE  cost(i) \in Nat /\ cost(i) >= o.cost /\ (i \in DOMAIN seen => cost(i) < seen[i].cost)
    <2>1. StepCost(o.at, i) \in Nat
        BY <1>3, StepCostNat DEF RouterInv
    <2>2. Improves(i, cost(i))
        OBVIOUS
    <2>3. QED
        BY <1>2, <2>1, <2>2 DEF Improves
<1>5. /\ DOMAIN seen' = DOMAIN seen \cup better
      /\ \A i \in better : seen'[i].cost = cost(i) /\ seen'[i].via = o.at
      /\ \A s \in DOMAIN seen \ better : seen'[s] = seen[s]
    <2>1. seen' = [s \in DOMAIN seen \cup better |->
                     IF s \in better THEN [cost |-> cost(s), via |-> o.at] ELSE seen[s]]
        BY DEF Expand
    <2> HIDE DEF better, cost
    <2>2. QED
        BY <2>1
<1>6. open' = (open \ {o}) \cup {entry(i) : i \in better}
    BY DEF Expand
<1>7. ~ cancelled => better = {i \in Successors(o.at) : Improves(i, cost(i))}
    OBVIOUS
<1>8. \A i \in better : entry(i).at = i /\ entry(i).cost = cost(i)
    OBVIOUS
<1>9. Searching /\ Reached /\ Founded /\ At(o.at) # goal
    BY DEF RouterInv, Expand, Searching
<1> HIDE DEF better, cost, entry
<1>10. o.at \notin better
    BY <1>2, <1>4
<1>11. /\ \A s : At(s)' = At(s) /\ Successors(s)' = Successors(s)
       /\ \A s, i : StepCost(s, i)' = StepCost(s, i)
       /\ \A n : H(n)' = H(n)
    BY <1>1, SameSearch
<1>12. \A s \in DOMAIN seen : seen[s].cost \in Nat /\ seen[s].via \in DOMAIN seen /\ seen'[s].cost <= seen[s].cost
    <2>1. \A s \in DOMAIN seen : seen[s].cost \in Nat /\ seen[s].via \in DOMAIN seen
        BY <1>9 DEF Reached
    <2>2. QED
        BY <1>4, <1>5, <2>1
<1>13. \A r \in open' : /\ r.at \in DOMAIN seen' /\ r.cost \in Nat /\ seen'[r.at].cost <= r.cost
                        /\ r.f = r.cost + (IF r.at = 0 THEN 0 ELSE H(At(r.at)))
    <2>1. ASSUME NEW r \in open
          PROVE  /\ r.at \in DOMAIN seen' /\ r.cost \in Nat /\ seen'[r.at].cost <= r.cost
                 /\ r.f = r.cost + (IF r.at = 0 THEN 0 ELSE H(At(r.at)))
        <3>1. /\ r.at \in DOMAIN seen /\ r.cost \in Nat /\ seen[r.at].cost <= r.cost
              /\ r.f = r.cost + (IF r.at = 0 THEN 0 ELSE H(At(r.at)))
            BY <1>9 DEF Reached
        <3>2. seen'[r.at].cost \in Nat
            BY <1>4, <1>5, <1>12, <3>1
        <3>3. QED
            BY <1>5, <1>12, <3>1, <3>2
    <2>2. ASSUME NEW i \in better
          PROVE  /\ entry(i).at \in DOMAIN seen' /\ entry(i).cost \in Nat
                 /\ seen'[entry(i).at].cost <= entry(i).cost
                 /\ entry(i).f = entry(i).cost + (IF entry(i).at = 0 THEN 0 ELSE H(At(entry(i).at)))
        <3>1. i # 0 /\ At(i) = edges[i].dst
            BY <1>3 DEF At
        <3>2. entry(i).f = cost(i) + H(At(i))
            BY <3>1 DEF entry
        <3>3. QED
            BY <1>4, <1>5, <1>8, <3>1, <3>2
    <2>3. QED
        BY <1>6, <2>1, <2>2
<1>14. Reached'
    <2>1. 0 \in DOMAIN seen' /\ seen'[0].cost = 0 /\ DOMAIN seen' \subseteq {0} \cup DOMAIN edges
        BY <1>3, <1>5, <1>9 DEF Reached
    <2>2. ASSUME NEW s \in DOMAIN seen'
          PROVE  /\ seen'[s].cost \in Nat /\ seen'[s].via \in DOMAIN seen'
                 /\ s # 0 => /\ s \in Successors(seen'[s].via)
                             /\ seen'[seen'[s].via].cost + StepCost(seen'[s].via, s) <= seen'[s].cost
        <3>1. CASE s \in better
            <4>1. seen'[o.at].cost = o.cost /\ seen'[s].cost = cost(s) /\ seen'[s].via = o.at
                BY <1>2, <1>5, <1>10, <3>1
            <4>2. cost(s) = o.cost + StepCost(o.at, s)
                BY DEF cost
            <4>3. cost(s) \in Nat
                BY <1>4, <3>1
            <4>4. seen'[o.at].cost + StepCost(o.at, s) <= seen'[s].cost
                BY <4>1, <4>2, <4>3
            <4>5. QED
                BY <1>2, <1>3, <1>5, <3>1, <4>1, <4>3, <4>4
        <3>2. CASE s \notin better
            <4>1. s \in DOMAIN seen /\ seen'[s] = seen[s]
                BY <1>5, <3>2
            <4>2. s # 0 => /\ s \in Successors(seen[s].via)
                           /\ seen[seen[s].via].cost + StepCost(seen[s].via, s) <= seen[s].cost
                BY <1>9, <4>1 DEF Reached
            <4>3. seen'[seen[s].via].cost \in Nat
                BY <1>4, <1>5, <1>12, <4>1
            <4>4. s # 0 => StepCost(seen[s].via, s) \in Nat
                BY <4>2, SuccessorsAre, StepCostNat DEF RouterInv
            <4>5. s # 0 => seen'[seen[s].via].cost + StepCost(seen[s].via, s) <= seen[s].cost
                BY <1>12, <4>1, <4>2, <4>3, <4>4
            <4>6. QED
                BY <1>5, <1>12, <4>1, <4>2, <4>5
        <3>3. QED
            BY <3>1, <3>2
    <2>3. QED
        BY <1>1, <1>11, <1>13, <2>1, <2>2 DEF Reached
<1>15. Founded'
    <2> SUFFICES ASSUME NEW T \in SUBSET DOMAIN seen', T # {}, \A t \in T : seen'[t].via \in T, 0 \notin T
                 PROVE  FALSE
        BY DEF Founded
    <2>1. CASE T \cap better = {}
        BY <1>5, <1>9, <2>1 DEF Founded
    <2>2. CASE T \cap better # {}
        \* what got no dearer than the expanded state is known from before
        <3> DEFINE U == {t \in T \cap DOMAIN seen : t \notin better /\ seen[t].cost <= o.cost}
        <3>1. o.at \in U
            BY <1>2, <1>3, <1>10, <1>5, <2>2
        <3>2. ASSUME NEW t \in U
              PROVE  seen[t].via \in U
            <4>1. seen[t].via \in T /\ seen[t].via \in DOMAIN seen
                BY <1>5, <1>12
            <4>2. seen[seen[t].via].cost <= seen[t].cost
                <5>1. /\ t \in Successors(seen[t].via)
                      /\ seen[seen[t].via].cost + StepCost(seen[t].via, t) <= seen[t].cost
                    BY <1>9 DEF Reached
                <5>2. StepCost(seen[t].via, t) \in Nat
                    BY <5>1, SuccessorsAre, StepCostNat DEF RouterInv
                <5>3. QED
                    BY <1>12, <4>1, <5>1, <5>2
            <4>3. seen[seen[t].via].cost <= o.cost
                BY <1>2, <1>12, <4>1, <4>2
            <4>4. seen[t].via \notin better
                BY <1>2, <1>4, <1>12, <4>1, <4>3
            <4>5. QED
                BY <4>1, <4>3, <4>4
        <3>3. U \in SUBSET DOMAIN seen /\ 0 \notin U
            OBVIOUS
        <3> HIDE DEF U
        <3>4. QED
            BY <1>9, <3>1, <3>2, <3>3 DEF Founded
    <2>3. QED
        BY <2>1, <2>2
<1>16. ASSUME ~ cancelled, NEW s \in DOMAIN seen'
       PROVE  Listed(s)' \/ Explored(s)'
    <2>1. CASE s \in better
        <3>1. entry(s) \in open' /\ entry(s).at = s /\ entry(s).cost = seen'[s].cost
            BY <1>5, <1>6, <1>8, <2>1
        <3>2. QED
            BY <3>1 DEF Listed
    <2>2. CASE s \notin better
        <3>1. s \in DOMAIN seen /\ seen'[s] = seen[s]
            BY <1>5, <2>2
        <3>2. Listed(s) \/ Explored(s)
            BY <1>9, <1>16, <3>1 DEF Searching
        <3>3. CASE Explored(s)
            <4>1. ASSUME NEW i \in Successors(s)
                  PROVE  i \in DOMAIN seen' /\ seen'[i].cost <= seen'[s].cost + StepCost(s, i)
                <5>1. i \in DOMAIN seen /\ seen[i].cost <= seen[s].cost + StepCost(s, i)
                    BY <3>3 DEF Explored
                <5>2. StepCost(s, i) \in Nat
                    BY SuccessorsAre, StepCostNat DEF RouterInv
                <5>3. seen'[i].cost \in Nat
                    BY <1>4, <1>5, <1>12, <5>1
                <5>4. QED
                    BY <1>5, <1>12, <3>1, <5>1, <5>2, <5>3
            <4>2. QED
                BY <1>1, <1>11, <3>3, <4>1 DEF Explored
        <3>4. CASE Listed(s)
            <4>1. PICK r \in open : r.at = s /\ r.cost = seen[s].cost
                BY <3>4 DEF Listed
            <4>2. CASE r # o
                BY <1>6, <3>1, <4>1, <4>2 DEF Listed
            <4>3. CASE r = o
                <5>1. ASSUME NEW i \in Successors(s)
                      PROVE  i \in DOMAIN seen' /\ seen'[i].cost <= seen'[s].cost + StepCost(s, i)
                    <6>1. cost(i) = seen'[s].cost + StepCost(s, i) /\ seen'[s].cost = o.cost
                        BY <1>2, <3>1, <4>1, <4>3 DEF cost
                    <6>2. StepCost(s, i) \in Nat
                        BY SuccessorsAre, StepCostNat DEF RouterInv
                    <6>3. CASE i \in better
                        BY <1>2, <1>5, <6>1, <6>2, <6>3
                    <6>4. CASE i \notin better
                        <7>1. i \in DOMAIN seen /\ ~ (cost(i) < seen[i].cost)
                            BY <1>7, <1>16, <4>1, <4>3, <6>4 DEF Improves
                        <7>2. QED
                            BY <1>2, <1>5, <1>12, <6>1, <6>2, <6>4, <7>1
                    <6>5. QED
                        BY <6>3, <6>4
                <5>2. QED
                    BY <1>1, <1>9, <1>11, <4>1, <4>3, <5>1 DEF Explored
            <4>4. QED
                BY <4>2, <4>3
        <3>5. QED
            BY <3>2, <3>3, <3>4
    <2>3. QED
        BY <2>1, <2>2
<1>17. Searching'
    BY <1>1, <1>9, <1>14, <1>15, <1>16, SameSearch DEF Searching
<1>18. polls' \in 0 .. PollEvery - 1
    <2>1. polls \in 0 .. PollEvery - 1 /\ PollEvery \in Nat \ {0}
        BY RouterAssumption DEF RouterInv
    <2>2. (polls + 1) % PollEvery \in 0 .. PollEvery - 1
        BY <2>1
    <2>3. polls' \in {(polls + 1) % PollEvery, polls}
        BY DEF Expand
    <2>4. QED
        BY <2>1, <2>2, <2>3
<1>19. Graph(edges)' /\ Clear(edges)'
    BY <1>1, SameGraph DEF RouterInv, Expand
<1>20. QED
    BY <1>1, <1>13, <1>17, <1>18, <1>19 DEF RouterInv, Expand

LEMMA NextInv ==
  RouterInv /\ [RouterNext]_routerVars => RouterInv'
<1> SUFFICES ASSUME RouterInv, [RouterNext]_routerVars
             PROVE  RouterInv'
    OBVIOUS
<1>1. CASE MakeEdges
    BY <1>1, MakeEdgesInv
<1>2. CASE Prepare
    BY <1>2, PrepareInv
<1>3. CASE Snap
    BY <1>3, SnapInv
<1>4. CASE Exhausted
    BY <1>4, ExhaustedInv
<1>5. CASE Deliver
    BY <1>5, DeliverInv
<1>6. ASSUME NEW o \in open, Reach(o) \/ Overtaken(o) \/ Expand(o)
      PROVE  RouterInv'
    BY <1>6, ReachInv, OvertakenInv, ExpandInv
<1>7. CASE Cancel
    BY <1>7, CancelInv
<1>8. CASE UNCHANGED routerVars
    <2>1. UNCHANGED <<q, phase, edges, start, goal, open, seen, polls, cancelled, answer>>
        BY <1>8 DEF routerVars
    <2>2. (Graph(edges)' <=> Graph(edges)) /\ (Clear(edges)' <=> Clear(edges))
        BY <2>1, SameGraph
    <2>3. Reached' <=> Reached
        BY <2>1, SameSearch DEF Reached
    <2>4. Searching' <=> Searching
        BY <2>1, <2>3, SameSearch, SameSteps DEF Searching, Listed
    <2>5. Answered' <=> Answered
        BY <2>1, SameSearch, SameSteps DEF Answered
    <2>6. QED
        BY <2>1, <2>2, <2>4, <2>5 DEF RouterInv
<1>9. QED
    BY <1>1, <1>2, <1>3, <1>4, <1>5, <1>6, <1>7, <1>8 DEF RouterNext, RouterStep

\* The search is well founded: what it knows leads back to the start over edges
\* the traveller may take, and what it has not yet looked at is listed.
THEOREM RouterInvariant == RouterSpec => []RouterInv
  BY InitInv, NextInv, PTL DEF RouterSpec

\* The state is well formed while the search runs, for any queries.
THEOREM RouterTypeCorrect == RouterSpec => []RouterTypeOK
<1>1. RouterInv => RouterTypeOK
    BY DEF RouterInv, RouterTypeOK, Graph, Sound
<1>2. QED
    BY <1>1, RouterInvariant, PTL

-----------------------------------------------------------------------------
(* Routes are drivable.                                                    *)

LEMMA ProfileIs ==
  ASSUME q \in Queries
  PROVE  /\ Motor(p) => p \in {"car", "truck"} /\ AccessKey(p) = "motor_vehicle"
         /\ ~ Motor(p) => p \in {"foot", "bicycle"} /\ AccessKey(p) = p
<1>1. q.traveller \in Travellers
    BY QueryAssumption
<1>2. p \in {"car", "truck", "foot", "bicycle"}
    BY <1>1 DEF p, RoutingProfile, Travellers
<1>3. QED
    BY <1>2 DEF Motor, AccessKey

\* What the profile's graph and the query's options let through is open to the
\* traveller as the tags say it.
LEMMA AllowedIsOpen ==
  ASSUME q \in Queries, NEW t, Included(p, t, FALSE), AllowedForOptions(p, t, q.opt)
  PROVE  OpenByTags(t)
<1> DEFINE own == IF Motor(p) THEN {"motorcar", "motor_vehicle", "vehicle"} ELSE {p}
           keys == <<"motorcar", "motor_vehicle", "vehicle">>
           Admitted ==
             /\ Is(t, "access", {"no"}) => \E k \in own : Is(t, k, {"yes", "destination"})
             /\ ~ Motor(p) => ~ Is(t, p, {"no"}) /\ ~ Is(t, "highway", {"motorway"}) /\ ~ Has(t, "minspeed")
             /\ Motor(p) /\ ~ IsFerry(t) =>
                  ~ Is(t, "motor_vehicle", {"no"}) /\ ~ Is(t, "highway", {"footway", "steps", "path"})
             /\ Motor(p) /\ IsFerry(t) =>
                  /\ ~ Is(t, "motorcar", {"no"})
                  /\ Is(t, "motor_vehicle", {"no"}) => Is(t, "motorcar", {"yes", "destination"})
<1>1. ASSUME ~ Motor(p)
      PROVE  Admitted
    <2>1. ~ AccessForbidden(p, t) /\ ~ Has(t, "minspeed") /\ AccessKey(p) = p
        BY <1>1, ProfileIs DEF Included, FerryAdmits
    <2>2. ~ Is(t, p, {"no"}) /\ (Is(t, "access", {"no"}) => \E k \in own : Is(t, k, {"yes", "destination"}))
        BY <1>1, <2>1 DEF AccessForbidden, Is
    <2>3. ~ Is(t, "highway", {"motorway"})
        BY <1>1 DEF AllowedForOptions, MotorwayGrade
    <2>4. QED
        BY <1>1, <2>1, <2>2, <2>3
<1>2. ASSUME Motor(p), ~ IsFerry(t)
      PROVE  Admitted
    <2>1. HighwayOk(p, t) /\ ~ AccessForbidden(p, t) /\ AccessKey(p) = "motor_vehicle"
        BY <1>2, ProfileIs DEF Included
    <2>2. /\ ~ Is(t, "motor_vehicle", {"no"})
          /\ Is(t, "access", {"no"}) => \E k \in own : Is(t, k, {"yes", "destination"})
        BY <1>2, <2>1 DEF AccessForbidden, Is
    <2>3. ~ Is(t, "highway", {"footway", "steps", "path"})
        BY <1>2, <2>1 DEF HighwayOk, Is, RoadClasses, Motor
    <2>4. QED
        BY <1>2, <2>2, <2>3
<1>3. ASSUME Motor(p), IsFerry(t)
      PROVE  Admitted
    <2>1. FerryAdmits(p, t, FALSE)
        BY <1>3 DEF Included
    <2>2. IF Present(t, keys) # {} THEN First(t, keys) \in {"yes", "destination"}
          ELSE ~ Is(t, "access", {"no"})
        BY <1>3, <2>1 DEF FerryAdmits
    <2>3. /\ Present(t, keys) = {} <=> ~ Has(t, "motorcar") /\ ~ Has(t, "motor_vehicle") /\ ~ Has(t, "vehicle")
          /\ Has(t, "motorcar") => First(t, keys) = t["motorcar"]
          /\ ~ Has(t, "motorcar") /\ Has(t, "motor_vehicle") => First(t, keys) = t["motor_vehicle"]
          /\ ~ Has(t, "motorcar") /\ ~ Has(t, "motor_vehicle") /\ Has(t, "vehicle") =>
               First(t, keys) = t["vehicle"]
        BY FirstOfThree
    <2> HIDE DEF keys
    <2>4. ~ Is(t, "motorcar", {"no"})
        BY <2>2, <2>3 DEF Is
    <2>5. Is(t, "motor_vehicle", {"no"}) => Is(t, "motorcar", {"yes", "destination"})
        BY <2>2, <2>3 DEF Is
    <2>6. Is(t, "access", {"no"}) => \E k \in own : Is(t, k, {"yes", "destination"})
        BY <1>3, <2>2, <2>3 DEF Is
    <2>7. QED
        BY <1>3, <2>4, <2>5, <2>6
<1>4. Has(t, "access_conditional") =>
        [token |-> "no", season |-> q.opt.season] \notin Range(t.access_conditional)
    <2> SUFFICES ASSUME Has(t, "access_conditional"),
                        [token |-> "no", season |-> q.opt.season] \in Range(t.access_conditional)
                 PROVE  FALSE
        OBVIOUS
    <2>1. PICK i \in DOMAIN t.access_conditional :
            t.access_conditional[i] = [token |-> "no", season |-> q.opt.season]
        BY DEF Range
    <2>2. i \in Tokens(t.access_conditional, "no", {q.opt.season})
        BY <2>1 DEF Tokens
    <2>3. SeasonallyClosed(p, t, q.opt.season)
        BY <2>2 DEF SeasonallyClosed, ConditionForbids
    <2>4. QED
        BY <2>3 DEF AllowedForOptions
<1>5. \A d \in DOMAIN q.opt.vehicle : Has(t, d) => q.opt.vehicle[d] <= t[d]
    BY DEF AllowedForOptions, Fits
<1>6. QED
    BY <1>1, <1>2, <1>3, <1>4, <1>5 DEF OpenByTags

LEMMA NodesOnAre ==
  ASSUME NEW r \in Seq(DOMAIN edges)
  PROVE  LET ns == NodesOn(r) IN
         /\ Len(ns) = Len(r) + 1 /\ ns[1] = start /\ Last(ns) = ns[Len(r) + 1]
         /\ \A k \in 1 .. Len(r) : ns[k + 1] = edges[r[k]].dst
<1> DEFINE S == {start} \cup {edges[i].dst : i \in DOMAIN edges}
           f == [k \in DOMAIN r |-> edges[r[k]].dst]
<1>1. DOMAIN r = 1 .. Len(r) /\ Len(r) \in Nat /\ \A k \in DOMAIN r : r[k] \in DOMAIN edges
    OBVIOUS
<1>2. f \in Seq(S) /\ Len(f) = Len(r) /\ \A k \in DOMAIN r : f[k] = edges[r[k]].dst
    BY <1>1
<1>3. <<start>> \in Seq(S) /\ Len(<<start>>) = 1 /\ <<start>>[1] = start
    OBVIOUS
<1>4. NodesOn(r) = <<start>> \o f
    BY DEF NodesOn
<1> HIDE DEF f, S
<1>5. Len(NodesOn(r)) = Len(r) + 1 /\ NodesOn(r)[1] = start
    BY <1>1, <1>2, <1>3, <1>4
<1>6. \A k \in 1 .. Len(r) : NodesOn(r)[k + 1] = f[k]
    BY <1>1, <1>2, <1>3, <1>4
<1>7. Last(NodesOn(r)) = NodesOn(r)[Len(r) + 1]
    BY <1>5 DEF Last
<1>8. QED
    BY <1>1, <1>2, <1>5, <1>6, <1>7

LEMMA InvDrivable ==
  RouterInv => RouteIsDrivable
<1> SUFFICES ASSUME RouterInv, Routed
             PROVE  RouteIsDrivable
    BY DEF RouteIsDrivable
<1> DEFINE r == answer.edges
           ns == NodesOn(r)
<1>1. PICK s \in DOMAIN seen : Leads(r, s) /\ At(s) = goal
    BY DEF RouterInv, Routed, Answered
<1>2. q \in Queries /\ Graph(edges) /\ Clear(edges)
    BY DEF RouterInv, Routed
<1>3. r \in Seq(DOMAIN edges) /\ DOMAIN r = 1 .. Len(r) /\ Len(r) \in Nat
    BY <1>1 DEF Leads
<1> HIDE DEF r
<1>4. /\ Len(ns) = Len(r) + 1 /\ ns[1] = start /\ Last(ns) = ns[Len(r) + 1]
      /\ \A k \in 1 .. Len(r) : ns[k + 1] = edges[r[k]].dst
    BY <1>3, NodesOnAre
<1> HIDE DEF ns
<1>5. \A k \in DOMAIN r : r[k] \in DOMAIN edges /\ r[k] # 0
    BY <1>2, <1>3 DEF Graph
<1>6. ASSUME NEW k \in DOMAIN r
      PROVE  /\ r[k] \in Successors(IF k = 1 THEN 0 ELSE r[k - 1])
             /\ At(IF k = 1 THEN 0 ELSE r[k - 1]) = ns[k]
    <2>1. r[k] \in Successors(IF k = 1 THEN 0 ELSE r[k - 1])
        BY <1>1 DEF Leads
    <2>2. CASE k = 1
        BY <1>4, <2>1, <2>2 DEF At
    <2>3. CASE k # 1
        <3>1. k - 1 \in 1 .. Len(r) /\ (k - 1) + 1 = k
            BY <1>3, <2>3
        <3>2. ns[k] = edges[r[k - 1]].dst /\ r[k - 1] # 0
            BY <1>3, <1>4, <1>5, <3>1
        <3>3. QED
            BY <2>1, <2>3, <3>2 DEF At
    <2>4. QED
        BY <2>2, <2>3
<1>7. Last(ns) = goal
    <2>1. CASE r = << >>
        BY <1>1, <1>4, <2>1 DEF Leads, At
    <2>2. CASE r # << >>
        <3>1. Len(r) \in 1 .. Len(r) /\ s = r[Len(r)]
            BY <1>1, <1>3, <2>2 DEF Leads
        <3>2. s # 0 /\ Last(ns) = edges[s].dst
            BY <1>3, <1>4, <1>5, <3>1
        <3>3. QED
            BY <1>1, <3>2 DEF At
    <2>3. QED
        BY <2>1, <2>2
<1>8. ASSUME NEW k \in DOMAIN r
      PROVE  LET e == edges[r[k]]
                 t == Tags(e)
             IN  /\ e.src = ns[k]
                 /\ OneWay(t) => e.src = q.ways[e.way].a
                 /\ OpenByTags(t)
                 /\ Boardwalk(t) \/ \A w \in q.wet : w.hard => ~ Within(e, w)
    <2> DEFINE e == edges[r[k]]
    <2>1. /\ e.src = ns[k] /\ Sound(e)
          /\ AllowedForOptions(p, Tags(e), q.opt)
        BY <1>2, <1>5, <1>6 DEF Successors, Graph
    <2>2. WetAt(e) # "hard" \/ Boardwalk(Tags(e))
        BY <1>2, <1>5 DEF Clear
    <2> HIDE DEF e
    <2>3. OpenByTags(Tags(e))
        BY <1>2, <2>1, AllowedIsOpen DEF Sound
    <2>4. Boardwalk(Tags(e)) \/ \A w \in q.wet : w.hard => ~ Within(e, w)
        BY <2>2 DEF WetAt
    <2>5. OneWay(Tags(e)) => e.src = q.ways[e.way].a
        BY <2>1 DEF Sound
    <2>6. QED
        BY <2>1, <2>3, <2>4, <2>5 DEF e
<1>9. ASSUME NEW k \in 2 .. (Len(ns) - 1), ns[k] # start, ns[k] \in DOMAIN q.nodeTags,
             Has(q.nodeTags[ns[k]], "barrier")
      PROVE  /\ ~ Is(q.nodeTags[ns[k]], AccessKey(p), {"no"})
             /\ Is(q.nodeTags[ns[k]], "access", {"no"}) => Is(q.nodeTags[ns[k]], AccessKey(p), {"yes"})
    <2>1. k \in DOMAIN r
        BY <1>3, <1>4
    <2>2. Passable(ns[k])
        BY <1>6, <2>1 DEF Successors
    <2>3. ~ AccessForbidden(p, q.nodeTags[ns[k]])
        BY <1>9, <2>2 DEF Passable, Blocked, BarrierForbids
    <2>4. QED
        BY <2>3 DEF AccessForbidden, Is
<1>10. QED
    BY <1>7, <1>8, <1>9 DEF RouteIsDrivable, r, ns

\* A delivered route leads from start to goal over ways open to the traveller,
\* in their direction, off hard wetland and through no barrier, for any
\* queries (A* of surface_quality.rs and the graph of builder.rs).
THEOREM RoutesAreDrivable == RouterSpec => []RouteIsDrivable
  BY RouterInvariant, InvDrivable, PTL

-----------------------------------------------------------------------------
(* Nobody is stranded beside the main network.                             *)

ClosedUnder(ns) == \A i \in DOMAIN edges : edges[i].src \in ns <=> edges[i].dst \in ns

\* A component lies in every closed set of nodes that its node lies in, and
\* so it is made of ends of edges.
LEMMA ComponentIs ==
  ASSUME Graph(edges), NEW n \in Linked
  PROVE  /\ \A ns \in SUBSET Nodes : ClosedUnder(ns) /\ n \in ns => Component(n) \subseteq ns
         /\ Linked \subseteq Nodes /\ Component(n) \subseteq Linked
<1>1. \A ns \in SUBSET Nodes : ClosedUnder(ns) /\ n \in ns => Component(n) \subseteq ns
    BY DEF Component, ClosedUnder
<1>2. Linked \subseteq Nodes
    <2>1. \A i \in DOMAIN edges : edges[i].src \in Nodes /\ edges[i].dst \in Nodes
        BY DEF Graph, Sound
    <2>2. QED
        BY <2>1 DEF Linked
<1>3. ClosedUnder(Linked)
    BY DEF ClosedUnder, Linked
<1>4. QED
    BY <1>1, <1>2, <1>3

\* Two nodes of a component are reached by the same explorations.
LEMMA ExploredCoversComponent ==
  ASSUME Graph(edges), Blocked = {}, 0 \in DOMAIN seen,
         \A s \in DOMAIN seen : Explored(s),
         \A i \in DOMAIN edges :
           /\ AllowedForOptions(p, Tags(edges[i]), q.opt)
           /\ \E j \in DOMAIN edges : edges[j].src = edges[i].dst /\ edges[j].dst = edges[i].src,
         NEW n \in Linked, start \in Component(n), goal \in Component(n)
  PROVE  FALSE
<1> DEFINE R == {m \in Nodes : \E s \in DOMAIN seen : At(s) = m}
<1>1. \A i \in DOMAIN edges : i # 0 /\ edges[i].src \in Nodes /\ edges[i].dst \in Nodes
    BY DEF Graph, Sound
<1>2. ASSUME NEW i \in DOMAIN edges, edges[i].src \in R
      PROVE  edges[i].dst \in R
    <2>1. PICK s \in DOMAIN seen : At(s) = edges[i].src
        BY <1>2
    <2>2. i \in Successors(s)
        BY <2>1 DEF Successors, Passable
    <2>3. i \in DOMAIN seen
        BY <2>2 DEF Explored
    <2>4. QED
        BY <1>1, <2>3 DEF At
<1>3. ClosedUnder(R)
    <2>1. ASSUME NEW i \in DOMAIN edges, edges[i].dst \in R
          PROVE  edges[i].src \in R
        <3>1. PICK j \in DOMAIN edges : edges[j].src = edges[i].dst /\ edges[j].dst = edges[i].src
            OBVIOUS
        <3>2. edges[j].dst \in R
            BY <1>2, <2>1, <3>1
        <3>3. QED
            BY <3>1, <3>2
    <2>2. QED
        BY <1>2, <2>1 DEF ClosedUnder
<1>4. n \in Nodes /\ Component(n) \subseteq Nodes
    BY ComponentIs
<1>5. start \in R /\ goal \notin R
    <2>1. At(0) = start
        BY DEF At
    <2>2. QED
        BY <1>4, <2>1 DEF Explored
<1>6. ClosedUnder(Nodes \ R)
    BY <1>1, <1>3 DEF ClosedUnder
<1> HIDE DEF R
<1>7. R \subseteq Nodes
    BY DEF R
<1>8. CASE n \in R
    BY <1>3, <1>5, <1>7, <1>8, ComponentIs
<1>9. CASE n \notin R
    <2>1. n \in Nodes \ R /\ Nodes \ R \in SUBSET Nodes
        BY <1>4, <1>9
    <2>2. Component(n) \subseteq Nodes \ R
        BY <1>6, <2>1, ComponentIs
    <2>3. QED
        BY <1>5, <2>2
<1>10. QED
    BY <1>8, <1>9

LEMMA InvRouted ==
  RouterInv => RoadsideIsRouted
<1> SUFFICES ASSUME RouterInv, Unrouted, Blocked = {}, \E c \in Giants : Giants = {c},
                    \A i \in DOMAIN edges :
                      /\ AllowedForOptions(p, Tags(edges[i]), q.opt)
                      /\ \E j \in DOMAIN edges : edges[j].src = edges[i].dst /\ edges[j].dst = edges[i].src,
                    NEW nf \in UNION Giants, ~ (Apart(q.pos[nf], q.from) > MaxSnap(p)),
                    NEW nt \in UNION Giants, ~ (Apart(q.pos[nt], q.to) > MaxSnap(p))
             PROVE  FALSE
    BY DEF RoadsideIsRouted
<1>1. q \in Queries /\ Graph(edges) /\ Snapped /\ 0 \in DOMAIN seen /\ \A s \in DOMAIN seen : Explored(s)
    BY DEF RouterInv, Unrouted, Answered
<1>2. PICK n \in Linked : nf \in Component(n) /\ Component(n) \in Giants
    BY DEF Giants
<1>3. Giants = {Component(n)}
    BY <1>2
<1>4. nt \in Component(n) /\ Linked # {} /\ Component(n) # {}
    BY <1>2, <1>3
<1>5. Component(n) \subseteq Linked /\ Linked \subseteq Nodes
    BY <1>1, ComponentIs
<1>6. /\ Apart(q.pos[nf], q.from) <= MaxSnap(p)
      /\ Apart(q.pos[nt], q.to) <= MaxSnap(p)
    <2>1. q.pos[nf] \in Int /\ q.pos[nt] \in Int /\ q.from \in Int /\ q.to \in Int
        BY <1>1, <1>2, <1>4, <1>5, QueryAssumption DEF Nodes
    <2>2. MaxSnap(p) \in Nat
        BY <1>1, ProfileIs DEF MaxSnap
    <2>3. QED
        BY <2>1, <2>2 DEF Apart
<1>7. start \in SnapsTo(q.from, Component(n)) /\ goal \in SnapsTo(q.to, Component(n))
    BY <1>1, <1>3, <1>4 DEF Snapped
<1>8. ASSUME NEW x, NEW m \in Component(n), Apart(q.pos[m], x) <= MaxSnap(p)
      PROVE  SnapsTo(x, Component(n)) \subseteq Component(n)
    <2> DEFINE near == {k \in {l \in Linked : Apart(q.pos[l], x) <= MaxSnap(p)} :
                          Component(n) = {} \/ k \in Component(n)}
    <2>1. m \in near
        BY <1>5, <1>8
    <2>2. SnapsTo(x, Component(n)) = Best(near, x)
        BY <1>4, <2>1 DEF SnapsTo
    <2>3. QED
        BY <1>4, <2>2 DEF Best
<1>9. start \in Component(n) /\ goal \in Component(n)
    BY <1>2, <1>4, <1>6, <1>7, <1>8
<1>10. QED
    BY <1>1, <1>9, ExploredCoversComponent

\* Where every road runs both ways and is open, whoever has the one largest
\* network within reach of both waypoints gets a route, for any queries
\* (nearest_routable and recompute_weak_components of builder.rs).
THEOREM RoadsidesAreRouted == RouterSpec => []RoadsideIsRouted
  BY RouterInvariant, InvRouted, PTL

-----------------------------------------------------------------------------
(* The cheapest route.                                                     *)

\* What a recursion of relaxations may hold: costs of some search states.
Known == UNION {[S -> Nat] : S \in SUBSET ({0} \cup DOMAIN edges)}

LEMMA KnownIs ==
  ASSUME NEW d
  PROVE  d \in Known <=> d \in [DOMAIN d -> Nat] /\ DOMAIN d \subseteq {0} \cup DOMAIN edges
  BY DEF Known

LEMMA MinIsLeast ==
  ASSUME NEW T, T \subseteq Nat, T # {}
  PROVE  Min(T) \in T /\ \A x \in T : Min(T) <= x
  BY LeastExists DEF Min

\* Relaxing keeps what is known, adds what follows, and takes the least.
LEMMA RelaxIs ==
  ASSUME Graph(edges), NEW d \in Known
  PROVE  /\ Relax(d) \in Known
         /\ DOMAIN d \subseteq DOMAIN Relax(d)
         /\ \A s \in DOMAIN d : Relax(d)[s] <= d[s]
         /\ \A s \in DOMAIN d : \A i \in Successors(s) :
              i \in DOMAIN Relax(d) /\ Relax(d)[i] <= d[s] + StepCost(s, i)
         /\ \A i \in DOMAIN Relax(d) :
              \/ i \in DOMAIN d /\ Relax(d)[i] = d[i]
              \/ \E s \in DOMAIN d : i \in Successors(s) /\ Relax(d)[i] = d[s] + StepCost(s, i)
<1> DEFINE reached == UNION {Successors(s) : s \in DOMAIN d}
           costs(i) == {d[s] : s \in {i} \cap DOMAIN d}
                         \cup {d[s] + StepCost(s, i) : s \in {t \in DOMAIN d : i \in Successors(t)}}
           S == DOMAIN d \cup reached
<1>1. d \in [DOMAIN d -> Nat] /\ DOMAIN d \subseteq {0} \cup DOMAIN edges
    BY KnownIs
<1>2. \A s : \A i \in Successors(s) : i \in DOMAIN edges /\ StepCost(s, i) \in Nat
    BY SuccessorsAre, StepCostNat
<1>3. ASSUME NEW i \in S
      PROVE  costs(i) \subseteq Nat /\ costs(i) # {}
    <2>1. costs(i) \subseteq Nat
        BY <1>1, <1>2
    <2>2. costs(i) # {}
        <3>1. CASE i \in DOMAIN d
            <4>1. d[i] \in costs(i)
                BY <3>1
            <4>2. QED
                BY <4>1
        <3>2. CASE i \in reached
            <4>1. PICK s \in DOMAIN d : i \in Successors(s)
                BY <3>2
            <4>2. d[s] + StepCost(s, i) \in costs(i)
                BY <4>1
            <4>3. QED
                BY <4>2
        <3>3. QED
            BY <3>1, <3>2
    <2>3. QED
        BY <2>1, <2>2
<1>4. Relax(d) = [i \in S |-> Min(costs(i))]
    BY DEF Relax
<1>5. S \subseteq {0} \cup DOMAIN edges
    BY <1>1, <1>2
<1>6. \A s \in DOMAIN d : s \in S /\ d[s] \in costs(s)
    OBVIOUS
<1>7. \A s \in DOMAIN d : \A i \in Successors(s) : i \in S /\ d[s] + StepCost(s, i) \in costs(i)
    OBVIOUS
<1>8. \A i \in S : \A x \in costs(i) :
        \/ i \in DOMAIN d /\ x = d[i]
        \/ \E s \in DOMAIN d : i \in Successors(s) /\ x = d[s] + StepCost(s, i)
    OBVIOUS
<1> HIDE DEF costs, S
<1>9. \A i \in S : Min(costs(i)) \in costs(i) /\ Min(costs(i)) \in Nat /\ \A x \in costs(i) : Min(costs(i)) <= x
    <2> TAKE i \in S
    <2>1. costs(i) \subseteq Nat /\ costs(i) # {}
        BY <1>3
    <2>2. Min(costs(i)) \in costs(i) /\ \A x \in costs(i) : Min(costs(i)) <= x
        BY <2>1, MinIsLeast
    <2>3. QED
        BY <2>1, <2>2
<1>10. DOMAIN Relax(d) = S /\ \A i \in S : Relax(d)[i] = Min(costs(i))
    BY <1>4
<1>11. Relax(d) \in [S -> Nat]
    BY <1>4, <1>9
<1>12. Relax(d) \in Known
    BY <1>5, <1>10, <1>11, KnownIs
<1>13. QED
    BY <1>6, <1>7, <1>8, <1>9, <1>10, <1>12

\* The recursion of LeastCosts has a solution.
LEMMA LeastCostsDef ==
  ASSUME Graph(edges)
  PROVE  /\ \A k \in Nat : LeastCosts[k] \in Known
         /\ LeastCosts[0] = [s \in {0} |-> 0]
         /\ \A k \in Nat : LeastCosts[k + 1] = Relax(LeastCosts[k])
<1> DEFINE base == [s \in {0} |-> 0]
           step == [d \in Known |-> Relax(d)]
           F(g) == [k \in Nat |-> IF k = 0 THEN base ELSE Relax(g[k - 1])]
<1>1. base \in Known
    BY KnownIs
<1>2. step \in [Known -> Known] /\ \A d \in Known : step[d] = Relax(d)
    BY RelaxIs
<1> HIDE DEF step, base
<1>3. PICK g \in [Nat -> Known] : g[0] = base /\ \A k \in Nat : g[k + 1] = step[g[k]]
    BY <1>1, <1>2, NatRecursion
<1>4. \A k \in Nat : g[k] \in Known /\ g[k + 1] = Relax(g[k])
    BY <1>2, <1>3
<1>5. ASSUME NEW k \in Nat
      PROVE  g[k] = IF k = 0 THEN base ELSE Relax(g[k - 1])
    <2>1. CASE k = 0
        BY <1>3, <2>1
    <2>2. CASE k # 0
        <3>1. k - 1 \in Nat /\ (k - 1) + 1 = k
            BY <2>2
        <3>2. g[(k - 1) + 1] = Relax(g[k - 1])
            BY <1>4, <3>1
        <3>3. QED
            BY <2>2, <3>1, <3>2
    <2>3. QED
        BY <2>1, <2>2
<1>6. g = F(g)
    BY <1>5
<1>7. LeastCosts = CHOOSE f : f = F(f)
    BY DEF LeastCosts, base
<1> HIDE DEF F
<1>8. LeastCosts = F(LeastCosts)
    BY <1>6, <1>7
<1>9. \A k \in Nat : LeastCosts[k] = IF k = 0 THEN base ELSE Relax(LeastCosts[k - 1])
    BY <1>8 DEF F
<1>10. LeastCosts[0] = base /\ \A k \in Nat : LeastCosts[k + 1] = Relax(LeastCosts[k])
    <2>1. \A k \in Nat : k + 1 \in Nat /\ k + 1 # 0 /\ (k + 1) - 1 = k
        OBVIOUS
    <2>2. QED
        BY <1>9, <2>1
<1>11. \A k \in Nat : LeastCosts[k] \in Known
    <2> DEFINE Bad == {k \in Nat : LeastCosts[k] \notin Known}
    <2> SUFFICES ASSUME Bad # {}
                 PROVE  FALSE
        OBVIOUS
    <2>1. PICK k \in Bad : \A i \in Bad : k <= i
        <3>1. Bad \subseteq Nat
            OBVIOUS
        <3> HIDE DEF Bad
        <3>2. QED
            BY <3>1, LeastExists
    <2>2. k # 0
        BY <1>1, <1>10
    <2>3. k - 1 \in Nat /\ ~ (k <= k - 1)
        BY <2>2
    <2>4. LeastCosts[k - 1] \in Known
        BY <2>1, <2>3
    <2>5. LeastCosts[k] = Relax(LeastCosts[k - 1])
        BY <1>9, <2>2
    <2>6. QED
        BY <2>4, <2>5, RelaxIs
<1>12. QED
    BY <1>10, <1>11 DEF base

\* Following one more edge.
LEMMA LeadsOn ==
  ASSUME Graph(edges), NEW r, NEW s, NEW c, Leads(r, s), Costs(r, c), NEW i \in Successors(s)
  PROVE  /\ Leads(Append(r, i), i)
         /\ \E d : Costs(Append(r, i), d) /\ Total(Append(r, i), d) = Total(r, c) + StepCost(s, i)
<1> DEFINE a == Append(r, i)
           n == Len(r)
           d == [k \in 1 .. n + 1 |-> IF k = n + 1 THEN Total(r, c) + StepCost(s, i) ELSE c[k]]
<1>1. r \in Seq(DOMAIN edges) /\ i \in DOMAIN edges /\ StepCost(s, i) \in Nat /\ Total(r, c) \in Int
    BY SuccessorsAre, StepCostNat, TotalIsInt DEF Leads
<1>2. n \in Nat /\ DOMAIN r = 1 .. n /\ (r = << >> <=> n = 0)
    BY <1>1
<1>3. /\ a \in Seq(DOMAIN edges) /\ Len(a) = n + 1 /\ a # << >> /\ a[n + 1] = i
      /\ DOMAIN a = 1 .. n + 1 /\ \A k \in DOMAIN r : a[k] = r[k]
    BY <1>1, AppendIs
<1>4. /\ \A k \in DOMAIN r : r[k] \in Successors(IF k = 1 THEN 0 ELSE r[k - 1])
      /\ s = IF r = << >> THEN 0 ELSE r[n]
    BY DEF Leads
<1>5. /\ c \in [1 .. n -> Int]
      /\ \A k \in 1 .. n :
           c[k] = (IF k = 1 THEN 0 ELSE c[k - 1]) + StepCost(IF k = 1 THEN 0 ELSE r[k - 1], r[k])
      /\ Total(r, c) = IF r = << >> THEN 0 ELSE c[n]
    BY <1>2 DEF Costs, Total
<1> HIDE DEF a
<1>6. /\ d \in [1 .. n + 1 -> Int] /\ d[n + 1] = Total(r, c) + StepCost(s, i)
      /\ \A k \in 1 .. n : d[k] = c[k]
    BY <1>1, <1>2, <1>5
<1> HIDE DEF d
<1>7. ASSUME NEW k \in 1 .. n + 1
      PROVE  /\ a[k] \in Successors(IF k = 1 THEN 0 ELSE a[k - 1])
             /\ d[k] = (IF k = 1 THEN 0 ELSE d[k - 1]) + StepCost(IF k = 1 THEN 0 ELSE a[k - 1], a[k])
    <2>1. CASE k \in 1 .. n
        <3>1. a[k] = r[k] /\ d[k] = c[k] /\ (k # 1 => a[k - 1] = r[k - 1] /\ d[k - 1] = c[k - 1])
            <4>1. k \in 1 .. n /\ (k # 1 => k - 1 \in 1 .. n)
                BY <1>2, <2>1
            <4>2. \A l \in 1 .. n : a[l] = r[l] /\ d[l] = c[l]
                BY <1>2, <1>3, <1>6
            <4>3. QED
                BY <4>1, <4>2
        <3>2. r[k] \in Successors(IF k = 1 THEN 0 ELSE r[k - 1])
            BY <1>2, <1>4, <2>1
        <3>3. c[k] = (IF k = 1 THEN 0 ELSE c[k - 1]) + StepCost(IF k = 1 THEN 0 ELSE r[k - 1], r[k])
            BY <1>5, <2>1
        <3>4. CASE k = 1
            BY <3>1, <3>2, <3>3, <3>4
        <3>5. CASE k # 1
            BY <3>1, <3>2, <3>3, <3>5
        <3>6. QED
            BY <3>4, <3>5
    <2>2. CASE k = n + 1
        <3>1. CASE n = 0
            <4>1. k = 1 /\ a[k] = i /\ s = 0 /\ d[k] = 0 + StepCost(0, i)
                BY <1>2, <1>3, <1>4, <1>5, <1>6, <2>2, <3>1
            <4>2. QED
                BY <4>1
        <3>2. CASE n # 0
            <4>1. k # 1 /\ k - 1 = n /\ n \in 1 .. n
                BY <1>2, <2>2, <3>2
            <4>2. a[k] = i /\ a[n] = s /\ d[n] = Total(r, c)
                BY <1>2, <1>3, <1>4, <1>5, <1>6, <2>2, <3>2, <4>1
            <4>3. QED
                BY <1>6, <2>2, <4>1, <4>2
        <3>3. QED
            BY <3>1, <3>2
    <2>3. QED
        BY <1>2, <2>1, <2>2
<1>8. Leads(a, i)
    BY <1>3, <1>7 DEF Leads
<1>9. Costs(a, d) /\ Total(a, d) = Total(r, c) + StepCost(s, i)
    BY <1>3, <1>6, <1>7 DEF Costs, Total
<1>10. QED
    BY <1>8, <1>9 DEF a

\* What is listed is what some edges cost.
LEMMA LeastCostsAreCosts ==
  ASSUME Graph(edges), NEW n \in Nat, NEW t \in DOMAIN LeastCosts[n]
  PROVE  \E r, c : Leads(r, t) /\ Costs(r, c) /\ Total(r, c) = LeastCosts[n][t]
<1> DEFINE Paid(d) == \A s \in DOMAIN d : \E r, c : Leads(r, s) /\ Costs(r, c) /\ Total(r, c) = d[s]
           Bad == {k \in Nat : ~ Paid(LeastCosts[k])}
<1>1. \A k \in Nat : LeastCosts[k] \in Known
    BY LeastCostsDef
<1>2. Bad = {}
    <2> SUFFICES ASSUME Bad # {}
                 PROVE  FALSE
        OBVIOUS
    <2>1. PICK k \in Bad : \A i \in Bad : k <= i
        <3>1. Bad \subseteq Nat
            OBVIOUS
        <3> HIDE DEF Bad
        <3>2. QED
            BY <3>1, LeastExists
    <2>2. k # 0
        <3>1. Leads(<< >>, 0) /\ Costs(<< >>, << >>) /\ Total(<< >>, << >>) = 0
            BY DEF Leads, Costs, Total
        <3>2. \A s \in DOMAIN LeastCosts[0] : s = 0 /\ LeastCosts[0][s] = 0
            BY LeastCostsDef
        <3>3. Paid(LeastCosts[0])
            BY <3>1, <3>2
        <3>4. QED
            BY <3>3
    <2>3. k - 1 \in Nat /\ (k - 1) + 1 = k /\ ~ (k <= k - 1)
        BY <2>2
    <2> DEFINE d == LeastCosts[k - 1]
    <2>4. d \in Known /\ Paid(d) /\ LeastCosts[k] = Relax(d)
        <3>1. k - 1 \notin Bad
            BY <2>1, <2>3
        <3>2. Paid(d)
            BY <2>3, <3>1
        <3>3. LeastCosts[(k - 1) + 1] = Relax(d)
            BY <2>3, LeastCostsDef
        <3>4. QED
            BY <1>1, <2>3, <3>2, <3>3
    <2> HIDE DEF d
    <2>5. ASSUME NEW i \in DOMAIN Relax(d)
          PROVE  \E r, c : Leads(r, i) /\ Costs(r, c) /\ Total(r, c) = Relax(d)[i]
        <3>1. CASE i \in DOMAIN d /\ Relax(d)[i] = d[i]
            BY <2>4, <3>1
        <3>2. CASE \E s \in DOMAIN d : i \in Successors(s) /\ Relax(d)[i] = d[s] + StepCost(s, i)
            <4>1. PICK s \in DOMAIN d : i \in Successors(s) /\ Relax(d)[i] = d[s] + StepCost(s, i)
                BY <3>2
            <4>2. PICK r, c : Leads(r, s) /\ Costs(r, c) /\ Total(r, c) = d[s]
                BY <2>4
            <4>3. /\ Leads(Append(r, i), i)
                  /\ \E e : Costs(Append(r, i), e) /\ Total(Append(r, i), e) = d[s] + StepCost(s, i)
                BY <4>1, <4>2, LeadsOn
            <4>4. QED
                BY <4>1, <4>3
        <3>3. QED
            BY <2>4, <3>1, <3>2, RelaxIs
    <2>6. QED
        BY <2>4, <2>5
<1>3. QED
    BY <1>2

\* The states and the costs along a route, from the start on.
StateAt(r, k) == IF k = 0 THEN 0 ELSE r[k]
SpentAt(c, k) == IF k = 0 THEN 0 ELSE c[k]

LEMMA AlongRoute ==
  ASSUME NEW r, NEW t, NEW c, Leads(r, t), Costs(r, c)
  PROVE  /\ Len(r) \in Nat
         /\ StateAt(r, 0) = 0 /\ StateAt(r, Len(r)) = t
         /\ SpentAt(c, 0) = 0 /\ SpentAt(c, Len(r)) = Total(r, c)
         /\ \A k \in 0 .. Len(r) : SpentAt(c, k) \in Int
         /\ \A k \in 1 .. Len(r) :
              /\ StateAt(r, k) \in Successors(StateAt(r, k - 1))
              /\ SpentAt(c, k) = SpentAt(c, k - 1) + StepCost(StateAt(r, k - 1), StateAt(r, k))
<1> DEFINE n == Len(r)
<1>1. r \in Seq(DOMAIN edges) /\ n \in Nat /\ DOMAIN r = 1 .. n /\ c \in [1 .. n -> Int]
    BY DEF Leads, Costs
<1>2. ASSUME NEW k \in 1 .. n
      PROVE  /\ StateAt(r, k) \in Successors(StateAt(r, k - 1))
             /\ SpentAt(c, k) = SpentAt(c, k - 1) + StepCost(StateAt(r, k - 1), StateAt(r, k))
    <2>1. /\ r[k] \in Successors(IF k = 1 THEN 0 ELSE r[k - 1])
          /\ c[k] = (IF k = 1 THEN 0 ELSE c[k - 1]) + StepCost(IF k = 1 THEN 0 ELSE r[k - 1], r[k])
        BY <1>1 DEF Leads, Costs
    <2>2. k # 0 /\ (k - 1 = 0 <=> k = 1)
        BY <1>1
    <2>3. QED
        BY <2>1, <2>2 DEF StateAt, SpentAt
<1>3. \A k \in 0 .. n : SpentAt(c, k) \in Int
    BY <1>1 DEF SpentAt
<1>4. StateAt(r, n) = t /\ SpentAt(c, n) = Total(r, c)
    <2>1. r = << >> <=> n = 0
        BY <1>1, EmptyIs
    <2>2. QED
        BY <2>1 DEF Leads, Total, StateAt, SpentAt
<1>5. QED
    BY <1>1, <1>2, <1>3, <1>4 DEF StateAt, SpentAt

\* No route of n edges or fewer costs less than what is listed.
LEMMA LeastCostsAreLeast ==
  ASSUME Graph(edges), NEW r, NEW t, NEW c, Leads(r, t), Costs(r, c), NEW n \in Nat, Len(r) <= n
  PROVE  t \in DOMAIN LeastCosts[n] /\ LeastCosts[n][t] <= Total(r, c)
<1> DEFINE m == Len(r)
           S(k) == StateAt(r, k)
           C(k) == SpentAt(c, k)
           L(k) == LeastCosts[k]
<1>1. /\ m \in Nat /\ S(0) = 0 /\ S(m) = t /\ C(0) = 0 /\ C(m) = Total(r, c)
      /\ \A k \in 0 .. m : C(k) \in Int
      /\ \A k \in 1 .. m : S(k) \in Successors(S(k - 1)) /\ C(k) = C(k - 1) + StepCost(S(k - 1), S(k))
    BY AlongRoute
<1> HIDE DEF m, S, C
<1>2. \A k \in Nat : L(k) \in Known /\ L(k + 1) = Relax(L(k))
    BY LeastCostsDef
<1>3. L(0) = [s \in {0} |-> 0]
    BY LeastCostsDef
<1> HIDE DEF L
<1>4. \A k \in Nat : \A s \in DOMAIN L(k) : L(k)[s] \in Nat
    <2> TAKE k \in Nat
    <2>1. L(k) \in [DOMAIN L(k) -> Nat]
        BY <1>2, KnownIs
    <2>2. QED
        BY <2>1
<1>5. \A k \in Nat : \A s \in DOMAIN L(k) : s \in DOMAIN L(k + 1) /\ L(k + 1)[s] <= L(k)[s]
    BY <1>2, RelaxIs
<1>6. \A k \in Nat : \A s \in DOMAIN L(k) : \A i \in Successors(s) :
        i \in DOMAIN L(k + 1) /\ L(k + 1)[i] <= L(k)[s] + StepCost(s, i)
    BY <1>2, RelaxIs
<1> DEFINE Bad == {k \in 0 .. m : ~ (S(k) \in DOMAIN L(k) /\ L(k)[S(k)] <= C(k))}
<1>7. Bad = {}
    <2> SUFFICES ASSUME Bad # {}
                 PROVE  FALSE
        OBVIOUS
    <2>1. PICK k \in Bad : \A i \in Bad : k <= i
        <3>1. Bad \subseteq Nat
            OBVIOUS
        <3> HIDE DEF Bad
        <3>2. QED
            BY <3>1, LeastExists
    <2>2. k # 0
        BY <1>1, <1>3
    <2>3. k \in 1 .. m /\ k - 1 \in Nat /\ k - 1 \in 0 .. m /\ k \in 0 .. m /\ (k - 1) + 1 = k /\ ~ (k <= k - 1)
        BY <1>1, <2>2
    <2> DEFINE j == k - 1
    <2> HIDE DEF j
    <2>4. j \in Nat /\ j \in 0 .. m /\ j + 1 = k /\ ~ (k <= j)
        BY <2>3 DEF j
    <2>5. S(j) \in DOMAIN L(j) /\ L(j)[S(j)] <= C(j)
        BY <2>1, <2>4
    <2>6. S(k) \in Successors(S(j)) /\ C(k) = C(j) + StepCost(S(j), S(k)) /\ C(j) \in Int /\ C(k) \in Int
        BY <1>1, <2>3, <2>4 DEF j
    <2>7. S(k) \in DOMAIN L(k) /\ L(k)[S(k)] <= L(j)[S(j)] + StepCost(S(j), S(k))
        BY <1>6, <2>4, <2>5, <2>6
    <2>8. StepCost(S(j), S(k)) \in Nat
        BY <2>6, SuccessorsAre, StepCostNat
    <2>9. L(k)[S(k)] \in Nat /\ L(j)[S(j)] \in Nat
        BY <1>4, <2>4, <2>5, <2>7
    <2>10. L(k)[S(k)] <= C(k)
        <3> HIDE DEF Bad
        <3>1. QED
            BY <2>5, <2>6, <2>7, <2>8, <2>9
    <2>11. QED
        BY <2>7, <2>10
<1>8. t \in DOMAIN L(m) /\ L(m)[t] <= Total(r, c)
    BY <1>1, <1>7
<1> HIDE DEF Bad
<1> DEFINE Worse == {k \in Nat : m <= k /\ ~ (t \in DOMAIN L(k) /\ L(k)[t] <= Total(r, c))}
<1>9. Worse = {}
    <2> SUFFICES ASSUME Worse # {}
                 PROVE  FALSE
        OBVIOUS
    <2>1. PICK k \in Worse : \A i \in Worse : k <= i
        <3>1. Worse \subseteq Nat
            OBVIOUS
        <3> HIDE DEF Worse
        <3>2. QED
            BY <3>1, LeastExists
    <2>2. k # m
        BY <1>8
    <2> DEFINE j == k - 1
    <2>3. j \in Nat /\ m <= j /\ j + 1 = k /\ ~ (k <= j)
        BY <1>1, <2>2
    <2> HIDE DEF j
    <2>4. t \in DOMAIN L(j) /\ L(j)[t] <= Total(r, c)
        BY <2>1, <2>3
    <2>5. t \in DOMAIN L(k) /\ L(k)[t] <= L(j)[t]
        BY <1>5, <2>3, <2>4
    <2>6. L(k)[t] \in Nat /\ L(j)[t] \in Nat /\ Total(r, c) \in Int
        <3>1. Total(r, c) \in Int
            BY <1>1
        <3>2. QED
            BY <1>4, <2>3, <2>4, <2>5, <3>1
    <2>7. L(k)[t] <= Total(r, c)
        <3> HIDE DEF Worse
        <3>1. QED
            BY <2>4, <2>5, <2>6
    <2>8. QED
        BY <2>5, <2>7
<1>10. QED
    BY <1>9 DEF L, m

\* Whatever edges follow each other, they cost something.
LEMMA RouteHasCosts ==
  ASSUME Graph(edges), NEW r, NEW t, Leads(r, t)
  PROVE  \E c : Costs(r, c)
<1> DEFINE n == Len(r)
           Pre(k, c) == /\ c \in [1 .. k -> Int]
                        /\ \A j \in 1 .. k : c[j] = (IF j = 1 THEN 0 ELSE c[j - 1])
                                                + StepCost(IF j = 1 THEN 0 ELSE r[j - 1], r[j])
           Bad == {k \in 0 .. n : ~ \E c : Pre(k, c)}
<1>1. r \in Seq(DOMAIN edges) /\ n \in Nat /\ DOMAIN r = 1 .. n
    BY DEF Leads
<1>2. Bad = {}
    <2> SUFFICES ASSUME Bad # {}
                 PROVE  FALSE
        OBVIOUS
    <2>1. PICK k \in Bad : \A i \in Bad : k <= i
        <3>1. Bad \subseteq Nat
            OBVIOUS
        <3> HIDE DEF Bad
        <3>2. QED
            BY <3>1, LeastExists
    <2>2. k # 0
        <3>1. Pre(0, [j \in 1 .. 0 |-> 0])
            OBVIOUS
        <3>2. QED
            BY <3>1
    <2> DEFINE j == k - 1
    <2>3. j \in Nat /\ j \in 0 .. n /\ j + 1 = k /\ k \in 1 .. n /\ ~ (k <= j)
        BY <1>1, <2>2
    <2> HIDE DEF j
    <2>4. PICK c : Pre(j, c)
        BY <2>1, <2>3
    <2> DEFINE price == StepCost(IF k = 1 THEN 0 ELSE r[k - 1], r[k])
               now == (IF k = 1 THEN 0 ELSE c[j]) + price
               d == [i \in 1 .. k |-> IF i = k THEN now ELSE c[i]]
    <2>5. price \in Nat
        <3>1. r[k] \in DOMAIN edges
            BY <1>1, <2>3
        <3>2. QED
            BY <3>1, StepCostNat
    <2>6. now \in Int
        <3>1. k # 1 => c[j] \in Int
            BY <2>3, <2>4
        <3> HIDE DEF price
        <3>2. QED
            BY <2>5, <3>1
    <2> HIDE DEF now
    <2>7. d \in [1 .. k -> Int] /\ d[k] = now /\ \A i \in 1 .. j : d[i] = c[i]
        BY <2>3, <2>4, <2>6
    <2> HIDE DEF d
    <2>8. ASSUME NEW i \in 1 .. k
          PROVE  d[i] = (IF i = 1 THEN 0 ELSE d[i - 1]) + StepCost(IF i = 1 THEN 0 ELSE r[i - 1], r[i])
        <3>1. CASE i = k
            <4>1. k # 1 => d[k - 1] = c[j]
                BY <2>3, <2>7
            <4> HIDE DEF price
            <4>2. d[i] = (IF k = 1 THEN 0 ELSE d[k - 1]) + price
                BY <2>7, <3>1, <4>1 DEF now
            <4>3. QED
                BY <3>1, <4>2 DEF price
        <3>2. CASE i # k
            <4>1. i \in 1 .. j /\ (i # 1 => i - 1 \in 1 .. j)
                BY <2>3, <3>2
            <4>2. c[i] = (IF i = 1 THEN 0 ELSE c[i - 1]) + StepCost(IF i = 1 THEN 0 ELSE r[i - 1], r[i])
                BY <2>4, <4>1
            <4>3. d[i] = c[i] /\ (i # 1 => d[i - 1] = c[i - 1])
                BY <2>7, <4>1
            <4>4. CASE i = 1
                BY <4>2, <4>3, <4>4
            <4>5. CASE i # 1
                BY <4>2, <4>3, <4>5
            <4>6. QED
                BY <4>4, <4>5
        <3>3. QED
            BY <3>1, <3>2
    <2>9. Pre(k, d)
        BY <2>7, <2>8
    <2>10. QED
        BY <2>9
<1>3. PICK c : Pre(n, c)
    BY <1>1, <1>2
<1>4. Costs(r, c)
    BY <1>1, <1>3 DEF Costs
<1>5. QED
    BY <1>4

\* Where all that is known is explored, no edges lead to the goal.
LEMMA NothingLeadsThere ==
  ASSUME Graph(edges), 0 \in DOMAIN seen, \A s \in DOMAIN seen : Explored(s),
         NEW r, NEW t, Leads(r, t)
  PROVE  At(t) # goal
<1>1. PICK c : Costs(r, c)
    BY RouteHasCosts
<1> DEFINE n == Len(r)
           S(k) == StateAt(r, k)
           Bad == {k \in 0 .. n : S(k) \notin DOMAIN seen}
<1>2. /\ n \in Nat /\ S(0) = 0 /\ S(n) = t
      /\ \A k \in 1 .. n : S(k) \in Successors(S(k - 1))
    BY <1>1, AlongRoute
<1> HIDE DEF n, S
<1>3. Bad = {}
    <2> SUFFICES ASSUME Bad # {}
                 PROVE  FALSE
        OBVIOUS
    <2>1. PICK k \in Bad : \A i \in Bad : k <= i
        <3>1. Bad \subseteq Nat
            OBVIOUS
        <3> HIDE DEF Bad
        <3>2. QED
            BY <3>1, LeastExists
    <2>2. k # 0
        BY <1>2
    <2>3. k \in 1 .. n /\ k - 1 \in 0 .. n /\ ~ (k <= k - 1)
        BY <1>2, <2>2
    <2>4. S(k - 1) \in DOMAIN seen
        BY <2>1, <2>3
    <2>5. S(k) \in Successors(S(k - 1))
        BY <1>2, <2>3
    <2>6. S(k) \in DOMAIN seen
        BY <2>4, <2>5 DEF Explored
    <2>7. QED
        BY <2>6
<1>4. t \in DOMAIN seen
    BY <1>2, <1>3
<1>5. QED
    BY <1>4 DEF Explored

\* A route that passes no edge twice has no more edges than there are.
LEMMA RouteIsShort ==
  ASSUME IsFiniteSet(DOMAIN edges), NEW r \in Seq(DOMAIN edges),
         \A i, j \in DOMAIN r : r[i] = r[j] => i = j
  PROVE  Len(r) \in Nat /\ Cardinality(DOMAIN edges) \in Nat /\ Len(r) <= Cardinality(DOMAIN edges)
<1>1. Len(r) \in Nat /\ DOMAIN r = 1 .. Len(r) /\ r \in [1 .. Len(r) -> DOMAIN edges]
    OBVIOUS
<1>2. r \in Injection(1 .. Len(r), DOMAIN edges)
    BY <1>1 DEF Injection, IsInjective
<1>3. Cardinality(1 .. Len(r)) <= Cardinality(DOMAIN edges)
    BY <1>2, FS_Injection
<1>4. Cardinality(1 .. Len(r)) = Len(r)
    BY <1>1, FS_Interval
<1>5. QED
    BY <1>1, <1>3, <1>4, FS_CardinalityType

-----------------------------------------------------------------------------
(* No edge is cheaper than the rest of the distance it covers.             *)

LEMMA ShareIsNoLess ==
  ASSUME NEW n \in Nat, NEW num \in Nat
  PROVE  /\ Share(n, 5, 1) >= n /\ Share(n, 5, 1) \in Nat
         /\ num >= 1000 => Share(n, num, 1000) >= n /\ Share(n, num, 1000) \in Nat
<1>1. Share(n, 5, 1) >= n /\ Share(n, 5, 1) \in Nat
    BY DEF Share
<1>2. ASSUME num >= 1000
      PROVE  Share(n, num, 1000) >= n /\ Share(n, num, 1000) \in Nat
    <2> DEFINE a == n \div 1000
               b == n % 1000
               more == num - 1000
    <2>1. a \in Nat /\ b \in Nat /\ more \in Nat /\ n = a * 1000 + b /\ num = 1000 + more
        BY <1>2
    <2>2. Share(n, num, 1000) = a * num + (b * num) \div 1000
        BY DEF Share
    <2> HIDE DEF a, b, more
    <2>3. a * num = a * 1000 + a * more /\ b * num = b * 1000 + b * more
        BY <2>1
    <2>4. a * more \in Nat /\ b * more \in Nat
        BY <2>1
    <2> DEFINE am == a * more
               bm == b * more
    <2>5. am \in Nat /\ bm \in Nat /\ a * num = a * 1000 + am /\ b * num = b * 1000 + bm
        BY <2>3, <2>4
    <2> HIDE DEF am, bm
    <2>6. Share(n, num, 1000) = (a * 1000 + am) + (b * 1000 + bm) \div 1000
        BY <2>2, <2>5
    <2>7. (b * 1000 + bm) \div 1000 >= b /\ (b * 1000 + bm) \div 1000 \in Nat
        BY <2>1, <2>5
    <2>8. QED
        BY <2>1, <2>5, <2>6, <2>7
<1>3. QED
    BY <1>1, <1>2

LEMMA WaysAreLong ==
  ASSUME q \in Queries
  PROVE  \A w \in DOMAIN q.ways :
           LET way == q.ways[w]
               chord == Apart(q.pos[way.a], q.pos[way.b])
           IN  /\ chord \in Nat /\ chord <= way.len
               /\ chord = Apart(q.pos[way.b], q.pos[way.a])
<1> SUFFICES ASSUME NEW w \in DOMAIN q.ways
             PROVE  LET way == q.ways[w]
                        chord == Apart(q.pos[way.a], q.pos[way.b])
                    IN  /\ chord \in Nat /\ chord <= way.len
                        /\ chord = Apart(q.pos[way.b], q.pos[way.a])
    OBVIOUS
<1> DEFINE x == q.pos[q.ways[w].a]
           y == q.pos[q.ways[w].b]
           len == q.ways[w].len
<1>1. x \in Int /\ y \in Int /\ len \in Nat
    BY WaysAre
<1>2. x - y \in (- len) .. len
    BY QueryAssumption
<1> HIDE DEF x, y, len
<1>3. Apart(x, y) \in Nat /\ Apart(x, y) <= len /\ Apart(x, y) = Apart(y, x)
    BY <1>1, <1>2 DEF Apart
<1>4. QED
    BY <1>3 DEF x, y, len

LEMMA MadeEdgesAreDear ==
  ASSUME q \in Queries, FerriesAreSlow, NEW i \in Travelled
  PROVE  Dear(EdgeOf(i))
<1> DEFINE w == WayOf(i)
           way == q.ways[w]
           chord == Apart(q.pos[way.a], q.pos[way.b])
           weight == BaseWeight(p, way.tags, way.len)
           e == EdgeOf(i)
<1>1. w \in DOMAIN q.ways
    BY WaysAre DEF Travelled, WayOf
<1>2. /\ chord \in Nat /\ chord <= way.len /\ way.len \in Nat
      /\ chord = Apart(q.pos[way.b], q.pos[way.a])
    BY <1>1, WaysAre, WaysAreLong
<1>3. IsFerry(way.tags) /\ Has(way.tags, "duration") =>
        10 * chord <= DriveEquivalent(way.tags.duration) /\ way.tags.duration \in Nat
    BY <1>1, WaysAre DEF FerriesAreSlow
<1>4. e.base = weight /\ e.eco = weight /\ Apart(q.pos[e.src], q.pos[e.dst]) = chord /\ Len1(e) = way.len
    BY <1>2 DEF EdgeOf, Len1
<1> DEFINE len == way.len
           tags == way.tags
<1>5. weight = IF IsFerry(tags) THEN (IF Has(tags, "duration") THEN DriveEquivalent(tags.duration) ELSE len * 800)
                                       + (IF Motor(p) THEN DriveEquivalent(10) ELSE 0)
               ELSE len * 100
    BY DEF BaseWeight, FerryWeight
<1>6. Has(tags, "duration") => (tags.duration \in Nat => DriveEquivalent(tags.duration) \in Nat)
    BY DEF DriveEquivalent
<1>7. DriveEquivalent(10) \in Nat
    BY DEF DriveEquivalent
<1> HIDE DEF chord, len, weight, e, tags
<1>8. 10 * chord <= weight
    <2>1. chord \in Nat /\ chord <= len /\ len \in Nat
        BY <1>2 DEF len
    <2>2. IsFerry(tags) /\ Has(tags, "duration") =>
            10 * chord <= DriveEquivalent(tags.duration) /\ DriveEquivalent(tags.duration) \in Nat
        BY <1>3, <1>6 DEF tags
    <2>3. QED
        BY <1>5, <1>7, <2>1, <2>2
<1>9. QED
    BY <1>2, <1>4, <1>8 DEF Dear, e

\* What costs as much as a dear edge, and lies where it lies, is one.
LEMMA DearerIsDear ==
  ASSUME q \in Queries, NEW e, Sound(e), Dear(e), NEW base \in Nat, NEW eco \in Nat,
         e.base <= base, e.eco <= eco \/ 10 * Apart(q.pos[e.src], q.pos[e.dst]) <= eco,
         NEW d, d = [e EXCEPT !.base = base, !.eco = eco]
  PROVE  Dear(d)
<1>1. d.src = e.src /\ d.dst = e.dst /\ d.base = base /\ d.eco = eco /\ Len1(d) = Len1(e)
    BY DEF Sound, Len1
<1>2. e.base \in Nat /\ e.eco \in Nat /\ Apart(q.pos[e.src], q.pos[e.dst]) \in Nat
    <2>1. e.base \in Nat /\ e.eco \in Nat /\ e.src \in Nodes /\ e.dst \in Nodes
        BY DEF Sound
    <2>2. QED
        BY <2>1, WaysAre DEF Apart
<1> DEFINE chord == Apart(q.pos[e.src], q.pos[e.dst])
<1>3. chord <= Len1(e) /\ 10 * chord <= e.base /\ 10 * chord <= e.eco
    BY DEF Dear
<1> HIDE DEF chord
<1>4. 10 * chord <= base /\ 10 * chord <= eco
    BY <1>2, <1>3 DEF chord
<1>5. QED
    BY <1>1, <1>3, <1>4 DEF Dear, chord

LEMMA ScaledIsDear ==
  ASSUME q \in Queries, NEW e, Sound(e), Dear(e), NEW num \in Nat, NEW den,
         (num = 5 /\ den = 1) \/ (num >= 1000 /\ den = 1000)
  PROVE  Dear(Scaled(e, num, den))
<1> DEFINE base == Share(e.base, num, den)
           eco == Share(e.eco, num, den)
<1>1. e.base \in Nat /\ e.eco \in Nat
    BY DEF Sound
<1>2. base \in Nat /\ eco \in Nat /\ e.base <= base /\ e.eco <= eco
    <2>1. \A x \in Nat : Share(x, num, den) >= x /\ Share(x, num, den) \in Nat
        <3>1. CASE num = 5 /\ den = 1
            BY <3>1, ShareIsNoLess
        <3>2. CASE num >= 1000 /\ den = 1000
            BY <3>2, ShareIsNoLess
        <3>3. QED
            BY <3>1, <3>2
    <2>2. base >= e.base /\ base \in Nat /\ eco >= e.eco /\ eco \in Nat
        BY <1>1, <2>1
    <2> HIDE DEF base, eco
    <2>3. QED
        BY <1>1, <2>2
<1>3. Scaled(e, num, den) = [e EXCEPT !.base = base, !.eco = eco]
    BY <1>1 DEF Scaled, Sound
<1> DEFINE d == Scaled(e, num, den)
<1> HIDE DEF base, eco, d
<1>4. d = [e EXCEPT !.base = base, !.eco = eco]
    BY <1>3 DEF d
<1>5. Dear(d)
    BY <1>2, <1>4, DearerIsDear, ZenonT(60)
<1>6. QED
    BY <1>5 DEF d

LEMMA EnergisedIsDear ==
  ASSUME q \in Queries, NEW es, Graph(es), NEW i \in DOMAIN es, Dear(es[i])
  PROVE  Dear(Energised(es)[i])
<1> DEFINE e == es[i]
           len == Len1(e)
           eco == EcoWeight(len, e.dh)
           chord == Apart(q.pos[e.src], q.pos[e.dst])
<1>1. Sound(e)
    BY DEF Graph
<1>2. len \in Nat /\ e.dh \in Int /\ e.base \in Nat
    BY <1>1, WaysAre DEF Len1, Sound
<1>3. eco \in Nat
    BY <1>2, EcoWeightNat
<1>4. Energised(es)[i] = [e EXCEPT !.base = e.base, !.eco = eco]
    BY <1>1 DEF Energised, Sound
<1>5. 490 * len <= eco
    <2> DEFINE flat == len * 49000
               climb == e.dh * 14710 * (IF e.dh >= 0 THEN 100 ELSE Regen)
               a == flat + climb
               b == flat \div 100
    <2>1. a \in Int /\ b \in Nat /\ b = 490 * len
        BY <1>2 DEF Regen
    <2>2. eco = Max({a, b})
        BY DEF EcoWeight
    <2> HIDE DEF a, b, eco, len
    <2>3. eco \in {a, b} /\ eco >= b
        BY <2>1, <2>2, MaxOfTwo
    <2>4. QED
        BY <2>1, <2>3
<1>6. chord \in Nat /\ chord <= len
    <2>1. e.src \in Nodes /\ e.dst \in Nodes
        BY <1>1 DEF Sound
    <2>2. QED
        BY <2>1, WaysAre DEF Apart, Dear
<1> DEFINE d == Energised(es)[i]
           base == e.base
<1>7. 10 * chord <= eco
    <2> HIDE DEF chord, eco, len
    <2>1. QED
        BY <1>2, <1>3, <1>5, <1>6
<1>8. d = [e EXCEPT !.base = base, !.eco = eco] /\ base \in Nat /\ e.base <= base
    BY <1>2, <1>4
<1>9. Dear(e)
    OBVIOUS
<1> HIDE DEF e, d, eco, base, len
<1>10. Dear(d)
    BY <1>1, <1>3, <1>7, <1>8, <1>9, DearerIsDear, ZenonT(60)
<1>11. QED
    BY <1>10 DEF d

\* What is prepared from dear edges is dear.
LEMMA PreparedIsDear ==
  ASSUME q \in Queries, NEW es, Graph(es), \A i \in DOMAIN es : Dear(es[i])
  PROVE  LET dry == OutOfWetlands(IF q.eco THEN Energised(es) ELSE es)
             ready == Preferred(Rideable(dry))
         IN  \A i \in DOMAIN ready : Dear(ready[i])
<1> DEFINE fs == IF q.eco THEN Energised(es) ELSE es
           dry == OutOfWetlands(fs)
           fit == Rideable(dry)
           ready == Preferred(fit)
<1>1. Graph(fs) /\ DOMAIN fs = DOMAIN es /\ \A i \in DOMAIN fs : Dear(fs[i])
    <2>1. Graph(Energised(es)) /\ DOMAIN Energised(es) = DOMAIN es
        BY EnergisedIsSound DEF Energised
    <2>2. \A i \in DOMAIN es : Dear(Energised(es)[i])
        BY EnergisedIsDear
    <2>3. QED
        BY <2>1, <2>2
<1> HIDE DEF fs
<1>2. Graph(dry) /\ Clear(dry) /\ DOMAIN dry \subseteq DOMAIN fs
    BY <1>1, WetlandsAreOut DEF OutOfWetlands
<1>3. ASSUME NEW i \in DOMAIN dry
      PROVE  Dear(dry[i])
    <2>1. i \in DOMAIN fs /\ Sound(fs[i]) /\ Dear(fs[i])
        BY <1>1, <1>2 DEF Graph
    <2>2. dry[i] \in {fs[i], Scaled(fs[i], 5, 1)}
        BY DEF OutOfWetlands
    <2>3. Dear(Scaled(fs[i], 5, 1))
        BY <2>1, ScaledIsDear
    <2>4. QED
        BY <2>1, <2>2, <2>3
<1> HIDE DEF dry
<1>4. Graph(fit) /\ Clear(fit)
    BY <1>2, RideableIsSound
<1>5. DOMAIN fit \subseteq DOMAIN dry /\ \A i \in DOMAIN fit : fit[i] = dry[i]
    BY DEF Rideable
<1> HIDE DEF fit
<1>6. CASE ~ SurfaceCounts
    <2>1. ready = fit
        BY <1>6 DEF Preferred
    <2>2. \A i \in DOMAIN ready : Dear(ready[i])
        BY <1>1, <1>2, <1>3, <1>5, <2>1
    <2>3. QED
        BY <2>2 DEF ready, fit, dry, fs
<1>7. CASE SurfaceCounts
    <2>1. DOMAIN ready = DOMAIN fit
        BY <1>7 DEF Preferred
    <2>2. ASSUME NEW i \in DOMAIN fit
          PROVE  Dear(ready[i])
        <3> DEFINE t == Tags(fit[i])
                   num == SurfaceTenths(q.traveller, Surface(t)) * UnpostedHundredths(q.traveller, t)
        <3>1. q.traveller \in {"car", "motorcycle", "truck", "mobilehome"}
            BY <1>7, QueryAssumption DEF SurfaceCounts, Motor, p, RoutingProfile, Travellers
        <3>2. SurfaceTenths(q.traveller, Surface(t)) \in 10 .. 50
            BY <3>1, SurfaceType DEF SurfaceTenths, SurfaceTable, Good
        <3>3. UnpostedHundredths(q.traveller, t) \in {100, 110, 115}
            BY DEF UnpostedHundredths
        <3>4. num \in Nat /\ num >= 1000
            BY <3>2, <3>3
        <3>5. ready[i] = Scaled(fit[i], num, 1000)
            BY <1>7 DEF Preferred
        <3> HIDE DEF num
        <3>6. Sound(fit[i]) /\ Dear(fit[i])
            BY <1>3, <1>4, <1>5 DEF Graph
        <3>7. QED
            BY <3>4, <3>5, <3>6, ScaledIsDear
    <2>3. \A i \in DOMAIN ready : Dear(ready[i])
        BY <1>1, <1>2, <1>5, <2>1, <2>2
    <2>4. QED
        BY <2>3 DEF ready, fit, dry, fs
<1>8. QED
    BY <1>6, <1>7

LEMMA EdgesStep ==
  ASSUME RouterInv, [RouterNext]_routerVars, IsFiniteSet(DOMAIN edges)
  PROVE  IsFiniteSet(DOMAIN edges)' /\ (FerriesAreSlow /\ AllDear => AllDear')
<1>1. CASE MakeEdges
    <2>1. edges' = [i \in Travelled |-> EdgeOf(i)] /\ q' = q /\ q \in Queries
        BY <1>1 DEF MakeEdges, RouterInv
    <2>2. Travelled \subseteq 1 .. 2 * Len(q.ways) /\ Len(q.ways) \in Nat
        BY <2>1, WaysAre DEF Travelled
    <2>3. IsFiniteSet(Travelled)
        <3>1. 1 \in Int /\ 2 * Len(q.ways) \in Int
            BY <2>2
        <3>2. IsFiniteSet(1 .. 2 * Len(q.ways))
            BY <3>1, FS_Interval
        <3>3. QED
            BY <2>2, <3>2, FS_Subset
    <2>4. FerriesAreSlow => \A i \in Travelled : Dear(EdgeOf(i))
        BY <2>1, MadeEdgesAreDear
    <2>5. QED
        BY <2>1, <2>3, <2>4 DEF AllDear, Dear, Len1
<1>2. CASE Prepare
    <2> DEFINE ready == Preferred(Rideable(OutOfWetlands(IF q.eco THEN Energised(edges) ELSE edges)))
    <2>1. edges' = ready /\ q' = q /\ q \in Queries /\ Graph(edges)
        BY <1>2 DEF Prepare, RouterInv
    <2>2. DOMAIN ready \subseteq DOMAIN edges
        <3>1. DOMAIN Energised(edges) = DOMAIN edges
            BY DEF Energised
        <3>2. \A es : DOMAIN OutOfWetlands(es) \subseteq DOMAIN es /\ DOMAIN Rideable(es) \subseteq DOMAIN es
            BY DEF OutOfWetlands, Rideable
        <3>3. \A es : DOMAIN Preferred(es) = DOMAIN es
            BY DEF Preferred
        <3>4. QED
            BY <3>1, <3>2, <3>3
    <2>3. AllDear => \A i \in DOMAIN ready : Dear(ready[i])
        BY <2>1, PreparedIsDear DEF AllDear
    <2> HIDE DEF ready
    <2>4. QED
        BY <2>1, <2>2, <2>3, FS_Subset DEF AllDear, Dear, Len1
<1>3. CASE UNCHANGED <<q, edges>>
    BY <1>3 DEF AllDear, Dear, Len1
<1>4. QED
    BY <1>1, <1>2, <1>3 DEF RouterNext, RouterStep, Snap, Exhausted, Deliver, Reach, Overtaken, Expand, Cancel, routerVars

LEMMA InvCheapest ==
  ASSUME RouterInv, IsFiniteSet(DOMAIN edges), Routed => AllDear
  PROVE  RouteIsCheapest
<1> DEFINE n == Cardinality(DOMAIN edges)
           d == LeastCosts[n]
<1>1. Graph(edges)
    BY DEF RouterInv
<1>2. n \in Nat
    BY FS_CardinalityType
<1>3. GoalCosts = {d[s] : s \in {t \in DOMAIN d : At(t) = goal}}
    BY DEF GoalCosts
<1> HIDE DEF n, d
<1>4. \A s \in DOMAIN d : \E r, c : Leads(r, s) /\ Costs(r, c) /\ Total(r, c) = d[s]
    BY <1>1, <1>2, LeastCostsAreCosts DEF d
<1>5. ASSUME Routed
      PROVE  answer.cost \in GoalCosts /\ \A c \in GoalCosts : answer.cost <= c
    <2> DEFINE r == answer.edges
    <2>1. PICK s \in DOMAIN seen : Leads(r, s) /\ At(s) = goal
        BY <1>5 DEF RouterInv, Routed, Answered
    <2>2. /\ \A c : Costs(r, c) => Total(r, c) <= answer.cost
          /\ Cheapest(answer.cost)
          /\ \A i, j \in DOMAIN r : r[i] = r[j] => i = j
          /\ answer.cost \in Nat
        BY <1>5 DEF RouterInv, Routed, Answered
    <2> HIDE DEF r
    <2>3. PICK c : Costs(r, c)
        BY <1>1, <2>1, RouteHasCosts
    <2>4. Len(r) \in Nat /\ Len(r) <= n /\ r \in Seq(DOMAIN edges)
        BY <2>1, <2>2, RouteIsShort DEF Leads, n
    <2>5. s \in DOMAIN d /\ d[s] <= Total(r, c)
        BY <1>1, <1>2, <2>1, <2>3, <2>4, LeastCostsAreLeast DEF d
    <2>6. \A t \in DOMAIN d : At(t) = goal => answer.cost <= d[t]
        BY <1>4, <2>2 DEF Cheapest
    <2>7. Total(r, c) \in Int /\ Total(r, c) <= answer.cost
        BY <2>2, <2>3, <2>4, TotalIsInt
    <2>8. d[s] \in Nat
        <3>1. d \in Known
            BY <1>1, <1>2, LeastCostsDef DEF d
        <3>2. d \in [DOMAIN d -> Nat]
            BY <3>1, KnownIs
        <3>3. QED
            BY <2>5, <3>2
    <2>9. answer.cost = d[s]
        BY <2>1, <2>2, <2>5, <2>6, <2>7, <2>8
    <2>10. QED
        BY <1>3, <2>1, <2>5, <2>6, <2>9
<1>6. ASSUME Unrouted
      PROVE  GoalCosts = {}
    <2>1. 0 \in DOMAIN seen /\ \A s \in DOMAIN seen : Explored(s)
        BY <1>6 DEF RouterInv, Unrouted, Answered
    <2>2. \A r, t : Leads(r, t) => At(t) # goal
        BY <1>1, <2>1, NothingLeadsThere
    <2>3. QED
        BY <1>3, <1>4, <2>2
<1>7. QED
    BY <1>5, <1>6 DEF RouteIsCheapest

\* Where ferries are slow no edge is ever cheaper than the heuristic takes it.
LEMMA EdgesStayDear ==
  ASSUME FerriesAreSlow
  PROVE  RouterSpec => [](IsFiniteSet(DOMAIN edges) /\ AllDear)
<1>1. RouterInit => IsFiniteSet(DOMAIN edges) /\ AllDear
    <2> SUFFICES ASSUME RouterInit
                 PROVE  IsFiniteSet(DOMAIN edges) /\ AllDear
        OBVIOUS
    <2>1. DOMAIN edges = {}
        BY DEF RouterInit
    <2>2. QED
        BY <2>1, FS_EmptySet DEF AllDear
<1> DEFINE Dearly == IsFiniteSet(DOMAIN edges) /\ AllDear
<1>2. RouterInit => Dearly
    BY <1>1
<1>3. RouterInv /\ [RouterNext]_routerVars /\ Dearly => Dearly'
    BY EdgesStep
<1> HIDE DEF Dearly
<1>4. RouterSpec => []Dearly
    BY <1>2, <1>3, RouterInvariant, PTL DEF RouterSpec
<1>5. QED
    BY <1>4 DEF Dearly

\* A delivered route costs what the search says, and none costs less; where no
\* route is found there is none: for any queries in which no ferry is said to
\* be faster than the heuristic, a tenth of the distance, takes it to be (the
\* two searches of find_path_with_options).
THEOREM RoutesAreCheapest ==
  ASSUME FerriesAreSlow
  PROVE  RouterSpec => []RouteIsCheapest
<1>1. RouterInv /\ IsFiniteSet(DOMAIN edges) /\ AllDear => RouteIsCheapest
    BY InvCheapest
<1>2. QED
    BY <1>1, EdgesStayDear, RouterInvariant, PTL

-----------------------------------------------------------------------------
(* The route recovered from its nodes.                                     *)

\* Whatever adds up the numbers of c one by one ends in Added(c).
LEMMA AddedIs ==
  ASSUME NEW c, Len(c) \in Nat, NEW u,
         u = [k \in 0 .. Len(c) |-> IF k = 0 THEN 0 ELSE u[k - 1] + c[k]]
  PROVE  Added(c) = u[Len(c)]
<1> DEFINE n == Len(c)
           F(g) == [k \in 0 .. n |-> IF k = 0 THEN 0 ELSE g[k - 1] + c[k]]
           f == CHOOSE g : g = F(g)
<1>1. Added(c) = f[n]
    BY DEF Added
<1>2. u = F(u)
    OBVIOUS
<1> HIDE DEF F
<1>3. f = F(f)
    BY <1>2
<1> HIDE DEF f
<1>4. /\ \A k \in 0 .. n : f[k] = IF k = 0 THEN 0 ELSE f[k - 1] + c[k]
      /\ \A k \in 0 .. n : u[k] = IF k = 0 THEN 0 ELSE u[k - 1] + c[k]
    BY <1>2, <1>3 DEF F
<1> DEFINE Bad == {k \in 0 .. n : f[k] # u[k]}
<1>5. Bad = {}
    <2> SUFFICES ASSUME Bad # {}
                 PROVE  FALSE
        OBVIOUS
    <2>1. PICK k \in Bad : \A i \in Bad : k <= i
        <3>1. Bad \subseteq Nat
            OBVIOUS
        <3> HIDE DEF Bad
        <3>2. QED
            BY <3>1, LeastExists
    <2>2. k \in 0 .. n /\ f[k] # u[k]
        BY <2>1
    <2>3. k # 0
        BY <1>4, <2>2
    <2>4. k - 1 \in 0 .. n /\ ~ (k <= k - 1)
        BY <2>2, <2>3
    <2>5. f[k - 1] = u[k - 1]
        BY <2>1, <2>4
    <2>6. QED
        BY <1>4, <2>2, <2>3, <2>5
<1>6. \A k \in 0 .. n : f[k] = u[k]
    BY <1>5
<1>7. n \in 0 .. n
    OBVIOUS
<1>8. f[n] = u[n]
    BY <1>6, <1>7, Zenon
<1>9. QED
    BY <1>1, <1>8, Zenon

\* The edges the traveller may take from a to b.
Parallel(a, b) ==
  {i \in DOMAIN edges : /\ edges[i].src = a /\ edges[i].dst = b
                        /\ AllowedForOptions(p, Tags(edges[i]), q.opt)}
Lightest(a, b) ==
  Min({i \in Parallel(a, b) : \A j \in Parallel(a, b) : Weight(edges[i]) <= Weight(edges[j])})

\* Where surfaces do not count, best_edge_index_between returns the lightest.
LEMMA BestBetweenIs ==
  ASSUME Graph(edges), ~ SurfaceCounts, NEW a, NEW b, Parallel(a, b) # {}
  PROVE  /\ Lightest(a, b) \in Parallel(a, b) /\ Lightest(a, b) # 0
         /\ \A i \in Parallel(a, b) : Weight(edges[Lightest(a, b)]) <= Weight(edges[i])
         /\ \A surface : BestBetween(a, b, surface, q.eco, q.opt) = Lightest(a, b)
         /\ ~ q.eco /\ q.opt = DefaultOptions =>
              \A surface : BestBetween(a, b, surface, FALSE, DefaultOptions) = Lightest(a, b)
<1> DEFINE all == Parallel(a, b)
           light == {i \in all : \A j \in all : Weight(edges[i]) <= Weight(edges[j])}
<1>1. all \subseteq DOMAIN edges /\ DOMAIN edges \subseteq Nat \ {0}
    BY DEF Graph, Parallel
<1>2. \A i \in DOMAIN edges : /\ Weight(edges[i]) \in Nat
                              /\ edges[i].base \in Nat /\ edges[i].eco \in Nat
    BY DEF Graph, Sound, Weight
<1>3. light # {} /\ light \subseteq Nat
    <2> DEFINE costs == {Weight(edges[i]) : i \in all}
    <2>1. costs \subseteq Nat /\ costs # {}
        BY <1>1, <1>2
    <2>2. PICK c \in costs : \A d \in costs : c <= d
        <3> HIDE DEF costs
        <3>1. QED
            BY <2>1, LeastExists
    <2>3. PICK i \in all : c = Weight(edges[i])
        BY <2>2
    <2>4. i \in light
        BY <2>2, <2>3
    <2>5. QED
        BY <1>1, <2>4
<1>4. Lightest(a, b) = Min(light)
    BY DEF Lightest
<1>5. Lightest(a, b) \in light
    <2> HIDE DEF light
    <2>1. QED
        BY <1>3, <1>4, MinIsLeast
<1>6. ASSUME NEW surface
      PROVE  BestBetween(a, b, surface, q.eco, q.opt) = Lightest(a, b)
    <2> DEFINE cost(i) == (IF q.eco THEN edges[i].eco ELSE edges[i].base)
                            + (IF SurfaceCounts THEN Transition(surface, Surface(Tags(edges[i]))) ELSE 0)
               best == {i \in all : \A j \in all : cost(i) <= cost(j)}
    <2>1. BestBetween(a, b, surface, q.eco, q.opt) = IF best = {} THEN 0 ELSE Min(best)
        BY DEF BestBetween, Parallel
    <2>2. \A i \in all : cost(i) = Weight(edges[i])
        <3> SUFFICES ASSUME NEW i \in all
                     PROVE  cost(i) = Weight(edges[i])
            OBVIOUS
        <3>1. cost(i) = Weight(edges[i]) + 0
            BY DEF Weight
        <3>2. QED
            BY <1>1, <1>2, <3>1
    <2> HIDE DEF cost
    <2>3. best = light
        BY <2>2
    <2> HIDE DEF light, best
    <2>4. QED
        BY <1>3, <1>4, <2>1, <2>3
<1>7. ASSUME ~ q.eco, q.opt = DefaultOptions, NEW surface
      PROVE  BestBetween(a, b, surface, FALSE, DefaultOptions) = Lightest(a, b)
    <2> DEFINE cost(i) == (IF FALSE THEN edges[i].eco ELSE edges[i].base)
                            + (IF SurfaceCounts THEN Transition(surface, Surface(Tags(edges[i]))) ELSE 0)
               best == {i \in all : \A j \in all : cost(i) <= cost(j)}
    <2>1. BestBetween(a, b, surface, FALSE, DefaultOptions) = IF best = {} THEN 0 ELSE Min(best)
        BY <1>7 DEF BestBetween, Parallel
    <2>2. \A i \in all : cost(i) = Weight(edges[i])
        <3> SUFFICES ASSUME NEW i \in all
                     PROVE  cost(i) = Weight(edges[i])
            OBVIOUS
        <3>1. cost(i) = Weight(edges[i]) + 0
            BY <1>7 DEF Weight
        <3>2. QED
            BY <1>1, <1>2, <3>1
    <2> HIDE DEF cost
    <2>3. best = light
        BY <2>2
    <2> HIDE DEF light, best
    <2>4. QED
        BY <1>3, <1>4, <2>1, <2>3
<1>8. QED
    BY <1>1, <1>5, <1>6, <1>7

\* The edges guessed hop by hop.
LEMMA PathEdgesAre ==
  ASSUME NEW ns, NEW n \in Nat, Len(ns) = n + 1, NEW b \in Seq(DOMAIN edges), Len(b) = n,
         Graph(edges),
         \A k \in 1 .. n : \A surface :
           BestBetween(ns[k], ns[k + 1], surface, q.eco, q.opt) = b[k]
  PROVE  PathEdges(ns, q.eco, q.opt) = b
<1> DEFINE F(g) ==
      [k \in 1 .. n + 1 |->
        IF k = 1 THEN << >>
        ELSE LET es == g[k - 1]
                 surface == IF es = << >> THEN Good ELSE Surface(Tags(edges[Last(es)]))
                 i == BestBetween(ns[k - 1], ns[k], surface, q.eco, q.opt)
             IN  IF i = 0 THEN es ELSE Append(es, i)]
           f == CHOOSE g : g = F(g)
           u == [k \in 1 .. n + 1 |-> SubSeq(b, 1, k - 1)]
<1>1. PathEdges(ns, q.eco, q.opt) = f[n + 1]
    BY DEF PathEdges
<1>2. /\ DOMAIN b = 1 .. n /\ \A k \in 1 .. n : b[k] \in DOMAIN edges /\ b[k] # 0
    BY DEF Graph
<1>3. SubSeq(b, 1, 0) = << >> /\ SubSeq(b, 1, n) = b
    OBVIOUS
<1>4. ASSUME NEW k \in 1 .. n + 1, k # 1, NEW g, g[k - 1] = SubSeq(b, 1, k - 2)
      PROVE  F(g)[k] = SubSeq(b, 1, k - 1)
    <2> DEFINE es == g[k - 1]
               surface == IF es = << >> THEN Good ELSE Surface(Tags(edges[Last(es)]))
               i == BestBetween(ns[k - 1], ns[k], surface, q.eco, q.opt)
    <2>1. k - 1 \in 1 .. n /\ (k - 1) + 1 = k /\ k - 2 \in 0 .. n
        BY <1>4
    <2>2. i = b[k - 1] /\ i # 0
        <3> HIDE DEF surface
        <3>1. BestBetween(ns[k - 1], ns[(k - 1) + 1], surface, q.eco, q.opt) = b[k - 1]
            BY <2>1
        <3>2. QED
            BY <1>2, <2>1, <3>1
    <2>3. F(g)[k] = IF i = 0 THEN es ELSE Append(es, i)
        BY <1>4
    <2>4. Append(SubSeq(b, 1, k - 2), b[k - 1]) = SubSeq(b, 1, k - 1)
        BY <1>2, <2>1
    <2> HIDE DEF F, i
    <2>5. QED
        BY <1>4, <2>2, <2>3, <2>4
<1>5. F(u) = u
    <2>1. ASSUME NEW k \in 1 .. n + 1
          PROVE  F(u)[k] = u[k]
        <3>1. CASE k = 1
            BY <1>3, <3>1
        <3>2. CASE k # 1
            <4>1. k - 1 \in 1 .. n + 1 /\ (k - 1) - 1 = k - 2
                BY <3>2
            <4>2. u[k - 1] = SubSeq(b, 1, k - 2) /\ u[k] = SubSeq(b, 1, k - 1)
                BY <4>1
            <4> HIDE DEF u, F
            <4>3. QED
                BY <1>4, <3>2, <4>2
        <3>3. QED
            BY <3>1, <3>2
    <2>2. DOMAIN F(u) = 1 .. n + 1 /\ F(u) = [k \in 1 .. n + 1 |-> F(u)[k]]
        OBVIOUS
    <2> HIDE DEF F
    <2>3. u = [k \in 1 .. n + 1 |-> u[k]]
        OBVIOUS
    <2> HIDE DEF u
    <2>4. QED
        BY <2>1, <2>2, <2>3
<1>6. f = F(f)
    <2> HIDE DEF F, u
    <2>1. QED
        BY <1>5
<1> HIDE DEF f
<1> DEFINE Bad == {k \in 1 .. n + 1 : f[k] # SubSeq(b, 1, k - 1)}
<1>7. Bad = {}
    <2> SUFFICES ASSUME Bad # {}
                 PROVE  FALSE
        OBVIOUS
    <2>1. PICK k \in Bad : \A i \in Bad : k <= i
        <3>1. Bad \subseteq Nat
            OBVIOUS
        <3> HIDE DEF Bad
        <3>2. QED
            BY <3>1, LeastExists
    <2>2. k \in 1 .. n + 1 /\ f[k] # SubSeq(b, 1, k - 1)
        BY <2>1
    <2>3. k # 1
        BY <1>3, <1>6, <2>2
    <2>4. k - 1 \in 1 .. n + 1 /\ ~ (k <= k - 1) /\ (k - 1) - 1 = k - 2
        BY <2>2, <2>3
    <2>5. f[k - 1] = SubSeq(b, 1, k - 2)
        BY <2>1, <2>4
    <2> HIDE DEF F, Bad
    <2>6. F(f)[k] = SubSeq(b, 1, k - 1)
        BY <1>4, <2>2, <2>3, <2>5
    <2>7. QED
        BY <1>6, <2>2, <2>6
<1>8. f[n + 1] = SubSeq(b, 1, n)
    <2>1. n + 1 \in 1 .. n + 1 /\ (n + 1) - 1 = n
        OBVIOUS
    <2>2. QED
        BY <1>7, <2>1
<1>9. QED
    BY <1>1, <1>3, <1>8

\* Of two routes of as many edges, with no edge of the second heavier than that
\* of the first, the second costs no more, and less where an edge is lighter.
LEMMA LighterCostsLess ==
  ASSUME Graph(edges), ~ SurfaceCounts,
         NEW n \in Nat, NEW r \in Seq(DOMAIN edges), NEW b \in Seq(DOMAIN edges),
         Len(r) = n, Len(b) = n, NEW c, NEW d, Costs(r, c), Costs(b, d),
         \A k \in 1 .. n : Weight(edges[b[k]]) <= Weight(edges[r[k]])
  PROVE  /\ Total(b, d) <= Total(r, c)
         /\ (\E k \in 1 .. n : Weight(edges[b[k]]) < Weight(edges[r[k]])) => Total(b, d) < Total(r, c)
<1> DEFINE w(i) == Weight(edges[i])
           saves(k) == \E j \in 1 .. k : w(b[j]) < w(r[j])
           Bad == {k \in 1 .. n : ~ (d[k] <= c[k] /\ (saves(k) => d[k] < c[k]))}
<1>1. DOMAIN r = 1 .. n /\ DOMAIN b = 1 .. n
    OBVIOUS
<1>2. \A i \in DOMAIN edges : w(i) \in Nat
    BY DEF Graph, Sound, Weight
<1>3. \A k \in 1 .. n : w(b[k]) \in Nat /\ w(r[k]) \in Nat /\ w(b[k]) <= w(r[k])
    BY <1>2
<1>4. \A s : \A i \in DOMAIN edges : StepCost(s, i) = w(i)
    <2> SUFFICES ASSUME NEW s, NEW i \in DOMAIN edges
                 PROVE  StepCost(s, i) = w(i)
        OBVIOUS
    <2>1. StepCost(s, i) = w(i) + 0
        BY DEF StepCost
    <2> HIDE DEF w
    <2>2. QED
        BY <1>2, <2>1
<1> HIDE DEF w
<1>5. \A k \in 1 .. n : /\ c[k] \in Int /\ d[k] \in Int
                        /\ c[k] = (IF k = 1 THEN 0 ELSE c[k - 1]) + w(r[k])
                        /\ d[k] = (IF k = 1 THEN 0 ELSE d[k - 1]) + w(b[k])
    <2> SUFFICES ASSUME NEW k \in 1 .. n
                 PROVE  /\ c[k] \in Int /\ d[k] \in Int
                        /\ c[k] = (IF k = 1 THEN 0 ELSE c[k - 1]) + w(r[k])
                        /\ d[k] = (IF k = 1 THEN 0 ELSE d[k - 1]) + w(b[k])
        OBVIOUS
    <2>1. /\ c[k] \in Int /\ d[k] \in Int
          /\ c[k] = (IF k = 1 THEN 0 ELSE c[k - 1]) + StepCost(IF k = 1 THEN 0 ELSE r[k - 1], r[k])
          /\ d[k] = (IF k = 1 THEN 0 ELSE d[k - 1]) + StepCost(IF k = 1 THEN 0 ELSE b[k - 1], b[k])
        BY <1>1 DEF Costs
    <2>2. /\ StepCost(IF k = 1 THEN 0 ELSE r[k - 1], r[k]) = w(r[k])
          /\ StepCost(IF k = 1 THEN 0 ELSE b[k - 1], b[k]) = w(b[k])
        BY <1>1, <1>4
    <2>3. QED
        BY <2>1, <2>2
<1>6. Bad = {}
    <2> SUFFICES ASSUME Bad # {}
                 PROVE  FALSE
        OBVIOUS
    <2>1. PICK k \in Bad : \A i \in Bad : k <= i
        <3>1. Bad \subseteq Nat
            OBVIOUS
        <3> HIDE DEF Bad
        <3>2. QED
            BY <3>1, LeastExists
    <2>2. k \in 1 .. n /\ ~ (d[k] <= c[k] /\ (saves(k) => d[k] < c[k]))
        BY <2>1
    <2>3. CASE k = 1
        <3>1. c[k] = 0 + w(r[k]) /\ d[k] = 0 + w(b[k])
            BY <1>5, <2>2, <2>3
        <3>2. saves(k) => w(b[k]) < w(r[k])
            BY <2>3
        <3> HIDE DEF saves
        <3>3. QED
            BY <1>3, <2>2, <3>1, <3>2
    <2>4. CASE k # 1
        <3> DEFINE j == k - 1
        <3>1. j \in 1 .. n /\ ~ (k <= j) /\ j + 1 = k
            BY <2>2, <2>4
        <3>2. d[j] <= c[j] /\ (saves(j) => d[j] < c[j])
            BY <2>1, <3>1
        <3>3. c[k] = c[j] + w(r[k]) /\ d[k] = d[j] + w(b[k])
            BY <1>5, <2>2, <2>4
        <3>4. saves(k) => saves(j) \/ w(b[k]) < w(r[k])
            BY <3>1
        <3>5. /\ c[j] \in Int /\ d[j] \in Int /\ c[k] \in Int /\ d[k] \in Int
              /\ w(b[k]) \in Nat /\ w(r[k]) \in Nat /\ w(b[k]) <= w(r[k])
            BY <1>3, <1>5, <2>2, <3>1
        <3> HIDE DEF saves, j
        <3>6. QED
            BY <2>2, <3>2, <3>3, <3>4, <3>5
    <2>5. QED
        BY <2>3, <2>4
<1>7. CASE n = 0
    <2>1. r = << >> /\ b = << >>
        BY <1>7, EmptyIs
    <2>2. QED
        BY <1>7, <2>1 DEF Total
<1>8. CASE n # 0
    <2>1. r # << >> /\ b # << >> /\ n \in 1 .. n
        BY <1>8, EmptyIs
    <2>2. Total(r, c) = c[n] /\ Total(b, d) = d[n]
        BY <2>1 DEF Total
    <2>3. d[n] <= c[n] /\ (saves(n) => d[n] < c[n])
        BY <1>6, <2>1
    <2>4. QED
        BY <2>2, <2>3 DEF w
<1>9. QED
    BY <1>7, <1>8

\* What Added makes of the weights is what the edges cost.
LEMMA AddedIsTotal ==
  ASSUME Graph(edges), ~ SurfaceCounts, NEW r \in Seq(DOMAIN edges), NEW c, Costs(r, c)
  PROVE  Added([k \in DOMAIN r |-> Weight(edges[r[k]])]) = Total(r, c)
<1> DEFINE n == Len(r)
           a == [k \in DOMAIN r |-> Weight(edges[r[k]])]
           u == [k \in 0 .. n |-> IF k = 0 THEN 0 ELSE c[k]]
<1>1. n \in Nat /\ DOMAIN r = 1 .. n /\ Len(a) = n /\ \A k \in 1 .. n : r[k] \in DOMAIN edges
    OBVIOUS
<1>2. \A i \in DOMAIN edges : Weight(edges[i]) \in Nat
    BY DEF Graph, Sound, Weight
<1>3. ASSUME NEW k \in 1 .. n
      PROVE  c[k] = (IF k = 1 THEN 0 ELSE c[k - 1]) + a[k]
    <2>1. c[k] = (IF k = 1 THEN 0 ELSE c[k - 1]) + StepCost(IF k = 1 THEN 0 ELSE r[k - 1], r[k])
        BY <1>1 DEF Costs
    <2>2. StepCost(IF k = 1 THEN 0 ELSE r[k - 1], r[k]) = Weight(edges[r[k]]) + 0
        BY DEF StepCost
    <2>3. Weight(edges[r[k]]) + 0 = a[k]
        BY <1>1, <1>2
    <2>4. QED
        BY <2>1, <2>2, <2>3
<1>4. ASSUME NEW k \in 0 .. n
      PROVE  u[k] = IF k = 0 THEN 0 ELSE u[k - 1] + a[k]
    <2>1. CASE k = 0
        BY <2>1
    <2>2. CASE k # 0
        <3>1. k \in 1 .. n /\ k - 1 \in 0 .. n /\ (k - 1 = 0 <=> k = 1)
            BY <1>1, <2>2
        <3>2. u[k] = c[k] /\ u[k - 1] = IF k = 1 THEN 0 ELSE c[k - 1]
            BY <2>2, <3>1
        <3> HIDE DEF u, a
        <3>3. QED
            BY <1>3, <2>2, <3>1, <3>2
    <2>3. QED
        BY <2>1, <2>2
<1>5. u[n] = Total(r, c)
    <2>1. r = << >> <=> n = 0
        BY EmptyIs
    <2>2. QED
        BY <1>1, <2>1 DEF Total
<1>6. u = [k \in 0 .. n |-> IF k = 0 THEN 0 ELSE u[k - 1] + a[k]]
    <2>1. u = [k \in 0 .. n |-> u[k]]
        OBVIOUS
    <2> HIDE DEF u, a
    <2>2. QED
        BY <1>4, <2>1
<1> HIDE DEF u, a
<1>7. Added(a) = u[n]
    BY <1>1, <1>6, AddedIs
<1>8. QED
    BY <1>5, <1>7 DEF a

\* The edges guessed from the nodes of a cheapest route cost as much; where no
\* two parallel edges cost the same they are those of the route.
LEMMA InvRecovered ==
  ASSUME RouterInv, Routed => AllDear
  PROVE  RecoveredRouteAgrees
<1> SUFFICES ASSUME Routed, ~ SurfaceCounts
             PROVE  RecoveredRouteAgrees
    BY DEF RecoveredRouteAgrees
<1> DEFINE r == answer.edges
           n == Len(r)
           ns == NodesOn(r)
           b == [k \in 1 .. n |-> Lightest(ns[k], ns[k + 1])]
<1>1. Graph(edges) /\ answer.cost \in Nat /\ Cheapest(answer.cost)
    BY DEF RouterInv, Routed, Answered
<1>2. PICK s \in DOMAIN seen : Leads(r, s) /\ At(s) = goal
    BY DEF RouterInv, Routed, Answered
<1>3. PICK c : Costs(r, c)
    BY <1>1, <1>2, RouteHasCosts
<1>4. Total(r, c) <= answer.cost
    BY <1>3 DEF RouterInv, Routed, Answered
<1> HIDE DEF r
<1>5. r \in Seq(DOMAIN edges) /\ DOMAIN r = 1 .. n /\ n \in Nat
    BY <1>2 DEF Leads
<1>6. /\ Len(ns) = n + 1 /\ ns[1] = start
      /\ \A k \in 1 .. n : ns[k + 1] = edges[r[k]].dst
    BY <1>5, NodesOnAre
<1> HIDE DEF ns
<1>7. \A k \in 1 .. n : r[k] \in DOMAIN edges /\ r[k] # 0
    BY <1>1, <1>5 DEF Graph
<1>8. ASSUME NEW k \in 1 .. n
      PROVE  Passable(ns[k]) /\ r[k] \in Parallel(ns[k], ns[k + 1])
    <2>1. r[k] \in Successors(IF k = 1 THEN 0 ELSE r[k - 1])
        BY <1>2, <1>5 DEF Leads
    <2>2. At(IF k = 1 THEN 0 ELSE r[k - 1]) = ns[k]
        <3>1. CASE k = 1
            BY <1>6, <3>1 DEF At
        <3>2. CASE k # 1
            <4>1. k - 1 \in 1 .. n /\ (k - 1) + 1 = k
                BY <1>5, <3>2
            <4>2. ns[k] = edges[r[k - 1]].dst /\ r[k - 1] # 0
                BY <1>6, <1>7, <4>1
            <4>3. QED
                BY <3>2, <4>2 DEF At
        <3>3. QED
            BY <3>1, <3>2
    <2>3. QED
        BY <1>6, <2>1, <2>2 DEF Successors, Parallel
<1>9. ASSUME NEW k \in 1 .. n
      PROVE  /\ b[k] \in Parallel(ns[k], ns[k + 1]) /\ b[k] # 0 /\ b[k] \in DOMAIN edges
             /\ Weight(edges[b[k]]) <= Weight(edges[r[k]])
             /\ \A surface : BestBetween(ns[k], ns[k + 1], surface, q.eco, q.opt) = b[k]
             /\ ~ q.eco /\ q.opt = DefaultOptions =>
                  \A surface : BestBetween(ns[k], ns[k + 1], surface, FALSE, DefaultOptions) = b[k]
    <2>1. r[k] \in Parallel(ns[k], ns[k + 1]) /\ b[k] = Lightest(ns[k], ns[k + 1])
        BY <1>8
    <2> HIDE DEF b
    <2>2. Parallel(ns[k], ns[k + 1]) \subseteq DOMAIN edges
        BY DEF Parallel
    <2>3. QED
        BY <1>1, <2>1, <2>2, BestBetweenIs
<1>10. b \in Seq(DOMAIN edges) /\ Len(b) = n /\ DOMAIN b = 1 .. n
    <2>1. \A k \in 1 .. n : Lightest(ns[k], ns[k + 1]) \in DOMAIN edges
        BY <1>9
    <2>2. b \in [1 .. n -> DOMAIN edges]
        BY <2>1
    <2> HIDE DEF b
    <2>3. QED
        BY <1>5, <2>2
<1> HIDE DEF b
<1>11. \A k \in 1 .. n : edges[b[k]].src = ns[k] /\ edges[b[k]].dst = ns[k + 1]
    BY <1>9 DEF Parallel
<1>12. PICK t : Leads(b, t) /\ At(t) = goal
    <2> DEFINE t == IF b = << >> THEN 0 ELSE b[Len(b)]
    <2>1. ASSUME NEW k \in 1 .. n
          PROVE  b[k] \in Successors(IF k = 1 THEN 0 ELSE b[k - 1])
        <3>1. At(IF k = 1 THEN 0 ELSE b[k - 1]) = ns[k]
            <4>1. CASE k = 1
                BY <1>6, <4>1 DEF At
            <4>2. CASE k # 1
                <5>1. k - 1 \in 1 .. n /\ (k - 1) + 1 = k
                    BY <1>5, <4>2
                <5>2. ns[k] = edges[b[k - 1]].dst /\ b[k - 1] # 0
                    BY <1>9, <1>11, <5>1
                <5>3. QED
                    BY <4>2, <5>2 DEF At
            <4>3. QED
                BY <4>1, <4>2
        <3>2. Passable(ns[k]) /\ b[k] \in Parallel(ns[k], ns[k + 1])
            BY <1>8, <1>9
        <3>3. QED
            BY <3>1, <3>2 DEF Successors, Parallel
    <2>2. Leads(b, t)
        BY <1>10, <2>1 DEF Leads
    <2>3. At(t) = goal
        <3>1. (b = << >> <=> n = 0) /\ (r = << >> <=> n = 0)
            BY <1>5, <1>10, EmptyIs
        <3>2. CASE n = 0
            BY <1>2, <3>1, <3>2 DEF Leads, At
        <3>3. CASE n # 0
            <4>1. n \in 1 .. n
                BY <1>5, <3>3
            <4>2. s = r[n] /\ t = b[n]
                BY <1>2, <1>10, <3>1, <3>3 DEF Leads
            <4>3. edges[b[n]].dst = edges[r[n]].dst
                BY <1>6, <1>11, <4>1
            <4>4. r[n] # 0 /\ b[n] # 0
                BY <1>7, <1>9, <4>1
            <4> HIDE DEF t
            <4>5. QED
                BY <1>2, <4>2, <4>3, <4>4 DEF At
        <3>4. QED
            BY <3>2, <3>3
    <2>4. QED
        BY <2>2, <2>3
<1>13. PICK d : Costs(b, d)
    BY <1>1, <1>12, RouteHasCosts
<1>14. /\ answer.cost <= Total(b, d)
       /\ Total(b, d) \in Int /\ Total(r, c) \in Int
    BY <1>1, <1>3, <1>5, <1>10, <1>12, <1>13, TotalIsInt DEF Cheapest
<1>15. /\ Total(b, d) <= Total(r, c)
       /\ (\E k \in 1 .. n : Weight(edges[b[k]]) < Weight(edges[r[k]])) => Total(b, d) < Total(r, c)
    BY <1>1, <1>3, <1>5, <1>9, <1>10, <1>13, LighterCostsLess
<1>16. PathEdges(ns, q.eco, q.opt) = b
    BY <1>1, <1>5, <1>6, <1>9, <1>10, PathEdgesAre
<1>17. Added([k \in DOMAIN b |-> Weight(edges[b[k]])]) = answer.cost
    <2>1. Added([k \in DOMAIN b |-> Weight(edges[b[k]])]) = Total(b, d)
        BY <1>1, <1>10, <1>13, AddedIsTotal
    <2>2. Total(b, d) = answer.cost
        BY <1>1, <1>4, <1>14, <1>15
    <2>3. QED
        BY <2>1, <2>2
<1>18. ASSUME q.opt = DefaultOptions, ~ q.eco,
              ~ \E i, j \in DOMAIN edges : /\ i # j /\ edges[i].src = edges[j].src
                                          /\ edges[i].dst = edges[j].dst
                                          /\ edges[i].base = edges[j].base
       PROVE  EtaOfNodes(ns) = EtaOfEdges(r)
    <2>1. ASSUME NEW k \in 1 .. n
          PROVE  b[k] = r[k]
        <3>1. /\ r[k] \in DOMAIN edges /\ b[k] \in DOMAIN edges
              /\ edges[r[k]].src = edges[b[k]].src /\ edges[r[k]].dst = edges[b[k]].dst
            BY <1>8, <1>9, <1>11 DEF Parallel
        <3>2. /\ Weight(edges[r[k]]) = edges[r[k]].base /\ edges[r[k]].base \in Nat
              /\ Weight(edges[b[k]]) = edges[b[k]].base /\ edges[b[k]].base \in Nat
            BY <1>1, <1>18, <3>1 DEF Graph, Sound, Weight
        <3>3. ~ (Weight(edges[b[k]]) < Weight(edges[r[k]]))
            BY <1>1, <1>4, <1>14, <1>15
        <3>4. Weight(edges[b[k]]) <= Weight(edges[r[k]])
            BY <1>9
        <3>5. Weight(edges[b[k]]) = Weight(edges[r[k]])
            BY <3>2, <3>3, <3>4
        <3>6. QED
            BY <1>18, <3>1, <3>2, <3>5
    <2> DEFINE eta(i) == Seconds(Tags(edges[i]), Len1(edges[i]))
               hop(k) == LET i == BestBetween(ns[k], ns[k + 1], Poor, FALSE, DefaultOptions) IN
                         IF i # 0 THEN Seconds(Tags(edges[i]), Len1(edges[i]))
                         ELSE Seconds(<< >>, Apart(q.pos[ns[k]], q.pos[ns[k + 1]]))
    <2>2. \A k \in 1 .. n : hop(k) = eta(r[k])
        <3> SUFFICES ASSUME NEW k \in 1 .. n
                     PROVE  hop(k) = eta(r[k])
            OBVIOUS
        <3>1. BestBetween(ns[k], ns[k + 1], Poor, FALSE, DefaultOptions) = r[k] /\ r[k] # 0
            BY <1>7, <1>9, <1>18, <2>1
        <3>2. QED
            BY <3>1
    <2>3. EtaOfNodes(ns) = Added([k \in 1 .. Len(ns) - 1 |-> hop(k)])
        BY DEF EtaOfNodes
    <2>4. EtaOfEdges(r) = Added([k \in DOMAIN r |-> eta(r[k])])
        BY DEF EtaOfEdges
    <2>5. Len(ns) - 1 = n
        BY <1>5, <1>6
    <2> HIDE DEF hop, eta
    <2>6. [k \in 1 .. Len(ns) - 1 |-> hop(k)] = [k \in DOMAIN r |-> eta(r[k])]
        BY <1>5, <2>2, <2>5
    <2>7. QED
        BY <2>3, <2>4, <2>6
<1>19. QED
    BY <1>16, <1>17, <1>18 DEF RecoveredRouteAgrees, r, ns

\* What the app reads off a route's nodes agrees with the route that was found,
\* for any queries in which ferries are slow: the edges guessed cost as much
\* and take as long (best_edge_index_between and motor_path_minutes).
THEOREM RecoveredRoutesAgree ==
  ASSUME FerriesAreSlow
  PROVE  RouterSpec => []RecoveredRouteAgrees
<1>1. RouterInv /\ IsFiniteSet(DOMAIN edges) /\ AllDear => RecoveredRouteAgrees
    BY InvRecovered
<1>2. QED
    BY <1>1, EdgesStayDear, RouterInvariant, PTL
=============================================================================
