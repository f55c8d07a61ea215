----------------------------- MODULE PlaceProofs -----------------------------
(***************************************************************************)
(* The reduction of an extract to its place points, for any extracts: what *)
(* is not an outline is a single point, no row of the index is lost, areas *)
(* keep their shape and the app finds every place where it was.            *)
(*                                                                         *)
(* All four speak of the end of a run and none of the passes before.  What *)
(* makes them true is what the passes collect (FoundOK: the ways, children *)
(* and nodes each place stands on) and what has been made of it so far:    *)
(* every node is one of the extract, a bare vertex or made up (NodeOK),    *)
(* every way is whole, the middle of a named way or the place of a route   *)
(* (WayOK), and every made-up node belongs to one way, whose number is not *)
(* given out again (MadeOf).                                               *)
(*                                                                         *)
(* Those and Mean are recursive functions; what they return for every      *)
(* sequence is shown by looking for the least place at which it fails      *)
(* (LeastExists, NatRecursion).                                            *)
(***************************************************************************)
EXTENDS PlacePoints, WellFoundedInduction, FiniteSetTheorems, TLAPS

\* A set of numbers that is not empty has a least.
LEMMA LeastExists ==
  ASSUME NEW T, T \subseteq Nat, T # {}
  PROVE  \E x \in T : \A y \in T : x <= y
<1> DEFINE R == {ss \in Nat \X Nat : ss[1] < ss[2]}
<1>1. IsWellFoundedOn(R, Nat)
    BY NatLessThanWellFounded DEF OpToRel
<1>2. \A x, y \in Nat : <<y, x>> \in R <=> y < x
    OBVIOUS
<1> HIDE DEF R
<1>3. PICK x \in T : \A y \in T : ~ (<<y, x>> \in R)
    BY <1>1, WFMin
<1>4. \A y \in T : ~ (y < x)
    BY <1>2, <1>3
<1>5. \A y \in T : x <= y
    BY <1>4
<1>6. QED
    BY <1>5

\* g starts at b and goes on by step.
Iterates(g, D, b, step) ==
  g \in [Nat -> D] /\ g[0] = b /\ \A k \in Nat : g[k + 1] = step[g[k]]

\* A function over the numbers may be given by its value at 0 and the step
\* from one value to the next.
LEMMA NatRecursion ==
  ASSUME NEW D, NEW b \in D, NEW step \in [D -> D]
  PROVE  \E g : Iterates(g, D, b, step)
<1> DEFINE Approx(n, a) ==
             /\ a \in [0 .. n -> D] /\ a[0] = b
             /\ \A k \in 1 .. n : a[k] = step[a[k - 1]]
<1>1. \A n \in Nat : \E a : Approx(n, a)
    <2> DEFINE Bad == {n \in Nat : ~ \E a : Approx(n, a)}
    <2> SUFFICES ASSUME Bad # {}
                 PROVE  FALSE
        OBVIOUS
    <2>1. PICK n \in Bad : \A m \in Bad : n <= m
        <3>1. Bad \subseteq Nat
            OBVIOUS
        <3> HIDE DEF Bad
        <3>2. QED
            BY <3>1, LeastExists
    <2>2. n # 0
        <3>1. Approx(0, [k \in 0 .. 0 |-> b])
            OBVIOUS
        <3>2. QED
            BY <3>1
    <2>3. n \in Nat /\ n - 1 \in Nat /\ ~ (n <= n - 1)
        BY <2>2
    <2>4. PICK a : Approx(n - 1, a)
        <3>1. n - 1 \notin Bad
            BY <2>1, <2>3
        <3>2. QED
            BY <2>3, <3>1
    <2> DEFINE c == [k \in 0 .. n |-> IF k = n THEN step[a[n - 1]] ELSE a[k]]
    <2>5. Approx(n, c)
        <3>1. a[n - 1] \in D /\ \A k \in 0 .. n - 1 : a[k] \in D
            BY <2>3, <2>4
        <3>2. c \in [0 .. n -> D] /\ c[0] = b
            BY <2>2, <2>3, <2>4, <3>1
        <3>3. ASSUME NEW k \in 1 .. n
              PROVE  c[k] = step[c[k - 1]]
            <4>1. k - 1 \in 0 .. n /\ k - 1 # n /\ k \in 0 .. n /\ c[k - 1] = a[k - 1]
                BY <2>3
            <4>2. CASE k = n
                BY <4>1, <4>2
            <4>3. CASE k # n
                <5>1. k \in 1 .. n - 1
                    BY <2>3, <4>3
                <5>2. QED
                    BY <2>4, <4>1, <4>3, <5>1
            <4>4. QED
                BY <4>2, <4>3
        <3> HIDE DEF c
        <3>4. QED
            BY <3>2, <3>3
    <2>6. QED
        BY <2>5
<1>2. ASSUME NEW n \in Nat, NEW m \in Nat, NEW a, NEW c, Approx(n, a), Approx(m, c), n <= m
      PROVE  \A k \in 0 .. n : a[k] = c[k]
    <2> DEFINE Bad == {k \in 0 .. n : a[k] # c[k]}
    <2> SUFFICES ASSUME Bad # {}
                 PROVE  FALSE
        OBVIOUS
    <2>1. PICK k \in Bad : \A i \in Bad : k <= i
        <3>1. Bad \subseteq Nat
            OBVIOUS
        <3> HIDE DEF Bad
        <3>2. QED
            BY <3>1, LeastExists
    <2>2. k # 0
        BY <1>2
    <2>3. k \in 1 .. n /\ k - 1 \in 0 .. n /\ ~ (k <= k - 1) /\ k \in 1 .. m
        BY <1>2, <2>2
    <2>4. a[k - 1] = c[k - 1]
        BY <2>1, <2>3
    <2>5. a[k] = step[a[k - 1]] /\ c[k] = step[c[k - 1]]
        BY <1>2, <2>3
    <2>6. QED
        BY <2>4, <2>5
<1> DEFINE A(n) == CHOOSE a : Approx(n, a)
           g == [n \in Nat |-> A(n)[n]]
<1>3. \A n \in Nat : Approx(n, A(n))
    BY <1>1
<1> HIDE DEF A
<1>4. \A n \in Nat : A(n) \in [0 .. n -> D] /\ A(n)[0] = b /\ A(n)[n] \in D
    BY <1>3
<1>5. ASSUME NEW n \in Nat
      PROVE  A(n + 1)[n + 1] = step[A(n)[n]]
    <2>1. n + 1 \in Nat /\ n <= n + 1 /\ n \in 0 .. n /\ n + 1 \in 1 .. n + 1 /\ (n + 1) - 1 = n
        OBVIOUS
    <2>2. A(n)[n] = A(n + 1)[n]
        <3>1. Approx(n, A(n)) /\ Approx(n + 1, A(n + 1))
            BY <1>3, <2>1
        <3>2. \A a, c : Approx(n, a) /\ Approx(n + 1, c) => \A k \in 0 .. n : a[k] = c[k]
            BY <1>2, <2>1
        <3> HIDE DEF Approx
        <3>3. \A k \in 0 .. n : A(n)[k] = A(n + 1)[k]
            BY <3>1, <3>2
        <3>4. QED
            BY <2>1, <3>3
    <2>3. A(n + 1)[n + 1] = step[A(n + 1)[n]]
        BY <1>3, <2>1
    <2>4. QED
        BY <2>2, <2>3
<1>6. Iterates(g, D, b, step)
    BY <1>4, <1>5 DEF Iterates
<1>7. QED
    BY <1>6

-----------------------------------------------------------------------------
(* Sequences *)

\* What a sequence over S is.
LEMMA SeqIs ==
  ASSUME NEW S, NEW f \in Seq(S)
  PROVE  Len(f) \in Nat /\ DOMAIN f = 1 .. Len(f) /\ \A k \in 1 .. Len(f) : f[k] \in S
  OBVIOUS

\* Appending adds one element.
LEMMA AppendRange ==
  ASSUME NEW S, NEW q \in Seq(S), NEW x \in S
  PROVE  Append(q, x) \in Seq(S) /\ Range(Append(q, x)) = Range(q) \cup {x}
<1> DEFINE a == Append(q, x)
<1>1. Len(q) \in Nat /\ DOMAIN q = 1 .. Len(q)
    OBVIOUS
<1>2. a \in Seq(S) /\ DOMAIN a = 1 .. Len(q) + 1
    BY <1>1
<1>3. a[Len(q) + 1] = x /\ \A i \in 1 .. Len(q) : a[i] = q[i]
    BY <1>1
<1>4. 1 .. Len(q) + 1 = (1 .. Len(q)) \cup {Len(q) + 1}
    BY <1>1
<1> HIDE DEF a
<1>5. QED
    BY <1>1, <1>2, <1>3, <1>4 DEF Range, a

\* A sequence of one.
LEMMA OneIs ==
  ASSUME NEW x
  PROVE  /\ <<x>> # << >> /\ <<x>>[1] = x /\ Len(<<x>>) = 1
         /\ DOMAIN <<x>> = {1} /\ <<x>> \in Seq({x})
  OBVIOUS

\* The numbers up to k are those before k, and k.
LEMMA UpTo ==
  ASSUME NEW k \in Nat \ {0}
  PROVE  1 .. k = (1 .. k - 1) \cup {k}
  OBVIOUS

(* Those of a sequence                                                     *)

\* Which of s are in the set is all that counts.
LEMMA ThoseAgree ==
  ASSUME NEW s, NEW Q, NEW R, \A i \in 1 .. Len(s) : s[i] \in Q <=> s[i] \in R, Len(s) \in Nat
  PROVE  Those(s, Q) = Those(s, R)
<1> DEFINE FQ(u) == [k \in 0..Len(s) |-> IF k = 0 THEN << >>
                               ELSE IF s[k] \in Q THEN Append(u[k - 1], s[k]) ELSE u[k - 1]]
           FR(u) == [k \in 0..Len(s) |-> IF k = 0 THEN << >>
                               ELSE IF s[k] \in R THEN Append(u[k - 1], s[k]) ELSE u[k - 1]]
           q == CHOOSE u : u = FQ(u)
           r == CHOOSE u : u = FR(u)
<1>1. Those(s, Q) = q[Len(s)] /\ Those(s, R) = r[Len(s)]
    BY DEF Those
<1>2. \A u : FQ(u) = FR(u)
    OBVIOUS
<1> HIDE DEF FQ, FR
<1>3. q = r
    BY <1>2, Zenon
<1> HIDE DEF q, r
<1>4. QED
    BY <1>1, <1>3

\* Whatever takes what is in Q of s one by one ends in Those(s, Q).
LEMMA ThoseIs ==
  ASSUME NEW s, Len(s) \in Nat, NEW Q, NEW u,
         u = [k \in 0..Len(s) |-> IF k = 0 THEN << >>
                                  ELSE IF s[k] \in Q THEN Append(u[k - 1], s[k]) ELSE u[k - 1]]
  PROVE  Those(s, Q) = u[Len(s)]
<1> DEFINE n == Len(s)
           F(g) == [k \in 0..Len(s) |-> IF k = 0 THEN << >>
                                        ELSE IF s[k] \in Q THEN Append(g[k - 1], s[k]) ELSE g[k - 1]]
           f == CHOOSE g : g = F(g)
<1>1. Those(s, Q) = f[n]
    BY DEF Those
<1>2. u = F(u)
    OBVIOUS
<1> HIDE DEF F
<1>3. f = F(f)
    BY <1>2
<1> HIDE DEF f
<1>4. /\ \A k \in 0 .. n : f[k] = IF k = 0 THEN << >>
                                  ELSE IF s[k] \in Q THEN Append(f[k - 1], s[k]) ELSE f[k - 1]
      /\ \A k \in 0 .. n : u[k] = IF k = 0 THEN << >>
                                  ELSE IF s[k] \in Q THEN Append(u[k - 1], s[k]) ELSE u[k - 1]
    BY <1>2, <1>3 DEF F
<1> DEFINE Bad == {k \in 0 .. n : f[k] # u[k]}
<1>5. Bad = {}
    <2> SUFFICES ASSUME Bad # {}
                 PROVE  FALSE
        OBVIOUS
    <2>1. PICK k \in Bad : \A i \in Bad : k <= i
        <3>1. Bad \subseteq Nat
            OBVIOUS
        <3> HIDE DEF Bad
        <3>2. QED
            BY <3>1, LeastExists
    <2>2. k \in 0 .. n /\ f[k] # u[k]
        BY <2>1
    <2>3. k # 0
        BY <1>4, <2>2
    <2>4. k - 1 \in 0 .. n /\ ~ (k <= k - 1)
        BY <2>2, <2>3
    <2>5. f[k - 1] = u[k - 1]
        BY <2>1, <2>4
    <2>6. QED
        BY <1>4, <2>2, <2>3, <2>5
<1>6. \A k \in 0 .. n : f[k] = u[k]
    BY <1>5
<1>7. n \in 0 .. n
    OBVIOUS
<1>8. f[n] = u[n]
    BY <1>6, <1>7, Zenon
<1>9. QED
    BY <1>1, <1>8, Zenon

\* All of s, when all of it is in the set.
LEMMA ThoseAll ==
  ASSUME NEW S, NEW s \in Seq(S), NEW Q, \A i \in 1 .. Len(s) : s[i] \in Q
  PROVE  Those(s, Q) = s
<1> DEFINE u == [k \in 0 .. Len(s) |-> SubSeq(s, 1, k)]
<1>1. Len(s) \in Nat /\ SubSeq(s, 1, 0) = << >> /\ SubSeq(s, 1, Len(s)) = s
    OBVIOUS
<1>2. ASSUME NEW k \in 1 .. Len(s)
      PROVE  SubSeq(s, 1, k) = Append(SubSeq(s, 1, k - 1), s[k])
    OBVIOUS
<1>3. \A k \in 0 .. Len(s) : u[k] = IF k = 0 THEN << >>
                                    ELSE IF s[k] \in Q THEN Append(u[k - 1], s[k]) ELSE u[k - 1]
    <2> SUFFICES ASSUME NEW k \in 0 .. Len(s), k # 0
                 PROVE  u[k] = IF s[k] \in Q THEN Append(u[k - 1], s[k]) ELSE u[k - 1]
        BY <1>1
    <2>1. k \in 1 .. Len(s) /\ k - 1 \in 0 .. Len(s)
        OBVIOUS
    <2>2. u[k] = SubSeq(s, 1, k) /\ u[k - 1] = SubSeq(s, 1, k - 1)
        BY <2>1
    <2> HIDE DEF u
    <2>3. QED
        BY <1>2, <2>1, <2>2
<1>4. u = [k \in 0 .. Len(s) |-> u[k]]
    OBVIOUS
<1>5. u[Len(s)] = s
    BY <1>1
<1> HIDE DEF u
<1>6. u = [k \in 0 .. Len(s) |-> IF k = 0 THEN << >>
                                 ELSE IF s[k] \in Q THEN Append(u[k - 1], s[k]) ELSE u[k - 1]]
    BY <1>3, <1>4, Zenon
<1>7. QED
    BY <1>1, <1>5, <1>6, ThoseIs

\* Those of s that are in Q are what s and Q share.
LEMMA ThoseAre ==
  ASSUME NEW S, NEW s \in Seq(S), NEW Q
  PROVE  /\ Those(s, Q) \in Seq(S) /\ Range(Those(s, Q)) = Range(s) \cap Q
<1>1. \A q \in Seq(S), x \in S : Range(Append(q, x)) = Range(q) \cup {x}
    BY AppendRange
<1> DEFINE D == Nat \X Seq(S)
           next(d) == <<d[1] + 1, IF d[1] + 1 \in 1 .. Len(s) /\ s[d[1] + 1] \in Q
                                  THEN Append(d[2], s[d[1] + 1]) ELSE d[2]>>
           step == [d \in D |-> next(d)]
           first == <<0, << >>>>
<1>2. first \in D
    <2>1. << >> \in Seq(S)
        OBVIOUS
    <2>2. QED
        BY <2>1
<1>3. step \in [D -> D]
    <2> SUFFICES ASSUME NEW d \in D
                 PROVE  next(d) \in D
        OBVIOUS
    <2>1. d[1] + 1 \in Nat /\ d[2] \in Seq(S)
        OBVIOUS
    <2>2. CASE d[1] + 1 \in 1 .. Len(s) /\ s[d[1] + 1] \in Q
        <3>1. Append(d[2], s[d[1] + 1]) \in Seq(S)
            BY <2>1, <2>2
        <3>2. QED
            BY <2>1, <2>2, <3>1
    <2>3. CASE ~ (d[1] + 1 \in 1 .. Len(s) /\ s[d[1] + 1] \in Q)
        BY <2>1, <2>3
    <2>4. QED
        BY <2>2, <2>3
<1> HIDE DEF step
<1>4. PICK g : Iterates(g, D, first, step)
    <2> HIDE DEF first
    <2>1. QED
        BY <1>2, <1>3, NatRecursion
<1>5. \A k \in Nat : g[k] \in D /\ g[k + 1] = next(g[k])
    BY <1>4 DEF step, Iterates
<1>6. g[0][1] = 0 /\ g[0][2] = << >>
    <2>1. g[0] = <<0, << >>>>
        BY <1>4 DEF Iterates
    <2>2. QED
        BY <2>1
<1>7. \A k \in Nat : g[k][2] \in Seq(S)
    <2> HIDE DEF next, first
    <2>1. QED
        BY <1>5
<1> DEFINE B1 == {k \in Nat : g[k][1] # k}
<1>8. B1 = {}
    <2> SUFFICES ASSUME B1 # {}
                 PROVE  FALSE
        OBVIOUS
    <2>1. PICK k \in B1 : \A i \in B1 : k <= i
        <3>1. B1 \subseteq Nat
            OBVIOUS
        <3> HIDE DEF B1
        <3>2. QED
            BY <3>1, LeastExists
    <2>2. k \in Nat /\ g[k][1] # k /\ k # 0
        BY <1>6, <2>1
    <2>3. k - 1 \in Nat /\ ~ (k <= k - 1) /\ (k - 1) + 1 = k
        BY <2>2
    <2>4. g[k - 1][1] = k - 1
        BY <2>1, <2>3
    <2>5. g[k] = next(g[k - 1])
        BY <1>5, <2>3
    <2>6. QED
        BY <2>2, <2>3, <2>4, <2>5
<1>9. \A k \in Nat : g[k][1] = k
    BY <1>8
<1> DEFINE u == [k \in 0 .. Len(s) |-> g[k][2]]
<1>10. Len(s) \in Nat /\ DOMAIN s = 1 .. Len(s) /\ \A k \in 1 .. Len(s) : s[k] \in S
    BY SeqIs
<1>11. /\ \A k \in 0 .. Len(s) : u[k] \in Seq(S)
      /\ u[0] = << >>
      /\ \A k \in 1 .. Len(s) : u[k] = IF s[k] \in Q THEN Append(u[k - 1], s[k]) ELSE u[k - 1]
    <2>1. \A k \in 0 .. Len(s) : u[k] \in Seq(S)
        BY <1>7, <1>10
    <2>2. u[0] = << >>
        BY <1>6, <1>10
    <2>3. ASSUME NEW k \in 1 .. Len(s)
          PROVE  u[k] = IF s[k] \in Q THEN Append(u[k - 1], s[k]) ELSE u[k - 1]
        <3>1. k - 1 \in Nat /\ (k - 1) + 1 = k /\ k - 1 \in 0 .. Len(s) /\ k \in 0 .. Len(s)
            BY <1>10
        <3>2. g[k] = next(g[k - 1]) /\ g[k - 1][1] = k - 1
            BY <1>5, <1>9, <3>1
        <3>3. u[k] = g[k][2] /\ u[k - 1] = g[k - 1][2]
            BY <3>1
        <3> HIDE DEF u
        <3>4. g[k][2] = IF s[k] \in Q THEN Append(g[k - 1][2], s[k]) ELSE g[k - 1][2]
            BY <3>1, <3>2
        <3>5. QED
            BY <3>3, <3>4
    <2>4. QED
        BY <2>1, <2>2, <2>3
<1>12. u = [k \in 0 .. Len(s) |-> u[k]]
    OBVIOUS
<1> HIDE DEF u
<1>13. u = [k \in 0 .. Len(s) |-> IF k = 0 THEN << >>
                                  ELSE IF s[k] \in Q THEN Append(u[k - 1], s[k]) ELSE u[k - 1]]
    <2>1. ASSUME NEW k \in 0 .. Len(s)
          PROVE  u[k] = IF k = 0 THEN << >>
                        ELSE IF s[k] \in Q THEN Append(u[k - 1], s[k]) ELSE u[k - 1]
        <3>1. CASE k = 0
            BY <1>11, <3>1
        <3>2. CASE k # 0
            <4>1. k \in 1 .. Len(s)
                BY <1>10, <3>2
            <4>2. QED
                BY <1>11, <3>2, <4>1, Zenon
        <3>3. QED
            BY <3>1, <3>2
    <2>2. QED
        BY <1>12, <2>1, Zenon
<1>14. Those(s, Q) = u[Len(s)]
    BY <1>10, <1>13, ThoseIs
<1> DEFINE part(k) == {s[i] : i \in 1 .. k} \cap Q
           B2 == {k \in 0 .. Len(s) : Range(u[k]) # part(k)}
<1>15. B2 = {}
    <2> SUFFICES ASSUME B2 # {}
                 PROVE  FALSE
        OBVIOUS
    <2>1. PICK k \in B2 : \A i \in B2 : k <= i
        <3>1. B2 \subseteq Nat
            OBVIOUS
        <3> HIDE DEF B2
        <3>2. QED
            BY <3>1, LeastExists
    <2>2. k \in 0 .. Len(s) /\ Range(u[k]) # part(k)
        BY <2>1
    <2>3. k # 0
        <3>1. Range(<< >>) = {}
            BY DEF Range
        <3>2. part(0) = {}
            OBVIOUS
        <3>3. QED
            BY <1>11, <2>2, <3>1, <3>2
    <2>4. k \in 1 .. Len(s) /\ k - 1 \in 0 .. Len(s) /\ ~ (k <= k - 1)
        BY <2>2, <2>3
    <2>5. Range(u[k - 1]) = part(k - 1)
        BY <2>1, <2>4
    <2>6. part(k) = part(k - 1) \cup ({s[k]} \cap Q)
        <3>1. k \in Nat \ {0}
            BY <1>10, <2>4
        <3>2. 1 .. k = (1 .. k - 1) \cup {k}
            BY <3>1, UpTo
        <3>3. QED
            BY <3>2
    <2> HIDE DEF part
    <2>7. u[k] = IF s[k] \in Q THEN Append(u[k - 1], s[k]) ELSE u[k - 1]
        BY <1>11, <2>4
    <2>8. CASE s[k] \in Q
        <3>1. Range(u[k]) = Range(u[k - 1]) \cup {s[k]}
            <4>1. u[k - 1] \in Seq(S) /\ s[k] \in S /\ u[k] = Append(u[k - 1], s[k])
                BY <1>10, <1>11, <2>4, <2>7, <2>8
            <4> HIDE DEF B2
            <4>2. Range(Append(u[k - 1], s[k])) = Range(u[k - 1]) \cup {s[k]}
                BY <4>1, <1>1
            <4>3. QED
                BY <4>1, <4>2, Zenon
        <3>2. QED
            BY <2>2, <2>5, <2>6, <2>8, <3>1
    <2>9. CASE s[k] \notin Q
        BY <2>2, <2>5, <2>6, <2>7, <2>9
    <2>10. QED
        BY <2>8, <2>9
<1>16. Range(u[Len(s)]) = part(Len(s)) /\ u[Len(s)] \in Seq(S)
    <2>1. Len(s) \in 0 .. Len(s)
        BY <1>10
    <2>2. QED
        BY <1>11, <1>15, <2>1
<1>17. part(Len(s)) = Range(s) \cap Q
    BY <1>10 DEF Range
<1>18. QED
    BY <1>14, <1>16, <1>17, Zenon

\* There are none if none of s is in Q, and only then.
LEMMA NoneOfThose ==
  ASSUME NEW S, NEW s \in Seq(S), NEW Q
  PROVE  Those(s, Q) = << >> <=> Range(s) \cap Q = {}
<1> DEFINE t == Those(s, Q)
<1>1. t \in Seq(S) /\ Range(t) = Range(s) \cap Q
    BY ThoseAre
<1> HIDE DEF t
<1>2. t = << >> <=> Range(t) = {}
    <2>1. t = << >> => Range(t) = {}
        BY DEF Range
    <2>2. t # << >> => t[1] \in Range(t)
        BY <1>1 DEF Range
    <2>3. QED
        BY <2>1, <2>2
<1>3. QED
    BY <1>1, <1>2 DEF t

-----------------------------------------------------------------------------
(* Positions *)

\* The mean looks at the nodes of the way that are there and at where they are.
LEMMA MeanAgrees ==
  ASSUME NEW S, NEW refs \in Seq(S), NEW a, NEW b,
         \A n \in Range(refs) : n \in DOMAIN a <=> n \in DOMAIN b,
         \A n \in Range(refs) \cap DOMAIN a : a[n].at = b[n].at
  PROVE  Known(refs, a) = Known(refs, b) /\ Mean(refs, a) = Mean(refs, b)
<1>1. Len(refs) \in Nat /\ \A i \in 1 .. Len(refs) : refs[i] \in Range(refs)
    BY SeqIs DEF Range
<1>2. Known(refs, a) = Known(refs, b)
    BY <1>1, ThoseAgree DEF Known
<1> DEFINE here == Known(refs, a)
           FA(u) == [k \in 0..Len(here) |-> IF k = 0 THEN 0 ELSE u[k - 1] + a[here[k]].at]
           FB(u) == [k \in 0..Len(here) |-> IF k = 0 THEN 0 ELSE u[k - 1] + b[here[k]].at]
           fa == CHOOSE u : u = FA(u)
           fb == CHOOSE u : u = FB(u)
<1>3. Mean(refs, a) = [sum |-> fa[Len(here)], of |-> Len(here)]
    BY DEF Mean
<1>4. Mean(refs, b) = [sum |-> fb[Len(here)], of |-> Len(here)]
    BY <1>2 DEF Mean
<1>5. here \in Seq(S) /\ Range(here) = Range(refs) \cap DOMAIN a
    BY ThoseAre DEF Known
<1> HIDE DEF here
<1>6. \A k \in 1 .. Len(here) : a[here[k]].at = b[here[k]].at
    <2> SUFFICES ASSUME NEW k \in 1 .. Len(here)
                 PROVE  a[here[k]].at = b[here[k]].at
        OBVIOUS
    <2>1. here[k] \in Range(here)
        BY <1>5, SeqIs DEF Range
    <2>2. QED
        BY <1>5, <2>1
<1>7. Len(here) \in Nat
    BY <1>5
<1>8. \A u : FA(u) = FB(u)
    <2> SUFFICES ASSUME NEW u
                 PROVE  FA(u) = FB(u)
        OBVIOUS
    <2>1. ASSUME NEW k \in 0 .. Len(here)
          PROVE  (IF k = 0 THEN 0 ELSE u[k - 1] + a[here[k]].at) = IF k = 0 THEN 0 ELSE u[k - 1] + b[here[k]].at
        <3>1. k # 0 => k \in 1 .. Len(here)
            BY <1>7
        <3>2. QED
            BY <1>6, <3>1, Zenon
    <2>2. QED
        BY <2>1, Zenon
<1> HIDE DEF FA, FB
<1>9. fa = fb
    BY <1>8, Zenon
<1>10. QED
    BY <1>2, <1>3, <1>4, <1>9, Zenon

\* Whatever adds up the positions of the nodes one by one gives the mean.
LEMMA MeanIs ==
  ASSUME NEW refs, NEW nodes, NEW here, here = Known(refs, nodes), Len(here) \in Nat, NEW u,
         \A k \in 0..Len(here) : u[k] = IF k = 0 THEN 0 ELSE u[k - 1] + nodes[here[k]].at
  PROVE  Mean(refs, nodes) = [sum |-> u[Len(here)], of |-> Len(here)]
<1> DEFINE n == Len(here)
           F(g) == [k \in 0..Len(here) |-> IF k = 0 THEN 0 ELSE g[k - 1] + nodes[here[k]].at]
           f == CHOOSE g : g = F(g)
           v == [k \in 0 .. n |-> u[k]]
<1>1. Mean(refs, nodes) = [sum |-> f[n], of |-> n]
    BY DEF Mean
<1>2. v = F(v)
    <2>1. \A k \in 0 .. n : v[k] = IF k = 0 THEN 0 ELSE v[k - 1] + nodes[here[k]].at
        <3> SUFFICES ASSUME NEW k \in 0 .. n
                     PROVE  v[k] = IF k = 0 THEN 0 ELSE v[k - 1] + nodes[here[k]].at
            OBVIOUS
        <3>1. v[k] = u[k] /\ (k # 0 => v[k - 1] = u[k - 1])
            OBVIOUS
        <3> HIDE DEF v
        <3>2. QED
            BY <3>1
    <2>2. v = [k \in 0 .. n |-> v[k]]
        OBVIOUS
    <2> HIDE DEF v
    <2>3. QED
        BY <2>1, <2>2, Zenon
<1> HIDE DEF F, v
<1>3. f = F(f)
    BY <1>2
<1> HIDE DEF f
<1>4. /\ \A k \in 0 .. n : f[k] = IF k = 0 THEN 0 ELSE f[k - 1] + nodes[here[k]].at
      /\ \A k \in 0 .. n : u[k] = IF k = 0 THEN 0 ELSE u[k - 1] + nodes[here[k]].at
    BY <1>3 DEF F
<1> DEFINE Bad == {k \in 0 .. n : f[k] # u[k]}
<1>5. Bad = {}
    <2> SUFFICES ASSUME Bad # {}
                 PROVE  FALSE
        OBVIOUS
    <2>1. PICK k \in Bad : \A i \in Bad : k <= i
        <3>1. Bad \subseteq Nat
            OBVIOUS
        <3> HIDE DEF Bad
        <3>2. QED
            BY <3>1, LeastExists
    <2>2. k \in 0 .. n /\ f[k] # u[k]
        BY <2>1
    <2>3. k # 0
        BY <1>4, <2>2
    <2>4. k - 1 \in 0 .. n /\ ~ (k <= k - 1)
        BY <2>2, <2>3
    <2>5. f[k - 1] = u[k - 1]
        BY <2>1, <2>4
    <2>6. QED
        BY <1>4, <2>2, <2>3, <2>5
<1>6. \A k \in 0 .. n : f[k] = u[k]
    BY <1>5
<1>7. n \in 0 .. n
    OBVIOUS
<1>8. f[n] = u[n]
    BY <1>6, <1>7, Zenon
<1>9. QED
    BY <1>1, <1>8, Zenon

\* The mean of one node is where it is.
LEMMA MeanOfOne ==
  ASSUME NEW m, NEW nodes, m \in DOMAIN nodes, nodes[m].at \in Int
  PROVE  Known(<<m>>, nodes) = <<m>> /\ Mean(<<m>>, nodes) = [sum |-> nodes[m].at, of |-> 1]
<1> DEFINE s == <<m>>
<1>1. s \in Seq({m}) /\ Len(s) = 1 /\ s[1] = m
    OBVIOUS
<1>2. Known(s, nodes) = s
    <2> HIDE DEF s
    <2>1. \A i \in 1 .. Len(s) : s[i] \in DOMAIN nodes
        BY <1>1
    <2>2. Those(s, DOMAIN nodes) = s
        BY <1>1, <2>1, ThoseAll
    <2>3. QED
        BY <2>2 DEF Known
<1> DEFINE x == nodes[m].at
           u == [k \in 0 .. Len(s) |-> IF k = 0 THEN 0 ELSE x]
<1>3. u[0] = 0 /\ u[1] = x /\ x \in Int /\ u = [k \in 0 .. 1 |-> u[k]]
    BY <1>1
<1> HIDE DEF u, x, s
<1>4. \A k \in 0 .. 1 : u[k] = IF k = 0 THEN 0 ELSE u[k - 1] + nodes[s[k]].at
    <2>1. u[1] = u[0] + nodes[s[1]].at
        BY <1>1, <1>3 DEF x
    <2>2. QED
        BY <1>3, <2>1
<1>5. Mean(s, nodes) = [sum |-> u[Len(s)], of |-> Len(s)]
    <2>1. s = Known(s, nodes) /\ Len(s) \in Nat
        BY <1>1, <1>2
    <2>2. \A k \in 0 .. Len(s) : u[k] = IF k = 0 THEN 0 ELSE u[k - 1] + nodes[s[k]].at
        BY <1>1, <1>4
    <2>3. \A here, v : /\ here = Known(s, nodes) /\ Len(here) \in Nat
                       /\ \A k \in 0..Len(here) : v[k] = IF k = 0 THEN 0 ELSE v[k - 1] + nodes[here[k]].at
                       => Mean(s, nodes) = [sum |-> v[Len(here)], of |-> Len(here)]
        BY MeanIs
    <2>4. QED
        BY <2>1, <2>2, <2>3, Zenon
<1>6. u[Len(s)] = x /\ Len(s) = 1
    BY <1>1, <1>3
<1>7. QED
    BY <1>2, <1>5, <1>6 DEF s, x

\* The mean is a sum of whole numbers over how many there are.
LEMMA MeanIsFraction ==
  ASSUME NEW S, NEW refs \in Seq(S), NEW nodes, \A n \in DOMAIN nodes : nodes[n].at \in Int,
         Known(refs, nodes) # << >>
  PROVE  Mean(refs, nodes).sum \in Int /\ Mean(refs, nodes).of \in Nat \ {0}
<1> DEFINE here == Known(refs, nodes)
<1>1. here \in Seq(S) /\ Range(here) \subseteq DOMAIN nodes
    BY ThoseAre DEF Known
<1> HIDE DEF here
<1>2. Len(here) \in Nat /\ Len(here) # 0
    BY <1>1 DEF here
<1>3. \A k \in 1 .. Len(here) : nodes[here[k]].at \in Int
    <2> SUFFICES ASSUME NEW k \in 1 .. Len(here)
                 PROVE  nodes[here[k]].at \in Int
        OBVIOUS
    <2>1. here[k] \in Range(here)
        BY <1>1, SeqIs DEF Range
    <2>2. QED
        BY <1>1, <2>1
<1> DEFINE D == Nat \X Int
           next(d) == <<d[1] + 1, IF d[1] + 1 \in 1 .. Len(here)
                                  THEN d[2] + nodes[here[d[1] + 1]].at ELSE d[2]>>
           step == [d \in D |-> next(d)]
           first == <<0, 0>>
<1>4. first \in D
    OBVIOUS
<1>5. step \in [D -> D]
    <2> SUFFICES ASSUME NEW d \in D
                 PROVE  next(d) \in D
        OBVIOUS
    <2>1. d[1] + 1 \in Nat /\ d[2] \in Int
        OBVIOUS
    <2>2. CASE d[1] + 1 \in 1 .. Len(here)
        <3>1. nodes[here[d[1] + 1]].at \in Int
            BY <1>3, <2>2
        <3>2. QED
            BY <2>1, <2>2, <3>1
    <2>3. CASE ~ (d[1] + 1 \in 1 .. Len(here))
        BY <2>1, <2>3
    <2>4. QED
        BY <2>2, <2>3
<1> HIDE DEF step
<1>6. PICK g : Iterates(g, D, first, step)
    <2> HIDE DEF first
    <2>1. QED
        BY <1>4, <1>5, NatRecursion
<1>7. \A k \in Nat : g[k] \in D /\ g[k + 1] = next(g[k])
    BY <1>6 DEF step, Iterates
<1>8. g[0][1] = 0 /\ g[0][2] = 0
    <2>1. g[0] = <<0, 0>>
        BY <1>6 DEF Iterates
    <2>2. QED
        BY <2>1
<1>9. \A k \in Nat : g[k][2] \in Int
    <2> HIDE DEF next, first
    <2>1. QED
        BY <1>7
<1> DEFINE Bad == {k \in Nat : g[k][1] # k}
<1>10. Bad = {}
    <2> SUFFICES ASSUME Bad # {}
                 PROVE  FALSE
        OBVIOUS
    <2>1. PICK k \in Bad : \A i \in Bad : k <= i
        <3>1. Bad \subseteq Nat
            OBVIOUS
        <3> HIDE DEF Bad
        <3>2. QED
            BY <3>1, LeastExists
    <2>2. k \in Nat /\ g[k][1] # k /\ k # 0
        BY <1>8, <2>1
    <2>3. k - 1 \in Nat /\ ~ (k <= k - 1) /\ (k - 1) + 1 = k
        BY <2>2
    <2>4. g[k - 1][1] = k - 1
        BY <2>1, <2>3
    <2>5. g[k] = next(g[k - 1])
        BY <1>7, <2>3
    <2>6. QED
        BY <2>2, <2>3, <2>4, <2>5
<1>11. \A k \in Nat : g[k][1] = k
    BY <1>10
<1> DEFINE u == [k \in 0 .. Len(here) |-> g[k][2]]
<1>12. ASSUME NEW k \in 0 .. Len(here)
       PROVE  u[k] = IF k = 0 THEN 0 ELSE u[k - 1] + nodes[here[k]].at
    <2>1. CASE k = 0
        BY <1>8, <2>1
    <2>2. CASE k # 0
        <3>1. k - 1 \in Nat /\ (k - 1) + 1 = k /\ k - 1 \in 0 .. Len(here) /\ k \in 1 .. Len(here)
            BY <1>2, <2>2
        <3>2. g[k] = next(g[k - 1]) /\ g[k - 1][1] = k - 1
            BY <1>7, <1>11, <3>1
        <3>3. u[k] = g[k][2] /\ u[k - 1] = g[k - 1][2]
            BY <3>1
        <3> HIDE DEF u
        <3>4. g[k][2] = g[k - 1][2] + nodes[here[k]].at
            BY <3>1, <3>2
        <3>5. QED
            BY <2>2, <3>3, <3>4
    <2>3. QED
        BY <2>1, <2>2
<1>13. u[Len(here)] \in Int
    BY <1>2, <1>9
<1> HIDE DEF u
<1>14. Mean(refs, nodes) = [sum |-> u[Len(here)], of |-> Len(here)]
    BY <1>2, <1>12, MeanIs DEF here
<1>15. QED
    BY <1>2, <1>13, <1>14

\* What is made of it is on the grid, and near it.
LEMMA OnGridIs ==
  ASSUME NEW S, NEW refs \in Seq(S), NEW nodes, \A n \in DOMAIN nodes : nodes[n].at \in Int,
         Known(refs, nodes) # << >>, NEW at \in OnGrid(Mean(refs, nodes))
  PROVE  at \in Int /\ Near(Mean(refs, nodes), at)
<1> DEFINE mean == Mean(refs, nodes)
<1>1. mean.sum \in Int /\ mean.of \in Nat \ {0}
    BY MeanIsFraction
<1>2. Near(mean, at) /\ at \in mean.sum \div mean.of .. mean.sum \div mean.of + 1
    BY DEF OnGrid
<1> HIDE DEF mean
<1>3. mean.sum \div mean.of \in Int
    BY <1>1
<1>4. at \in Int
    BY <1>2, <1>3
<1>5. QED
    BY <1>2, <1>4 DEF mean

-----------------------------------------------------------------------------
(* Functions laid over one another *)

\* A function laid over another.
LEMMA OverIs ==
  ASSUME NEW f, NEW g
  PROVE  /\ DOMAIN Over(f, g) = DOMAIN f \cup DOMAIN g
         /\ \A x \in DOMAIN f : Over(f, g)[x] = f[x]
         /\ \A x \in DOMAIN g \ DOMAIN f : Over(f, g)[x] = g[x]
  BY DEF Over

\* A function with one more value.
LEMMA WithIs ==
  ASSUME NEW x, NEW v, NEW g
  PROVE  /\ DOMAIN With(g, x, v) = DOMAIN g \cup {x}
         /\ With(g, x, v)[x] = v
         /\ \A y \in DOMAIN g \ {x} : With(g, x, v)[y] = g[y]
  BY DEF With

-----------------------------------------------------------------------------
(* The invariant *)

Reading == {"relations", "children", "ways", "nodes"}
Emitting == {"points", "search", "areas", "routes", "done"}

RelationsRead ==
  /\ found.areas = {r \in osm.rels : Area(r.tags) /\ Outline(r) # << >>}
  /\ found.areaWays = UNION {Range(Outline(r)) : r \in found.areas}
  /\ found.routes = {r \in osm.rels : Interesting(r.tags)}

\* The ways of the children that are there.
ChildrenRead ==
  /\ \A r \in found.routes : \A c \in Range(MembersOf(r, "rel")) :
       (\E s \in osm.rels : s.id = c) => c \in DOMAIN found.childWays
  /\ \A c \in DOMAIN found.childWays : /\ \E s \in osm.rels : s.id = c
                                       /\ found.childWays[c] = MembersOf(Rel(c), "way")

WaysRead ==
  /\ DOMAIN found.outlines = found.areaWays \cap DOMAIN osm.ways
  /\ \A w \in DOMAIN found.outlines : found.outlines[w] = osm.ways[w].refs
  /\ found.standalone = {w \in DOMAIN osm.ways : Area(osm.ways[w].tags) /\ Len(osm.ways[w].refs) >= 3}
  /\ found.jobs = {w \in DOMAIN osm.ways : SearchWay(osm.ways[w]) /\ osm.ways[w].refs # << >>}
  /\ DOMAIN found.firstNode = {w \in RouteWays \cap DOMAIN osm.ways : osm.ways[w].refs # << >>}
  /\ \A w \in DOMAIN found.firstNode : found.firstNode[w] = osm.ways[w].refs[1]
  /\ Vertices(DOMAIN found.outlines \cup found.standalone \cup found.jobs) \subseteq found.needed
  /\ Range(found.firstNode) \subseteq found.needed

NodesRead ==
  /\ DOMAIN found.nodes = found.needed \cap DOMAIN osm.nodes
  /\ \A n \in DOMAIN found.nodes : found.nodes[n].at = osm.nodes[n].at
  /\ found.searchNodes = {n \in DOMAIN osm.nodes : Named(osm.nodes[n].tags)}

FoundOK ==
  /\ DOMAIN found = DOMAIN NoFinds
  /\ pass # "relations" => RelationsRead
  /\ pass \notin {"relations", "children"} => ChildrenRead
  /\ pass \notin {"relations", "children", "ways"} => WaysRead
  /\ pass \in Emitting => NodesRead

\* The nodes the outlines of areas run through.
Rings == Vertices(DOMAIN found.outlines \cup found.standalone)

\* A node is one of the extract, or the bare vertex of an outline or of a way
\* that is kept, or made up.
NodeOK(n, node) ==
  \/ n \in found.searchNodes /\ node = osm.nodes[n]
  \/ /\ n \in DOMAIN found.nodes \ found.searchNodes
     /\ n \in Rings \/ keepVertices
     /\ node.at = osm.nodes[n].at /\ node.tags = << >>
  \/ n < 0 /\ node.at \in Int /\ node.tags = << >>

\* A way is whole, or a named way at the one made-up node in the middle of its
\* own, or made up for a route.
WholeWay(w, way, nodes) ==
  /\ w \in DOMAIN osm.ways /\ InFull(w)
  /\ way.refs = osm.ways[w].refs /\ way.tags \in {osm.ways[w].tags, << >>}
  /\ Range(osm.ways[w].refs) \cap DOMAIN osm.nodes \subseteq DOMAIN nodes
PointWay(w, way, nodes) ==
  /\ w \in found.jobs /\ ~ InFull(w) /\ Known(osm.ways[w].refs, found.nodes) # << >>
  /\ way.tags = osm.ways[w].tags
  /\ \E m \in DOMAIN nodes :
       m < 0 /\ way.refs = <<m>> /\ Near(Mean(osm.ways[w].refs, found.nodes), nodes[m].at)
RouteWay(w, way, nodes) ==
  w + 1 < 0 /\ w + 1 \in DOMAIN nodes /\ way.refs = <<w + 1>> /\ way.tags = << >>
WayOK(w, way, nodes) ==
  WholeWay(w, way, nodes) \/ PointWay(w, way, nodes) \/ RouteWay(w, way, nodes)

\* Every made-up node belongs to one way, and what is at or below k is free.
MadeOf(nodes, ways, k) ==
  /\ k \in Int /\ k < 0
  /\ \A n \in DOMAIN nodes : n \in Int /\ n > k /\ NodeOK(n, nodes[n])
  /\ \A w \in DOMAIN ways : w \in Int /\ w > k /\ WayOK(w, ways[w], nodes)
  /\ \A n \in DOMAIN nodes : n < 0 => \E w \in DOMAIN ways : ways[w].refs = <<n>>
  /\ \A n \in DOMAIN nodes : n < 0 =>
       \A v, w \in DOMAIN ways : ways[v].refs = <<n>> /\ ways[w].refs = <<n>> => v = w

\* A named way of which a node is there has come out with its tags.
JobDone(w, ways) ==
  Known(osm.ways[w].refs, found.nodes) # << >> => w \in DOMAIN ways /\ ways[w].tags = osm.ways[w].tags

WaysMade ==
  /\ pass = "points" => out = NoOut
  /\ pass = "search" => todo \subseteq found.jobs /\ DOMAIN out.ways \subseteq found.jobs \ todo
  /\ pass # "points" => found.searchNodes \subseteq DOMAIN out.nodes
  /\ pass = "search" => \A w \in found.jobs \ todo : JobDone(w, out.ways)
  /\ pass \in {"areas", "routes", "done"} =>
       /\ \A w \in found.jobs : JobDone(w, out.ways)
       /\ DOMAIN found.outlines \subseteq DOMAIN out.ways
  /\ pass \in {"routes", "done"} =>
       \A w \in found.standalone : w \in DOMAIN out.ways /\ out.ways[w].tags = osm.ways[w].tags

\* An area comes out with the members that outline it.
AreaOut(r) ==
  [id |-> r.id,
   members |-> [i \in DOMAIN Outline(r) |-> [type |-> "way", id |-> Outline(r)[i], role |-> "outer"]],
   tags |-> r.tags]

\* Where a route is: at the first node of its first way, if that is there.
FirstOf(r) == FirstWay(MembersOf(r, "way"), MembersOf(r, "rel"), found.childWays)
RouteAt(r) ==
  {found.nodes[n].at :
     n \in {found.firstNode[w] : w \in FirstOf(r) \cap DOMAIN found.firstNode} \cap DOMAIN found.nodes}

\* A route comes out with one made-up way, which is there.
RouteOut(r, s, nodes, ways) ==
  /\ s.id = r.id /\ s.tags = r.tags
  /\ \E w \in DOMAIN ways : /\ s.members = <<[type |-> "way", id |-> w, role |-> ""]>>
                            /\ w + 1 < 0 /\ w + 1 \in DOMAIN nodes /\ ways[w].refs = <<w + 1>>
                            /\ nodes[w + 1].at \in RouteAt(r)

RelsMade ==
  /\ pass \notin {"routes", "done"} => out.rels = {}
  /\ pass = "routes" => todo \subseteq {r \in found.routes : NamedRoute(r)}
  /\ pass = "done" => todo = {}
  /\ pass \in {"routes", "done"} =>
       /\ \A r \in found.areas : AreaOut(r) \in out.rels
       /\ \A r \in found.routes : NamedRoute(r) /\ r \notin todo /\ RouteAt(r) # {} =>
            \E s \in out.rels : RouteOut(r, s, out.nodes, out.ways)
       /\ \A s \in out.rels : \/ \E r \in found.areas : s = AreaOut(r)
                              \/ \E r \in found.routes : /\ NamedRoute(r)
                                                         /\ RouteOut(r, s, out.nodes, out.ways)

PlaceInv ==
  /\ osm \in Extracts /\ pass \in Reading \cup Emitting
  /\ FoundOK
  /\ pass \in Reading => out = NoOut /\ nextStub = -1 /\ todo = {}
  /\ pass \in Emitting => /\ DOMAIN out = DOMAIN NoOut
                          /\ MadeOf(out.nodes, out.ways, nextStub) /\ WaysMade /\ RelsMade

-----------------------------------------------------------------------------
(* Facts of the extract and of what was found *)

\* What is assumed of the extracts, of the one at hand.
LEMMA ExtractIs ==
  ASSUME osm \in Extracts
  PROVE  /\ \A n \in DOMAIN osm.nodes : n \in Nat /\ osm.nodes[n].at \in Int
         /\ \A w \in DOMAIN osm.ways : w \in Nat /\ osm.ways[w].refs \in Seq(Nat)
         /\ \A r \in osm.rels : /\ r.members \in Seq(Range(r.members))
                                /\ \A m \in Range(r.members) : m.id \in Nat
         /\ \A r, s \in osm.rels : r.id = s.id => r = s
  BY ExtractAssumption

\* What is selected of the members is a sequence of numbers.
LEMMA MembersAre ==
  ASSUME osm \in Extracts, NEW r \in osm.rels, NEW Q
  PROVE  IdsOf(r, Q) \in Seq(Nat)
<1> DEFINE ms == Those(r.members, Q)
<1>1. r.members \in Seq(Range(r.members)) /\ \A m \in Range(r.members) : m.id \in Nat
    BY ExtractIs
<1>2. ms \in Seq(Range(r.members))
    BY <1>1, ThoseAre
<1>3. IdsOf(r, Q) = [i \in DOMAIN ms |-> ms[i].id]
    BY DEF IdsOf
<1> HIDE DEF ms
<1>4. DOMAIN ms = 1 .. Len(ms) /\ Len(ms) \in Nat /\ \A i \in 1 .. Len(ms) : ms[i].id \in Nat
    BY <1>1, <1>2, SeqIs
<1>5. QED
    BY <1>3, <1>4

\* So are the outline and the ways of a relation.
LEMMA OutlineIs ==
  ASSUME osm \in Extracts, NEW r \in osm.rels
  PROVE  Outline(r) \in Seq(Nat) /\ \A type : MembersOf(r, type) \in Seq(Nat)
  BY MembersAre DEF Outline, MembersOf

\* All that was found, in the terms the rest of the proof needs.
Finds == RelationsRead /\ ChildrenRead /\ WaysRead /\ NodesRead

\* What was found is of the extract, and the nodes of a way that is needed are
\* found as far as they are there.
LEMMA FindsAre ==
  ASSUME osm \in Extracts, Finds
  PROVE  /\ DOMAIN found.nodes \subseteq DOMAIN osm.nodes
         /\ \A n \in DOMAIN found.nodes : n \in Nat /\ found.nodes[n].at \in Int
                                          /\ found.nodes[n].at = osm.nodes[n].at
         /\ found.searchNodes \subseteq DOMAIN osm.nodes
         /\ \A w \in DOMAIN found.outlines \cup found.standalone \cup found.jobs :
              /\ w \in DOMAIN osm.ways /\ w \in Nat /\ osm.ways[w].refs \in Seq(Nat)
              /\ Range(osm.ways[w].refs) \subseteq Nat
              /\ Range(osm.ways[w].refs) \cap DOMAIN osm.nodes = Range(osm.ways[w].refs) \cap DOMAIN found.nodes
<1>1. /\ DOMAIN found.nodes \subseteq DOMAIN osm.nodes /\ found.searchNodes \subseteq DOMAIN osm.nodes
      /\ \A n \in DOMAIN found.nodes : n \in Nat /\ found.nodes[n].at \in Int
                                       /\ found.nodes[n].at = osm.nodes[n].at
    BY ExtractIs DEF Finds, NodesRead
<1>2. ASSUME NEW w \in DOMAIN found.outlines \cup found.standalone \cup found.jobs
      PROVE  /\ w \in DOMAIN osm.ways /\ w \in Nat /\ osm.ways[w].refs \in Seq(Nat)
             /\ Range(osm.ways[w].refs) \subseteq Nat
             /\ Range(osm.ways[w].refs) \cap DOMAIN osm.nodes = Range(osm.ways[w].refs) \cap DOMAIN found.nodes
    <2>1. w \in DOMAIN osm.ways
        BY DEF Finds, WaysRead
    <2>2. w \in Nat /\ osm.ways[w].refs \in Seq(Nat)
        BY <2>1, ExtractIs
    <2>3. Range(osm.ways[w].refs) \subseteq Nat
        BY <2>2, SeqIs DEF Range
    <2>4. Range(osm.ways[w].refs) \subseteq found.needed
        BY DEF Finds, WaysRead, Vertices
    <2>5. DOMAIN found.nodes = found.needed \cap DOMAIN osm.nodes
        BY DEF Finds, NodesRead
    <2>6. QED
        BY <2>1, <2>2, <2>3, <2>4, <2>5
<1>3. QED
    BY <1>1, <1>2

-----------------------------------------------------------------------------
(* The passes over the extract *)

\* Nothing is found and nothing made at first.
LEMMA InitInv ==
  ASSUME Init
  PROVE  PlaceInv
  BY DEF Init, PlaceInv, FoundOK, Reading, Emitting

\* The pass over the relations finds areas and routes.
LEMMA ReadRelationsInv ==
  ASSUME PlaceInv, ReadRelations
  PROVE  PlaceInv'
<1> DEFINE areas == {r \in osm.rels : Area(r.tags) /\ Outline(r) # << >>}
           areaWays == UNION {Range(Outline(r)) : r \in areas}
           routes == {r \in osm.rels : Interesting(r.tags)}
<1>1. /\ found' = [found EXCEPT !.areas = areas, !.areaWays = areaWays, !.routes = routes]
      /\ pass' = "children" /\ UNCHANGED <<osm, keepVertices, out, nextStub, todo>>
    BY DEF ReadRelations
<1>2. pass = "relations" /\ DOMAIN found = DOMAIN NoFinds
    BY DEF ReadRelations, PlaceInv, FoundOK
<1> HIDE DEF areas, areaWays, routes
<1>3. /\ DOMAIN found' = DOMAIN NoFinds
      /\ found'.areas = areas /\ found'.areaWays = areaWays /\ found'.routes = routes
    BY <1>1, <1>2 DEF NoFinds
<1>4. RelationsRead'
    BY <1>1, <1>3 DEF RelationsRead, areas, areaWays, routes
<1>5. FoundOK'
    BY <1>1, <1>3, <1>4 DEF FoundOK, Emitting, NoFinds
<1>6. QED
    BY <1>1, <1>2, <1>5 DEF PlaceInv, Reading, Emitting, NoOut

\* The pass over the relations again finds the children of routes.
LEMMA ReadChildrenInv ==
  ASSUME PlaceInv, ReadChildren
  PROVE  PlaceInv'
<1> DEFINE needed == UNION {Range(MembersOf(r, "rel")) : r \in found.routes}
           here == {c \in needed : \E r \in osm.rels : r.id = c}
           ways == [c \in here |-> MembersOf(Rel(c), "way")]
<1>1. /\ found' = [found EXCEPT !.childWays = ways]
      /\ pass' = "ways" /\ UNCHANGED <<osm, keepVertices, out, nextStub, todo>>
    BY DEF ReadChildren
<1>2. pass = "children" /\ DOMAIN found = DOMAIN NoFinds /\ RelationsRead
    BY DEF ReadChildren, PlaceInv, FoundOK
<1>3. \A r \in found.routes : \A c \in Range(MembersOf(r, "rel")) :
        (\E s \in osm.rels : s.id = c) => c \in DOMAIN ways
    OBVIOUS
<1>4. \A c \in DOMAIN ways : (\E s \in osm.rels : s.id = c) /\ ways[c] = MembersOf(Rel(c), "way")
    OBVIOUS
<1> HIDE DEF ways
<1>5. /\ DOMAIN found' = DOMAIN NoFinds /\ found'.childWays = ways
      /\ found'.areas = found.areas /\ found'.areaWays = found.areaWays /\ found'.routes = found.routes
    BY <1>1, <1>2 DEF NoFinds
<1>6. RelationsRead'
    BY <1>1, <1>2, <1>5 DEF RelationsRead
<1>7. ChildrenRead'
    BY <1>1, <1>3, <1>4, <1>5 DEF ChildrenRead, Rel
<1>8. FoundOK'
    BY <1>1, <1>5, <1>6, <1>7 DEF FoundOK, Emitting, NoFinds
<1>9. QED
    BY <1>1, <1>2, <1>8 DEF PlaceInv, Reading, Emitting, NoOut

\* The pass over the ways finds what is needed of them.
LEMMA ReadWaysInv ==
  ASSUME PlaceInv, ReadWays
  PROVE  PlaceInv'
<1> DEFINE outlines == [w \in found.areaWays \cap DOMAIN osm.ways |-> osm.ways[w].refs]
           standalone == {w \in DOMAIN osm.ways : Area(osm.ways[w].tags) /\ Len(osm.ways[w].refs) >= 3}
           firstNode == [w \in {v \in RouteWays \cap DOMAIN osm.ways : osm.ways[v].refs # << >>} |->
                           osm.ways[w].refs[1]]
           jobs == {w \in DOMAIN osm.ways : SearchWay(osm.ways[w]) /\ osm.ways[w].refs # << >>}
           needed == Vertices(DOMAIN outlines \cup standalone \cup jobs) \cup Range(firstNode)
<1>1. /\ found' = [found EXCEPT !.outlines = outlines, !.standalone = standalone,
                                !.firstNode = firstNode, !.jobs = jobs, !.needed = needed]
      /\ pass' = "nodes" /\ UNCHANGED <<osm, keepVertices, out, nextStub, todo>>
    BY DEF ReadWays, NeededNodes
<1>2. pass = "ways" /\ DOMAIN found = DOMAIN NoFinds /\ RelationsRead /\ ChildrenRead
    BY DEF ReadWays, PlaceInv, FoundOK
<1>3. /\ DOMAIN outlines = found.areaWays \cap DOMAIN osm.ways
      /\ \A w \in DOMAIN outlines : outlines[w] = osm.ways[w].refs
      /\ DOMAIN firstNode = {w \in RouteWays \cap DOMAIN osm.ways : osm.ways[w].refs # << >>}
      /\ \A w \in DOMAIN firstNode : firstNode[w] = osm.ways[w].refs[1]
    OBVIOUS
<1>4. /\ Vertices(DOMAIN outlines \cup standalone \cup jobs) \subseteq needed
      /\ Range(firstNode) \subseteq needed
    OBVIOUS
<1> HIDE DEF outlines, standalone, firstNode, jobs, needed
<1>5. /\ DOMAIN found' = DOMAIN NoFinds
      /\ found'.areas = found.areas /\ found'.areaWays = found.areaWays /\ found'.routes = found.routes
      /\ found'.childWays = found.childWays
      /\ found'.outlines = outlines /\ found'.standalone = standalone /\ found'.firstNode = firstNode
      /\ found'.jobs = jobs /\ found'.needed = needed
    BY <1>1, <1>2 DEF NoFinds
<1>6. RelationsRead' /\ ChildrenRead'
    BY <1>1, <1>2, <1>5 DEF RelationsRead, ChildrenRead, Rel
<1>7. RouteWays' = RouteWays
    BY <1>5 DEF RouteWays
<1>8. \A ways : Vertices(ways)' = Vertices(ways)
    BY <1>1 DEF Vertices
<1>9. WaysRead'
    <2>1. /\ (DOMAIN found.outlines = found.areaWays \cap DOMAIN osm.ways)'
          /\ (\A w \in DOMAIN found.outlines : found.outlines[w] = osm.ways[w].refs)'
        BY <1>1, <1>3, <1>5
    <2>2. /\ (found.standalone = {w \in DOMAIN osm.ways :
                 Area(osm.ways[w].tags) /\ Len(osm.ways[w].refs) >= 3})'
          /\ (found.jobs = {w \in DOMAIN osm.ways : SearchWay(osm.ways[w]) /\ osm.ways[w].refs # << >>})'
        BY <1>1, <1>5 DEF standalone, jobs
    <2>3. /\ (DOMAIN found.firstNode = {w \in RouteWays \cap DOMAIN osm.ways : osm.ways[w].refs # << >>})'
          /\ (\A w \in DOMAIN found.firstNode : found.firstNode[w] = osm.ways[w].refs[1])'
        BY <1>1, <1>3, <1>5, <1>7
    <2>4. /\ (Vertices(DOMAIN found.outlines \cup found.standalone \cup found.jobs) \subseteq found.needed)'
          /\ (Range(found.firstNode) \subseteq found.needed)'
        BY <1>4, <1>5, <1>1 DEF Vertices
    <2>5. QED
        BY <2>1, <2>2, <2>3, <2>4 DEF WaysRead
<1>10. FoundOK'
    BY <1>1, <1>5, <1>6, <1>9 DEF FoundOK, Emitting, NoFinds
<1>11. QED
    BY <1>1, <1>2, <1>10 DEF PlaceInv, Reading, Emitting, NoOut

\* The pass over the nodes finds where the needed ones are.
LEMMA ReadNodesInv ==
  ASSUME PlaceInv, ReadNodes
  PROVE  PlaceInv'
<1> DEFINE nodes == [n \in found.needed \cap DOMAIN osm.nodes |-> [at |-> osm.nodes[n].at]]
           searchNodes == {n \in DOMAIN osm.nodes : Named(osm.nodes[n].tags)}
<1>1. /\ found' = [found EXCEPT !.nodes = nodes, !.searchNodes = searchNodes]
      /\ pass' = "points" /\ UNCHANGED <<osm, keepVertices, out, nextStub, todo>>
    BY DEF ReadNodes
<1>2. pass = "nodes" /\ DOMAIN found = DOMAIN NoFinds /\ RelationsRead /\ ChildrenRead /\ WaysRead
    BY DEF ReadNodes, PlaceInv, FoundOK
<1>3. /\ DOMAIN nodes = found.needed \cap DOMAIN osm.nodes
      /\ \A n \in DOMAIN nodes : nodes[n].at = osm.nodes[n].at
    OBVIOUS
<1> HIDE DEF nodes, searchNodes
<1>4. /\ DOMAIN found' = DOMAIN NoFinds
      /\ found'.areas = found.areas /\ found'.areaWays = found.areaWays /\ found'.routes = found.routes
      /\ found'.childWays = found.childWays
      /\ found'.outlines = found.outlines /\ found'.standalone = found.standalone
      /\ found'.firstNode = found.firstNode /\ found'.jobs = found.jobs /\ found'.needed = found.needed
      /\ found'.nodes = nodes /\ found'.searchNodes = searchNodes
    BY <1>1, <1>2 DEF NoFinds
<1>5. RelationsRead' /\ ChildrenRead'
    BY <1>1, <1>2, <1>4 DEF RelationsRead, ChildrenRead, Rel
<1>6. RouteWays' = RouteWays
    BY <1>4 DEF RouteWays
<1>7. WaysRead'
    BY <1>1, <1>2, <1>4, <1>6 DEF WaysRead, Vertices
<1>8. NodesRead'
    BY <1>1, <1>3, <1>4 DEF NodesRead, searchNodes
<1>9. FoundOK'
    BY <1>1, <1>4, <1>5, <1>7, <1>8 DEF FoundOK
<1>10. out' = NoOut /\ nextStub' = -1 /\ todo' = {}
    BY <1>1, <1>2 DEF PlaceInv, Reading
<1>11. /\ (DOMAIN out = DOMAIN NoOut)' /\ out'.nodes = << >> /\ out'.ways = << >> /\ out'.rels = {}
    BY <1>10 DEF NoOut
<1>12. MadeOf(out.nodes, out.ways, nextStub)'
    BY <1>10, <1>11 DEF MadeOf
<1>13. WaysMade' /\ RelsMade'
    BY <1>1, <1>10, <1>11 DEF WaysMade, RelsMade
<1>14. QED
    BY <1>1, <1>9, <1>11, <1>12, <1>13 DEF PlaceInv, Emitting, Reading

-----------------------------------------------------------------------------
(* What is made stays as it is *)

\* Once found, things stay found.
LEMMA SameFinds ==
  ASSUME UNCHANGED <<osm, keepVertices, found>>
  PROVE  /\ RelationsRead' = RelationsRead /\ ChildrenRead' = ChildrenRead
         /\ WaysRead' = WaysRead /\ NodesRead' = NodesRead
  BY DEF RelationsRead, ChildrenRead, WaysRead, NodesRead, RouteWays, Vertices, Rel

\* What is made as it should be in the next state is so there.
LEMMA MadeNext ==
  ASSUME UNCHANGED <<osm, keepVertices, found>>, NEW N, NEW W, NEW k,
         out'.nodes = N, out'.ways = W, nextStub' = k, MadeOf(N, W, k)
  PROVE  MadeOf(out.nodes, out.ways, nextStub)'
<1>1. KeptInFull' = KeptInFull /\ Rings' = Rings
    BY DEF KeptInFull, Rings, Vertices
<1>2. \A w : InFull(w)' = InFull(w)
    BY <1>1 DEF InFull
<1>3. \A n, x : NodeOK(n, x)' = NodeOK(n, x)
    BY <1>1 DEF NodeOK
<1>4. \A w, x, nodes : WayOK(w, x, nodes)' = WayOK(w, x, nodes)
    BY <1>2 DEF WayOK, WholeWay, PointWay, RouteWay
<1>5. QED
    BY <1>3, <1>4 DEF MadeOf

\* V has the nodes N has, and maybe more.
Extends(V, N) == DOMAIN N \subseteq DOMAIN V /\ \A n \in DOMAIN N : V[n] = N[n]

\* A way is no worse for more nodes.
LEMMA WayStays ==
  ASSUME NEW N, NEW V, Extends(V, N), NEW w, NEW way, WayOK(w, way, N)
  PROVE  WayOK(w, way, V)
  BY DEF Extends, WayOK, WholeWay, PointWay, RouteWay

\* A way that is not whole has one made-up node.
LEMMA WayRefs ==
  ASSUME osm \in Extracts, Finds, NEW N, NEW w, NEW way, WayOK(w, way, N)
  PROVE  \/ WholeWay(w, way, N) /\ way.refs \in Seq(Nat) /\ \A n : way.refs = <<n>> => n \in Nat
         \/ \E m \in DOMAIN N : m < 0 /\ way.refs = <<m>>
<1>1. CASE WholeWay(w, way, N)
    <2>1. way.refs \in Seq(Nat)
        BY <1>1, ExtractIs DEF WholeWay
    <2>2. ASSUME NEW n, way.refs = <<n>>
          PROVE  n \in Nat
        BY <2>1, <2>2
    <2>3. QED
        BY <1>1, <2>1, <2>2
<1>2. CASE PointWay(w, way, N)
    BY <1>2 DEF PointWay
<1>3. CASE RouteWay(w, way, N)
    BY <1>3 DEF RouteWay
<1>4. QED
    BY <1>1, <1>2, <1>3 DEF WayOK

\* Vertices may be added.
LEMMA AddVertices ==
  ASSUME osm \in Extracts, Finds, NEW N, NEW W, NEW k, MadeOf(N, W, k),
         found.searchNodes \subseteq DOMAIN N, NEW ns, ns \subseteq Rings \/ keepVertices
  PROVE  /\ MadeOf(WithVertices(N, ns), W, k)
         /\ Extends(WithVertices(N, ns), N)
         /\ ns \cap DOMAIN found.nodes \subseteq DOMAIN WithVertices(N, ns)
<1> DEFINE f == [n \in ns \cap DOMAIN found.nodes |-> [at |-> found.nodes[n].at, tags |-> << >>]]
           V == WithVertices(N, ns)
<1>1. V = Over(N, f)
    BY DEF WithVertices
<1>2. /\ DOMAIN f = ns \cap DOMAIN found.nodes
      /\ \A n \in DOMAIN f : f[n].at = found.nodes[n].at /\ f[n].tags = << >>
    OBVIOUS
<1> HIDE DEF f, V
<1>3. /\ DOMAIN V = DOMAIN N \cup DOMAIN f
      /\ \A n \in DOMAIN N : V[n] = N[n]
      /\ \A n \in DOMAIN f \ DOMAIN N : V[n] = f[n]
    BY <1>1, OverIs
<1>4. Extends(V, N)
    BY <1>3 DEF Extends
<1>5. ASSUME NEW n \in DOMAIN V
      PROVE  n \in Int /\ n > k /\ NodeOK(n, V[n])
    <2>1. CASE n \in DOMAIN N
        BY <1>3, <2>1 DEF MadeOf
    <2>2. CASE n \notin DOMAIN N
        <3>1. n \in ns \cap DOMAIN found.nodes /\ V[n] = f[n] /\ n \notin found.searchNodes
            BY <1>2, <1>3, <2>2
        <3>2. n \in Nat /\ f[n].at = osm.nodes[n].at /\ f[n].tags = << >>
            BY <1>2, <3>1, FindsAre
        <3>3. n \in Rings \/ keepVertices
            BY <3>1
        <3>4. NodeOK(n, V[n])
            BY <3>1, <3>2, <3>3 DEF NodeOK
        <3>5. QED
            BY <3>2, <3>4 DEF MadeOf
    <2>3. QED
        BY <2>1, <2>2
<1>6. \A n \in DOMAIN V : n < 0 => n \in DOMAIN N
    <2> SUFFICES ASSUME NEW n \in DOMAIN V, n \notin DOMAIN N
                 PROVE  ~ (n < 0)
        OBVIOUS
    <2>1. n \in DOMAIN found.nodes
        BY <1>2, <1>3
    <2>2. n \in Nat
        BY <2>1, FindsAre
    <2>3. QED
        BY <2>2
<1>7. \A w \in DOMAIN W : w \in Int /\ w > k /\ WayOK(w, W[w], V)
    BY <1>4, WayStays DEF MadeOf
<1>8. /\ \A n \in DOMAIN V : n < 0 => \E w \in DOMAIN W : W[w].refs = <<n>>
      /\ \A n \in DOMAIN V : n < 0 =>
           \A v, w \in DOMAIN W : W[v].refs = <<n>> /\ W[w].refs = <<n>> => v = w
    BY <1>6 DEF MadeOf
<1>9. MadeOf(V, W, k)
    BY <1>5, <1>7, <1>8 DEF MadeOf
<1>10. QED
    BY <1>2, <1>3, <1>4, <1>9 DEF V

\* Whole ways may be added, or come instead of others with the same nodes.
LEMMA AddWays ==
  ASSUME osm \in Extracts, Finds, NEW N, NEW W, NEW k, MadeOf(N, W, k), NEW V,
         DOMAIN W \subseteq DOMAIN V, \A w \in DOMAIN W : V[w].refs = W[w].refs,
         \A w \in DOMAIN V : (w \in DOMAIN W /\ V[w] = W[w]) \/ WholeWay(w, V[w], N)
  PROVE  MadeOf(N, V, k)
<1>1. ASSUME NEW w \in DOMAIN V
      PROVE  w \in Int /\ w > k /\ WayOK(w, V[w], N)
    <2>1. CASE w \in DOMAIN W /\ V[w] = W[w]
        BY <2>1 DEF MadeOf
    <2>2. CASE WholeWay(w, V[w], N)
        <3>1. w \in Nat
            BY <2>2, ExtractIs DEF WholeWay
        <3>2. QED
            BY <2>2, <3>1 DEF WayOK, MadeOf
    <2>3. QED
        BY <2>1, <2>2
<1>2. ASSUME NEW n \in DOMAIN N, n < 0, NEW w \in DOMAIN V, V[w].refs = <<n>>
      PROVE  w \in DOMAIN W /\ W[w].refs = <<n>>
    <2>1. CASE w \in DOMAIN W
        BY <1>2, <2>1
    <2>2. CASE WholeWay(w, V[w], N)
        <3>1. <<n>> \in Seq(Nat)
            BY <1>2, <2>2, ExtractIs DEF WholeWay
        <3>2. n \in Nat
            BY <3>1
        <3>3. QED
            BY <1>2, <3>2
    <2>3. QED
        BY <2>1, <2>2
<1>3. \A n \in DOMAIN N : n < 0 => \E w \in DOMAIN V : V[w].refs = <<n>>
    <2> SUFFICES ASSUME NEW n \in DOMAIN N, n < 0
                 PROVE  \E w \in DOMAIN V : V[w].refs = <<n>>
        OBVIOUS
    <2>1. PICK w \in DOMAIN W : W[w].refs = <<n>>
        BY DEF MadeOf
    <2>2. QED
        BY <2>1
<1>4. \A n \in DOMAIN N : n < 0 =>
        \A v, w \in DOMAIN V : V[v].refs = <<n>> /\ V[w].refs = <<n>> => v = w
    <2> SUFFICES ASSUME NEW n \in DOMAIN N, n < 0, NEW v \in DOMAIN V, NEW w \in DOMAIN V,
                        V[v].refs = <<n>>, V[w].refs = <<n>>
                 PROVE  v = w
        OBVIOUS
    <2>1. v \in DOMAIN W /\ W[v].refs = <<n>> /\ w \in DOMAIN W /\ W[w].refs = <<n>>
        BY <1>2
    <2>2. QED
        BY <2>1 DEF MadeOf
<1>5. QED
    BY <1>1, <1>3, <1>4 DEF MadeOf

\* A way may be added with a made-up node of its own.
LEMMA AddStub ==
  ASSUME osm \in Extracts, Finds, NEW N, NEW W, NEW k, MadeOf(N, W, k),
         NEW at \in Int, NEW w \in Int, w \notin DOMAIN W, NEW way, way.refs = <<k>>,
         NEW j \in Int, j < k, w > j, WayOK(w, way, WithStub(N, k, at))
  PROVE  /\ MadeOf(WithStub(N, k, at), With(W, w, way), j)
         /\ Extends(WithStub(N, k, at), N)
<1> DEFINE V == WithStub(N, k, at)
           X == With(W, w, way)
           stub == [at |-> at, tags |-> << >>]
<1>1. V = With(N, k, stub) /\ stub.at = at /\ stub.tags = << >>
    BY DEF WithStub
<1> HIDE DEF V, stub
<1>2. DOMAIN V = DOMAIN N \cup {k} /\ V[k] = stub /\ \A n \in DOMAIN N \ {k} : V[n] = N[n]
    BY <1>1 DEF With
<1>3. DOMAIN X = DOMAIN W \cup {w} /\ X[w] = way /\ \A v \in DOMAIN W : X[v] = W[v]
    BY DEF With
<1> HIDE DEF X
<1>4. k \in Int /\ k < 0 /\ k \notin DOMAIN N
    BY DEF MadeOf
<1>5. Extends(V, N)
    BY <1>2, <1>4 DEF Extends
<1>6. ASSUME NEW n \in DOMAIN V
      PROVE  n \in Int /\ n > j /\ NodeOK(n, V[n])
    <2>1. CASE n = k
        BY <1>1, <1>2, <1>4, <2>1 DEF NodeOK
    <2>2. CASE n \in DOMAIN N
        <3>1. n \in Int /\ n > k /\ NodeOK(n, N[n])
            BY <2>2 DEF MadeOf
        <3>2. V[n] = N[n]
            BY <1>5, <2>2 DEF Extends
        <3>3. QED
            BY <1>4, <3>1, <3>2
    <2>3. QED
        BY <1>2, <2>1, <2>2
<1>7. ASSUME NEW v \in DOMAIN X
      PROVE  v \in Int /\ v > j /\ WayOK(v, X[v], V)
    <2>1. CASE v = w
        BY <1>3, <2>1 DEF V
    <2>2. CASE v \in DOMAIN W
        <3>1. v \in Int /\ v > k /\ WayOK(v, W[v], N)
            BY <2>2 DEF MadeOf
        <3>2. WayOK(v, W[v], V)
            BY <1>5, <3>1, WayStays
        <3>3. QED
            BY <1>3, <1>4, <2>2, <3>1, <3>2
    <2>3. QED
        BY <1>3, <2>1, <2>2
<1>8. ASSUME NEW v \in DOMAIN W
      PROVE  W[v].refs # <<k>>
    <2>1. \/ \A n : W[v].refs = <<n>> => n \in Nat
          \/ \E m \in DOMAIN N : W[v].refs = <<m>>
        BY WayRefs DEF MadeOf
    <2>2. \A m : <<m>> = <<k>> => m = k
        OBVIOUS
    <2>3. QED
        BY <1>4, <2>1, <2>2
<1>9. \A n \in DOMAIN V : n < 0 => \E v \in DOMAIN X : X[v].refs = <<n>>
    <2> SUFFICES ASSUME NEW n \in DOMAIN V, n < 0
                 PROVE  \E v \in DOMAIN X : X[v].refs = <<n>>
        OBVIOUS
    <2>1. CASE n = k
        BY <1>3, <2>1
    <2>2. CASE n \in DOMAIN N
        <3>1. PICK v \in DOMAIN W : W[v].refs = <<n>>
            BY <2>2 DEF MadeOf
        <3>2. QED
            BY <1>3, <3>1
    <2>3. QED
        BY <1>2, <2>1, <2>2
<1>10. \A n \in DOMAIN V : n < 0 =>
         \A u, v \in DOMAIN X : X[u].refs = <<n>> /\ X[v].refs = <<n>> => u = v
    <2> SUFFICES ASSUME NEW n \in DOMAIN V, n < 0, NEW u \in DOMAIN X, NEW v \in DOMAIN X,
                        X[u].refs = <<n>>, X[v].refs = <<n>>
                 PROVE  u = v
        OBVIOUS
    <2>1. CASE n = k
        BY <1>3, <1>8, <2>1
    <2>2. CASE n \in DOMAIN N /\ n # k
        <3>1. <<k>> # <<n>>
            BY <2>2
        <3>2. u \in DOMAIN W /\ v \in DOMAIN W
            BY <1>3, <3>1
        <3>3. QED
            BY <1>3, <2>2, <3>2 DEF MadeOf
    <2>3. QED
        BY <1>2, <2>1, <2>2
<1>11. MadeOf(V, X, j)
    BY <1>4, <1>6, <1>7, <1>9, <1>10 DEF MadeOf
<1>12. QED
    BY <1>5, <1>11 DEF V, X

-----------------------------------------------------------------------------
(* The passes that make the points *)

\* What the invariant says while objects are made.
LEMMA EmittingIs ==
  ASSUME PlaceInv, pass \in Emitting
  PROVE  /\ osm \in Extracts /\ Finds /\ DOMAIN found = DOMAIN NoFinds
         /\ DOMAIN out = {"nodes", "ways", "rels"}
         /\ MadeOf(out.nodes, out.ways, nextStub) /\ WaysMade /\ RelsMade
<1>1. DOMAIN NoOut = {"nodes", "ways", "rels"}
    BY DEF NoOut
<1>2. QED
    BY <1>1 DEF PlaceInv, FoundOK, Finds, Emitting

\* While objects are made, nothing is found.
LEMMA FoundStays ==
  ASSUME PlaceInv, pass \in Emitting, pass' \in Emitting, UNCHANGED <<osm, keepVertices, found>>
  PROVE  (osm \in Extracts)' /\ FoundOK' /\ (\A w, ways : JobDone(w, ways)' = JobDone(w, ways))
<1>1. RelationsRead /\ ChildrenRead /\ WaysRead /\ NodesRead /\ DOMAIN found = DOMAIN NoFinds
    BY EmittingIs DEF Finds
<1>2. FoundOK'
    BY <1>1, SameFinds DEF FoundOK
<1>3. QED
    BY <1>2 DEF JobDone, PlaceInv

\* The vertices of outlines, with the named nodes over them.
LEMMA EmitNodesInv ==
  ASSUME PlaceInv, EmitNodes
  PROVE  PlaceInv'
<1> DEFINE S == [n \in found.searchNodes |-> osm.nodes[n]]
           R == [n \in Rings \cap DOMAIN found.nodes |-> [at |-> found.nodes[n].at, tags |-> << >>]]
           V == Over(<< >>, R)
           N == Over(S, V)
<1>1. /\ pass = "points" /\ pass' = "search" /\ todo' = found.jobs
      /\ UNCHANGED <<osm, keepVertices, found, nextStub>>
      /\ out' = [out EXCEPT !.nodes = N]
    BY DEF EmitNodes, Rings, WithVertices
<1>2. pass \in Emitting /\ pass' \in Emitting
    BY <1>1 DEF Emitting
<1>3. /\ osm \in Extracts /\ Finds /\ DOMAIN out = {"nodes", "ways", "rels"} /\ out = NoOut
      /\ MadeOf(out.nodes, out.ways, nextStub)
    BY <1>1, <1>2, EmittingIs DEF WaysMade
<1>4. out.ways = << >> /\ out.rels = {}
    BY <1>3 DEF NoOut
<1>5. /\ DOMAIN S = found.searchNodes /\ \A n \in DOMAIN S : S[n] = osm.nodes[n]
      /\ DOMAIN R = Rings \cap DOMAIN found.nodes
      /\ \A n \in DOMAIN R : R[n].at = found.nodes[n].at /\ R[n].tags = << >>
    OBVIOUS
<1> HIDE DEF S, R, N, V
<1>6. DOMAIN V = DOMAIN R /\ \A n \in DOMAIN R : V[n] = R[n]
    BY DEF V, Over
<1>7. /\ DOMAIN N = DOMAIN S \cup DOMAIN R /\ \A n \in DOMAIN S : N[n] = S[n]
      /\ \A n \in DOMAIN R \ DOMAIN S : N[n] = R[n]
    BY <1>6 DEF N, Over
<1>8. DOMAIN out' = {"nodes", "ways", "rels"} /\ out'.nodes = N /\ out'.ways = << >> /\ out'.rels = {}
    BY <1>1, <1>3, <1>4
<1>9. ASSUME NEW n \in DOMAIN N
      PROVE  n \in Nat /\ NodeOK(n, N[n])
    <2>1. CASE n \in found.searchNodes
        <3>1. n \in Nat
            BY <1>3, <2>1, FindsAre, ExtractIs
        <3>2. N[n] = osm.nodes[n]
            BY <1>5, <1>7, <2>1
        <3>3. QED
            BY <2>1, <3>1, <3>2 DEF NodeOK
    <2>2. CASE n \notin found.searchNodes
        <3>1. n \in DOMAIN found.nodes /\ n \in Rings /\ N[n] = R[n] /\ n \in DOMAIN R
            BY <1>5, <1>7, <2>2
        <3>2. n \in Nat /\ found.nodes[n].at = osm.nodes[n].at
            BY <1>3, <3>1, FindsAre
        <3>3. QED
            BY <1>5, <2>2, <3>1, <3>2 DEF NodeOK
    <2>3. QED
        BY <2>1, <2>2
<1>10. MadeOf(N, << >>, nextStub)
    BY <1>3, <1>9 DEF MadeOf
<1>11. MadeOf(out.nodes, out.ways, nextStub)'
    BY <1>1, <1>8, <1>10, MadeNext
<1>12. WaysMade'
    BY <1>1, <1>5, <1>7, <1>8 DEF WaysMade
<1>13. RelsMade'
    BY <1>1, <1>8 DEF RelsMade
<1>14. (DOMAIN out = DOMAIN NoOut)'
    BY <1>8 DEF NoOut
<1>15. QED
    BY <1>1, <1>2, <1>11, <1>12, <1>13, <1>14, FoundStays DEF PlaceInv, Reading, Emitting

\* A search way is dealt with.
LEMMA SearchStep ==
  ASSUME PlaceInv, pass = "search", pass' = "search", UNCHANGED <<osm, keepVertices, found>>,
         NEW w \in todo, todo' = todo \ {w}, NEW N, NEW W, NEW k,
         out'.nodes = N, out'.ways = W, out'.rels = out.rels, DOMAIN out' = DOMAIN out,
         nextStub' = k, MadeOf(N, W, k), Extends(N, out.nodes), Extends(W, out.ways),
         DOMAIN W \subseteq DOMAIN out.ways \cup {w}, JobDone(w, W)
  PROVE  PlaceInv'
<1>1. pass \in Emitting /\ pass' \in Emitting
    BY DEF Emitting
<1>2. MadeOf(out.nodes, out.ways, nextStub)'
    BY MadeNext
<1>3. /\ WaysMade /\ RelsMade /\ DOMAIN out = {"nodes", "ways", "rels"}
    BY <1>1, EmittingIs
<1>4. /\ todo \subseteq found.jobs /\ DOMAIN out.ways \subseteq found.jobs \ todo
      /\ found.searchNodes \subseteq DOMAIN out.nodes
      /\ \A v \in found.jobs \ todo : JobDone(v, out.ways)
    BY <1>3 DEF WaysMade
<1>5. \A v \in found.jobs \ todo' : JobDone(v, W)
    BY <1>4 DEF JobDone, Extends
<1>6. \A v \in found.jobs' \ todo' : JobDone(v, W)'
    BY <1>1, <1>5, FoundStays
<1>7. (\A v \in found.jobs \ todo : JobDone(v, out.ways))'
    BY <1>6 DEF JobDone
<1>8. WaysMade'
    <2>1. (todo \subseteq found.jobs /\ DOMAIN out.ways \subseteq found.jobs \ todo)'
        BY <1>4
    <2>2. (found.searchNodes \subseteq DOMAIN out.nodes)'
        BY <1>4 DEF Extends
    <2>3. QED
        BY <1>7, <2>1, <2>2 DEF WaysMade
<1>9. RelsMade'
    BY <1>3 DEF RelsMade
<1>10. (DOMAIN out = DOMAIN NoOut)'
    BY <1>3 DEF NoOut
<1>11. QED
    BY <1>1, <1>2, <1>8, <1>9, <1>10, FoundStays DEF PlaceInv, Reading, Emitting

\* A search way whole, collapsed, or left out.
LEMMA EmitSearchWayInv ==
  ASSUME PlaceInv, NEW w \in todo, EmitSearchWay(w)
  PROVE  PlaceInv'
<1> DEFINE way == osm.ways[w]
<1>1. /\ pass = "search" /\ pass' = "search" /\ todo' = todo \ {w}
      /\ UNCHANGED <<osm, keepVertices, found>>
    BY DEF EmitSearchWay
<1>2. pass \in Emitting
    BY <1>1 DEF Emitting
<1>3. /\ osm \in Extracts /\ Finds /\ DOMAIN out = {"nodes", "ways", "rels"}
      /\ MadeOf(out.nodes, out.ways, nextStub) /\ WaysMade
    BY <1>2, EmittingIs
<1>4. /\ w \in found.jobs /\ w \notin DOMAIN out.ways /\ found.searchNodes \subseteq DOMAIN out.nodes
    BY <1>1, <1>3 DEF WaysMade
<1>5. /\ w \in DOMAIN osm.ways /\ w \in Nat /\ way.refs \in Seq(Nat)
      /\ Range(way.refs) \cap DOMAIN osm.nodes = Range(way.refs) \cap DOMAIN found.nodes
    BY <1>3, <1>4, FindsAre
<1>6. nextStub \in Int /\ nextStub < 0
    BY <1>3 DEF MadeOf
<1>7. Extends(out.nodes, out.nodes) /\ Extends(out.ways, out.ways)
    BY DEF Extends
<1>8. CASE Known(way.refs, found.nodes) = << >>
    <2>1. UNCHANGED <<out, nextStub>>
        BY <1>8 DEF EmitSearchWay
    <2>2. JobDone(w, out.ways)
        BY <1>8 DEF JobDone
    <2>3. QED
        BY <1>1, <1>3, <1>7, <2>1, <2>2, SearchStep
<1>9. CASE Known(way.refs, found.nodes) # << >> /\ InFull(w)
    <2> DEFINE N == WithVertices(out.nodes, Range(way.refs))
               W == With(out.ways, w, way)
    <2>1. out' = [out EXCEPT !.nodes = N, !.ways = W] /\ nextStub' = nextStub
        BY <1>9 DEF EmitSearchWay, InFull
    <2>2. Range(way.refs) \subseteq Rings \/ keepVertices
        <3>1. CASE keepVertices
            BY <3>1
        <3>2. CASE w \in KeptInFull
            <4>1. w \in DOMAIN found.outlines \cup found.standalone
                BY <1>3, <1>5, <3>2 DEF KeptInFull, Finds, WaysRead
            <4>2. QED
                BY <4>1 DEF Rings, Vertices
        <3>3. QED
            BY <1>9, <3>1, <3>2 DEF InFull
    <2>3. /\ MadeOf(N, out.ways, nextStub) /\ Extends(N, out.nodes)
          /\ Range(way.refs) \cap DOMAIN found.nodes \subseteq DOMAIN N
        BY <1>3, <1>4, <2>2, AddVertices
    <2>4. DOMAIN W = DOMAIN out.ways \cup {w} /\ W[w] = way /\ \A v \in DOMAIN out.ways : W[v] = out.ways[v]
        BY <1>4 DEF With
    <2> HIDE DEF N, W
    <2>5. WholeWay(w, way, N)
        BY <1>5, <1>9, <2>3 DEF WholeWay
    <2> HIDE DEF way
    <2>6. MadeOf(N, W, nextStub)
        BY <1>3, <2>3, <2>4, <2>5, AddWays
    <2>7. Extends(W, out.ways) /\ DOMAIN W \subseteq DOMAIN out.ways \cup {w}
        BY <2>4 DEF Extends
    <2>8. JobDone(w, W)
        BY <2>4 DEF JobDone, way
    <2>9. out'.nodes = N /\ out'.ways = W /\ out'.rels = out.rels /\ DOMAIN out' = DOMAIN out
        BY <1>3, <2>1
    <2>10. QED
        BY <1>1, <2>1, <2>3, <2>6, <2>7, <2>8, <2>9, SearchStep
<1>10. CASE Known(way.refs, found.nodes) # << >> /\ ~ InFull(w)
    <2>1. PICK at \in OnGrid(Mean(way.refs, found.nodes)) : Collapse(w, way, at)
        BY <1>10 DEF EmitSearchWay
    <2> DEFINE N == WithStub(out.nodes, nextStub, at)
               point == [refs |-> <<nextStub>>, tags |-> way.tags]
               W == With(out.ways, w, point)
    <2>2. at \in Int /\ Near(Mean(way.refs, found.nodes), at)
        <3>1. way.refs \in Seq(Nat) /\ \A n \in DOMAIN found.nodes : found.nodes[n].at \in Int
            BY <1>3, <1>5, FindsAre
        <3> HIDE DEF way
        <3>2. QED
            BY <1>10, <2>1, <3>1, OnGridIs
    <2>3. out' = [out EXCEPT !.nodes = N, !.ways = W] /\ nextStub' = nextStub - 1
        BY <2>1 DEF Collapse
    <2>4. /\ nextStub \in DOMAIN N /\ N[nextStub].at = at
        BY DEF WithStub, With
    <2>5. DOMAIN W = DOMAIN out.ways \cup {w} /\ W[w] = point /\ \A v \in DOMAIN out.ways : W[v] = out.ways[v]
        BY <1>4 DEF With
    <2>6. point.refs = <<nextStub>> /\ point.tags = way.tags
        OBVIOUS
    <2>7. PointWay(w, point, N)
        <3> HIDE DEF N, W, point
        <3>1. QED
            BY <1>4, <1>6, <1>10, <2>2, <2>4, <2>6 DEF PointWay
    <2>8. /\ MadeOf(N, W, nextStub - 1) /\ Extends(N, out.nodes)
        <3> HIDE DEF point, way
        <3>1. WayOK(w, point, WithStub(out.nodes, nextStub, at))
            BY <2>7 DEF WayOK
        <3>2. nextStub - 1 \in Int /\ nextStub - 1 < nextStub /\ w > nextStub - 1 /\ w \in Int
            BY <1>5, <1>6
        <3>3. QED
            BY <1>3, <1>4, <2>2, <2>6, <3>1, <3>2, AddStub
    <2> HIDE DEF N, W, point
    <2>9. Extends(W, out.ways) /\ DOMAIN W \subseteq DOMAIN out.ways \cup {w}
        BY <2>5 DEF Extends
    <2>10. JobDone(w, W)
        BY <2>5, <2>6 DEF JobDone
    <2>11. out'.nodes = N /\ out'.ways = W /\ out'.rels = out.rels /\ DOMAIN out' = DOMAIN out
        BY <1>3, <2>3
    <2>12. QED
        BY <1>1, <2>3, <2>8, <2>9, <2>10, <2>11, SearchStep
<1>11. QED
    BY <1>8, <1>9, <1>10

\* An outline that has come out is whole already, and stays as it is.
LEMMA OutlineWayIs ==
  ASSUME osm \in Extracts, Finds, MadeOf(out.nodes, out.ways, nextStub), NEW w \in DOMAIN found.outlines
  PROVE  /\ w \in DOMAIN out.ways => /\ OutlineWay(w) = out.ways[w]
                                     /\ WholeWay(w, out.ways[w], out.nodes)
         /\ w \notin DOMAIN out.ways => /\ OutlineWay(w).refs = osm.ways[w].refs
                                        /\ OutlineWay(w).tags = << >>
<1>1. /\ w \in DOMAIN osm.ways /\ w \in Nat /\ osm.ways[w].refs \in Seq(Nat)
      /\ found.outlines[w] = osm.ways[w].refs /\ w \in KeptInFull
    BY FindsAre DEF Finds, WaysRead, KeptInFull
<1>2. CASE w \in DOMAIN out.ways
    <2> DEFINE way == out.ways[w]
    <2>1. WayOK(w, way, out.nodes)
        BY <1>2 DEF MadeOf
    <2>2. ~ PointWay(w, way, out.nodes) /\ ~ RouteWay(w, way, out.nodes)
        BY <1>1 DEF PointWay, RouteWay, InFull
    <2>3. WholeWay(w, way, out.nodes)
        BY <2>1, <2>2 DEF WayOK
    <2>4. way.refs \in Seq(Nat)
        BY <1>1, <2>3 DEF WholeWay
    <2> HIDE DEF way
    <2>5. ~ (Len(way.refs) = 1 /\ way.refs[1] < 0)
        BY <2>4
    <2>6. OutlineWay(w) = way
        BY <1>2, <2>5 DEF OutlineWay, way
    <2>7. QED
        BY <1>2, <2>3, <2>6 DEF way
<1>3. CASE w \notin DOMAIN out.ways
    BY <1>1, <1>3 DEF OutlineWay
<1>4. QED
    BY <1>2, <1>3

\* Outlines, those that were collapsed restored.
LEMMA EmitOutlinesInv ==
  ASSUME PlaceInv, EmitOutlines
  PROVE  PlaceInv'
<1> DEFINE N == WithVertices(out.nodes, Vertices(DOMAIN found.outlines))
           f == [w \in DOMAIN found.outlines |-> OutlineWay(w)]
           W == Over(f, out.ways)
<1>1. /\ pass = "search" /\ todo = {} /\ pass' = "areas"
      /\ UNCHANGED <<osm, keepVertices, found, nextStub, todo>>
      /\ out' = [out EXCEPT !.nodes = N, !.ways = W]
    BY DEF EmitOutlines
<1>2. pass \in Emitting /\ pass' \in Emitting
    BY <1>1 DEF Emitting
<1>3. /\ osm \in Extracts /\ Finds /\ DOMAIN out = {"nodes", "ways", "rels"}
      /\ MadeOf(out.nodes, out.ways, nextStub) /\ WaysMade /\ RelsMade
    BY <1>2, EmittingIs
<1>4. /\ found.searchNodes \subseteq DOMAIN out.nodes /\ \A v \in found.jobs : JobDone(v, out.ways)
    BY <1>1, <1>3 DEF WaysMade
<1>5. Vertices(DOMAIN found.outlines) \subseteq Rings
    BY DEF Rings, Vertices
<1>6. /\ MadeOf(N, out.ways, nextStub) /\ Extends(N, out.nodes)
      /\ Vertices(DOMAIN found.outlines) \cap DOMAIN found.nodes \subseteq DOMAIN N
    BY <1>3, <1>4, <1>5, AddVertices
<1>7. /\ DOMAIN W = DOMAIN found.outlines \cup DOMAIN out.ways
      /\ \A w \in DOMAIN found.outlines : W[w] = OutlineWay(w)
      /\ \A w \in DOMAIN out.ways \ DOMAIN found.outlines : W[w] = out.ways[w]
    BY DEF Over
<1> HIDE DEF N, W, f
<1>8. \A w \in DOMAIN out.ways : W[w] = out.ways[w]
    BY <1>3, <1>7, OutlineWayIs
<1>9. ASSUME NEW w \in DOMAIN W, w \notin DOMAIN out.ways
      PROVE  WholeWay(w, W[w], N)
    <2>1. w \in DOMAIN found.outlines /\ W[w] = OutlineWay(w)
        BY <1>7, <1>9
    <2>2. W[w].refs = osm.ways[w].refs /\ W[w].tags = << >>
        BY <1>3, <1>9, <2>1, OutlineWayIs
    <2>3. /\ w \in DOMAIN osm.ways
          /\ Range(osm.ways[w].refs) \cap DOMAIN osm.nodes = Range(osm.ways[w].refs) \cap DOMAIN found.nodes
        BY <1>3, <2>1, FindsAre
    <2>4. Range(osm.ways[w].refs) \subseteq Vertices(DOMAIN found.outlines)
        BY <2>1 DEF Vertices
    <2>5. InFull(w)
        BY <1>3, <2>1 DEF InFull, KeptInFull, Finds, WaysRead
    <2>6. QED
        BY <1>6, <2>2, <2>3, <2>4, <2>5 DEF WholeWay
<1>10. MadeOf(N, W, nextStub)
    BY <1>3, <1>6, <1>7, <1>8, <1>9, AddWays
<1>11. /\ out'.nodes = N /\ out'.ways = W /\ out'.rels = out.rels /\ DOMAIN out' = {"nodes", "ways", "rels"}
    BY <1>1, <1>3
<1>12. MadeOf(out.nodes, out.ways, nextStub)'
    BY <1>1, <1>10, <1>11, MadeNext
<1>13. \A v \in found.jobs : JobDone(v, W)
    BY <1>4, <1>7, <1>8 DEF JobDone
<1>14. (\A v \in found.jobs : JobDone(v, out.ways))'
    BY <1>1, <1>11, <1>13 DEF JobDone
<1>15. WaysMade'
    <2>1. (found.searchNodes \subseteq DOMAIN out.nodes)'
        BY <1>1, <1>4, <1>6, <1>11 DEF Extends
    <2>2. (DOMAIN found.outlines \subseteq DOMAIN out.ways)'
        BY <1>1, <1>7, <1>11
    <2>3. QED
        BY <1>1, <1>14, <2>1, <2>2 DEF WaysMade
<1>16. RelsMade'
    BY <1>1, <1>3, <1>11 DEF RelsMade
<1>17. (DOMAIN out = DOMAIN NoOut)'
    BY <1>11 DEF NoOut
<1>18. QED
    BY <1>1, <1>2, <1>12, <1>15, <1>16, <1>17, FoundStays DEF PlaceInv, Reading, Emitting

\* A way that is an area by itself has come out whole, if it has.
LEMMA StandaloneIs ==
  ASSUME osm \in Extracts, Finds, MadeOf(out.nodes, out.ways, nextStub), NEW w \in found.standalone
  PROVE  /\ w \in DOMAIN osm.ways /\ InFull(w)
         /\ w \in DOMAIN out.ways => WholeWay(w, out.ways[w], out.nodes)
<1>1. /\ w \in DOMAIN osm.ways /\ w \in Nat /\ w \in KeptInFull
    BY FindsAre DEF KeptInFull
<1>2. InFull(w)
    BY <1>1 DEF InFull
<1>3. ASSUME w \in DOMAIN out.ways
      PROVE  WholeWay(w, out.ways[w], out.nodes)
    <2>1. WayOK(w, out.ways[w], out.nodes)
        BY <1>3 DEF MadeOf
    <2>2. ~ PointWay(w, out.ways[w], out.nodes) /\ ~ RouteWay(w, out.ways[w], out.nodes)
        BY <1>1, <1>2 DEF PointWay, RouteWay
    <2>3. QED
        BY <2>1, <2>2 DEF WayOK
<1>4. QED
    BY <1>1, <1>2, <1>3

\* Areas, of one way and of several.
LEMMA EmitAreasInv ==
  ASSUME PlaceInv, EmitAreas
  PROVE  PlaceInv'
<1> DEFINE N == WithVertices(out.nodes, Vertices(found.standalone))
           tagsOf(w) == IF w \in DOMAIN out.ways /\ out.ways[w].tags # << >> THEN out.ways[w].tags
                        ELSE osm.ways[w].tags
           f == [w \in found.standalone |-> [refs |-> osm.ways[w].refs, tags |-> tagsOf(w)]]
           W == Over(f, out.ways)
           R == out.rels \cup {AreaOut(r) : r \in found.areas}
<1>1. /\ pass = "areas" /\ pass' = "routes" /\ todo' = {r \in found.routes : NamedRoute(r)}
      /\ UNCHANGED <<osm, keepVertices, found, nextStub>>
      /\ out' = [nodes |-> N, ways |-> W, rels |-> R]
    BY DEF EmitAreas, AreaOut
<1>2. pass \in Emitting /\ pass' \in Emitting
    BY <1>1 DEF Emitting
<1>3. /\ osm \in Extracts /\ Finds /\ MadeOf(out.nodes, out.ways, nextStub) /\ WaysMade /\ RelsMade
    BY <1>2, EmittingIs
<1>4. /\ found.searchNodes \subseteq DOMAIN out.nodes /\ \A v \in found.jobs : JobDone(v, out.ways)
      /\ DOMAIN found.outlines \subseteq DOMAIN out.ways
    BY <1>1, <1>3 DEF WaysMade
<1>5. Vertices(found.standalone) \subseteq Rings
    BY DEF Rings, Vertices
<1>6. /\ MadeOf(N, out.ways, nextStub) /\ Extends(N, out.nodes)
      /\ Vertices(found.standalone) \cap DOMAIN found.nodes \subseteq DOMAIN N
    BY <1>3, <1>4, <1>5, AddVertices
<1>7. \A w \in found.standalone : tagsOf(w) = osm.ways[w].tags
    <2> SUFFICES ASSUME NEW w \in found.standalone
                 PROVE  tagsOf(w) = osm.ways[w].tags
        OBVIOUS
    <2>1. w \in DOMAIN out.ways => out.ways[w].tags \in {osm.ways[w].tags, << >>}
        BY <1>3, StandaloneIs DEF WholeWay
    <2>2. QED
        BY <2>1
<1>8. \A w \in found.standalone : f[w].refs = osm.ways[w].refs /\ f[w].tags = osm.ways[w].tags
    <2> HIDE DEF tagsOf
    <2>1. QED
        BY <1>7
<1> HIDE DEF tagsOf
<1>9. /\ DOMAIN W = found.standalone \cup DOMAIN out.ways
      /\ \A w \in found.standalone : W[w] = f[w]
      /\ \A w \in DOMAIN out.ways \ found.standalone : W[w] = out.ways[w]
    BY DEF Over
<1> HIDE DEF N, W, f
<1>10. ASSUME NEW w \in DOMAIN W, w \in found.standalone
       PROVE  WholeWay(w, W[w], N)
    <2>1. W[w].refs = osm.ways[w].refs /\ W[w].tags = osm.ways[w].tags
        BY <1>8, <1>9, <1>10
    <2>2. /\ w \in DOMAIN osm.ways
          /\ Range(osm.ways[w].refs) \cap DOMAIN osm.nodes = Range(osm.ways[w].refs) \cap DOMAIN found.nodes
        BY <1>3, <1>10, FindsAre
    <2>3. Range(osm.ways[w].refs) \subseteq Vertices(found.standalone)
        BY <1>10 DEF Vertices
    <2>4. InFull(w)
        BY <1>3, <1>10, StandaloneIs
    <2>5. QED
        BY <1>6, <2>1, <2>2, <2>3, <2>4 DEF WholeWay
<1>11. ASSUME NEW w \in DOMAIN out.ways
       PROVE  W[w].refs = out.ways[w].refs /\ (W[w] = out.ways[w] \/ w \in found.standalone)
    <2>1. CASE w \in found.standalone
        <3>1. out.ways[w].refs = osm.ways[w].refs
            BY <1>3, <2>1, StandaloneIs DEF WholeWay
        <3>2. QED
            BY <1>8, <1>9, <2>1, <3>1
    <2>2. CASE w \notin found.standalone
        BY <1>9, <2>2
    <2>3. QED
        BY <2>1, <2>2
<1>12. MadeOf(N, W, nextStub)
    <2>1. DOMAIN out.ways \subseteq DOMAIN W /\ \A w \in DOMAIN out.ways : W[w].refs = out.ways[w].refs
        BY <1>9, <1>11
    <2>2. \A w \in DOMAIN W : (w \in DOMAIN out.ways /\ W[w] = out.ways[w]) \/ WholeWay(w, W[w], N)
        BY <1>9, <1>10, <1>11
    <2>3. QED
        BY <1>3, <1>6, <2>1, <2>2, AddWays
<1> HIDE DEF R
<1>13. /\ out'.nodes = N /\ out'.ways = W /\ out'.rels = R /\ DOMAIN out' = {"nodes", "ways", "rels"}
    BY <1>1
<1>14. MadeOf(out.nodes, out.ways, nextStub)'
    BY <1>1, <1>12, <1>13, MadeNext
<1>15. ASSUME NEW v \in found.jobs
       PROVE  JobDone(v, W)
    <2>1. JobDone(v, out.ways)
        BY <1>4
    <2>2. CASE v \in found.standalone
        BY <1>8, <1>9, <2>2 DEF JobDone
    <2>3. CASE v \notin found.standalone
        BY <1>9, <2>1, <2>3 DEF JobDone
    <2>4. QED
        BY <2>2, <2>3
<1>16. (\A v \in found.jobs : JobDone(v, out.ways))'
    BY <1>1, <1>13, <1>15 DEF JobDone
<1>17. WaysMade'
    <2>1. (found.searchNodes \subseteq DOMAIN out.nodes)'
        BY <1>1, <1>4, <1>6, <1>13 DEF Extends
    <2>2. (DOMAIN found.outlines \subseteq DOMAIN out.ways)'
        BY <1>1, <1>4, <1>9, <1>13
    <2>3. (\A w \in found.standalone : w \in DOMAIN out.ways /\ out.ways[w].tags = osm.ways[w].tags)'
        BY <1>1, <1>8, <1>9, <1>13
    <2>4. QED
        BY <1>1, <1>16, <2>1, <2>2, <2>3 DEF WaysMade
<1>18. RelsMade'
    <2>1. out.rels = {}
        BY <1>1, <1>3 DEF RelsMade
    <2>2. \A r : AreaOut(r)' = AreaOut(r)
        BY DEF AreaOut
    <2>3. \A r \in found.areas' : AreaOut(r)' \in R
        BY <1>1, <2>2 DEF R
    <2>4. \A s \in R : \E r \in found.areas' : s = AreaOut(r)'
        BY <1>1, <2>1, <2>2 DEF R
    <2>5. \A r \in found.routes' : NamedRoute(r) => r \in todo'
        BY <1>1
    <2>6. QED
        BY <1>1, <1>13, <2>3, <2>4, <2>5 DEF RelsMade
<1>19. (DOMAIN out = DOMAIN NoOut)'
    BY <1>13 DEF NoOut
<1>20. QED
    BY <1>1, <1>2, <1>14, <1>17, <1>18, <1>19, FoundStays DEF PlaceInv, Reading, Emitting

\* What has come out of a route stays when more comes out.
LEMMA RouteStays ==
  ASSUME NEW r, NEW s, NEW N, NEW W, RouteOut(r, s, N, W),
         NEW V, NEW X, Extends(V, N), Extends(X, W)
  PROVE  RouteOut(r, s, V, X)
  BY DEF RouteOut, Extends

\* What comes out as a relation does not depend on the pass.
LEMMA SameRels ==
  ASSUME UNCHANGED found
  PROVE  /\ \A q : AreaOut(q)' = AreaOut(q) /\ RouteAt(q)' = RouteAt(q)
         /\ \A q, t, nodes, ways : RouteOut(q, t, nodes, ways)' = RouteOut(q, t, nodes, ways)
  BY DEF AreaOut, RouteAt, FirstOf, RouteOut

\* Relations that have come out stay as they are.
LEMMA RelsStay ==
  ASSUME RelsMade, UNCHANGED <<found, out, todo>>,
         pass' = pass \/ (pass = "routes" /\ pass' = "done" /\ todo = {})
  PROVE  RelsMade'
<1>1. \A q, t : RouteOut(q, t, out.nodes, out.ways)' = RouteOut(q, t, out.nodes, out.ways)
    BY SameRels DEF RouteOut
<1>2. (pass \notin {"routes", "done"} => out.rels = {})'
    BY DEF RelsMade
<1>3. (pass = "routes" => todo \subseteq {r \in found.routes : NamedRoute(r)})' /\ (pass = "done" => todo = {})'
    BY DEF RelsMade
<1>4. ASSUME pass' \in {"routes", "done"}
      PROVE  (/\ \A r \in found.areas : AreaOut(r) \in out.rels
              /\ \A r \in found.routes : NamedRoute(r) /\ r \notin todo /\ RouteAt(r) # {} =>
                   \E s \in out.rels : RouteOut(r, s, out.nodes, out.ways)
              /\ \A s \in out.rels : \/ \E r \in found.areas : s = AreaOut(r)
                                     \/ \E r \in found.routes : /\ NamedRoute(r)
                                                                /\ RouteOut(r, s, out.nodes, out.ways))'
    <2>1. /\ \A r \in found.areas : AreaOut(r) \in out.rels
          /\ \A r \in found.routes : NamedRoute(r) /\ r \notin todo /\ RouteAt(r) # {} =>
               \E s \in out.rels : RouteOut(r, s, out.nodes, out.ways)
          /\ \A s \in out.rels : \/ \E r \in found.areas : s = AreaOut(r)
                                 \/ \E r \in found.routes : /\ NamedRoute(r)
                                                            /\ RouteOut(r, s, out.nodes, out.ways)
        BY <1>4 DEF RelsMade
    <2>2. (\A r \in found.areas : AreaOut(r) \in out.rels)'
        BY <2>1, SameRels
    <2>3. (\A r \in found.routes : NamedRoute(r) /\ r \notin todo /\ RouteAt(r) # {} =>
               \E s \in out.rels : RouteOut(r, s, out.nodes, out.ways))'
        BY <1>1, <2>1, SameRels
    <2>4. (\A s \in out.rels : \/ \E r \in found.areas : s = AreaOut(r)
                               \/ \E r \in found.routes : /\ NamedRoute(r)
                                                          /\ RouteOut(r, s, out.nodes, out.ways))'
        BY <1>1, <2>1, SameRels
    <2>5. QED
        BY <2>2, <2>3, <2>4
<1>5. QED
    BY <1>2, <1>3, <1>4 DEF RelsMade

\* A route, with one made-up way.
LEMMA EmitRouteInv ==
  ASSUME PlaceInv, NEW r \in todo, EmitRoute(r)
  PROVE  PlaceInv'
<1> DEFINE at == RouteAt(r)
           x == CHOOSE y \in at : TRUE
           k == nextStub
           N == WithStub(out.nodes, k, x)
           way == [refs |-> <<k>>, tags |-> << >>]
           W == With(out.ways, k - 1, way)
           s == [id |-> r.id, members |-> <<[type |-> "way", id |-> k - 1, role |-> ""]>>, tags |-> r.tags]
<1>1. /\ pass = "routes" /\ pass' = "routes" /\ todo' = todo \ {r}
      /\ UNCHANGED <<osm, keepVertices, found>>
    BY DEF EmitRoute
<1>2. pass \in Emitting /\ pass' \in Emitting
    BY <1>1 DEF Emitting
<1>3. /\ osm \in Extracts /\ Finds /\ MadeOf(out.nodes, out.ways, nextStub) /\ WaysMade /\ RelsMade
      /\ DOMAIN out = {"nodes", "ways", "rels"}
    BY <1>2, EmittingIs
<1>4. /\ found.searchNodes \subseteq DOMAIN out.nodes /\ \A v \in found.jobs : JobDone(v, out.ways)
      /\ DOMAIN found.outlines \subseteq DOMAIN out.ways
      /\ \A w \in found.standalone : w \in DOMAIN out.ways /\ out.ways[w].tags = osm.ways[w].tags
    BY <1>1, <1>3 DEF WaysMade
<1>5. /\ r \in found.routes /\ NamedRoute(r) /\ todo \subseteq {q \in found.routes : NamedRoute(q)}
      /\ \A q \in found.areas : AreaOut(q) \in out.rels
      /\ \A q \in found.routes : NamedRoute(q) /\ q \notin todo /\ RouteAt(q) # {} =>
           \E t \in out.rels : RouteOut(q, t, out.nodes, out.ways)
      /\ \A t \in out.rels : \/ \E q \in found.areas : t = AreaOut(q)
                             \/ \E q \in found.routes : /\ NamedRoute(q)
                                                        /\ RouteOut(q, t, out.nodes, out.ways)
    BY <1>1, <1>3 DEF RelsMade
<1>6. /\ \A q : AreaOut(q)' = AreaOut(q) /\ RouteAt(q)' = RouteAt(q)
      /\ \A q, t, nodes, ways : RouteOut(q, t, nodes, ways)' = RouteOut(q, t, nodes, ways)
    BY <1>1, SameRels
<1>7. CASE at = {}
    <2>1. UNCHANGED <<out, nextStub>>
        BY <1>7 DEF EmitRoute, RouteAt, FirstOf
    <2>2. MadeOf(out.nodes, out.ways, nextStub)'
        BY <1>1, <1>3, <2>1, MadeNext
    <2>3. WaysMade'
        BY <1>1, <1>4, <2>1 DEF WaysMade, JobDone
    <2>4. RelsMade'
        BY <1>1, <1>5, <1>6, <1>7, <2>1 DEF RelsMade, RouteOut
    <2>5. (DOMAIN out = DOMAIN NoOut)'
        BY <1>3, <2>1 DEF NoOut
    <2>6. QED
        BY <1>1, <1>2, <2>2, <2>3, <2>4, <2>5, FoundStays DEF PlaceInv, Reading, Emitting
<1>8. CASE at # {}
    <2>1. /\ out' = [nodes |-> N, ways |-> W, rels |-> out.rels \cup {s}]
          /\ nextStub' = k - 2
        BY <1>8 DEF EmitRoute, RouteAt, FirstOf, Numbers
    <2>2. x \in at
        BY <1>8
    <2>3. at \subseteq Int
        BY <1>3, FindsAre DEF RouteAt
    <2>4. k \in Int /\ k < 0 /\ k - 1 \notin DOMAIN out.ways
        BY <1>3 DEF MadeOf
    <2>5. k \in DOMAIN N /\ N[k].at = x
        BY DEF WithStub, With
    <2>6. DOMAIN W = DOMAIN out.ways \cup {k - 1} /\ W[k - 1] = way
          /\ \A v \in DOMAIN out.ways : W[v] = out.ways[v]
        BY <2>4 DEF With
    <2>7. way.refs = <<k>> /\ way.tags = << >>
        OBVIOUS
    <2>8. s.id = r.id /\ s.tags = r.tags /\ s.members = <<[type |-> "way", id |-> k - 1, role |-> ""]>>
        OBVIOUS
    <2> HIDE DEF at, x, way, s
    <2>9. (k - 1) + 1 = k /\ k - 1 \in Int /\ k - 2 \in Int /\ k - 2 < k /\ k - 1 > k - 2
        BY <2>4
    <2>10. WayOK(k - 1, way, N)
        <3> HIDE DEF N
        <3>1. QED
            BY <2>4, <2>5, <2>7, <2>9 DEF WayOK, RouteWay
    <2>11. MadeOf(N, W, k - 2) /\ Extends(N, out.nodes)
        BY <1>3, <2>2, <2>3, <2>4, <2>7, <2>9, <2>10, AddStub
    <2> HIDE DEF N, W
    <2>12. Extends(W, out.ways)
        BY <2>6 DEF Extends
    <2>13. out'.nodes = N /\ out'.ways = W /\ out'.rels = out.rels \cup {s} /\ DOMAIN out' = {"nodes", "ways", "rels"}
        BY <2>1
    <2>14. MadeOf(out.nodes, out.ways, nextStub)'
        BY <1>1, <2>1, <2>11, <2>13, MadeNext
    <2>15. WaysMade'
        <3>1. (\A v \in found.jobs : JobDone(v, out.ways))'
            BY <1>1, <1>4, <2>12, <2>13 DEF JobDone, Extends
        <3>2. (found.searchNodes \subseteq DOMAIN out.nodes)'
            BY <1>1, <1>4, <2>11, <2>13 DEF Extends
        <3>3. (DOMAIN found.outlines \subseteq DOMAIN out.ways)'
            BY <1>1, <1>4, <2>12, <2>13 DEF Extends
        <3>4. (\A w \in found.standalone : w \in DOMAIN out.ways /\ out.ways[w].tags = osm.ways[w].tags)'
            BY <1>1, <1>4, <2>12, <2>13 DEF Extends
        <3>5. QED
            BY <1>1, <3>1, <3>2, <3>3, <3>4 DEF WaysMade
    <2>16. RouteOut(r, s, N, W)
        <3>1. k - 1 \in DOMAIN W /\ W[k - 1].refs = <<k>>
            BY <2>6, <2>7
        <3>2. N[k].at \in RouteAt(r)
            BY <2>2, <2>5 DEF at
        <3>3. QED
            BY <2>4, <2>5, <2>8, <2>9, <3>1, <3>2 DEF RouteOut
    <2>17. \A q, t : RouteOut(q, t, out.nodes, out.ways) => RouteOut(q, t, N, W)
        BY <2>11, <2>12, RouteStays
    <2>18. (\A q, t : RouteOut(q, t, N, W) => RouteOut(q, t, out'.nodes, out'.ways))
        BY <2>13
    <2>19. \A q, t : RouteOut(q, t, out'.nodes, out'.ways) => RouteOut(q, t, out.nodes, out.ways)'
        BY <1>6 DEF RouteOut
    <2>20. RelsMade'
        <3>1. (\A q \in found.areas : AreaOut(q) \in out.rels)'
            BY <1>1, <1>5, <1>6, <2>13
        <3>2. (\A q \in found.routes : NamedRoute(q) /\ q \notin todo /\ RouteAt(q) # {} =>
                 \E t \in out.rels : RouteOut(q, t, out.nodes, out.ways))'
            <4> SUFFICES ASSUME NEW q \in found.routes, NamedRoute(q), q \notin todo \ {r}, RouteAt(q) # {}
                         PROVE  \E t \in out.rels \cup {s} : RouteOut(q, t, out.nodes, out.ways)'
                BY <1>1, <1>6, <2>13
            <4>1. CASE q = r
                BY <2>16, <2>18, <2>19, <4>1
            <4>2. CASE q # r
                <5>1. PICK t \in out.rels : RouteOut(q, t, out.nodes, out.ways)
                    BY <1>5, <4>2
                <5>2. QED
                    BY <2>17, <2>18, <2>19, <5>1
            <4>3. QED
                BY <4>1, <4>2
        <3>3. (\A t \in out.rels : \/ \E q \in found.areas : t = AreaOut(q)
                                   \/ \E q \in found.routes : /\ NamedRoute(q)
                                                              /\ RouteOut(q, t, out.nodes, out.ways))'
            <4> SUFFICES ASSUME NEW t \in out.rels \cup {s}
                         PROVE  \/ \E q \in found.areas : t = AreaOut(q)
                                \/ \E q \in found.routes : /\ NamedRoute(q)
                                                           /\ RouteOut(q, t, out.nodes, out.ways)'
                BY <1>1, <1>6, <2>13
            <4>1. CASE t = s
                BY <1>5, <2>16, <2>18, <2>19, <4>1
            <4>2. CASE t \in out.rels
                BY <1>5, <2>17, <2>18, <2>19, <4>2
            <4>3. QED
                BY <4>1, <4>2
        <3>4. QED
            BY <1>1, <1>5, <3>1, <3>2, <3>3 DEF RelsMade
    <2>21. (DOMAIN out = DOMAIN NoOut)'
        BY <2>13 DEF NoOut
    <2>22. QED
        BY <1>1, <1>2, <2>14, <2>15, <2>20, <2>21, FoundStays DEF PlaceInv, Reading, Emitting
<1>9. QED
    BY <1>7, <1>8

\* The extract is written as it is.
LEMMA WriteInv ==
  ASSUME PlaceInv, Write
  PROVE  PlaceInv'
<1>1. /\ pass = "routes" /\ todo = {} /\ pass' = "done"
      /\ UNCHANGED <<osm, keepVertices, found, out, nextStub, todo>>
    BY DEF Write
<1>2. pass \in Emitting /\ pass' \in Emitting
    BY <1>1 DEF Emitting
<1>3. /\ MadeOf(out.nodes, out.ways, nextStub) /\ WaysMade /\ RelsMade
      /\ DOMAIN out = {"nodes", "ways", "rels"}
    BY <1>2, EmittingIs
<1>4. MadeOf(out.nodes, out.ways, nextStub)'
    BY <1>1, <1>3, MadeNext
<1>5. WaysMade'
    BY <1>1, <1>3 DEF WaysMade, JobDone
<1>6. RelsMade'
    BY <1>1, <1>3, RelsStay
<1>7. (DOMAIN out = DOMAIN NoOut)'
    BY <1>1, <1>3 DEF NoOut
<1>8. QED
    BY <1>1, <1>2, <1>4, <1>5, <1>6, <1>7, FoundStays DEF PlaceInv, Reading, Emitting

\* Nothing happens.
LEMMA StutterInv ==
  ASSUME PlaceInv, UNCHANGED placeVars
  PROVE  PlaceInv'
<1>1. UNCHANGED <<osm, keepVertices, found, pass, out, nextStub, todo>>
    BY DEF placeVars
<1>2. CASE pass \in Reading
    <2>1. pass' \notin Emitting
        BY <1>1, <1>2 DEF Reading, Emitting
    <2>2. FoundOK'
        BY <1>1, SameFinds DEF FoundOK, PlaceInv
    <2>3. QED
        BY <1>1, <1>2, <2>1, <2>2 DEF PlaceInv
<1>3. CASE pass \in Emitting
    <2>1. /\ MadeOf(out.nodes, out.ways, nextStub) /\ WaysMade /\ RelsMade
          /\ DOMAIN out = {"nodes", "ways", "rels"}
        BY <1>3, EmittingIs
    <2>2. MadeOf(out.nodes, out.ways, nextStub)'
        BY <1>1, <2>1, MadeNext
    <2>3. WaysMade'
        BY <1>1, <2>1 DEF WaysMade, JobDone
    <2>4. RelsMade'
        BY <1>1, <2>1, RelsStay
    <2>5. (DOMAIN out = DOMAIN NoOut)'
        BY <1>1, <2>1 DEF NoOut
    <2>6. QED
        BY <1>1, <1>3, <2>2, <2>3, <2>4, <2>5, FoundStays DEF PlaceInv, Reading, Emitting
<1>4. QED
    BY <1>2, <1>3 DEF PlaceInv

\* PlaceInv is an invariant: the passes find what they are for, and what has
\* been made by then of ways, nodes and relations is as it should be.
THEOREM PlaceInvariant == Spec => []PlaceInv
<1>1. ASSUME PlaceInv, [Next]_placeVars
      PROVE  PlaceInv'
    <2>1. CASE UNCHANGED placeVars
        BY <1>1, <2>1, StutterInv
    <2>2. CASE Next
        <3>1. CASE ReadRelations \/ ReadChildren \/ ReadWays \/ ReadNodes
            BY <1>1, <3>1, ReadRelationsInv, ReadChildrenInv, ReadWaysInv, ReadNodesInv
        <3>2. CASE EmitNodes \/ EmitOutlines \/ EmitAreas \/ Write
            BY <1>1, <3>2, EmitNodesInv, EmitOutlinesInv, EmitAreasInv, WriteInv
        <3>3. CASE \E t \in todo : EmitSearchWay(t) \/ EmitRoute(t)
            BY <1>1, <3>3, EmitSearchWayInv, EmitRouteInv
        <3>4. QED
            BY <2>2, <3>1, <3>2, <3>3 DEF Next
    <2>3. QED
        BY <1>1, <2>1, <2>2
<1>2. QED
    BY <1>1, InitInv, PTL DEF Spec

-----------------------------------------------------------------------------
(* The extract that is written *)

\* The invariant implies the types.
LEMMA InvTypes ==
  ASSUME PlaceInv
  PROVE  PlaceTypeOK
<1>1. CASE pass \in Reading
    <2>1. out.nodes = << >> /\ out.ways = << >> /\ nextStub = -1
        BY <1>1 DEF PlaceInv, NoOut
    <2>2. QED
        BY <1>1, <2>1 DEF PlaceTypeOK, Reading
<1>2. CASE pass \in Emitting
    <2>1. /\ osm \in Extracts /\ Finds /\ MadeOf(out.nodes, out.ways, nextStub)
        BY <1>2, EmittingIs
    <2>2. \A n \in DOMAIN out.nodes : out.nodes[n].at \in Int
        <3> SUFFICES ASSUME NEW n \in DOMAIN out.nodes
                     PROVE  out.nodes[n].at \in Int
            OBVIOUS
        <3>1. NodeOK(n, out.nodes[n])
            BY <2>1 DEF MadeOf
        <3>2. n \in DOMAIN osm.nodes => osm.nodes[n].at \in Int
            BY <2>1, ExtractIs
        <3>3. found.searchNodes \subseteq DOMAIN osm.nodes /\ DOMAIN found.nodes \subseteq DOMAIN osm.nodes
            BY <2>1, FindsAre
        <3>4. QED
            BY <3>1, <3>2, <3>3 DEF NodeOK
    <2>3. QED
        BY <1>2, <2>1, <2>2 DEF PlaceTypeOK, MadeOf, Emitting
<1>3. QED
    BY <1>1, <1>2 DEF PlaceInv

\* The types hold, and no made-up number is given out twice: for any extracts
\* (nextStub counts down through the three passes that make objects up).
THEOREM PlaceTypeCorrect == Spec => []PlaceTypeOK
<1>1. PlaceInv => PlaceTypeOK
    BY InvTypes
<1>2. QED
    BY <1>1, PlaceInvariant, PTL

\* What is known when the points are written.
LEMMA DoneIs ==
  ASSUME PlaceInv, Done
  PROVE  /\ osm \in Extracts /\ Finds /\ MadeOf(out.nodes, out.ways, nextStub)
         /\ found.searchNodes \subseteq DOMAIN out.nodes
         /\ \A w \in found.jobs : JobDone(w, out.ways)
         /\ DOMAIN found.outlines \subseteq DOMAIN out.ways
         /\ \A w \in found.standalone : w \in DOMAIN out.ways /\ out.ways[w].tags = osm.ways[w].tags
         /\ \A r \in found.areas : AreaOut(r) \in out.rels
         /\ \A r \in found.routes : NamedRoute(r) /\ RouteAt(r) # {} =>
              \E s \in out.rels : RouteOut(r, s, out.nodes, out.ways)
         /\ \A s \in out.rels : \/ \E r \in found.areas : s = AreaOut(r)
                                \/ \E r \in found.routes : /\ NamedRoute(r)
                                                           /\ RouteOut(r, s, out.nodes, out.ways)
<1>1. pass = "done" /\ pass \in Emitting
    BY DEF Done, Emitting
<1>2. /\ osm \in Extracts /\ Finds /\ MadeOf(out.nodes, out.ways, nextStub) /\ WaysMade /\ RelsMade
    BY <1>1, EmittingIs
<1>3. /\ found.searchNodes \subseteq DOMAIN out.nodes /\ \A w \in found.jobs : JobDone(w, out.ways)
      /\ DOMAIN found.outlines \subseteq DOMAIN out.ways
      /\ \A w \in found.standalone : w \in DOMAIN out.ways /\ out.ways[w].tags = osm.ways[w].tags
    BY <1>1, <1>2 DEF WaysMade
<1>4. QED
    BY <1>1, <1>2, <1>3 DEF RelsMade

\* What outlines an area has come out whole.
LEMMA RingsAreWhole ==
  ASSUME PlaceInv, Done, NEW w \in DOMAIN found.outlines \cup found.standalone
  PROVE  w \in DOMAIN out.ways /\ WholeWay(w, out.ways[w], out.nodes)
<1>1. CASE w \in DOMAIN found.outlines
    BY <1>1, DoneIs, OutlineWayIs
<1>2. CASE w \in found.standalone
    BY <1>2, DoneIs, StandaloneIs
<1>3. QED
    BY <1>1, <1>2

\* The way w is an outline.
IsOutline(w) ==
  w \in DOMAIN osm.ways /\ (Area(osm.ways[w].tags) \/ \E r \in osm.rels : Area(r.tags) /\ w \in Range(Outline(r)))

\* The invariant leaves only points.
LEMMA InvOnlyPoints ==
  ASSUME PlaceInv
  PROVE  OnlyPoints
<1> SUFFICES ASSUME Done, ~ keepVertices
             PROVE  /\ \A w \in DOMAIN out.ways \ {w \in DOMAIN out.ways : IsOutline(w)} :
                         Len(out.ways[w].refs) = 1
                    /\ \A n \in DOMAIN out.nodes :
                         \/ Named(out.nodes[n].tags)
                         \/ \E w \in {w \in DOMAIN out.ways : IsOutline(w)} : n \in Range(out.ways[w].refs)
                         \/ Cardinality({w \in DOMAIN out.ways : n \in Range(out.ways[w].refs)}) = 1
    BY DEF OnlyPoints, IsOutline
<1>1. osm \in Extracts /\ Finds /\ MadeOf(out.nodes, out.ways, nextStub)
    BY DoneIs
<1>2. ASSUME NEW w \in KeptInFull, w \in DOMAIN osm.ways
      PROVE  IsOutline(w)
    <2>1. CASE w \in found.standalone
        BY <1>1, <2>1 DEF Finds, WaysRead, IsOutline
    <2>2. CASE w \in found.areaWays
        <3>1. PICK r \in found.areas : w \in Range(Outline(r))
            BY <1>1, <2>2 DEF Finds, RelationsRead
        <3>2. r \in osm.rels /\ Area(r.tags)
            BY <1>1 DEF Finds, RelationsRead
        <3>3. QED
            BY <1>2, <3>1, <3>2 DEF IsOutline
    <2>3. QED
        BY <1>2, <2>1, <2>2 DEF KeptInFull
<1>3. ASSUME NEW w \in DOMAIN out.ways, ~ IsOutline(w)
      PROVE  Len(out.ways[w].refs) = 1
    <2>1. WayOK(w, out.ways[w], out.nodes)
        BY <1>1 DEF MadeOf
    <2>2. ~ WholeWay(w, out.ways[w], out.nodes)
        BY <1>2, <1>3 DEF WholeWay, InFull
    <2>3. PICK m : out.ways[w].refs = <<m>>
        BY <1>1, <2>1, <2>2, WayRefs
    <2>4. QED
        BY <2>3
<1>4. ASSUME NEW n \in DOMAIN out.nodes, ~ Named(out.nodes[n].tags), ~ (n < 0)
      PROVE  \E w \in DOMAIN out.ways : IsOutline(w) /\ n \in Range(out.ways[w].refs)
    <2>1. NodeOK(n, out.nodes[n])
        BY <1>1 DEF MadeOf
    <2>2. n \notin found.searchNodes
        <3>1. n \in found.searchNodes => out.nodes[n] = osm.nodes[n] /\ Named(osm.nodes[n].tags)
            BY <1>1, <1>4, <2>1 DEF NodeOK, Finds, NodesRead
        <3>2. QED
            BY <1>4, <3>1
    <2>3. n \in Rings
        BY <1>4, <2>1, <2>2 DEF NodeOK
    <2>4. PICK w \in DOMAIN found.outlines \cup found.standalone : n \in Range(osm.ways[w].refs)
        BY <2>3 DEF Rings, Vertices
    <2>5. w \in DOMAIN out.ways /\ WholeWay(w, out.ways[w], out.nodes)
        BY RingsAreWhole
    <2>6. IsOutline(w)
        BY <1>2, <2>5 DEF WholeWay, InFull
    <2>7. QED
        BY <2>4, <2>5, <2>6 DEF WholeWay
<1>5. ASSUME NEW n \in DOMAIN out.nodes, n < 0
      PROVE  Cardinality({w \in DOMAIN out.ways : n \in Range(out.ways[w].refs)}) = 1
    <2>1. PICK v \in DOMAIN out.ways : out.ways[v].refs = <<n>>
        BY <1>1, <1>5 DEF MadeOf
    <2>2. ASSUME NEW w \in DOMAIN out.ways, n \in Range(out.ways[w].refs)
          PROVE  w = v
        <3>1. WayOK(w, out.ways[w], out.nodes)
            BY <1>1 DEF MadeOf
        <3>2. CASE out.ways[w].refs \in Seq(Nat)
            <4>1. n \in Nat
                BY <2>2, <3>2, SeqIs DEF Range
            <4>2. QED
                BY <1>5, <4>1
        <3>3. CASE \E m \in DOMAIN out.nodes : out.ways[w].refs = <<m>>
            <4>1. PICK m : out.ways[w].refs = <<m>>
                BY <3>3
            <4>2. m = n
                BY <2>2, <4>1 DEF Range
            <4>3. QED
                BY <1>1, <1>5, <2>1, <4>1, <4>2 DEF MadeOf
        <3>4. QED
            BY <1>1, <3>1, <3>2, <3>3, WayRefs
    <2>3. n \in Range(<<n>>)
        BY DEF Range
    <2>4. {w \in DOMAIN out.ways : n \in Range(out.ways[w].refs)} = {v}
        BY <2>1, <2>2, <2>3
    <2>5. QED
        BY <2>4, FS_Singleton
<1>6. QED
    BY <1>3, <1>4, <1>5

\* What is not an outline is a single point, and no vertex is left over: for
\* any extracts (KeptInFull, and WithVertices of each pass).
THEOREM OnlyPointsAreLeft == Spec => []OnlyPoints
<1>1. PlaceInv => OnlyPoints
    BY InvOnlyPoints
<1>2. QED
    BY <1>1, PlaceInvariant, PTL

-----------------------------------------------------------------------------
(* Rows of the place index *)

\* The named nodes come out, as they are, and no others.
LEMMA NamedNodes ==
  ASSUME PlaceInv, Done
  PROVE  /\ {m \in DOMAIN out.nodes : Named(out.nodes[m].tags)}
              = {m \in DOMAIN osm.nodes : Named(osm.nodes[m].tags)}
         /\ \A n \in {m \in DOMAIN osm.nodes : Named(osm.nodes[m].tags)} : out.nodes[n] = osm.nodes[n]
<1>1. /\ osm \in Extracts /\ Finds /\ MadeOf(out.nodes, out.ways, nextStub)
      /\ found.searchNodes \subseteq DOMAIN out.nodes
    BY DoneIs
<1>2. found.searchNodes = {m \in DOMAIN osm.nodes : Named(osm.nodes[m].tags)}
    BY <1>1 DEF Finds, NodesRead
<1>3. \A n \in DOMAIN out.nodes : NodeOK(n, out.nodes[n])
    BY <1>1 DEF MadeOf
<1>4. \A n \in found.searchNodes : n \in Nat
    BY <1>1, <1>2, ExtractIs
<1>5. \A n \in found.searchNodes : out.nodes[n] = osm.nodes[n]
    BY <1>1, <1>3, <1>4 DEF NodeOK
<1>6. ~ Named(<< >>)
    BY DEF Named, Has
<1>7. \A n \in DOMAIN out.nodes : Named(out.nodes[n].tags) => n \in found.searchNodes
    BY <1>3, <1>6 DEF NodeOK
<1>8. QED
    BY <1>1, <1>2, <1>5, <1>7

\* A named way that has come out is one of the extract.
LEMMA NamedWays ==
  ASSUME PlaceInv, Done, NEW w \in DOMAIN out.ways, SearchWay(out.ways[w])
  PROVE  /\ w \in DOMAIN osm.ways /\ out.ways[w].tags = osm.ways[w].tags /\ SearchWay(osm.ways[w])
         /\ WholeWay(w, out.ways[w], out.nodes) \/ PointWay(w, out.ways[w], out.nodes)
<1>1. osm \in Extracts /\ Finds /\ WayOK(w, out.ways[w], out.nodes)
    BY DoneIs DEF MadeOf
<1>2. ~ Named(<< >>)
    BY DEF Named, Has
<1>3. out.ways[w].tags # << >>
    BY <1>2 DEF SearchWay
<1>4. WholeWay(w, out.ways[w], out.nodes) \/ PointWay(w, out.ways[w], out.nodes)
    BY <1>1, <1>3 DEF WayOK, RouteWay
<1>5. out.ways[w].tags = osm.ways[w].tags /\ w \in DOMAIN osm.ways
    BY <1>1, <1>3, <1>4, FindsAre DEF WholeWay, PointWay
<1>6. QED
    BY <1>4, <1>5 DEF SearchWay

\* A named way of which a node is there comes out.
LEMMA WaysComeOut ==
  ASSUME PlaceInv, Done, NEW w \in DOMAIN osm.ways, SearchWay(osm.ways[w]),
         Known(osm.ways[w].refs, osm.nodes) # << >>
  PROVE  w \in found.jobs /\ w \in DOMAIN out.ways /\ out.ways[w].tags = osm.ways[w].tags
<1>1. osm \in Extracts /\ Finds /\ \A v \in found.jobs : JobDone(v, out.ways)
    BY DoneIs
<1>2. osm.ways[w].refs \in Seq(Nat)
    BY <1>1, ExtractIs
<1>3. Range(osm.ways[w].refs) \cap DOMAIN osm.nodes # {}
    BY <1>2, NoneOfThose DEF Known
<1>4. osm.ways[w].refs # << >>
    BY <1>3 DEF Range
<1>5. w \in found.jobs
    BY <1>1, <1>4 DEF Finds, WaysRead
<1>6. Range(osm.ways[w].refs) \cap DOMAIN found.nodes # {}
    BY <1>1, <1>3, <1>5, FindsAre
<1>7. Known(osm.ways[w].refs, found.nodes) # << >>
    BY <1>2, <1>6, NoneOfThose DEF Known
<1>8. QED
    BY <1>1, <1>5, <1>7 DEF JobDone

\* The relation of a number.
LEMMA RelIs ==
  ASSUME osm \in Extracts, NEW r \in osm.rels
  PROVE  Rel(r.id) = r
  BY ExtractIs DEF Rel

\* The first way of a route is one the passes have looked for.
LEMMA FirstIs ==
  ASSUME osm \in Extracts, Finds, NEW r \in found.routes, NEW w \in FirstOf(r)
  PROVE  /\ w \in RouteWays /\ FirstOf(r) = {w}
         /\ \E c \in osm.rels : w \in Range(MembersOf(c, "way"))
<1> DEFINE ways == MembersOf(r, "way")
           children == MembersOf(r, "rel")
           those == {c \in DOMAIN found.childWays : found.childWays[c] # << >>}
           some == Those(children, those)
<1>1. r \in osm.rels
    BY DEF Finds, RelationsRead
<1>2. ways \in Seq(Nat) /\ children \in Seq(Nat)
    BY <1>1, OutlineIs
<1>3. FirstOf(r) = IF ways # << >> THEN {ways[1]}
                   ELSE IF some # << >> THEN {found.childWays[some[1]][1]} ELSE {}
    BY DEF FirstOf, FirstWay
<1>4. some \in Seq(Nat) /\ Range(some) = Range(children) \cap those
    BY <1>2, ThoseAre
<1> HIDE DEF some
<1>5. CASE ways # << >>
    <2>1. w = ways[1] /\ FirstOf(r) = {w}
        BY <1>3, <1>5
    <2>2. w \in Range(ways)
        BY <1>2, <1>5, <2>1 DEF Range
    <2>3. QED
        BY <1>1, <2>1, <2>2 DEF RouteWays
<1>6. CASE ways = << >>
    <2>1. some # << >> /\ w = found.childWays[some[1]][1] /\ FirstOf(r) = {w}
        BY <1>3, <1>6
    <2> DEFINE c == some[1]
    <2>2. c \in Range(some)
        BY <1>4, <2>1 DEF Range
    <2>3. c \in Range(children) /\ c \in DOMAIN found.childWays /\ found.childWays[c] # << >>
        BY <1>4, <2>2
    <2>4. PICK s \in osm.rels : s.id = c
        BY <2>3 DEF Finds, ChildrenRead
    <2> HIDE DEF c
    <2>5. found.childWays[c] = MembersOf(s, "way")
        BY <2>3, <2>4, RelIs DEF Finds, ChildrenRead
    <2>6. MembersOf(s, "way") \in Seq(Nat)
        BY <2>4, OutlineIs
    <2>7. w = found.childWays[c][1]
        BY <2>1 DEF c
    <2>8. w \in Range(found.childWays[c])
        BY <2>3, <2>5, <2>6, <2>7 DEF Range
    <2>9. w \in RouteWays
        BY <2>3, <2>8 DEF RouteWays
    <2>10. QED
        BY <2>1, <2>4, <2>5, <2>8, <2>9
<1>7. QED
    BY <1>5, <1>6

\* A route of which a child has ways has a first way.
LEMMA FirstThere ==
  ASSUME osm \in Extracts, Finds, NEW r \in found.routes,
         \/ MembersOf(r, "way") # << >>
         \/ \E c \in osm.rels : c.id \in Range(MembersOf(r, "rel")) /\ MembersOf(c, "way") # << >>
  PROVE  FirstOf(r) # {}
<1> DEFINE children == MembersOf(r, "rel")
           those == {c \in DOMAIN found.childWays : found.childWays[c] # << >>}
           some == Those(children, those)
<1>1. children \in Seq(Nat)
    BY OutlineIs DEF Finds, RelationsRead
<1>2. CASE MembersOf(r, "way") # << >>
    BY <1>2 DEF FirstOf, FirstWay
<1>3. CASE MembersOf(r, "way") = << >>
    <2>1. PICK c \in osm.rels : c.id \in Range(children) /\ MembersOf(c, "way") # << >>
        BY <1>3
    <2>2. c.id \in DOMAIN found.childWays /\ found.childWays[c.id] = MembersOf(c, "way")
        BY <2>1, RelIs DEF Finds, ChildrenRead
    <2>3. c.id \in Range(children) \cap those
        BY <2>1, <2>2
    <2> HIDE DEF those
    <2>4. some # << >>
        BY <1>1, <2>3, NoneOfThose
    <2>5. FirstOf(r) = {found.childWays[some[1]][1]}
        BY <1>3, <2>4 DEF FirstOf, FirstWay, those
    <2>6. QED
        BY <2>5
<1>4. QED
    BY <1>2, <1>3

\* A route of a whole extract has a place.
LEMMA WholeRoutes ==
  ASSUME osm \in Extracts, Finds, Whole(osm), NEW r \in found.routes, NamedRoute(r)
  PROVE  RouteAt(r) # {}
<1>1. r \in osm.rels
    BY DEF Finds, RelationsRead
<1>2. PICK w : w \in FirstOf(r)
    BY <1>1, FirstThere DEF Whole
<1>3. PICK c \in osm.rels : w \in Range(MembersOf(c, "way"))
    BY <1>2, FirstIs
<1>4. w \in DOMAIN osm.ways /\ osm.ways[w].refs # << >> /\ Range(osm.ways[w].refs) \subseteq DOMAIN osm.nodes
    BY <1>3 DEF Whole
<1>5. osm.ways[w].refs \in Seq(Nat)
    BY <1>4, ExtractIs
<1>6. w \in RouteWays
    BY <1>2, FirstIs
<1>7. w \in DOMAIN found.firstNode /\ found.firstNode[w] = osm.ways[w].refs[1]
    BY <1>4, <1>6 DEF Finds, WaysRead
<1>8. found.firstNode[w] \in DOMAIN osm.nodes
    BY <1>4, <1>5, <1>7 DEF Range
<1>9. found.firstNode[w] \in found.needed
    BY <1>7 DEF Finds, WaysRead, Range
<1>10. found.firstNode[w] \in DOMAIN found.nodes
    BY <1>8, <1>9 DEF Finds, NodesRead
<1>11. QED
    BY <1>2, <1>7, <1>10 DEF RouteAt

\* What comes out as a relation has the number and the tags of one.
LEMMA RelsAreOf ==
  ASSUME PlaceInv, Done, NEW s \in out.rels
  PROVE  \E r \in osm.rels : s.id = r.id /\ s.tags = r.tags
<1>1. CASE \E r \in found.areas : s = AreaOut(r)
    BY <1>1, DoneIs DEF AreaOut, Finds, RelationsRead
<1>2. CASE \E r \in found.routes : NamedRoute(r) /\ RouteOut(r, s, out.nodes, out.ways)
    BY <1>2, DoneIs DEF RouteOut, Finds, RelationsRead
<1>3. QED
    BY <1>1, <1>2, DoneIs

\* The invariant keeps the rows.
LEMMA InvRowsKept ==
  ASSUME PlaceInv
  PROVE  RowsKept
<1> SUFFICES ASSUME Done, Whole(osm)
             PROVE  CoreRows(out) = CoreRows(osm)
    BY DEF RowsKept
<1> DEFINE NodeRows(x) == {Row(n, x.nodes[n].tags) : n \in {m \in DOMAIN x.nodes : Named(x.nodes[m].tags)}}
           WayRows(x) == {Row(w, x.ways[w].tags) : w \in {v \in DOMAIN x.ways : SearchWay(x.ways[v])}}
           name(r) == <<Get(r.tags, IF Has(r.tags, "name") THEN "name" ELSE "ref"), Get(r.tags, "operator")>>
           row(r) == [id |-> r.id, kind |-> RouteKind(r.tags), name |-> name(r)]
           RelRows(x) == {row(r) : r \in {s \in x.rels : NamedRoute(s)}}
<1>1. \A x : CoreRows(x) = NodeRows(x) \cup WayRows(x) \cup RelRows(x)
    BY DEF CoreRows
<1>2. osm \in Extracts /\ Finds
    BY DoneIs
<1>3. NodeRows(out) = NodeRows(osm)
    BY NamedNodes
<1>4. WayRows(out) = WayRows(osm)
    <2>1. ASSUME NEW w \in DOMAIN osm.ways, SearchWay(osm.ways[w])
          PROVE  w \in DOMAIN out.ways /\ out.ways[w].tags = osm.ways[w].tags
        <3>1. osm.ways[w].refs \in Seq(Nat)
            BY <1>2, ExtractIs
        <3>2. osm.ways[w].refs # << >> /\ Range(osm.ways[w].refs) \subseteq DOMAIN osm.nodes
            BY DEF Whole
        <3>3. osm.ways[w].refs[1] \in Range(osm.ways[w].refs) \cap DOMAIN osm.nodes
            BY <3>1, <3>2 DEF Range
        <3>4. Known(osm.ways[w].refs, osm.nodes) # << >>
            BY <3>1, <3>3, NoneOfThose DEF Known
        <3>5. QED
            BY <2>1, <3>4, WaysComeOut
    <2>2. \A w \in DOMAIN osm.ways : SearchWay(osm.ways[w]) => SearchWay(out.ways[w])
        BY <2>1 DEF SearchWay
    <2>3. \A w \in DOMAIN out.ways : SearchWay(out.ways[w]) =>
            w \in DOMAIN osm.ways /\ out.ways[w].tags = osm.ways[w].tags /\ SearchWay(osm.ways[w])
        BY NamedWays
    <2>4. QED
        BY <2>1, <2>2, <2>3
<1>5. RelRows(out) = RelRows(osm)
    <2>1. \A r, s : s.id = r.id /\ s.tags = r.tags => row(s) = row(r) /\ (NamedRoute(s) <=> NamedRoute(r))
        BY DEF NamedRoute
    <2> HIDE DEF row
    <2>2. ASSUME NEW s \in out.rels, NamedRoute(s)
          PROVE  \E r \in osm.rels : NamedRoute(r) /\ row(s) = row(r)
        BY <2>1, <2>2, RelsAreOf
    <2>3. ASSUME NEW r \in osm.rels, NamedRoute(r)
          PROVE  \E s \in out.rels : NamedRoute(s) /\ row(s) = row(r)
        <3>1. r \in found.routes
            BY <1>2, <2>3 DEF NamedRoute, Finds, RelationsRead
        <3>2. RouteAt(r) # {}
            BY <1>2, <2>3, <3>1, WholeRoutes
        <3>3. PICK s \in out.rels : RouteOut(r, s, out.nodes, out.ways)
            BY <2>3, <3>1, <3>2, DoneIs
        <3>4. QED
            BY <2>1, <2>3, <3>3 DEF RouteOut
    <2>4. QED
        BY <2>2, <2>3
<1>6. QED
    BY <1>1, <1>3, <1>4, <1>5, Zenon

\* Reducing an extract that is whole loses no row of the place index and makes
\* none up, for any extracts: the claim of tests/points_fixture.rs.
THEOREM EveryRowIsKept == Spec => []RowsKept
<1>1. PlaceInv => RowsKept
    BY InvRowsKept
<1>2. QED
    BY <1>1, PlaceInvariant, PTL

-----------------------------------------------------------------------------
(* Outlines of areas *)

\* No administrative area is a named route as well: its number would come out
\* twice, with the members of the one and those of the other.
AreasAreNoRoutes == \A x \in Extracts : \A r \in x.rels : ~ (Area(r.tags) /\ NamedRoute(r))

\* A node that is not made up is where it was.
LEMMA SameNodes ==
  ASSUME PlaceInv, Done, NEW n \in DOMAIN out.nodes, n \in Nat
  PROVE  n \in DOMAIN osm.nodes /\ out.nodes[n].at = osm.nodes[n].at
<1>1. osm \in Extracts /\ Finds /\ NodeOK(n, out.nodes[n])
    BY DoneIs DEF MadeOf
<1>2. found.searchNodes \subseteq DOMAIN osm.nodes /\ DOMAIN found.nodes \subseteq DOMAIN osm.nodes
    BY <1>1, FindsAre
<1>3. ~ (n < 0)
    OBVIOUS
<1>4. QED
    BY <1>1, <1>2, <1>3 DEF NodeOK

\* The nodes of a whole way that are there are those that were.
LEMMA WholeNodes ==
  ASSUME PlaceInv, Done, NEW w \in DOMAIN out.ways, WholeWay(w, out.ways[w], out.nodes)
  PROVE  /\ w \in DOMAIN osm.ways /\ osm.ways[w].refs \in Seq(Nat) /\ out.ways[w].refs = osm.ways[w].refs
         /\ \A n \in Range(osm.ways[w].refs) : n \in DOMAIN out.nodes <=> n \in DOMAIN osm.nodes
         /\ \A n \in Range(osm.ways[w].refs) \cap DOMAIN out.nodes : out.nodes[n].at = osm.nodes[n].at
<1>1. osm \in Extracts
    BY DoneIs
<1>2. w \in DOMAIN osm.ways /\ out.ways[w].refs = osm.ways[w].refs
      /\ Range(osm.ways[w].refs) \cap DOMAIN osm.nodes \subseteq DOMAIN out.nodes
    BY DEF WholeWay
<1>3. osm.ways[w].refs \in Seq(Nat)
    BY <1>1, <1>2, ExtractIs
<1>4. Range(osm.ways[w].refs) \subseteq Nat
    BY <1>3, SeqIs DEF Range
<1>5. \A n \in Range(osm.ways[w].refs) \cap DOMAIN out.nodes :
        n \in DOMAIN osm.nodes /\ out.nodes[n].at = osm.nodes[n].at
    BY <1>4, SameNodes
<1>6. QED
    BY <1>2, <1>3, <1>5

\* A whole way keeps its shape.
LEMMA WholeShape ==
  ASSUME PlaceInv, Done, NEW w \in DOMAIN out.ways, WholeWay(w, out.ways[w], out.nodes)
  PROVE  Shape(w, out) = Shape(w, osm)
<1> DEFINE refs == osm.ways[w].refs
           vertex(n, x) == IF n \in DOMAIN x.nodes THEN <<x.nodes[n].at>> ELSE << >>
<1>1. /\ w \in DOMAIN osm.ways /\ refs \in Seq(Nat) /\ out.ways[w].refs = refs
      /\ \A n \in Range(refs) : n \in DOMAIN out.nodes <=> n \in DOMAIN osm.nodes
      /\ \A n \in Range(refs) \cap DOMAIN out.nodes : out.nodes[n].at = osm.nodes[n].at
    BY WholeNodes
<1>2. /\ Shape(w, out) = [i \in DOMAIN refs |-> vertex(refs[i], out)]
      /\ Shape(w, osm) = [i \in DOMAIN refs |-> vertex(refs[i], osm)]
    BY <1>1 DEF Shape
<1> HIDE DEF refs
<1>3. \A i \in DOMAIN refs : refs[i] \in Range(refs)
    BY DEF Range
<1>4. \A n \in Range(refs) : vertex(n, out) = vertex(n, osm)
    BY <1>1
<1> HIDE DEF vertex
<1>5. \A i \in DOMAIN refs : vertex(refs[i], out) = vertex(refs[i], osm)
    BY <1>3, <1>4
<1>6. QED
    BY <1>2, <1>5

\* What is not there does not come to be there.
LEMMA NoMoreWays ==
  ASSUME PlaceInv, Done, NEW w \in Nat, w \notin DOMAIN osm.ways
  PROVE  w \notin DOMAIN out.ways
<1> SUFFICES ASSUME w \in DOMAIN out.ways
             PROVE  FALSE
    OBVIOUS
<1>1. osm \in Extracts /\ Finds /\ WayOK(w, out.ways[w], out.nodes)
    BY DoneIs DEF MadeOf
<1>2. w \notin found.jobs
    BY <1>1, FindsAre
<1>3. ~ (w + 1 < 0)
    OBVIOUS
<1>4. QED
    BY <1>1, <1>2, <1>3 DEF WayOK, WholeWay, PointWay, RouteWay

\* The outline of an area keeps its shape.
LEMMA AreaShapes ==
  ASSUME PlaceInv, Done, NEW r \in found.areas
  PROVE  [i \in DOMAIN Outline(r) |-> Shape(Outline(r)[i], out)]
           = [i \in DOMAIN Outline(r) |-> Shape(Outline(r)[i], osm)]
<1>1. osm \in Extracts /\ Finds /\ r \in osm.rels
    BY DoneIs DEF Finds, RelationsRead
<1>2. Outline(r) \in Seq(Nat)
    BY <1>1, OutlineIs
<1>3. ASSUME NEW i \in DOMAIN Outline(r)
      PROVE  Shape(Outline(r)[i], out) = Shape(Outline(r)[i], osm)
    <2> DEFINE w == Outline(r)[i]
    <2>1. w \in Nat /\ w \in Range(Outline(r))
        BY <1>2 DEF Range
    <2> HIDE DEF w
    <2>2. w \in found.areaWays
        BY <1>1, <2>1 DEF Finds, RelationsRead
    <2>3. CASE w \in DOMAIN osm.ways
        <3>1. w \in DOMAIN found.outlines
            BY <1>1, <2>2, <2>3 DEF Finds, WaysRead
        <3>2. QED
            BY <3>1, RingsAreWhole, WholeShape DEF w
    <2>4. CASE w \notin DOMAIN osm.ways
        BY <2>1, <2>4, NoMoreWays DEF Shape, w
    <2>5. QED
        BY <2>3, <2>4
<1>4. QED
    BY <1>3, Zenon

\* All the members an area comes out with outline it.
LEMMA OutlineAgain ==
  ASSUME osm \in Extracts, NEW r \in osm.rels
  PROVE  Outline(AreaOut(r)) = Outline(r)
<1> DEFINE o == Outline(r)
           role(w) == [type |-> "way", id |-> w, role |-> "outer"]
           ms == [i \in DOMAIN o |-> role(o[i])]
           Q == {m \in Range(ms) : m.type = "way" /\ m.role \in {"", "outer", "part"}}
<1>1. o \in Seq(Nat)
    BY OutlineIs
<1>2. AreaOut(r).members = ms
    BY DEF AreaOut
<1> HIDE DEF o
<1>3. ms \in Seq(Range(ms)) /\ DOMAIN ms = DOMAIN o
    BY <1>1 DEF Range
<1>4. \A i \in DOMAIN ms : ms[i] \in Q /\ ms[i].id = o[i]
    BY DEF Range
<1> HIDE DEF ms, Q
<1>5. DOMAIN ms = 1 .. Len(ms)
    BY <1>3, SeqIs
<1>6. Those(ms, Q) = ms
    BY <1>3, <1>4, <1>5, ThoseAll
<1>7. Outline(AreaOut(r)) = [i \in DOMAIN ms |-> ms[i].id]
    BY <1>2, <1>6 DEF Outline, IdsOf, Q
<1>8. o = [i \in DOMAIN o |-> o[i]]
    BY <1>1
<1>9. QED
    BY <1>3, <1>4, <1>7, <1>8 DEF o

\* The invariant keeps the outlines.
LEMMA InvOutlinesKept ==
  ASSUME AreasAreNoRoutes, PlaceInv
  PROVE  OutlinesKept
<1> SUFFICES ASSUME Done
             PROVE  Areas(out) = Areas(osm)
    BY DEF OutlinesKept
<1> DEFINE wayArea(w, x) == <<"way", w, x.ways[w].tags, Shape(w, x)>>
           ringWays(x) == {v \in DOMAIN x.ways : Area(x.ways[v].tags) /\ Len(x.ways[v].refs) >= 3}
           WayAreas(x) == {wayArea(w, x) : w \in ringWays(x)}
           shapes(r, x) == [i \in DOMAIN Outline(r) |-> Shape(Outline(r)[i], x)]
           relArea(r, x) == <<"rel", r.id, r.tags, shapes(r, x)>>
           ringRels(x) == {s \in x.rels : Area(s.tags) /\ Outline(s) # << >>}
           RelAreas(x) == {relArea(r, x) : r \in ringRels(x)}
<1>1. \A x : Areas(x) = WayAreas(x) \cup RelAreas(x)
    BY DEF Areas
<1>2. osm \in Extracts /\ Finds /\ MadeOf(out.nodes, out.ways, nextStub)
    BY DoneIs
<1>3. ringWays(osm) = found.standalone /\ ringRels(osm) = found.areas
    BY <1>2 DEF Finds, WaysRead, RelationsRead
<1>4. WayAreas(out) = WayAreas(osm)
    <2>1. ~ Area(<< >>)
        BY DEF Area, Get, Has
    <2>2. ASSUME NEW w \in ringWays(out)
          PROVE  w \in ringWays(osm)
        <3>1. w \in DOMAIN out.ways /\ Area(out.ways[w].tags) /\ Len(out.ways[w].refs) >= 3
            OBVIOUS
        <3>2. WayOK(w, out.ways[w], out.nodes)
            BY <1>2, <3>1 DEF MadeOf
        <3>3. ~ \E m : out.ways[w].refs = <<m>>
            <4>1. \A m : Len(<<m>>) = 1
                OBVIOUS
            <4>2. ASSUME NEW m, out.ways[w].refs = <<m>>
                  PROVE  FALSE
                BY <3>1, <4>1, <4>2
            <4>3. QED
                BY <4>2
        <3>4. WholeWay(w, out.ways[w], out.nodes)
            BY <1>2, <3>2, <3>3, WayRefs
        <3>5. QED
            BY <2>1, <3>1, <3>4 DEF WholeWay
    <2>3. ASSUME NEW w \in ringWays(osm)
          PROVE  w \in ringWays(out) /\ wayArea(w, out) = wayArea(w, osm)
        <3>1. w \in found.standalone
            BY <1>3
        <3>2. w \in DOMAIN out.ways /\ WholeWay(w, out.ways[w], out.nodes)
            BY <3>1, RingsAreWhole
        <3>3. out.ways[w].tags = osm.ways[w].tags /\ out.ways[w].refs = osm.ways[w].refs
            BY <3>1, <3>2, DoneIs DEF WholeWay
        <3>4. Shape(w, out) = Shape(w, osm)
            BY <3>2, WholeShape
        <3>5. QED
            BY <3>2, <3>3, <3>4
    <2> HIDE DEF ringWays, wayArea
    <2>4. QED
        BY <2>2, <2>3
<1>5. RelAreas(out) = RelAreas(osm)
    <2>1. ASSUME NEW r \in found.areas
          PROVE  AreaOut(r) \in ringRels(out) /\ relArea(AreaOut(r), out) = relArea(r, osm)
        <3>1. r \in osm.rels /\ Area(r.tags) /\ Outline(r) # << >>
            BY <1>3
        <3>2. AreaOut(r).id = r.id /\ AreaOut(r).tags = r.tags
            BY DEF AreaOut
        <3>3. Outline(AreaOut(r)) = Outline(r)
            BY <1>2, <3>1, OutlineAgain
        <3>4. AreaOut(r) \in out.rels
            BY DoneIs
        <3>5. shapes(AreaOut(r), out) = shapes(r, out)
            BY <3>3
        <3>6. shapes(r, out) = shapes(r, osm)
            BY AreaShapes
        <3>7. QED
            BY <3>1, <3>2, <3>3, <3>4, <3>5, <3>6
    <2>2. ASSUME NEW s \in ringRels(out)
          PROVE  \E r \in found.areas : s = AreaOut(r)
        <3>1. ASSUME NEW r \in found.routes, NamedRoute(r), RouteOut(r, s, out.nodes, out.ways)
              PROVE  FALSE
            <4>1. r \in osm.rels /\ s.tags = r.tags
                BY <1>2, <3>1 DEF Finds, RelationsRead, RouteOut
            <4>2. QED
                BY <1>2, <3>1, <4>1 DEF AreasAreNoRoutes
        <3>2. QED
            BY <3>1, DoneIs
    <2> HIDE DEF ringRels, relArea
    <2>3. QED
        BY <1>3, <2>1, <2>2
<1>6. QED
    BY <1>1, <1>4, <1>5, Zenon

\* Every area comes through with the shape it had and no area is made up, for
\* any extracts in which no area is a route: a way that is collapsed for the
\* index is never one that outlines an area (KeptInFull, OutlineWay).
THEOREM OutlinesAreKept ==
  ASSUME AreasAreNoRoutes
  PROVE  Spec => []OutlinesKept
<1>1. PlaceInv => OutlinesKept
    BY InvOutlinesKept
<1>2. QED
    BY <1>1, PlaceInvariant, PTL

-----------------------------------------------------------------------------
(* Places *)

\* A way at p in the extract is at q in the points.
Stays(w, p, q) ==
  \/ p = q
  \/ ~ InFull(w) /\ q.of = 1 /\ Near(p, q.sum)

\* The way stands where it stood, if it stands anywhere.
SamePlace(w) ==
  /\ Known(out.ways[w].refs, out.nodes) # << >> <=> Known(osm.ways[w].refs, osm.nodes) # << >>
  /\ Known(osm.ways[w].refs, osm.nodes) # << >> =>
       Stays(w, Mean(osm.ways[w].refs, osm.nodes), Mean(out.ways[w].refs, out.nodes))

\* A whole way stands where it stood.
LEMMA WholePlace ==
  ASSUME PlaceInv, Done, NEW w \in DOMAIN out.ways, WholeWay(w, out.ways[w], out.nodes)
  PROVE  SamePlace(w)
<1>1. /\ w \in DOMAIN osm.ways /\ osm.ways[w].refs \in Seq(Nat) /\ out.ways[w].refs = osm.ways[w].refs
      /\ \A n \in Range(osm.ways[w].refs) : n \in DOMAIN out.nodes <=> n \in DOMAIN osm.nodes
      /\ \A n \in Range(osm.ways[w].refs) \cap DOMAIN out.nodes : out.nodes[n].at = osm.nodes[n].at
    BY WholeNodes
<1>2. /\ Known(osm.ways[w].refs, out.nodes) = Known(osm.ways[w].refs, osm.nodes)
      /\ Mean(osm.ways[w].refs, out.nodes) = Mean(osm.ways[w].refs, osm.nodes)
    BY <1>1, MeanAgrees
<1>3. QED
    BY <1>1, <1>2 DEF SamePlace, Stays

\* A way of one made-up node stands where that way stood.
LEMMA PointPlace ==
  ASSUME PlaceInv, Done, NEW w \in DOMAIN out.ways, PointWay(w, out.ways[w], out.nodes)
  PROVE  SamePlace(w)
<1>1. osm \in Extracts /\ Finds /\ MadeOf(out.nodes, out.ways, nextStub)
    BY DoneIs
<1> DEFINE refs == osm.ways[w].refs
<1>2. PICK m \in DOMAIN out.nodes :
        m < 0 /\ out.ways[w].refs = <<m>> /\ Near(Mean(refs, found.nodes), out.nodes[m].at)
    BY DEF PointWay
<1>3. w \in found.jobs /\ ~ InFull(w) /\ Known(refs, found.nodes) # << >>
    BY DEF PointWay
<1>4. /\ refs \in Seq(Nat)
      /\ \A n \in Range(refs) : n \in DOMAIN found.nodes <=> n \in DOMAIN osm.nodes
      /\ \A n \in Range(refs) \cap DOMAIN found.nodes : found.nodes[n].at = osm.nodes[n].at
    BY <1>1, <1>3, FindsAre
<1> HIDE DEF refs
<1>5. Known(refs, found.nodes) = Known(refs, osm.nodes) /\ Mean(refs, found.nodes) = Mean(refs, osm.nodes)
    BY <1>4, MeanAgrees
<1>6. out.nodes[m].at \in Int
    BY <1>2, InvTypes DEF PlaceTypeOK
<1>7. Known(<<m>>, out.nodes) = <<m>> /\ Mean(<<m>>, out.nodes) = [sum |-> out.nodes[m].at, of |-> 1]
    BY <1>2, <1>6, MeanOfOne
<1>8. <<m>> # << >>
    OBVIOUS
<1>9. Stays(w, Mean(refs, osm.nodes), Mean(<<m>>, out.nodes))
    BY <1>2, <1>3, <1>5, <1>7 DEF Stays
<1>10. QED
    BY <1>2, <1>3, <1>5, <1>7, <1>8, <1>9 DEF SamePlace, refs

\* Every named way stands where it stood.
LEMMA WaysStand ==
  ASSUME PlaceInv, Done, NEW w \in DOMAIN out.ways, SearchWay(out.ways[w])
  PROVE  SamePlace(w)
  BY NamedWays, WholePlace, PointPlace

\* The ways of each relation of x, and the nodes at which route r begins in x.
WaysOf(x) == [c \in {r.id : r \in x.rels} |-> MembersOf(CHOOSE r \in x.rels : r.id = c, "way")]
FirstNodes(r, x) ==
  {x.ways[w].refs[1] :
     w \in {v \in FirstWay(MembersOf(r, "way"), MembersOf(r, "rel"), WaysOf(x))
                  \cap DOMAIN x.ways : x.ways[v].refs # << >>}}
RoutePlaces(r, x) == {<<"route", r.id, r.tags, x.nodes[n].at>> : n \in FirstNodes(r, x) \cap DOMAIN x.nodes}

\* The children a route has are those the passes have read.
LEMMA FirstAgrees ==
  ASSUME osm \in Extracts, Finds, NEW r \in found.routes
  PROVE  FirstWay(MembersOf(r, "way"), MembersOf(r, "rel"), WaysOf(osm)) = FirstOf(r)
<1> DEFINE children == MembersOf(r, "rel")
           given == {c \in DOMAIN WaysOf(osm) : WaysOf(osm)[c] # << >>}
           read == {c \in DOMAIN found.childWays : found.childWays[c] # << >>}
<1>1. children \in Seq(Nat)
    BY OutlineIs DEF Finds, RelationsRead
<1>2. \A c \in {s.id : s \in osm.rels} : WaysOf(osm)[c] = MembersOf(Rel(c), "way")
    BY DEF WaysOf, Rel
<1>3. DOMAIN WaysOf(osm) = {s.id : s \in osm.rels}
    BY DEF WaysOf
<1>4. \A c \in DOMAIN found.childWays :
        c \in {s.id : s \in osm.rels} /\ found.childWays[c] = MembersOf(Rel(c), "way")
    BY DEF Finds, ChildrenRead
<1>5. \A c \in Range(children) : c \in {s.id : s \in osm.rels} => c \in DOMAIN found.childWays
    BY DEF Finds, ChildrenRead
<1>6. \A c \in Range(children) : c \in given <=> c \in read
    BY <1>2, <1>3, <1>4, <1>5
<1>7. \A c \in read : WaysOf(osm)[c] = found.childWays[c]
    BY <1>2, <1>4
<1> HIDE DEF given, read, children
<1>8. Len(children) \in Nat /\ \A i \in 1 .. Len(children) : children[i] \in Range(children)
    BY <1>1, SeqIs DEF Range
<1>9. Those(children, given) = Those(children, read)
    BY <1>6, <1>8, ThoseAgree
<1> DEFINE some == Those(children, read)
<1>10. some \in Seq(Nat) /\ Range(some) \subseteq read
    BY <1>1, ThoseAre
<1> HIDE DEF some
<1>11. some # << >> => WaysOf(osm)[some[1]] = found.childWays[some[1]]
    <2> SUFFICES ASSUME some # << >>
                 PROVE  some[1] \in read
        BY <1>7
    <2>1. some[1] \in Range(some)
        BY <1>10 DEF Range
    <2>2. QED
        BY <1>10, <2>1
<1>12. FirstWay(MembersOf(r, "way"), children, WaysOf(osm)) =
         IF MembersOf(r, "way") # << >> THEN {MembersOf(r, "way")[1]}
         ELSE IF some # << >> THEN {WaysOf(osm)[some[1]][1]} ELSE {}
    BY <1>9 DEF FirstWay, given, some
<1>13. FirstOf(r) =
         IF MembersOf(r, "way") # << >> THEN {MembersOf(r, "way")[1]}
         ELSE IF some # << >> THEN {found.childWays[some[1]][1]} ELSE {}
    BY DEF FirstOf, FirstWay, read, some, children
<1>14. QED
    BY <1>11, <1>12, <1>13 DEF children

\* The place of a route of the extract is the one the passes give it.
LEMMA RoutesBegin ==
  ASSUME osm \in Extracts, Finds, NEW r \in found.routes
  PROVE  RoutePlaces(r, osm) = {<<"route", r.id, r.tags, p>> : p \in RouteAt(r)}
<1> DEFINE ways == {v \in FirstOf(r) \cap DOMAIN osm.ways : osm.ways[v].refs # << >>}
           nodes == {found.firstNode[w] : w \in FirstOf(r) \cap DOMAIN found.firstNode}
<1>1. FirstOf(r) \subseteq RouteWays
    BY FirstIs
<1>2. ways = FirstOf(r) \cap DOMAIN found.firstNode
    BY <1>1 DEF Finds, WaysRead
<1>3. \A w \in ways : osm.ways[w].refs[1] = found.firstNode[w]
    BY <1>2 DEF Finds, WaysRead
<1>4. FirstNodes(r, osm) = {osm.ways[w].refs[1] : w \in ways}
    BY FirstAgrees DEF FirstNodes
<1> HIDE DEF ways
<1>5. FirstNodes(r, osm) = nodes
    BY <1>2, <1>3, <1>4
<1>6. \A n \in nodes : n \in found.needed
    BY DEF Finds, WaysRead, Range
<1> HIDE DEF nodes
<1>7. nodes \cap DOMAIN osm.nodes = nodes \cap DOMAIN found.nodes
    BY <1>6 DEF Finds, NodesRead
<1>8. \A n \in nodes \cap DOMAIN found.nodes : osm.nodes[n].at = found.nodes[n].at
    BY FindsAre
<1>9. RouteAt(r) = {found.nodes[n].at : n \in nodes \cap DOMAIN found.nodes}
    BY DEF RouteAt, nodes
<1>10. RoutePlaces(r, osm) = {<<"route", r.id, r.tags, osm.nodes[n].at>> : n \in nodes \cap DOMAIN found.nodes}
    BY <1>5, <1>7 DEF RoutePlaces
<1>11. QED
    BY <1>8, <1>9, <1>10

\* A route begins in one place.
LEMMA OneBegin ==
  ASSUME osm \in Extracts, Finds, NEW r \in found.routes, NEW p \in RouteAt(r)
  PROVE  RouteAt(r) = {p}
<1>1. PICK w \in FirstOf(r) : TRUE
    BY DEF RouteAt
<1>2. FirstOf(r) = {w}
    BY <1>1, FirstIs
<1>3. RouteAt(r) \subseteq {found.nodes[found.firstNode[w]].at}
    BY <1>2 DEF RouteAt
<1>4. QED
    BY <1>3

\* A route that has come out is where it was.
LEMMA RoutesStand ==
  ASSUME PlaceInv, Done, NEW r \in found.routes, NEW s, RouteOut(r, s, out.nodes, out.ways)
  PROVE  RoutePlaces(s, out) = RoutePlaces(r, osm)
<1>1. osm \in Extracts /\ Finds
    BY DoneIs
<1>2. PICK w \in DOMAIN out.ways :
        /\ s.members = <<[type |-> "way", id |-> w, role |-> ""]>>
        /\ w + 1 \in DOMAIN out.nodes /\ out.ways[w].refs = <<w + 1>>
        /\ out.nodes[w + 1].at \in RouteAt(r)
    BY DEF RouteOut
<1> DEFINE member == [type |-> "way", id |-> w, role |-> ""]
           ms == <<member>>
           Q == {m \in Range(ms) : m.type = "way"}
<1>3. MembersOf(s, "way") = <<w>>
    <2>1. ms \in Seq({member}) /\ \A i \in 1 .. Len(ms) : ms[i] \in Q
        <3>1. member.type = "way"
            OBVIOUS
        <3> HIDE DEF member
        <3>2. ms \in Seq({member}) /\ DOMAIN ms = {1} /\ ms[1] = member /\ Len(ms) = 1
            BY OneIs
        <3> HIDE DEF ms
        <3>3. 1 .. Len(ms) = {1}
            BY <3>2
        <3>4. QED
            BY <3>1, <3>2, <3>3 DEF Range
    <2>2. Those(ms, Q) = ms
        <3> HIDE DEF ms, Q
        <3>1. QED
            BY <2>1, ThoseAll
    <2>3. MembersOf(s, "way") = IdsOf(s, Q)
        BY <1>2 DEF MembersOf
    <2>4. IdsOf(s, Q) = [i \in DOMAIN ms |-> ms[i].id]
        <3> HIDE DEF ms, Q
        <3>1. s.members = ms
            BY <1>2 DEF ms
        <3>2. QED
            BY <2>2, <3>1 DEF IdsOf
    <2>5. [i \in DOMAIN ms |-> ms[i].id] = <<w>>
        <3>1. member.id = w
            OBVIOUS
        <3> HIDE DEF member
        <3>2. DOMAIN ms = {1} /\ ms[1] = member
            BY OneIs
        <3> HIDE DEF ms
        <3>3. [i \in DOMAIN ms |-> ms[i].id] = [i \in {1} |-> w]
            BY <3>1, <3>2
        <3>4. <<w>> = [i \in {1} |-> w]
            BY OneIs
        <3>5. QED
            BY <3>3, <3>4
    <2>6. QED
        BY <2>3, <2>4, <2>5
<1>4. FirstWay(MembersOf(s, "way"), MembersOf(s, "rel"), WaysOf(out)) = {w}
    BY <1>3 DEF FirstWay
<1>5. out.ways[w].refs # << >> /\ out.ways[w].refs[1] = w + 1
    BY <1>2, OneIs
<1>6. FirstNodes(s, out) = {w + 1}
    BY <1>2, <1>4, <1>5 DEF FirstNodes
<1>7. RoutePlaces(s, out) = {<<"route", s.id, s.tags, out.nodes[w + 1].at>>}
    BY <1>2, <1>6 DEF RoutePlaces
<1>8. RouteAt(r) = {out.nodes[w + 1].at}
    BY <1>1, <1>2, OneBegin
<1>9. s.id = r.id /\ s.tags = r.tags
    BY DEF RouteOut
<1>10. QED
    BY <1>1, <1>7, <1>8, <1>9, RoutesBegin

\* What Stays says of a way is what SameSpot asks of its place.
LEMMA WaySpot ==
  ASSUME NEW w, NEW tags, NEW p, NEW q, Stays(w, p, q)
  PROVE  SameSpot(<<"way", w, tags, p>>, <<"way", w, tags, q>>)
  BY DEF SameSpot, Stays

\* The invariant keeps the places.
LEMMA InvPlacesKept ==
  ASSUME AreasAreNoRoutes, PlaceInv
  PROVE  PlacesKept
<1> SUFFICES ASSUME Done
             PROVE  /\ \A p \in Places(osm) : \E q \in Places(out) : SameSpot(p, q)
                    /\ \A q \in Places(out) : \E p \in Places(osm) : SameSpot(p, q)
    BY DEF PlacesKept
<1> DEFINE named(x) == {m \in DOMAIN x.nodes : Named(x.nodes[m].tags)}
           NodePlaces(x) == {<<"node", n, x.nodes[n].tags, x.nodes[n].at>> : n \in named(x)}
           wayPlace(w, x) == <<"way", w, x.ways[w].tags, Mean(x.ways[w].refs, x.nodes)>>
           stands(x) == {v \in DOMAIN x.ways : SearchWay(x.ways[v]) /\ Known(x.ways[v].refs, x.nodes) # << >>}
           WayPlaces(x) == {wayPlace(w, x) : w \in stands(x)}
           routes(x) == {s \in x.rels : NamedRoute(s)}
           AllRoutes(x) == UNION {RoutePlaces(r, x) : r \in routes(x)}
<1>1. \A x : Places(x) = NodePlaces(x) \cup WayPlaces(x) \cup AllRoutes(x)
    BY DEF Places, RoutePlaces, FirstNodes, WaysOf
<1>2. osm \in Extracts /\ Finds
    BY DoneIs
<1>3. NodePlaces(out) = NodePlaces(osm)
    BY NamedNodes
<1>4. /\ \A p \in WayPlaces(osm) : \E q \in WayPlaces(out) : SameSpot(p, q)
      /\ \A q \in WayPlaces(out) : \E p \in WayPlaces(osm) : SameSpot(p, q)
    <2>1. ASSUME NEW w \in stands(out)
          PROVE  w \in stands(osm) /\ SameSpot(wayPlace(w, osm), wayPlace(w, out))
        <3>1. w \in DOMAIN out.ways /\ SearchWay(out.ways[w]) /\ Known(out.ways[w].refs, out.nodes) # << >>
            OBVIOUS
        <3>2. SamePlace(w)
            BY <3>1, WaysStand
        <3>3. w \in DOMAIN osm.ways /\ out.ways[w].tags = osm.ways[w].tags /\ SearchWay(osm.ways[w])
            BY <3>1, NamedWays
        <3>4. /\ Known(osm.ways[w].refs, osm.nodes) # << >>
              /\ Stays(w, Mean(osm.ways[w].refs, osm.nodes), Mean(out.ways[w].refs, out.nodes))
            BY <3>1, <3>2 DEF SamePlace
        <3>5. w \in stands(osm)
            BY <3>3, <3>4
        <3>6. SameSpot(wayPlace(w, osm), wayPlace(w, out))
            BY <3>3, <3>4, WaySpot
        <3>7. QED
            BY <3>5, <3>6
    <2>2. ASSUME NEW w \in stands(osm)
          PROVE  w \in stands(out)
        <3>1. w \in DOMAIN osm.ways /\ SearchWay(osm.ways[w]) /\ Known(osm.ways[w].refs, osm.nodes) # << >>
            OBVIOUS
        <3>2. w \in DOMAIN out.ways /\ out.ways[w].tags = osm.ways[w].tags
            BY <3>1, WaysComeOut
        <3>3. SearchWay(out.ways[w])
            BY <3>1, <3>2 DEF SearchWay
        <3>4. SamePlace(w)
            BY <3>2, <3>3, WaysStand
        <3>5. QED
            BY <3>1, <3>2, <3>3, <3>4 DEF SamePlace
    <2> HIDE DEF stands, wayPlace
    <2>3. QED
        BY <2>1, <2>2
<1>5. AllRoutes(out) = AllRoutes(osm)
    <2>1. ASSUME NEW s \in routes(out)
          PROVE  \E r \in routes(osm) : RoutePlaces(s, out) = RoutePlaces(r, osm)
        <3>1. ASSUME NEW r \in found.areas, s = AreaOut(r)
              PROVE  FALSE
            <4>1. r \in osm.rels /\ Area(r.tags) /\ s.tags = r.tags
                BY <1>2, <3>1 DEF Finds, RelationsRead, AreaOut
            <4>2. NamedRoute(r)
                BY <4>1 DEF NamedRoute
            <4>3. QED
                BY <1>2, <4>1, <4>2 DEF AreasAreNoRoutes
        <3>2. PICK r \in found.routes : NamedRoute(r) /\ RouteOut(r, s, out.nodes, out.ways)
            BY <3>1, DoneIs
        <3>3. r \in routes(osm)
            BY <1>2, <3>2 DEF Finds, RelationsRead
        <3>4. QED
            BY <3>2, <3>3, RoutesStand
    <2>2. ASSUME NEW r \in routes(osm), RoutePlaces(r, osm) # {}
          PROVE  \E s \in routes(out) : RoutePlaces(s, out) = RoutePlaces(r, osm)
        <3>1. r \in found.routes /\ NamedRoute(r)
            BY <1>2 DEF Finds, RelationsRead, NamedRoute
        <3>2. RouteAt(r) # {}
            BY <1>2, <2>2, <3>1, RoutesBegin
        <3>3. PICK s \in out.rels : RouteOut(r, s, out.nodes, out.ways)
            BY <3>1, <3>2, DoneIs
        <3>4. NamedRoute(s)
            BY <3>1, <3>3 DEF NamedRoute, RouteOut
        <3>5. QED
            BY <3>1, <3>3, <3>4, RoutesStand
    <2> HIDE DEF routes
    <2>3. QED
        BY <2>1, <2>2
<1>6. \A p : SameSpot(p, p)
    BY DEF SameSpot
<1> HIDE DEF NodePlaces, WayPlaces, AllRoutes
<1>7. QED
    BY <1>1, <1>3, <1>4, <1>5, <1>6, Zenon

\* Every place the app finds in an extract it finds in its points, with the
\* same tags, and no other, at the same position but for the rounding of a way
\* that is collapsed: for any extracts in which no area is a route (the passes
\* look for what each place stands on, and a made-up node stands at the point
\* of the grid nearest to the middle of the way it is for).
THEOREM EveryPlaceIsKept ==
  ASSUME AreasAreNoRoutes
  PROVE  Spec => []PlacesKept
<1>1. PlaceInv => PlacesKept
    BY InvPlacesKept
<1>2. QED
    BY <1>1, PlaceInvariant, PTL

=============================================================================
