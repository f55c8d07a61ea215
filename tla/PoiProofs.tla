------------------------------ MODULE PoiProofs ------------------------------
(***************************************************************************)
(* Points of interest and barriers, for any extracts, in any number of     *)
(* blobs merged in any order: a plan has the records of the extract,       *)
(* through the archive or by a scan, and bars the way to a stop where a    *)
(* barrier stands in it and nowhere else.                                  *)
(*                                                                         *)
(* The archive is a matter of lists: end to end with their offsets they    *)
(* come apart again (UnflatIs), a mask gives back the categories it was    *)
(* made of (UnmaskIs), and so records come back (RecordsComeBack).  What   *)
(* the passes have read is a function of the blobs merged so far and of    *)
(* nothing else (PoiInv), and a plan is one of two values that the extract *)
(* alone decides.                                                          *)
(*                                                                         *)
(* The barriers are a matter of geometry: the turns and boxes by which     *)
(* segments_intersect decides say whether two segments share a point       *)
(* (MeetingIsSharing), where they cross, touch, lie in one line or are     *)
(* single places.                                                          *)
(***************************************************************************)
EXTENDS PoiBarriers, WellFoundedInduction, FiniteSetTheorems, TLAPS

\* A set of numbers that is not empty has a least.
LEMMA LeastExists ==
  ASSUME NEW T, T \subseteq Nat, T # {}
  PROVE  \E x \in T : \A y \in T : x <= y
<1> DEFINE R == {ss \in Nat \X Nat : ss[1] < ss[2]}
<1>1. IsWellFoundedOn(R, Nat)
    BY NatLessThanWellFounded DEF OpToRel
<1>2. \A x, y \in Nat : <<y, x>> \in R <=> y < x
    OBVIOUS
<1> HIDE DEF R
<1>3. PICK x \in T : \A y \in T : ~ (<<y, x>> \in R)
    BY <1>1, WFMin
<1>4. \A y \in T : ~ (y < x)
    BY <1>2, <1>3
<1>5. \A y \in T : x <= y
    BY <1>4
<1>6. QED
    BY <1>5

\* What a sequence over S is.
LEMMA SeqIs ==
  ASSUME NEW S, NEW f \in Seq(S)
  PROVE  Len(f) \in Nat /\ DOMAIN f = 1 .. Len(f) /\ \A k \in 1 .. Len(f) : f[k] \in S
  OBVIOUS

-----------------------------------------------------------------------------
(* Lists end to end                                                        *)

\* The lists up to the k-th are those before it, followed by it.
LEMMA JoinedIs ==
  ASSUME NEW S, NEW lists \in Seq(Seq(S))
  PROVE  /\ Joined(lists) \in [0 .. Len(lists) -> Seq(S)]
         /\ Joined(lists)[0] = << >>
         /\ \A k \in 1 .. Len(lists) : Joined(lists)[k] = Joined(lists)[k - 1] \o lists[k]
<1> DEFINE n == Len(lists)
           F(u) == [k \in 0..Len(lists) |-> IF k = 0 THEN << >> ELSE u[k - 1] \o lists[k]]
           Upto(m, u) == /\ u \in [0 .. m -> Seq(S)] /\ u[0] = << >>
                         /\ \A k \in 1 .. m : u[k] = u[k - 1] \o lists[k]
           Bad == {m \in 0 .. n : ~ \E u : Upto(m, u)}
<1>1. n \in Nat /\ \A k \in 1 .. n : lists[k] \in Seq(S)
    OBVIOUS
<1> HIDE DEF n
<1>2. Bad = {}
    <2> SUFFICES ASSUME Bad # {}
                 PROVE  FALSE
        OBVIOUS
    <2>1. PICK m \in Bad : \A i \in Bad : m <= i
        <3> HIDE DEF Upto
        <3>1. Bad \subseteq Nat
            BY <1>1
        <3> HIDE DEF Bad
        <3>2. QED
            BY <3>1, LeastExists
    <2>2. m \in 0 .. n
        OBVIOUS
    <2>3. m # 0
        <3> DEFINE z == [k \in 0 .. 0 |-> << >>]
        <3>1. Upto(0, z)
            OBVIOUS
        <3>2. QED
            BY <3>1
    <2>4. m - 1 \in 0 .. n /\ ~ (m <= m - 1) /\ m \in 1 .. n
        BY <1>1, <2>2, <2>3
    <2>5. PICK u : Upto(m - 1, u)
        BY <2>1, <2>4
    <2> DEFINE v == [k \in 0 .. m |-> IF k = m THEN u[m - 1] \o lists[m] ELSE u[k]]
    <2>6. Upto(m, v)
        <3>1. u[m - 1] \in Seq(S) /\ lists[m] \in Seq(S)
            BY <1>1, <2>4, <2>5
        <3>2. u[m - 1] \o lists[m] \in Seq(S)
            BY <3>1
        <3>3. v \in [0 .. m -> Seq(S)] /\ v[0] = << >>
            BY <2>3, <2>4, <2>5, <3>2
        <3>4. ASSUME NEW k \in 1 .. m
              PROVE  v[k] = v[k - 1] \o lists[k]
            <4>1. k - 1 \in 0 .. m /\ k - 1 # m /\ k \in 0 .. m
                BY <2>4
            <4>2. CASE k = m
                BY <4>1, <4>2
            <4>3. CASE k # m
                <5>1. k \in 1 .. m - 1
                    BY <2>4, <4>3
                <5>2. QED
                    BY <2>5, <4>1, <4>3, <5>1
            <4>4. QED
                BY <4>2, <4>3
        <3> HIDE DEF v
        <3>5. QED
            BY <3>3, <3>4
    <2>7. QED
        BY <2>6, <2>2
<1>3. PICK u : Upto(n, u)
    <2>1. n \in 0 .. n
        BY <1>1
    <2> HIDE DEF Upto
    <2>2. QED
        BY <1>2, <2>1
<1>4. u = F(u)
    <2>1. u = [k \in 0 .. n |-> u[k]]
        BY <1>3
    <2>2. ASSUME NEW k \in 0 .. n
          PROVE  u[k] = IF k = 0 THEN << >> ELSE u[k - 1] \o lists[k]
        <3>1. k # 0 => k \in 1 .. n
            BY <1>1
        <3>2. QED
            BY <1>3, <3>1
    <2> HIDE DEF Upto
    <2>3. u = [k \in 0 .. n |-> IF k = 0 THEN << >> ELSE u[k - 1] \o lists[k]]
        BY <2>1, <2>2, Zenon
    <2>4. QED
        BY <2>3 DEF n
<1> DEFINE j == CHOOSE g : g = F(g)
<1>5. Joined(lists) = j
    BY DEF Joined
<1> HIDE DEF F
<1>6. j = F(j)
    BY <1>4
<1> HIDE DEF j
<1>7. /\ DOMAIN j = 0 .. n /\ j = [k \in 0 .. n |-> j[k]]
      /\ \A k \in 0 .. n : j[k] = IF k = 0 THEN << >> ELSE j[k - 1] \o lists[k]
    BY <1>6 DEF F, n
<1>8. \A k \in 0 .. n : j[k] = u[k]
    <2> DEFINE Odd == {k \in 0 .. n : j[k] # u[k]}
    <2> SUFFICES ASSUME Odd # {}
                 PROVE  FALSE
        OBVIOUS
    <2>1. PICK k \in Odd : \A i \in Odd : k <= i
        <3>1. Odd \subseteq Nat
            OBVIOUS
        <3> HIDE DEF Odd
        <3>2. QED
            BY <3>1, LeastExists
    <2>2. k # 0
        BY <1>1, <1>3, <1>7
    <2>3. k \in 1 .. n /\ k - 1 \in 0 .. n /\ ~ (k <= k - 1)
        BY <1>1, <2>2
    <2>4. j[k - 1] = u[k - 1]
        BY <2>1, <2>3
    <2>5. QED
        BY <1>3, <1>7, <2>2, <2>3, <2>4
<1>9. j = u
    BY <1>3, <1>7, <1>8
<1>10. QED
    BY <1>3, <1>5, <1>9 DEF n

\* A stretch of the first of two sequences, and all of the second.
LEMMA Stretch ==
  ASSUME NEW S, NEW s \in Seq(S), NEW t \in Seq(S)
  PROVE  /\ s \o t \in Seq(S) /\ Len(s \o t) = Len(s) + Len(t)
         /\ \A a \in Nat \ {0}, b \in Nat :
              b <= Len(s) => SubSeq(s \o t, a, b) = SubSeq(s, a, b)
         /\ SubSeq(s \o t, Len(s) + 1, Len(s) + Len(t)) = t
<1>1. s \o t \in Seq(S) /\ Len(s \o t) = Len(s) + Len(t)
    OBVIOUS
<1>2. ASSUME NEW a \in Nat \ {0}, NEW b \in Nat, b <= Len(s)
      PROVE  SubSeq(s \o t, a, b) = SubSeq(s, a, b)
    BY <1>2
<1>3. SubSeq(s \o t, Len(s) + 1, Len(s) + Len(t)) = t
    OBVIOUS
<1>4. QED
    BY <1>1, <1>2, <1>3

\* Lists that lie end to end are found again by their offsets.
LEMMA UnflatIs ==
  ASSUME NEW S, NEW lists \in Seq(Seq(S))
  PROVE  Unflat(Flat(lists)) = lists
<1>1. \A s \in Seq(S), t \in Seq(S) :
        /\ Len(s \o t) = Len(s) + Len(t)
        /\ \A a \in Nat \ {0}, b \in Nat :
             b <= Len(s) => SubSeq(s \o t, a, b) = SubSeq(s, a, b)
        /\ SubSeq(s \o t, Len(s) + 1, Len(s) + Len(t)) = t
    <2> SUFFICES ASSUME NEW s \in Seq(S), NEW t \in Seq(S)
                 PROVE  /\ Len(s \o t) = Len(s) + Len(t)
                        /\ \A a \in Nat \ {0}, b \in Nat :
                             b <= Len(s) => SubSeq(s \o t, a, b) = SubSeq(s, a, b)
                        /\ SubSeq(s \o t, Len(s) + 1, Len(s) + Len(t)) = t
        OBVIOUS
    <2>1. QED
        BY Stretch
<1> DEFINE n == Len(lists)
           J == Joined(lists)
<1>2. n \in Nat /\ lists = [i \in 1 .. n |-> lists[i]] /\ \A i \in 1 .. n : lists[i] \in Seq(S)
    OBVIOUS
<1>3. /\ \A k \in 0 .. n : J[k] \in Seq(S)
      /\ \A k \in 1 .. n : J[k] = J[k - 1] \o lists[k]
    BY JoinedIs
<1>4. /\ Flat(lists).items = J[n]
      /\ Len(Flat(lists).offsets) = n + 1
      /\ \A i \in 1 .. n + 1 : Flat(lists).offsets[i] = Len(J[i - 1])
    BY <1>2 DEF Flat
<1> HIDE DEF n, J
<1>5. ASSUME NEW i \in 1 .. n
      PROVE  SubSeq(J[n], Len(J[i - 1]) + 1, Len(J[i])) = lists[i]
    <2> DEFINE Whole(m) == /\ Len(J[i]) <= Len(J[m])
                           /\ SubSeq(J[m], Len(J[i - 1]) + 1, Len(J[i])) = lists[i]
               Bad == {m \in i .. n : ~ Whole(m)}
    <2>1. i \in Nat /\ i - 1 \in 0 .. n /\ i \in 0 .. n
        BY <1>2
    <2>2. /\ J[i - 1] \in Seq(S) /\ Len(J[i - 1]) \in Nat
          /\ J[i] \in Seq(S) /\ Len(J[i]) \in Nat /\ lists[i] \in Seq(S)
        BY <1>2, <1>3, <2>1
    <2>3. Whole(i)
        <3>1. J[i] = J[i - 1] \o lists[i]
            BY <1>3
        <3>2. Len(J[i]) = Len(J[i - 1]) + Len(lists[i])
            BY <1>1, <2>2, <3>1, Zenon
        <3>3. SubSeq(J[i], Len(J[i - 1]) + 1, Len(J[i])) = lists[i]
            <4>1. SubSeq(J[i - 1] \o lists[i], Len(J[i - 1]) + 1, Len(J[i - 1]) + Len(lists[i])) = lists[i]
                BY <1>1, <2>2, Zenon
            <4>2. QED
                BY <3>1, <3>2, <4>1
        <3>4. Len(J[i]) <= Len(J[i])
            BY <2>2
        <3>5. QED
            BY <3>3, <3>4, Zenon
    <2>4. ASSUME NEW m \in i .. n, m # i, Whole(m - 1)
          PROVE  Whole(m)
        <3>1. m \in 1 .. n /\ m - 1 \in 0 .. n
            BY <1>2, <2>1, <2>4
        <3>2. J[m] = J[m - 1] \o lists[m] /\ J[m - 1] \in Seq(S) /\ lists[m] \in Seq(S)
            BY <1>2, <1>3, <3>1
        <3>3. Len(J[m - 1]) \in Nat /\ Len(lists[m]) \in Nat
            BY <3>2
        <3>4. Len(J[m]) = Len(J[m - 1]) + Len(lists[m])
            BY <1>1, <3>2, Zenon
        <3>5. SubSeq(J[m], Len(J[i - 1]) + 1, Len(J[i])) = SubSeq(J[m - 1], Len(J[i - 1]) + 1, Len(J[i]))
            <4>1. Len(J[i - 1]) + 1 \in Nat \ {0} /\ Len(J[i]) \in Nat /\ Len(J[i]) <= Len(J[m - 1])
                BY <2>2, <2>4
            <4>2. \A a \in Nat \ {0}, b \in Nat : b <= Len(J[m - 1])
                     => SubSeq(J[m - 1] \o lists[m], a, b) = SubSeq(J[m - 1], a, b)
                BY <1>1, <3>2, Zenon
            <4>3. QED
                BY <3>2, <4>1, <4>2, Zenon
        <3>6. Len(J[i]) <= Len(J[m])
            <4>1. Len(J[i]) <= Len(J[m - 1])
                BY <2>4
            <4>2. \A x, y, z \in Nat : x <= y => x <= y + z
                OBVIOUS
            <4>3. QED
                BY <2>2, <3>3, <3>4, <4>1, <4>2, Zenon
        <3>7. SubSeq(J[m - 1], Len(J[i - 1]) + 1, Len(J[i])) = lists[i]
            BY <2>4, Zenon
        <3>8. QED
            BY <3>5, <3>6, <3>7, Zenon
    <2>5. Bad = {}
        <3> HIDE DEF Whole
        <3> SUFFICES ASSUME Bad # {}
                     PROVE  FALSE
            OBVIOUS
        <3>1. PICK m \in Bad : \A k \in Bad : m <= k
            <4>1. Bad \subseteq Nat
                BY <1>2, <2>1
            <4> HIDE DEF Bad
            <4>2. QED
                BY <4>1, LeastExists
        <3>2. m \in i .. n /\ ~ Whole(m)
            OBVIOUS
        <3>3. m # i
            BY <2>3, <3>2
        <3>4. m - 1 \in i .. n /\ ~ (m <= m - 1)
            BY <1>2, <2>1, <3>2, <3>3
        <3>5. Whole(m - 1)
            BY <3>1, <3>4
        <3>6. QED
            BY <2>4, <3>2, <3>3, <3>5
    <2> HIDE DEF Whole
    <2>6. n \in i .. n
        BY <1>2, <2>1
    <2>7. Whole(n)
        BY <2>5, <2>6
    <2>8. QED
        BY <2>7 DEF Whole
<1>6. ASSUME NEW i \in 1 .. n
      PROVE  SubSeq(Flat(lists).items, Flat(lists).offsets[i] + 1, Flat(lists).offsets[i + 1]) = lists[i]
    <2>1. /\ i \in 1 .. n + 1 /\ i + 1 \in 1 .. n + 1 /\ (i + 1) - 1 = i
        BY <1>2
    <2>2. Flat(lists).offsets[i] = Len(J[i - 1]) /\ Flat(lists).offsets[i + 1] = Len(J[i])
        BY <1>4, <2>1
    <2>3. QED
        BY <1>4, <1>5, <2>2
<1>7. 1 .. Len(Flat(lists).offsets) - 1 = 1 .. n
    BY <1>2, <1>4
<1>8. Unflat(Flat(lists)) = [i \in 1 .. n |-> lists[i]]
    BY <1>6, <1>7, Zenon DEF Unflat
<1>9. QED
    BY <1>2, <1>8

-----------------------------------------------------------------------------
(* A finite set as a list                                                  *)

LEMMA ListOfSet ==
  ASSUME NEW S, IsFiniteSet(S)
  PROVE  /\ SetToSeq(S) \in Seq(S) /\ Range(SetToSeq(S)) = S
         /\ DOMAIN SetToSeq(S) = 1 .. Len(SetToSeq(S))
<1> DEFINE n == Cardinality(S)
<1>1. n \in Nat /\ ExistsBijection(1 .. n, S)
    BY FS_CardinalityType
<1>2. PICK f \in Bijection(1 .. n, S) : TRUE
    BY <1>1 DEF ExistsBijection
<1>3. f \in [1 .. n -> S] /\ IsInjective(f)
    BY <1>2 DEF Bijection, Injection, IsInjective
<1> DEFINE g == SetToSeq(S)
<1>4. g \in [1 .. n -> S] /\ IsInjective(g)
    BY <1>3 DEF SetToSeq
<1> HIDE DEF g
<1>5. Range(g) = S
    <2>1. ExistsInjection(1 .. n, S) /\ g \in Injection(1 .. n, S)
        BY <1>4 DEF ExistsInjection, Injection, IsInjective
    <2>2. IsFiniteSet(1 .. n) /\ Cardinality(1 .. n) = n
        BY <1>1, FS_Interval
    <2>3. g \in Surjection(1 .. n, S)
        BY <2>1, <2>2, FS_Injection
    <2>4. QED
        BY <1>4, <2>3 DEF Surjection, Range
<1>6. g \in Seq(S) /\ DOMAIN g = 1 .. Len(g)
    BY <1>1, <1>4
<1>7. QED
    BY <1>5, <1>6 DEF g

-----------------------------------------------------------------------------
(* Categories as a mask                                                    *)

\* The mask of a set of categories is the sum of their bits.
LEMMA MaskSum ==
  ASSUME NEW cats, NEW d, d = [k \in 1 .. 11 |-> IF AllCategories[k] \in cats THEN 1 ELSE 0]
  PROVE  Mask(cats) = d[1] + 2 * d[2] + 4 * d[3] + 8 * d[4] + 16 * d[5] + 32 * d[6] + 64 * d[7]
                        + 128 * d[8] + 256 * d[9] + 512 * d[10] + 1024 * d[11]
<1> DEFINE F(g) == [k \in 0..11 |->
                      IF k = 0 THEN 0
                      ELSE g[k - 1] + IF AllCategories[k] \in cats THEN Bits[k] ELSE 0]
           s(k) == IF k = 0 THEN 0 ELSE IF k = 1 THEN d[1] ELSE IF k = 2 THEN d[1] + 2 * d[2]
                   ELSE IF k = 3 THEN d[1] + 2 * d[2] + 4 * d[3]
                   ELSE IF k = 4 THEN d[1] + 2 * d[2] + 4 * d[3] + 8 * d[4]
                   ELSE IF k = 5 THEN d[1] + 2 * d[2] + 4 * d[3] + 8 * d[4] + 16 * d[5]
                   ELSE IF k = 6 THEN d[1] + 2 * d[2] + 4 * d[3] + 8 * d[4] + 16 * d[5] + 32 * d[6]
                   ELSE IF k = 7 THEN d[1] + 2 * d[2] + 4 * d[3] + 8 * d[4] + 16 * d[5] + 32 * d[6]
                                        + 64 * d[7]
                   ELSE IF k = 8 THEN d[1] + 2 * d[2] + 4 * d[3] + 8 * d[4] + 16 * d[5] + 32 * d[6]
                                        + 64 * d[7] + 128 * d[8]
                   ELSE IF k = 9 THEN d[1] + 2 * d[2] + 4 * d[3] + 8 * d[4] + 16 * d[5] + 32 * d[6]
                                        + 64 * d[7] + 128 * d[8] + 256 * d[9]
                   ELSE IF k = 10 THEN d[1] + 2 * d[2] + 4 * d[3] + 8 * d[4] + 16 * d[5] + 32 * d[6]
                                        + 64 * d[7] + 128 * d[8] + 256 * d[9] + 512 * d[10]
                   ELSE d[1] + 2 * d[2] + 4 * d[3] + 8 * d[4] + 16 * d[5] + 32 * d[6] + 64 * d[7]
                          + 128 * d[8] + 256 * d[9] + 512 * d[10] + 1024 * d[11]
           u == [k \in 0 .. 11 |-> s(k)]
           f == CHOOSE g : g = F(g)
<1>1. Mask(cats) = f[11]
    BY DEF Mask
<1>2. \A k \in 1 .. 11 : d[k] \in 0 .. 1 /\ (AllCategories[k] \in cats <=> d[k] = 1)
    OBVIOUS
<1>3. \A k \in 1 .. 11 : (IF AllCategories[k] \in cats THEN Bits[k] ELSE 0) = d[k] * Bits[k]
    <2>1. \A k \in 1 .. 11 : Bits[k] \in Int
        BY DEF Bits
    <2>2. QED
        BY <1>2, <2>1
<1>4. /\ Bits[1] = 1 /\ Bits[2] = 2 /\ Bits[3] = 4 /\ Bits[4] = 8 /\ Bits[5] = 16 /\ Bits[6] = 32
      /\ Bits[7] = 64 /\ Bits[8] = 128 /\ Bits[9] = 256 /\ Bits[10] = 512 /\ Bits[11] = 1024
    BY DEF Bits
<1>5. \A k \in 1 .. 11 : s(k) = s(k - 1) + d[k] * Bits[k]
    BY <1>2, <1>4
<1>6. u = F(u)
    <2>1. ASSUME NEW k \in 0 .. 11
          PROVE  s(k) = IF k = 0 THEN 0
                        ELSE u[k - 1] + IF AllCategories[k] \in cats THEN Bits[k] ELSE 0
        <3>1. CASE k = 0
            BY <3>1
        <3>2. CASE k # 0
            <4>1. k \in 1 .. 11 /\ k - 1 \in 0 .. 11
                BY <3>2
            <4>2. u[k - 1] = s(k - 1)
                BY <4>1
            <4> HIDE DEF s, u
            <4>3. QED
                BY <1>3, <1>5, <3>2, <4>1, <4>2
        <3>3. QED
            BY <3>1, <3>2
    <2> HIDE DEF s
    <2>2. QED
        BY <2>1
<1> HIDE DEF F
<1>7. f = F(f)
    BY <1>6
<1> HIDE DEF f
<1>8. f[0] = 0 /\ \A k \in 1 .. 11 : f[k] = f[k - 1] + IF AllCategories[k] \in cats THEN Bits[k] ELSE 0
    BY <1>7 DEF F
<1>9. \A k \in 1 .. 11 : f[k] = f[k - 1] + d[k] * Bits[k]
    BY <1>3, <1>8
<1>10. /\ f[1] = f[0] + d[1] /\ f[2] = f[1] + 2 * d[2] /\ f[3] = f[2] + 4 * d[3]
       /\ f[4] = f[3] + 8 * d[4] /\ f[5] = f[4] + 16 * d[5] /\ f[6] = f[5] + 32 * d[6]
       /\ f[7] = f[6] + 64 * d[7] /\ f[8] = f[7] + 128 * d[8] /\ f[9] = f[8] + 256 * d[9]
       /\ f[10] = f[9] + 512 * d[10] /\ f[11] = f[10] + 1024 * d[11]
    BY <1>2, <1>4, <1>9
<1>11. QED
    BY <1>1, <1>2, <1>8, <1>10

\* Nothing is lost in the mask.
LEMMA UnmaskIs ==
  ASSUME NEW cats, cats \subseteq Range(AllCategories)
  PROVE  Unmask(Mask(cats)) = cats
<1>1. PICK d : d = [k \in 1 .. 11 |-> IF AllCategories[k] \in cats THEN 1 ELSE 0]
    OBVIOUS
<1> DEFINE m == Mask(cats)
<1>2. m = d[1] + 2 * d[2] + 4 * d[3] + 8 * d[4] + 16 * d[5] + 32 * d[6] + 64 * d[7]
            + 128 * d[8] + 256 * d[9] + 512 * d[10] + 1024 * d[11]
    BY <1>1, MaskSum
<1>3. \A k \in 1 .. 11 : d[k] \in 0 .. 1 /\ (AllCategories[k] \in cats <=> d[k] = 1)
    BY <1>1
<1> HIDE DEF m
<1>4. /\ (m \div 1) % 2 = d[1] /\ (m \div 2) % 2 = d[2] /\ (m \div 4) % 2 = d[3]
      /\ (m \div 8) % 2 = d[4] /\ (m \div 16) % 2 = d[5] /\ (m \div 32) % 2 = d[6]
      /\ (m \div 64) % 2 = d[7] /\ (m \div 128) % 2 = d[8] /\ (m \div 256) % 2 = d[9]
      /\ (m \div 512) % 2 = d[10] /\ (m \div 1024) % 2 = d[11]
    <2>1. /\ d[1] \in 0 .. 1 /\ d[2] \in 0 .. 1 /\ d[3] \in 0 .. 1 /\ d[4] \in 0 .. 1
          /\ d[5] \in 0 .. 1 /\ d[6] \in 0 .. 1 /\ d[7] \in 0 .. 1 /\ d[8] \in 0 .. 1
          /\ d[9] \in 0 .. 1 /\ d[10] \in 0 .. 1 /\ d[11] \in 0 .. 1
        BY <1>3
    <2>2. m \in Int
        BY <1>2, <2>1
    <2>3. PICK d1, d2, d3, d4, d5, d6, d7, d8, d9, d10, d11 \in 0 .. 1 :
            /\ d1 = d[1] /\ d2 = d[2] /\ d3 = d[3] /\ d4 = d[4] /\ d5 = d[5] /\ d6 = d[6]
            /\ d7 = d[7] /\ d8 = d[8] /\ d9 = d[9] /\ d10 = d[10] /\ d11 = d[11]
        BY <2>1
    <2>4. m = d1 + 2 * d2 + 4 * d3 + 8 * d4 + 16 * d5 + 32 * d6 + 64 * d7 + 128 * d8 + 256 * d9
                + 512 * d10 + 1024 * d11
        BY <1>2, <2>3
    <2>5. (m \div 1) % 2 = d1
        BY <2>2, <2>4
    <2>6. (m \div 2) % 2 = d2
        BY <2>2, <2>4
    <2>7. (m \div 4) % 2 = d3
        BY <2>2, <2>4
    <2>8. (m \div 8) % 2 = d4
        BY <2>2, <2>4
    <2>9. (m \div 16) % 2 = d5
        BY <2>2, <2>4
    <2>10. (m \div 32) % 2 = d6
        BY <2>2, <2>4
    <2>11. (m \div 64) % 2 = d7
        BY <2>2, <2>4
    <2>12. (m \div 128) % 2 = d8
        BY <2>2, <2>4
    <2>13. (m \div 256) % 2 = d9
        BY <2>2, <2>4
    <2>14. (m \div 512) % 2 = d10
        BY <2>2, <2>4
    <2>15. (m \div 1024) % 2 = d11
        BY <2>2, <2>4
    <2>16. QED
        BY <2>3, <2>5, <2>6, <2>7, <2>8, <2>9, <2>10, <2>11, <2>12, <2>13, <2>14, <2>15
<1>5. ASSUME NEW k \in 1 .. 11
      PROVE  (m \div Bits[k]) % 2 = d[k]
    BY <1>4 DEF Bits
<1>6. Range(AllCategories) = {AllCategories[k] : k \in 1 .. 11}
    BY DEF Range, AllCategories
<1>7. Unmask(m) = {AllCategories[k] : k \in {j \in 1 .. 11 : AllCategories[j] \in cats}}
    BY <1>3, <1>5 DEF Unmask
<1>8. QED
    BY <1>6, <1>7 DEF m

-----------------------------------------------------------------------------
(* Finite sets                                                             *)

\* A function with a finite domain has finitely many values.
LEMMA FiniteRange ==
  ASSUME NEW f, IsFiniteSet(DOMAIN f)
  PROVE  IsFiniteSet({f[x] : x \in DOMAIN f})
<1> DEFINE T == {f[x] : x \in DOMAIN f}
           g == [x \in DOMAIN f |-> f[x]]
<1>1. g \in Surjection(DOMAIN f, T)
    BY DEF Surjection
<1> HIDE DEF g
<1>2. QED
    BY <1>1, FS_Surjection

-----------------------------------------------------------------------------
(* The records of the archive                                              *)

\* The tags of a record come back from the pairs.
LEMMA TagsComeBack ==
  ASSUME NEW t, t \in [DOMAIN t -> Range(t)], IsFiniteSet(DOMAIN t)
  PROVE  /\ TagsOf(Pairs(t)) = t
         /\ Pairs(t) \in Seq({<<k, t[k]>> : k \in DOMAIN t})
<1> DEFINE P == {<<k, t[k]>> : k \in DOMAIN t}
           f == [k \in DOMAIN t |-> <<k, t[k]>>]
<1>1. IsFiniteSet(P)
    <2>1. DOMAIN f = DOMAIN t /\ P = {f[k] : k \in DOMAIN f}
        OBVIOUS
    <2> HIDE DEF f, P
    <2>2. QED
        BY <2>1, FiniteRange
<1>2. Range(Pairs(t)) = P /\ Pairs(t) \in Seq(P)
    BY <1>1, ListOfSet DEF Pairs
<1> DEFINE ps == Pairs(t)
<1> HIDE DEF ps
<1>3. {p[1] : p \in Range(ps)} = DOMAIN t
    <2>1. Range(ps) = P
        BY <1>2 DEF ps
    <2>2. \A p \in P : p[1] \in DOMAIN t
        OBVIOUS
    <2>3. ASSUME NEW k \in DOMAIN t
          PROVE  \E p \in P : p[1] = k
        <3>1. <<k, t[k]>> \in P /\ <<k, t[k]>>[1] = k
            OBVIOUS
        <3> HIDE DEF P
        <3>2. QED
            BY <3>1
    <2> HIDE DEF P
    <2>4. QED
        BY <2>1, <2>2, <2>3
<1>4. ASSUME NEW k \in DOMAIN t
      PROVE  (CHOOSE p \in Range(ps) : p[1] = k)[2] = t[k]
    <2>1. <<k, t[k]>> \in Range(ps) /\ <<k, t[k]>>[1] = k
        BY <1>2 DEF ps
    <2>2. \A p \in Range(ps) : p[1] = k => p[2] = t[k]
        BY <1>2 DEF ps
    <2>3. QED
        BY <2>1, <2>2
<1>5. t = [k \in DOMAIN t |-> t[k]]
    OBVIOUS
<1>6. TagsOf(ps) = [k \in DOMAIN t |-> t[k]]
    BY <1>3, <1>4, Zenon DEF TagsOf
<1>7. QED
    BY <1>2, <1>5, <1>6 DEF ps

\* A record as the archive can hold it.
Kept(r) ==
  /\ r = [id |-> r.id, at |-> r.at, categories |-> r.categories, tags |-> r.tags]
  /\ r.categories \subseteq Range(AllCategories)
  /\ r.tags \in [DOMAIN r.tags -> Range(r.tags)] /\ IsFiniteSet(DOMAIN r.tags)

\* What a plan reads from the archive.
RecordsOf(p) ==
  LET tags == Unflat(p.tags)
  IN  {[id |-> p.ids[i], at |-> p.ats[i], categories |-> Unmask(p.masks[i]), tags |-> TagsOf(tags[i])] :
         i \in DOMAIN p.ids \cap DOMAIN tags}

LEMMA RecordsComeBack ==
  ASSUME NEW records, IsFiniteSet(records), \A r \in records : Kept(r),
         NEW segs, NEW glaciers, NEW buildings
  PROVE  RecordsOf(FlatPack(records, segs, glaciers, buildings)) = records
<1> DEFINE rs == SetToSeq(records)
           p == FlatPack(records, segs, glaciers, buildings)
           lists == [i \in DOMAIN rs |-> Pairs(rs[i].tags)]
<1>1. /\ rs \in Seq(records) /\ Range(rs) = records /\ DOMAIN rs = 1 .. Len(rs)
    BY ListOfSet
<1>2. /\ p.ids = [i \in DOMAIN rs |-> rs[i].id] /\ p.ats = [i \in DOMAIN rs |-> rs[i].at]
      /\ p.masks = [i \in DOMAIN rs |-> Mask(rs[i].categories)]
      /\ p.tags = Flat(lists)
    BY DEF FlatPack
<1> HIDE DEF rs, p
<1>3. \A i \in DOMAIN rs : rs[i] \in records /\ Kept(rs[i])
    BY <1>1
<1>4. Unflat(p.tags) = lists
    <2> DEFINE S == UNION {{<<k, r.tags[k]>> : k \in DOMAIN r.tags} : r \in records}
    <2>1. \A i \in DOMAIN rs : lists[i] \in Seq(S)
        <3> SUFFICES ASSUME NEW i \in DOMAIN rs
                     PROVE  Pairs(rs[i].tags) \in Seq(S)
            OBVIOUS
        <3> DEFINE t == rs[i].tags
                   Q == {<<k, t[k]>> : k \in DOMAIN t}
        <3>1. Pairs(t) \in Seq(Q)
            <4>1. t \in [DOMAIN t -> Range(t)] /\ IsFiniteSet(DOMAIN t)
                BY <1>3 DEF Kept
            <4> HIDE DEF t
            <4>2. QED
                BY <4>1, TagsComeBack
        <3>2. Q \subseteq S
            BY <1>3
        <3> HIDE DEF Q, S
        <3>3. QED
            BY <3>1, <3>2
    <2>2. Len(rs) \in Nat
        BY <1>1
    <2> HIDE DEF S
    <2>3. lists \in Seq(Seq(S))
        BY <1>1, <2>1, <2>2
    <2> HIDE DEF lists
    <2>4. QED
        BY <1>2, <2>3, UnflatIs
<1>5. ASSUME NEW i \in DOMAIN rs
      PROVE  [id |-> p.ids[i], at |-> p.ats[i], categories |-> Unmask(p.masks[i]),
              tags |-> TagsOf(lists[i])] = rs[i]
    <2>1. Kept(rs[i])
        BY <1>3
    <2>2. p.ids[i] = rs[i].id /\ p.ats[i] = rs[i].at /\ p.masks[i] = Mask(rs[i].categories)
        BY <1>2
    <2>3. Unmask(Mask(rs[i].categories)) = rs[i].categories
        BY <2>1, UnmaskIs DEF Kept
    <2>4. TagsOf(lists[i]) = rs[i].tags
        BY <2>1, TagsComeBack DEF Kept
    <2> HIDE DEF lists
    <2>5. QED
        BY <2>1, <2>2, <2>3, <2>4, Zenon DEF Kept
<1>6. DOMAIN p.ids = DOMAIN rs /\ DOMAIN lists = DOMAIN rs
    BY <1>2
<1> HIDE DEF lists
<1>7. RecordsOf(p) = {rs[i] : i \in DOMAIN rs}
    BY <1>4, <1>5, <1>6 DEF RecordsOf
<1>8. QED
    BY <1>1, <1>7 DEF p, Range

-----------------------------------------------------------------------------
(* Lines                                                                   *)

\* Only the coordinates of the nodes of the way matter.
LEMMA ResolvedAgree ==
  ASSUME NEW refs, NEW c1, NEW c2,
         \A i \in DOMAIN refs : /\ refs[i] \in DOMAIN c1 <=> refs[i] \in DOMAIN c2
                                /\ refs[i] \in DOMAIN c1 => c1[refs[i]] = c2[refs[i]]
  PROVE  Resolved(refs, c1) = Resolved(refs, c2)
<1> DEFINE L(c) == [i \in DOMAIN refs |-> IF refs[i] \in DOMAIN c THEN <<c[refs[i]]>> ELSE << >>]
<1>1. L(c1) = L(c2)
    OBVIOUS
<1>2. Resolved(refs, c1) = Joined(L(c1))[Len(refs)] /\ Resolved(refs, c2) = Joined(L(c2))[Len(refs)]
    BY DEF Resolved
<1> HIDE DEF L
<1>3. QED
    BY <1>1, <1>2, Zenon

\* A line has a position for each known node of its way.
LEMMA ResolvedIs ==
  ASSUME NEW R, NEW refs \in Seq(R), NEW coords, \A n \in DOMAIN coords : coords[n] \in Position
  PROVE  Resolved(refs, coords) \in Seq(Position) /\ Len(Resolved(refs, coords)) <= Len(refs)
<1> DEFINE lists == [i \in DOMAIN refs |-> IF refs[i] \in DOMAIN coords THEN <<coords[refs[i]]>> ELSE << >>]
           n == Len(refs)
           J == Joined(lists)
<1>1. n \in Nat /\ DOMAIN refs = 1 .. n
    OBVIOUS
<1>2. \A x \in Position : <<x>> \in Seq(Position) /\ Len(<<x>>) = 1
    OBVIOUS
<1>3. << >> \in Seq(Position) /\ Len(<< >>) = 0
    OBVIOUS
<1>4. \A i \in 1 .. n : lists[i] \in Seq(Position) /\ Len(lists[i]) \in 0 .. 1
    <2> SUFFICES ASSUME NEW i \in 1 .. n
                 PROVE  lists[i] \in Seq(Position) /\ Len(lists[i]) \in 0 .. 1
        OBVIOUS
    <2>1. CASE refs[i] \in DOMAIN coords
        BY <1>1, <1>2, <2>1
    <2>2. CASE refs[i] \notin DOMAIN coords
        BY <1>1, <1>3, <2>2
    <2>3. QED
        BY <2>1, <2>2
<1>5. lists \in Seq(Seq(Position)) /\ Len(lists) = n
    <2>1. lists \in [1 .. n -> Seq(Position)]
        BY <1>1, <1>4
    <2> HIDE DEF lists, n
    <2>2. QED
        BY <1>1, <2>1
<1>6. Resolved(refs, coords) = J[n]
    BY DEF Resolved
<1> HIDE DEF lists, n
<1>7. /\ \A k \in 0 .. n : J[k] \in Seq(Position)
      /\ J[0] = << >> /\ \A k \in 1 .. n : J[k] = J[k - 1] \o lists[k]
    BY <1>5, JoinedIs
<1> HIDE DEF J
<1>8. \A s, t \in Seq(Position) : Len(s \o t) = Len(s) + Len(t) /\ Len(s) \in Nat
    OBVIOUS
<1>9. ASSUME NEW k \in 1 .. n, Len(J[k - 1]) <= k - 1
      PROVE  Len(J[k]) <= k
    <2>1. k - 1 \in 0 .. n
        BY <1>1
    <2>2. Len(J[k]) = Len(J[k - 1]) + Len(lists[k]) /\ Len(J[k - 1]) \in Nat
        BY <1>4, <1>7, <1>8, <2>1, Zenon
    <2>3. Len(lists[k]) \in 0 .. 1
        BY <1>4
    <2>4. \A x \in Nat, y \in 0 .. 1 : x <= k - 1 => x + y <= k
        OBVIOUS
    <2>5. QED
        BY <1>9, <2>2, <2>3, <2>4, Zenon
<1> DEFINE Long == {k \in 0 .. n : ~ (Len(J[k]) <= k)}
<1>10. Long = {}
    <2> SUFFICES ASSUME Long # {}
                 PROVE  FALSE
        OBVIOUS
    <2>1. PICK k \in Long : \A i \in Long : k <= i
        <3>1. Long \subseteq Nat
            BY <1>1
        <3> HIDE DEF Long
        <3>2. QED
            BY <3>1, LeastExists
    <2>2. k \in 0 .. n /\ ~ (Len(J[k]) <= k)
        OBVIOUS
    <2>3. k # 0
        BY <1>3, <1>7, <2>2
    <2>4. k \in 1 .. n /\ k - 1 \in 0 .. n /\ ~ (k <= k - 1)
        BY <1>1, <2>2, <2>3
    <2>5. Len(J[k - 1]) <= k - 1
        BY <2>1, <2>4
    <2>6. QED
        BY <1>9, <2>2, <2>4, <2>5
<1>11. n \in 0 .. n
    BY <1>1
<1>12. QED
    BY <1>6, <1>7, <1>10, <1>11 DEF n

LEMMA EdgesAre ==
  ASSUME NEW line \in Seq(Position)
  PROVE  Edges(line) \subseteq Position \X Position /\ IsFiniteSet(Edges(line))
<1> DEFINE n == Len(line)
           f == [i \in 1 .. n - 1 |-> <<line[i], line[i + 1]>>]
<1>1. n \in Nat /\ \A i \in 1 .. n : line[i] \in Position
    OBVIOUS
<1>2. \A i \in 1 .. n - 1 : i \in 1 .. n /\ i + 1 \in 1 .. n
    BY <1>1
<1>3. Edges(line) \subseteq Position \X Position
    BY <1>1, <1>2 DEF Edges
<1>4. IsFiniteSet(1 .. n - 1)
    BY <1>1, FS_Interval
<1>5. Edges(line) = {f[i] : i \in DOMAIN f} /\ IsFiniteSet(DOMAIN f)
    BY <1>4 DEF Edges
<1> HIDE DEF f
<1>6. QED
    BY <1>3, <1>5, FiniteRange

LEMMA ClosedIs ==
  ASSUME NEW ring \in Seq(Position), Len(ring) >= 1
  PROVE  Closed(ring) \in Seq(Position)
<1>1. ring[1] \in Position
    OBVIOUS
<1>2. Append(ring, ring[1]) \in Seq(Position)
    BY <1>1
<1>3. QED
    BY <1>2 DEF Closed

\* The union of finitely many finite sets that a function gives.
LEMMA FiniteUnion ==
  ASSUME NEW f, IsFiniteSet(DOMAIN f), \A x \in DOMAIN f : IsFiniteSet(f[x])
  PROVE  IsFiniteSet(UNION {f[x] : x \in DOMAIN f})
<1> DEFINE T == {f[x] : x \in DOMAIN f}
<1>1. IsFiniteSet(T) /\ \A s \in T : IsFiniteSet(s)
    BY FiniteRange
<1> HIDE DEF T
<1>2. IsFiniteSet(UNION T)
    BY <1>1, FS_UNION
<1>3. QED
    BY <1>2 DEF T

\* Finitely many lines have finitely many edges, and their rings are lines.
LEMMA GeometryIs ==
  ASSUME NEW lines, IsFiniteSet(lines), \A l \in lines : l.line \in Seq(Position)
  PROVE  LET g == Geometry(lines)
         IN  /\ g.segs \subseteq Position \X Position /\ IsFiniteSet(g.segs)
             /\ g.glaciers \subseteq Seq(Position) /\ IsFiniteSet(g.glaciers)
<1> DEFINE here == {l \in lines : Len(l.line) >= 2}
           icy == {k \in here : k.kind = "glacier" /\ Len(k.line) >= 3}
           rings == {Closed(l.line) : l \in icy}
           f == [l \in here |-> Edges(l.line)]
           c == [l \in icy |-> Closed(l.line)]
           h == [r \in rings |-> Edges(r)]
<1>1. IsFiniteSet(here) /\ IsFiniteSet(icy)
    BY FS_Subset
<1>2. rings \subseteq Seq(Position)
    <2> SUFFICES ASSUME NEW l \in icy
                 PROVE  Closed(l.line) \in Seq(Position)
        OBVIOUS
    <2>1. l.line \in Seq(Position) /\ Len(l.line) >= 1
        OBVIOUS
    <2>2. QED
        BY <2>1, ClosedIs
<1>3. IsFiniteSet(rings)
    <2>1. IsFiniteSet(DOMAIN c) /\ rings = {c[l] : l \in DOMAIN c}
        BY <1>1
    <2> HIDE DEF c, rings
    <2>2. QED
        BY <2>1, FiniteRange
<1>4. IsFiniteSet(UNION {Edges(l.line) : l \in here})
    <2>1. \A l \in here : IsFiniteSet(Edges(l.line))
        BY EdgesAre
    <2>2. /\ IsFiniteSet(DOMAIN f) /\ \A l \in DOMAIN f : IsFiniteSet(f[l])
          /\ {Edges(l.line) : l \in here} = {f[l] : l \in DOMAIN f}
        BY <1>1, <2>1
    <2> HIDE DEF f, here
    <2>3. QED
        BY <2>2, FiniteUnion
<1>5. IsFiniteSet(UNION {Edges(r) : r \in rings})
    <2> HIDE DEF rings
    <2>1. \A r \in rings : IsFiniteSet(Edges(r))
        BY <1>2, EdgesAre
    <2>2. /\ IsFiniteSet(DOMAIN h) /\ \A r \in DOMAIN h : IsFiniteSet(h[r])
          /\ {Edges(r) : r \in rings} = {h[r] : r \in DOMAIN h}
        BY <1>3, <2>1
    <2> HIDE DEF h
    <2>3. QED
        BY <2>2, FiniteUnion
<1> DEFINE A == UNION {Edges(l.line) : l \in here}
           B == UNION {Edges(r) : r \in rings}
<1>6. A \subseteq Position \X Position
    <2>1. \A l \in here : Edges(l.line) \subseteq Position \X Position
        BY EdgesAre
    <2> HIDE DEF here
    <2>2. QED
        BY <2>1
<1>7. B \subseteq Position \X Position
    <2> HIDE DEF rings
    <2>1. \A r \in rings : Edges(r) \subseteq Position \X Position
        BY <1>2, EdgesAre
    <2>2. QED
        BY <2>1
<1>8. Geometry(lines).segs = A \cup B /\ Geometry(lines).glaciers = rings
    BY DEF Geometry
<1>9. IsFiniteSet(A) /\ IsFiniteSet(B)
    BY <1>4, <1>5
<1> HIDE DEF A, B, here, rings
<1>10. IsFiniteSet(A \cup B)
    BY <1>9, FS_Union
<1>11. A \cup B \subseteq Position \X Position
    BY <1>6, <1>7
<1>12. QED
    BY <1>2, <1>3, <1>8, <1>10, <1>11, Zenon

-----------------------------------------------------------------------------
(* The inductive invariant: what has been read of the extract, and what is *)
(* made of it.                                                             *)

AllNodes == DOMAIN scene.nodes

\* The nodes the ways of a set ask for.
NeededOf(ws) ==
  (UNION {Range(r) : r \in BuildingWays(ws)}) \cup (UNION {Range(w.refs) : w \in BarrierWays(ws, FALSE)})
CoordsOf(ns) == [n \in ns |-> At(n)]

\* The barriers and the buildings of the whole extract.
FoundGeometry == Geometry(Polylines(BarrierWays(AllWays, FALSE), AllAts))
FoundBuildings ==
  BuildingNodes(AllNodes, scene.region)
    \cup (UNION {Centroid(r, AllAts, scene.region) : r \in BuildingWays(AllWays)})

\* The two plans there may be.
PackPlan ==
  [source |-> "pack", records |-> Records(AllNodes), buildings |-> FoundBuildings,
   segs |-> FoundGeometry.segs \cup scene.highways, glaciers |-> FoundGeometry.glaciers]
ScanPlan ==
  [source |-> "scan", records |-> Records({n \in AllNodes : InBox(At(n), scene.bbox)}),
   buildings |-> IF scene.corridor = << >> THEN BuildingsInBox ELSE BuildingsAlong,
   segs |-> ScannedBarriers.segs \cup scene.own, glaciers |-> ScannedBarriers.glaciers]

WaysRead == IF phase = "ways" THEN UNION (scene.wayBlobs \ pending) ELSE AllWays
NodesRead == IF phase = "nodes" THEN UNION (scene.nodeBlobs \ pending) ELSE AllNodes

PendingOK ==
  /\ phase = "ways" => pending \subseteq scene.wayBlobs
  /\ phase = "nodes" => pending \subseteq scene.nodeBlobs
Pass1OK ==
  phase # "aborted" =>
    pass1 = [buildings |-> BuildingWays(WaysRead), barriers |-> BarrierWays(WaysRead, FALSE),
             needed |-> NeededOf(WaysRead)]
Pass2OK ==
  /\ phase = "ways" => pass2 = NoNodes
  /\ phase \in {"nodes", "packed"} =>
       pass2 = [records |-> Records(NodesRead), overnight |-> BuildingNodes(NodesRead, scene.region),
                coords |-> CoordsOf(NodesRead \cap pass1.needed)]
PackOK ==
  phase = "packed" =>
    pack = FlatPack(Records(AllNodes), FoundGeometry.segs \cup scene.highways,
                    FoundGeometry.glaciers, FoundBuildings)
PlanOK == plan # None => plan \in {PackPlan, ScanPlan}

PoiInv ==
  scene \in Scenes /\ PoiTypeOK /\ PendingOK /\ Pass1OK /\ Pass2OK /\ PackOK /\ PlanOK

-----------------------------------------------------------------------------
(* What the extract holds                                                  *)

LEMMA SceneIs ==
  ASSUME scene \in Scenes
  PROVE  /\ IsFiniteSet(AllNodes) /\ IsFiniteSet(AllWays)
         /\ \A n \in AllNodes : /\ At(n) \in Position /\ IsFiniteSet(DOMAIN NodeTags(n))
                                /\ NodeTags(n) \in [DOMAIN NodeTags(n) -> Range(NodeTags(n))]
         /\ \A w \in AllWays : scene.ways[w].refs \in Seq(Range(scene.ways[w].refs))
         /\ UNION scene.nodeBlobs = AllNodes /\ UNION scene.wayBlobs = AllWays
         /\ scene.links \cup scene.highways \cup scene.own \subseteq Position \X Position
         /\ IsFiniteSet(scene.highways)
  BY SceneAssumption DEF AllNodes, AllWays, At, NodeTags

\* What is read of the extract is a matter of the extract alone.
LEMMA SceneStays ==
  ASSUME scene' = scene
  PROVE  /\ AllNodes' = AllNodes /\ AllWays' = AllWays /\ AllAts' = AllAts
         /\ \A ns : Records(ns)' = Records(ns) /\ CoordsOf(ns)' = CoordsOf(ns)
         /\ \A ns, box : BuildingNodes(ns, box)' = BuildingNodes(ns, box)
         /\ \A ws : BuildingWays(ws)' = BuildingWays(ws) /\ NeededOf(ws)' = NeededOf(ws)
         /\ \A ws, scan : BarrierWays(ws, scan)' = BarrierWays(ws, scan)
<1>1. \A n : At(n)' = At(n) /\ NodeTags(n)' = NodeTags(n)
    BY DEF At, NodeTags
<1>2. AllNodes' = AllNodes /\ AllWays' = AllWays
    BY DEF AllNodes, AllWays
<1>3. AllAts' = AllAts
    BY <1>1 DEF AllAts
<1>4. \A ns : Records(ns)' = Records(ns)
    BY <1>1 DEF Records
<1>5. \A ns : CoordsOf(ns)' = CoordsOf(ns)
    BY <1>1 DEF CoordsOf
<1>6. \A ns, box : BuildingNodes(ns, box)' = BuildingNodes(ns, box)
    BY <1>1 DEF BuildingNodes
<1>7. \A ws : BuildingWays(ws)' = BuildingWays(ws)
    BY DEF BuildingWays
<1>8. \A ws, scan : BarrierWays(ws, scan)' = BarrierWays(ws, scan)
    BY DEF BarrierWays
<1>9. \A ws : NeededOf(ws)' = NeededOf(ws)
    BY <1>7, <1>8 DEF NeededOf
<1>10. QED
    BY <1>2, <1>3, <1>4, <1>5, <1>6, <1>7, <1>8, <1>9

\* So are the plans.
LEMMA PlansStay ==
  ASSUME scene' = scene
  PROVE  /\ FoundGeometry' = FoundGeometry /\ FoundBuildings' = FoundBuildings
         /\ PackPlan' = PackPlan /\ ScanPlan' = ScanPlan
<1>1. /\ AllNodes' = AllNodes /\ AllWays' = AllWays /\ AllAts' = AllAts
      /\ \A ns : Records(ns)' = Records(ns)
      /\ \A ns, box : BuildingNodes(ns, box)' = BuildingNodes(ns, box)
      /\ \A ws : BuildingWays(ws)' = BuildingWays(ws)
      /\ \A ws, scan : BarrierWays(ws, scan)' = BarrierWays(ws, scan)
    BY SceneStays
<1>2. FoundGeometry' = FoundGeometry
    BY <1>1 DEF FoundGeometry
<1>3. FoundBuildings' = FoundBuildings
    BY <1>1 DEF FoundBuildings
<1>4. PackPlan' = PackPlan
    BY <1>1, <1>2, <1>3 DEF PackPlan
<1>5. ScanPlan' = ScanPlan
    <2>1. \A n : At(n)' = At(n)
        BY DEF At
    <2>2. ScannedBarriers' = ScannedBarriers
        BY <1>1, <2>1 DEF ScannedBarriers
    <2>3. BuildingsInBox' = BuildingsInBox
        BY <1>1, <2>1 DEF BuildingsInBox
    <2>4. BuildingsAlong' = BuildingsAlong
        BY <1>1, <2>1 DEF BuildingsAlong
    <2>5. {n \in AllNodes : InBox(At(n), scene.bbox)}' = {n \in AllNodes : InBox(At(n), scene.bbox)}
        BY <1>1, <2>1
    <2>6. QED
        BY <1>1, <2>2, <2>3, <2>4, <2>5 DEF ScanPlan
<1>6. QED
    BY <1>2, <1>3, <1>4, <1>5

\* Reading one more block adds what it holds.
LEMMA MoreWays ==
  ASSUME NEW v, NEW b
  PROVE  /\ BuildingWays(v \cup b) = BuildingWays(v) \cup BuildingWays(b)
         /\ BarrierWays(v \cup b, FALSE) = BarrierWays(v, FALSE) \cup BarrierWays(b, FALSE)
         /\ NeededOf(v \cup b) = NeededOf(v) \cup (UNION {Range(r) : r \in BuildingWays(b)})
                                   \cup (UNION {Range(w.refs) : w \in BarrierWays(b, FALSE)})
<1>1. BuildingWays(v \cup b) = BuildingWays(v) \cup BuildingWays(b)
    BY DEF BuildingWays
<1>2. BarrierWays(v \cup b, FALSE) = BarrierWays(v, FALSE) \cup BarrierWays(b, FALSE)
    BY DEF BarrierWays
<1>3. QED
    BY <1>1, <1>2 DEF NeededOf

LEMMA MoreNodes ==
  ASSUME NEW v, NEW b, NEW box
  PROVE  /\ Records(v \cup b) = Records(v) \cup Records(b)
         /\ BuildingNodes(v \cup b, box) = BuildingNodes(v, box) \cup BuildingNodes(b, box)
<1>1. Records(v \cup b) = Records(v) \cup Records(b)
    BY DEF Records
<1>2. BuildingNodes(v \cup b, box) = BuildingNodes(v, box) \cup BuildingNodes(b, box)
    BY DEF BuildingNodes
<1>3. QED
    BY <1>1, <1>2

\* The blocks that are read, with one more.
LEMMA OneMoreBlob ==
  ASSUME NEW blobs, NEW left, left \subseteq blobs, NEW b \in left
  PROVE  UNION (blobs \ (left \ {b})) = (UNION (blobs \ left)) \cup b
  OBVIOUS

-----------------------------------------------------------------------------
(* The invariant is preserved                                              *)

LEMMA InitInv ==
  ASSUME Init
  PROVE  PoiInv
<1>1. WaysRead = {} /\ UNION {} = {}
    BY DEF Init, WaysRead
<1>2. /\ BuildingWays({}) = {} /\ BarrierWays({}, FALSE) = {}
      /\ NeededOf({}) = {}
    BY DEF BuildingWays, BarrierWays, NeededOf
<1>3. Pass1OK
    BY <1>1, <1>2 DEF Init, Pass1OK, NoScan
<1>4. PoiTypeOK
    BY DEF Init, PoiTypeOK, NoScan, NoNodes, Served
<1>5. QED
    BY <1>3, <1>4 DEF Init, PoiInv, PendingOK, Pass2OK, PackOK, PlanOK

\* A plan that is left alone stays one of the two.
LEMMA PlanStays ==
  ASSUME PlanOK, scene' = scene, plan' = plan
  PROVE  PlanOK'
  BY PlansStay DEF PlanOK

LEMMA ScanWaysInv ==
  ASSUME PoiInv, NEW b, ScanWays(b)
  PROVE  PoiInv'
<1> DEFINE v == UNION (scene.wayBlobs \ pending)
<1>1. /\ phase = "ways" /\ b \in pending /\ pending \subseteq scene.wayBlobs
      /\ pending' = pending \ {b} /\ scene' = scene /\ phase' = phase
      /\ pass2' = pass2 /\ pack' = pack /\ plan' = plan
      /\ pass1' = [buildings |-> pass1.buildings \cup BuildingWays(b),
                   barriers |-> pass1.barriers \cup BarrierWays(b, FALSE),
                   needed |-> pass1.needed \cup (UNION {Range(r) : r \in BuildingWays(b)})
                                \cup (UNION {Range(w.refs) : w \in BarrierWays(b, FALSE)})]
    BY DEF ScanWays, PoiInv, PendingOK
<1>2. pass1 = [buildings |-> BuildingWays(v), barriers |-> BarrierWays(v, FALSE), needed |-> NeededOf(v)]
    BY <1>1 DEF PoiInv, Pass1OK, WaysRead
<1>3. WaysRead' = v \cup b
    BY <1>1, OneMoreBlob DEF WaysRead
<1> HIDE DEF v
<1>4. pass1' = [buildings |-> BuildingWays(v \cup b), barriers |-> BarrierWays(v \cup b, FALSE),
                needed |-> NeededOf(v \cup b)]
    BY <1>1, <1>2, MoreWays
<1>5. /\ \A ws : BuildingWays(ws)' = BuildingWays(ws) /\ NeededOf(ws)' = NeededOf(ws)
      /\ \A ws, scan : BarrierWays(ws, scan)' = BarrierWays(ws, scan)
      /\ AllWays' = AllWays
    BY <1>1, SceneStays
<1>6. Pass1OK'
    BY <1>1, <1>3, <1>4, <1>5 DEF Pass1OK
<1>7. b \subseteq AllWays
    BY <1>1, SceneIs DEF PoiInv
<1>8. PoiTypeOK'
    <2> DEFINE U == UNION {Range(scene.ways[w].refs) : w \in AllWays}
    <2>1. pass1.needed \subseteq U
        BY DEF PoiInv, PoiTypeOK
    <2>2. \A r \in BuildingWays(b) : Range(r) \subseteq U
        BY <1>7 DEF BuildingWays
    <2>3. \A w \in BarrierWays(b, FALSE) : Range(w.refs) \subseteq U
        BY <1>7 DEF BarrierWays
    <2> HIDE DEF U
    <2>4. pass1'.needed \subseteq U
        BY <1>1, <2>1, <2>2, <2>3
    <2>5. pass1'.needed \subseteq UNION {Range(scene'.ways[w].refs) : w \in AllWays'}
        BY <1>1, <1>5, <2>4 DEF U
    <2>6. DOMAIN pass2'.coords \subseteq pass1'.needed \cap DOMAIN scene'.nodes
        <3>1. pass2'.coords = << >>
            BY <1>1 DEF PoiInv, Pass2OK, NoNodes
        <3>2. DOMAIN << >> = {}
            OBVIOUS
        <3>3. QED
            BY <3>1, <3>2
    <2>7. QED
        BY <1>1, <2>5, <2>6 DEF PoiTypeOK, PoiInv, Served
<1>9. PlanOK'
    BY <1>1, PlanStays DEF PoiInv
<1>10. QED
    BY <1>1, <1>6, <1>8, <1>9 DEF PoiInv, PendingOK, Pass2OK, PackOK, NoNodes

LEMMA BeginNodesInv ==
  ASSUME PoiInv, BeginNodes
  PROVE  PoiInv'
<1>1. /\ phase = "ways" /\ pending = {} /\ phase' = "nodes" /\ pending' = scene.nodeBlobs
      /\ scene' = scene /\ pass1' = pass1 /\ pass2' = pass2 /\ pack' = pack /\ plan' = plan
    BY DEF BeginNodes
<1>2. UNION scene.wayBlobs = AllWays /\ scene.wayBlobs \ {} = scene.wayBlobs
    BY SceneIs DEF PoiInv
<1>3. WaysRead = AllWays /\ WaysRead' = AllWays' /\ AllWays' = AllWays
    BY <1>1, <1>2, SceneStays DEF WaysRead
<1>4. Pass1OK'
    BY <1>1, <1>3, SceneStays DEF Pass1OK, PoiInv
<1>5. scene.nodeBlobs \ scene.nodeBlobs = {} /\ UNION {} = {}
    OBVIOUS
<1>6. NodesRead' = {}
    BY <1>1, <1>5 DEF NodesRead
<1>7. \A box : BuildingNodes({}, box)' = {}
    BY DEF BuildingNodes
<1>8. Records({})' = {} /\ CoordsOf({})' = << >>
    BY DEF Records, CoordsOf
<1>9. Pass2OK'
    <2>1. pass2' = [records |-> {}, overnight |-> {}, coords |-> << >>]
        BY <1>1 DEF PoiInv, Pass2OK, NoNodes
    <2>2. NodesRead' \cap pass1'.needed = {}
        BY <1>6
    <2>3. QED
        BY <1>1, <1>6, <1>7, <1>8, <2>1, <2>2 DEF Pass2OK
<1>10. PlanOK'
    BY <1>1, PlanStays DEF PoiInv
<1>11. PoiTypeOK'
    BY <1>1, <1>3 DEF PoiTypeOK, PoiInv, Served
<1>12. QED
    BY <1>1, <1>4, <1>9, <1>10, <1>11 DEF PoiInv, PendingOK, PackOK

LEMMA AbortInv ==
  ASSUME PoiInv, Abort
  PROVE  PoiInv'
<1>1. /\ phase \in {"ways", "nodes"} /\ phase' = "aborted" /\ pending' = {}
      /\ scene' = scene /\ pass1' = pass1 /\ pass2' = pass2 /\ pack' = pack /\ plan' = plan
    BY DEF Abort
<1>2. PlanOK'
    BY <1>1, PlanStays DEF PoiInv
<1>3. AllWays' = AllWays
    BY <1>1, SceneStays
<1>4. PoiTypeOK'
    BY <1>1, <1>3 DEF PoiTypeOK, PoiInv, Served
<1>5. QED
    BY <1>1, <1>2, <1>4 DEF PoiInv, PendingOK, Pass1OK, Pass2OK, PackOK

LEMMA ScanNodesInv ==
  ASSUME PoiInv, NEW b, ScanNodes(b)
  PROVE  PoiInv'
<1> DEFINE v == UNION (scene.nodeBlobs \ pending)
<1>1. /\ phase = "nodes" /\ b \in pending /\ pending \subseteq scene.nodeBlobs
      /\ pending' = pending \ {b} /\ scene' = scene /\ phase' = phase
      /\ pass1' = pass1 /\ pack' = pack /\ plan' = plan
      /\ pass2' = [records |-> pass2.records \cup Records(b),
                   overnight |-> pass2.overnight \cup BuildingNodes(b, scene.region),
                   coords |-> [n \in (b \cap pass1.needed) \cup DOMAIN pass2.coords |->
                                 IF n \in b THEN At(n) ELSE pass2.coords[n]]]
    BY DEF ScanNodes, PoiInv, PendingOK
<1>2. pass2 = [records |-> Records(v), overnight |-> BuildingNodes(v, scene.region),
               coords |-> CoordsOf(v \cap pass1.needed)]
    BY <1>1 DEF PoiInv, Pass2OK, NodesRead
<1>3. NodesRead' = v \cup b
    BY <1>1, OneMoreBlob DEF NodesRead
<1>4. v \subseteq AllNodes /\ b \subseteq AllNodes
    BY <1>1, SceneIs DEF PoiInv
<1> HIDE DEF v
<1>5. [n \in (b \cap pass1.needed) \cup DOMAIN pass2.coords |-> IF n \in b THEN At(n) ELSE pass2.coords[n]]
        = CoordsOf((v \cup b) \cap pass1.needed)
    BY <1>2 DEF CoordsOf
<1>6. pass2' = [records |-> Records(v \cup b), overnight |-> BuildingNodes(v \cup b, scene.region),
                coords |-> CoordsOf((v \cup b) \cap pass1.needed)]
    <2>1. Records(v \cup b) = Records(v) \cup Records(b)
        BY MoreNodes
    <2>2. \A box : BuildingNodes(v \cup b, box) = BuildingNodes(v, box) \cup BuildingNodes(b, box)
        BY MoreNodes
    <2>3. /\ pass2.records = Records(v) /\ pass2.overnight = BuildingNodes(v, scene.region)
        BY <1>2
    <2>4. QED
        BY <1>1, <1>5, <2>1, <2>2, <2>3
<1>7. /\ \A ns : Records(ns)' = Records(ns) /\ CoordsOf(ns)' = CoordsOf(ns)
      /\ \A ns, box : BuildingNodes(ns, box)' = BuildingNodes(ns, box)
      /\ AllWays' = AllWays /\ AllNodes' = AllNodes
    BY <1>1, SceneStays
<1>8. Pass2OK'
    BY <1>1, <1>3, <1>6, <1>7 DEF Pass2OK
<1>9. Pass1OK'
    BY <1>1, <1>7, SceneStays DEF Pass1OK, PoiInv, WaysRead
<1>10. PoiTypeOK'
    <2>1. DOMAIN pass2'.coords \subseteq pass1.needed \cap AllNodes
        BY <1>4, <1>6 DEF CoordsOf
    <2>2. QED
        BY <1>1, <1>7, <2>1 DEF PoiTypeOK, PoiInv, Served, AllNodes
<1>11. PlanOK'
    BY <1>1, PlanStays DEF PoiInv
<1>12. QED
    BY <1>1, <1>8, <1>9, <1>10, <1>11 DEF PoiInv, PendingOK, PackOK

-----------------------------------------------------------------------------
(* Lines and records of the whole extract                                  *)

\* The coordinates of the nodes a way asks for give its line.
LEMMA KnownLine ==
  ASSUME NEW refs, NEW N, Range(refs) \subseteq N, NEW M, M = AllNodes \cap N
  PROVE  Resolved(refs, CoordsOf(M)) = Resolved(refs, AllAts)
<1>1. /\ DOMAIN CoordsOf(M) = M /\ DOMAIN AllAts = AllNodes
      /\ \A n \in M : CoordsOf(M)[n] = AllAts[n]
    BY DEF CoordsOf, AllAts, AllNodes
<1>2. \A i \in DOMAIN refs : refs[i] \in N
    BY DEF Range
<1> DEFINE c == CoordsOf(M)
<1>3. \A i \in DOMAIN refs : /\ refs[i] \in DOMAIN c <=> refs[i] \in DOMAIN AllAts
                             /\ refs[i] \in DOMAIN c => c[refs[i]] = AllAts[refs[i]]
    BY <1>1, <1>2
<1> HIDE DEF c
<1>4. Resolved(refs, c) = Resolved(refs, AllAts)
    BY <1>3, ResolvedAgree
<1>5. QED
    BY <1>4 DEF c

\* The line of every way is one of positions, no longer than the way.
LEMMA LineIs ==
  ASSUME scene \in Scenes, NEW w \in AllWays
  PROVE  Line(w) \in Seq(Position) /\ Len(Line(w)) <= Len(scene.ways[w].refs)
<1> DEFINE refs == scene.ways[w].refs
<1>1. refs \in Seq(Range(refs))
    BY SceneIs
<1>2. \A n \in DOMAIN AllAts : AllAts[n] \in Position
    BY SceneIs DEF AllAts, AllNodes
<1> HIDE DEF refs
<1>3. Resolved(refs, AllAts) \in Seq(Position) /\ Len(Resolved(refs, AllAts)) <= Len(refs)
    BY <1>1, <1>2, ResolvedIs
<1>4. QED
    BY <1>3 DEF Line, refs

\* Barriers of the extract and their lines, seen by the convert or by a scan.
LEMMA BarrierLines ==
  ASSUME scene \in Scenes, NEW scan \in BOOLEAN, NEW coords,
         \A w \in BarrierWays(AllWays, scan) : Resolved(w.refs, coords) = Resolved(w.refs, AllAts)
  PROVE  LET kind(w) == IF scan THEN ScanKind(scene.ways[w].tags) ELSE BarrierKind(scene.ways[w].tags)
         IN  /\ Polylines(BarrierWays(AllWays, scan), coords)
                  = {[kind |-> kind(w), line |-> Line(w)] :
                       w \in {v \in AllWays : kind(v) # "none" /\ Len(scene.ways[v].refs) >= 2}}
             /\ Polylines(BarrierWays(AllWays, scan), coords)
                  = Polylines(BarrierWays(AllWays, scan), AllAts)
<1> DEFINE kind(w) == IF scan THEN ScanKind(scene.ways[w].tags) ELSE BarrierKind(scene.ways[w].tags)
           W == {v \in AllWays : kind(v) # "none" /\ Len(scene.ways[v].refs) >= 2}
           B == BarrierWays(AllWays, scan)
           item(w) == [refs |-> scene.ways[w].refs, kind |-> kind(w)]
<1>1. B = {item(w) : w \in W}
    BY DEF BarrierWays
<1>2. Polylines(B, coords) = Polylines(B, AllAts)
    BY DEF Polylines
<1> HIDE DEF kind, B, W
<1>3. Polylines(B, AllAts) = {[kind |-> kind(w), line |-> Line(w)] : w \in W}
    <2>1. \A w : item(w).kind = kind(w) /\ Resolved(item(w).refs, AllAts) = Line(w)
        BY DEF Line
    <2> HIDE DEF item
    <2>2. Polylines(B, AllAts) = {[kind |-> item(w).kind, line |-> Resolved(item(w).refs, AllAts)] : w \in W}
        BY <1>1 DEF Polylines
    <2>3. QED
        BY <2>1, <2>2
<1>4. QED
    BY <1>2, <1>3 DEF kind, B, W

\* There are finitely many, and they lie on the grid.
LEMMA FoundIs ==
  ASSUME scene \in Scenes
  PROVE  /\ FoundGeometry.segs \subseteq Position \X Position /\ IsFiniteSet(FoundGeometry.segs)
         /\ FoundGeometry.glaciers \subseteq Seq(Position) /\ IsFiniteSet(FoundGeometry.glaciers)
<1> DEFINE kind(w) == BarrierKind(scene.ways[w].tags)
           W == {v \in AllWays : kind(v) # "none" /\ Len(scene.ways[v].refs) >= 2}
           L == Polylines(BarrierWays(AllWays, FALSE), AllAts)
           f == [w \in W |-> [kind |-> kind(w), line |-> Line(w)]]
<1>1. L = {f[w] : w \in DOMAIN f}
    BY BarrierLines
<1>2. IsFiniteSet(DOMAIN f)
    BY SceneIs, FS_Subset
<1>3. \A w \in DOMAIN f : f[w].line \in Seq(Position)
    BY LineIs
<1> HIDE DEF f, L
<1>4. IsFiniteSet(L)
    BY <1>1, <1>2, FiniteRange
<1>5. \A l \in L : l.line \in Seq(Position)
    BY <1>1, <1>3
<1>6. QED
    BY <1>4, <1>5, GeometryIs DEF FoundGeometry, L

LEMMA BuildingsAreFinite ==
  ASSUME scene \in Scenes
  PROVE  IsFiniteSet(FoundBuildings)
<1> DEFINE N == {m \in AllNodes : Building(NodeTags(m)) /\ InBox(At(m), scene.region)}
           f == [n \in N |-> At(n)]
           V == {v \in AllWays : Building(scene.ways[v].tags) /\ Len(scene.ways[v].refs) >= 2}
           g == [w \in V |-> Centroid(scene.ways[w].refs, AllAts, scene.region)]
<1>1. IsFiniteSet(DOMAIN f) /\ BuildingNodes(AllNodes, scene.region) = {f[n] : n \in DOMAIN f}
    BY SceneIs, FS_Subset DEF BuildingNodes
<1>2. IsFiniteSet(DOMAIN g)
    BY SceneIs, FS_Subset
<1>3. {Centroid(r, AllAts, scene.region) : r \in BuildingWays(AllWays)} = {g[w] : w \in DOMAIN g}
    BY DEF BuildingWays
<1>4. \A w \in DOMAIN g : IsFiniteSet(g[w])
    <2> SUFFICES ASSUME NEW refs
                 PROVE  IsFiniteSet(Centroid(refs, AllAts, scene.region))
        OBVIOUS
    <2>1. \/ Centroid(refs, AllAts, scene.region) = {}
          \/ \E x : Centroid(refs, AllAts, scene.region) = {x}
        BY DEF Centroid
    <2>2. QED
        BY <2>1, FS_EmptySet, FS_Singleton
<1> HIDE DEF f, g
<1>5. IsFiniteSet(BuildingNodes(AllNodes, scene.region))
    BY <1>1, FiniteRange
<1>6. IsFiniteSet(UNION {g[w] : w \in DOMAIN g})
    BY <1>2, <1>4, FiniteUnion
<1> DEFINE A == BuildingNodes(AllNodes, scene.region)
           B == UNION {g[w] : w \in DOMAIN g}
<1>7. FoundBuildings = A \cup B
    BY <1>3 DEF FoundBuildings
<1> HIDE DEF A, B
<1>8. IsFiniteSet(A) /\ IsFiniteSet(B)
    BY <1>5, <1>6 DEF A, B
<1>9. QED
    BY <1>7, <1>8, FS_Union

\* The records are finitely many, and as the archive can hold them.
LEMMA RecordsAre ==
  ASSUME scene \in Scenes
  PROVE  IsFiniteSet(Records(AllNodes)) /\ \A r \in Records(AllNodes) : Kept(r)
<1> DEFINE N == {m \in AllNodes : Categories(NodeTags(m)) # {}}
           rec(n) == [id |-> n, at |-> At(n), categories |-> Categories(NodeTags(n)), tags |-> NodeTags(n)]
           f == [n \in N |-> rec(n)]
<1>1. IsFiniteSet(DOMAIN f) /\ Records(AllNodes) = {f[n] : n \in DOMAIN f}
    BY SceneIs, FS_Subset DEF Records
<1>2. \A n \in DOMAIN f : Kept(f[n])
    <2> SUFFICES ASSUME NEW n \in AllNodes
                 PROVE  Kept(rec(n))
        OBVIOUS
    <2>1. Categories(NodeTags(n)) \subseteq Range(AllCategories)
        BY DEF Categories
    <2>2. QED
        BY <2>1, SceneIs DEF Kept
<1> HIDE DEF f
<1>3. QED
    BY <1>1, <1>2, FiniteRange

-----------------------------------------------------------------------------
(* The archive and the plans                                               *)

LEMMA WritePackInv ==
  ASSUME PoiInv, WritePack
  PROVE  PoiInv'
<1> DEFINE c == pass2.coords
           g == Geometry(Polylines(pass1.barriers, pass2.coords))
           centroids == UNION {Centroid(r, pass2.coords, scene.region) : r \in pass1.buildings}
<1>1. /\ phase = "nodes" /\ pending = {} /\ phase' = "packed" /\ pending' = pending
      /\ scene' = scene /\ pass1' = pass1 /\ pass2' = pass2 /\ plan' = plan
      /\ pack' = FlatPack(pass2.records, g.segs \cup scene.highways, g.glaciers,
                          pass2.overnight \cup centroids)
    BY DEF WritePack
<1>2. scene \in Scenes /\ UNION scene.nodeBlobs = AllNodes /\ scene.nodeBlobs \ {} = scene.nodeBlobs
    BY SceneIs DEF PoiInv
<1>3. NodesRead = AllNodes /\ NodesRead' = AllNodes' /\ WaysRead = AllWays /\ WaysRead' = AllWays'
    BY <1>1, <1>2 DEF NodesRead, WaysRead
<1>4. /\ pass1.buildings = BuildingWays(AllWays) /\ pass1.barriers = BarrierWays(AllWays, FALSE)
      /\ pass1.needed = NeededOf(AllWays)
    <2>1. phase # "aborted" /\ WaysRead = AllWays
        BY <1>1, <1>3
    <2>2. pass1 = [buildings |-> BuildingWays(WaysRead), barriers |-> BarrierWays(WaysRead, FALSE),
                   needed |-> NeededOf(WaysRead)]
        BY <2>1 DEF PoiInv, Pass1OK
    <2>3. pass1 = [buildings |-> BuildingWays(AllWays), barriers |-> BarrierWays(AllWays, FALSE),
                   needed |-> NeededOf(AllWays)]
        BY <2>1, <2>2, Zenon
    <2>4. QED
        BY <2>3
<1>5. /\ pass2.records = Records(AllNodes) /\ pass2.overnight = BuildingNodes(AllNodes, scene.region)
      /\ pass2.coords = CoordsOf(AllNodes \cap NeededOf(AllWays))
    BY <1>1, <1>3, <1>4 DEF PoiInv, Pass2OK
<1>6. \A w \in BarrierWays(AllWays, FALSE) : Resolved(w.refs, c) = Resolved(w.refs, AllAts)
    <2> SUFFICES ASSUME NEW w \in BarrierWays(AllWays, FALSE)
                 PROVE  Resolved(w.refs, c) = Resolved(w.refs, AllAts)
        OBVIOUS
    <2>1. Range(w.refs) \subseteq NeededOf(AllWays)
        BY DEF NeededOf
    <2>2. QED
        BY <1>5, <2>1, KnownLine
<1>7. \A r \in BuildingWays(AllWays) : Resolved(r, c) = Resolved(r, AllAts)
    <2> SUFFICES ASSUME NEW r \in BuildingWays(AllWays)
                 PROVE  Resolved(r, c) = Resolved(r, AllAts)
        OBVIOUS
    <2>1. Range(r) \subseteq NeededOf(AllWays)
        BY DEF NeededOf
    <2>2. QED
        BY <1>5, <2>1, KnownLine
<1>8. g = FoundGeometry
    <2>1. Polylines(BarrierWays(AllWays, FALSE), c) = Polylines(BarrierWays(AllWays, FALSE), AllAts)
        BY <1>2, <1>6, BarrierLines
    <2>2. QED
        BY <1>4, <2>1 DEF FoundGeometry
<1>9. pass2.overnight \cup centroids = FoundBuildings
    <2>1. \A r \in BuildingWays(AllWays) : Centroid(r, c, scene.region) = Centroid(r, AllAts, scene.region)
        BY <1>7 DEF Centroid
    <2>2. QED
        BY <1>4, <1>5, <2>1 DEF FoundBuildings
<1> HIDE DEF g, centroids
<1>10. pack' = FlatPack(Records(AllNodes), FoundGeometry.segs \cup scene.highways,
                        FoundGeometry.glaciers, FoundBuildings)
    BY <1>1, <1>5, <1>8, <1>9
<1>11. /\ AllNodes' = AllNodes /\ AllWays' = AllWays /\ FoundGeometry' = FoundGeometry
       /\ FoundBuildings' = FoundBuildings /\ \A ns : Records(ns)' = Records(ns)
    BY <1>1, SceneStays, PlansStay
<1>12. PackOK'
    BY <1>1, <1>10, <1>11 DEF PackOK
<1>13. Pass1OK'
    BY <1>1, <1>3, <1>11, SceneStays DEF Pass1OK, PoiInv
<1>14. Pass2OK'
    BY <1>1, <1>3, <1>11, SceneStays DEF Pass2OK, PoiInv
<1>15. PlanOK'
    BY <1>1, PlanStays DEF PoiInv
<1>16. PoiTypeOK'
    BY <1>1, <1>11 DEF PoiTypeOK, PoiInv, Served
<1>17. QED
    BY <1>1, <1>12, <1>13, <1>14, <1>15, <1>16 DEF PoiInv, PendingOK

\* Rings and buildings come back from the archive too.
LEMMA PackIs ==
  ASSUME scene \in Scenes,
         NEW p, p = FlatPack(Records(AllNodes), FoundGeometry.segs \cup scene.highways,
                             FoundGeometry.glaciers, FoundBuildings)
  PROVE  /\ RecordsOf(p) = Records(AllNodes)
         /\ Range(p.segs) = FoundGeometry.segs \cup scene.highways
         /\ Range(p.buildings) = FoundBuildings
         /\ Range(Unflat(p.glaciers)) = FoundGeometry.glaciers
<1> DEFINE segs == FoundGeometry.segs \cup scene.highways
           rings == FoundGeometry.glaciers
<1>1. RecordsOf(p) = Records(AllNodes)
    BY RecordsAre, RecordsComeBack
<1>2. /\ p.segs = SetToSeq(segs) /\ p.buildings = SetToSeq(FoundBuildings)
      /\ p.glaciers = Flat(SetToSeq(rings))
    BY DEF FlatPack
<1>3. IsFiniteSet(segs)
    BY FoundIs, SceneIs, FS_Union
<1>4. IsFiniteSet(rings) /\ rings \subseteq Seq(Position)
    BY FoundIs
<1> HIDE DEF segs, rings
<1>5. Range(SetToSeq(segs)) = segs
    BY <1>3, ListOfSet
<1>6. Range(SetToSeq(FoundBuildings)) = FoundBuildings
    BY BuildingsAreFinite, ListOfSet
<1>7. SetToSeq(rings) \in Seq(rings) /\ Range(SetToSeq(rings)) = rings
    BY <1>4, ListOfSet
<1>8. SetToSeq(rings) \in Seq(Seq(Position))
    BY <1>4, <1>7
<1>9. Unflat(Flat(SetToSeq(rings))) = SetToSeq(rings)
    BY <1>8, UnflatIs
<1>10. QED
    BY <1>1, <1>2, <1>5, <1>6, <1>7, <1>9 DEF segs, rings

LEMMA PlanFromPackInv ==
  ASSUME PoiInv, PlanFromPack
  PROVE  PoiInv'
<1>1. /\ phase = "packed" /\ scene' = scene /\ phase' = phase /\ pending' = pending
      /\ pass1' = pass1 /\ pass2' = pass2 /\ pack' = pack
      /\ plan' = [source |-> "pack", records |-> RecordsOf(pack), buildings |-> Range(pack.buildings),
                  segs |-> Range(pack.segs), glaciers |-> Range(Unflat(pack.glaciers))]
    BY DEF PlanFromPack, RecordsOf
<1>2. scene \in Scenes /\ pack = FlatPack(Records(AllNodes), FoundGeometry.segs \cup scene.highways,
                                          FoundGeometry.glaciers, FoundBuildings)
    BY <1>1 DEF PoiInv, PackOK
<1>3. /\ RecordsOf(pack) = Records(AllNodes)
      /\ Range(pack.segs) = FoundGeometry.segs \cup scene.highways
      /\ Range(pack.buildings) = FoundBuildings
      /\ Range(Unflat(pack.glaciers)) = FoundGeometry.glaciers
    BY <1>2, PackIs
<1>4. plan' = PackPlan
    BY <1>1, <1>3 DEF PackPlan
<1>5. PlanOK'
    BY <1>1, <1>4, PlansStay DEF PlanOK
<1>6. /\ AllNodes' = AllNodes /\ AllWays' = AllWays /\ FoundGeometry' = FoundGeometry
      /\ FoundBuildings' = FoundBuildings /\ \A ns : Records(ns)' = Records(ns)
    BY <1>1, SceneStays, PlansStay
<1>7. PoiTypeOK'
    BY <1>1, <1>6 DEF PoiTypeOK, PoiInv, Served
<1>8. Pass1OK' /\ Pass2OK' /\ PackOK'
    <2>1. WaysRead' = WaysRead /\ NodesRead' = NodesRead
        BY <1>1, <1>6 DEF WaysRead, NodesRead
    <2>2. Pass1OK'
        BY <1>1, <2>1, SceneStays DEF Pass1OK, PoiInv
    <2>3. Pass2OK'
        BY <1>1, <2>1, SceneStays DEF Pass2OK, PoiInv
    <2>4. PackOK'
        BY <1>1, <1>6 DEF PackOK, PoiInv
    <2>5. QED
        BY <2>2, <2>3, <2>4
<1>9. QED
    BY <1>1, <1>5, <1>7, <1>8 DEF PoiInv, PendingOK

LEMMA PlanFromScanInv ==
  ASSUME PoiInv, PlanFromScan
  PROVE  PoiInv'
<1>1. /\ scene' = scene /\ phase' = phase /\ pending' = pending
      /\ pass1' = pass1 /\ pass2' = pass2 /\ pack' = pack /\ plan' = ScanPlan
    BY DEF PlanFromScan, ScanPlan, AllNodes
<1>2. plan'.source = "scan"
    BY <1>1 DEF ScanPlan
<1>3. PlanOK'
    BY <1>1, PlansStay DEF PlanOK
<1>4. /\ AllNodes' = AllNodes /\ AllWays' = AllWays /\ FoundGeometry' = FoundGeometry
      /\ FoundBuildings' = FoundBuildings /\ \A ns : Records(ns)' = Records(ns)
    BY <1>1, SceneStays, PlansStay
<1>5. PoiTypeOK'
    BY <1>1, <1>2, <1>4 DEF PoiTypeOK, PoiInv, Served
<1>6. Pass1OK' /\ Pass2OK' /\ PackOK'
    <2>1. WaysRead' = WaysRead /\ NodesRead' = NodesRead
        BY <1>1, <1>4 DEF WaysRead, NodesRead
    <2>2. Pass1OK'
        BY <1>1, <2>1, SceneStays DEF Pass1OK, PoiInv
    <2>3. Pass2OK'
        BY <1>1, <2>1, SceneStays DEF Pass2OK, PoiInv
    <2>4. PackOK'
        BY <1>1, <1>4 DEF PackOK, PoiInv
    <2>5. QED
        BY <2>2, <2>3, <2>4
<1>7. QED
    BY <1>1, <1>3, <1>5, <1>6 DEF PoiInv, PendingOK

LEMMA StutterInv ==
  ASSUME PoiInv, UNCHANGED poiVars
  PROVE  PoiInv'
<1>1. /\ scene' = scene /\ phase' = phase /\ pending' = pending
      /\ pass1' = pass1 /\ pass2' = pass2 /\ pack' = pack /\ plan' = plan
    BY DEF poiVars
<1>2. /\ AllNodes' = AllNodes /\ AllWays' = AllWays /\ FoundGeometry' = FoundGeometry
      /\ FoundBuildings' = FoundBuildings /\ \A ns : Records(ns)' = Records(ns)
    BY <1>1, SceneStays, PlansStay
<1>3. WaysRead' = WaysRead /\ NodesRead' = NodesRead
    BY <1>1, <1>2 DEF WaysRead, NodesRead
<1>4. Pass1OK'
    BY <1>1, <1>3, SceneStays DEF Pass1OK, PoiInv
<1>5. Pass2OK'
    BY <1>1, <1>3, SceneStays DEF Pass2OK, PoiInv
<1>6. PackOK'
    BY <1>1, <1>2 DEF PackOK, PoiInv
<1>7. PlanOK'
    BY <1>1, PlanStays DEF PoiInv
<1>8. PoiTypeOK'
    BY <1>1, <1>2 DEF PoiTypeOK, PoiInv, Served
<1>9. QED
    BY <1>1, <1>4, <1>5, <1>6, <1>7, <1>8 DEF PoiInv, PendingOK

\* What the passes have of the extract is what its blocks hold, in whatever
\* order they are merged; the archive has all of it; and a plan is made of the
\* archive or of a scan, whole.
THEOREM PoiInvariant == Spec => []PoiInv
<1>1. Init => PoiInv
    BY InitInv
<1>2. PoiInv /\ [Next]_poiVars => PoiInv'
    <2> SUFFICES ASSUME PoiInv, [Next]_poiVars
                 PROVE  PoiInv'
        OBVIOUS
    <2>1. ASSUME NEW b \in pending, ScanWays(b)
          PROVE  PoiInv'
        BY <2>1, ScanWaysInv
    <2>2. ASSUME NEW b \in pending, ScanNodes(b)
          PROVE  PoiInv'
        BY <2>2, ScanNodesInv
    <2>3. CASE BeginNodes
        BY <2>3, BeginNodesInv
    <2>4. CASE Abort
        BY <2>4, AbortInv
    <2>5. CASE WritePack
        BY <2>5, WritePackInv
    <2>6. CASE PlanFromPack
        BY <2>6, PlanFromPackInv
    <2>7. CASE PlanFromScan
        BY <2>7, PlanFromScanInv
    <2>8. CASE UNCHANGED poiVars
        BY <2>8, StutterInv
    <2>9. QED
        BY <2>1, <2>2, <2>3, <2>4, <2>5, <2>6, <2>7, <2>8 DEF Next
<1>3. QED
    BY <1>1, <1>2, PTL DEF Spec

\* The passes only ask for nodes of the extract, and there is no archive before
\* both are done.
THEOREM PoiTypeCorrect == Spec => []PoiTypeOK
<1>1. PoiInv => PoiTypeOK
    BY DEF PoiInv
<1>2. QED
    BY <1>1, PoiInvariant, PTL

\* Whatever the order of the blocks, through the archive and back, a plan has
\* the points of interest of the extract, with the tags and categories of each.
THEOREM RecordsAlwaysSurvive == Spec => []RecordsSurvive
<1>1. PoiInv => RecordsSurvive
    <2> SUFFICES ASSUME PoiInv, plan # None
                 PROVE  plan.records = Records({n \in DOMAIN scene.nodes :
                                                  plan.source = "scan" => InBox(At(n), scene.bbox)})
        BY DEF RecordsSurvive, Served
    <2>1. CASE plan = PackPlan
        <3>1. plan.source = "pack" /\ plan.records = Records(AllNodes)
            BY <2>1 DEF PackPlan
        <3>2. {n \in DOMAIN scene.nodes : plan.source = "scan" => InBox(At(n), scene.bbox)} = AllNodes
            BY <3>1 DEF AllNodes
        <3>3. QED
            BY <3>1, <3>2
    <2>2. CASE plan = ScanPlan
        <3>1. /\ plan.source = "scan"
              /\ plan.records = Records({n \in AllNodes : InBox(At(n), scene.bbox)})
            BY <2>2 DEF ScanPlan
        <3>2. {n \in DOMAIN scene.nodes : plan.source = "scan" => InBox(At(n), scene.bbox)}
                = {n \in AllNodes : InBox(At(n), scene.bbox)}
            BY <3>1 DEF AllNodes
        <3>3. QED
            BY <3>1, <3>2
    <2>3. QED
        BY <2>1, <2>2 DEF PoiInv, PlanOK
<1>2. QED
    BY <1>1, PoiInvariant, PTL

-----------------------------------------------------------------------------
(* Segments: u and v are the ways along two of them, w the way from the    *)
(* start of the first to the start of the second.                          *)

\* x lies between 0 and y.
Amid(x, y) == (0 <= x /\ x <= y) \/ (y <= x /\ x <= 0)

\* From 0 to x lies to one side of from y to y + z.
Beside(x, y, z) ==
  \/ 0 < y /\ 0 < y + z /\ x < y /\ x < y + z
  \/ 0 > y /\ 0 > y + z /\ x > y /\ x > y + z

Plus(u, v) == <<u[1] + v[1], u[2] + v[2]>>
Minus(u, v) == <<u[1] - v[1], u[2] - v[2]>>
Nought == <<0, 0>>

\* A part of a way lies between its ends.
LEMMA PartIsAmid ==
  \A t, s, x, y \in Int : t # 0 /\ Amid(s, t) /\ t * x = s * y => Amid(x, y)
<1>1. \A t, s, x, y \in Int : t > 0 /\ 0 <= s /\ s <= t /\ t * x = s * y /\ 0 <= y => 0 <= x /\ x <= y
    <2> SUFFICES ASSUME NEW t \in Int, NEW s \in Int, NEW x \in Int, NEW y \in Int,
                        t > 0, 0 <= s, s <= t, t * x = s * y, 0 <= y
                 PROVE  0 <= x /\ x <= y
        OBVIOUS
    <2>1. 0 <= s * y
        OBVIOUS
    <2>2. (t - s) * y >= 0
        OBVIOUS
    <2>3. (t - s) * y = t * y - s * y
        OBVIOUS
    <2>4. t * (y - x) = t * y - t * x
        OBVIOUS
    <2>5. x < 0 => t * x < 0
        OBVIOUS
    <2>6. y - x < 0 => t * (y - x) < 0
        OBVIOUS
    <2>7. QED
        BY <2>1, <2>2, <2>3, <2>4, <2>5, <2>6
<1>2. \A t, s, x, y \in Int : t > 0 /\ 0 <= s /\ s <= t /\ t * x = s * y => Amid(x, y)
    <2> SUFFICES ASSUME NEW t \in Int, NEW s \in Int, NEW x \in Int, NEW y \in Int,
                        t > 0, 0 <= s, s <= t, t * x = s * y
                 PROVE  Amid(x, y)
        OBVIOUS
    <2>1. CASE 0 <= y
        BY <1>1, <2>1 DEF Amid
    <2>2. CASE y < 0
        <3>1. t * (- x) = - (t * x) /\ s * (- y) = - (s * y)
            OBVIOUS
        <3>2. t * (- x) = s * (- y) /\ 0 <= - y /\ - x \in Int /\ - y \in Int
            BY <2>2, <3>1
        <3>3. 0 <= - x /\ - x <= - y
            BY <1>1, <3>2
        <3>4. QED
            BY <3>3 DEF Amid
    <2>3. QED
        BY <2>1, <2>2
<1>3. \A t, s, x, y \in Int : t < 0 /\ t <= s /\ s <= 0 /\ t * x = s * y => Amid(x, y)
    <2> SUFFICES ASSUME NEW t \in Int, NEW s \in Int, NEW x \in Int, NEW y \in Int,
                        t < 0, t <= s, s <= 0, t * x = s * y
                 PROVE  Amid(x, y)
        OBVIOUS
    <2>1. (- t) * x = - (t * x) /\ (- s) * y = - (s * y)
        OBVIOUS
    <2>2. - t > 0 /\ 0 <= - s /\ - s <= - t /\ (- t) * x = (- s) * y /\ - t \in Int /\ - s \in Int
        BY <2>1
    <2>3. QED
        BY <1>2, <2>2
<1>4. QED
    BY <1>2, <1>3 DEF Amid

\* Ways that have a point in common lie beside one another along no axis.
LEMMA CommonPoint ==
  \A t, s, r, x, y, z \in Int :
    t > 0 /\ 0 <= s /\ s <= t /\ 0 <= r /\ r <= t /\ t * y + r * z = s * x => ~ Beside(x, y, z)
<1>1. \A t, s, r, x, y, z \in Int :
        t > 0 /\ 0 <= s /\ s <= t /\ 0 <= r /\ r <= t /\ t * y + r * z = s * x
          => ~ (0 < y /\ 0 < y + z /\ x < y /\ x < y + z)
    <2> SUFFICES ASSUME NEW t \in Int, NEW s \in Int, NEW r \in Int,
                        NEW x \in Int, NEW y \in Int, NEW z \in Int,
                        t > 0, 0 <= s, s <= t, 0 <= r, r <= t, t * y + r * z = s * x,
                        0 < y, 0 < y + z, x < y, x < y + z
                 PROVE  FALSE
        OBVIOUS
    <2> DEFINE far == IF x < 0 THEN 0 ELSE x
    <2>1. far \in Int /\ 0 <= far /\ x <= far /\ far < y /\ far < y + z
        OBVIOUS
    <2> HIDE DEF far
    <2>2. s * x <= t * far
        <3>1. s * (far - x) >= 0 /\ (t - s) * far >= 0
            BY <2>1
        <3>2. s * (far - x) = s * far - s * x /\ (t - s) * far = t * far - s * far
            BY <2>1
        <3>3. QED
            BY <2>1, <3>1, <3>2
    <2>3. t * y + r * z > t * far
        <3>1. (t - r) * (y - far) >= 0 /\ r * (y + z - far) >= 0
            BY <2>1
        <3>2. (t - r) * (y - far) = t * y - t * far - r * y + r * far
            BY <2>1
        <3>3. r * (y + z - far) = r * y + r * z - r * far
            BY <2>1
        <3>4. (t - r) * (y - far) > 0 \/ r * (y + z - far) > 0
            <4>1. CASE r < t
                <5>1. t - r > 0 /\ y - far > 0 /\ t - r \in Int /\ y - far \in Int
                    BY <2>1, <4>1
                <5>2. QED
                    BY <5>1
            <4>2. CASE r = t
                <5>1. r > 0 /\ y + z - far > 0 /\ y + z - far \in Int
                    BY <2>1, <4>2
                <5>2. QED
                    BY <5>1
            <4>3. QED
                BY <4>1, <4>2
        <3>5. QED
            BY <2>1, <3>1, <3>2, <3>3, <3>4
    <2>4. s * x \in Int /\ t * far \in Int
        BY <2>1
    <2>5. QED
        BY <2>2, <2>3, <2>4
<1>2. \A t, s, r, x, y, z \in Int :
        t > 0 /\ 0 <= s /\ s <= t /\ 0 <= r /\ r <= t /\ t * y + r * z = s * x
          => ~ (0 > y /\ 0 > y + z /\ x > y /\ x > y + z)
    <2> SUFFICES ASSUME NEW t \in Int, NEW s \in Int, NEW r \in Int,
                        NEW x \in Int, NEW y \in Int, NEW z \in Int,
                        t > 0, 0 <= s, s <= t, 0 <= r, r <= t, t * y + r * z = s * x,
                        0 > y /\ 0 > y + z /\ x > y /\ x > y + z
                 PROVE  FALSE
        OBVIOUS
    <2>1. t * (- y) = - (t * y) /\ r * (- z) = - (r * z) /\ s * (- x) = - (s * x)
        OBVIOUS
    <2>2. - x \in Int /\ - y \in Int /\ - z \in Int /\ t * (- y) + r * (- z) = s * (- x)
        BY <2>1
    <2>3. ~ (0 < - y /\ 0 < (- y) + (- z) /\ - x < - y /\ - x < (- y) + (- z))
        BY <1>1, <2>2
    <2>4. QED
        BY <2>3
<1>3. QED
    <2> SUFFICES ASSUME NEW t \in Int, NEW s \in Int, NEW r \in Int,
                        NEW x \in Int, NEW y \in Int, NEW z \in Int,
                        t > 0 /\ 0 <= s /\ s <= t /\ 0 <= r /\ r <= t /\ t * y + r * z = s * x
                 PROVE  ~ Beside(x, y, z)
        OBVIOUS
    <2>1. ~ (0 < y /\ 0 < y + z /\ x < y /\ x < y + z)
        BY <1>1
    <2>2. ~ (0 > y /\ 0 > y + z /\ x > y /\ x > y + z)
        BY <1>2
    <2>3. QED
        BY <2>1, <2>2 DEF Beside

\* Two ways that are not along one line meet where the ways to the second and
\* along it say: each multiplied by what the other turns.
LEMMA Crossing ==
  ASSUME NEW u \in Position, NEW v \in Position, NEW w \in Position
  PROVE  /\ \A i \in 1..2 : Cross(u, v) * w[i] = Cross(w, v) * u[i] + Cross(u, w) * v[i]
         /\ \A z \in Position :
              Cross(u, v) * Dot(z, w) = Cross(w, v) * Dot(z, u) + Cross(u, w) * Dot(z, v)
<1>1. PICK u1 \in Int, u2 \in Int : u = <<u1, u2>>
    BY DEF Position
<1>2. PICK v1 \in Int, v2 \in Int : v = <<v1, v2>>
    BY DEF Position
<1>3. PICK w1 \in Int, w2 \in Int : w = <<w1, w2>>
    BY DEF Position
<1>4. /\ (u1 * v2 - u2 * v1) * w1 = (w1 * v2 - w2 * v1) * u1 + (u1 * w2 - u2 * w1) * v1
      /\ (u1 * v2 - u2 * v1) * w2 = (w1 * v2 - w2 * v1) * u2 + (u1 * w2 - u2 * w1) * v2
    OBVIOUS
<1>5. \A i \in 1..2 : Cross(u, v) * w[i] = Cross(w, v) * u[i] + Cross(u, w) * v[i]
    BY <1>1, <1>2, <1>3, <1>4 DEF Cross
<1>6. ASSUME NEW z \in Position
      PROVE  Cross(u, v) * Dot(z, w) = Cross(w, v) * Dot(z, u) + Cross(u, w) * Dot(z, v)
    <2>1. PICK z1 \in Int, z2 \in Int : z = <<z1, z2>>
        BY DEF Position
    <2> DEFINE k == u1 * v2 - u2 * v1
               a == w1 * v2 - w2 * v1
               c == u1 * w2 - u2 * w1
    <2>2. k \in Int /\ a \in Int /\ c \in Int
        OBVIOUS
    <2>3. k * w1 = a * u1 + c * v1 /\ k * w2 = a * u2 + c * v2
        BY <1>4
    <2>4. Cross(u, v) = k /\ Cross(w, v) = a /\ Cross(u, w) = c
        BY <1>1, <1>2, <1>3 DEF Cross
    <2> HIDE DEF k, a, c
    <2>5. k * (z1 * w1 + z2 * w2) = z1 * (k * w1) + z2 * (k * w2)
        BY <2>2
    <2>6. z1 * (a * u1 + c * v1) + z2 * (a * u2 + c * v2)
            = a * (z1 * u1 + z2 * u2) + c * (z1 * v1 + z2 * v2)
        BY <2>2
    <2>7. k * (z1 * w1 + z2 * w2) = a * (z1 * u1 + z2 * u2) + c * (z1 * v1 + z2 * v2)
        BY <2>3, <2>5, <2>6
    <2>8. Dot(z, w) = z1 * w1 + z2 * w2 /\ Dot(z, u) = z1 * u1 + z2 * u2 /\ Dot(z, v) = z1 * v1 + z2 * v2
        BY <1>1, <1>2, <1>3, <2>1 DEF Dot
    <2>9. QED
        BY <2>4, <2>7, <2>8
<1>7. QED
    BY <1>5, <1>6

\* x is a place on the way y from nought.
On(x, y) == Cross(y, x) = 0 /\ Amid(x[1], y[1]) /\ Amid(x[2], y[2])

\* The test of segments_intersect, from the start of the first.
Touch(u, v, w) ==
  \/ On(w, u) \/ On(Plus(w, v), u) \/ On(Minus(Nought, w), v) \/ On(Minus(u, w), v)
  \/ /\ (Cross(u, w) > 0) # (Cross(u, w) + Cross(u, v) > 0)
     /\ (Cross(w, v) > 0) # (Cross(w, v) - Cross(u, v) > 0)

LEMMA Numbers ==
  \A u, v \in Position :
    /\ u[1] \in Int /\ u[2] \in Int /\ u = <<u[1], u[2]>>
    /\ Cross(u, v) \in Int /\ Dot(u, v) \in Int
    /\ Plus(u, v) \in Position /\ Minus(u, v) \in Position /\ Nought \in Position
    /\ Minus(Nought, u) \in Position
  BY DEF Position, Cross, Dot, Plus, Minus, Nought

LEMMA DotSpreads ==
  \A z, x, y \in Position :
    /\ Dot(z, Plus(x, y)) = Dot(z, x) + Dot(z, y)
    /\ Dot(z, Minus(x, y)) = Dot(z, x) - Dot(z, y)
    /\ Dot(z, Minus(Nought, x)) = - Dot(z, x)
<1> SUFFICES ASSUME NEW z \in Position, NEW x \in Position, NEW y \in Position
             PROVE  /\ Dot(z, Plus(x, y)) = Dot(z, x) + Dot(z, y)
                    /\ Dot(z, Minus(x, y)) = Dot(z, x) - Dot(z, y)
                    /\ Dot(z, Minus(Nought, x)) = - Dot(z, x)
    OBVIOUS
<1>1. PICK x1 \in Int, x2 \in Int : x = <<x1, x2>>
    BY DEF Position
<1>2. PICK y1 \in Int, y2 \in Int : y = <<y1, y2>>
    BY DEF Position
<1>3. PICK z1 \in Int, z2 \in Int : z = <<z1, z2>>
    BY DEF Position
<1>4. /\ z1 * (x1 + y1) + z2 * (x2 + y2) = (z1 * x1 + z2 * x2) + (z1 * y1 + z2 * y2)
      /\ z1 * (x1 - y1) + z2 * (x2 - y2) = (z1 * x1 + z2 * x2) - (z1 * y1 + z2 * y2)
      /\ z1 * (0 - x1) + z2 * (0 - x2) = - (z1 * x1 + z2 * x2)
    OBVIOUS
<1>5. QED
    BY <1>1, <1>2, <1>3, <1>4 DEF Dot, Plus, Minus, Nought

\* A place on a way is between its ends along every axis.
LEMMA OnIsAmid ==
  \A x, y, z \in Position : On(x, y) => Amid(Dot(z, x), Dot(z, y))
<1> SUFFICES ASSUME NEW x \in Position, NEW y \in Position, NEW z \in Position, On(x, y)
             PROVE  Amid(Dot(z, x), Dot(z, y))
    OBVIOUS
<1>1. PICK x1 \in Int, x2 \in Int : x = <<x1, x2>>
    BY DEF Position
<1>2. PICK y1 \in Int, y2 \in Int : y = <<y1, y2>>
    BY DEF Position
<1>3. PICK z1 \in Int, z2 \in Int : z = <<z1, z2>>
    BY DEF Position
<1>4. y1 * x2 - y2 * x1 = 0 /\ Amid(x1, y1) /\ Amid(x2, y2)
    BY <1>1, <1>2 DEF On, Cross
<1> DEFINE dx == z1 * x1 + z2 * x2
           dy == z1 * y1 + z2 * y2
<1>5. Dot(z, x) = dx /\ Dot(z, y) = dy /\ dx \in Int /\ dy \in Int
    BY <1>1, <1>2, <1>3 DEF Dot
<1>6. y1 * dx = x1 * dy /\ y2 * dx = x2 * dy
    <2>1. /\ y1 * dx = z1 * (y1 * x1) + z2 * (y1 * x2) /\ x1 * dy = z1 * (y1 * x1) + z2 * (y2 * x1)
          /\ y2 * dx = z1 * (y2 * x1) + z2 * (y2 * x2) /\ x2 * dy = z1 * (y1 * x2) + z2 * (y2 * x2)
        OBVIOUS
    <2>2. y1 * x2 = y2 * x1
        BY <1>4
    <2>3. QED
        BY <2>1, <2>2
<1>7. CASE y1 # 0
    BY <1>4, <1>5, <1>6, <1>7, PartIsAmid
<1>8. CASE y2 # 0
    BY <1>4, <1>5, <1>6, <1>8, PartIsAmid
<1>9. CASE y1 = 0 /\ y2 = 0
    <2>1. x1 = 0 /\ x2 = 0
        BY <1>4, <1>9 DEF Amid
    <2>2. dx = 0 /\ dy = 0
        BY <1>9, <2>1
    <2>3. QED
        BY <1>5, <2>2 DEF Amid
<1>10. QED
    BY <1>7, <1>8, <1>9

\* Ways that touch lie beside one another along no axis.
LEMMA TouchIsNotBeside ==
  \A u, v, w, z \in Position : Touch(u, v, w) => ~ Beside(Dot(z, u), Dot(z, w), Dot(z, v))
<1> SUFFICES ASSUME NEW u \in Position, NEW v \in Position, NEW w \in Position, NEW z \in Position,
                    Touch(u, v, w)
             PROVE  ~ Beside(Dot(z, u), Dot(z, w), Dot(z, v))
    OBVIOUS
<1> DEFINE x == Dot(z, u)
           y == Dot(z, w)
           b == Dot(z, v)
<1>1. x \in Int /\ y \in Int /\ b \in Int
    BY Numbers
<1>2. CASE On(w, u)
    <2>1. Amid(y, x)
        BY <1>2, OnIsAmid
    <2>2. QED
        BY <1>1, <2>1 DEF Amid, Beside
<1>3. CASE On(Plus(w, v), u)
    <2>1. Amid(Dot(z, Plus(w, v)), x)
        BY <1>3, OnIsAmid, Numbers
    <2>2. Dot(z, Plus(w, v)) = y + b
        BY DotSpreads
    <2>3. Amid(y + b, x)
        BY <2>1, <2>2
    <2>4. QED
        BY <1>1, <2>3 DEF Amid, Beside
<1>4. CASE On(Minus(Nought, w), v)
    <2>1. Amid(Dot(z, Minus(Nought, w)), b)
        BY <1>4, OnIsAmid, Numbers
    <2>2. Dot(z, Minus(Nought, w)) = - y
        BY DotSpreads
    <2>3. Amid(- y, b)
        BY <2>1, <2>2
    <2>4. QED
        BY <1>1, <2>3 DEF Amid, Beside
<1>5. CASE On(Minus(u, w), v)
    <2>1. Amid(Dot(z, Minus(u, w)), b)
        BY <1>5, OnIsAmid, Numbers
    <2>2. Dot(z, Minus(u, w)) = x - y
        BY DotSpreads
    <2>3. Amid(x - y, b)
        BY <2>1, <2>2
    <2>4. QED
        BY <1>1, <2>3 DEF Amid, Beside
<1>6. CASE /\ (Cross(u, w) > 0) # (Cross(u, w) + Cross(u, v) > 0)
           /\ (Cross(w, v) > 0) # (Cross(w, v) - Cross(u, v) > 0)
    <2> DEFINE k == Cross(u, v)
               c == Cross(u, w)
               a == Cross(w, v)
    <2>1. k \in Int /\ c \in Int /\ a \in Int /\ k * y = a * x + c * b
        BY Numbers, Crossing
    <2>2. (c > 0) # (c + k > 0) /\ (a > 0) # (a - k > 0)
        BY <1>6
    <2> HIDE DEF k, c, a, x, y, b
    <2>3. CASE k > 0
        <3>1. 0 <= a /\ a <= k /\ 0 <= - c /\ - c <= k /\ - c \in Int
            BY <2>1, <2>2, <2>3
        <3>2. k * y + (- c) * b = a * x
            <4>1. (- c) * b = - (c * b)
                BY <1>1, <2>1
            <4>2. QED
                BY <1>1, <2>1, <4>1
        <3>3. k > 0 /\ 0 <= a /\ a <= k /\ 0 <= - c /\ - c <= k /\ k * y + (- c) * b = a * x
            BY <2>3, <3>1, <3>2
        <3>4. ~ Beside(x, y, b)
            BY <1>1, <2>1, <3>1, <3>3, CommonPoint, Zenon
        <3>5. QED
            BY <3>4 DEF x, y, b
    <2>4. CASE k < 0
        <3>1. - k > 0 /\ 0 <= - a /\ - a <= - k /\ 0 <= c /\ c <= - k /\ - k \in Int /\ - a \in Int
            BY <2>1, <2>2, <2>4
        <3>2. (- k) * y + c * b = (- a) * x
            <4>1. (- k) * y = - (k * y) /\ (- a) * x = - (a * x)
                BY <1>1, <2>1
            <4>2. QED
                BY <1>1, <2>1, <4>1
        <3>3. ~ Beside(x, y, b)
            BY <1>1, <2>1, <3>1, <3>2, CommonPoint
        <3>4. QED
            BY <3>3 DEF x, y, b
    <2>5. k # 0
        BY <2>1, <2>2
    <2>6. QED
        BY <2>1, <2>3, <2>4, <2>5
<1>7. QED
    BY <1>2, <1>3, <1>4, <1>5, <1>6 DEF Touch

\* How the cross product spreads over sums, and turns.
LEMMA CrossPlus ==
  \A x, y, z \in Position : Cross(x, Plus(y, z)) = Cross(x, y) + Cross(x, z)
<1> SUFFICES ASSUME NEW x \in Position, NEW y \in Position, NEW z \in Position
             PROVE  Cross(x, Plus(y, z)) = Cross(x, y) + Cross(x, z)
    OBVIOUS
<1>1. PICK x1 \in Int, x2 \in Int : x = <<x1, x2>>
    BY DEF Position
<1>2. PICK y1 \in Int, y2 \in Int : y = <<y1, y2>>
    BY DEF Position
<1>3. PICK z1 \in Int, z2 \in Int : z = <<z1, z2>>
    BY DEF Position
<1>4. x1 * (y2 + z2) - x2 * (y1 + z1) = (x1 * y2 - x2 * y1) + (x1 * z2 - x2 * z1)
    OBVIOUS
<1>5. QED
    BY <1>1, <1>2, <1>3, <1>4 DEF Cross, Dot, Plus, Minus, Nought

LEMMA CrossMinus ==
  \A x, y, z \in Position : Cross(x, Minus(y, z)) = Cross(x, y) - Cross(x, z)
<1> SUFFICES ASSUME NEW x \in Position, NEW y \in Position, NEW z \in Position
             PROVE  Cross(x, Minus(y, z)) = Cross(x, y) - Cross(x, z)
    OBVIOUS
<1>1. PICK x1 \in Int, x2 \in Int : x = <<x1, x2>>
    BY DEF Position
<1>2. PICK y1 \in Int, y2 \in Int : y = <<y1, y2>>
    BY DEF Position
<1>3. PICK z1 \in Int, z2 \in Int : z = <<z1, z2>>
    BY DEF Position
<1>4. x1 * (y2 - z2) - x2 * (y1 - z1) = (x1 * y2 - x2 * y1) - (x1 * z2 - x2 * z1)
    OBVIOUS
<1>5. QED
    BY <1>1, <1>2, <1>3, <1>4 DEF Cross, Dot, Plus, Minus, Nought

LEMMA CrossBack ==
  \A x, y \in Position : Cross(x, Minus(Nought, y)) = Cross(y, x)
<1> SUFFICES ASSUME NEW x \in Position, NEW y \in Position
             PROVE  Cross(x, Minus(Nought, y)) = Cross(y, x)
    OBVIOUS
<1>1. PICK x1 \in Int, x2 \in Int : x = <<x1, x2>>
    BY DEF Position
<1>2. PICK y1 \in Int, y2 \in Int : y = <<y1, y2>>
    BY DEF Position
<1>3. x1 * (0 - y2) - x2 * (0 - y1) = y1 * x2 - y2 * x1
    OBVIOUS
<1>4. QED
    BY <1>1, <1>2, <1>3 DEF Cross, Dot, Plus, Minus, Nought

LEMMA CrossTurned ==
  \A x, y \in Position : Cross(x, y) = - Cross(y, x)
<1> SUFFICES ASSUME NEW x \in Position, NEW y \in Position
             PROVE  Cross(x, y) = - Cross(y, x)
    OBVIOUS
<1>1. PICK x1 \in Int, x2 \in Int : x = <<x1, x2>>
    BY DEF Position
<1>2. PICK y1 \in Int, y2 \in Int : y = <<y1, y2>>
    BY DEF Position
<1>3. x1 * y2 - x2 * y1 = - (y1 * x2 - y2 * x1)
    OBVIOUS
<1>4. QED
    BY <1>1, <1>2, <1>3 DEF Cross, Dot, Plus, Minus, Nought

LEMMA CrossItself ==
  \A x \in Position : Cross(x, x) = 0
<1> SUFFICES ASSUME NEW x \in Position
             PROVE  Cross(x, x) = 0
    OBVIOUS
<1>1. PICK x1 \in Int, x2 \in Int : x = <<x1, x2>>
    BY DEF Position
<1>2. x1 * x2 - x2 * x1 = 0
    OBVIOUS
<1>3. QED
    BY <1>1, <1>2 DEF Cross, Dot, Plus, Minus, Nought

LEMMA DotAcross ==
  \A x, y \in Position : Dot(<<- x[2], x[1]>>, y) = Cross(x, y)
<1> SUFFICES ASSUME NEW x \in Position, NEW y \in Position
             PROVE  Dot(<<- x[2], x[1]>>, y) = Cross(x, y)
    OBVIOUS
<1>1. PICK x1 \in Int, x2 \in Int : x = <<x1, x2>>
    BY DEF Position
<1>2. PICK y1 \in Int, y2 \in Int : y = <<y1, y2>>
    BY DEF Position
<1>3. (- x2) * y1 + x1 * y2 = x1 * y2 - x2 * y1
    OBVIOUS
<1>4. QED
    BY <1>1, <1>2, <1>3 DEF Cross, Dot, Plus, Minus, Nought

\* A place along the line of a way, as far as it is along that way.
LEMMA AlongIsOn ==
  \A x, y \in Position :
    Cross(y, x) = 0 /\ y # Nought /\ Amid(Dot(y, x), Dot(y, y)) => On(x, y)
<1> SUFFICES ASSUME NEW x \in Position, NEW y \in Position,
                    Cross(y, x) = 0, y # Nought, Amid(Dot(y, x), Dot(y, y))
             PROVE  On(x, y)
    OBVIOUS
<1>1. PICK x1 \in Int, x2 \in Int : x = <<x1, x2>>
    BY DEF Position
<1>2. PICK y1 \in Int, y2 \in Int : y = <<y1, y2>>
    BY DEF Position
<1> DEFINE s == y1 * x1 + y2 * x2
           t == y1 * y1 + y2 * y2
<1>3. s \in Int /\ t \in Int /\ Dot(y, x) = s /\ Dot(y, y) = t
    BY <1>1, <1>2 DEF Dot
<1>4. y1 * x2 = y2 * x1
    BY <1>1, <1>2 DEF Cross
<1>5. t # 0
    <2>1. y1 # 0 => y1 * y1 > 0
        OBVIOUS
    <2>2. y2 # 0 => y2 * y2 > 0
        OBVIOUS
    <2>3. y1 # 0 \/ y2 # 0
        BY <1>2 DEF Nought
    <2>4. y1 * y1 >= 0 /\ y2 * y2 >= 0 /\ y1 * y1 \in Int /\ y2 * y2 \in Int
        OBVIOUS
    <2>5. QED
        BY <2>1, <2>2, <2>3, <2>4
<1>6. t * x1 = s * y1 /\ t * x2 = s * y2
    <2>1. /\ t * x1 = y1 * (y1 * x1) + y2 * (y2 * x1) /\ s * y1 = y1 * (y1 * x1) + y2 * (y1 * x2)
          /\ t * x2 = y1 * (y1 * x2) + y2 * (y2 * x2) /\ s * y2 = y1 * (y2 * x1) + y2 * (y2 * x2)
        OBVIOUS
    <2>2. QED
        BY <1>4, <2>1
<1>7. Amid(s, t)
    BY <1>3
<1> HIDE DEF s, t
<1>8. Amid(x1, y1) /\ Amid(x2, y2)
    BY <1>3, <1>5, <1>6, <1>7, PartIsAmid
<1>9. QED
    BY <1>1, <1>2, <1>8 DEF On

\* A place that is a part of a way is on it.
LEMMA PartIsOn ==
  \A t, s \in Int, x, y \in Position :
    /\ t # 0 /\ Amid(s, t) /\ Cross(y, x) = 0
    /\ t * x[1] = s * y[1] /\ t * x[2] = s * y[2]
    => On(x, y)
<1> SUFFICES ASSUME NEW t \in Int, NEW s \in Int, NEW x \in Position, NEW y \in Position,
                    t # 0 /\ Amid(s, t), Cross(y, x) = 0,
                    t * x[1] = s * y[1], t * x[2] = s * y[2]
             PROVE  On(x, y)
    OBVIOUS
<1>1. x[1] \in Int /\ x[2] \in Int /\ y[1] \in Int /\ y[2] \in Int
    BY Numbers
<1>2. Amid(x[1], y[1])
    BY <1>1, PartIsAmid
<1>3. Amid(x[2], y[2])
    BY <1>1, PartIsAmid
<1>4. QED
    BY <1>2, <1>3 DEF On

\* The axes along and across two ways, and those of the grid.
Axes(u, v) ==
  LET along == {u, v, <<1, 0>>, <<0, 1>>}
  IN  along \cup {<<- x[2], x[1]>> : x \in along}

LEMMA LengthIsPositive ==
  \A x \in Position : x # Nought => Dot(x, x) > 0
<1> SUFFICES ASSUME NEW x \in Position, x # Nought
             PROVE  Dot(x, x) > 0
    OBVIOUS
<1>1. PICK x1 \in Int, x2 \in Int : x = <<x1, x2>>
    BY DEF Position
<1>2. x1 # 0 => x1 * x1 > 0
    OBVIOUS
<1>3. x2 # 0 => x2 * x2 > 0
    OBVIOUS
<1>4. x1 * x1 >= 0 /\ x2 * x2 >= 0 /\ x1 * x1 \in Int /\ x2 * x2 \in Int
    OBVIOUS
<1>5. x1 # 0 \/ x2 # 0
    BY <1>1 DEF Nought
<1>6. x1 * x1 + x2 * x2 > 0
    BY <1>2, <1>3, <1>4, <1>5
<1>7. QED
    BY <1>1, <1>6 DEF Dot

\* Ways that no axis parts touch: where they are not along one line ...
LEMMA CrossingTouches ==
  ASSUME NEW u \in Position, NEW v \in Position, NEW w \in Position,
         Cross(u, v) # 0,
         ~ Beside(0, Cross(u, w), Cross(u, v)), ~ Beside(- Cross(u, v), - Cross(w, v), 0)
  PROVE  Touch(u, v, w)
<1> DEFINE k == Cross(u, v)
           c == Cross(u, w)
           a == Cross(w, v)
<1>1. k \in Int /\ c \in Int /\ a \in Int /\ k # 0 /\ - c \in Int
    BY Numbers
<1>2. Amid(a, k) /\ Amid(- c, k)
    <2>1. ~ Beside(0, c, k) /\ ~ Beside(- k, - a, 0)
        OBVIOUS
    <2> HIDE DEF k, c, a
    <2>2. QED
        BY <1>1, <2>1 DEF Beside, Amid
<1>3. /\ u[1] \in Int /\ u[2] \in Int /\ v[1] \in Int /\ v[2] \in Int /\ w[1] \in Int /\ w[2] \in Int
      /\ k * w[1] = a * u[1] + c * v[1] /\ k * w[2] = a * u[2] + c * v[2]
    BY Numbers, Crossing
<1>4. /\ Cross(u, Plus(w, v)) = c + k /\ Cross(v, Minus(Nought, w)) = a
      /\ Cross(v, Minus(u, w)) = - k + a
    <2>1. Cross(u, Plus(w, v)) = c + k /\ Cross(v, Minus(Nought, w)) = a
        BY CrossPlus, CrossBack
    <2>2. Cross(v, Minus(u, w)) = Cross(v, u) - Cross(v, w) /\ Cross(v, u) = - k /\ Cross(v, w) = - a
        BY CrossMinus, CrossTurned
    <2>3. QED
        BY <1>1, <2>1, <2>2
<1>5. /\ Plus(w, v) \in Position /\ Minus(Nought, w) \in Position /\ Minus(u, w) \in Position
      /\ Plus(w, v)[1] = w[1] + v[1] /\ Plus(w, v)[2] = w[2] + v[2]
      /\ Minus(Nought, w)[1] = - w[1] /\ Minus(Nought, w)[2] = - w[2]
      /\ Minus(u, w)[1] = u[1] - w[1] /\ Minus(u, w)[2] = u[2] - w[2]
    <2>1. Plus(w, v) \in Position /\ Minus(Nought, w) \in Position /\ Minus(u, w) \in Position
        BY Numbers
    <2>2. 0 - w[1] = - w[1] /\ 0 - w[2] = - w[2]
        BY <1>3
    <2>3. Minus(Nought, w) = <<0 - w[1], 0 - w[2]>>
        BY DEF Minus, Nought
    <2>4. /\ Plus(w, v)[1] = w[1] + v[1] /\ Plus(w, v)[2] = w[2] + v[2]
          /\ Minus(u, w)[1] = u[1] - w[1] /\ Minus(u, w)[2] = u[2] - w[2]
        BY DEF Plus, Minus
    <2>5. QED
        BY <2>1, <2>2, <2>3, <2>4
<1>6. CASE c = 0
    <2>1. c * v[1] = 0 /\ c * v[2] = 0
        BY <1>3, <1>6
    <2>2. k * w[1] = a * u[1] /\ k * w[2] = a * u[2]
        BY <1>1, <1>3, <2>1
    <2>3. On(w, u)
        BY <1>1, <1>2, <1>6, <2>2, PartIsOn, Zenon
    <2>4. QED
        BY <2>3 DEF Touch
<1>7. CASE c + k = 0
    <2>1. /\ (c + k) * v[1] = c * v[1] + k * v[1] /\ (c + k) * v[2] = c * v[2] + k * v[2]
          /\ (c + k) * v[1] = 0 /\ (c + k) * v[2] = 0
        BY <1>1, <1>3, <1>7
    <2>2. k * (w[1] + v[1]) = k * w[1] + k * v[1] /\ k * (w[2] + v[2]) = k * w[2] + k * v[2]
        BY <1>1, <1>3
    <2>3. k * (w[1] + v[1]) = a * u[1] /\ k * (w[2] + v[2]) = a * u[2]
        <3>1. /\ k * v[1] \in Int /\ c * v[1] \in Int /\ a * u[1] \in Int
              /\ k * v[2] \in Int /\ c * v[2] \in Int /\ a * u[2] \in Int
            BY <1>1, <1>3
        <3> HIDE DEF k, c, a
        <3>2. k * (w[1] + v[1]) = a * u[1]
            <4>1. /\ k * w[1] = a * u[1] + c * v[1] /\ c * v[1] + k * v[1] = 0
                  /\ k * (w[1] + v[1]) = k * w[1] + k * v[1]
                BY <1>3, <2>1, <2>2
            <4>2. QED
                BY <3>1, <4>1
        <3>3. k * (w[2] + v[2]) = a * u[2]
            <4>1. /\ k * w[2] = a * u[2] + c * v[2] /\ c * v[2] + k * v[2] = 0
                  /\ k * (w[2] + v[2]) = k * w[2] + k * v[2]
                BY <1>3, <2>1, <2>2
            <4>2. QED
                BY <3>1, <4>1
        <3>4. QED
            BY <3>2, <3>3
    <2>4. k * Plus(w, v)[1] = a * u[1] /\ k * Plus(w, v)[2] = a * u[2] /\ Cross(u, Plus(w, v)) = 0
        BY <1>4, <1>5, <1>7, <2>3
    <2>5. On(Plus(w, v), u)
        BY <1>1, <1>2, <1>5, <2>4, PartIsOn, Zenon
    <2>6. QED
        BY <2>5 DEF Touch
<1>8. CASE a = 0
    <2>1. a * u[1] = 0 /\ a * u[2] = 0
        BY <1>3, <1>8
    <2>2. /\ k * (- w[1]) = - (k * w[1]) /\ k * (- w[2]) = - (k * w[2])
          /\ (- c) * v[1] = - (c * v[1]) /\ (- c) * v[2] = - (c * v[2])
        BY <1>1, <1>3
    <2>3. k * (- w[1]) = (- c) * v[1] /\ k * (- w[2]) = (- c) * v[2]
        BY <1>1, <1>3, <2>1, <2>2
    <2>4. /\ k * Minus(Nought, w)[1] = (- c) * v[1] /\ k * Minus(Nought, w)[2] = (- c) * v[2]
          /\ Cross(v, Minus(Nought, w)) = 0
        BY <1>4, <1>5, <1>8, <2>3
    <2>5. On(Minus(Nought, w), v)
        BY <1>1, <1>2, <1>5, <2>4, PartIsOn, Zenon
    <2>6. QED
        BY <2>5 DEF Touch
<1>9. CASE a = k
    <2>1. /\ k * (u[1] - w[1]) = k * u[1] - k * w[1] /\ k * (u[2] - w[2]) = k * u[2] - k * w[2]
          /\ (- c) * v[1] = - (c * v[1]) /\ (- c) * v[2] = - (c * v[2])
        BY <1>1, <1>3
    <2>2. k * (u[1] - w[1]) = (- c) * v[1] /\ k * (u[2] - w[2]) = (- c) * v[2]
        BY <1>1, <1>3, <1>9, <2>1
    <2>3. - k + a = 0
        BY <1>1, <1>9
    <2>4. /\ k * Minus(u, w)[1] = (- c) * v[1] /\ k * Minus(u, w)[2] = (- c) * v[2]
          /\ Cross(v, Minus(u, w)) = 0
        BY <1>4, <1>5, <2>2, <2>3
    <2>5. On(Minus(u, w), v)
        BY <1>1, <1>2, <1>5, <2>4, PartIsOn, Zenon
    <2>6. QED
        BY <2>5 DEF Touch
<1>10. CASE c # 0 /\ c + k # 0 /\ a # 0 /\ a # k
    <2> HIDE DEF k, c, a
    <2>1. (c > 0) # (c + k > 0) /\ (a > 0) # (a - k > 0)
        BY <1>1, <1>2, <1>10 DEF Amid
    <2>2. QED
        BY <2>1 DEF Touch, k, c, a
<1>11. QED
    BY <1>6, <1>7, <1>8, <1>9, <1>10

\* ... where they are along one line ...
LEMMA OneLineTouches ==
  ASSUME NEW u \in Position, NEW v \in Position, NEW w \in Position,
         Cross(u, v) = 0, Cross(u, w) = 0, Cross(w, v) = 0, u # Nought,
         ~ Beside(Dot(u, u), Dot(u, w), Dot(u, v))
  PROVE  Touch(u, v, w)
<1> DEFINE x == Dot(u, u)
           y == Dot(u, w)
           z == Dot(u, v)
<1>1. x \in Int /\ y \in Int /\ z \in Int /\ x > 0 /\ - y \in Int
    BY Numbers, LengthIsPositive
<1>2. CASE Amid(y, x)
    <2>1. On(w, u)
        BY <1>2, AlongIsOn, Zenon
    <2>2. QED
        BY <2>1 DEF Touch
<1>3. CASE Amid(y + z, x)
    <2>1. Plus(w, v) \in Position /\ Dot(u, Plus(w, v)) = y + z
        BY Numbers, DotSpreads
    <2>2. Cross(u, Plus(w, v)) = 0
        <3>1. Cross(u, Plus(w, v)) = Cross(u, w) + Cross(u, v)
            BY CrossPlus
        <3>2. QED
            BY <3>1
    <2>3. Amid(Dot(u, Plus(w, v)), Dot(u, u))
        BY <1>3, <2>1
    <2>4. On(Plus(w, v), u)
        BY <2>1, <2>2, <2>3, AlongIsOn, Zenon
    <2>5. QED
        BY <2>4 DEF Touch
<1>4. CASE ~ Amid(y, x) /\ ~ Amid(y + z, x)
    <2>1. z # 0 /\ Amid(- y, z)
        <3>1. ~ Beside(x, y, z)
            OBVIOUS
        <3> HIDE DEF x, y, z
        <3>2. QED
            BY <1>1, <1>4, <3>1 DEF Amid, Beside
    <2>2. Minus(Nought, w) \in Position /\ Cross(v, Minus(Nought, w)) = 0
        BY Numbers, CrossBack
    <2>3. z * Minus(Nought, w)[1] = (- y) * v[1] /\ z * Minus(Nought, w)[2] = (- y) * v[2]
        <3>1. PICK u1 \in Int, u2 \in Int : u = <<u1, u2>>
            BY DEF Position
        <3>2. PICK v1 \in Int, v2 \in Int : v = <<v1, v2>>
            BY DEF Position
        <3>3. PICK w1 \in Int, w2 \in Int : w = <<w1, w2>>
            BY DEF Position
        <3>4. w1 * v2 = w2 * v1
            BY <3>2, <3>3 DEF Cross
        <3>5. /\ (u1 * v1 + u2 * v2) * (0 - w1) = - (u1 * (w1 * v1)) - u2 * (w1 * v2)
              /\ (- (u1 * w1 + u2 * w2)) * v1 = - (u1 * (w1 * v1)) - u2 * (w2 * v1)
              /\ (u1 * v1 + u2 * v2) * (0 - w2) = - (u1 * (w2 * v1)) - u2 * (w2 * v2)
              /\ (- (u1 * w1 + u2 * w2)) * v2 = - (u1 * (w1 * v2)) - u2 * (w2 * v2)
            OBVIOUS
        <3>6. /\ (u1 * v1 + u2 * v2) * (0 - w1) = (- (u1 * w1 + u2 * w2)) * v1
              /\ (u1 * v1 + u2 * v2) * (0 - w2) = (- (u1 * w1 + u2 * w2)) * v2
            BY <3>4, <3>5
        <3>7. z = u1 * v1 + u2 * v2 /\ y = u1 * w1 + u2 * w2
            BY <3>1, <3>2, <3>3 DEF Dot
        <3>8. Minus(Nought, w) = <<0 - w1, 0 - w2>>
            BY <3>3 DEF Minus, Nought
        <3>9. QED
            BY <3>2, <3>6, <3>7, <3>8
    <2>4. On(Minus(Nought, w), v)
        BY <1>1, <2>1, <2>2, <2>3, PartIsOn, Zenon
    <2>5. QED
        BY <2>4 DEF Touch
<1>5. QED
    BY <1>2, <1>3, <1>4

\* ... and where the first is a single place.
LEMMA PlaceTouches ==
  ASSUME NEW v \in Position, NEW w \in Position,
         Cross(w, v) = 0,
         v = Nought => ~ Beside(0, w[1], 0) /\ ~ Beside(0, w[2], 0),
         ~ Beside(0, Dot(v, w), Dot(v, v))
  PROVE  Touch(Nought, v, w)
<1>1. CASE v = Nought
    <2>1. w[1] \in Int /\ w[2] \in Int
        BY Numbers
    <2>2. w[1] = 0 /\ w[2] = 0
        BY <1>1, <2>1 DEF Beside
    <2>3. Cross(Nought, w) = 0
        BY <2>2 DEF Cross, Nought
    <2>4. On(w, Nought)
        BY <2>2, <2>3 DEF On, Amid, Nought
    <2>5. QED
        BY <2>4 DEF Touch
<1>2. CASE v # Nought
    <2> DEFINE y == Dot(v, w)
               z == Dot(v, v)
    <2>1. y \in Int /\ z \in Int /\ z > 0
        BY <1>2, Numbers, LengthIsPositive
    <2>2. Amid(- y, z)
        <3>1. ~ Beside(0, y, z)
            OBVIOUS
        <3> HIDE DEF y, z
        <3>2. QED
            BY <2>1, <3>1 DEF Amid, Beside
    <2>3. /\ Minus(Nought, w) \in Position /\ Cross(v, Minus(Nought, w)) = 0
          /\ Dot(v, Minus(Nought, w)) = - y
        BY Numbers, CrossBack, DotSpreads
    <2>4. Amid(Dot(v, Minus(Nought, w)), Dot(v, v))
        BY <2>2, <2>3
    <2>5. On(Minus(Nought, w), v)
        BY <1>2, <2>3, <2>4, AlongIsOn, Zenon
    <2>6. QED
        BY <2>5 DEF Touch
<1>3. QED
    BY <1>1, <1>2

\* Two ways touch where no axis along or across them, or of the grid, has them
\* beside one another.
LEMMA TouchUnlessBeside ==
  ASSUME NEW u \in Position, NEW v \in Position, NEW w \in Position,
         \A z \in Axes(u, v) : ~ Beside(Dot(z, u), Dot(z, w), Dot(z, v))
  PROVE  Touch(u, v, w)
<1>1. /\ u \in Axes(u, v) /\ v \in Axes(u, v) /\ <<1, 0>> \in Axes(u, v) /\ <<0, 1>> \in Axes(u, v)
      /\ <<- u[2], u[1]>> \in Axes(u, v) /\ <<- v[2], v[1]>> \in Axes(u, v)
    BY DEF Axes
<1>2. /\ Dot(<<- u[2], u[1]>>, u) = 0 /\ Dot(<<- u[2], u[1]>>, w) = Cross(u, w)
      /\ Dot(<<- u[2], u[1]>>, v) = Cross(u, v)
    BY DotAcross, CrossItself
<1>3. ~ Beside(0, Cross(u, w), Cross(u, v))
    BY <1>1, <1>2
<1>4. /\ Dot(<<- v[2], v[1]>>, u) = - Cross(u, v) /\ Dot(<<- v[2], v[1]>>, w) = - Cross(w, v)
      /\ Dot(<<- v[2], v[1]>>, v) = 0
    BY DotAcross, CrossItself, CrossTurned
<1>5. ~ Beside(- Cross(u, v), - Cross(w, v), 0)
    BY <1>1, <1>4
<1>6. CASE Cross(u, v) # 0
    BY <1>3, <1>5, <1>6, CrossingTouches
<1>7. CASE Cross(u, v) = 0
    <2>1. Cross(u, w) \in Int /\ Cross(w, v) \in Int
        BY Numbers
    <2>2. Cross(u, w) = 0
        BY <1>3, <1>7, <2>1 DEF Beside
    <2>3. Cross(w, v) = 0
        BY <1>5, <1>7, <2>1 DEF Beside
    <2>4. CASE u # Nought
        BY <1>1, <1>7, <2>2, <2>3, <2>4, OneLineTouches
    <2>5. CASE u = Nought
        <3>1. v[1] \in Int /\ v[2] \in Int /\ w[1] \in Int /\ w[2] \in Int
            BY Numbers
        <3>2. Dot(v, Nought) = 0
            BY <3>1 DEF Dot, Nought
        <3>3. ~ Beside(0, Dot(v, w), Dot(v, v))
            BY <1>1, <2>5, <3>2
        <3>4. ASSUME v = Nought
              PROVE  ~ Beside(0, w[1], 0) /\ ~ Beside(0, w[2], 0)
            <4>1. /\ Dot(<<1, 0>>, Nought) = 0 /\ Dot(<<0, 1>>, Nought) = 0
                  /\ Dot(<<1, 0>>, w) = w[1] /\ Dot(<<0, 1>>, w) = w[2]
                BY <3>1 DEF Dot, Nought
            <4>2. QED
                BY <1>1, <2>5, <3>4, <4>1
        <3>5. QED
            BY <2>3, <2>5, <3>3, <3>4, PlaceTouches
    <2>6. QED
        BY <2>4, <2>5
<1>8. QED
    BY <1>6, <1>7

-----------------------------------------------------------------------------
(* segments_intersect tells whether two segments share a point.            *)

\* The turn at q on the way from p to r, and a place r on the segment p q, as
\* segments_intersect has them.
Turn(p, q, r) == Cross(Off(q, p), Off(r, q))
Among(p, r, q, i) ==
  /\ (IF p[i] < q[i] THEN p[i] ELSE q[i]) <= r[i]
  /\ r[i] <= (IF p[i] < q[i] THEN q[i] ELSE p[i])
OnSegment(p, r, q) == Turn(p, q, r) = 0 /\ Among(p, r, q, 1) /\ Among(p, r, q, 2)

LEMMA Ways ==
  \A p, q, r \in Position :
    /\ Off(q, p) \in Position
    /\ Plus(Off(q, p), Off(r, q)) = Off(r, p) /\ Minus(Off(q, p), Off(r, p)) = Off(q, r)
    /\ Minus(Nought, Off(q, p)) = Off(p, q)
<1> SUFFICES ASSUME NEW p \in Position, NEW q \in Position, NEW r \in Position
             PROVE  /\ Off(q, p) \in Position
                    /\ Plus(Off(q, p), Off(r, q)) = Off(r, p) /\ Minus(Off(q, p), Off(r, p)) = Off(q, r)
                    /\ Minus(Nought, Off(q, p)) = Off(p, q)
    OBVIOUS
<1>1. p[1] \in Int /\ p[2] \in Int /\ q[1] \in Int /\ q[2] \in Int /\ r[1] \in Int /\ r[2] \in Int
    BY DEF Position
<1>2. LatUnit \in Int
    BY LatUnitAssumption
<1>3. /\ LatUnit * (q[1] - p[1]) = LatUnit * q[1] - LatUnit * p[1]
      /\ LatUnit * (p[1] - q[1]) = LatUnit * p[1] - LatUnit * q[1]
      /\ LatUnit * (r[1] - q[1]) = LatUnit * r[1] - LatUnit * q[1]
      /\ LatUnit * (q[1] - r[1]) = LatUnit * q[1] - LatUnit * r[1]
      /\ LatUnit * (r[1] - p[1]) = LatUnit * r[1] - LatUnit * p[1]
      /\ LatUnit * q[1] \in Int /\ LatUnit * p[1] \in Int /\ LatUnit * r[1] \in Int
    BY <1>1, <1>2
<1>4. Off(q, p) \in Position
    BY <1>1, <1>2 DEF Off, Position
<1>5. /\ LatUnit * (q[1] - p[1]) + LatUnit * (r[1] - q[1]) = LatUnit * (r[1] - p[1])
      /\ LatUnit * (q[1] - p[1]) - LatUnit * (r[1] - p[1]) = LatUnit * (q[1] - r[1])
      /\ 0 - LatUnit * (q[1] - p[1]) = LatUnit * (p[1] - q[1])
    BY <1>3
<1>6. /\ (q[2] - p[2]) + (r[2] - q[2]) = r[2] - p[2] /\ (q[2] - p[2]) - (r[2] - p[2]) = q[2] - r[2]
      /\ 0 - (q[2] - p[2]) = p[2] - q[2]
    BY <1>1
<1>7. QED
    BY <1>4, <1>5, <1>6 DEF Off, Plus, Minus, Nought

\* It turns where the place lies off the line of the segment.
LEMMA TurnIs ==
  \A p, q, r \in Position : Turn(p, q, r) = Cross(Off(q, p), Off(r, p))
<1> SUFFICES ASSUME NEW p \in Position, NEW q \in Position, NEW r \in Position
             PROVE  Turn(p, q, r) = Cross(Off(q, p), Off(r, p))
    OBVIOUS
<1> DEFINE u == Off(q, p)
           x == Off(r, q)
<1>1. u \in Position /\ x \in Position /\ Plus(u, x) = Off(r, p)
    BY Ways
<1> HIDE DEF u, x
<1>2. Cross(u, Plus(u, x)) = Cross(u, u) + Cross(u, x) /\ Cross(u, u) = 0 /\ Cross(u, x) \in Int
    <2>1. Cross(u, Plus(u, x)) = Cross(u, u) + Cross(u, x)
        BY <1>1, CrossPlus
    <2>2. Cross(u, u) = 0
        BY <1>1, CrossItself
    <2>3. Cross(u, x) \in Int
        BY <1>1, Numbers, Zenon
    <2>4. QED
        BY <2>1, <2>2, <2>3
<1>3. Cross(u, x) = Cross(u, Off(r, p))
    BY <1>1, <1>2
<1>4. QED
    BY <1>3 DEF Turn, u, x

LEMMA OnSegmentIs ==
  \A p, q, r \in Position : OnSegment(p, r, q) <=> On(Off(r, p), Off(q, p))
<1> SUFFICES ASSUME NEW p \in Position, NEW q \in Position, NEW r \in Position
             PROVE  OnSegment(p, r, q) <=> On(Off(r, p), Off(q, p))
    OBVIOUS
<1>1. p[1] \in Int /\ p[2] \in Int /\ q[1] \in Int /\ q[2] \in Int /\ r[1] \in Int /\ r[2] \in Int
    BY DEF Position
<1>2. LatUnit \in Int /\ LatUnit > 0
    BY LatUnitAssumption
<1>3. Among(p, r, q, 2) <=> Amid(r[2] - p[2], q[2] - p[2])
    BY <1>1 DEF Among, Amid
<1>4. Among(p, r, q, 1) <=> Amid(r[1] - p[1], q[1] - p[1])
    BY <1>1 DEF Among, Amid
<1>5. ASSUME NEW x \in Int, NEW y \in Int
      PROVE  Amid(x, y) <=> Amid(LatUnit * x, LatUnit * y)
    <2>1. \A z \in Int : LatUnit * z \in Int /\ (0 <= z <=> 0 <= LatUnit * z)
        BY <1>2
    <2>2. LatUnit * (y - x) = LatUnit * y - LatUnit * x
        BY <1>2
    <2>3. 0 <= y - x <=> 0 <= LatUnit * y - LatUnit * x
        BY <2>1, <2>2
    <2>4. (- 1) * y = - y /\ LatUnit * (- y) = - (LatUnit * y) /\ LatUnit * (- x) = - (LatUnit * x)
        BY <1>2
    <2>5. (0 <= - x <=> 0 <= - (LatUnit * x)) /\ (0 <= x <=> 0 <= LatUnit * x)
        BY <2>1, <2>4
    <2>6. 0 <= x - y <=> 0 <= LatUnit * x - LatUnit * y
        <3>1. LatUnit * (x - y) = LatUnit * x - LatUnit * y
            BY <1>2
        <3>2. QED
            BY <2>1, <3>1
    <2>7. LatUnit * x \in Int /\ LatUnit * y \in Int
        BY <2>1
    <2> DEFINE lx == LatUnit * x
               ly == LatUnit * y
    <2>8. /\ lx \in Int /\ ly \in Int /\ (0 <= y - x <=> 0 <= ly - lx) /\ (0 <= x - y <=> 0 <= lx - ly)
          /\ (0 <= - x <=> 0 <= - lx) /\ (0 <= x <=> 0 <= lx)
        BY <2>3, <2>5, <2>6, <2>7
    <2> HIDE DEF lx, ly
    <2>9. Amid(x, y) <=> Amid(lx, ly)
        BY <2>8 DEF Amid
    <2>10. QED
        BY <2>9 DEF lx, ly
<1>6. Amid(r[1] - p[1], q[1] - p[1]) <=> Amid(LatUnit * (r[1] - p[1]), LatUnit * (q[1] - p[1]))
    BY <1>1, <1>5
<1>7. Among(p, r, q, 1) <=> Amid(Off(r, p)[1], Off(q, p)[1])
    BY <1>4, <1>6 DEF Off
<1>8. Among(p, r, q, 2) <=> Amid(Off(r, p)[2], Off(q, p)[2])
    BY <1>3 DEF Off
<1>9. Turn(p, q, r) = Cross(Off(q, p), Off(r, p))
    BY TurnIs
<1>10. QED
    BY <1>7, <1>8, <1>9 DEF OnSegment, On

LEMMA MeetIsTouch ==
  \A a, b, c, d \in Position : Meet(a, b, c, d) <=> Touch(Off(b, a), Off(d, c), Off(c, a))
<1> SUFFICES ASSUME NEW a \in Position, NEW b \in Position, NEW c \in Position, NEW d \in Position
             PROVE  Meet(a, b, c, d) <=> Touch(Off(b, a), Off(d, c), Off(c, a))
    OBVIOUS
<1> DEFINE u == Off(b, a)
           v == Off(d, c)
           w == Off(c, a)
<1>1. Meet(a, b, c, d) <=>
        \/ OnSegment(a, c, b) \/ OnSegment(a, d, b) \/ OnSegment(c, a, d) \/ OnSegment(c, b, d)
        \/ /\ (Turn(a, b, c) > 0) # (Turn(a, b, d) > 0)
           /\ (Turn(c, d, a) > 0) # (Turn(c, d, b) > 0)
    BY DEF Meet, OnSegment, Turn, Among
<1>2. /\ u \in Position /\ v \in Position /\ w \in Position
      /\ Off(d, a) = Plus(w, v) /\ Off(a, c) = Minus(Nought, w) /\ Off(b, c) = Minus(u, w)
    BY Ways
<1>3. /\ OnSegment(a, c, b) <=> On(w, u)
      /\ OnSegment(a, d, b) <=> On(Off(d, a), u)
      /\ OnSegment(c, a, d) <=> On(Off(a, c), v)
      /\ OnSegment(c, b, d) <=> On(Off(b, c), v)
    BY OnSegmentIs
<1>4. /\ Turn(a, b, c) = Cross(u, w) /\ Turn(a, b, d) = Cross(u, Off(d, a))
      /\ Turn(c, d, a) = Cross(v, Off(a, c)) /\ Turn(c, d, b) = Cross(v, Off(b, c))
    BY TurnIs
<1> HIDE DEF u, v, w
<1>5. /\ Turn(a, b, c) = Cross(u, w) /\ Turn(a, b, d) = Cross(u, w) + Cross(u, v)
      /\ Turn(c, d, a) = Cross(w, v)
    <2>1. Cross(u, Plus(w, v)) = Cross(u, w) + Cross(u, v)
        BY <1>2, CrossPlus
    <2>2. Cross(v, Minus(Nought, w)) = Cross(w, v)
        BY <1>2, CrossBack
    <2>3. QED
        BY <1>2, <1>4, <2>1, <2>2
<1>6. Turn(c, d, b) = Cross(w, v) - Cross(u, v)
    <2>1. Cross(v, Minus(u, w)) = Cross(v, u) - Cross(v, w)
        BY <1>2, CrossMinus
    <2>2. Cross(v, u) = - Cross(u, v) /\ Cross(v, w) = - Cross(w, v)
        BY <1>2, CrossTurned
    <2>3. Cross(u, v) \in Int /\ Cross(w, v) \in Int
        BY <1>2, Numbers
    <2>4. QED
        BY <1>2, <1>4, <2>1, <2>2, <2>3
<1>7. Meet(a, b, c, d) <=> Touch(u, v, w)
    BY <1>1, <1>2, <1>3, <1>5, <1>6 DEF Touch
<1>8. QED
    BY <1>7 DEF u, v, w

\* Along an axis, where a place is, from nought.
LEMMA AlongAxis ==
  \A z, p, q \in Position :
    /\ Dot(z, Off(p, Nought)) \in Int /\ Dot(z, Off(q, p)) \in Int
    /\ Dot(z, Off(q, Nought)) = Dot(z, Off(p, Nought)) + Dot(z, Off(q, p))
<1> SUFFICES ASSUME NEW z \in Position, NEW p \in Position, NEW q \in Position
             PROVE  /\ Dot(z, Off(p, Nought)) \in Int /\ Dot(z, Off(q, p)) \in Int
                    /\ Dot(z, Off(q, Nought)) = Dot(z, Off(p, Nought)) + Dot(z, Off(q, p))
    OBVIOUS
<1>1. Nought \in Position
    BY DEF Nought, Position
<1>2. /\ Off(p, Nought) \in Position /\ Off(q, p) \in Position
      /\ Plus(Off(p, Nought), Off(q, p)) = Off(q, Nought)
    BY <1>1, Ways
<1>3. Dot(z, Off(p, Nought)) \in Int /\ Dot(z, Off(q, p)) \in Int
    BY <1>2, Numbers
<1>4. Dot(z, Plus(Off(p, Nought), Off(q, p))) = Dot(z, Off(p, Nought)) + Dot(z, Off(q, p))
    BY <1>2, DotSpreads, Zenon
<1>5. QED
    BY <1>2, <1>3, <1>4

LEMMA SharedIs ==
  \A a, b, c, d \in Position :
    ShareAPoint(a, b, c, d) <=>
      \A z \in Axes(Off(b, a), Off(d, c)) :
        ~ Beside(Dot(z, Off(b, a)), Dot(z, Off(c, a)), Dot(z, Off(d, c)))
<1> SUFFICES ASSUME NEW a \in Position, NEW b \in Position, NEW c \in Position, NEW d \in Position
             PROVE  ShareAPoint(a, b, c, d) <=>
                      \A z \in Axes(Off(b, a), Off(d, c)) :
                        ~ Beside(Dot(z, Off(b, a)), Dot(z, Off(c, a)), Dot(z, Off(d, c)))
    OBVIOUS
<1> DEFINE o(p) == Off(p, Nought)
           Apart(z) == \/ \A p \in {a, b}, q \in {c, d} : Dot(z, o(p)) < Dot(z, o(q))
                       \/ \A p \in {a, b}, q \in {c, d} : Dot(z, o(p)) > Dot(z, o(q))
<1>1. ShareAPoint(a, b, c, d) <=> ~ \E z \in Axes(Off(b, a), Off(d, c)) : Apart(z)
    BY DEF ShareAPoint, Axes, Nought
<1>2. ASSUME NEW z \in Position
      PROVE  Apart(z) <=> Beside(Dot(z, Off(b, a)), Dot(z, Off(c, a)), Dot(z, Off(d, c)))
    <2> DEFINE m == Dot(z, o(a))
               x == Dot(z, Off(b, a))
               y == Dot(z, Off(c, a))
               t == Dot(z, Off(d, c))
    <2>1. /\ m \in Int /\ x \in Int /\ y \in Int /\ t \in Int
          /\ Dot(z, o(b)) = m + x /\ Dot(z, o(c)) = m + y /\ Dot(z, o(d)) = Dot(z, o(c)) + t
        BY AlongAxis
    <2>2. Apart(z) <=>
            \/ /\ Dot(z, o(a)) < Dot(z, o(c)) /\ Dot(z, o(a)) < Dot(z, o(d))
               /\ Dot(z, o(b)) < Dot(z, o(c)) /\ Dot(z, o(b)) < Dot(z, o(d))
            \/ /\ Dot(z, o(a)) > Dot(z, o(c)) /\ Dot(z, o(a)) > Dot(z, o(d))
               /\ Dot(z, o(b)) > Dot(z, o(c)) /\ Dot(z, o(b)) > Dot(z, o(d))
        BY Zenon
    <2>3. Apart(z) <=> \/ m < m + y /\ m < m + y + t /\ m + x < m + y /\ m + x < m + y + t
                       \/ m > m + y /\ m > m + y + t /\ m + x > m + y /\ m + x > m + y + t
        BY <2>1, <2>2, Zenon
    <2> HIDE DEF m, x, y, t, Apart
    <2>4. Apart(z) <=> Beside(x, y, t)
        BY <2>1, <2>3 DEF Beside
    <2>5. QED
        BY <2>4 DEF x, y, t
<1>3. Axes(Off(b, a), Off(d, c)) \subseteq Position
    <2>1. Off(b, a) \in Position /\ Off(d, c) \in Position
        BY Ways
    <2>2. \A u \in Position : <<- u[2], u[1]>> \in Position
        BY DEF Position
    <2>3. <<1, 0>> \in Position /\ <<0, 1>> \in Position
        BY DEF Position
    <2>4. QED
        BY <2>1, <2>2, <2>3 DEF Axes
<1> HIDE DEF Apart
<1>4. QED
    BY <1>1, <1>2, <1>3

\* segments_intersect says of two segments what is so: they share a point
\* unless a line across or along one of them, or of the grid, parts them.
THEOREM MeetingIsSharing ==
  \A a, b, c, d \in Position : Meet(a, b, c, d) <=> ShareAPoint(a, b, c, d)
<1> SUFFICES ASSUME NEW a \in Position, NEW b \in Position, NEW c \in Position, NEW d \in Position
             PROVE  Meet(a, b, c, d) <=> ShareAPoint(a, b, c, d)
    OBVIOUS
<1> DEFINE u == Off(b, a)
           v == Off(d, c)
           w == Off(c, a)
<1>1. u \in Position /\ v \in Position /\ w \in Position
    BY Ways
<1>2. Meet(a, b, c, d) <=> Touch(u, v, w)
    BY MeetIsTouch
<1>3. ShareAPoint(a, b, c, d) <=>
        \A z \in Axes(u, v) : ~ Beside(Dot(z, u), Dot(z, w), Dot(z, v))
    BY SharedIs
<1> HIDE DEF u, v, w
<1>4. Axes(u, v) \subseteq Position
    <2>1. \A x \in Position : <<- x[2], x[1]>> \in Position
        BY DEF Position
    <2>2. <<1, 0>> \in Position /\ <<0, 1>> \in Position
        BY DEF Position
    <2>3. QED
        BY <1>1, <2>1, <2>2 DEF Axes
<1>5. Touch(u, v, w) => \A z \in Axes(u, v) : ~ Beside(Dot(z, u), Dot(z, w), Dot(z, v))
    BY <1>1, <1>4, TouchIsNotBeside
<1>6. (\A z \in Axes(u, v) : ~ Beside(Dot(z, u), Dot(z, w), Dot(z, v))) => Touch(u, v, w)
    BY <1>1, TouchUnlessBeside
<1>7. QED
    BY <1>2, <1>3, <1>5, <1>6

-----------------------------------------------------------------------------
(* What stands in the way                                                  *)

\* A way is an icy one if it makes a ring, and has these edges.
Icy(kind, w) == kind = "glacier" /\ Len(Line(w)) >= 3
EdgesOf(kind, w) == Edges(Line(w)) \cup IF Icy(kind, w) THEN Edges(Closed(Line(w))) ELSE {}

\* A way of some kind stands in the way from p to q.
Crosses(kind, w, p, q) == \E e \in EdgesOf(kind, w) : ShareAPoint(p, q, e[1], e[2])
IsUnder(kind, w, p, q) ==
  Icy(kind, w) /\ (InRing(p, Closed(Line(w))) \/ InRing(q, Closed(Line(w))))

\* The lines of some ways, their rings and their edges.
Lines(W, kind) == {[kind |-> kind[w], line |-> Line(w)] : w \in W}
RingsOf(W, kind) == {Closed(Line(w)) : w \in {v \in W : Icy(kind[v], v)}}
SegsOf(W, kind) == UNION {EdgesOf(kind[w], w) : w \in W}

\* The geometry of a set of ways is the edges of each and the rings of the icy.
LEMMA GeometrySays ==
  ASSUME NEW W, NEW kind, \A w \in W : Len(Line(w)) \in Nat
  PROVE  /\ Geometry(Lines(W, kind)).glaciers = RingsOf(W, kind)
         /\ Geometry(Lines(W, kind)).segs = SegsOf(W, kind)
<1> DEFINE L == Lines(W, kind)
           item(w) == [kind |-> kind[w], line |-> Line(w)]
           here == {l \in L : Len(l.line) >= 2}
           icy == {k \in here : k.kind = "glacier" /\ Len(k.line) >= 3}
           rings == {Closed(l.line) : l \in icy}
           A == UNION {Edges(l.line) : l \in here}
           B == UNION {Edges(g) : g \in rings}
<1>1. /\ Geometry(L).glaciers = rings
      /\ Geometry(L).segs = A \cup B
    BY DEF Geometry
<1>2. \A l : l \in L <=> \E w \in W : l = item(w)
    BY DEF Lines
<1>3. \A w : item(w).kind = kind[w] /\ item(w).line = Line(w)
    OBVIOUS
<1> HIDE DEF item, L
<1>4. \A l : l \in here <=> \E w \in W : l = item(w) /\ Len(Line(w)) >= 2
    BY <1>2, <1>3
<1>5. \A l : l \in icy <=> \E w \in W : l = item(w) /\ Icy(kind[w], w)
    <2>1. \A w \in W : Len(Line(w)) >= 3 => Len(Line(w)) >= 2
        OBVIOUS
    <2>2. \A l : l \in icy <=> l \in here /\ l.kind = "glacier" /\ Len(l.line) >= 3
        OBVIOUS
    <2> HIDE DEF here, icy
    <2>3. QED
        BY <1>3, <1>4, <2>1, <2>2 DEF Icy
<1>6. rings = {Closed(Line(w)) : w \in {v \in W : Icy(kind[v], v)}}
    <2> HIDE DEF icy
    <2>1. \A r : r \in rings <=> \E l \in icy : r = Closed(l.line)
        OBVIOUS
    <2> HIDE DEF rings
    <2>2. \A r : r \in rings <=> \E w \in W : Icy(kind[w], w) /\ r = Closed(Line(w))
        BY <1>3, <1>5, <2>1
    <2>3. QED
        BY <2>2
<1>7. \A e : e \in A <=> \E w \in W : e \in Edges(Line(w))
    <2>1. \A w, e : w \in W /\ e \in Edges(Line(w)) => Len(Line(w)) >= 2
        BY DEF Edges
    <2>2. \A e : e \in A <=> \E l \in here : e \in Edges(l.line)
        OBVIOUS
    <2> HIDE DEF here, A
    <2>3. QED
        BY <1>3, <1>4, <2>1, <2>2
<1>8. \A e : e \in B <=> \E w \in W : Icy(kind[w], w) /\ e \in Edges(Closed(Line(w)))
    <2>1. \A e : e \in B <=> \E g \in rings : e \in Edges(g)
        OBVIOUS
    <2> HIDE DEF B, rings
    <2>2. QED
        BY <1>6, <2>1
<1> HIDE DEF A, B, rings
<1>9. A \cup B = UNION {EdgesOf(kind[w], w) : w \in W}
    <2>1. \A e, w : e \in EdgesOf(kind[w], w) <=>
            e \in Edges(Line(w)) \/ (Icy(kind[w], w) /\ e \in Edges(Closed(Line(w))))
        BY DEF EdgesOf
    <2>2. QED
        BY <1>7, <1>8, <2>1
<1>10. QED
    BY <1>1, <1>6, <1>9 DEF L, RingsOf, SegsOf

\* The geometry of the archive and that of a scan.
LEMMA FoundSays ==
  ASSUME scene \in Scenes
  PROVE  LET kind == [w \in AllWays |-> BarrierKind(scene.ways[w].tags)]
             W == {w \in AllWays : kind[w] # "none" /\ Len(scene.ways[w].refs) >= 2}
         IN  FoundGeometry.glaciers = RingsOf(W, kind) /\ FoundGeometry.segs = SegsOf(W, kind)
<1> DEFINE kind == [w \in AllWays |-> BarrierKind(scene.ways[w].tags)]
           W == {w \in AllWays : kind[w] # "none" /\ Len(scene.ways[w].refs) >= 2}
           L == Polylines(BarrierWays(AllWays, FALSE), AllAts)
<1>1. L = Lines(W, kind)
    BY BarrierLines DEF Lines
<1>2. \A w \in W : Len(Line(w)) \in Nat
    BY LineIs
<1>3. FoundGeometry = Geometry(L)
    BY DEF FoundGeometry
<1> HIDE DEF kind, W, L
<1>4. Geometry(L).glaciers = RingsOf(W, kind) /\ Geometry(L).segs = SegsOf(W, kind)
    BY <1>1, <1>2, GeometrySays
<1>5. QED
    BY <1>3, <1>4 DEF kind, W

LEMMA ScanSays ==
  ASSUME scene \in Scenes
  PROVE  LET kind == [w \in AllWays |-> ScanKind(scene.ways[w].tags)]
             W == {w \in AllWays : kind[w] # "none" /\ Len(scene.ways[w].refs) >= 2 /\ InPlan(w)}
         IN  ScannedBarriers.glaciers = RingsOf(W, kind) /\ ScannedBarriers.segs = SegsOf(W, kind)
<1> DEFINE kind == [w \in AllWays |-> ScanKind(scene.ways[w].tags)]
           V == {w \in AllWays : kind[w] # "none" /\ Len(scene.ways[w].refs) >= 2}
           W == {w \in AllWays : kind[w] # "none" /\ Len(scene.ways[w].refs) >= 2 /\ InPlan(w)}
           B == BarrierWays(AllWays, TRUE)
           N == UNION {Range(b.refs) : b \in B}
           c == CoordsOf(AllNodes \cap N)
           P == Polylines(B, c)
           L == {l \in P : \E i \in DOMAIN l.line : InBox(l.line[i], scene.bbox)}
<1>1. ScannedBarriers = Geometry(L)
    <2>1. c = [n \in N \cap DOMAIN scene.nodes |-> At(n)]
        BY DEF CoordsOf, AllNodes
    <2>2. QED
        BY <2>1 DEF ScannedBarriers, AllWays
<1>2. \A b \in B : Resolved(b.refs, c) = Resolved(b.refs, AllAts)
    <2> SUFFICES ASSUME NEW b \in B
                 PROVE  Resolved(b.refs, c) = Resolved(b.refs, AllAts)
        OBVIOUS
    <2>1. Range(b.refs) \subseteq N
        OBVIOUS
    <2> HIDE DEF N, B
    <2>2. QED
        BY <2>1, KnownLine
<1>3. P = {[kind |-> kind[w], line |-> Line(w)] : w \in V}
    <2> HIDE DEF c
    <2>1. /\ TRUE \in BOOLEAN
          /\ \A w \in BarrierWays(AllWays, TRUE) : Resolved(w.refs, c) = Resolved(w.refs, AllAts)
        BY <1>2
    <2>2. QED
        BY <2>1, BarrierLines
<1>4. L = Lines(W, kind)
    <2> DEFINE item(w) == [kind |-> kind[w], line |-> Line(w)]
               inBox(line) == \E i \in DOMAIN line : InBox(line[i], scene.bbox)
    <2>1. \A w : item(w).line = Line(w)
        OBVIOUS
    <2>2. \A w : w \in W <=> w \in V /\ inBox(Line(w))
        BY DEF InPlan
    <2>3. P = {item(w) : w \in V} /\ L = {l \in P : inBox(l.line)}
        BY <1>3
    <2> HIDE DEF item, inBox, P, L, V, W
    <2>4. L = {item(w) : w \in W}
        BY <2>1, <2>2, <2>3
    <2>5. QED
        BY <2>4 DEF item, Lines
<1>5. \A w \in W : Len(Line(w)) \in Nat
    BY LineIs
<1> HIDE DEF kind, V, W, P, L
<1>6. Geometry(L).glaciers = RingsOf(W, kind) /\ Geometry(L).segs = SegsOf(W, kind)
    BY <1>4, <1>5, GeometrySays
<1>7. QED
    BY <1>1, <1>6 DEF kind, W

\* What bars a way: an edge or a ring of one of these ways, or one of these
\* highways.
Barred(W, kind, roads, p, q) ==
  \/ \E w \in W : Crosses(kind[w], w, p, q) \/ IsUnder(kind[w], w, p, q)
  \/ \E h \in roads : ShareAPoint(p, q, h[1], h[2])

\* A plan that has the edges and the rings of some ways, and some roads, bars
\* what those ways and those roads bar.
LEMMA BlocksIs ==
  ASSUME scene \in Scenes, NEW W, NEW kind, NEW roads,
         plan.segs = SegsOf(W, kind) \cup roads, plan.glaciers = RingsOf(W, kind),
         plan.segs \subseteq Position \X Position,
         NEW p \in Position, NEW q \in Position
  PROVE  Blocks(p, q) <=> Barred(W, kind, roads, p, q)
<1>1. \A s \in plan.segs : Meet(p, q, s[1], s[2]) <=> ShareAPoint(p, q, s[1], s[2])
    <2> SUFFICES ASSUME NEW s \in plan.segs
                 PROVE  Meet(p, q, s[1], s[2]) <=> ShareAPoint(p, q, s[1], s[2])
        OBVIOUS
    <2>1. s[1] \in Position /\ s[2] \in Position
        OBVIOUS
    <2>2. QED
        BY <2>1, MeetingIsSharing
<1>2. (\E s \in plan.segs : Meet(p, q, s[1], s[2])) <=>
        \/ \E w \in W : Crosses(kind[w], w, p, q)
        \/ \E h \in roads : ShareAPoint(p, q, h[1], h[2])
    <2>1. \A s : s \in plan.segs <=> s \in roads \/ \E w \in W : s \in EdgesOf(kind[w], w)
        BY DEF SegsOf
    <2>2. \A w : Crosses(kind[w], w, p, q) <=>
            \E e : e \in EdgesOf(kind[w], w) /\ ShareAPoint(p, q, e[1], e[2])
        BY DEF Crosses
    <2>3. QED
        BY <1>1, <2>1, <2>2
<1>3. (\E r \in plan.glaciers : InRing(p, r) \/ InRing(q, r)) <=> \E w \in W : IsUnder(kind[w], w, p, q)
    <2>1. \A r : r \in plan.glaciers <=> \E w \in W : Icy(kind[w], w) /\ r = Closed(Line(w))
        BY DEF RingsOf
    <2>2. QED
        BY <2>1 DEF IsUnder
<1>4. QED
    BY <1>2, <1>3 DEF Blocks, Barred

\* A way that stands in the way has a line, and asks for two nodes at least.
LEMMA StandingWays ==
  ASSUME scene \in Scenes, NEW w \in AllWays, NEW kind, NEW p, NEW q,
         Crosses(kind, w, p, q) \/ IsUnder(kind, w, p, q)
  PROVE  Len(scene.ways[w].refs) >= 2
<1>1. Line(w) \in Seq(Position) /\ Len(Line(w)) <= Len(scene.ways[w].refs)
    BY LineIs
<1>2. Len(Line(w)) \in Nat /\ Len(scene.ways[w].refs) \in Nat
    <2>1. scene.ways[w].refs \in Seq(Range(scene.ways[w].refs))
        BY SceneIs
    <2>2. QED
        BY <1>1, <2>1
<1>3. Len(Line(w)) >= 2
    <2>1. CASE Icy(kind, w)
        BY <1>2, <2>1 DEF Icy
    <2>2. CASE ~ Icy(kind, w)
        <3>1. PICK e \in Edges(Line(w)) : TRUE
            BY <2>2 DEF Crosses, IsUnder, EdgesOf
        <3>2. QED
            BY <1>2, <3>1 DEF Edges
    <2>3. QED
        BY <2>1, <2>2
<1>4. QED
    BY <1>1, <1>2, <1>3

\* What the convert takes for a barrier a scan does too.
LEMMA ScanBarsMore ==
  \A t : BarrierKind(t) # "none" => ScanKind(t) # "none"
<1> SUFFICES ASSUME NEW t, BarrierKind(t) # "none"
             PROVE  ScanKind(t) # "none"
    OBVIOUS
<1>1. Is(t, "waterway", {"river", "canal"}) =>
        Is(t, "waterway", {"river", "canal", "tidal_channel", "fairway"})
    BY DEF Is
<1>2. QED
    BY <1>1 DEF BarrierKind, ScanKind, KindOf

\* Whichever source the plan has, it bars a way to a stop where a barrier that
\* its box shows stands in the way, and nowhere but where a barrier or a
\* highway does (blocks_access).
THEOREM AccessIsAlwaysBarred == Spec => []AccessIsBarred
<1>1. PoiInv => AccessIsBarred
    <2> SUFFICES ASSUME PoiInv, plan # None
                 PROVE  AccessIsBarred
        BY DEF AccessIsBarred, Served
    <2>1. /\ scene \in Scenes /\ plan \in {PackPlan, ScanPlan}
          /\ scene.links \subseteq Position \X Position
          /\ scene.highways \cup scene.own \subseteq Position \X Position
        BY SceneIs DEF PoiInv, PlanOK
    <2> DEFINE kind == [w \in AllWays |-> IF plan.source = "scan" THEN ScanKind(scene.ways[w].tags)
                                          ELSE BarrierKind(scene.ways[w].tags)]
               W == {w \in AllWays : /\ kind[w] # "none" /\ Len(scene.ways[w].refs) >= 2
                                     /\ plan.source = "scan" => InPlan(w)}
               roads == IF plan.source = "scan" THEN scene.own ELSE scene.highways
    <2>2. plan.segs = SegsOf(W, kind) \cup roads /\ plan.glaciers = RingsOf(W, kind)
        <3>1. CASE plan = PackPlan
            <4>1. /\ plan.source = "pack" /\ plan.segs = FoundGeometry.segs \cup scene.highways
                  /\ plan.glaciers = FoundGeometry.glaciers
                BY <3>1 DEF PackPlan
            <4>2. /\ kind = [w \in AllWays |-> BarrierKind(scene.ways[w].tags)]
                  /\ roads = scene.highways
                BY <4>1
            <4> HIDE DEF kind
            <4>3. W = {w \in AllWays : kind[w] # "none" /\ Len(scene.ways[w].refs) >= 2}
                BY <4>1
            <4>4. FoundGeometry.glaciers = RingsOf(W, kind) /\ FoundGeometry.segs = SegsOf(W, kind)
                BY <2>1, <4>2, <4>3, FoundSays
            <4>5. QED
                BY <4>1, <4>2, <4>4
        <3>2. CASE plan = ScanPlan
            <4>1. /\ plan.source = "scan" /\ plan.segs = ScannedBarriers.segs \cup scene.own
                  /\ plan.glaciers = ScannedBarriers.glaciers
                BY <3>2 DEF ScanPlan
            <4>2. /\ kind = [w \in AllWays |-> ScanKind(scene.ways[w].tags)]
                  /\ roads = scene.own
                BY <4>1
            <4> HIDE DEF kind
            <4>3. W = {w \in AllWays : kind[w] # "none" /\ Len(scene.ways[w].refs) >= 2 /\ InPlan(w)}
                BY <4>1
            <4>4. ScannedBarriers.glaciers = RingsOf(W, kind) /\ ScannedBarriers.segs = SegsOf(W, kind)
                BY <2>1, <4>2, <4>3, ScanSays
            <4>5. QED
                BY <4>1, <4>2, <4>4
        <3>3. QED
            BY <2>1, <3>1, <3>2
    <2>3. plan.segs \subseteq Position \X Position
        <3>1. \A w \in W : EdgesOf(kind[w], w) \subseteq Position \X Position
            <4> SUFFICES ASSUME NEW w \in AllWays
                         PROVE  EdgesOf(kind[w], w) \subseteq Position \X Position
                OBVIOUS
            <4>1. Line(w) \in Seq(Position)
                BY <2>1, LineIs
            <4>2. Edges(Line(w)) \subseteq Position \X Position
                BY <4>1, EdgesAre
            <4>3. Icy(kind[w], w) => Edges(Closed(Line(w))) \subseteq Position \X Position
                <5>1. Len(Line(w)) >= 3 => Len(Line(w)) >= 1
                    BY <4>1
                <5>2. QED
                    BY <4>1, <5>1, ClosedIs, EdgesAre DEF Icy
            <4> HIDE DEF kind
            <4>4. QED
                BY <4>2, <4>3 DEF EdgesOf
        <3>2. roads \subseteq Position \X Position
            BY <2>1
        <3> HIDE DEF W, kind, roads
        <3>3. SegsOf(W, kind) \subseteq Position \X Position
            BY <3>1 DEF SegsOf
        <3>4. QED
            BY <2>2, <3>2, <3>3
    <2>4. \A l \in scene.links : Blocks(l[1], l[2]) <=> Barred(W, kind, roads, l[1], l[2])
        <3> SUFFICES ASSUME NEW l \in scene.links
                     PROVE  Blocks(l[1], l[2]) <=> Barred(W, kind, roads, l[1], l[2])
            OBVIOUS
        <3>1. l[1] \in Position /\ l[2] \in Position
            BY <2>1
        <3> HIDE DEF W, kind, roads
        <3>2. QED
            BY <2>1, <2>2, <2>3, <3>1, BlocksIs
    <2> DEFINE shown == {w \in AllWays : BarrierKind(scene.ways[w].tags) # "none" /\ InPlan(w)}
               any == {w \in AllWays : ScanKind(scene.ways[w].tags) # "none"}
    <2>5. ASSUME NEW l \in scene.links, NEW w \in shown,
                 Crosses(kind[w], w, l[1], l[2]) \/ IsUnder(kind[w], w, l[1], l[2])
          PROVE  w \in W
        <3>1. Len(scene.ways[w].refs) >= 2
            BY <2>1, <2>5, StandingWays
        <3>2. kind[w] # "none"
            BY ScanBarsMore
        <3>3. QED
            BY <3>1, <3>2
    <2>6. W \subseteq any
        BY ScanBarsMore
    <2>7. roads \subseteq scene.highways \cup scene.own
        OBVIOUS
    <2>8. ASSUME NEW l \in scene.links
          PROVE  /\ (\E w \in shown : \/ Crosses(kind[w], w, l[1], l[2])
                                      \/ IsUnder(kind[w], w, l[1], l[2])) => Blocks(l[1], l[2])
                 /\ Blocks(l[1], l[2]) =>
                      \/ \E w \in any : \/ Crosses(kind[w], w, l[1], l[2])
                                        \/ IsUnder(kind[w], w, l[1], l[2])
                      \/ \E h \in scene.highways \cup scene.own :
                           ShareAPoint(l[1], l[2], h[1], h[2])
        <3> HIDE DEF W, kind, roads, shown, any
        <3>1. QED
            BY <2>4, <2>5, <2>6, <2>7 DEF Barred
    <2>9. \A w \in AllWays : kind[w] = IF plan.source = "scan" THEN ScanKind(scene.ways[w].tags)
                                       ELSE BarrierKind(scene.ways[w].tags)
        OBVIOUS
    <2>10. shown \subseteq AllWays /\ any \subseteq AllWays
        OBVIOUS
    <2> HIDE DEF W, kind, roads
    <2>11. QED
        BY <2>8, <2>9, <2>10, Zenon DEF AccessIsBarred, Crosses, IsUnder, EdgesOf, Icy
<1>2. QED
    BY <1>1, PoiInvariant, PTL

\* Where a night may not be spent by what the whole extract holds.
RefusedByExtract(p, cats) ==
  \/ \E b \in FoundBuildings : Apart2(p, b) < MinBuilding * MinBuilding
  \/ /\ cats \cap {"Cabin", "NetworkHut", "OvernightFacility"} = {}
     /\ \E w \in AllWays :
          /\ BarrierKind(scene.ways[w].tags) = "glacier" /\ Len(Line(w)) >= 3
          /\ LET r == Closed(Line(w))
             IN  InRing(p, r) \/ \E e \in Edges(r) : Under(SegApart2(p, e[1], e[2]), MinGlacier)

PackNights ==
  Served /\ plan.source = "pack" =>
    \A p, cats : NightRefused(p, cats) <=> RefusedByExtract(p, cats)

\* A plan of the archive refuses a night where the buildings and the glaciers
\* of the whole extract do, and nowhere else (check_overnight_candidate), though
\* the nodes and the ways of each came in other blocks and rings lie end to end
\* in the archive.
THEOREM PackNightsAgree == Spec => []PackNights
<1>1. PoiInv => PackNights
    <2> SUFFICES ASSUME PoiInv, plan # None, plan.source = "pack", NEW p, NEW cats
                 PROVE  NightRefused(p, cats) <=> RefusedByExtract(p, cats)
        BY DEF PackNights, Served
    <2>1. scene \in Scenes /\ plan = PackPlan
        <3>1. ScanPlan.source = "scan"
            BY DEF ScanPlan
        <3>2. QED
            BY <3>1 DEF PoiInv, PlanOK
    <2>2. plan.buildings = FoundBuildings /\ plan.glaciers = FoundGeometry.glaciers
        BY <2>1 DEF PackPlan
    <2>3. \A r : r \in plan.glaciers <=>
            \E w \in AllWays : /\ BarrierKind(scene.ways[w].tags) = "glacier" /\ Len(Line(w)) >= 3
                               /\ r = Closed(Line(w))
        <3> DEFINE kind == [w \in AllWays |-> BarrierKind(scene.ways[w].tags)]
                   W == {w \in AllWays : kind[w] # "none" /\ Len(scene.ways[w].refs) >= 2}
        <3>1. FoundGeometry.glaciers = RingsOf(W, kind)
            BY <2>1, FoundSays
        <3>2. \A w \in AllWays : Len(Line(w)) >= 3 => Len(scene.ways[w].refs) >= 2
            <4> SUFFICES ASSUME NEW w \in AllWays, Len(Line(w)) >= 3
                         PROVE  Len(scene.ways[w].refs) >= 2
                OBVIOUS
            <4>1. Line(w) \in Seq(Position) /\ Len(Line(w)) <= Len(scene.ways[w].refs)
                BY <2>1, LineIs
            <4>2. scene.ways[w].refs \in Seq(Range(scene.ways[w].refs))
                BY <2>1, SceneIs
            <4>3. Len(Line(w)) \in Nat /\ Len(scene.ways[w].refs) \in Nat
                BY <4>1, <4>2
            <4>4. QED
                BY <4>1, <4>3
        <3>3. \A w : w \in W /\ Icy(kind[w], w) <=>
                w \in AllWays /\ BarrierKind(scene.ways[w].tags) = "glacier" /\ Len(Line(w)) >= 3
            BY <3>2 DEF Icy
        <3> HIDE DEF kind, W
        <3>4. QED
            BY <2>2, <3>1, <3>3 DEF RingsOf
    <2>4. {"OvernightFacility", "Cabin", "NetworkHut"} \cap cats = {} <=>
            cats \cap {"Cabin", "NetworkHut", "OvernightFacility"} = {}
        OBVIOUS
    <2>5. (\E r \in plan.glaciers :
             InRing(p, r) \/ \E e \in Edges(r) : Under(SegApart2(p, e[1], e[2]), MinGlacier)) <=>
          \E w \in AllWays :
            /\ BarrierKind(scene.ways[w].tags) = "glacier" /\ Len(Line(w)) >= 3
            /\ LET r == Closed(Line(w))
               IN  InRing(p, r) \/ \E e \in Edges(r) : Under(SegApart2(p, e[1], e[2]), MinGlacier)
        BY <2>3
    <2>6. QED
        BY <2>2, <2>4, <2>5 DEF NightRefused, RefusedByExtract
<1>2. QED
    BY <1>1, PoiInvariant, PTL

=============================================================================
