---------------------------- MODULE GeneralLemmas ----------------------------
(***************************************************************************)
(* What more than one of the proof modules needs of numbers, of sets of    *)
(* numbers and of sequences.  Induction is stated of a set, by the         *)
(* least-number principle: what a recursive function computes for every    *)
(* argument is proved by the set of the arguments for which it does.       *)
(***************************************************************************)
EXTENDS Integers, SequencesExt, SequenceTheorems, WellFoundedInduction, TLAPS

\* A set that holds 0 and the successor of each of its numbers holds them all.
LEMMA Induction ==
  ASSUME NEW S, 0 \in S, \A k \in Nat : k \in S => k + 1 \in S
  PROVE  \A k \in Nat : k \in S
  <1> DEFINE T == Nat \ S
             R == OpToRel(<, Nat)
  <1>1. SUFFICES ASSUME T # {}
                 PROVE  FALSE
    OBVIOUS
  <1>2. IsWellFoundedOn(R, Nat) /\ T \subseteq Nat
    BY NatLessThanWellFounded
  <1>3. \A x, y \in Nat : <<x, y>> \in R <=> x < y
    BY DEF OpToRel
  <1> HIDE DEF R, T
  <1>4. PICK m \in T : \A y \in T : ~ (<<y, m>> \in R)
    BY <1>1, <1>2, WFMin
  <1> USE DEF T
  <1>5. m # 0 /\ m \in Nat /\ m - 1 \in Nat
    BY <1>4
  <1>6. m - 1 \in T => <<m - 1, m>> \in R
    BY <1>3, <1>5
  <1> QED
    BY <1>4, <1>5, <1>6

\* Induction up to a bound.
LEMMA BoundedInduction ==
  ASSUME NEW n \in Nat, NEW S, 0 \in S, \A k \in 0 .. n - 1 : k \in S => k + 1 \in S
  PROVE  \A k \in 0 .. n : k \in S
  <1> DEFINE T == {k \in Nat : k <= n => k \in S}
  <1>1. 0 \in T
    OBVIOUS
  <1>2. ASSUME NEW k \in Nat, k \in T
        PROVE  k + 1 \in T
    BY <1>2
  <1> HIDE DEF T
  <1>3. \A k \in Nat : k \in T
    BY <1>1, <1>2, Induction
  <1> QED
    BY <1>3 DEF T
-----------------------------------------------------------------------------
(***************************************************************************)
(* Remainders and quotients.                                               *)
(***************************************************************************)
\* Division with remainder.
LEMMA DivMod ==
  ASSUME NEW S \in Nat \ {0}, NEW x \in Int
  PROVE  /\ x \div S \in Int
         /\ x % S \in 0 .. S - 1
         /\ x = (x \div S) * S + (x % S)
  OBVIOUS

\* There is one quotient only.
LEMMA QuotientIsUnique ==
  ASSUME NEW n \in Nat \ {0}, NEW x \in Int, NEW p \in Int, p * n <= x, x < p * n + n
  PROVE  x \div n = p
  <1> DEFINE q == x \div n
             r == x % n
  <1>1. q \in Int /\ r \in 0 .. n - 1 /\ x = q * n + r
    BY DivMod
  <1> HIDE DEF q, r
  <1>2. ASSUME NEW s \in Int, NEW t \in Int, s < t
        PROVE  s * n + n <= t * n
    <2>1. s + 1 <= t /\ (s + 1) * n = s * n + n
      BY <1>2
    <2>2. (s + 1) * n <= t * n
      BY <2>1
    <2> QED
      BY <2>1, <2>2
  <1>3. p * n \in Int /\ q * n \in Int
    BY <1>1
  <1>4. ~ (q < p)
    <2>1. q < p => q * n + n <= p * n
      BY <1>1, <1>2
    <2> QED
      BY <1>1, <1>3, <2>1
  <1>5. ~ (p < q)
    <2>1. p < q => p * n + n <= q * n
      BY <1>1, <1>2
    <2> QED
      BY <1>1, <1>3, <2>1
  <1>6. q = p
    BY <1>1, <1>4, <1>5
  <1> QED
    BY <1>6 DEF q

\* A product with S leaves no remainder.
LEMMA ModOfMultiple ==
  ASSUME NEW S \in Nat \ {0}, NEW q \in Int
  PROVE  (q * S) % S = 0
  OBVIOUS

\* Multiples of S are closed under addition.
LEMMA ModOfSum ==
  ASSUME NEW S \in Nat \ {0}, NEW x \in Int, NEW y \in Int, x % S = 0, y % S = 0
  PROVE  (x + y) % S = 0
  <1> DEFINE p == x \div S
             q == y \div S
  <1>1. p \in Int /\ q \in Int /\ x = p * S /\ y = q * S
    BY DivMod
  <1>2. x + y = (p + q) * S /\ p + q \in Int
    BY <1>1
  <1> HIDE DEF p, q
  <1>3. ((p + q) * S) % S = 0
    BY <1>2, ModOfMultiple
  <1> QED
    BY <1>2, <1>3

\* Reducing by a multiple C of S changes a number by a multiple of S.
LEMMA ReductionIsMultiple ==
  ASSUME NEW S \in Nat \ {0}, NEW C \in Nat \ {0}, C % S = 0, NEW x \in Int
  PROVE  ((x % C) - x) % S = 0
  <1> DEFINE d == x \div C
             k == C \div S
  <1>1. d \in Int /\ k \in Int /\ x = d * C + (x % C) /\ C = k * S /\ x % C \in Int
    BY DivMod
  <1>2. (x % C) - x = (0 - d) * (k * S)
    BY <1>1
  <1>3. (0 - d) * (k * S) = ((0 - d) * k) * S
    BY <1>1
  <1>4. (0 - d) * k \in Int
    BY <1>1
  <1> QED
    BY <1>2, <1>3, <1>4, ModOfMultiple

\* The remainder is the one number in range that differs by a multiple.
LEMMA ModUnique ==
  ASSUME NEW S \in Nat \ {0}, NEW d \in Int, NEW h \in 0 .. S - 1, (d - h) % S = 0
  PROVE  d % S = h
  <1>1. PICK q \in Int : d - h = q * S
    <2>1. PICK x \in Int : x = d - h
      OBVIOUS
    <2>2. x % S = 0
      BY <2>1
    <2>3. x \div S \in Int /\ x = (x \div S) * S + (x % S)
      BY DivMod
    <2>4. x = (x \div S) * S
      BY <2>2, <2>3
    <2> QED
      BY <2>1, <2>3, <2>4
  <1>2. d = q * S + h
    BY <1>1
  <1>3. PICK k \in Int, m \in 0 .. S - 1 : d = k * S + m /\ m = d % S
    BY DivMod
  <1>4. (q - k) * S = m - h
    <2>1. q * S + h = k * S + m
      BY <1>2, <1>3
    <2>2. (q - k) * S = q * S - k * S /\ q * S \in Int /\ k * S \in Int
      OBVIOUS
    <2>3. \A y, z \in Int : y + h = z + m => y - z = m - h
      OBVIOUS
    <2> QED
      BY <2>1, <2>2, <2>3
  <1>5. m - h < S /\ h - m < S
    BY <1>3
  <1>6. q - k = 0
    <2>1. CASE q - k >= 1
      <3>1. (q - k) * S >= S
        BY <2>1
      <3> QED
        BY <3>1, <1>4, <1>5
    <2>2. CASE q - k <= -1
      <3>1. (q - k) * S <= 0 - S
        BY <2>2
      <3> QED
        BY <3>1, <1>4, <1>5
    <2> QED
      BY <2>1, <2>2
  <1>7. m = h
    BY <1>4, <1>6
  <1> QED
    BY <1>3, <1>7

\* An addend reduced beforehand does not change the remainder.
LEMMA ModOfReduced ==
  ASSUME NEW C \in Nat \ {0}, NEW x \in Int, NEW h \in Int
  PROVE  ((x % C) + h) % C = (x + h) % C
  <1>1. PICK m \in Int : m = x % C
    BY DivMod
  <1>2. PICK y \in Int : y = x + h
    OBVIOUS
  <1>3. PICK k \in 0 .. C - 1 : k = y % C
    BY DivMod
  <1>4. C % C = 0
    OBVIOUS
  <1>5. (m - x) % C = 0
    <2>1. ((x % C) - x) % C = 0
      BY <1>4, ReductionIsMultiple
    <2> QED
      BY <1>1, <2>1
  <1>6. (y - k) % C = 0
    <2>1. PICK q \in Int : y = q * C + k
      BY <1>3, DivMod
    <2>2. y - k = q * C
      BY <2>1
    <2> QED
      BY <2>2, ModOfMultiple
  <1>7. ((m - x) + (y - k)) % C = 0
    <2>1. m - x \in Int /\ y - k \in Int
      OBVIOUS
    <2>2. PICK u \in Int, v \in Int : u = m - x /\ v = y - k
      BY <2>1
    <2>3. u % C = 0 /\ v % C = 0
      BY <1>5, <1>6, <2>2
    <2>4. (u + v) % C = 0
      BY <2>3, ModOfSum
    <2> QED
      BY <2>2, <2>4
  <1>8. (m - x) + (y - k) = (m + h) - k
    BY <1>2
  <1>9. ((m + h) - k) % C = 0
    BY <1>7, <1>8
  <1>10. m + h \in Int
    OBVIOUS
  <1>11. (m + h) % C = k
    BY <1>9, <1>10, ModUnique
  <1> QED
    BY <1>1, <1>2, <1>3, <1>11

\* The gap between two sequence numbers that lie a hop apart, no more than a
\* whole turn, is the number of packets between them.
LEMMA GapOfHop ==
  ASSUME NEW S \in Nat \ {0}, NEW x \in Int, NEW h \in 0 .. S - 1
  PROVE  (((x + h + 1) % S) - ((x % S) + 1)) % S = h
  <1>1. PICK y \in Int : y = x + h + 1
    OBVIOUS
  <1>2. PICK m \in Int : m = x % S
    BY DivMod
  <1>3. PICK k \in Int : k = y % S
    BY DivMod
  <1>4. S % S = 0
    OBVIOUS
  <1>5. (k - y) % S = 0
    <2>1. ((y % S) - y) % S = 0
      BY <1>4, ReductionIsMultiple
    <2> QED
      BY <1>3, <2>1
  <1>6. (x - m) % S = 0
    <2>1. PICK q \in Int : x = q * S + m
      BY <1>2, DivMod
    <2>2. x - m = q * S
      BY <2>1
    <2> QED
      BY <2>2, ModOfMultiple
  <1>7. ((k - y) + (x - m)) % S = 0
    <2>1. PICK u \in Int, v \in Int : u = k - y /\ v = x - m
      OBVIOUS
    <2>2. u % S = 0 /\ v % S = 0
      BY <1>5, <1>6, <2>1
    <2>3. (u + v) % S = 0
      BY <2>2, ModOfSum
    <2> QED
      BY <2>1, <2>3
  <1>8. (k - y) + (x - m) = (k - (m + 1)) - h
    BY <1>1
  <1>9. k - (m + 1) \in Int
    OBVIOUS
  <1>10. (k - (m + 1)) % S = h
    BY <1>7, <1>8, <1>9, ModUnique
  <1> QED
    BY <1>1, <1>2, <1>3, <1>10

\* Reducing two numbers changes their difference by a multiple.
LEMMA DifferenceOfReduced ==
  ASSUME NEW S \in Nat \ {0}, NEW x \in Int, NEW y \in Int
  PROVE  (((x % S) - (y % S)) - (x - y)) % S = 0
  <1> DEFINE p == x \div S
             u == x % S
             q == y \div S
             v == y % S
  <1>1. p \in Int /\ u \in Int /\ x = p * S + u
    BY DivMod
  <1>2. q \in Int /\ v \in Int /\ y = q * S + v
    BY DivMod
  <1> HIDE DEF p, u, q, v
  <1>3. (u - v) - (x - y) = (q - p) * S
    <2>1. (q - p) * S = q * S - p * S /\ q * S \in Int /\ p * S \in Int
      BY <1>1, <1>2
    <2>2. \A g, h \in Int : (u - v) - ((h + u) - (g + v)) = g - h
      BY <1>1, <1>2
    <2> QED
      BY <1>1, <1>2, <2>1, <2>2
  <1>4. q - p \in Int
    BY <1>1, <1>2
  <1>5. ((u - v) - (x - y)) % S = 0
    BY <1>3, <1>4, ModOfMultiple
  <1> QED
    BY <1>5 DEF u, v
-----------------------------------------------------------------------------
(***************************************************************************)
(* Sequences joined to one.                                                *)
(***************************************************************************)
\* FlattenSeq joins the parts from the left.
LEMMA FlattenUnfolds ==
  ASSUME NEW s, Len(s) \in Nat \ {0}
  PROVE  \E f : /\ FlattenSeq(s) = f[Len(s)]
                /\ f[1] = s[1]
                /\ \A i \in 2 .. Len(s) : f[i] = f[i - 1] \o s[i]
  <1> DEFINE Is(g, n) == g = [i \in 1 .. n |-> IF i = 1 THEN s[i] ELSE g[i - 1] \o s[i]]
             S == {n \in Nat : \E g : Is(g, n)}
  <1>1. 0 \in S
    <2> DEFINE g == [i \in 1 .. 0 |-> s]
    <2>1. Is(g, 0)
      OBVIOUS
    <2> QED
      BY <2>1
  <1>2. ASSUME NEW n \in Nat, n \in S
        PROVE  n + 1 \in S
    <2>1. PICK g : Is(g, n)
      BY <1>2
    <2> DEFINE last == IF n = 0 THEN s[1] ELSE g[n] \o s[n + 1]
               h == [i \in 1 .. n + 1 |-> IF i = n + 1 THEN last ELSE g[i]]
    <2>2. \A i \in 1 .. n : h[i] = g[i]
      OBVIOUS
    <2>3. h = [i \in 1 .. n + 1 |-> IF i = 1 THEN s[i] ELSE h[i - 1] \o s[i]]
      <3>0. \A i \in 1 .. n : g[i] = IF i = 1 THEN s[i] ELSE g[i - 1] \o s[i]
        BY <2>1
      <3>1. \A i \in 1 .. n : h[i] = IF i = 1 THEN s[i] ELSE h[i - 1] \o s[i]
        <4>1. \A i \in 1 .. n : i # 1 => i - 1 \in 1 .. n
          OBVIOUS
        <4> HIDE DEF h
        <4> QED
          BY <2>2, <3>0, <4>1
      <3>2. n # 0 => h[n] = g[n]
        BY <2>2
      <3>3. h[n + 1] = last /\ (n + 1) - 1 = n /\ (n + 1 = 1 <=> n = 0)
        OBVIOUS
      <3>4. h[n + 1] = IF n + 1 = 1 THEN s[n + 1] ELSE h[n] \o s[n + 1]
        BY <3>2, <3>3
      <3>5. \A i \in 1 .. n + 1 : h[i] = IF i = 1 THEN s[i] ELSE h[i - 1] \o s[i]
        <4> SUFFICES ASSUME NEW i \in 1 .. n + 1
                     PROVE  h[i] = IF i = 1 THEN s[i] ELSE h[i - 1] \o s[i]
          OBVIOUS
        <4> HIDE DEF h
        <4>1. CASE i = n + 1
          BY <3>3, <3>4, <4>1
        <4>2. CASE i # n + 1
          <5>1. i \in 1 .. n
            BY <4>2
          <5> QED
            BY <3>1, <5>1
        <4> QED
          BY <4>1, <4>2
      <3> QED
        BY <3>5
    <2>4. Is(h, n + 1)
      BY <2>3, Zenon
    <2>5. \E f : Is(f, n + 1)
      <3> HIDE DEF Is, h
      <3> QED
        BY <2>4
    <2> HIDE DEF Is
    <2> QED
      BY <2>5
  <1>3. Len(s) \in S
    <2> HIDE DEF S
    <2> QED
      BY <1>1, <1>2, Induction
  <1>4. \E g : Is(g, Len(s))
    BY <1>3
  <1> DEFINE f == CHOOSE g : Is(g, Len(s))
  <1>5. FlattenSeq(s) = f[Len(s)]
    BY DEF FlattenSeq
  <1>6. Is(f, Len(s))
    BY <1>4
  <1> HIDE DEF f
  <1>7. f[1] = s[1] /\ \A i \in 2 .. Len(s) : f[i] = f[i - 1] \o s[i]
    <2> DEFINE n == Len(s)
    <2>1. n \in Nat \ {0} /\ Is(f, n)
      BY <1>6
    <2> HIDE DEF n
    <2>2. \A i \in 1 .. n : f[i] = IF i = 1 THEN s[i] ELSE f[i - 1] \o s[i]
      BY <2>1
    <2>3. f[1] = s[1] /\ \A i \in 2 .. n : f[i] = f[i - 1] \o s[i]
      <3>1. 1 \in 1 .. n /\ \A i \in 2 .. n : i \in 1 .. n /\ i # 1
        BY <2>1
      <3> QED
        BY <2>2, <3>1
    <2> QED
      BY <2>3 DEF n
  <1> QED
    BY <1>5, <1>7

\* One more part comes at the end.
LEMMA FlattenAppend ==
  ASSUME NEW T, NEW s \in Seq(T), NEW m \in T
  PROVE  FlattenSeq(Append(s, m)) = IF s = << >> THEN m ELSE FlattenSeq(s) \o m
  <1> DEFINE t == Append(s, m)
             n == Len(s)
  <1>1. n \in Nat /\ Len(t) = n + 1 /\ t[n + 1] = m /\ \A i \in 1 .. n : t[i] = s[i]
    BY LenProperties, AppendProperties
  <1>2. n = 0 <=> s = << >>
    BY EmptySeq
  <1> HIDE DEF t, n
  <1>3. PICK g : /\ FlattenSeq(t) = g[n + 1]
                 /\ g[1] = t[1]
                 /\ \A i \in 2 .. n + 1 : g[i] = g[i - 1] \o t[i]
    <2>1. Len(t) \in Nat \ {0}
      BY <1>1
    <2>2. \E g : /\ FlattenSeq(t) = g[Len(t)]
                 /\ g[1] = t[1]
                 /\ \A i \in 2 .. Len(t) : g[i] = g[i - 1] \o t[i]
      BY <2>1, FlattenUnfolds
    <2>3. Len(t) = n + 1
      BY <1>1
    <2> QED
      BY <2>2, <2>3, Zenon
  <1>4. CASE n = 0
    BY <1>1, <1>2, <1>3, <1>4 DEF t
  <1>5. CASE n # 0
    <2>1. n \in Nat \ {0} /\ n - 1 \in Nat
      BY <1>1, <1>5
    <2>2. PICK f : /\ FlattenSeq(s) = f[n]
                   /\ f[1] = s[1]
                   /\ \A i \in 2 .. n : f[i] = f[i - 1] \o s[i]
      BY <2>1, FlattenUnfolds DEF n
    <2> DEFINE S == {i \in 0 .. n - 1 : f[i + 1] = g[i + 1]}
    <2>3. 0 \in S
      BY <1>1, <1>3, <2>1, <2>2
    <2>4. ASSUME NEW i \in 0 .. (n - 1) - 1, i \in S
          PROVE  i + 1 \in S
      <3>1. i + 2 \in 2 .. n /\ i + 2 \in 2 .. n + 1 /\ (i + 2) - 1 = i + 1 /\ (i + 1) + 1 = i + 2
        BY <2>1
      <3>2. f[i + 2] = f[i + 1] \o s[i + 2] /\ g[i + 2] = g[i + 1] \o t[i + 2]
        BY <1>3, <2>2, <3>1
      <3>3. t[i + 2] = s[i + 2]
        BY <1>1, <3>1
      <3>4. f[(i + 1) + 1] = g[(i + 1) + 1]
        BY <2>4, <3>1, <3>2, <3>3
      <3>5. i + 1 \in 0 .. n - 1
        BY <2>1
      <3> QED
        BY <3>4, <3>5
    <2>5. \A i \in 0 .. n - 1 : i \in S
      <3> HIDE DEF S
      <3> QED
        BY <2>1, <2>3, <2>4, BoundedInduction
    <2>6. f[n] = g[n]
      BY <2>1, <2>5
    <2>7. g[n + 1] = g[n] \o m
      <3>1. n + 1 \in 2 .. n + 1 /\ (n + 1) - 1 = n
        BY <2>1
      <3> QED
        BY <1>1, <1>3, <3>1
    <2> QED
      BY <1>2, <1>3, <1>5, <2>2, <2>6, <2>7 DEF t
  <1> QED
    BY <1>4, <1>5
-----------------------------------------------------------------------------
(***************************************************************************)
(* A sequence that is cut into parts of one size, the last one being what  *)
(* is left.                                                                *)
(***************************************************************************)
\* Where the k-th part of size z of a sequence ends, and the part.
PartEnd(w, z, k) == IF k * z < Len(w) THEN k * z ELSE Len(w)

Part(w, z, k) == [i \in 1 .. PartEnd(w, z, k) - (k - 1) * z |-> w[(k - 1) * z + i]]

\* s are the parts of size z of w, the last one what is left.
CutInto(s, w, z) ==
    /\ Len(s) \in Nat /\ Len(s) = 0 => s = << >>
    /\ Len(w) <= Len(s) * z /\ (Len(s) - 1) * z < Len(w)
    /\ \A k \in 1 .. Len(s) : s[k] = Part(w, z, k)

\* What the first k parts are together.
Prefix(w, m) == [i \in 1 .. m |-> w[i]]

LEMMA PrefixAndPart ==
  ASSUME NEW T, NEW w \in Seq(T), NEW z \in Nat \ {0}, NEW k \in Nat,
         k * z <= Len(w)
  PROVE  Prefix(w, k * z) \o Part(w, z, k + 1) = Prefix(w, PartEnd(w, z, k + 1))
<1>. DEFINE a == k * z
            e == PartEnd(w, z, k + 1)
            p == Prefix(w, a)
            q == Part(w, z, k + 1)
<1>1. a \in Nat /\ (k + 1) * z = a + z /\ (k + 1) - 1 = k
  OBVIOUS
<1>2. e \in Nat /\ a <= e /\ e <= Len(w)
  <2>. HIDE DEF a
  <2>. QED  BY <1>1 DEF PartEnd, a
<1>3. q = [i \in 1 .. e - a |-> w[a + i]]
  BY <1>1 DEF Part
<1>4. w \in [1 .. Len(w) -> T] /\ Len(w) \in Nat
  OBVIOUS
<1>. HIDE DEF a, e
<1>5. p \in Seq(T) /\ Len(p) = a /\ \A i \in 1 .. a : p[i] = w[i]
  BY <1>1, <1>2, <1>4 DEF Prefix
<1>. HIDE DEF p
<1>6. PICK m \in Nat : m = e - a
  BY <1>1, <1>2
<1>7. q \in Seq(T) /\ Len(q) = m /\ \A i \in 1 .. m : q[i] = w[a + i]
  <2>1. \A i \in 1 .. m : a + i \in 1 .. Len(w)
    BY <1>1, <1>2, <1>4, <1>6
  <2>2. q = [i \in 1 .. m |-> w[a + i]]
    BY <1>3, <1>6
  <2>. HIDE DEF q
  <2>3. q \in [1 .. m -> T]
    BY <1>4, <2>1, <2>2
  <2>4. q \in Seq(T)
    BY <1>6, <2>3
  <2>. QED  BY <1>6, <2>2, <2>4
<1>. HIDE DEF q
<1>8. /\ p \o q \in Seq(T) /\ Len(p \o q) = e
      /\ \A i \in 1 .. e : (p \o q)[i] = w[i]
  <2>1. p \o q \in Seq(T) /\ Len(p \o q) = a + m /\ a + m = e
    <3>1. p \in Seq(T) /\ q \in Seq(T) /\ Len(p) = a /\ Len(q) = m
      BY <1>5, <1>7
    <3>2. a + m = e
      BY <1>1, <1>2, <1>6
    <3>. QED  BY <3>1, <3>2, ConcatProperties
  <2>2. ASSUME NEW i \in 1 .. e
        PROVE  (p \o q)[i] = w[i]
    <3>1. CASE i <= a
      BY <1>1, <1>2, <1>5, <1>7, <3>1
    <3>2. CASE i > a
      <4>1. i - a \in 1 .. m /\ a + (i - a) = i
        BY <1>1, <1>2, <1>6, <3>2
      <4>2. (p \o q)[i] = q[i - a]
        BY <1>1, <1>2, <1>5, <1>6, <1>7, <3>2
      <4>3. q[i - a] = w[a + (i - a)]
        BY <1>7, <4>1
      <4>. QED  BY <4>1, <4>2, <4>3
    <3>3. i <= a \/ i > a
      <4>1. a \in Int /\ i \in Int
        BY <1>1
      <4>. QED  BY <4>1
    <3>. QED  BY <3>1, <3>2, <3>3
  <2>. QED  BY <2>1, <2>2
<1>9. Prefix(w, e) \in Seq(T) /\ Len(Prefix(w, e)) = e /\ \A i \in 1 .. e : Prefix(w, e)[i] = w[i]
  BY <1>2, <1>4 DEF Prefix
<1>10. p \o q = Prefix(w, e)
  <2>. DEFINE r == p \o q
              s == Prefix(w, e)
  <2>1. /\ r \in Seq(T) /\ s \in Seq(T) /\ Len(r) = e /\ Len(s) = e
        /\ \A i \in 1 .. e : r[i] = s[i]
    BY <1>8, <1>9
  <2>. HIDE DEF r, s
  <2>2. r = s
    BY <2>1, <1>2
  <2>. QED  BY <2>2 DEF r, s
<1>. QED  BY <1>10 DEF p, q, a, e

\* Put together again, the parts are the whole.
LEMMA PartsJoin ==
  ASSUME NEW T, NEW w \in Seq(T), NEW z \in Nat \ {0}, NEW s, CutInto(s, w, z)
  PROVE  FlattenSeq(s) = w
<1>. DEFINE n == Len(s)
<1>1. n \in Nat /\ Len(w) <= n * z /\ (n - 1) * z < Len(w) /\ Len(w) \in Nat
  BY DEF CutInto
<1>2. CASE n = 0
  <2>1. s = << >> /\ w = << >>
    BY <1>1, <1>2 DEF CutInto
  <2>. QED  BY <2>1 DEF FlattenSeq
<1>3. CASE n # 0
  <2>1. n \in Nat \ {0} /\ n - 1 \in Nat
    BY <1>1, <1>3
  <2>2. PICK f : /\ FlattenSeq(s) = f[n] /\ f[1] = s[1]
                 /\ \A i \in 2 .. n : f[i] = f[i - 1] \o s[i]
    BY <2>1, FlattenUnfolds
  <2>3. \A k \in 1 .. n : s[k] = Part(w, z, k)
    BY DEF CutInto
  <2>. DEFINE S == {i \in 0 .. n - 1 : f[i + 1] = Prefix(w, PartEnd(w, z, i + 1))}
  <2>. HIDE DEF n
  <2>4. 0 \in S
    <3>1. 0 * z = 0 /\ 0 + 1 = 1 /\ 1 - 1 = 0
      OBVIOUS
    <3>2. f[1] = Part(w, z, 1)
      BY <2>1, <2>2, <2>3
    <3>3. Part(w, z, 1) = Prefix(w, PartEnd(w, z, 1))
      <4>1. PartEnd(w, z, 1) \in Nat /\ PartEnd(w, z, 1) - 0 = PartEnd(w, z, 1)
        BY <1>1 DEF PartEnd
      <4>. QED  BY <3>1, <4>1 DEF Part, Prefix
    <3>. QED  BY <2>1, <3>1, <3>2, <3>3
  <2>5. ASSUME NEW i \in 0 .. (n - 1) - 1, i \in S
        PROVE  i + 1 \in S
    <3>1. /\ i + 2 \in 2 .. n /\ i + 2 \in 1 .. n /\ (i + 2) - 1 = i + 1 /\ (i + 1) + 1 = i + 2
          /\ i + 1 \in Nat /\ i + 1 \in 0 .. n - 1
      BY <2>1
    <3>2. f[i + 2] = f[i + 1] \o Part(w, z, i + 2)
      BY <2>2, <2>3, <3>1
    <3>3. (i + 1) * z < Len(w)
      <4>1. PICK d \in Nat : n - 1 = (i + 1) + d
        <5>1. (n - 1) - (i + 1) \in Nat /\ n - 1 = (i + 1) + ((n - 1) - (i + 1))
          BY <2>1
        <5>. QED  BY <5>1
      <4>2. (n - 1) * z = (i + 1) * z + d * z /\ d * z \in Nat /\ (i + 1) * z \in Nat
        BY <3>1, <4>1
      <4>. QED  BY <1>1, <4>2
    <3>4. PartEnd(w, z, i + 1) = (i + 1) * z
      BY <3>3 DEF PartEnd
    <3>5. f[i + 1] = Prefix(w, (i + 1) * z)
      BY <2>5, <3>4
    <3>6. (i + 1) * z <= Len(w)
      <4>1. (i + 1) * z \in Nat
        BY <3>1
      <4>. QED  BY <1>1, <3>3, <4>1
    <3>7. Prefix(w, (i + 1) * z) \o Part(w, z, (i + 1) + 1) = Prefix(w, PartEnd(w, z, (i + 1) + 1))
      <4>1. PICK k \in Nat : k = i + 1
        BY <3>1
      <4>2. k * z <= Len(w)
        BY <3>6, <4>1
      <4>3. Prefix(w, k * z) \o Part(w, z, k + 1) = Prefix(w, PartEnd(w, z, k + 1))
        BY <4>2, PrefixAndPart
      <4>. QED  BY <4>1, <4>3
    <3>8. f[(i + 1) + 1] = Prefix(w, PartEnd(w, z, (i + 1) + 1))
      BY <3>1, <3>2, <3>5, <3>7
    <3>. QED  BY <3>1, <3>8
  <2>6. \A i \in 0 .. n - 1 : i \in S
    <3>. HIDE DEF S
    <3>. QED  BY <2>1, <2>4, <2>5, BoundedInduction
  <2>7. f[n] = Prefix(w, PartEnd(w, z, n))
    <3>1. n - 1 \in 0 .. n - 1 /\ (n - 1) + 1 = n
      BY <2>1
    <3>. QED  BY <2>6, <3>1
  <2>8. PartEnd(w, z, n) = Len(w)
    <3>1. n * z \in Nat
      BY <1>1
    <3>. QED  BY <1>1, <3>1 DEF PartEnd
  <2>9. Prefix(w, Len(w)) = w
    BY DEF Prefix
  <2>. QED  BY <2>2, <2>7, <2>8, <2>9
<1>. QED  BY <1>2, <1>3

\* A part of a sequence is not empty, and holds what it is a part of.
LEMMA PartHolds ==
  ASSUME NEW w, Len(w) \in Nat, NEW z \in Nat \ {0}, NEW k \in Nat \ {0}, (k - 1) * z < Len(w)
  PROVE  /\ (k - 1) * z \in Nat /\ PartEnd(w, z, k) \in Nat
         /\ (k - 1) * z < PartEnd(w, z, k) /\ PartEnd(w, z, k) <= Len(w)
         /\ Len(Part(w, z, k)) = PartEnd(w, z, k) - (k - 1) * z
         /\ \A i \in 1 .. Len(Part(w, z, k)) :
                /\ (k - 1) * z + i \in 1 .. Len(w)
                /\ Part(w, z, k)[i] = w[(k - 1) * z + i]
<1>. DEFINE a == (k - 1) * z
            e == PartEnd(w, z, k)
<1>1. k - 1 \in Nat
  OBVIOUS
<1>2. a \in Nat /\ k * z = a + z
  BY <1>1
<1>3. Part(w, z, k) = [i \in 1 .. e - a |-> w[a + i]]
  BY DEF Part
<1>4. a < Len(w)
  OBVIOUS
<1>. HIDE DEF a
<1>5. e \in Nat /\ a < e /\ e <= Len(w)
  BY <1>2, <1>4 DEF PartEnd
<1>. HIDE DEF e
<1>6. e - a \in Nat
  BY <1>2, <1>5
<1>7. Len(Part(w, z, k)) = e - a
  BY <1>3, <1>6
<1>8. \A i \in 1 .. e - a : a + i \in 1 .. Len(w) /\ Part(w, z, k)[i] = w[a + i]
  BY <1>2, <1>3, <1>5, <1>6
<1>. QED  BY <1>2, <1>5, <1>7, <1>8 DEF a, e
=============================================================================
