---------------------------- MODULE SequenceFacts ----------------------------
(***************************************************************************)
(* Facts about numbers, finite sets and sequences that the proofs of       *)
(* several modules rest on: induction with a set in the place of a         *)
(* formula, smallest and largest numbers, and what the operators of        *)
(* SequencesExt that the specifications use compute.                       *)
(***************************************************************************)
EXTENDS Integers, Sequences, FiniteSets, SequencesExt,
        SequenceTheorems, FiniteSetTheorems, WellFoundedInduction, TLAPS

-----------------------------------------------------------------------------
(* Numbers.                                                                *)

\* Induction over the natural numbers, with a set in the place of a formula.
LEMMA Induction ==
  ASSUME NEW S, 0 \in S, \A n \in Nat : n \in S => n + 1 \in S
  PROVE  \A n \in Nat : n \in S
<1> SUFFICES ASSUME \E n \in Nat : n \notin S PROVE FALSE
  OBVIOUS
<1> DEFINE T == {n \in Nat : n \notin S}
<1>1. T \subseteq Nat /\ T # {}
  OBVIOUS
<1>2. PICK x \in T : \A y \in T : <<y, x>> \notin OpToRel(<, Nat)
  BY <1>1, NatLessThanWellFounded, WFMin
<1>3. x \in Nat /\ x # 0 /\ x - 1 \in Nat
  OBVIOUS
<1>4. x - 1 \notin S
  BY <1>3
<1>5. <<x - 1, x>> \in OpToRel(<, Nat)
  BY <1>3 DEF OpToRel
<1>6. QED BY <1>2, <1>3, <1>4, <1>5

\* A non-empty set of natural numbers has a smallest one.
LEMMA SmallestExists ==
  ASSUME NEW S \in SUBSET Nat, S # {}
  PROVE  Min(S) \in S /\ \A y \in S : Min(S) <= y
<1>1. PICK x \in S : \A y \in S : <<y, x>> \notin OpToRel(<, Nat)
  BY NatLessThanWellFounded, WFMin
<1>2. ASSUME NEW y \in S PROVE x <= y
  <2>1. x \in Nat /\ y \in Nat
    OBVIOUS
  <2>2. ~(y < x)
    BY <1>1, <2>1 DEF OpToRel
  <2>3. QED BY <2>1, <2>2
<1>3. QED BY <1>2 DEF Min

\* A non-empty set of natural numbers below a bound has a largest one.
LEMMA LargestExists ==
  ASSUME NEW S \in SUBSET Nat, S # {}, NEW b \in Nat, \A x \in S : x <= b
  PROVE  Max(S) \in S /\ \A y \in S : y <= Max(S)
<1> DEFINE D == {b - x : x \in S}
<1>1. D \in SUBSET Nat /\ D # {}
  <2>1. \A x \in S : x \in Nat /\ x <= b
    OBVIOUS
  <2>2. \A x \in S : b - x \in Nat
    BY <2>1
  <2>3. D \subseteq Nat
    BY <2>2
  <2>4. PICK x : x \in S
    OBVIOUS
  <2>5. b - x \in D
    BY <2>4
  <2>6. QED BY <2>3, <2>5
<1>2. Min(D) \in D /\ \A y \in D : Min(D) <= y
  BY <1>1, SmallestExists
<1>3. PICK m \in S : Min(D) = b - m
  BY <1>2
<1>4. ASSUME NEW y \in S PROVE m >= y
  <2>1. b - m <= b - y
    BY <1>2, <1>3
  <2>2. QED BY <2>1
<1>5. \E x \in S : \A y \in S : x >= y
  BY <1>4
<1>6. Max(S) \in S /\ \A y \in S : Max(S) >= y
  BY <1>5 DEF Max
<1>7. QED BY <1>6

-----------------------------------------------------------------------------
(* FlattenSeq.                                                             *)

\* The local function of FlattenSeq, up to the n-th of the sequences.
Joins(ss, f, n) == f = [i \in 1 .. n |-> IF i = 1 THEN ss[i] ELSE f[i - 1] \o ss[i]]

\* What is known of it at each place.
LEMMA JoinsAt ==
  ASSUME NEW ss, NEW f, NEW n \in Nat, Joins(ss, f, n), NEW i \in 1 .. n
  PROVE  f[i] = IF i = 1 THEN ss[i] ELSE f[i - 1] \o ss[i]
<1> DEFINE F(g) == [j \in 1 .. n |-> IF j = 1 THEN ss[j] ELSE g[j - 1] \o ss[j]]
<1>1. f = F(f)
  BY DEF Joins
<1>2. F(f)[i] = IF i = 1 THEN ss[i] ELSE f[i - 1] \o ss[i]
  OBVIOUS
<1> HIDE DEF F
<1>3. QED BY <1>1, <1>2

\* It exists, and its values are in K if K is closed under concatenation.
LEMMA JoinsExist ==
  ASSUME NEW K, \A p, q \in K : p \o q \in K, NEW ss \in Seq(K)
  PROVE  \A n \in Nat : n <= Len(ss) => \E f : Joins(ss, f, n) /\ \A i \in 1 .. n : f[i] \in K
<1> DEFINE Exists(n) == \E f : Joins(ss, f, n) /\ \A i \in 1 .. n : f[i] \in K
           S == {n \in Nat : n <= Len(ss) => Exists(n)}
<1>0. Len(ss) \in Nat /\ \A i \in 1 .. Len(ss) : ss[i] \in K
  OBVIOUS
<1>1. Exists(0)
  <2> DEFINE f == [i \in 1 .. 0 |-> << >>]
  <2>1. Joins(ss, f, 0)
    BY DEF Joins
  <2>2. \A i \in 1 .. 0 : f[i] \in K
    OBVIOUS
  <2> HIDE DEF f
  <2>3. QED BY <2>1, <2>2
<1>2. ASSUME NEW n \in Nat, Exists(n), n + 1 <= Len(ss) PROVE Exists(n + 1)
  <2>1. PICK f : Joins(ss, f, n) /\ \A i \in 1 .. n : f[i] \in K
    BY <1>2
  <2> DEFINE g == [i \in 1 .. (n + 1) |-> IF i = 1 THEN ss[i] ELSE f[i - 1] \o ss[i]]
  <2>2. ASSUME NEW i \in 1 .. n PROVE g[i] = f[i]
    <3>1. g[i] = IF i = 1 THEN ss[i] ELSE f[i - 1] \o ss[i]
      OBVIOUS
    <3>2. f[i] = IF i = 1 THEN ss[i] ELSE f[i - 1] \o ss[i]
      BY <2>1, JoinsAt
    <3>3. QED BY <3>1, <3>2
  <2>3. Joins(ss, g, n + 1)
    <3>1. \A i \in 1 .. (n + 1) : i # 1 => i - 1 \in 1 .. n
      OBVIOUS
    <3>2. \A i \in 1 .. (n + 1) : i # 1 => g[i - 1] = f[i - 1]
      BY <2>2, <3>1
    <3> DEFINE h == [i \in 1 .. (n + 1) |-> IF i = 1 THEN ss[i] ELSE g[i - 1] \o ss[i]]
    <3>3. \A i \in 1 .. (n + 1) : h[i] = g[i]
      <4> HIDE DEF g
      <4>1. \A i \in 1 .. (n + 1) : h[i] = IF i = 1 THEN ss[i] ELSE g[i - 1] \o ss[i]
        OBVIOUS
      <4>2. \A i \in 1 .. (n + 1) : g[i] = IF i = 1 THEN ss[i] ELSE f[i - 1] \o ss[i]
        BY DEF g
      <4> HIDE DEF h
      <4>3. QED BY <3>2, <4>1, <4>2
    <3>4. g = h
      <4>1. g = [i \in 1 .. (n + 1) |-> g[i]]
        OBVIOUS
      <4>2. h = [i \in 1 .. (n + 1) |-> h[i]]
        <5> HIDE DEF g
        <5>1. QED OBVIOUS
      <4> HIDE DEF g, h
      <4>3. [i \in 1 .. (n + 1) |-> g[i]] = [i \in 1 .. (n + 1) |-> h[i]]
        BY <3>3
      <4>4. QED BY <4>1, <4>2, <4>3
    <3> HIDE DEF g
    <3>5. QED BY <3>4 DEF Joins
  <2>4. \A i \in 1 .. (n + 1) : g[i] \in K
    <3>1. ASSUME NEW i \in 1 .. (n + 1) PROVE g[i] \in K
      <4>1. ss[i] \in K
        BY <1>0, <1>2
      <4>2. i # 1 => f[i - 1] \in K
        BY <2>1
      <4>3. g[i] = IF i = 1 THEN ss[i] ELSE f[i - 1] \o ss[i]
        OBVIOUS
      <4> HIDE DEF g
      <4>4. QED BY <4>1, <4>2, <4>3
    <3>2. QED BY <3>1
  <2> HIDE DEF g
  <2>5. QED BY <2>3, <2>4
<1> HIDE DEF Exists
<1>3. \A n \in Nat : n \in S
  <2>1. 0 \in S
    BY <1>0, <1>1
  <2>2. \A n \in Nat : n \in S => n + 1 \in S
    BY <1>0, <1>2
  <2> HIDE DEF S
  <2>3. QED BY <2>1, <2>2, Induction
<1>4. QED BY <1>3 DEF Exists

\* A set of sequences closed under concatenation contains the flattened
\* sequence of any of its elements.
LEMMA Flattened ==
  ASSUME NEW K, << >> \in K, \A p, q \in K : p \o q \in K, NEW ss \in Seq(K)
  PROVE  FlattenSeq(ss) \in K
<1>1. CASE Len(ss) = 0
  <2>1. ss = << >>
    BY <1>1
  <2>2. QED BY <1>1, <2>1 DEF FlattenSeq
<1>2. CASE Len(ss) # 0
  <2> DEFINE n == Len(ss)
             h == CHOOSE f : Joins(ss, f, n)
  <2>0. n \in Nat /\ n \in 1 .. n
    BY <1>2
  <2>1. PICK f : Joins(ss, f, n) /\ \A i \in 1 .. n : f[i] \in K
    BY <2>0, JoinsExist
  <2>2. Joins(ss, h, n)
    BY <2>1
  <2>3. FlattenSeq(ss) = h[n]
    BY <1>2 DEF FlattenSeq, Joins
  <2> HIDE DEF h, n
  <2>4. \A m \in Nat : m \in {k \in Nat : k + 1 <= n => h[k + 1] \in K}
    <3> DEFINE S == {k \in Nat : k + 1 <= n => h[k + 1] \in K}
    <3>1. \A i \in 1 .. n : ss[i] \in K
      BY DEF n
    <3>2. \A i \in 1 .. n : h[i] = IF i = 1 THEN ss[i] ELSE h[i - 1] \o ss[i]
      BY <2>0, <2>2, JoinsAt
    <3>3. 0 \in S
      BY <2>0, <3>1, <3>2
    <3>4. ASSUME NEW k \in Nat, k \in S PROVE k + 1 \in S
      <4> SUFFICES ASSUME (k + 1) + 1 <= n PROVE h[(k + 1) + 1] \in K
        BY <3>4
      <4>1. (k + 1) + 1 \in 1 .. n /\ k + 1 <= n /\ ((k + 1) + 1) - 1 = k + 1 /\ (k + 1) + 1 # 1
        BY <2>0, <3>4
      <4>2. h[k + 1] \in K /\ ss[(k + 1) + 1] \in K
        BY <3>1, <3>4, <4>1
      <4>3. h[(k + 1) + 1] = h[k + 1] \o ss[(k + 1) + 1]
        BY <3>2, <4>1
      <4>4. QED BY <4>2, <4>3
    <3> HIDE DEF S
    <3>5. \A m \in Nat : m \in S
      BY <3>3, <3>4, Induction
    <3>6. QED BY <3>5 DEF S
  <2>5. n - 1 \in Nat /\ (n - 1) + 1 = n /\ n <= n
    BY <2>0
  <2>6. QED BY <2>3, <2>4, <2>5
<1>3. QED BY <1>1, <1>2

-----------------------------------------------------------------------------
(* SetToSeq and ToSet.                                                     *)

\* SetToSeq lists the elements of a finite set, and all of them.
LEMMA Enumerates ==
  ASSUME NEW S, IsFiniteSet(S)
  PROVE  /\ Cardinality(S) \in Nat
         /\ SetToSeq(S) \in [1 .. Cardinality(S) -> S]
         /\ \A x \in S : \E k \in 1 .. Cardinality(S) : SetToSeq(S)[k] = x
<1> DEFINE n == Cardinality(S)
           f == SetToSeq(S)
<1>1. n \in Nat /\ ExistsBijection(1 .. n, S)
  BY FS_CardinalityType
<1>2. \E g \in [1 .. n -> S] : IsInjective(g)
  BY <1>1 DEF ExistsBijection, Bijection, Injection
<1>3. f \in [1 .. n -> S] /\ IsInjective(f)
  BY <1>2 DEF SetToSeq
<1>4. f \in Injection(1 .. n, S)
  BY <1>3 DEF Injection
<1>5. Cardinality(1 .. n) = n
  BY <1>1, FS_Interval
<1>6. f \in Surjection(1 .. n, S)
  BY <1>4, <1>5, FS_Injection
<1>7. QED BY <1>1, <1>3, <1>6 DEF Surjection

\* The elements of a concatenation are those of its parts.
LEMMA ElementsOfConcat ==
  ASSUME NEW S, NEW s \in Seq(S), NEW t \in Seq(S)
  PROVE  ToSet(s \o t) = ToSet(s) \cup ToSet(t)
<1>1. /\ Len(s \o t) = Len(s) + Len(t) /\ Len(s) \in Nat /\ Len(t) \in Nat
      /\ \A k \in 1 .. Len(s \o t) : (s \o t)[k] = IF k <= Len(s) THEN s[k] ELSE t[k - Len(s)]
  OBVIOUS
<1>2. ASSUME NEW x \in ToSet(s \o t) PROVE x \in ToSet(s) \cup ToSet(t)
  <2>1. PICK k \in 1 .. Len(s \o t) : x = (s \o t)[k]
    BY DEF ToSet
  <2>2. CASE k <= Len(s)
    BY <1>1, <2>1, <2>2 DEF ToSet
  <2>3. CASE k > Len(s)
    <3>1. k - Len(s) \in 1 .. Len(t)
      BY <1>1, <2>1, <2>3
    <3>2. QED BY <1>1, <2>1, <2>3, <3>1 DEF ToSet
  <2>4. QED BY <1>1, <2>2, <2>3
<1>3. ASSUME NEW x \in ToSet(s) PROVE x \in ToSet(s \o t)
  <2>1. PICK k \in 1 .. Len(s) : x = s[k]
    BY DEF ToSet
  <2>2. k \in 1 .. Len(s \o t) /\ (s \o t)[k] = x
    BY <1>1, <2>1
  <2>3. QED BY <2>2 DEF ToSet
<1>4. ASSUME NEW x \in ToSet(t) PROVE x \in ToSet(s \o t)
  <2>1. PICK k \in 1 .. Len(t) : x = t[k]
    BY DEF ToSet
  <2>2. k + Len(s) \in 1 .. Len(s \o t) /\ (s \o t)[k + Len(s)] = x
    BY <1>1, <2>1
  <2>3. QED BY <2>2 DEF ToSet
<1>5. QED BY <1>2, <1>3, <1>4

\* The elements of a short one.
LEMMA ElementsOfOne ==
  ASSUME NEW S, NEW x \in S
  PROVE  /\ << >> \in Seq(S) /\ ToSet(<< >>) = {}
         /\ <<x>> \in Seq(S) /\ ToSet(<<x>>) = {x}
BY DEF ToSet

\* The elements of a sequence are its head and those of its tail.
LEMMA ElementsOfTail ==
  ASSUME NEW S, NEW s \in Seq(S), s # << >>
  PROVE  /\ Head(s) \in S /\ Tail(s) \in Seq(S)
         /\ ToSet(s) = {Head(s)} \cup ToSet(Tail(s))
<1>1. /\ Len(s) \in Nat /\ Len(s) > 0 /\ Head(s) = s[1] /\ Head(s) \in S
      /\ Tail(s) \in Seq(S) /\ Len(Tail(s)) = Len(s) - 1
      /\ \A k \in 1 .. Len(Tail(s)) : Tail(s)[k] = s[k + 1]
  OBVIOUS
<1>2. ASSUME NEW x \in ToSet(s) PROVE x = Head(s) \/ x \in ToSet(Tail(s))
  <2>1. PICK k \in 1 .. Len(s) : x = s[k]
    BY DEF ToSet
  <2>2. CASE k # 1
    <3>1. k - 1 \in 1 .. Len(Tail(s)) /\ Tail(s)[k - 1] = s[k] /\ DOMAIN Tail(s) = 1 .. Len(Tail(s))
      BY <1>1, <2>1, <2>2
    <3>2. QED BY <2>1, <3>1 DEF ToSet
  <2>3. QED BY <1>1, <2>1, <2>2
<1>3. Head(s) \in ToSet(s)
  BY <1>1 DEF ToSet
<1>4. ASSUME NEW x \in ToSet(Tail(s)) PROVE x \in ToSet(s)
  <2>1. PICK k \in 1 .. Len(Tail(s)) : x = Tail(s)[k]
    BY DEF ToSet
  <2>2. k + 1 \in 1 .. Len(s) /\ s[k + 1] = x
    BY <1>1, <2>1
  <2>3. QED BY <2>2 DEF ToSet
<1>5. QED BY <1>1, <1>2, <1>3, <1>4

-----------------------------------------------------------------------------
(* Sequences and functions that are defined step by step.                  *)

\* Induction over sequences that grow at their end.
LEMMA SequenceInduction ==
  ASSUME NEW X, NEW P, << >> \in P,
         \A s \in Seq(X) : \A x \in X : s \in P => Append(s, x) \in P
  PROVE  Seq(X) \subseteq P
<1> DEFINE S == {n \in Nat : \A s \in Seq(X) : Len(s) = n => s \in P}
<1>1. 0 \in S
  <2>1. \A s \in Seq(X) : Len(s) = 0 => s = << >>
    OBVIOUS
  <2>2. QED BY <2>1
<1>2. ASSUME NEW n \in Nat, n \in S PROVE n + 1 \in S
  <2>1. ASSUME NEW s \in Seq(X), Len(s) = n + 1 PROVE s \in P
    <3> DEFINE t == SubSeq(s, 1, n)
    <3>1. t \in Seq(X) /\ Len(t) = n /\ s[n + 1] \in X
      BY <2>1
    <3>2. s = Append(t, s[n + 1])
      <4>1. Append(t, s[n + 1]) \in Seq(X) /\ Len(Append(t, s[n + 1])) = n + 1
        BY <3>1
      <4>2. ASSUME NEW i \in 1 .. (n + 1) PROVE s[i] = Append(t, s[n + 1])[i]
        <5>1. CASE i = n + 1
          BY <3>1, <5>1
        <5>2. CASE i # n + 1
          BY <2>1, <3>1, <5>2
        <5>3. QED BY <5>1, <5>2
      <4> HIDE DEF t
      <4>3. QED BY <2>1, <4>1, <4>2
    <3>3. t \in P
      BY <1>2, <3>1
    <3> HIDE DEF t
    <3>4. QED BY <3>1, <3>2, <3>3
  <2>2. QED BY <2>1
<1> HIDE DEF S
<1>3. \A n \in Nat : n \in S
  BY <1>1, <1>2, Induction
<1>4. ASSUME NEW s \in Seq(X) PROVE s \in P
  <2>1. Len(s) \in Nat
    OBVIOUS
  <2>2. QED BY <1>3, <2>1 DEF S
<1>5. QED BY <1>4

\* The function f starts at b, and G computes each value from the one before.
ComputedBy(f, T, b, n, G) ==
  f \in [0 .. n -> T] /\ f[0] = b /\ \A i \in 1 .. n : f[i] = G[<<i, f[i - 1]>>]

\* Such a function exists.
LEMMA ComputedExists ==
  ASSUME NEW T, NEW b \in T, NEW n \in Nat, NEW G \in [(1 .. n) \X T -> T]
  PROVE  \E f : ComputedBy(f, T, b, n, G)
<1> DEFINE Upto(m) == \E f \in [0 .. m -> T] : f[0] = b /\ \A i \in 1 .. m : f[i] = G[<<i, f[i - 1]>>]
           S == {m \in Nat : m <= n => Upto(m)}
<1>1. 0 \in S
  <2> DEFINE f == [i \in 0 .. 0 |-> b]
  <2>1. f \in [0 .. 0 -> T] /\ f[0] = b /\ \A i \in 1 .. 0 : f[i] = G[<<i, f[i - 1]>>]
    OBVIOUS
  <2> HIDE DEF f
  <2>2. QED BY <2>1
<1>2. ASSUME NEW m \in Nat, m \in S, m + 1 <= n PROVE Upto(m + 1)
  <2>1. PICK f \in [0 .. m -> T] : f[0] = b /\ \A i \in 1 .. m : f[i] = G[<<i, f[i - 1]>>]
    BY <1>2
  <2>2. G[<<m + 1, f[m]>>] \in T
    BY <1>2
  <2> DEFINE g == [i \in 0 .. (m + 1) |-> IF i = m + 1 THEN G[<<m + 1, f[m]>>] ELSE f[i]]
  <2>3. g \in [0 .. (m + 1) -> T]
    BY <2>2
  <2>4. g[m + 1] = G[<<m + 1, f[m]>>] /\ \A i \in 0 .. m : g[i] = f[i]
    OBVIOUS
  <2> HIDE DEF g
  <2>5. ASSUME NEW i \in 1 .. (m + 1) PROVE g[i] = G[<<i, g[i - 1]>>]
    <3>1. i - 1 \in 0 .. m /\ g[i - 1] = f[i - 1]
      BY <2>4
    <3>2. CASE i = m + 1
      BY <2>4, <3>1, <3>2
    <3>3. CASE i # m + 1
      BY <2>1, <2>4, <3>1, <3>3
    <3>4. QED BY <3>2, <3>3
  <2>6. QED BY <2>1, <2>3, <2>4, <2>5
<1>3. \A m \in Nat : m \in S
  <2>1. \A m \in Nat : m \in S => m + 1 \in S
    BY <1>2
  <2> HIDE DEF S
  <2>2. QED BY <1>1, <2>1, Induction
<1>4. Upto(n)
  BY <1>3
<1>5. QED BY <1>4 DEF ComputedBy

-----------------------------------------------------------------------------
(* Sequences of numbers.                                                   *)

\* The elements of a sequence that grows at its end.
LEMMA ElementsOfAppend ==
  ASSUME NEW X, NEW s \in Seq(X), NEW x \in X
  PROVE  ToSet(Append(s, x)) = ToSet(s) \cup {x}
<1>1. /\ Len(s) \in Nat /\ Len(Append(s, x)) = Len(s) + 1 /\ Append(s, x)[Len(s) + 1] = x
      /\ \A i \in 1 .. Len(s) : Append(s, x)[i] = s[i]
      /\ DOMAIN Append(s, x) = 1 .. (Len(s) + 1) /\ DOMAIN s = 1 .. Len(s)
  OBVIOUS
<1>2. ASSUME NEW e \in ToSet(Append(s, x)) PROVE e \in ToSet(s) \cup {x}
  <2>1. PICK i \in 1 .. (Len(s) + 1) : e = Append(s, x)[i]
    BY <1>1 DEF ToSet
  <2>2. CASE i = Len(s) + 1
    BY <1>1, <2>1, <2>2
  <2>3. CASE i # Len(s) + 1
    <3>1. i \in 1 .. Len(s)
      BY <1>1, <2>3
    <3>2. QED BY <1>1, <2>1, <3>1 DEF ToSet
  <2>4. QED BY <2>2, <2>3
<1>3. ASSUME NEW e \in ToSet(s) PROVE e \in ToSet(Append(s, x))
  <2>1. PICK i \in 1 .. Len(s) : e = s[i]
    BY <1>1 DEF ToSet
  <2>2. i \in 1 .. (Len(s) + 1) /\ e = Append(s, x)[i]
    BY <1>1, <2>1
  <2>3. QED BY <1>1, <2>2 DEF ToSet
<1>4. x \in ToSet(Append(s, x))
  <2>1. Len(s) + 1 \in 1 .. (Len(s) + 1)
    BY <1>1
  <2>2. QED BY <1>1, <2>1 DEF ToSet
<1>5. QED BY <1>2, <1>3, <1>4

\* The same for numbers.
LEMMA NumbersOfAppend ==
  ASSUME NEW s \in Seq(Nat), NEW x \in Nat
  PROVE  ToSet(Append(s, x)) = ToSet(s) \cup {x}
BY ElementsOfAppend, SMT

\* No element twice.
Distinct(s) == \A i, j \in DOMAIN s : s[i] = s[j] => i = j

\* Numbers that grow.
Increasing(s) == \A i, j \in DOMAIN s : i < j => s[i] < s[j]

\* A sequence that grows has no element twice if the new one is new.
LEMMA DistinctAppend ==
  ASSUME NEW X, NEW s \in Seq(X), NEW x \in X
  PROVE  Distinct(Append(s, x)) <=> Distinct(s) /\ x \notin ToSet(s)
<1>1. /\ Len(s) \in Nat /\ Append(s, x)[Len(s) + 1] = x
      /\ \A i \in 1 .. Len(s) : Append(s, x)[i] = s[i]
      /\ DOMAIN Append(s, x) = 1 .. (Len(s) + 1) /\ DOMAIN s = 1 .. Len(s)
  OBVIOUS
<1>2. /\ Len(s) + 1 \in 1 .. (Len(s) + 1)
      /\ \A i \in 1 .. Len(s) : i \in 1 .. (Len(s) + 1) /\ i # Len(s) + 1
      /\ \A i \in 1 .. (Len(s) + 1) : i # Len(s) + 1 => i \in 1 .. Len(s)
  BY <1>1
<1>3. ASSUME Distinct(Append(s, x)) PROVE Distinct(s) /\ x \notin ToSet(s)
  BY <1>1, <1>2, <1>3 DEF Distinct, ToSet
<1>4. ASSUME Distinct(s), x \notin ToSet(s) PROVE Distinct(Append(s, x))
  BY <1>1, <1>2, <1>4 DEF Distinct, ToSet
<1>5. QED BY <1>3, <1>4

\* It keeps growing if the new element is larger than all of them.
LEMMA IncreasingAppend ==
  ASSUME NEW s \in Seq(Nat), NEW x \in Nat
  PROVE  Increasing(Append(s, x)) <=> Increasing(s) /\ \A e \in ToSet(s) : e < x
<1>1. /\ Len(s) \in Nat /\ Append(s, x)[Len(s) + 1] = x
      /\ \A i \in 1 .. Len(s) : Append(s, x)[i] = s[i]
      /\ DOMAIN Append(s, x) = 1 .. (Len(s) + 1) /\ DOMAIN s = 1 .. Len(s)
  OBVIOUS
<1>2. /\ Len(s) + 1 \in 1 .. (Len(s) + 1)
      /\ \A i \in 1 .. Len(s) : i \in 1 .. (Len(s) + 1) /\ i < Len(s) + 1
      /\ \A i, j \in 1 .. (Len(s) + 1) : i < j => i \in 1 .. Len(s) /\ (j = Len(s) + 1 \/ j \in 1 .. Len(s))
  BY <1>1
<1>3. ASSUME Increasing(Append(s, x)) PROVE Increasing(s) /\ \A e \in ToSet(s) : e < x
  BY <1>1, <1>2, <1>3 DEF Increasing, ToSet
<1>4. ASSUME Increasing(s), \A e \in ToSet(s) : e < x PROVE Increasing(Append(s, x))
  BY <1>1, <1>2, <1>4 DEF Increasing, ToSet
<1>5. QED BY <1>3, <1>4

\* Numbers in increasing order are determined by their set.
LEMMA Determined ==
  ASSUME NEW s \in Seq(Nat), NEW t \in Seq(Nat),
         Increasing(s), Increasing(t), ToSet(s) = ToSet(t)
  PROVE  s = t
<1> DEFINE P == {u \in Seq(Nat) : \A v \in Seq(Nat) :
                    Increasing(u) /\ Increasing(v) /\ ToSet(u) = ToSet(v) => u = v}
<1>1. << >> \in P
  <2>1. ASSUME NEW v \in Seq(Nat), ToSet(<< >>) = ToSet(v) PROVE << >> = v
    <3>1. \A i \in DOMAIN v : v[i] \in ToSet(v)
      BY DEF ToSet
    <3>2. ToSet(<< >>) = {}
      BY DEF ToSet
    <3>3. DOMAIN v = {}
      BY <2>1, <3>1, <3>2
    <3>4. QED BY <3>3
  <2>2. QED BY <2>1
<1>2. ASSUME NEW u \in Seq(Nat), NEW x \in Nat, u \in P PROVE Append(u, x) \in P
  <2>1. ASSUME NEW v \in Seq(Nat), Increasing(Append(u, x)), Increasing(v),
               ToSet(Append(u, x)) = ToSet(v)
        PROVE  Append(u, x) = v
    <3>1. Increasing(u) /\ \A e \in ToSet(u) : e < x
      BY <2>1, IncreasingAppend
    <3>2. ToSet(v) = ToSet(u) \cup {x}
      <4>1. ToSet(Append(u, x)) = ToSet(u) \cup {x}
        <5>1. u \in Seq(Nat) /\ x \in Nat
          OBVIOUS
        <5> HIDE DEF P
        <5>2. QED BY <5>1, NumbersOfAppend
      <4>2. QED BY <2>1, <4>1
    <3> DEFINE n == Len(v)
               w == SubSeq(v, 1, n - 1)
    <3>3. n \in Nat /\ n > 0
      <4>1. n \in Nat /\ (n = 0 => v = << >>)
        OBVIOUS
      <4>2. x \in ToSet(v)
        BY <3>2
      <4>3. v # << >>
        BY <4>2 DEF ToSet
      <4>4. QED BY <4>1, <4>3
    <3>4. w \in Seq(Nat) /\ Len(w) = n - 1 /\ v[n] \in Nat /\ \A i \in 1 .. (n - 1) : w[i] = v[i]
      <4>1. n - 1 \in Nat /\ n \in 1 .. n /\ \A i \in 1 .. (n - 1) : i \in 1 .. n
        BY <3>3
      <4>2. \A i \in 1 .. n : v[i] \in Nat
        OBVIOUS
      <4>3. w \in Seq(Nat) /\ Len(w) = n - 1
        <5>1. PICK m \in Nat : m = n - 1
          BY <4>1
        <5>2. SubSeq(v, 1, m) \in Seq(Nat) /\ Len(SubSeq(v, 1, m)) = m
          <6>1. Len(v) = m + 1
            BY <3>3, <5>1
          <6>2. QED BY <6>1
        <5>3. QED BY <5>1, <5>2
      <4>4. \A i \in 1 .. (n - 1) : w[i] = v[i]
        BY <4>1, <4>2
      <4>5. QED BY <4>1, <4>2, <4>3, <4>4
    <3>5. v = Append(w, v[n])
      <4>1. Append(w, v[n]) \in Seq(Nat) /\ Len(Append(w, v[n])) = n
        BY <3>3, <3>4
      <4>2. ASSUME NEW i \in 1 .. n PROVE v[i] = Append(w, v[n])[i]
        <5>1. CASE i = n
          BY <3>3, <3>4, <5>1
        <5>2. CASE i # n
          BY <3>3, <3>4, <5>2
        <5>3. QED BY <5>1, <5>2
      <4> HIDE DEF w
      <4>3. QED BY <4>1, <4>2
    <3> HIDE DEF n, w
    <3>6. Increasing(w) /\ \A e \in ToSet(w) : e < v[n]
      BY <2>1, <3>4, <3>5, IncreasingAppend
    <3>7. ToSet(v) = ToSet(w) \cup {v[n]}
      <4>1. ToSet(Append(w, v[n])) = ToSet(w) \cup {v[n]}
        <5> HIDE DEF P
        <5>1. QED BY <3>4, ElementsOfAppend
      <4>2. QED BY <3>5, <4>1
    <3>8. \A e \in ToSet(u) \cup ToSet(w) : e \in Nat
      <4>1. (\A i \in DOMAIN u : u[i] \in Nat) /\ (\A i \in DOMAIN w : w[i] \in Nat)
        BY <3>4
      <4>2. QED BY <4>1 DEF ToSet
    <3>9. v[n] = x
      <4>1. x \in ToSet(w) => x < v[n]
        BY <3>6
      <4>2. v[n] \in ToSet(u) => v[n] < x
        BY <3>1
      <4>3. (x = v[n] \/ x \in ToSet(w)) /\ (v[n] = x \/ v[n] \in ToSet(u))
        BY <3>2, <3>7
      <4>4. QED BY <3>4, <4>1, <4>2, <4>3
    <3>10. ToSet(u) = ToSet(w)
      <4>1. x \notin ToSet(u) /\ x \notin ToSet(w)
        BY <3>1, <3>6, <3>9
      <4>2. ToSet(u) \cup {x} = ToSet(w) \cup {x}
        BY <3>2, <3>7, <3>9
      <4>3. ASSUME NEW e PROVE e \in ToSet(u) <=> e \in ToSet(w)
        BY <4>1, <4>2
      <4>4. QED BY <4>3
    <3>11. u = w
      BY <1>2, <3>1, <3>4, <3>6, <3>10
    <3>12. QED BY <3>5, <3>9, <3>11
  <2>2. Append(u, x) \in Seq(Nat)
    OBVIOUS
  <2>3. QED BY <2>1, <2>2
<1> HIDE DEF P
<1>3. Seq(Nat) \subseteq P
  BY <1>1, <1>2, SequenceInduction
<1>4. QED BY <1>3 DEF P

\* Numbers that grow in both parts, and from the first part to the second.
LEMMA IncreasingConcat ==
  ASSUME NEW a \in Seq(Nat), NEW b \in Seq(Nat), NEW c \in Nat, Increasing(a), Increasing(b),
         \A e \in ToSet(a) : e <= c, \A e \in ToSet(b) : e > c
  PROVE  Increasing(a \o b)
<1> DEFINE u == a \o b
<1>1. /\ u \in Seq(Nat) /\ Len(a) \in Nat /\ Len(b) \in Nat /\ Len(u) = Len(a) + Len(b)
      /\ \A i \in 1 .. Len(u) : u[i] = IF i <= Len(a) THEN a[i] ELSE b[i - Len(a)]
      /\ DOMAIN u = 1 .. Len(u) /\ DOMAIN a = 1 .. Len(a) /\ DOMAIN b = 1 .. Len(b)
      /\ (\A i \in 1 .. Len(a) : a[i] \in Nat) /\ (\A i \in 1 .. Len(b) : b[i] \in Nat)
  OBVIOUS
<1> HIDE DEF u
<1>2. ASSUME NEW i \in 1 .. Len(u), NEW j \in 1 .. Len(u), i < j PROVE u[i] < u[j]
  <2>1. CASE j <= Len(a)
    <3>1. i \in 1 .. Len(a) /\ j \in 1 .. Len(a) /\ u[i] = a[i] /\ u[j] = a[j]
      BY <1>1, <1>2, <2>1
    <3>2. QED BY <1>1, <1>2, <3>1 DEF Increasing
  <2>2. CASE ~(j <= Len(a)) /\ i <= Len(a)
    <3>1. i \in 1 .. Len(a) /\ j - Len(a) \in 1 .. Len(b) /\ u[i] = a[i] /\ u[j] = b[j - Len(a)]
      BY <1>1, <2>2
    <3>2. a[i] \in ToSet(a) /\ b[j - Len(a)] \in ToSet(b)
      BY <1>1, <3>1 DEF ToSet
    <3>3. a[i] <= c /\ b[j - Len(a)] > c /\ a[i] \in Nat /\ b[j - Len(a)] \in Nat
      BY <1>1, <3>1, <3>2
    <3>4. QED BY <3>1, <3>3
  <2>3. CASE ~(i <= Len(a))
    <3>1. /\ i - Len(a) \in 1 .. Len(b) /\ j - Len(a) \in 1 .. Len(b) /\ i - Len(a) < j - Len(a)
          /\ u[i] = b[i - Len(a)] /\ u[j] = b[j - Len(a)]
      BY <1>1, <1>2, <2>3
    <3>2. QED BY <1>1, <3>1 DEF Increasing
  <2>4. QED BY <2>1, <2>2, <2>3
<1>3. QED BY <1>1, <1>2 DEF Increasing, u

\* Two sequences without a common element.
LEMMA DistinctConcat ==
  ASSUME NEW a \in Seq(Nat), NEW b \in Seq(Nat), Distinct(a), Distinct(b), ToSet(a) \cap ToSet(b) = {}
  PROVE  Distinct(a \o b)
<1> DEFINE u == a \o b
<1>1. /\ u \in Seq(Nat) /\ Len(a) \in Nat /\ Len(b) \in Nat /\ Len(u) = Len(a) + Len(b)
      /\ \A i \in 1 .. Len(u) : u[i] = IF i <= Len(a) THEN a[i] ELSE b[i - Len(a)]
      /\ DOMAIN u = 1 .. Len(u) /\ DOMAIN a = 1 .. Len(a) /\ DOMAIN b = 1 .. Len(b)
  OBVIOUS
<1> HIDE DEF u
<1>2. ASSUME NEW i \in 1 .. Len(u), NEW j \in 1 .. Len(u), u[i] = u[j] PROVE i = j
  <2>1. \A k \in 1 .. Len(u) : k <= Len(a) => k \in 1 .. Len(a) /\ u[k] = a[k] /\ u[k] \in ToSet(a)
    BY <1>1 DEF ToSet
  <2>2. ASSUME NEW k \in 1 .. Len(u), ~(k <= Len(a))
        PROVE  k - Len(a) \in 1 .. Len(b) /\ u[k] = b[k - Len(a)] /\ u[k] \in ToSet(b)
    <3>1. k - Len(a) \in 1 .. Len(b)
      BY <1>1, <2>2
    <3>2. QED BY <1>1, <2>2, <3>1 DEF ToSet
  <2>3. CASE i <= Len(a) /\ j <= Len(a)
    BY <1>1, <1>2, <2>1, <2>3 DEF Distinct
  <2>4. CASE ~(i <= Len(a)) /\ ~(j <= Len(a))
    <3>1. i - Len(a) = j - Len(a)
      BY <1>1, <1>2, <2>2, <2>4 DEF Distinct
    <3>2. QED BY <1>1, <3>1
  <2>5. CASE (i <= Len(a) /\ ~(j <= Len(a))) \/ (j <= Len(a) /\ ~(i <= Len(a)))
    BY <1>2, <2>1, <2>2, <2>5
  <2>6. QED BY <2>3, <2>4, <2>5
<1>3. QED BY <1>1, <1>2 DEF Distinct, u

-----------------------------------------------------------------------------
(* RemoveAt and InsertAt.                                                  *)

\* What RemoveAt leaves.
LEMMA Removed ==
  ASSUME NEW X, NEW t \in Seq(X), NEW p \in 1 .. Len(t)
  PROVE  /\ RemoveAt(t, p) \in Seq(X) /\ Len(RemoveAt(t, p)) = Len(t) - 1
         /\ \A j \in 1 .. (Len(t) - 1) : RemoveAt(t, p)[j] = IF j < p THEN t[j] ELSE t[j + 1]
<1> DEFINE a == SubSeq(t, 1, p - 1)
           b == SubSeq(t, p + 1, Len(t))
<1>1. PICK n \in Nat : n = Len(t)
  OBVIOUS
<1>2. p \in 1 .. n /\ \A i \in 1 .. n : t[i] \in X
  BY <1>1
<1>3. a \in Seq(X) /\ Len(a) = p - 1 /\ \A j \in 1 .. (p - 1) : a[j] = t[j]
  BY <1>1, <1>2
<1>4. b \in Seq(X) /\ Len(b) = n - p /\ \A j \in 1 .. (n - p) : b[j] = t[j + p]
  BY <1>1, <1>2
<1>5. RemoveAt(t, p) = a \o b
  BY DEF RemoveAt
<1> HIDE DEF a, b
<1>6. /\ a \o b \in Seq(X) /\ Len(a \o b) = n - 1
      /\ \A j \in 1 .. (n - 1) : (a \o b)[j] = IF j <= p - 1 THEN a[j] ELSE b[j - (p - 1)]
  <2>0. a \in Seq(X) /\ b \in Seq(X)
    BY <1>3, <1>4
  <2>1. Len(a) = p - 1 /\ Len(b) = n - p /\ (p - 1) + (n - p) = n - 1
    BY <1>2, <1>3, <1>4
  <2>2. /\ a \o b \in Seq(X) /\ Len(a \o b) = Len(a) + Len(b)
        /\ \A j \in 1 .. Len(a \o b) : (a \o b)[j] = IF j <= Len(a) THEN a[j] ELSE b[j - Len(a)]
    BY <2>0
  <2>3. QED BY <2>1, <2>2
<1>7. ASSUME NEW j \in 1 .. (n - 1) PROVE (a \o b)[j] = IF j < p THEN t[j] ELSE t[j + 1]
  <2>1. CASE j < p
    <3>1. j <= p - 1 /\ j \in 1 .. (p - 1)
      BY <1>2, <2>1
    <3>2. QED BY <1>3, <1>6, <2>1, <3>1
  <2>2. CASE ~(j < p)
    <3>1. ~(j <= p - 1) /\ j - (p - 1) \in 1 .. (n - p) /\ (j - (p - 1)) + p = j + 1
      BY <1>2, <2>2
    <3>2. b[j - (p - 1)] = t[j + 1]
      BY <1>4, <3>1
    <3>3. QED BY <1>6, <2>2, <3>1, <3>2
  <2>3. QED BY <2>1, <2>2
<1>8. QED BY <1>1, <1>5, <1>6, <1>7

\* The sequence u is t with x at the place p.
With(u, X, t, p, x) ==
  /\ u \in Seq(X) /\ Len(u) = Len(t) + 1
  /\ \A j \in 1 .. (Len(t) + 1) : /\ j < p => u[j] = t[j]
                                  /\ j = p => u[j] = x
                                  /\ j > p => u[j] = t[j - 1]

\* That is what InsertAt returns.
LEMMA Inserted ==
  ASSUME NEW X, NEW t \in Seq(X), NEW p \in 1 .. Len(t), NEW x \in X
  PROVE  With(InsertAt(t, p, x), X, t, p, x)
<1> DEFINE a == SubSeq(t, 1, p - 1)
           c == SubSeq(t, p, Len(t))
           b == a \o <<x>>
<1>1. PICK n \in Nat : n = Len(t)
  OBVIOUS
<1>2. p \in 1 .. n /\ \A i \in 1 .. n : t[i] \in X
  BY <1>1
<1>3. a \in Seq(X) /\ Len(a) = p - 1 /\ \A j \in 1 .. (p - 1) : a[j] = t[j]
  BY <1>1, <1>2
<1>4. c \in Seq(X) /\ Len(c) = n - p + 1 /\ \A j \in 1 .. (n - p + 1) : c[j] = t[j + p - 1]
  BY <1>1, <1>2
<1>5. InsertAt(t, p, x) = (a \o <<x>>) \o c
  BY DEF InsertAt
<1> HIDE DEF a, c
<1>6. /\ b \in Seq(X) /\ Len(b) = p /\ b[p] = x
      /\ \A j \in 1 .. (p - 1) : b[j] = a[j]
  BY <1>2, <1>3
<1>7. InsertAt(t, p, x) = b \o c
  BY <1>5
<1> HIDE DEF b
<1>8. /\ b \o c \in Seq(X) /\ Len(b \o c) = n + 1
      /\ \A j \in 1 .. (n + 1) : (b \o c)[j] = IF j <= p THEN b[j] ELSE c[j - p]
  <2>0. b \in Seq(X) /\ c \in Seq(X)
    BY <1>4, <1>6
  <2>1. Len(b) = p /\ Len(c) = n - p + 1 /\ p + (n - p + 1) = n + 1
    BY <1>2, <1>4, <1>6
  <2>2. /\ b \o c \in Seq(X) /\ Len(b \o c) = Len(b) + Len(c)
        /\ \A j \in 1 .. Len(b \o c) : (b \o c)[j] = IF j <= Len(b) THEN b[j] ELSE c[j - Len(b)]
    BY <2>0
  <2>3. QED BY <2>1, <2>2
<1>9. ASSUME NEW j \in 1 .. (n + 1)
      PROVE  /\ j < p => (b \o c)[j] = t[j]
             /\ j = p => (b \o c)[j] = x
             /\ j > p => (b \o c)[j] = t[j - 1]
  <2>1. CASE j < p
    <3>1. j <= p /\ j \in 1 .. (p - 1)
      BY <1>2, <2>1
    <3>2. QED BY <1>3, <1>6, <1>8, <2>1, <3>1
  <2>2. CASE j = p
    <3>1. j <= p /\ ~(j < p)
      BY <1>2, <2>2
    <3>2. QED BY <1>6, <1>8, <2>2, <3>1
  <2>3. CASE j > p
    <3>1. ~(j <= p) /\ j # p /\ ~(j < p) /\ j - p \in 1 .. (n - p + 1) /\ (j - p) + p - 1 = j - 1
      BY <1>2, <2>3
    <3>2. c[j - p] = t[j - 1]
      BY <1>4, <3>1
    <3>3. QED BY <1>8, <3>1, <3>2
  <2>4. j < p \/ j = p \/ j > p
    BY <1>2
  <2>5. QED BY <2>1, <2>2, <2>3, <2>4
<1>10. QED BY <1>1, <1>7, <1>8, <1>9 DEF With

==============================================================================
