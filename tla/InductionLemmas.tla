-------------------------- MODULE InductionLemmas --------------------------
(***************************************************************************)
(* Induction on the natural numbers, stated over sets of numbers instead   *)
(* of predicates, and what follows with it about recursive operators:      *)
(* FlattenSeq, which the readings of the light are built from, and sums    *)
(* over sets, from which bytes are put together and errors are counted.    *)
(***************************************************************************)
EXTENDS SequencesExt, Integers, SequenceTheorems, FiniteSetTheorems, WellFoundedInduction, TLAPS

-----------------------------------------------------------------------------
(* Induction. *)

\* A set of numbers that is not empty has a least one.
LEMMA LeastNumber ==
    ASSUME NEW S, S \subseteq Nat, S # {}
    PROVE  \E least \in S : \A n \in S : least <= n
<1>1. PICK least \in S : \A n \in S : ~(<<n, least>> \in OpToRel(<, Nat))
  BY WFMin, NatLessThanWellFounded
<1>2. \A n \in S : ~(n < least)
  BY <1>1 DEF OpToRel
<1>3. \A n \in S : least <= n
  BY <1>2
<1> QED
  BY <1>3

\* A set that has 0 and with each number the next one has all of them.
LEMMA SetInduction ==
    ASSUME NEW S, 0 \in S, \A n \in Nat : n \in S => n + 1 \in S
    PROVE  Nat \subseteq S
<1> SUFFICES ASSUME Nat \ S # {} PROVE FALSE
  OBVIOUS
<1>1. PICK least \in Nat \ S : \A n \in Nat \ S : least <= n
  <2>1. Nat \ S \subseteq Nat
    OBVIOUS
  <2> QED
    BY <2>1, LeastNumber
<1>2. least \in Nat /\ least # 0
  OBVIOUS
<1>3. least - 1 \in Nat /\ least - 1 < least /\ (least - 1) + 1 = least
  BY <1>2
<1>4. least - 1 \in S
  BY <1>1, <1>3
<1> QED
  BY <1>3, <1>4

\* Division, by what it leaves.
LEMMA Quotient ==
    ASSUME NEW p \in Nat, p > 0, NEW q \in Nat, NEW r \in Nat, r < p
    PROVE  (p * q + r) \div p = q
OBVIOUS

\* Only one quotient and remainder make a number.
LEMMA Division ==
    ASSUME NEW v \in Nat, NEW p \in Nat, p > 0
    PROVE  /\ v \div p \in Nat
           /\ v = p * (v \div p) + (v % p)
           /\ v % p \in 0..(p - 1)
OBVIOUS

\* A bit more of a number.
LEMMA Halves ==
    ASSUME NEW v \in Nat, NEW p \in Nat, p > 0
    PROVE  v \div p = 2 * (v \div (2 * p)) + ((v \div p) % 2)
<1> DEFINE q == v \div p
           r == v % p
           h == q \div 2
           b == q % 2
<1>1. q \in Nat /\ r \in Nat /\ r < p /\ v = p * q + r
  BY Division
<1> HIDE DEF q, r
<1>2. h \in Nat /\ b \in {0, 1} /\ q = 2 * h + b
  BY <1>1
<1> HIDE DEF h, b
<1>3. v = (2 * p) * h + (p * b + r)
  BY <1>1, <1>2
<1>4. p * b + r \in Nat /\ p * b + r < 2 * p
  BY <1>1, <1>2
<1>5. v \div (2 * p) = h
  BY <1>2, <1>3, <1>4, Quotient, 2 * p \in Nat, 2 * p > 0
<1> QED
  BY <1>2, <1>5 DEF q, b

-----------------------------------------------------------------------------
(* FlattenSeq. *)

\* The partial results of FlattenSeq.
Joins(f, ss, n) == \A i \in 1..n : f[i] = IF i = 1 THEN ss[i] ELSE f[i - 1] \o ss[i]

\* Every sequence of sequences has them, up to any length.
LEMMA JoinsExist ==
    ASSUME NEW S, NEW ss \in Seq(Seq(S))
    PROVE  \A n \in 0..Len(ss) : \E f \in [1..n -> Seq(S)] : Joins(f, ss, n)
<1> DEFINE Good == {n \in Nat : n <= Len(ss) => \E f \in [1..n -> Seq(S)] : Joins(f, ss, n)}
<1>0. Len(ss) \in Nat /\ \A i \in 1..Len(ss) : ss[i] \in Seq(S)
  OBVIOUS
<1>1. 0 \in Good
  <2>1. [i \in 1..0 |-> ss[i]] \in [1..0 -> Seq(S)]
    OBVIOUS
  <2>2. Joins([i \in 1..0 |-> ss[i]], ss, 0)
    BY DEF Joins
  <2> QED
    BY <2>1, <2>2
<1>2. ASSUME NEW n \in Nat, n \in Good
      PROVE  n + 1 \in Good
  <2> SUFFICES ASSUME n + 1 <= Len(ss)
               PROVE  \E f \in [1..(n + 1) -> Seq(S)] : Joins(f, ss, n + 1)
    OBVIOUS
  <2>1. PICK g \in [1..n -> Seq(S)] : Joins(g, ss, n)
    BY <1>0, <1>2
  <2> DEFINE f == [i \in 1..(n + 1) |-> IF i <= n THEN g[i]
                     ELSE IF i = 1 THEN ss[i] ELSE g[i - 1] \o ss[i]]
  <2>2. \A i \in 1..(n + 1) : f[i] \in Seq(S)
    <3> SUFFICES ASSUME NEW i \in 1..(n + 1) PROVE f[i] \in Seq(S)
      OBVIOUS
    <3>1. CASE i <= n
      BY <3>1
    <3>2. CASE i = n + 1
      <4>1. ss[i] \in Seq(S)
        BY <1>0, <3>2
      <4>2. i # 1 => g[i - 1] \in Seq(S)
        BY <3>2
      <4>3. i # 1 => g[i - 1] \o ss[i] \in Seq(S)
        BY <4>1, <4>2, ConcatProperties
      <4> QED
        BY <3>2, <4>1, <4>3
    <3> QED
      BY <3>1, <3>2
  <2>3. f \in [1..(n + 1) -> Seq(S)]
    BY <2>2
  <2>4. ASSUME NEW i \in 1..(n + 1)
        PROVE  f[i] = IF i = 1 THEN ss[i] ELSE f[i - 1] \o ss[i]
    <3>1. CASE i <= n
      <4>1. i \in 1..n /\ (i # 1 => i - 1 \in 1..n)
        BY <3>1
      <4>2. f[i] = g[i] /\ (i # 1 => f[i - 1] = g[i - 1])
        BY <4>1
      <4>3. g[i] = IF i = 1 THEN ss[i] ELSE g[i - 1] \o ss[i]
        BY <2>1, <4>1 DEF Joins
      <4> QED
        BY <4>2, <4>3
    <3>2. CASE i = n + 1
      <4>1. f[i] = IF i = 1 THEN ss[i] ELSE g[i - 1] \o ss[i]
        BY <3>2
      <4>2. i # 1 => f[i - 1] = g[i - 1]
        BY <3>2
      <4> QED
        BY <4>1, <4>2
    <3> QED
      BY <3>1, <3>2
  <2>5. Joins(f, ss, n + 1)
    BY <2>4 DEF Joins
  <2> QED
    BY <2>3, <2>5
<1> HIDE DEF Good
<1>3. Nat \subseteq Good
  BY <1>1, <1>2, SetInduction
<1> QED
  BY <1>0, <1>3 DEF Good

\* They are determined by the sequence.
LEMMA JoinsAgree ==
    ASSUME NEW n \in Nat, NEW f, NEW g, NEW ss, NEW tt,
           Joins(f, ss, n), Joins(g, tt, n), \A i \in 1..n : ss[i] = tt[i]
    PROVE  \A i \in 1..n : f[i] = g[i]
<1> DEFINE Good == {i \in Nat : i \in 1..n => f[i] = g[i]}
<1>1. 0 \in Good
  OBVIOUS
<1>2. ASSUME NEW i \in Nat, i \in Good
      PROVE  i + 1 \in Good
  <2> SUFFICES ASSUME i + 1 \in 1..n PROVE f[i + 1] = g[i + 1]
    OBVIOUS
  <2>1. /\ f[i + 1] = IF i + 1 = 1 THEN ss[i + 1] ELSE f[i + 1 - 1] \o ss[i + 1]
        /\ g[i + 1] = IF i + 1 = 1 THEN tt[i + 1] ELSE g[i + 1 - 1] \o tt[i + 1]
    BY DEF Joins
  <2>2. CASE i = 0
    BY <2>1, <2>2
  <2>3. CASE i # 0
    BY <1>2, <2>1, <2>3
  <2> QED
    BY <2>2, <2>3
<1> HIDE DEF Good
<1>3. Nat \subseteq Good
  BY <1>1, <1>2, SetInduction
<1> QED
  BY <1>3 DEF Good

\* FlattenSeq is the last of them.
LEMMA FlattenIsLastJoin ==
    ASSUME NEW S, NEW ss \in Seq(Seq(S)), ss # <<>>
    PROVE  \E f \in [1..Len(ss) -> Seq(S)] : Joins(f, ss, Len(ss)) /\ FlattenSeq(ss) = f[Len(ss)]
<1>1. Len(ss) \in Nat /\ Len(ss) # 0
  BY EmptySeq
<1> DEFINE Fixed(f) == f = [i \in 1..Len(ss) |-> IF i = 1 THEN ss[i] ELSE f[i - 1] \o ss[i]]
           flatten == CHOOSE f : Fixed(f)
<1>2. PICK g \in [1..Len(ss) -> Seq(S)] : Joins(g, ss, Len(ss))
  BY SMTT(30), <1>1, JoinsExist
<1>3. Fixed(g)
  BY <1>2 DEF Joins
<1>4. Fixed(flatten)
  BY <1>3
<1>5. FlattenSeq(ss) = flatten[Len(ss)]
  BY <1>1 DEF FlattenSeq
<1> HIDE DEF flatten
<1>6. Joins(flatten, ss, Len(ss))
  BY <1>4 DEF Joins
<1>7. \A i \in 1..Len(ss) : flatten[i] = g[i]
  BY <1>1, <1>2, <1>6, JoinsAgree
<1> QED
  BY SMTT(30), <1>1, <1>2, <1>5, <1>7

\* Joining sequences over a set gives a sequence over that set.
LEMMA FlattenType ==
    ASSUME NEW S, NEW ss \in Seq(Seq(S))
    PROVE  FlattenSeq(ss) \in Seq(S)
<1>1. CASE ss = <<>>
  <2>1. FlattenSeq(ss) = <<>>
    BY <1>1, Len(<<>>) = 0 DEF FlattenSeq
  <2> QED
    BY <2>1
<1>2. CASE ss # <<>>
  <2>1. Len(ss) \in 1..Len(ss)
    BY <1>2, EmptySeq
  <2> QED
    BY SMTT(30), <1>2, <2>1, FlattenIsLastJoin
<1> QED
  BY <1>1, <1>2

\* One sequence more at the end of the list is joined last.
LEMMA FlattenAppend ==
    ASSUME NEW S, NEW ss \in Seq(Seq(S)), NEW s \in Seq(S)
    PROVE  FlattenSeq(Append(ss, s)) = FlattenSeq(ss) \o s
<1> DEFINE tt == Append(ss, s)
           n == Len(ss)
<1>1. /\ tt \in Seq(Seq(S)) /\ tt # <<>> /\ Len(tt) = n + 1 /\ n \in Nat
      /\ tt[n + 1] = s
      /\ \A i \in 1..n : tt[i] = ss[i]
  BY AppendProperties
<1> HIDE DEF tt
<1>2. PICK g \in [1..(n + 1) -> Seq(S)] : Joins(g, tt, n + 1) /\ FlattenSeq(tt) = g[n + 1]
  BY <1>1, FlattenIsLastJoin
<1>3. CASE n = 0
  <2>1. ss = <<>>
    BY <1>3, EmptySeq
  <2>2. FlattenSeq(ss) = <<>>
    BY <2>1, Len(<<>>) = 0 DEF FlattenSeq
  <2>3. FlattenSeq(tt) = s
    BY <1>1, <1>2, <1>3 DEF Joins
  <2> QED
    BY <2>2, <2>3, ConcatEmptySeq DEF tt
<1>4. CASE n # 0
  <2>1. ss # <<>>
    BY <1>4, EmptySeq
  <2>2. PICK f \in [1..n -> Seq(S)] : Joins(f, ss, n) /\ FlattenSeq(ss) = f[n]
    BY <2>1, FlattenIsLastJoin
  <2>3. Joins(g, tt, n)
    <3>1. \A i \in 1..n : i \in 1..(n + 1)
      BY <1>1
    <3> QED
      BY <1>2, <3>1 DEF Joins
  <2> HIDE DEF n
  <2>4. f[n] = g[n]
    <3>1. n \in 1..n
      BY <1>1, <1>4
    <3>2. \A i \in 1..n : f[i] = g[i]
      <4>1. n \in Nat /\ \A i \in 1..n : ss[i] = tt[i]
        BY <1>1
      <4>2. Joins(f, ss, n) /\ Joins(g, tt, n)
        BY <2>2, <2>3
      <4> QED
        BY ZenonT(60), <4>1, <4>2, JoinsAgree
    <3> QED
      BY <3>1, <3>2
  <2>5. g[n + 1] = g[n] \o tt[n + 1]
    <3>1. n + 1 \in 1..(n + 1) /\ n + 1 # 1 /\ (n + 1) - 1 = n
      BY <1>1, <1>4
    <3>2. g[n + 1] = IF n + 1 = 1 THEN tt[n + 1] ELSE g[(n + 1) - 1] \o tt[n + 1]
      BY <1>2, <3>1 DEF Joins
    <3> QED
      BY <3>1, <3>2
  <2> QED
    BY <1>1, <1>2, <2>2, <2>4, <2>5 DEF tt
<1> QED
  BY <1>3, <1>4

\* A list of sequences of one length joined: each element where its sequence puts it.
Uniform(ss, w) == \A b \in 1..Len(ss) : Len(ss[b]) = w
Placed(joined, ss, w) ==
    /\ Len(joined) = w * Len(ss)
    /\ \A b \in 1..Len(ss) : \A k \in 1..w : joined[w * (b - 1) + k] = ss[b][k]

LEMMA FlattenUniform ==
    ASSUME NEW S, NEW w \in Nat, NEW ss \in Seq(Seq(S)), Uniform(ss, w)
    PROVE  Placed(FlattenSeq(ss), ss, w)
<1> DEFINE Good == {n \in Nat : \A tt \in Seq(Seq(S)) :
                      Len(tt) = n /\ Uniform(tt, w) => Placed(FlattenSeq(tt), tt, w)}
<1>1. 0 \in Good
  <2> SUFFICES ASSUME NEW tt \in Seq(Seq(S)), Len(tt) = 0 PROVE Placed(FlattenSeq(tt), tt, w)
    OBVIOUS
  <2>1. tt = <<>>
    BY EmptySeq
  <2>2. FlattenSeq(tt) = <<>>
    BY <2>1, Len(<<>>) = 0 DEF FlattenSeq
  <2> QED
    BY <2>2 DEF Placed
<1>2. ASSUME NEW n \in Nat, n \in Good
      PROVE  n + 1 \in Good
  <2> SUFFICES ASSUME NEW tt \in Seq(Seq(S)), Len(tt) = n + 1, Uniform(tt, w) PROVE Placed(FlattenSeq(tt), tt, w)
    OBVIOUS
  <2> DEFINE front == SubSeq(tt, 1, n)
             last == tt[n + 1]
  <2>1. /\ front \in Seq(Seq(S)) /\ Len(front) = n /\ last \in Seq(S) /\ Len(last) = w
        /\ \A b \in 1..n : front[b] = tt[b]
        /\ tt = Append(front, last)
    BY DEF Uniform
  <2> HIDE DEF front, last
  <2>2. Uniform(front, w)
    BY <2>1 DEF Uniform
  <2>3. Placed(FlattenSeq(front), front, w)
    BY <1>2, <2>1, <2>2
  <2> HIDE DEF Good
  <2> DEFINE joined == FlattenSeq(front)
  <2>4. FlattenSeq(tt) = joined \o last
    BY <2>1, FlattenAppend
  <2>5. joined \in Seq(S) /\ Len(joined) = w * n
    BY <2>1, <2>3, FlattenType DEF Placed
  <2>6. w * n \in Nat /\ w * (n + 1) = w * n + w
    OBVIOUS
  <2>7. Len(FlattenSeq(tt)) = w * Len(tt)
    <3>1. Len(joined \o last) = Len(joined) + Len(last)
      BY <2>1, <2>5, ConcatProperties
    <3> HIDE DEF joined
    <3>2. Len(FlattenSeq(tt)) = w * n + w
      BY <2>1, <2>4, <2>5, <3>1
    <3> QED
      BY <2>6, <3>2
  <2>8. ASSUME NEW b \in 1..Len(tt), NEW k \in 1..w
        PROVE  FlattenSeq(tt)[w * (b - 1) + k] = tt[b][k]
    <3>1. CASE b = n + 1
      <4>1. w * (b - 1) + k = Len(joined) + k
        BY <3>1, <2>5
      <4>2. (joined \o last)[Len(joined) + k] = last[k]
        <5>1. Len(joined) \in Nat /\ k \in 1..Len(last) /\ k \in Nat
          BY <2>1, <2>5
        <5> HIDE DEF joined
        <5>2. /\ Len(joined) + k \in 1..(Len(joined) + Len(last))
              /\ ~(Len(joined) + k <= Len(joined)) /\ (Len(joined) + k) - Len(joined) = k
          BY <2>1, <5>1
        <5>3. \A i \in 1..(Len(joined) + Len(last)) :
                (joined \o last)[i] = IF i <= Len(joined) THEN joined[i]
                                                         ELSE last[i - Len(joined)]
          BY <2>1, <2>5, ConcatProperties
        <5> QED
          BY <5>2, <5>3
      <4> QED
        BY <3>1, <4>1, <4>2, <2>4 DEF last
    <3>2. CASE b # n + 1
      <4>1. b \in 1..n /\ b - 1 \in Nat /\ b \in Nat
        BY <3>2
      <4>2. w * (b - 1) + k \in 1..Len(joined)
        <5>1. w * (b - 1) \in Nat /\ w * b = w * (b - 1) + w
          BY <4>1
        <5>2. w * n = w * b + w * (n - b) /\ w * (n - b) \in Nat /\ w * b \in Nat
          BY <4>1
        <5> DEFINE x == w * (b - 1)
                   y == w * (n - b)
        <5>3. x \in Nat /\ y \in Nat /\ Len(joined) = x + w + y /\ k \in 1..w
          BY <5>1, <5>2, <2>5
        <5> HIDE DEF x, y, joined
        <5>4. x + k \in 1..Len(joined)
          BY <5>3
        <5> QED
          BY <5>4 DEF x
      <4>3. (joined \o last)[w * (b - 1) + k] = joined[w * (b - 1) + k]
        BY <4>2, <2>1, <2>5
      <4> QED
        BY <4>1, <4>3, <2>1, <2>3, <2>4 DEF Placed
    <3> QED
      BY <3>1, <3>2
  <2> QED
    BY <2>7, <2>8 DEF Placed
<1> HIDE DEF Good
<1>3. Nat \subseteq Good
  BY <1>1, <1>2, SetInduction
<1>4. Len(ss) \in Good
  BY <1>3
<1> QED
  BY <1>4 DEF Good

-----------------------------------------------------------------------------
(* Sums over sets. *)

\* A sum that takes the elements of each set one by one, in the order of CHOOSE.
Least(s) == CHOOSE x \in s : TRUE
SumsUp(f, g, S) ==
    \A s \in S : f[s] = IF s = {} THEN 0 ELSE g[Least(s)] + f[s \ {Least(s)}]
TakesSums(f, g, S) ==
    f \in [SUBSET S -> Int] /\ SumsUp(f, g, SUBSET S) /\ \A x \in S : g[x] \in Int
UpTo(S, n) == {s \in SUBSET S : Cardinality(s) <= n}

\* One element taken out, a set has one element less.
LEMMA OneLess ==
    ASSUME NEW S, IsFiniteSet(S), NEW n \in Nat, NEW s \in UpTo(S, n + 1), NEW x \in s
    PROVE  s \ {x} \in UpTo(S, n) /\ Cardinality(s) = Cardinality(s \ {x}) + 1
<1>1. IsFiniteSet(s)
  BY FS_Subset DEF UpTo
<1>2. Cardinality(s \ {x}) = Cardinality(s) - 1 /\ Cardinality(s) \in Nat
  BY <1>1, FS_RemoveElement, FS_CardinalityType
<1> QED
  BY <1>2 DEF UpTo

\* No part of a finite set is larger than it.
LEMMA AllUpTo ==
    ASSUME NEW S, IsFiniteSet(S)
    PROVE  Cardinality(S) \in Nat /\ UpTo(S, Cardinality(S)) = SUBSET S
<1>1. Cardinality(S) \in Nat /\ \A s \in SUBSET S : Cardinality(s) <= Cardinality(S)
  BY FS_Subset, FS_CardinalityType
<1> QED
  BY <1>1 DEF UpTo

\* There is a function with the sums of all sets up to any size.
LEMMA SumsExist ==
    ASSUME NEW S, IsFiniteSet(S), NEW g, \A x \in S : g[x] \in Int
    PROVE  \E f \in [SUBSET S -> Int] : SumsUp(f, g, SUBSET S)
<1> DEFINE Good == {n \in Nat : \E f \in [UpTo(S, n) -> Int] : SumsUp(f, g, UpTo(S, n))}
<1>1. 0 \in Good
  <2>1. \A s \in UpTo(S, 0) : s = {}
    <3> SUFFICES ASSUME NEW s \in UpTo(S, 0) PROVE s = {}
      OBVIOUS
    <3>1. IsFiniteSet(s) /\ Cardinality(s) <= 0 /\ Cardinality(s) \in Nat
      BY FS_Subset, FS_CardinalityType DEF UpTo
    <3> QED
      BY <3>1, FS_EmptySet
  <2>2. [s \in UpTo(S, 0) |-> 0] \in [UpTo(S, 0) -> Int]
    OBVIOUS
  <2>3. SumsUp([s \in UpTo(S, 0) |-> 0], g, UpTo(S, 0))
    BY <2>1 DEF SumsUp
  <2> QED
    BY <2>2, <2>3
<1>2. ASSUME NEW n \in Nat, n \in Good
      PROVE  n + 1 \in Good
  <2>1. PICK f \in [UpTo(S, n) -> Int] : SumsUp(f, g, UpTo(S, n))
    BY <1>2
  <2> DEFINE h == [s \in UpTo(S, n + 1) |->
                     IF s = {} THEN 0 ELSE g[Least(s)] + f[s \ {Least(s)}]]
  <2>2. ASSUME NEW s \in UpTo(S, n + 1), s # {}
        PROVE  Least(s) \in s /\ Least(s) \in S /\ s \ {Least(s)} \in UpTo(S, n)
    <3>1. Least(s) \in s
      BY <2>2 DEF Least
    <3> QED
      BY <2>2, <3>1, OneLess DEF UpTo
  <2>3. h \in [UpTo(S, n + 1) -> Int]
    BY <2>2
  <2>4. \A s \in UpTo(S, n) : s \in UpTo(S, n + 1) /\ h[s] = f[s]
    <3>1. \A s \in UpTo(S, n) : s \in UpTo(S, n + 1)
      <4> SUFFICES ASSUME NEW s \in UpTo(S, n) PROVE s \in UpTo(S, n + 1)
        OBVIOUS
      <4>1. IsFiniteSet(s) /\ Cardinality(s) <= n /\ Cardinality(s) \in Nat
        BY FS_Subset, FS_CardinalityType DEF UpTo
      <4> QED
        BY <4>1 DEF UpTo
    <3> QED
      BY <2>1, <3>1 DEF SumsUp
  <2>5. SumsUp(h, g, UpTo(S, n + 1))
    <3> SUFFICES ASSUME NEW s \in UpTo(S, n + 1)
                 PROVE  h[s] = IF s = {} THEN 0 ELSE g[Least(s)] + h[s \ {Least(s)}]
      BY DEF SumsUp
    <3>1. h[s] = IF s = {} THEN 0 ELSE g[Least(s)] + f[s \ {Least(s)}]
      OBVIOUS
    <3> HIDE DEF h
    <3> QED
      BY <2>2, <2>4, <3>1
  <2> HIDE DEF h
  <2> QED
    BY <2>3, <2>5
<1> HIDE DEF Good
<1>3. Nat \subseteq Good
  BY <1>1, <1>2, SetInduction
<1>4. Cardinality(S) \in Good
  BY <1>3, AllUpTo
<1>5. \E f \in [UpTo(S, Cardinality(S)) -> Int] : SumsUp(f, g, UpTo(S, Cardinality(S)))
  BY <1>4 DEF Good
<1>6. UpTo(S, Cardinality(S)) = SUBSET S
  BY AllUpTo
<1> QED
  BY <1>5, <1>6

\* The elements decide it.
LEMMA SumsAgree ==
    ASSUME NEW S, IsFiniteSet(S), NEW T, NEW U, S \subseteq T, S \subseteq U,
           NEW f, NEW g, NEW e, NEW h,
           SumsUp(f, g, SUBSET T), SumsUp(e, h, SUBSET U), \A x \in S : g[x] = h[x]
    PROVE  f[S] = e[S]
<1> DEFINE Good == {n \in Nat : \A s \in UpTo(S, n) : f[s] = e[s]}
<1>0. ASSUME NEW s, s \subseteq S
      PROVE  /\ s = {} => f[s] = 0 /\ e[s] = 0
             /\ s # {} => /\ Least(s) \in s
                          /\ f[s] = g[Least(s)] + f[s \ {Least(s)}]
                          /\ e[s] = g[Least(s)] + e[s \ {Least(s)}]
  <2>1. s \in SUBSET T /\ s \in SUBSET U
    BY <1>0
  <2>2. s # {} => Least(s) \in s
    BY DEF Least
  <2> QED
    BY <1>0, <2>1, <2>2 DEF SumsUp
<1>1. 0 \in Good
  <2> SUFFICES ASSUME NEW s \in UpTo(S, 0) PROVE s = {}
    BY <1>0
  <2>1. IsFiniteSet(s) /\ Cardinality(s) <= 0 /\ Cardinality(s) \in Nat
    BY FS_Subset, FS_CardinalityType DEF UpTo
  <2> QED
    BY <2>1, FS_EmptySet
<1>2. ASSUME NEW n \in Nat, n \in Good
      PROVE  n + 1 \in Good
  <2> SUFFICES ASSUME NEW s \in UpTo(S, n + 1) PROVE f[s] = e[s]
    OBVIOUS
  <2>1. s \subseteq S
    BY DEF UpTo
  <2>2. CASE s = {}
    BY <1>0, <2>1, <2>2
  <2>3. CASE s # {}
    <3>1. Least(s) \in s
      BY <1>0, <2>1, <2>3
    <3>2. s \ {Least(s)} \in UpTo(S, n)
      BY <3>1, OneLess
    <3>3. f[s \ {Least(s)}] = e[s \ {Least(s)}]
      BY <1>2, <3>2
    <3> QED
      BY <1>0, <2>1, <2>3, <3>3
  <2> QED
    BY <2>2, <2>3
<1> HIDE DEF Good
<1>3. Nat \subseteq Good
  BY <1>1, <1>2, SetInduction
<1>4. S \in UpTo(S, Cardinality(S)) /\ Cardinality(S) \in Nat
  BY AllUpTo
<1> QED
  BY <1>3, <1>4 DEF Good

\* In which order does not matter.
LEMMA SumsCommute ==
    ASSUME NEW S, IsFiniteSet(S), NEW f, NEW g, TakesSums(f, g, S), NEW y \in S
    PROVE  f[S] = g[y] + f[S \ {y}]
<1>0. f \in [SUBSET S -> Int] /\ SumsUp(f, g, SUBSET S) /\ \A x \in S : g[x] \in Int
  BY DEF TakesSums
<1> DEFINE Good == {n \in Nat : \A s \in UpTo(S, n) : \A x \in s : f[s] = g[x] + f[s \ {x}]}
<1>1. 0 \in Good
  <2> SUFFICES ASSUME NEW s \in UpTo(S, 0) PROVE s = {}
    OBVIOUS
  <2>1. IsFiniteSet(s) /\ Cardinality(s) <= 0 /\ Cardinality(s) \in Nat
    BY FS_Subset, FS_CardinalityType DEF UpTo
  <2> QED
    BY <2>1, FS_EmptySet
<1>2. ASSUME NEW n \in Nat, n \in Good
      PROVE  n + 1 \in Good
  <2> SUFFICES ASSUME NEW s \in UpTo(S, n + 1), NEW x \in s
               PROVE  f[s] = g[x] + f[s \ {x}]
    OBVIOUS
  <2> DEFINE least == Least(s)
  <2>1. s \subseteq S /\ least \in s /\ f[s] = g[least] + f[s \ {least}]
    <3>1. least \in s
      BY DEF Least
    <3> QED
      BY <1>0, <3>1 DEF UpTo, SumsUp
  <2> HIDE DEF least
  <2>2. CASE x = least
    BY <2>1, <2>2
  <2>3. CASE x # least
    <3>1. s \ {least} \in UpTo(S, n) /\ s \ {x} \in UpTo(S, n)
      BY <2>1, OneLess
    <3>2. x \in s \ {least} /\ least \in s \ {x}
      BY <2>1, <2>3
    <3>3. f[s \ {least}] = g[x] + f[(s \ {least}) \ {x}]
      BY <1>2, <3>1, <3>2
    <3>4. f[s \ {x}] = g[least] + f[(s \ {x}) \ {least}]
      BY <1>2, <3>1, <3>2
    <3>5. (s \ {x}) \ {least} = (s \ {least}) \ {x}
      OBVIOUS
    <3>6. g[x] \in Int /\ g[least] \in Int /\ f[(s \ {least}) \ {x}] \in Int
      BY <1>0, <2>1
    <3>7. f[s] = g[least] + (g[x] + f[(s \ {least}) \ {x}])
      BY <2>1, <3>3
    <3>8. f[s \ {x}] = g[least] + f[(s \ {least}) \ {x}]
      BY <3>4, <3>5
    <3> QED
      BY <3>6, <3>7, <3>8
  <2> QED
    BY <2>2, <2>3
<1> HIDE DEF Good
<1>3. Nat \subseteq Good
  BY <1>1, <1>2, SetInduction
<1>4. S \in UpTo(S, Cardinality(S)) /\ Cardinality(S) \in Nat
  BY AllUpTo
<1> QED
  BY <1>3, <1>4 DEF Good

Unfolds(iter, g, S) ==
    iter = [s \in SUBSET S |-> IF s = {} THEN 0 ELSE g[Least(s)] + iter[s \ {Least(s)}]]

\* The sum over a set is such a sum.
LEMMA SumIsSum ==
    ASSUME NEW S, IsFiniteSet(S), NEW g, \A x \in S : g[x] \in Int
    PROVE  \E f \in [SUBSET S -> Int] : SumsUp(f, g, SUBSET S) /\ SumFunctionOnSet(g, S) = f[S]
<1> DEFINE iter == CHOOSE iter : Unfolds(iter, g, S)
<1>1. SumFunctionOnSet(g, S) = iter[S]
  BY DEF SumFunctionOnSet, FoldFunctionOnSet, MapThenFoldSet, Unfolds, Least
<1>2. PICK f \in [SUBSET S -> Int] : SumsUp(f, g, SUBSET S)
  BY SumsExist
<1>3. Unfolds(f, g, S)
  BY <1>2 DEF SumsUp, Unfolds
<1>4. Unfolds(iter, g, S)
  BY <1>3
<1> HIDE DEF iter
<1>5. SumsUp(iter, g, SUBSET S)
  BY <1>4 DEF SumsUp, Unfolds
<1>6. iter[S] = f[S]
  BY <1>2, <1>5, SumsAgree
<1> QED
  BY <1>1, <1>2, <1>6

\* A sum of integers is one.
LEMMA SumType ==
    ASSUME NEW S, IsFiniteSet(S), NEW g, \A x \in S : g[x] \in Int
    PROVE  SumFunctionOnSet(g, S) \in Int
<1>1. PICK f \in [SUBSET S -> Int] : SumFunctionOnSet(g, S) = f[S]
  BY SumIsSum
<1> QED
  BY <1>1

\* The sum over no element is zero.
LEMMA SumEmpty ==
    ASSUME NEW g
    PROVE  SumFunctionOnSet(g, {}) = 0
<1>1. IsFiniteSet({})
  BY FS_EmptySet
<1>2. PICK f \in [SUBSET {} -> Int] : SumsUp(f, g, SUBSET {}) /\ SumFunctionOnSet(g, {}) = f[{}]
  BY <1>1, SumIsSum
<1> QED
  BY <1>2 DEF SumsUp

\* Sums of the same numbers are the same.
LEMMA SumSame ==
    ASSUME NEW S, IsFiniteSet(S), NEW g, NEW h, \A x \in S : g[x] \in Int /\ g[x] = h[x]
    PROVE  SumFunctionOnSet(g, S) = SumFunctionOnSet(h, S)
<1>1. PICK f \in [SUBSET S -> Int] : SumsUp(f, g, SUBSET S) /\ SumFunctionOnSet(g, S) = f[S]
  BY SumIsSum
<1>2. \A x \in S : h[x] \in Int
  OBVIOUS
<1>3. PICK e \in [SUBSET S -> Int] : SumsUp(e, h, SUBSET S) /\ SumFunctionOnSet(h, S) = e[S]
  BY <1>2, SumIsSum
<1>4. f[S] = e[S]
  BY <1>1, <1>3, SumsAgree
<1> QED
  BY <1>1, <1>3, <1>4

\* One element is taken out.
LEMMA SumRemove ==
    ASSUME NEW S, IsFiniteSet(S), NEW y \in S, NEW g, \A x \in S : g[x] \in Int
    PROVE  SumFunctionOnSet(g, S) = g[y] + SumFunctionOnSet(g, S \ {y})
<1> DEFINE rest == S \ {y}
<1>1. IsFiniteSet(rest) /\ rest \subseteq S
  BY FS_RemoveElement
<1>2. PICK f \in [SUBSET S -> Int] : SumsUp(f, g, SUBSET S) /\ SumFunctionOnSet(g, S) = f[S]
  BY SumIsSum
<1>3. f[S] = g[y] + f[rest]
  <2>1. TakesSums(f, g, S)
    BY <1>2 DEF TakesSums
  <2> QED
    BY <2>1, SumsCommute
<1> HIDE DEF rest
<1>4. PICK e \in [SUBSET rest -> Int] :
           SumsUp(e, g, SUBSET rest) /\ SumFunctionOnSet(g, rest) = e[rest]
  BY <1>1, SumIsSum
<1>5. f[rest] = e[rest]
  BY SMTT(30), <1>1, <1>2, <1>4, SumsAgree
<1> QED
  BY <1>2, <1>3, <1>4, <1>5 DEF rest

\* One element more is added.
LEMMA SumAdd ==
    ASSUME NEW S, IsFiniteSet(S), NEW y, y \notin S, NEW g, \A x \in S \cup {y} : g[x] \in Int
    PROVE  SumFunctionOnSet(g, S \cup {y}) = g[y] + SumFunctionOnSet(g, S)
<1>1. IsFiniteSet(S \cup {y}) /\ y \in S \cup {y} /\ (S \cup {y}) \ {y} = S
  BY FS_AddElement
<1>2. SumFunctionOnSet(g, S \cup {y})
        = g[y] + SumFunctionOnSet(g, (S \cup {y}) \ {y})
  BY <1>1, SumRemove
<1> QED
  BY <1>1, <1>2

\* The sum of the first numbers of a sequence, one more at a time.
LEMMA SumNext ==
    ASSUME NEW n \in Nat, NEW g, \A i \in 1..(n + 1) : g[i] \in Int
    PROVE  SumFunctionOnSet(g, 1..(n + 1)) = g[n + 1] + SumFunctionOnSet(g, 1..n)
<1>1. IsFiniteSet(1..n)
  BY FS_Interval
<1>2. 1..(n + 1) = 1..n \cup {n + 1} /\ n + 1 \notin 1..n
  OBVIOUS
<1>3. \A i \in 1..n \cup {n + 1} : g[i] \in Int
  BY <1>2
<1>4. SumFunctionOnSet(g, 1..n \cup {n + 1}) = g[n + 1] + SumFunctionOnSet(g, 1..n)
  BY <1>1, <1>2, <1>3, SumAdd
<1> QED
  BY <1>2, <1>4
=============================================================================
