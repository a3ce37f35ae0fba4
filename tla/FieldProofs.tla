---------------------------- MODULE FieldProofs ----------------------------
(***************************************************************************)
(* That the tables of field.h are those of a field, whatever its width and *)
(* primitive polynomial, and what polynomial.c computes with them: sums,   *)
(* values, remainders, polynomials made from roots, feedback registers.    *)
(* Addition is exclusive or, bit by bit; multiplication by alpha moves the *)
(* bits up and adds the polynomial on overflow, so that it distributes;    *)
(* every element but 0 is a power of alpha, so that multiplication does.   *)
(* Behind these, why a decoder works: a polynomial divides by its roots    *)
(* and has no more of them than its order; sums of different powers        *)
(* determine their weights, and so the registers that describe them;       *)
(* Forney's formula finds the weights.                                     *)
(***************************************************************************)
EXTENDS Polynomial, InductionLemmas

-----------------------------------------------------------------------------
(* Recursion. *)

\* h goes from a on, by g from one number to the next.
Recurs(h, a, g, N) == \A k \in 0..N : h[k] = IF k = 0 THEN a ELSE g[k][h[k - 1]]

\* What is defined from one number to the next exists, up to any length.
LEMMA RecursionExists ==
    ASSUME NEW S, NEW a \in S, NEW N \in Nat, NEW g \in [1..N -> [S -> S]]
    PROVE  \E h \in [0..N -> S] : Recurs(h, a, g, N)
<1> DEFINE Holds(n, h) == \A k \in 0..n : h[k] = IF k = 0 THEN a ELSE g[k][h[k - 1]]
           Good == {n \in Nat : n <= N => \E h \in [0..n -> S] : Holds(n, h)}
<1>1. 0 \in Good
  <2>1. [k \in 0..0 |-> a] \in [0..0 -> S]
    OBVIOUS
  <2>2. Holds(0, [k \in 0..0 |-> a])
    OBVIOUS
  <2> QED
    BY <2>1, <2>2
<1>2. ASSUME NEW n \in Nat, n \in Good
      PROVE  n + 1 \in Good
  <2> SUFFICES ASSUME n + 1 <= N
               PROVE  \E h \in [0..(n + 1) -> S] : Holds(n + 1, h)
    OBVIOUS
  <2>1. PICK f \in [0..n -> S] : Holds(n, f)
    BY <1>2
  <2> DEFINE h == [k \in 0..(n + 1) |-> IF k = n + 1 THEN g[n + 1][f[n]] ELSE f[k]]
  <2>2. f[n] \in S /\ n + 1 \in 1..N
    OBVIOUS
  <2>3. g[n + 1][f[n]] \in S
    BY <2>2
  <2>4. h \in [0..(n + 1) -> S]
    <3>1. ASSUME NEW k \in 0..(n + 1) PROVE h[k] \in S
      <4>1. CASE k = n + 1
        BY <2>3, <4>1
      <4>2. CASE k # n + 1
        <5>1. k \in 0..n
          BY <4>2
        <5> QED
          BY <4>2, <5>1
      <4> QED
        BY <4>1, <4>2
    <3> QED
      BY <3>1
  <2>5. ASSUME NEW k \in 0..(n + 1)
        PROVE  h[k] = IF k = 0 THEN a ELSE g[k][h[k - 1]]
    <3>1. CASE k = n + 1
      <4>1. k # 0 /\ k - 1 = n /\ n \in 0..(n + 1) /\ n # n + 1
        BY <3>1
      <4> QED
        BY <3>1, <4>1
    <3>2. CASE k # n + 1
      <4>1. k \in 0..n /\ (k # 0 => k - 1 \in 0..(n + 1) /\ k - 1 # n + 1)
        BY <3>2
      <4>2. f[k] = IF k = 0 THEN a ELSE g[k][f[k - 1]]
        BY <2>1, <4>1
      <4>3. h[k] = f[k] /\ (k # 0 => h[k - 1] = f[k - 1])
        BY <3>2, <4>1
      <4> QED
        BY <4>2, <4>3
    <3> QED
      BY <3>1, <3>2
  <2>6. Holds(n + 1, h)
    BY <2>5
  <2> QED
    BY <2>4, <2>6
<1> HIDE DEF Good
<1>3. Nat \subseteq Good
  BY <1>1, <1>2, SetInduction
<1>4. PICK h \in [0..N -> S] : Holds(N, h)
  <2>1. N \in Good /\ N <= N
    BY <1>3
  <2> QED
    BY <2>1 DEF Good
<1> QED
  BY <1>4 DEF Recurs

-----------------------------------------------------------------------------
(* Powers of two and bits. *)

\* The powers of two are positive numbers, and the last is one above the elements.
LEMMA PowersOfTwo ==
    /\ Width \in Nat /\ Width > 0
    /\ \A k \in 0..Width : 2^k \in Nat /\ 2^k > 0
    /\ 2^0 = 1
    /\ \A k \in 0..(Width - 1) : 2^(k + 1) = 2 * 2^k
    /\ Top \in Nat /\ Top > 0 /\ 2^Width = Top + 1
    /\ Element = 0..Top /\ Element \ {0} = 1..Top
<1> DEFINE Good == {k \in Nat : k <= Width => 2^k \in Nat /\ 2^k > 0}
<1>0. Width \in Nat /\ Width > 0 /\ 2^0 = 1 /\ \A k \in 0..(Width - 1) : 2^(k + 1) = 2 * 2^k
  BY FieldAssumption
<1>1. 0 \in Good
  BY <1>0
<1>2. ASSUME NEW k \in Nat, k \in Good
      PROVE  k + 1 \in Good
  <2> SUFFICES ASSUME k + 1 <= Width
               PROVE  2^(k + 1) \in Nat /\ 2^(k + 1) > 0
    OBVIOUS
  <2>1. 2^(k + 1) = 2 * 2^k
    BY <1>0
  <2>2. 2^k \in Nat /\ 2^k > 0
    BY <1>0, <1>2
  <2> QED
    BY <2>1, <2>2
<1> HIDE DEF Good
<1>3. Nat \subseteq Good
  BY <1>1, <1>2, SetInduction
<1>4. \A k \in 0..Width : 2^k \in Nat /\ 2^k > 0
  BY <1>0, <1>3 DEF Good
<1>5. 2^Width \in Nat /\ 2^Width > 1
  <2>1. Width - 1 \in 0..(Width - 1) /\ Width - 1 \in 0..Width /\ (Width - 1) + 1 = Width
    BY <1>0
  <2>2. 2^Width = 2 * 2^(Width - 1)
    BY <1>0, <2>1
  <2>3. 2^(Width - 1) \in Nat /\ 2^(Width - 1) > 0
    BY <1>4, <2>1
  <2> QED
    BY <2>2, <2>3
<1>6. Top \in Nat /\ Top > 0 /\ 2^Width = Top + 1
  BY <1>5 DEF Top
<1>7. Element = 0..Top /\ Element \ {0} = 1..Top
  BY <1>6 DEF Element
<1> QED
  BY <1>0, <1>4, <1>6, <1>7

\* There are 0 and 1.
LEMMA ZeroAndOne == 0 \in Element /\ 1 \in Element
BY PowersOfTwo

\* A power of two is twice as much as every lower one, or a multiple of that.
LEMMA HigherPowers ==
    ASSUME NEW j \in Nat, NEW k \in Nat, j < k, k <= Width
    PROVE  \E c \in Nat : 2^k = (2 * 2^j) * c
<1> DEFINE Good == {d \in Nat : j + 1 + d <= Width => \E c \in Nat : 2^(j + 1 + d) = (2 * 2^j) * c}
<1>0. Width \in Nat /\ j \in 0..(Width - 1) /\ 2^(j + 1) = 2 * 2^j /\ 2^j \in Nat
  <2>1. Width \in Nat /\ j \in 0..(Width - 1)
    BY PowersOfTwo
  <2> QED
    BY <2>1, PowersOfTwo
<1>1. 0 \in Good
  <2>1. 2^(j + 1 + 0) = (2 * 2^j) * 1
    BY <1>0, j + 1 + 0 = j + 1
  <2> QED
    BY <2>1
<1>2. ASSUME NEW d \in Nat, d \in Good
      PROVE  d + 1 \in Good
  <2> SUFFICES ASSUME j + 1 + (d + 1) <= Width
               PROVE  \E c \in Nat : 2^(j + 1 + (d + 1)) = (2 * 2^j) * c
    OBVIOUS
  <2>1. PICK c \in Nat : 2^(j + 1 + d) = (2 * 2^j) * c
    BY <1>0, <1>2
  <2>2. j + 1 + d \in 0..(Width - 1) /\ j + 1 + (d + 1) = (j + 1 + d) + 1
    BY <1>0
  <2>3. 2^(j + 1 + (d + 1)) = 2 * 2^(j + 1 + d)
    BY <2>2, PowersOfTwo
  <2> DEFINE p == 2^j
  <2>4. 2 * ((2 * p) * c) = (2 * p) * (2 * c)
    <3>1. p \in Nat
      BY <1>0
    <3> HIDE DEF p
    <3> QED
      BY <3>1
  <2> DEFINE c2 == 2 * c
  <2>5. 2^(j + 1 + (d + 1)) = (2 * 2^j) * c2
    BY <2>1, <2>3, <2>4
  <2>6. c2 \in Nat
    OBVIOUS
  <2> HIDE DEF c2
  <2> QED
    BY <2>5, <2>6
<1> HIDE DEF Good
<1>3. Nat \subseteq Good
  BY <1>1, <1>2, SetInduction
<1>4. k - j - 1 \in Nat /\ j + 1 + (k - j - 1) = k
  OBVIOUS
<1>5. k - j - 1 \in Good
  BY <1>3, <1>4
<1> QED
  BY <1>4, <1>5 DEF Good

\* A bit is 0 or 1.
LEMMA BitType ==
    ASSUME NEW e \in Nat, NEW k \in 0..Width
    PROVE  Bit(e, k) \in {0, 1} /\ e \div 2^k \in Nat
<1> DEFINE p == 2^k
<1>1. p \in Nat /\ p > 0
  BY PowersOfTwo
<1>2. e \div p \in Nat
  BY <1>1, Division
<1> HIDE DEF p
<1>3. (e \div p) % 2 \in {0, 1}
  BY <1>2
<1> QED
  BY <1>2, <1>3 DEF Bit, p

\* 0 has no bits.
LEMMA BitOfZero ==
    ASSUME NEW k \in 0..Width
    PROVE  Bit(0, k) = 0
<1> DEFINE p == 2^k
<1>1. p \in Nat /\ p > 0
  BY PowersOfTwo
<1> HIDE DEF p
<1>2. p * 0 + 0 = 0
  BY <1>1
<1>3. 0 \div p = 0
  BY <1>1, <1>2, Quotient
<1>4. 0 % 2 = 0
  OBVIOUS
<1> QED
  BY <1>3, <1>4 DEF Bit, p

\* Elements with the same bits are the same.
LEMMA SameBits ==
    ASSUME NEW a \in Element, NEW c \in Element,
           \A j \in 0..(Width - 1) : Bit(a, j) = Bit(c, j)
    PROVE  a = c
<1> DEFINE Good == {n \in Nat : n <= Width => a \div 2^(Width - n) = c \div 2^(Width - n)}
<1>0. /\ Width \in Nat /\ 2^Width \in Nat /\ 2^Width > 0
      /\ a \in Nat /\ c \in Nat /\ a < 2^Width /\ c < 2^Width
  <2>1. Width \in Nat /\ Top \in Nat /\ 2^Width = Top + 1 /\ a \in 0..Top /\ c \in 0..Top
    BY PowersOfTwo
  <2> QED
    BY <2>1
<1>1. 0 \in Good
  <2> DEFINE top == 2^Width
  <2>1. top \in Nat /\ top > 0 /\ a < top /\ c < top /\ Width - 0 = Width
    BY <1>0
  <2> HIDE DEF top
  <2>2. ASSUME NEW v \in Nat, v < top
        PROVE  v \div top = 0
    <3>1. v = top * 0 + v
      BY <2>1, <2>2
    <3>2. (top * 0 + v) \div top = 0
      BY <2>1, <2>2, Quotient
    <3> QED
      BY <3>1, <3>2
  <2>3. a \div top = c \div top
    BY <1>0, <2>1, <2>2
  <2> QED
    BY <2>1, <2>3 DEF top
<1>2. ASSUME NEW n \in Nat, n \in Good
      PROVE  n + 1 \in Good
  <2> SUFFICES ASSUME n + 1 <= Width
               PROVE  a \div 2^(Width - (n + 1)) = c \div 2^(Width - (n + 1))
    OBVIOUS
  <2> DEFINE k == Width - (n + 1)
             p == 2^k
  <2>1. k \in 0..(Width - 1) /\ k \in 0..Width /\ k + 1 = Width - n
    BY <1>0
  <2>2. p \in Nat /\ p > 0 /\ 2^(Width - n) = 2 * p
    BY <2>1, PowersOfTwo
  <2>3. a \div (2 * p) = c \div (2 * p)
    BY <1>0, <1>2, <2>2
  <2>4. (a \div p) % 2 = (c \div p) % 2
    BY <2>1 DEF Bit
  <2> HIDE DEF k, p
  <2>5. a \div p = 2 * (a \div (2 * p)) + ((a \div p) % 2)
    BY <1>0, <2>2, Halves
  <2>6. c \div p = 2 * (c \div (2 * p)) + ((c \div p) % 2)
    BY <1>0, <2>2, Halves
  <2>8. a \div p = c \div p
    BY <2>3, <2>4, <2>5, <2>6
  <2> QED
    BY <2>8 DEF k, p
<1> HIDE DEF Good
<1>3. Nat \subseteq Good
  BY <1>1, <1>2, SetInduction
<1>4. a \div 2^(Width - Width) = c \div 2^(Width - Width)
  <2>1. Width \in Good /\ Width <= Width
    BY <1>0, <1>3
  <2> QED
    BY <2>1 DEF Good
<1>5. Width - Width = 0 /\ 2^0 = 1
  BY <1>0, PowersOfTwo
<1>6. a \div 1 = c \div 1
  BY <1>4, <1>5
<1>7. \A v \in Nat : v \div 1 = v
  OBVIOUS
<1> QED
  BY <1>0, <1>6, <1>7

-----------------------------------------------------------------------------
(* Exclusive or. *)

\* A number put together from bits, the lowest first.
Builds(b, u) == \A k \in 0..Width : u[k] = IF k = 0 THEN 0 ELSE u[k - 1] + 2^(k - 1) * b[k - 1]

\* It is an element and has those bits.
LEMMA BuiltHasBits ==
    ASSUME NEW b \in [0..(Width - 1) -> {0, 1}], NEW u \in [0..Width -> Nat], Builds(b, u)
    PROVE  u[Width] \in Element /\ \A j \in 0..(Width - 1) : Bit(u[Width], j) = b[j]
<1> DEFINE Good == {n \in Nat : n <= Width => /\ u[n] < 2^n
                                              /\ \A j \in 0..(n - 1) : Bit(u[n], j) = b[j]}
<1>0. Width \in Nat /\ Width > 0
  BY PowersOfTwo
<1>1. 0 \in Good
  <2>1. u[0] = 0
    BY <1>0 DEF Builds
  <2>2. u[0] < 2^0
    BY <2>1, PowersOfTwo
  <2>3. \A j \in 0..(0 - 1) : FALSE
    OBVIOUS
  <2> QED
    BY <2>2, <2>3
<1>2. ASSUME NEW n \in Nat, n \in Good
      PROVE  n + 1 \in Good
  <2> SUFFICES ASSUME n + 1 <= Width
               PROVE  /\ u[n + 1] < 2^(n + 1)
                      /\ \A j \in 0..((n + 1) - 1) : Bit(u[n + 1], j) = b[j]
    OBVIOUS
  <2> DEFINE p == 2^n
             x == u[n]
             t == b[n]
  <2>1. n \in 0..(Width - 1) /\ n \in 0..Width /\ n + 1 \in 0..Width /\ n + 1 # 0 /\ (n + 1) - 1 = n
    BY <1>0
  <2>2. /\ x < p /\ x \in Nat /\ t \in {0, 1} /\ p \in Nat /\ p > 0 /\ 2^(n + 1) = 2 * p
    BY <1>2, <2>1, PowersOfTwo
  <2>3. u[n + 1] = x + p * t
    BY <2>1 DEF Builds
  <2>4. u[n + 1] < 2^(n + 1)
    <3> HIDE DEF p, x, t
    <3>1. p * t = 0 \/ p * t = p
      BY <2>2
    <3> QED
      BY <2>2, <2>3, <3>1
  <2>5. ASSUME NEW j \in 0..n
        PROVE  Bit(u[n + 1], j) = b[j]
    <3>1. CASE j = n
      <4>1. u[n + 1] \div p = t
        <5> HIDE DEF p, x, t
        <5>1. u[n + 1] = p * t + x
          BY <2>2, <2>3
        <5> QED
          BY <2>2, <5>1, Quotient
      <4>2. t % 2 = t
        <5> HIDE DEF t
        <5> QED
          BY <2>2
      <4> QED
        BY <3>1, <4>1, <4>2 DEF Bit
    <3>2. CASE j # n
      <4> DEFINE q == 2^j
                 d == x \div q
                 r == x % q
      <4>1. j \in Nat /\ j < n /\ n <= Width /\ j \in 0..(n - 1) /\ j \in 0..Width
        BY <1>0, <2>1, <3>2
      <4>2. PICK c \in Nat : p = (2 * q) * c
        BY <2>1, <4>1, HigherPowers
      <4>3. q \in Nat /\ q > 0
        BY <4>1, PowersOfTwo
      <4>4. (d % 2) = b[j]
        BY <1>2, <2>1, <4>1 DEF Bit
      <4> HIDE DEF p, x, t, q
      <4>5. d \in Nat /\ r \in Nat /\ r < q /\ x = q * d + r
        BY <2>2, <4>3, Division
      <4> HIDE DEF d, r
      <4> DEFINE e == c * t
                 f == d + 2 * e
      <4>6. e \in Nat
        BY <2>2
      <4>7. p * t = q * (2 * e)
        BY <2>2, <4>2, <4>3
      <4> HIDE DEF e
      <4>8. x + p * t = q * f + r
        BY <4>3, <4>5, <4>6, <4>7
      <4>9. f \in Nat
        BY <4>5, <4>6
      <4>10. f % 2 = d % 2
        BY <4>5, <4>6
      <4> HIDE DEF f
      <4>11. (x + p * t) \div q = f
        BY <4>3, <4>5, <4>8, <4>9, Quotient
      <4> QED
        BY <2>3, <4>4, <4>10, <4>11 DEF Bit, q
    <3> QED
      BY <3>1, <3>2
  <2> QED
    BY <2>1, <2>4, <2>5
<1> HIDE DEF Good
<1>3. Width \in Good
  BY <1>0, <1>1, <1>2, SetInduction
<1>4. /\ u[Width] < 2^Width
      /\ \A j \in 0..(Width - 1) : Bit(u[Width], j) = b[j]
  BY <1>0, <1>3, Width <= Width DEF Good
<1>5. u[Width] \in Nat /\ 2^Width = Top + 1 /\ Top \in Nat /\ Element = 0..Top
  BY <1>0, PowersOfTwo
<1> QED
  BY <1>4, <1>5

\* field_add adds bit for bit, without carries.
LEMMA AddBits ==
    ASSUME NEW l \in Element, NEW r \in Element
    PROVE  /\ field_add(l, r) \in Element
           /\ \A j \in 0..(Width - 1) : Bit(field_add(l, r), j) = (Bit(l, j) + Bit(r, j)) % 2
<1> DEFINE b == [j \in 0..(Width - 1) |-> (Bit(l, j) + Bit(r, j)) % 2]
           g == [k \in 1..Width |-> [x \in Nat |-> x + 2^(k - 1) * b[k - 1]]]
           Table(u) == u = [k \in 0..Width |->
                              IF k = 0 THEN 0
                              ELSE u[k - 1] + 2^(k - 1) * ((Bit(l, k - 1) + Bit(r, k - 1)) % 2)]
<1>0. Width \in Nat /\ Width > 0 /\ l \in Nat /\ r \in Nat
  BY PowersOfTwo
<1>1. ASSUME NEW j \in 0..(Width - 1) PROVE b[j] \in {0, 1}
  <2>1. j \in 0..Width
    BY <1>0
  <2>2. Bit(l, j) \in {0, 1} /\ Bit(r, j) \in {0, 1}
    BY <1>0, <2>1, BitType
  <2> QED
    BY <2>2
<1>2. b \in [0..(Width - 1) -> {0, 1}]
  BY <1>1
<1>3. ASSUME NEW k \in 1..Width
      PROVE  /\ k - 1 \in 0..(Width - 1) /\ 2^(k - 1) \in Nat
             /\ b[k - 1] = (Bit(l, k - 1) + Bit(r, k - 1)) % 2
             /\ b[k - 1] \in {0, 1}
  <2>1. k - 1 \in 0..(Width - 1) /\ k - 1 \in 0..Width
    BY <1>0
  <2> QED
    BY <1>1, <2>1, PowersOfTwo
<1>4. ASSUME NEW k \in 1..Width, NEW x \in Nat
      PROVE  g[k][x] \in Nat
  <2> DEFINE p == 2^(k - 1)
             t == b[k - 1]
  <2>1. p \in Nat /\ t \in {0, 1}
    BY <1>3
  <2> HIDE DEF p, t
  <2>2. x + p * t \in Nat
    BY <2>1
  <2> QED
    BY <2>2 DEF p, t
<1>5. \E u \in [0..Width -> Nat] : Recurs(u, 0, g, Width)
  <2>1. g \in [1..Width -> [Nat -> Nat]]
    BY <1>4
  <2> HIDE DEF g, b
  <2>2. 0 \in Nat
    OBVIOUS
  <2> QED
    BY <1>0, <2>1, <2>2, RecursionExists
<1>6. PICK u \in [0..Width -> Nat] : Recurs(u, 0, g, Width)
  BY <1>5
<1>7. ASSUME NEW k \in 0..Width
      PROVE  u[k] = IF k = 0 THEN 0
                    ELSE u[k - 1] + 2^(k - 1) * ((Bit(l, k - 1) + Bit(r, k - 1)) % 2)
  <2>1. u[k] = IF k = 0 THEN 0 ELSE g[k][u[k - 1]]
    <3> HIDE DEF g
    <3> QED
      BY <1>6 DEF Recurs
  <2>2. k # 0 => k \in 1..Width /\ u[k - 1] \in Nat
    BY <1>0
  <2> HIDE DEF b
  <2>3. k # 0 => g[k][u[k - 1]] = u[k - 1] + 2^(k - 1) * b[k - 1]
    BY <2>2
  <2> QED
    BY <1>3, <2>1, <2>2, <2>3
<1>8. Table(u)
  <2>1. u = [k \in 0..Width |-> u[k]]
    OBVIOUS
  <2> HIDE DEF g, b
  <2> QED
    BY <1>7, <2>1, Zenon
<1>9. field_add(l, r) = (CHOOSE v : Table(v))[Width]
  BY DEF field_add, XorTable
<1>10. PICK v : Table(v) /\ field_add(l, r) = v[Width]
  <2> HIDE DEF Table
  <2> QED
    BY <1>8, <1>9
<1>11. \A k \in 0..Width : v[k] = IF k = 0 THEN 0 ELSE v[k - 1] + 2^(k - 1) * b[k - 1]
  <2>1. \A k \in 0..Width : v[k] = IF k = 0 THEN 0
           ELSE v[k - 1] + 2^(k - 1) * ((Bit(l, k - 1) + Bit(r, k - 1)) % 2)
    BY <1>10
  <2>2. \A k \in 0..Width : k # 0 => k \in 1..Width
    BY <1>0
  <2> HIDE DEF b, Table
  <2> QED
    BY <1>3, <2>1, <2>2
<1>12. v \in [0..Width -> Nat]
  <2> DEFINE Good == {n \in Nat : n <= Width => v[n] \in Nat}
  <2>1. 0 \in Good
    <3> HIDE DEF b, Table
    <3>1. 0 \in 0..Width
      BY <1>0
    <3>2. v[0] = 0
      BY <1>11, <3>1
    <3> QED
      BY <3>2
  <2>2. ASSUME NEW n \in Nat, n \in Good PROVE n + 1 \in Good
    <3> SUFFICES ASSUME n + 1 <= Width PROVE v[n + 1] \in Nat
      OBVIOUS
    <3> DEFINE p == 2^n
               t == b[n]
    <3>1. /\ n + 1 \in 1..Width /\ n + 1 \in 0..Width /\ n + 1 # 0 /\ (n + 1) - 1 = n
          /\ n \in 0..(Width - 1) /\ n \in 0..Width
      BY <1>0
    <3>2. p \in Nat /\ t \in {0, 1} /\ v[n] \in Nat
      <4>1. t \in {0, 1}
        BY <1>1, <3>1
      <4>2. v[n] \in Nat
        BY <1>0, <2>2
      <4> QED
        BY <3>1, <4>1, <4>2, PowersOfTwo
    <3>3. v[n + 1] = v[n] + p * t
      BY <1>11, <3>1
    <3> HIDE DEF p, t
    <3> QED
      BY <3>2, <3>3
  <2> HIDE DEF Good
  <2>3. Nat \subseteq Good
    BY <2>1, <2>2, SetInduction
  <2>4. \A n \in 0..Width : v[n] \in Nat
    BY <1>0, <2>3 DEF Good
  <2>5. v = [k \in 0..Width |-> v[k]]
    BY <1>10
  <2> HIDE DEF Table
  <2> QED
    BY <2>4, <2>5
<1>13. Builds(b, v)
  <2> HIDE DEF b, Table
  <2> QED
    BY <1>11 DEF Builds
<1>14. v[Width] \in Element /\ \A j \in 0..(Width - 1) : Bit(v[Width], j) = b[j]
  <2> HIDE DEF b, Table
  <2> QED
    BY <1>2, <1>12, <1>13, BuiltHasBits
<1> QED
  BY <1>10, <1>14

\* Elements form a group under field_add, in which each is its own inverse.
LEMMA AddZero ==
    ASSUME NEW x \in Element
    PROVE  field_add(x, 0) = x /\ field_add(0, x) = x
<1>0. 0 \in Element /\ x \in Nat /\ Width \in Nat /\ \A j \in 0..(Width - 1) : j \in 0..Width
  BY PowersOfTwo
<1>1. ASSUME NEW j \in 0..(Width - 1)
      PROVE  Bit(field_add(x, 0), j) = Bit(x, j) /\ Bit(field_add(0, x), j) = Bit(x, j)
  <2>1. Bit(0, j) = 0 /\ Bit(x, j) \in {0, 1}
    BY <1>0, BitOfZero, BitType
  <2>2. /\ Bit(field_add(x, 0), j) = (Bit(x, j) + Bit(0, j)) % 2
        /\ Bit(field_add(0, x), j) = (Bit(0, j) + Bit(x, j)) % 2
    BY <1>0, AddBits
  <2> QED
    BY <2>1, <2>2
<1>2. field_add(x, 0) \in Element /\ field_add(0, x) \in Element
  BY <1>0, AddBits
<1> QED
  BY <1>1, <1>2, SameBits

\* Every element is its own negative.
LEMMA AddSelf ==
    ASSUME NEW x \in Element
    PROVE  field_add(x, x) = 0
<1>0. 0 \in Element /\ x \in Nat /\ Width \in Nat /\ \A j \in 0..(Width - 1) : j \in 0..Width
  BY PowersOfTwo
<1>1. ASSUME NEW j \in 0..(Width - 1)
      PROVE  Bit(field_add(x, x), j) = Bit(0, j)
  <2>1. Bit(0, j) = 0 /\ Bit(x, j) \in {0, 1}
    BY <1>0, BitOfZero, BitType
  <2>2. Bit(field_add(x, x), j) = (Bit(x, j) + Bit(x, j)) % 2
    BY <1>0, AddBits
  <2> QED
    BY <2>1, <2>2
<1>2. field_add(x, x) \in Element
  BY AddBits
<1> QED
  BY <1>0, <1>1, <1>2, SameBits

\* The order of two terms does not matter.
LEMMA AddCommutes ==
    ASSUME NEW x \in Element, NEW y \in Element
    PROVE  field_add(x, y) = field_add(y, x)
<1>0. x \in Nat /\ y \in Nat /\ Width \in Nat /\ \A j \in 0..(Width - 1) : j \in 0..Width
  BY PowersOfTwo
<1>1. ASSUME NEW j \in 0..(Width - 1)
      PROVE  Bit(field_add(x, y), j) = Bit(field_add(y, x), j)
  <2>1. Bit(x, j) \in {0, 1} /\ Bit(y, j) \in {0, 1}
    BY <1>0, BitType
  <2>2. /\ Bit(field_add(x, y), j) = (Bit(x, j) + Bit(y, j)) % 2
        /\ Bit(field_add(y, x), j) = (Bit(y, j) + Bit(x, j)) % 2
    BY <1>0, AddBits
  <2> QED
    BY <2>1, <2>2
<1>2. field_add(x, y) \in Element /\ field_add(y, x) \in Element
  BY AddBits
<1> QED
  BY <1>1, <1>2, SameBits

\* Nor does the order of two additions.
LEMMA AddAssociates ==
    ASSUME NEW x \in Element, NEW y \in Element, NEW z \in Element
    PROVE  field_add(field_add(x, y), z) = field_add(x, field_add(y, z))
<1>0. /\ x \in Nat /\ y \in Nat /\ z \in Nat
      /\ Width \in Nat /\ \A j \in 0..(Width - 1) : j \in 0..Width
  BY PowersOfTwo
<1> DEFINE xy == field_add(x, y)
           yz == field_add(y, z)
           l == field_add(xy, z)
           r == field_add(x, yz)
<1>1. xy \in Element /\ yz \in Element
  BY AddBits
<1>2. l \in Element /\ r \in Element
  BY <1>1, AddBits
<1>3. ASSUME NEW j \in 0..(Width - 1)
      PROVE  Bit(l, j) = Bit(r, j)
  <2>1. Bit(x, j) \in {0, 1} /\ Bit(y, j) \in {0, 1} /\ Bit(z, j) \in {0, 1}
    BY <1>0, BitType
  <2>2. /\ Bit(xy, j) = (Bit(x, j) + Bit(y, j)) % 2
        /\ Bit(yz, j) = (Bit(y, j) + Bit(z, j)) % 2
    BY <1>0, AddBits
  <2> HIDE DEF xy, yz
  <2>3. /\ Bit(l, j) = (Bit(xy, j) + Bit(z, j)) % 2
        /\ Bit(r, j) = (Bit(x, j) + Bit(yz, j)) % 2
    BY <1>0, <1>1, AddBits
  <2> HIDE DEF l, r
  <2> QED
    BY <2>1, <2>2, <2>3
<1> QED
  BY <1>2, <1>3, SameBits

\* What was added is taken away by adding it again.
LEMMA AddTwice ==
    ASSUME NEW x \in Element, NEW y \in Element
    PROVE  field_add(field_add(x, y), y) = x
<1>1. field_add(field_add(x, y), y) = field_add(x, field_add(y, y))
  BY AddAssociates
<1> QED
  BY <1>1, AddSelf, AddZero

\* The terms of two sums may be added in pairs.
LEMMA AddPairs ==
    ASSUME NEW a \in Element, NEW b \in Element, NEW c \in Element, NEW d \in Element
    PROVE  field_add(field_add(a, b), field_add(c, d)) = field_add(field_add(a, c), field_add(b, d))
<1>1. /\ field_add(c, d) \in Element /\ field_add(b, d) \in Element
      /\ field_add(b, c) \in Element
  BY AddBits
<1>2. field_add(field_add(a, b), field_add(c, d)) = field_add(a, field_add(b, field_add(c, d)))
  BY <1>1, AddAssociates
<1>3. field_add(field_add(a, c), field_add(b, d)) = field_add(a, field_add(c, field_add(b, d)))
  BY <1>1, AddAssociates
<1>4. field_add(b, field_add(c, d)) = field_add(field_add(b, c), d)
  BY AddAssociates
<1>5. field_add(c, field_add(b, d)) = field_add(field_add(c, b), d)
  BY AddAssociates
<1>6. field_add(b, c) = field_add(c, b)
  BY AddCommutes
<1> QED
  BY <1>2, <1>3, <1>4, <1>5, <1>6

-----------------------------------------------------------------------------
(* Multiplication by alpha. *)

\* An element moved up one bit, without the bit that leaves it.
Shifted(e) == IF 2 * e > Top THEN 2 * e - (Top + 1) ELSE 2 * e

\* Multiplying by alpha before the reduction moves the bits up by one.
LEMMA ShiftedBits ==
    ASSUME NEW e \in Element
    PROVE  /\ Shifted(e) \in Element
           /\ Bit(Shifted(e), 0) = 0
           /\ \A j \in 1..(Width - 1) : Bit(Shifted(e), j) = Bit(e, j - 1)
           /\ (2 * e > Top) <=> (Bit(e, Width - 1) = 1)
<1> DEFINE top == 2^Width
           half == 2^(Width - 1)
           s == Shifted(e)
<1>0. /\ Width \in Nat /\ Width > 0 /\ Top \in Nat /\ top = Top + 1
      /\ e \in Nat /\ e <= Top /\ Element = 0..Top
  BY PowersOfTwo
<1>1. /\ Width - 1 \in 0..(Width - 1) /\ Width - 1 \in 0..Width /\ (Width - 1) + 1 = Width
  BY <1>0
<1>2. half \in Nat /\ half > 0 /\ top = 2 * half
  BY <1>1, PowersOfTwo
<1>3. PICK t \in {0, 1} : s = 2 * e - top * t /\ (t = 1 <=> 2 * e > Top)
  <2> HIDE DEF top
  <2>1. CASE 2 * e > Top
    <3>1. s = 2 * e - top * 1
      BY <1>0, <2>1 DEF Shifted
    <3> QED
      BY <2>1, <3>1
  <2>2. CASE ~(2 * e > Top)
    <3>1. s = 2 * e - top * 0
      BY <1>0, <2>2 DEF Shifted
    <3> QED
      BY <2>2, <3>1
  <2> QED
    BY <2>1, <2>2
<1>4. s \in Element
  BY <1>0 DEF Shifted
<1>5. Bit(s, 0) = 0
  <2>1. PICK c \in Nat : top = 2 * c
    BY <1>2
  <2> HIDE DEF top, s
  <2> DEFINE h == e - c * t
  <2>2. h \in Int /\ s = 2 * h
    BY <1>0, <1>3, <2>1
  <2> HIDE DEF h
  <2>3. s \in Nat /\ s % 2 = 0 /\ s \div 1 = s
    BY <1>0, <1>4, <2>2
  <2> QED
    BY <2>3, PowersOfTwo DEF Bit
<1>6. ASSUME NEW j \in 1..(Width - 1)
      PROVE  Bit(s, j) = Bit(e, j - 1)
  <2> DEFINE p == 2^(j - 1)
             d == e \div p
             r == e % p
  <2>1. j - 1 \in 0..(Width - 1) /\ j - 1 \in 0..Width /\ (j - 1) + 1 = j
    BY <1>0
  <2>2. p \in Nat /\ p > 0 /\ 2^j = 2 * p
    BY <2>1, PowersOfTwo
  <2>3. PICK c \in Nat : top = (2 * (2 * p)) * c
    <3>1. j \in Nat /\ j < Width /\ Width <= Width
      BY <1>0
    <3>2. PICK c \in Nat : 2^Width = (2 * 2^j) * c
      BY <1>0, <3>1, HigherPowers
    <3>3. top = (2 * (2 * p)) * c
      BY <2>2, <3>2
    <3> QED
      BY <3>3
  <2> HIDE DEF p, top
  <2>4. d \in Nat /\ r \in Nat /\ r < p /\ e = p * d + r
    BY <1>0, <2>2, Division
  <2>5. e \div p = d
    OBVIOUS
  <2> HIDE DEF d, r, s
  <2> DEFINE m == c * t
             q == d - 2 * m
  <2>6. m \in Int /\ q \in Int
    BY <1>0, <1>3, <2>4
  <2>7. top * t = (2 * (2 * p)) * m
    BY <1>3, <2>2, <2>3
  <2>8. (2 * (2 * p)) * m = (2 * p) * (2 * m)
    BY <2>2, <2>6
  <2>9. (2 * p) * q = (2 * p) * d - (2 * p) * (2 * m)
    <3> HIDE DEF m
    <3> QED
      BY <2>2, <2>4, <2>6
  <2>10. (2 * p) * d = 2 * (p * d) /\ p * d \in Nat
    BY <2>2, <2>4
  <2> HIDE DEF m
  <2>11. s = (2 * p) * q + 2 * r
    <3> HIDE DEF q
    <3>1. s = 2 * e - (2 * p) * (2 * m)
      BY <1>3, <2>7, <2>8
    <3> DEFINE A == (2 * p) * q
               B == (2 * p) * (2 * m)
               C == (2 * p) * d
               D == p * d
    <3>2. A \in Int /\ B \in Int /\ C \in Int /\ D \in Nat
      BY <2>2, <2>4, <2>6, <2>10
    <3>3. s = 2 * e - B /\ A = C - B /\ C = 2 * D /\ e = D + r
      BY <2>4, <2>9, <2>10, <3>1
    <3> HIDE DEF A, B, C, D
    <3>4. s = A + 2 * r
      BY <1>0, <2>4, <3>2, <3>3
    <3> QED
      BY <3>4 DEF A
  <2>12. q % 2 = d % 2
    BY <2>4, <2>6
  <2> HIDE DEF q
  <2>13. 2 * r < 2 * p /\ 2 * r \in Nat /\ 2 * p \in Nat /\ 2 * p > 0 /\ s \in Nat
    BY <1>0, <1>4, <2>2, <2>4
  <2>14. q >= 0
    <3> SUFFICES ASSUME q <= -1 PROVE FALSE
      BY <2>6
    <3>1. (2 * p) * q <= -(2 * p)
      BY <2>6, <2>13
    <3> QED
      BY <2>6, <2>11, <2>13, <3>1
  <2>15. s \div (2 * p) = q
    BY <2>6, <2>11, <2>13, <2>14, Quotient
  <2> QED
    BY <2>2, <2>5, <2>12, <2>15 DEF Bit, p
<1>7. (2 * e > Top) <=> (Bit(e, Width - 1) = 1)
  <2> HIDE DEF half, top
  <2>1. CASE e < half
    <3>1. half * 0 + e = e
      BY <1>0, <1>2
    <3>2. e \div half = 0
      BY <1>0, <1>2, <2>1, <3>1, Quotient
    <3>3. Bit(e, Width - 1) = 0
      BY <3>2 DEF Bit, half
    <3> QED
      BY <1>0, <1>2, <2>1, <3>3
  <2>2. CASE e >= half
    <3>1. half * 1 + (e - half) = e
      BY <1>0, <1>2
    <3>2. e - half \in Nat /\ e - half < half
      BY <1>0, <1>2, <2>2
    <3>3. e \div half = 1
      BY <1>2, <3>1, <3>2, Quotient
    <3>4. Bit(e, Width - 1) = 1
      BY <3>3 DEF Bit, half
    <3> QED
      BY <1>0, <1>2, <2>2, <3>4
  <2> QED
    BY <1>0, <1>2, <2>1, <2>2
<1> QED
  BY <1>4, <1>5, <1>6, <1>7

-----------------------------------------------------------------------------
(* The tables of powers and logarithms. *)

\* Multiplication by alpha.
Doubled(e) == IF 2 * e > Top THEN field_add(2 * e - (Top + 1), Primitive - (Top + 1))
                             ELSE 2 * e

\* The table of powers up to any length.
Powers(n, f) == f = [m \in 0..n |-> IF m = 0 THEN 1 ELSE Doubled(f[m - 1])]

\* There is such a table of any length.
LEMMA PowersExist == \A n \in Nat : \E f : Powers(n, f)
<1> DEFINE Good == {n \in Nat : \E f : Powers(n, f)}
<1>1. 0 \in Good
  <2> DEFINE f == [m \in 0..0 |-> 1]
  <2>1. f = [m \in 0..0 |-> IF m = 0 THEN 1 ELSE Doubled(f[m - 1])]
    OBVIOUS
  <2> QED
    BY <2>1 DEF Powers
<1>2. ASSUME NEW n \in Nat, n \in Good
      PROVE  n + 1 \in Good
  <2>1. PICK f : Powers(n, f)
    BY <1>2
  <2> DEFINE g == [m \in 0..(n + 1) |-> IF m = n + 1 THEN Doubled(f[n]) ELSE f[m]]
  <2>2. ASSUME NEW m \in 0..(n + 1)
        PROVE  g[m] = IF m = 0 THEN 1 ELSE Doubled(g[m - 1])
    <3>1. CASE m = n + 1
      <4>1. m # 0 /\ m - 1 = n /\ n \in 0..(n + 1) /\ n # n + 1
        BY <1>2, <3>1
      <4> QED
        BY <3>1, <4>1
    <3>2. CASE m # n + 1
      <4>1. m \in 0..n /\ (m # 0 => m - 1 \in 0..(n + 1) /\ m - 1 # n + 1)
        BY <1>2, <3>2
      <4>2. f[m] = IF m = 0 THEN 1 ELSE Doubled(f[m - 1])
        BY <2>1, <4>1 DEF Powers
      <4>3. g[m] = f[m] /\ (m # 0 => g[m - 1] = f[m - 1])
        BY <3>2, <4>1
      <4> QED
        BY <4>2, <4>3
    <3> QED
      BY <3>1, <3>2
  <2>3. Powers(n + 1, g)
    <3>1. g = [m \in 0..(n + 1) |-> g[m]]
      OBVIOUS
    <3> HIDE DEF g
    <3>2. g = [m \in 0..(n + 1) |-> IF m = 0 THEN 1 ELSE Doubled(g[m - 1])]
      BY <2>2, <3>1
    <3> QED
      BY <3>2 DEF Powers
  <2> QED
    BY <1>2, <2>3
<1> HIDE DEF Good
<1>3. Nat \subseteq Good
  BY <1>1, <1>2, SetInduction
<1> QED
  BY <1>3 DEF Good

\* The elements are numbers, and there is one that is not zero.
LEMMA FieldSize ==
    /\ Top \in Nat /\ Top > 0
    /\ Element = 0..Top
    /\ Element \ {0} = 1..Top
BY PowersOfTwo

\* exp is such a table.
LEMMA ExpUnfolds ==
    /\ exp[0] = 1
    /\ \A m \in 1..(2 * Top + 1) : exp[m] = Doubled(exp[m - 1])
<1> DEFINE N == 2 * Top + 1
<1>1. N \in Nat
  BY FieldSize
<1>2. exp = CHOOSE f : f = [m \in 0..(2 * Top + 1) |->
                IF m = 0 THEN 1
                ELSE IF 2 * f[m - 1] > Top
                       THEN field_add(2 * f[m - 1] - (Top + 1), Primitive - (Top + 1))
                       ELSE 2 * f[m - 1]]
  BY DEF exp
<1>3. exp = CHOOSE f : Powers(N, f)
  BY <1>2 DEF Powers, Doubled
<1> HIDE DEF N
<1>4. Powers(N, exp)
  BY <1>1, <1>3, PowersExist
<1>5. \A m \in 0..N : exp[m] = IF m = 0 THEN 1 ELSE Doubled(exp[m - 1])
  BY <1>4 DEF Powers
<1> QED
  BY <1>1, <1>5 DEF N

\* The logarithm of an element is an index of it.
LEMMA LogIsIndex ==
    \A e \in Element \ {0} : log[e] \in 1..Top /\ exp[log[e]] = e
BY FieldSize, FieldAssumption DEF log

\* The powers of alpha are not zero, and the first one comes again only as the last: there
\* are as many indices as elements.
LEMMA EachElementOnce ==
    /\ \A m \in 1..Top : exp[m] \in 1..Top
    /\ \A m, j \in 1..Top : exp[m] = exp[j] => m = j
<1> DEFINE N == 1..Top
<1>0. Top \in Nat /\ Top > 0 /\ Element \ {0} = N
  BY FieldSize
<1>1. IsFiniteSet(N) /\ Cardinality(N) = Top
  BY <1>0, FS_Interval
<1>2. \A e \in N : \E m \in N : exp[m] = e
  BY <1>0, FieldAssumption
<1>3. ASSUME NEW m \in N, \A e \in N : \E k \in N \ {m} : exp[k] = e
      PROVE  FALSE
  <2> DEFINE S == N \ {m}
             f == [k \in S |-> IF exp[k] \in N THEN exp[k] ELSE 1]
  <2>1. IsFiniteSet(S) /\ Cardinality(S) = Top - 1
    BY <1>1, FS_RemoveElement
  <2>2. f \in Surjection(S, N)
    <3>1. f \in [S -> N]
      BY <1>0
    <3>2. ASSUME NEW e \in N PROVE \E k \in S : f[k] = e
      BY <1>3
    <3> QED
      BY <3>1, <3>2 DEF Surjection
  <2>3. Cardinality(N) <= Cardinality(S)
    <3> HIDE DEF S, f, N
    <3> QED
      BY <2>1, <2>2, FS_Surjection DEF ExistsSurjection
  <2> QED
    BY <1>0, <1>1, <2>1, <2>3
<1>4. ASSUME NEW m \in N PROVE exp[m] \in N
  <2> SUFFICES ASSUME exp[m] \notin N PROVE FALSE
    OBVIOUS
  <2>1. \A e \in N : \E k \in N \ {m} : exp[k] = e
    BY <1>2
  <2> QED
    BY <1>3, <2>1
<1>5. ASSUME NEW m \in N, NEW j \in N, exp[m] = exp[j], m # j PROVE FALSE
  <2>1. \A e \in N : \E k \in N \ {m} : exp[k] = e
    BY <1>2, <1>5
  <2> QED
    BY <1>3, <2>1
<1> QED
  BY <1>4, <1>5

\* The powers repeat where 1 comes again.
LEMMA PowersRepeat ==
    ASSUME NEW j \in 0..Top, exp[j] = 1
    PROVE  \A m \in 0..Top : exp[j + m] = exp[m]
<1> DEFINE Good == {m \in Nat : m <= Top => exp[j + m] = exp[m]}
<1>0. Top \in Nat /\ j \in Nat /\ j <= Top
  BY FieldSize
<1>1. 0 \in Good
  BY <1>0, ExpUnfolds
<1>2. ASSUME NEW m \in Nat, m \in Good PROVE m + 1 \in Good
  <2> SUFFICES ASSUME m + 1 <= Top PROVE exp[j + (m + 1)] = exp[m + 1]
    OBVIOUS
  <2>1. exp[j + m] = exp[m]
    BY <1>0, <1>2
  <2>2. exp[m + 1] = Doubled(exp[(m + 1) - 1]) /\ (m + 1) - 1 = m
    BY <1>0, <1>2, m + 1 \in 1..(2 * Top + 1), ExpUnfolds
  <2>3. /\ exp[j + (m + 1)] = Doubled(exp[(j + (m + 1)) - 1])
        /\ (j + (m + 1)) - 1 = j + m
    BY <1>0, <1>2, j + (m + 1) \in 1..(2 * Top + 1), ExpUnfolds
  <2> QED
    BY <2>1, <2>2, <2>3
<1> HIDE DEF Good
<1>3. Nat \subseteq Good
  BY <1>1, <1>2, SetInduction
<1> QED
  BY <1>0, <1>3 DEF Good

\* The powers of alpha go round: the last is 1, and the table repeats from there on.
LEMMA PowersGoRound ==
    /\ exp[Top] = 1
    /\ \A m \in 0..Top : exp[Top + m] = exp[m]
    /\ \A m \in 0..(2 * Top) : exp[m] \in 1..Top
<1>0. Top \in Nat /\ Top > 0 /\ Element \ {0} = 1..Top
  BY FieldSize
<1>1. PICK j \in 1..Top : exp[j] = 1
  <2>1. 1 \in Element \ {0}
    BY <1>0
  <2> QED
    BY <2>1, FieldAssumption
<1>2. j = Top
  <2> SUFFICES ASSUME j # Top PROVE FALSE
    OBVIOUS
  <2>1. Top - j \in 1..Top /\ Top - j \in 0..Top /\ j \in 0..Top
    BY <1>0
  <2>2. exp[j + (Top - j)] = exp[Top - j]
    BY <1>1, <2>1, PowersRepeat
  <2>3. j + (Top - j) = Top /\ Top \in 1..Top /\ Top - j # Top
    BY <1>0
  <2>4. exp[Top] = exp[Top - j]
    BY <2>2, <2>3
  <2> QED
    BY <2>1, <2>3, <2>4, EachElementOnce
<1>3. exp[Top] = 1
  BY <1>1, <1>2
<1>4. \A m \in 0..Top : exp[Top + m] = exp[m]
  BY <1>0, <1>3, PowersRepeat
<1>5. \A m \in 0..Top : exp[m] \in 1..Top
  <2>1. exp[0] \in 1..Top
    BY <1>0, ExpUnfolds
  <2> QED
    BY <1>0, <2>1, EachElementOnce
<1>6. ASSUME NEW m \in 0..(2 * Top) PROVE exp[m] \in 1..Top
  <2>1. CASE m \in 0..Top
    BY <1>5, <2>1
  <2>2. CASE m \notin 0..Top
    <3>1. m - Top \in 0..Top /\ Top + (m - Top) = m
      BY <1>0, <2>2
    <3>2. exp[Top + (m - Top)] = exp[m - Top]
      BY <1>4, <3>1
    <3> QED
      BY <1>5, <3>1, <3>2
  <2> QED
    BY <2>1, <2>2
<1> QED
  BY <1>3, <1>4, <1>6

\* Division by a factor leaves nothing.
LEMMA MultipleLeavesNothing ==
    ASSUME NEW n \in Nat, n > 0, NEW m \in Nat
    PROVE  (n * m) % n = 0
<1> DEFINE p == n * m
           q == p \div n
           r == p % n
<1>1. p \in Nat /\ q \in Int /\ r \in 0..(n - 1)
  OBVIOUS
<1>2. p = n * q + r
  OBVIOUS
<1> HIDE DEF q, r
<1>3. r = n * (m - q)
  BY <1>1, <1>2
<1>4. m - q <= 0 \/ m - q >= 1
  BY <1>1
<1>5. m - q >= 1 => r >= n
  BY <1>1, <1>3
<1>6. m - q <= 0 => r <= 0
  BY <1>1, <1>3
<1> QED
  BY <1>1, <1>4, <1>5, <1>6 DEF r

\* Quotients of what is not zero are not zero.
LEMMA DivisionType ==
    ASSUME NEW r \in 1..Top
    PROVE  field_div(1, r) \in 1..Top
<1>0. Top \in Nat /\ Top > 0 /\ Element \ {0} = 1..Top
  BY FieldSize
<1>1. log[1] \in 1..Top /\ log[r] \in 1..Top /\ r # 0
  BY <1>0, LogIsIndex
<1>2. field_div(1, r) = exp[Top + log[1] - log[r]]
  BY <1>1 DEF field_div
<1>3. Top + log[1] - log[r] \in 0..(2 * Top)
  BY <1>0, <1>1
<1> QED
  BY <1>2, <1>3, PowersGoRound

\* Powers of what is not zero are not zero.
LEMMA PowType ==
    ASSUME NEW e \in 1..Top, NEW n \in Nat
    PROVE  field_pow(e, n) \in 1..Top
<1>0. Top \in Nat /\ Top > 0 /\ Element \ {0} = 1..Top
  BY FieldSize
<1>1. log[e] \in 1..Top
  BY <1>0, LogIsIndex
<1> DEFINE p == log[e] * n
<1>2. p \in Int
  BY <1>0, <1>1
<1> HIDE DEF p
<1>3. (p % Top) \in 0..(2 * Top)
  BY <1>0, <1>2
<1>4. field_pow(e, n) = exp[p % Top]
  BY DEF field_pow, p
<1> QED
  BY <1>3, <1>4, PowersGoRound

\* 0, having no logarithm, is taken for 1.
LEMMA PowOfZero ==
    ASSUME NEW n \in Nat
    PROVE  field_pow(0, n) = 1
<1>0. Top \in Nat /\ Top > 0 /\ 0 \in Element
  BY FieldSize
<1>1. log[0] = 0
  BY <1>0 DEF log
<1>2. (0 * n) % Top = 0
  BY <1>0
<1> QED
  BY <1>1, <1>2, ExpUnfolds DEF field_pow

-----------------------------------------------------------------------------
(* Multiplication. *)

\* Moving up distributes over addition.
LEMMA ShiftedAdd ==
    ASSUME NEW x \in Element, NEW y \in Element
    PROVE  Shifted(field_add(x, y)) = field_add(Shifted(x), Shifted(y))
<1> DEFINE xy == field_add(x, y)
           l == Shifted(xy)
           r == field_add(Shifted(x), Shifted(y))
<1>0. Width \in Nat /\ Width > 0 /\ x \in Nat /\ y \in Nat
  BY PowersOfTwo
<1>1. xy \in Element /\ Shifted(x) \in Element /\ Shifted(y) \in Element
  BY AddBits, ShiftedBits
<1>2. l \in Element /\ r \in Element
  BY <1>1, AddBits, ShiftedBits
<1>3. ASSUME NEW j \in 0..(Width - 1)
      PROVE  Bit(l, j) = Bit(r, j)
  <2>1. Bit(r, j) = (Bit(Shifted(x), j) + Bit(Shifted(y), j)) % 2
    BY <1>1, AddBits
  <2>2. CASE j = 0
    <3>1. Bit(Shifted(x), j) = 0 /\ Bit(Shifted(y), j) = 0
      BY <2>2, ShiftedBits
    <3>2. Bit(l, j) = 0
      BY <1>1, <2>2, ShiftedBits
    <3> HIDE DEF l, r
    <3> QED
      BY <2>1, <3>1, <3>2
  <2>3. CASE j # 0
    <3>1. j \in 1..(Width - 1) /\ j - 1 \in 0..(Width - 1)
      BY <1>0, <2>3
    <3>2. Bit(Shifted(x), j) = Bit(x, j - 1) /\ Bit(Shifted(y), j) = Bit(y, j - 1)
      BY <3>1, ShiftedBits
    <3>3. Bit(l, j) = Bit(xy, j - 1)
      BY <1>1, <3>1, ShiftedBits
    <3>4. Bit(xy, j - 1) = (Bit(x, j - 1) + Bit(y, j - 1)) % 2
      BY <3>1, AddBits
    <3> HIDE DEF l, r, xy
    <3> QED
      BY <2>1, <3>2, <3>3, <3>4
  <2> QED
    BY <2>2, <2>3
<1> QED
  BY <1>2, <1>3, SameBits

\* What is taken away on overflow.
Rest == Primitive - (Top + 1)

\* Multiplication by alpha moves up, and takes the polynomial away on overflow.
LEMMA DoubledIs ==
    ASSUME NEW e \in Element
    PROVE  /\ Rest \in Element
           /\ Doubled(e) \in Element
           /\ Doubled(e) = field_add(Shifted(e), IF Bit(e, Width - 1) = 1 THEN Rest ELSE 0)
<1>0. Top \in Nat /\ Element = 0..Top /\ 0 \in Element /\ e \in 0..Top
  BY PowersOfTwo
<1>1. Rest \in Element
  <2>1. Primitive \in (Top + 1)..(2 * Top + 1)
    BY FieldAssumption
  <2> QED
    BY <1>0, <2>1 DEF Rest
<1>2. Shifted(e) \in Element /\ ((2 * e > Top) <=> (Bit(e, Width - 1) = 1))
  BY ShiftedBits
<1>3. CASE 2 * e > Top
  <2>1. Doubled(e) = field_add(Shifted(e), Rest)
    BY <1>3 DEF Doubled, Shifted, Rest
  <2> QED
    BY <1>1, <1>2, <1>3, <2>1, AddBits
<1>4. CASE ~(2 * e > Top)
  <2>1. Doubled(e) = Shifted(e)
    BY <1>4 DEF Doubled, Shifted
  <2> QED
    BY <1>1, <1>2, <1>4, <2>1, AddZero
<1> QED
  BY <1>3, <1>4

\* Multiplication by alpha distributes over addition.
LEMMA DoubledAdd ==
    ASSUME NEW x \in Element, NEW y \in Element
    PROVE  Doubled(field_add(x, y)) = field_add(Doubled(x), Doubled(y))
<1> DEFINE top(e) == IF Bit(e, Width - 1) = 1 THEN Rest ELSE 0
           xy == field_add(x, y)
<1>0. /\ Width - 1 \in 0..(Width - 1) /\ Width - 1 \in 0..Width /\ x \in Nat /\ y \in Nat
      /\ 0 \in Element
  BY PowersOfTwo
<1>1. xy \in Element
  BY AddBits
<1>2. /\ Rest \in Element /\ Shifted(x) \in Element /\ Shifted(y) \in Element
      /\ top(x) \in Element /\ top(y) \in Element
  BY <1>0, DoubledIs, ShiftedBits
<1>3. top(xy) = field_add(top(x), top(y))
  <2>1. Bit(xy, Width - 1) = (Bit(x, Width - 1) + Bit(y, Width - 1)) % 2
    BY <1>0, AddBits
  <2>2. Bit(x, Width - 1) \in {0, 1} /\ Bit(y, Width - 1) \in {0, 1}
    BY <1>0, BitType
  <2>3. /\ field_add(0, 0) = 0 /\ field_add(Rest, Rest) = 0
        /\ field_add(Rest, 0) = Rest /\ field_add(0, Rest) = Rest
    BY <1>0, <1>2, AddZero, AddSelf
  <2> HIDE DEF xy
  <2>4. CASE Bit(x, Width - 1) = 0 /\ Bit(y, Width - 1) = 0
    <3>1. Bit(xy, Width - 1) = 0
      BY <2>1, <2>4
    <3> QED
      BY <2>3, <2>4, <3>1
  <2>5. CASE Bit(x, Width - 1) = 1 /\ Bit(y, Width - 1) = 0
    <3>1. Bit(xy, Width - 1) = 1
      BY <2>1, <2>5
    <3> QED
      BY <2>3, <2>5, <3>1
  <2>6. CASE Bit(x, Width - 1) = 0 /\ Bit(y, Width - 1) = 1
    <3>1. Bit(xy, Width - 1) = 1
      BY <2>1, <2>6
    <3> QED
      BY <2>3, <2>6, <3>1
  <2>7. CASE Bit(x, Width - 1) = 1 /\ Bit(y, Width - 1) = 1
    <3>1. Bit(xy, Width - 1) = 0
      BY <2>1, <2>7
    <3> QED
      BY <2>3, <2>7, <3>1
  <2> QED
    BY <2>2, <2>4, <2>5, <2>6, <2>7
<1>4. Doubled(xy) = field_add(field_add(Shifted(x), Shifted(y)), field_add(top(x), top(y)))
  BY <1>1, <1>3, DoubledIs, ShiftedAdd
<1>5. /\ Doubled(x) = field_add(Shifted(x), top(x))
      /\ Doubled(y) = field_add(Shifted(y), top(y))
  BY DoubledIs
<1> HIDE DEF top, xy
<1>6. field_add(field_add(Shifted(x), Shifted(y)), field_add(top(x), top(y)))
        = field_add(field_add(Shifted(x), top(x)), field_add(Shifted(y), top(y)))
  BY <1>2, AddPairs
<1> QED
  BY <1>4, <1>5, <1>6 DEF xy

\* The n-th power of alpha times x.
Times(n, x) == IF x = 0 THEN 0 ELSE exp[n + log[x]]

\* It is x multiplied by alpha n times.
LEMMA TimesUnfolds ==
    ASSUME NEW x \in Element
    PROVE  /\ Times(0, x) = x
           /\ \A n \in 0..Top : Times(n, x) \in Element
           /\ \A n \in 0..(Top - 1) : Times(n + 1, x) = Doubled(Times(n, x))
<1>0. Top \in Nat /\ Top > 0 /\ Element = 0..Top /\ Element \ {0} = 1..Top /\ 0 \in Element
  BY FieldSize
<1>1. CASE x = 0
  <2>1. Doubled(0) = 0
    BY <1>0 DEF Doubled
  <2> QED
    BY <1>0, <1>1, <2>1 DEF Times
<1>2. CASE x # 0
  <2>1. log[x] \in 1..Top /\ exp[log[x]] = x
    BY <1>2, LogIsIndex
  <2>2. Times(0, x) = x
    BY <1>2, <2>1 DEF Times
  <2>3. ASSUME NEW n \in 0..Top PROVE Times(n, x) \in Element
    <3>1. n + log[x] \in 0..(2 * Top)
      BY <1>0, <2>1
    <3>2. exp[n + log[x]] \in 1..Top
      BY <3>1, PowersGoRound
    <3> QED
      BY <1>0, <1>2, <3>2 DEF Times
  <2>4. ASSUME NEW n \in 0..(Top - 1) PROVE Times(n + 1, x) = Doubled(Times(n, x))
    <3>1. (n + 1) + log[x] \in 1..(2 * Top + 1) /\ ((n + 1) + log[x]) - 1 = n + log[x]
      BY <1>0, <2>1
    <3>2. exp[(n + 1) + log[x]] = Doubled(exp[n + log[x]])
      BY <3>1, ExpUnfolds
    <3> QED
      BY <1>2, <3>2 DEF Times
  <2> QED
    BY <2>2, <2>3, <2>4
<1> QED
  BY <1>1, <1>2

\* Multiplication by a power of alpha distributes over addition.
LEMMA TimesAdd ==
    ASSUME NEW x \in Element, NEW y \in Element
    PROVE  \A n \in 0..Top : Times(n, field_add(x, y)) = field_add(Times(n, x), Times(n, y))
<1> DEFINE xy == field_add(x, y)
           Good == {n \in Nat : n <= Top => Times(n, xy) = field_add(Times(n, x), Times(n, y))}
<1>0. Top \in Nat /\ xy \in Element
  BY FieldSize, AddBits
<1>1. 0 \in Good
  BY <1>0, TimesUnfolds
<1>2. ASSUME NEW n \in Nat, n \in Good
      PROVE  n + 1 \in Good
  <2> SUFFICES ASSUME n + 1 <= Top
               PROVE  Times(n + 1, xy) = field_add(Times(n + 1, x), Times(n + 1, y))
    OBVIOUS
  <2>1. n \in 0..(Top - 1) /\ n \in 0..Top
    BY <1>0
  <2>2. Times(n, xy) = field_add(Times(n, x), Times(n, y))
    BY <1>2, <2>1
  <2>3. Times(n, x) \in Element /\ Times(n, y) \in Element
    BY <2>1, TimesUnfolds
  <2>4. Times(n + 1, xy) = Doubled(Times(n, xy))
    BY <1>0, <2>1, TimesUnfolds
  <2>5. Times(n + 1, x) = Doubled(Times(n, x)) /\ Times(n + 1, y) = Doubled(Times(n, y))
    BY <2>1, TimesUnfolds
  <2> HIDE DEF xy
  <2> QED
    BY <2>2, <2>3, <2>4, <2>5, DoubledAdd
<1> HIDE DEF Good
<1>3. Nat \subseteq Good
  BY <1>1, <1>2, SetInduction
<1> QED
  BY <1>0, <1>3 DEF Good

\* Multiplications by powers of alpha may change places.
LEMMA TimesDoubled ==
    ASSUME NEW x \in Element
    PROVE  \A n \in 0..Top : Times(n, Doubled(x)) = Doubled(Times(n, x))
<1> DEFINE dx == Doubled(x)
           Good == {n \in Nat : n <= Top => Times(n, dx) = Doubled(Times(n, x))}
<1>0. Top \in Nat /\ dx \in Element
  BY FieldSize, DoubledIs
<1>1. 0 \in Good
  BY <1>0, TimesUnfolds
<1>2. ASSUME NEW n \in Nat, n \in Good
      PROVE  n + 1 \in Good
  <2> SUFFICES ASSUME n + 1 <= Top
               PROVE  Times(n + 1, dx) = Doubled(Times(n + 1, x))
    OBVIOUS
  <2>1. n \in 0..(Top - 1) /\ n \in 0..Top
    BY <1>0
  <2>2. Times(n, dx) = Doubled(Times(n, x))
    BY <1>2, <2>1
  <2>3. Times(n + 1, dx) = Doubled(Times(n, dx))
    BY <1>0, <2>1, TimesUnfolds
  <2>4. Times(n + 1, x) = Doubled(Times(n, x))
    BY <2>1, TimesUnfolds
  <2> HIDE DEF dx
  <2> QED
    BY <2>2, <2>3, <2>4
<1> HIDE DEF Good
<1>3. Nat \subseteq Good
  BY <1>1, <1>2, SetInduction
<1> QED
  BY <1>0, <1>3 DEF Good

\* Two multiplications by powers of alpha may change places.
LEMMA TimesCommutes ==
    ASSUME NEW x \in Element, NEW m \in 0..Top
    PROVE  \A n \in 0..Top : Times(m, Times(n, x)) = Times(n, Times(m, x))
<1> DEFINE y == Times(m, x)
           Good == {n \in Nat : n <= Top => Times(m, Times(n, x)) = Times(n, y)}
<1>0. Top \in Nat /\ y \in Element
  BY FieldSize, TimesUnfolds
<1>1. 0 \in Good
  BY <1>0, TimesUnfolds
<1>2. ASSUME NEW n \in Nat, n \in Good
      PROVE  n + 1 \in Good
  <2> SUFFICES ASSUME n + 1 <= Top
               PROVE  Times(m, Times(n + 1, x)) = Times(n + 1, y)
    OBVIOUS
  <2>1. n \in 0..(Top - 1) /\ n \in 0..Top
    BY <1>0
  <2>2. Times(m, Times(n, x)) = Times(n, y)
    BY <1>2, <2>1
  <2>3. Times(n + 1, y) = Doubled(Times(n, y))
    BY <1>0, <2>1, TimesUnfolds
  <2>4. Times(n + 1, x) = Doubled(Times(n, x)) /\ Times(n, x) \in Element
    BY <2>1, TimesUnfolds
  <2>5. Times(m, Doubled(Times(n, x))) = Doubled(Times(m, Times(n, x)))
    BY <2>4, TimesDoubled
  <2> HIDE DEF y
  <2> QED
    BY <2>2, <2>3, <2>4, <2>5
<1> HIDE DEF Good
<1>3. Nat \subseteq Good
  BY <1>1, <1>2, SetInduction
<1> QED
  BY <1>0, <1>3 DEF Good

\* The exponents of powers of alpha add.
LEMMA TimesPower ==
    ASSUME NEW m \in 0..Top
    PROVE  \A n \in 0..Top : Times(n, exp[m]) = exp[n + m]
<1> DEFINE x == exp[m]
           Good == {n \in Nat : n <= Top => Times(n, x) = exp[n + m]}
<1>0. Top \in Nat /\ m \in Nat /\ m <= Top /\ x \in Element
  <2>1. Top \in Nat /\ Element \ {0} = 1..Top /\ m \in 0..(2 * Top)
    BY FieldSize
  <2> QED
    BY <2>1, PowersGoRound
<1>1. 0 \in Good
  <2>1. 0 + m = m
    BY <1>0
  <2> QED
    BY <1>0, <2>1, TimesUnfolds
<1>2. ASSUME NEW n \in Nat, n \in Good
      PROVE  n + 1 \in Good
  <2> SUFFICES ASSUME n + 1 <= Top
               PROVE  Times(n + 1, x) = exp[(n + 1) + m]
    OBVIOUS
  <2>1. /\ n \in 0..(Top - 1) /\ n \in 0..Top
        /\ (n + 1) + m \in 1..(2 * Top + 1) /\ ((n + 1) + m) - 1 = n + m
    BY <1>0
  <2>2. Times(n, x) = exp[n + m]
    BY <1>2, <2>1
  <2>3. Times(n + 1, x) = Doubled(Times(n, x))
    BY <1>0, <2>1, TimesUnfolds
  <2>4. exp[(n + 1) + m] = Doubled(exp[n + m])
    BY <2>1, ExpUnfolds
  <2> QED
    BY <2>2, <2>3, <2>4
<1> HIDE DEF Good
<1>3. Nat \subseteq Good
  BY <1>1, <1>2, SetInduction
<1> QED
  BY <1>0, <1>3 DEF Good

\* field_mul multiplies by a power of alpha, except by 0.
LEMMA MulIsTimes ==
    ASSUME NEW x \in Element, NEW y \in Element
    PROVE  /\ field_mul(0, y) = 0 /\ field_mul(x, 0) = 0
           /\ x # 0 => log[x] \in 0..Top /\ field_mul(x, y) = Times(log[x], y)
<1>1. x # 0 => log[x] \in 1..Top
  BY LogIsIndex
<1>2. Top \in Nat
  BY FieldSize
<1> QED
  BY <1>1, <1>2 DEF field_mul, Times

\* The elements without 0 are closed under it.
LEMMA MulType ==
    ASSUME NEW x \in Element, NEW y \in Element
    PROVE  /\ field_mul(x, y) \in Element
           /\ field_mul(x, y) = 0 => x = 0 \/ y = 0
<1>0. Top \in Nat /\ Element = 0..Top /\ 0 \in Element
  BY FieldSize
<1>1. CASE x = 0 \/ y = 0
  BY <1>0, <1>1 DEF field_mul
<1>2. CASE x # 0 /\ y # 0
  <2>1. log[x] \in 1..Top /\ log[y] \in 1..Top
    BY <1>2, LogIsIndex
  <2>2. log[x] + log[y] \in 0..(2 * Top)
    BY <1>0, <2>1
  <2>3. field_mul(x, y) \in 1..Top
    BY <1>2, <2>2, PowersGoRound DEF field_mul
  <2> QED
    BY <1>0, <2>3
<1> QED
  BY <1>1, <1>2

\* field_mul is the multiplication of a field, with 1.
LEMMA MulCommutes ==
    ASSUME NEW x \in Element, NEW y \in Element
    PROVE  field_mul(x, y) = field_mul(y, x)
<1>0. Top \in Nat
  BY FieldSize
<1>1. CASE x = 0 \/ y = 0
  BY <1>1 DEF field_mul
<1>2. CASE x # 0 /\ y # 0
  <2>1. log[x] \in 1..Top /\ log[y] \in 1..Top
    BY <1>2, LogIsIndex
  <2>2. log[x] + log[y] = log[y] + log[x]
    BY <1>0, <2>1
  <2> QED
    BY <1>2, <2>2 DEF field_mul
<1> QED
  BY <1>1, <1>2

\* Multiplication by logarithms distributes over exclusive or.
LEMMA MulDistributes ==
    ASSUME NEW c \in Element, NEW x \in Element, NEW y \in Element
    PROVE  /\ field_mul(c, field_add(x, y)) = field_add(field_mul(c, x), field_mul(c, y))
           /\ field_mul(field_add(x, y), c) = field_add(field_mul(x, c), field_mul(y, c))
<1>0. field_add(x, y) \in Element /\ 0 \in Element
  BY AddBits, ZeroAndOne
<1>1. field_mul(c, field_add(x, y)) = field_add(field_mul(c, x), field_mul(c, y))
  <2>1. CASE c = 0
    BY <1>0, <2>1, MulIsTimes, AddZero
  <2>2. CASE c # 0
    BY <1>0, <2>2, MulIsTimes, TimesAdd
  <2> QED
    BY <2>1, <2>2
<1>2. /\ field_mul(field_add(x, y), c) = field_mul(c, field_add(x, y))
      /\ field_mul(x, c) = field_mul(c, x) /\ field_mul(y, c) = field_mul(c, y)
  BY <1>0, MulCommutes
<1> QED
  BY <1>1, <1>2

\* It associates.
LEMMA MulAssociates ==
    ASSUME NEW x \in Element, NEW y \in Element, NEW z \in Element
    PROVE  field_mul(field_mul(x, y), z) = field_mul(x, field_mul(y, z))
<1>0. /\ field_mul(x, y) \in Element /\ field_mul(y, z) \in Element
      /\ 0 \in Element
  BY MulType, ZeroAndOne
<1>1. CASE x = 0 \/ z = 0
  BY <1>0, <1>1, MulIsTimes
<1>2. CASE x # 0 /\ z # 0
  <2>1. /\ log[x] \in 0..Top /\ log[z] \in 0..Top
    BY <1>2, MulIsTimes
  <2>2. field_mul(field_mul(x, y), z) = field_mul(z, field_mul(x, y))
    BY <1>0, MulCommutes
  <2>3. field_mul(z, field_mul(x, y)) = Times(log[z], Times(log[x], y))
    BY <1>0, <1>2, MulIsTimes
  <2>4. field_mul(x, field_mul(z, y)) = Times(log[x], Times(log[z], y))
    <3>1. field_mul(z, y) \in Element
      BY MulType
    <3> QED
      BY <1>2, <3>1, MulIsTimes
  <2>5. field_mul(z, y) = field_mul(y, z)
    BY MulCommutes
  <2>6. Times(log[z], Times(log[x], y)) = Times(log[x], Times(log[z], y))
    BY <2>1, TimesCommutes
  <2> QED
    BY <2>2, <2>3, <2>4, <2>5, <2>6
<1> QED
  BY <1>1, <1>2

\* 1 is neutral.
LEMMA MulOne ==
    ASSUME NEW x \in Element
    PROVE  field_mul(1, x) = x /\ field_mul(x, 1) = x
<1>0. Top \in Nat /\ Top > 0 /\ Element = 0..Top /\ Element \ {0} = 1..Top /\ 1 \in Element
  BY FieldSize
<1>1. log[1] = Top
  <2>1. log[1] \in 1..Top /\ exp[log[1]] = 1
    BY <1>0, LogIsIndex
  <2>2. exp[Top] = 1 /\ Top \in 1..Top
    BY <1>0, PowersGoRound
  <2> QED
    BY <2>1, <2>2, EachElementOnce
<1>2. field_mul(1, x) = x
  <2>1. CASE x = 0
    BY <2>1 DEF field_mul
  <2>2. CASE x # 0
    <3>1. log[x] \in 1..Top /\ exp[log[x]] = x
      BY <2>2, LogIsIndex
    <3>2. log[x] \in 0..Top
      BY <3>1
    <3>3. exp[Top + log[x]] = exp[log[x]]
      BY <3>2, PowersGoRound
    <3> QED
      BY <1>1, <2>2, <3>1, <3>3 DEF field_mul
  <2> QED
    BY <2>1, <2>2
<1>3. field_mul(x, 1) = field_mul(1, x)
  BY <1>0, MulCommutes
<1> QED
  BY <1>2, <1>3

\* Multiplication by a power of alpha adds exponents.
LEMMA MulPower ==
    ASSUME NEW x \in 1..Top, NEW m \in 0..Top
    PROVE  /\ field_mul(x, exp[m]) = exp[log[x] + m]
           /\ log[x] \in 1..Top
<1>0. Top \in Nat /\ Top > 0 /\ Element = 0..Top /\ Element \ {0} = 1..Top
  BY FieldSize
<1>1. x \in Element /\ x # 0
  BY <1>0
<1>2. log[x] \in 1..Top
  BY <1>1, LogIsIndex
<1>3. exp[m] \in Element
  <2>1. m \in 0..(2 * Top)
    BY <1>0
  <2> QED
    BY <1>0, <2>1, PowersGoRound
<1> QED
  BY <1>1, <1>2, <1>3, MulIsTimes, TimesPower

\* Indices may be taken past the end of the first round.
LEMMA Wraps ==
    ASSUME NEW m \in 1..(2 * Top)
    PROVE  Wrapped(m) \in 1..Top /\ exp[Wrapped(m)] = exp[m]
<1>0. Top \in Nat /\ Top > 0
  BY FieldSize
<1>1. CASE m > Top
  <2>1. m - Top \in 0..Top /\ m - Top \in 1..Top /\ Top + (m - Top) = m
    BY <1>0, <1>1
  <2> QED
    BY <1>1, <2>1, PowersGoRound DEF Wrapped
<1>2. CASE ~(m > Top)
  BY <1>0, <1>2 DEF Wrapped
<1> QED
  BY <1>1, <1>2

\* field_div undoes field_mul.
LEMMA MulDivided ==
    ASSUME NEW x \in Element, NEW y \in 1..Top
    PROVE  /\ field_div(x, y) \in Element
           /\ field_mul(y, field_div(x, y)) = x
<1>0. Top \in Nat /\ Top > 0 /\ Element = 0..Top /\ Element \ {0} = 1..Top /\ y \in Element
  BY FieldSize
<1>1. CASE x = 0
  BY <1>0, <1>1, MulIsTimes DEF field_div
<1>2. CASE x # 0
  <2>1. log[x] \in 1..Top /\ exp[log[x]] = x /\ log[y] \in 1..Top /\ y # 0
    BY <1>0, <1>2, LogIsIndex
  <2> DEFINE m == Top + log[x] - log[y]
             w == Wrapped(m)
  <2>2. m \in 1..(2 * Top) /\ m \in 0..(2 * Top)
    BY <1>0, <2>1
  <2>3. field_div(x, y) = exp[m]
    BY <1>2, <2>1 DEF field_div
  <2>4. exp[m] \in Element
    BY <1>0, <2>2, PowersGoRound
  <2>5. w \in 1..Top /\ exp[w] = exp[m] /\ w \in 0..Top
    BY <2>2, Wraps
  <2>6. field_mul(y, exp[w]) = exp[log[y] + w]
    BY <2>5, MulPower
  <2>7. log[y] + w = Top + log[x] \/ log[y] + w = log[x]
    BY <1>0, <2>1 DEF Wrapped
  <2>8. exp[Top + log[x]] = exp[log[x]]
    <3>1. log[x] \in 0..Top
      BY <1>0, <2>1
    <3> QED
      BY <3>1, PowersGoRound
  <2> HIDE DEF m, w
  <2> QED
    BY <2>1, <2>3, <2>4, <2>5, <2>6, <2>7, <2>8
<1> QED
  BY <1>1, <1>2

\* Factors that are not 0 cancel.
LEMMA MulCancels ==
    ASSUME NEW y \in 1..Top, NEW u \in Element, NEW w \in Element,
           field_mul(y, u) = field_mul(y, w)
    PROVE  u = w
<1>0. y \in Element /\ 1 \in Element
  BY FieldSize, ZeroAndOne
<1>1. PICK z \in Element : field_mul(y, z) = 1
  BY <1>0, MulDivided
<1>2. field_mul(z, y) = 1
  BY <1>0, <1>1, MulCommutes
<1>3. ASSUME NEW x \in Element PROVE field_mul(z, field_mul(y, x)) = x
  BY <1>0, <1>2, MulAssociates, MulOne
<1> QED
  BY <1>3

-----------------------------------------------------------------------------
(* Powers of elements. *)

\* A remainder, by what is left below.
LEMMA Remainder ==
    ASSUME NEW p \in Nat, p > 0, NEW q \in Nat, NEW r \in Nat, r < p
    PROVE  (p * q + r) % p = r
<1> DEFINE v == p * q + r
<1>1. v \in Nat /\ v \div p = q
  <2>1. p * q \in Nat
    OBVIOUS
  <2>2. v \in Nat
    BY <2>1
  <2> QED
    BY <2>2, Quotient
<1>2. v = p * (v \div p) + (v % p) /\ v % p \in Nat
  BY <1>1, Division
<1>3. v = p * q + (v % p)
  BY <1>1, <1>2
<1> DEFINE a == p * q
           m == v % p
<1>4. a \in Nat /\ m \in Nat /\ v = a + m /\ v = a + r
  BY <1>2, <1>3
<1> HIDE DEF a, m, v
<1>5. m = r
  BY <1>4
<1> QED
  BY <1>5 DEF m, v

\* What a summand changes about a remainder.
LEMMA RemainderAdd ==
    ASSUME NEW p \in Nat, p > 0, NEW a \in Nat, NEW b \in Nat, b <= p
    PROVE  /\ a % p \in 0..(p - 1)
           /\ (a + b) % p = IF (a % p) + b < p THEN (a % p) + b ELSE (a % p) + b - p
<1> DEFINE q == a \div p
           r == a % p
<1>1. q \in Nat /\ r \in 0..(p - 1) /\ a = p * q + r
  BY Division
<1>2. a % p = r
  OBVIOUS
<1> HIDE DEF q, r
<1>3. CASE r + b < p
  <2>1. a + b = p * q + (r + b) /\ r + b \in Nat
    BY <1>1
  <2>2. (p * q + (r + b)) % p = r + b
    BY <1>1, <1>3, <2>1, Remainder
  <2> QED
    BY <1>1, <1>2, <1>3, <2>1, <2>2
<1>4. CASE ~(r + b < p)
  <2>1. p * (q + 1) = p * q + p
    BY <1>1
  <2>2. r + b - p \in Nat /\ r + b - p < p
    BY <1>1, <1>4
  <2> DEFINE c == p * q
             d == p * (q + 1)
  <2>3. c \in Nat /\ d \in Nat /\ d = c + p /\ a = c + r
    BY <1>1, <2>1
  <2>4. a + b = d + (r + b - p)
    <3> HIDE DEF c, d
    <3> QED
      BY <1>1, <2>3
  <2>5. (p * (q + 1) + (r + b - p)) % p = r + b - p
    BY <1>1, <2>2, Remainder, q + 1 \in Nat
  <2> QED
    BY <1>1, <1>2, <1>4, <2>4, <2>5
<1> QED
  BY <1>3, <1>4

\* field_pow multiplies up.
LEMMA PowUnfolds ==
    ASSUME NEW v \in 1..Top
    PROVE  /\ field_pow(v, 0) = 1
           /\ \A n \in Nat : /\ field_pow(v, n) \in Element
                             /\ field_pow(v, n + 1) = field_mul(v, field_pow(v, n))
<1> DEFINE l == log[v]
<1>0. Top \in Nat /\ Top > 0 /\ Element = 0..Top /\ Element \ {0} = 1..Top
  BY FieldSize
<1>1. l \in 1..Top
  BY <1>0, LogIsIndex
<1>2. field_pow(v, 0) = 1
  <2> HIDE DEF l
  <2>1. l * 0 = 0 /\ 0 % Top = 0
    BY <1>0, <1>1
  <2> QED
    BY <2>1, ExpUnfolds DEF field_pow, l
<1>3. ASSUME NEW n \in Nat
      PROVE  /\ field_pow(v, n) \in Element
             /\ field_pow(v, n + 1) = field_mul(v, field_pow(v, n))
  <2> DEFINE a == l * n
             r == a % Top
             b == l * (n + 1)
             s == b % Top
  <2>1. a \in Nat /\ b = a + l
    <3> HIDE DEF l
    <3> QED
      BY <1>1
  <2>2. field_pow(v, n) = exp[r] /\ field_pow(v, n + 1) = exp[s]
    BY DEF field_pow
  <2>3. /\ r \in 0..(Top - 1)
        /\ s = IF r + l < Top THEN r + l ELSE r + l - Top
    <3> HIDE DEF a, b, l
    <3>1. l \in Nat /\ l <= Top
      BY <1>0, <1>1
    <3> QED
      BY <1>0, <2>1, <3>1, RemainderAdd
  <2> HIDE DEF a, b, s, r
  <2>4. r \in 0..Top /\ r \in 0..(2 * Top)
    BY <1>0, <2>3
  <2>5. field_mul(v, exp[r]) = exp[l + r]
    BY <2>4, MulPower
  <2>6. exp[r] \in Element
    BY <1>0, <2>4, PowersGoRound
  <2>7. exp[l + r] = exp[s]
    <3> HIDE DEF l
    <3>1. CASE r + l < Top
      <4>1. s = l + r
        BY <1>0, <1>1, <2>3, <3>1
      <4> QED
        BY <4>1
    <3>2. CASE ~(r + l < Top)
      <4>1. s \in 0..Top /\ l + r = Top + s
        BY <1>0, <1>1, <2>3, <3>2
      <4> QED
        BY <4>1, PowersGoRound
    <3> QED
      BY <3>1, <3>2
  <2> QED
    BY <2>2, <2>5, <2>6, <2>7
<1> QED
  BY <1>2, <1>3

\* Exponents add.
LEMMA PowAdds ==
    ASSUME NEW v \in 1..Top, NEW s \in Nat
    PROVE  \A n \in Nat : field_pow(v, n + s) = field_mul(field_pow(v, n), field_pow(v, s))
<1> DEFINE p(n) == field_pow(v, n)
           Good == {n \in Nat : p(n + s) = field_mul(p(n), p(s))}
<1>0. v \in Element /\ p(s) \in Element /\ p(0) = 1 /\ s \in Nat
  BY FieldSize, PowUnfolds
<1>1. 0 \in Good
  <2>1. 0 + s = s
    OBVIOUS
  <2>2. field_mul(1, p(s)) = p(s)
    BY <1>0, MulOne
  <2>3. p(0 + s) = field_mul(p(0), p(s))
    BY <1>0, <2>1, <2>2
  <2> QED
    BY <2>3
<1>2. ASSUME NEW n \in Nat, n \in Good
      PROVE  n + 1 \in Good
  <2>1. (n + 1) + s = (n + s) + 1 /\ n + s \in Nat
    BY <1>0
  <2>2. p((n + s) + 1) = field_mul(v, p(n + s)) /\ p(n + 1) = field_mul(v, p(n)) /\ p(n) \in Element
    BY <2>1, PowUnfolds
  <2>3. p(n + s) = field_mul(p(n), p(s))
    BY <1>2
  <2> HIDE DEF p
  <2>4. field_mul(field_mul(v, p(n)), p(s)) = field_mul(v, field_mul(p(n), p(s)))
    BY <1>0, <2>2, MulAssociates
  <2>5. p((n + 1) + s) = field_mul(p(n + 1), p(s))
    BY <2>1, <2>2, <2>3, <2>4
  <2> QED
    BY <2>5
<1> HIDE DEF Good
<1>3. Nat \subseteq Good
  BY <1>1, <1>2, SetInduction
<1> QED
  BY <1>3 DEF Good

\* The logarithms of the powers of v up to n.
LogPowers(lut, v, n) ==
    \A k \in 0..n : lut[k] \in 1..Top /\ exp[lut[k]] = field_pow(v, k)

\* polynomial_build_exp_lut tabulates them.
LEMMA LutIsPowers ==
    ASSUME NEW v \in 1..Top, NEW n \in Nat
    PROVE  LogPowers(polynomial_build_exp_lut(v, n), v, n)
<1> DEFINE S == 1..Top
           l == log[v]
           g == [k \in 1..n |-> [x \in S |-> field_mul_log(x, l)]]
           Table(u) == u = [k \in 0..n |->
                              IF k = 0 THEN log[1] ELSE field_mul_log(u[k - 1], log[v])]
<1>0. /\ Top \in Nat /\ Top > 0 /\ Element = 0..Top /\ Element \ {0} = S
      /\ v \in S /\ v # 0 /\ 1 \in S
  BY FieldSize
<1>1. /\ l \in S /\ exp[l] = v
      /\ log[1] \in S /\ exp[log[1]] = 1
  BY <1>0, LogIsIndex
<1>2. ASSUME NEW x \in S
      PROVE  /\ field_mul_log(x, l) \in S
             /\ exp[field_mul_log(x, l)] = field_mul(v, exp[x])
  <2>1. x + l \in 1..(2 * Top) /\ x \in 0..Top /\ x + l = l + x
    BY <1>0, <1>1
  <2>2. Wrapped(x + l) \in S /\ exp[Wrapped(x + l)] = exp[x + l]
    BY <2>1, Wraps
  <2>3. field_mul(v, exp[x]) = exp[l + x]
    BY <2>1, MulPower
  <2> QED
    BY <2>1, <2>2, <2>3 DEF field_mul_log
<1> HIDE DEF S
<1>3. \E u \in [0..n -> S] : Recurs(u, log[1], g, n)
  <2>1. g \in [1..n -> [S -> S]]
    BY <1>2
  <2> HIDE DEF g
  <2> QED
    BY <1>1, <2>1, RecursionExists
<1>4. PICK u \in [0..n -> S] : Recurs(u, log[1], g, n)
  BY <1>3
<1>5. Table(u)
  <2>1. ASSUME NEW k \in 0..n
        PROVE  u[k] = IF k = 0 THEN log[1] ELSE field_mul_log(u[k - 1], log[v])
    <3>1. u[k] = IF k = 0 THEN log[1] ELSE g[k][u[k - 1]]
      <4> HIDE DEF g
      <4> QED
        BY <1>4 DEF Recurs
    <3>2. k # 0 => k \in 1..n /\ u[k - 1] \in S
      OBVIOUS
    <3> QED
      BY <3>1, <3>2
  <2>2. u = [k \in 0..n |-> u[k]]
    OBVIOUS
  <2> HIDE DEF g
  <2> QED
    BY <2>1, <2>2, Zenon
<1>6. polynomial_build_exp_lut(v, n) = [k \in 0..n |-> (CHOOSE w : Table(w))[k]]
  BY <1>0 DEF polynomial_build_exp_lut
<1>7. PICK w : Table(w) /\ polynomial_build_exp_lut(v, n) = [k \in 0..n |-> w[k]]
  <2> HIDE DEF Table
  <2> QED
    BY <1>5, <1>6
<1>8. \A k \in 0..n : w[k] = IF k = 0 THEN log[1] ELSE field_mul_log(w[k - 1], l)
  BY <1>7
<1> HIDE DEF Table, l
<1> DEFINE Good == {k \in Nat : k <= n => w[k] \in S /\ exp[w[k]] = field_pow(v, k)}
<1>9. 0 \in Good
  <2>1. 0 \in 0..n
    OBVIOUS
  <2>2. w[0] = log[1]
    BY <1>8, <2>1
  <2> QED
    BY <1>1, <2>2, PowUnfolds
<1>10. ASSUME NEW k \in Nat, k \in Good
       PROVE  k + 1 \in Good
  <2> SUFFICES ASSUME k + 1 <= n
               PROVE  w[k + 1] \in S /\ exp[w[k + 1]] = field_pow(v, k + 1)
    OBVIOUS
  <2>1. k + 1 \in 0..n /\ k + 1 # 0 /\ (k + 1) - 1 = k
    OBVIOUS
  <2>2. w[k + 1] = field_mul_log(w[k], l)
    BY <1>8, <2>1
  <2>3. w[k] \in S /\ exp[w[k]] = field_pow(v, k)
    BY <1>10, <2>1
  <2>4. field_pow(v, k + 1) = field_mul(v, field_pow(v, k))
    BY PowUnfolds
  <2> QED
    BY <1>2, <2>2, <2>3, <2>4
<1> HIDE DEF Good
<1>11. Nat \subseteq Good
  BY <1>9, <1>10, SetInduction
<1>12. \A k \in 0..n : w[k] \in S /\ exp[w[k]] = field_pow(v, k)
  BY <1>11 DEF Good
<1>13. \A k \in 0..n : polynomial_build_exp_lut(v, n)[k] = w[k]
  BY <1>7
<1> QED
  BY <1>12, <1>13 DEF LogPowers, S

-----------------------------------------------------------------------------
(* Sums. *)

\* What may be added up from 0 to n.
Terms(f, n) == \A k \in 0..n : f[k] \in Element

\* The partial sums of SumTo.
PartialSums(u, f, n) == \A k \in 0..n : u[k] = IF k = 0 THEN f[0] ELSE field_add(u[k - 1], f[k])

\* Two lists of partial sums of the same terms agree.
LEMMA PartialSumsAgree ==
    ASSUME NEW f, NEW n \in Nat, NEW u, NEW w, NEW m \in Nat, n <= m,
           PartialSums(u, f, n), PartialSums(w, f, m)
    PROVE  u[n] = w[n]
<1> DEFINE Good == {k \in Nat : k <= n => u[k] = w[k]}
<1>1. 0 \in Good
  BY DEF PartialSums
<1>2. ASSUME NEW k \in Nat, k \in Good
      PROVE  k + 1 \in Good
  <2> SUFFICES ASSUME k + 1 <= n PROVE u[k + 1] = w[k + 1]
    OBVIOUS
  <2>1. k + 1 \in 0..n /\ k + 1 \in 0..m /\ k + 1 # 0 /\ (k + 1) - 1 = k
    OBVIOUS
  <2>2. u[k] = w[k]
    BY <1>2, <2>1
  <2>3. u[k + 1] = field_add(u[k], f[k + 1]) /\ w[k + 1] = field_add(w[k], f[k + 1])
    BY <2>1 DEF PartialSums
  <2> QED
    BY <2>2, <2>3
<1> HIDE DEF Good
<1>3. n \in Good
  BY <1>1, <1>2, SetInduction
<1> QED
  BY <1>3, n <= n DEF Good

\* SumTo is the last of them.
LEMMA SumToIsPartial ==
    ASSUME NEW n \in Nat, NEW f, Terms(f, n)
    PROVE  \E u \in [0..n -> Element] : PartialSums(u, f, n) /\ SumTo(f, n) = u[n]
<1> DEFINE g == [k \in 1..n |-> [x \in Element |-> field_add(x, f[k])]]
           Table(u) == u = [k \in 0..n |-> IF k = 0 THEN f[0] ELSE field_add(u[k - 1], f[k])]
<1>1. \E u \in [0..n -> Element] : Recurs(u, f[0], g, n)
  <2>1. ASSUME NEW k \in 1..n, NEW x \in Element PROVE field_add(x, f[k]) \in Element
    <3>1. f[k] \in Element
      BY DEF Terms
    <3> QED
      BY <3>1, AddBits
  <2>2. g \in [1..n -> [Element -> Element]]
    BY <2>1
  <2>3. f[0] \in Element
    BY DEF Terms
  <2> HIDE DEF g
  <2> QED
    BY <2>2, <2>3, RecursionExists
<1>2. PICK u \in [0..n -> Element] : Recurs(u, f[0], g, n)
  BY <1>1
<1>3. PartialSums(u, f, n)
  <2>1. ASSUME NEW k \in 0..n
        PROVE  u[k] = IF k = 0 THEN f[0] ELSE field_add(u[k - 1], f[k])
    <3>1. u[k] = IF k = 0 THEN f[0] ELSE g[k][u[k - 1]]
      <4> HIDE DEF g
      <4> QED
        BY <1>2 DEF Recurs
    <3>2. k # 0 => k \in 1..n /\ u[k - 1] \in Element
      OBVIOUS
    <3> QED
      BY <3>1, <3>2
  <2> QED
    BY <2>1 DEF PartialSums
<1>4. Table(u)
  <2>1. u = [k \in 0..n |-> u[k]]
    OBVIOUS
  <2> HIDE DEF g
  <2> QED
    BY <1>3, <2>1, Zenon DEF PartialSums
<1>5. SumTo(f, n) = (CHOOSE w : Table(w))[n]
  BY DEF SumTo
<1>6. PICK w : Table(w) /\ SumTo(f, n) = w[n]
  <2> HIDE DEF Table
  <2> QED
    BY <1>4, <1>5
<1>7. PartialSums(w, f, n)
  BY <1>6 DEF PartialSums
<1>8. u[n] = w[n]
  <2> HIDE DEF Table
  <2> QED
    BY <1>3, <1>7, PartialSumsAgree, n <= n
<1> QED
  BY <1>3, <1>6, <1>8

\* SumTo adds one term after the other.
LEMMA SumToUnfolds ==
    ASSUME NEW n \in Nat, NEW f, Terms(f, n)
    PROVE  /\ SumTo(f, 0) = f[0]
           /\ \A k \in 0..n : SumTo(f, k) \in Element
           /\ \A k \in Nat : k < n => SumTo(f, k + 1) = field_add(SumTo(f, k), f[k + 1])
<1>1. PICK u \in [0..n -> Element] : PartialSums(u, f, n) /\ SumTo(f, n) = u[n]
  BY SumToIsPartial
<1>2. ASSUME NEW k \in 0..n PROVE SumTo(f, k) = u[k]
  <2>1. k \in Nat /\ k <= n /\ Terms(f, k)
    BY DEF Terms
  <2>2. PICK w \in [0..k -> Element] : PartialSums(w, f, k) /\ SumTo(f, k) = w[k]
    BY <2>1, SumToIsPartial
  <2>3. w[k] = u[k]
    BY <1>1, <2>1, <2>2, PartialSumsAgree
  <2> QED
    BY <2>2, <2>3
<1>3. 0 \in 0..n
  OBVIOUS
<1>4. SumTo(f, 0) = f[0]
  BY <1>1, <1>2, <1>3 DEF PartialSums
<1>5. ASSUME NEW k \in Nat, k < n
      PROVE  SumTo(f, k + 1) = field_add(SumTo(f, k), f[k + 1])
  <2>1. k \in 0..n /\ k + 1 \in 0..n /\ k + 1 # 0 /\ (k + 1) - 1 = k
    BY <1>5
  <2>2. u[k + 1] = field_add(u[k], f[k + 1])
    BY <1>1, <2>1 DEF PartialSums
  <2> QED
    BY <1>2, <2>1, <2>2
<1> QED
  BY <1>2, <1>4, <1>5

\* The same terms have the same sum.
LEMMA SumToSame ==
    ASSUME NEW n \in Nat, NEW f, NEW h, Terms(f, n), \A k \in 0..n : h[k] = f[k]
    PROVE  SumTo(h, n) = SumTo(f, n)
<1>1. Terms(h, n)
  BY DEF Terms
<1>2. PICK u \in [0..n -> Element] : PartialSums(u, f, n) /\ SumTo(f, n) = u[n]
  BY SumToIsPartial
<1>3. PICK w \in [0..n -> Element] : PartialSums(w, h, n) /\ SumTo(h, n) = w[n]
  BY <1>1, SumToIsPartial
<1>4. PartialSums(w, f, n)
  <2>1. 0 \in 0..n
    OBVIOUS
  <2> QED
    BY <1>3, <2>1 DEF PartialSums
<1> QED
  BY <1>2, <1>3, <1>4, PartialSumsAgree, n <= n

\* Sums are added term by term.
LEMMA SumToAdd ==
    ASSUME NEW n \in Nat, NEW f, NEW g, NEW h, Terms(f, n), Terms(g, n),
           \A k \in 0..n : h[k] = field_add(f[k], g[k])
    PROVE  SumTo(h, n) = field_add(SumTo(f, n), SumTo(g, n))
<1> DEFINE Good == {k \in Nat : k <= n => SumTo(h, k) = field_add(SumTo(f, k), SumTo(g, k))}
<1>0. Terms(h, n)
  BY AddBits DEF Terms
<1>1. 0 \in Good
  <2>1. 0 \in 0..n
    OBVIOUS
  <2> QED
    BY <1>0, <2>1, SumToUnfolds
<1>2. ASSUME NEW k \in Nat, k \in Good
      PROVE  k + 1 \in Good
  <2> SUFFICES ASSUME k + 1 <= n
               PROVE  SumTo(h, k + 1) = field_add(SumTo(f, k + 1), SumTo(g, k + 1))
    OBVIOUS
  <2>1. k \in 0..n /\ k + 1 \in 0..n /\ k < n
    OBVIOUS
  <2>2. SumTo(h, k) = field_add(SumTo(f, k), SumTo(g, k))
    BY <1>2, <2>1
  <2>3. /\ SumTo(f, k) \in Element /\ SumTo(g, k) \in Element
        /\ f[k + 1] \in Element /\ g[k + 1] \in Element
    BY <2>1, SumToUnfolds DEF Terms
  <2>4. /\ SumTo(h, k + 1) = field_add(SumTo(h, k), h[k + 1])
        /\ SumTo(f, k + 1) = field_add(SumTo(f, k), f[k + 1])
        /\ SumTo(g, k + 1) = field_add(SumTo(g, k), g[k + 1])
    BY <1>0, <2>1, SumToUnfolds
  <2>5. h[k + 1] = field_add(f[k + 1], g[k + 1])
    BY <2>1
  <2>6. field_add(field_add(SumTo(f, k), SumTo(g, k)), field_add(f[k + 1], g[k + 1]))
          = field_add(field_add(SumTo(f, k), f[k + 1]), field_add(SumTo(g, k), g[k + 1]))
    BY <2>3, AddPairs
  <2> QED
    BY <2>2, <2>4, <2>5, <2>6
<1> HIDE DEF Good
<1>3. n \in Good
  BY <1>1, <1>2, SetInduction
<1> QED
  BY <1>3, n <= n DEF Good

\* A factor of all terms is one of the sum.
LEMMA SumToScale ==
    ASSUME NEW n \in Nat, NEW f, NEW h, NEW c \in Element, Terms(f, n),
           \A k \in 0..n : h[k] = field_mul(c, f[k])
    PROVE  SumTo(h, n) = field_mul(c, SumTo(f, n))
<1> DEFINE Good == {k \in Nat : k <= n => SumTo(h, k) = field_mul(c, SumTo(f, k))}
<1>0. Terms(h, n)
  BY MulType DEF Terms
<1>1. 0 \in Good
  <2>1. 0 \in 0..n
    OBVIOUS
  <2> QED
    BY <1>0, <2>1, SumToUnfolds
<1>2. ASSUME NEW k \in Nat, k \in Good
      PROVE  k + 1 \in Good
  <2> SUFFICES ASSUME k + 1 <= n
               PROVE  SumTo(h, k + 1) = field_mul(c, SumTo(f, k + 1))
    OBVIOUS
  <2>1. k \in 0..n /\ k + 1 \in 0..n /\ k < n
    OBVIOUS
  <2>2. SumTo(h, k) = field_mul(c, SumTo(f, k))
    BY <1>2, <2>1
  <2>3. SumTo(f, k) \in Element /\ f[k + 1] \in Element
    BY <2>1, SumToUnfolds DEF Terms
  <2>4. /\ SumTo(h, k + 1) = field_add(SumTo(h, k), h[k + 1])
        /\ SumTo(f, k + 1) = field_add(SumTo(f, k), f[k + 1])
    BY <1>0, <2>1, SumToUnfolds
  <2>5. h[k + 1] = field_mul(c, f[k + 1])
    BY <2>1
  <2>6. field_mul(c, field_add(SumTo(f, k), f[k + 1]))
          = field_add(field_mul(c, SumTo(f, k)), field_mul(c, f[k + 1]))
    BY <2>3, MulDistributes
  <2> QED
    BY <2>2, <2>4, <2>5, <2>6
<1> HIDE DEF Good
<1>3. n \in Good
  BY <1>1, <1>2, SetInduction
<1> QED
  BY <1>3, n <= n DEF Good

\* Terms that are 0 at the end add nothing.
LEMMA SumToTail ==
    ASSUME NEW n \in Nat, NEW m \in Nat, m <= n, NEW f, Terms(f, n),
           \A k \in 0..n : k > m => f[k] = 0
    PROVE  SumTo(f, n) = SumTo(f, m)
<1> DEFINE Good == {d \in Nat : m + d <= n => SumTo(f, m + d) = SumTo(f, m)}
<1>1. 0 \in Good
  <2>1. m + 0 = m
    OBVIOUS
  <2> QED
    BY <2>1
<1>2. ASSUME NEW d \in Nat, d \in Good
      PROVE  d + 1 \in Good
  <2> SUFFICES ASSUME m + (d + 1) <= n
               PROVE  SumTo(f, m + (d + 1)) = SumTo(f, m)
    OBVIOUS
  <2> DEFINE k == m + d
  <2>1. /\ k \in Nat /\ k \in 0..n /\ k + 1 \in 0..n /\ k < n /\ m + (d + 1) = k + 1 /\ k + 1 > m
    OBVIOUS
  <2>2. SumTo(f, k) = SumTo(f, m)
    BY <1>2, <2>1
  <2> HIDE DEF k
  <2>3. SumTo(f, k + 1) = field_add(SumTo(f, k), f[k + 1]) /\ SumTo(f, k) \in Element
    BY <2>1, SumToUnfolds
  <2>4. f[k + 1] = 0
    BY <2>1
  <2> QED
    BY <2>1, <2>2, <2>3, <2>4, AddZero
<1> HIDE DEF Good
<1>3. n - m \in Nat /\ m + (n - m) = n /\ n <= n
  OBVIOUS
<1>4. n - m \in Good
  BY <1>1, <1>2, <1>3, SetInduction
<1> QED
  BY <1>3, <1>4 DEF Good

\* A sum of zeros is 0.
LEMMA SumToZero ==
    ASSUME NEW n \in Nat, NEW f, \A k \in 0..n : f[k] = 0
    PROVE  SumTo(f, n) = 0
<1>1. Terms(f, n)
  BY ZeroAndOne DEF Terms
<1>2. SumTo(f, n) = SumTo(f, 0)
  BY <1>1, SumToTail
<1>3. 0 \in 0..n
  OBVIOUS
<1> QED
  BY <1>1, <1>2, <1>3, SumToUnfolds

\* Neither do zeros in front.
LEMMA SumToDelayed ==
    ASSUME NEW n \in Nat, NEW d \in Nat, NEW f, NEW h, Terms(f, n),
           \A k \in 0..(n + d) : h[k] = IF k < d THEN 0 ELSE f[k - d]
    PROVE  SumTo(h, n + d) = SumTo(f, n)
<1> DEFINE Good == {k \in Nat : k <= n => SumTo(h, k + d) = SumTo(f, k)}
<1>0. Terms(h, n + d)
  <2>1. ASSUME NEW k \in 0..(n + d) PROVE h[k] \in Element
    <3>1. k < d \/ k - d \in 0..n
      OBVIOUS
    <3> QED
      BY <3>1, ZeroAndOne DEF Terms
  <2> QED
    BY <2>1 DEF Terms
<1>a. n + d \in Nat /\ 0 \in 0..n /\ \A k \in Nat : k <= n => k \in 0..n
  OBVIOUS
<1>1. 0 \in Good
  <2>1. f[0] \in Element /\ SumTo(f, 0) = f[0]
    BY <1>a, SumToUnfolds DEF Terms
  <2>2. CASE d = 0
    <3>1. h[0] = f[0] /\ 0 + d = 0
      <4>1. 0 \in 0..(n + d) /\ ~(0 < d) /\ 0 - d = 0 /\ 0 + d = 0
        BY <2>2
      <4> QED
        BY <4>1
    <3>2. SumTo(h, 0) = h[0]
      BY <1>0, <1>a, SumToUnfolds
    <3>3. SumTo(h, 0 + d) = SumTo(f, 0)
      BY <2>1, <3>1, <3>2
    <3> QED
      BY <3>3
  <2>3. CASE d # 0
    <3>1. /\ d - 1 \in Nat /\ (d - 1) + 1 = d /\ d - 1 < n + d /\ d \in 0..(n + d) /\ d - d = 0 /\ ~(d < d)
          /\ 0 + d = d
      BY <2>3
    <3>2. SumTo(h, d - 1) = 0
      <4>1. \A k \in 0..(d - 1) : h[k] = 0
        OBVIOUS
      <4> QED
        BY <3>1, <4>1, SumToZero
    <3>3. SumTo(h, (d - 1) + 1) = field_add(SumTo(h, d - 1), h[(d - 1) + 1])
      BY <1>0, <1>a, <3>1, SumToUnfolds
    <3>4. h[d] = f[0]
      BY <3>1
    <3>5. SumTo(h, d) = f[0]
      BY <2>1, <3>1, <3>2, <3>3, <3>4, AddZero
    <3>6. SumTo(h, 0 + d) = SumTo(f, 0)
      BY <2>1, <3>1, <3>5
    <3> QED
      BY <3>6
  <2> QED
    BY <2>2, <2>3
<1>2. ASSUME NEW k \in Nat, k \in Good
      PROVE  k + 1 \in Good
  <2> SUFFICES ASSUME k + 1 <= n
               PROVE  SumTo(h, (k + 1) + d) = SumTo(f, k + 1)
    OBVIOUS
  <2>1. /\ k < n /\ (k + 1) + d = (k + d) + 1 /\ k + d \in Nat /\ k + d < n + d
        /\ (k + d) + 1 \in 0..(n + d) /\ ~((k + d) + 1 < d) /\ ((k + d) + 1) - d = k + 1
    OBVIOUS
  <2>2. SumTo(h, k + d) = SumTo(f, k)
    BY <1>2, <2>1
  <2>3. SumTo(h, (k + d) + 1) = field_add(SumTo(h, k + d), h[(k + d) + 1])
    BY <1>0, <1>a, <2>1, SumToUnfolds
  <2>4. SumTo(f, k + 1) = field_add(SumTo(f, k), f[k + 1])
    BY <2>1, SumToUnfolds
  <2>5. h[(k + d) + 1] = f[k + 1]
    BY <2>1
  <2> QED
    BY <2>1, <2>2, <2>3, <2>4, <2>5
<1> HIDE DEF Good
<1>3. n \in Good
  BY <1>1, <1>2, SetInduction
<1> QED
  BY <1>3, n <= n DEF Good

-----------------------------------------------------------------------------
(* Values of polynomials. *)

\* The order of a polynomial given as a function.
LEMMA OrderOf ==
    ASSUME NEW n \in Nat, NEW p, DOMAIN p = 0..n
    PROVE  Order(p) = n
<1>1. Cardinality(0..n) = n + 1
  BY FS_Interval, 0 \in Int, n \in Int
<1> QED
  BY <1>1 DEF Order

\* The factors of two products may be multiplied in other pairs.
LEMMA MulPairs ==
    ASSUME NEW a \in Element, NEW b \in Element, NEW x \in Element, NEW y \in Element
    PROVE  field_mul(field_mul(a, b), field_mul(x, y)) = field_mul(field_mul(a, y), field_mul(b, x))
<1>1. /\ field_mul(x, y) \in Element /\ field_mul(b, x) \in Element
      /\ field_mul(b, y) \in Element
  BY MulType
<1>2. field_mul(field_mul(a, b), field_mul(x, y)) = field_mul(a, field_mul(b, field_mul(x, y)))
  BY <1>1, MulAssociates
<1>3. field_mul(field_mul(a, y), field_mul(b, x)) = field_mul(a, field_mul(y, field_mul(b, x)))
  BY <1>1, MulAssociates
<1>4. field_mul(b, field_mul(x, y)) = field_mul(field_mul(b, x), y)
  BY MulAssociates
<1>5. field_mul(field_mul(b, x), y) = field_mul(y, field_mul(b, x))
  BY <1>1, MulCommutes
<1> QED
  BY <1>2, <1>3, <1>4, <1>5

\* The value at v of the polynomial with coefficients p[0], ..., p[n].
Value(p, n, v) == SumTo([k \in 0..n |-> field_mul(p[k], field_pow(v, k))], n)

\* Its terms are elements.
LEMMA ValueTerms ==
    ASSUME NEW n \in Nat, NEW p, Terms(p, n), NEW v \in 1..Top
    PROVE  /\ Terms([k \in 0..n |-> field_mul(p[k], field_pow(v, k))], n)
           /\ Value(p, n, v) \in Element
<1> DEFINE f == [k \in 0..n |-> field_mul(p[k], field_pow(v, k))]
<1>1. ASSUME NEW k \in 0..n PROVE f[k] \in Element
  <2>1. p[k] \in Element /\ field_pow(v, k) \in Element
    BY PowUnfolds DEF Terms
  <2> QED
    BY <2>1, MulType
<1>2. Terms(f, n)
  BY <1>1 DEF Terms
<1>3. SumTo(f, n) \in Element
  <2> HIDE DEF f
  <2> QED
    BY <1>2, SumToUnfolds
<1> QED
  BY <1>2, <1>3 DEF Value

\* polynomial_eval_lut computes it, from logarithms of the powers of v.
LEMMA EvalIsValue ==
    ASSUME NEW n \in Nat, NEW v \in 1..Top, NEW p \in [0..n -> Element],
           NEW lut, LogPowers(lut, v, n)
    PROVE  polynomial_eval_lut(p, lut) = Value(p, n, v)
<1> DEFINE f == [k \in 0..n |-> field_mul(p[k], field_pow(v, k))]
           e == [k \in DOMAIN p |-> IF p[k] = 0 THEN 0
                                    ELSE field_mul_log_element(log[p[k]], lut[k])]
<1>0. Top \in Nat /\ Top > 0 /\ Element \ {0} = 1..Top /\ DOMAIN p = 0..n /\ Order(p) = n
  BY FieldSize, OrderOf
<1>1. lut[0] \in 1..Top /\ lut[0] # 0
  BY <1>0 DEF LogPowers
<1>2. ASSUME NEW k \in 0..n PROVE e[k] = f[k]
  <2>1. lut[k] \in 0..Top /\ exp[lut[k]] = field_pow(v, k) /\ p[k] \in Element
    BY <1>0 DEF LogPowers
  <2>2. CASE p[k] = 0
    BY <1>0, <2>2 DEF field_mul
  <2>3. CASE p[k] # 0
    <3>1. p[k] \in 1..Top
      BY <1>0, <2>1, <2>3
    <3>2. field_mul(p[k], exp[lut[k]]) = exp[log[p[k]] + lut[k]]
      BY <2>1, <3>1, MulPower
    <3>3. e[k] = exp[log[p[k]] + lut[k]]
      BY <1>0, <2>3 DEF field_mul_log_element
    <3> QED
      BY <2>1, <3>2, <3>3
  <2> QED
    BY <2>2, <2>3
<1>3. polynomial_eval_lut(p, lut) = SumTo(e, n)
  BY <1>0, <1>1 DEF polynomial_eval_lut
<1>4. Terms(p, n)
  BY DEF Terms
<1>5. Terms(f, n)
  BY <1>4, ValueTerms
<1> HIDE DEF e, f
<1>6. SumTo(e, n) = SumTo(f, n)
  BY <1>2, <1>5, SumToSame
<1> QED
  BY <1>3, <1>6 DEF Value, f

\* polynomial_eval computes the value, whatever zeros the leading coefficients are.
LEMMA PolynomialEval ==
    ASSUME NEW n \in Nat, NEW v \in 1..Top, NEW p \in [0..n -> Element]
    PROVE  polynomial_eval(p, v) = Value(p, n, v)
<1>1. Order(p) = n
  BY OrderOf
<1>2. LogPowers(polynomial_build_exp_lut(v, n), v, n)
  BY LutIsPowers
<1> QED
  BY <1>1, <1>2, EvalIsValue DEF polynomial_eval

\* Values are added coefficient by coefficient.
LEMMA ValueAdd ==
    ASSUME NEW n \in Nat, NEW v \in 1..Top, NEW p, NEW q, NEW h, Terms(p, n), Terms(q, n),
           \A k \in 0..n : h[k] = field_add(p[k], q[k])
    PROVE  Value(h, n, v) = field_add(Value(p, n, v), Value(q, n, v))
<1> DEFINE f(r) == [k \in 0..n |-> field_mul(r[k], field_pow(v, k))]
<1>1. Terms(f(p), n) /\ Terms(f(q), n)
  BY ValueTerms
<1>2. ASSUME NEW k \in 0..n PROVE f(h)[k] = field_add(f(p)[k], f(q)[k])
  <2>1. p[k] \in Element /\ q[k] \in Element /\ field_pow(v, k) \in Element
    BY PowUnfolds DEF Terms
  <2> QED
    BY <2>1, MulDistributes
<1> HIDE DEF f
<1>3. SumTo(f(h), n) = field_add(SumTo(f(p), n), SumTo(f(q), n))
  BY <1>1, <1>2, SumToAdd
<1> QED
  BY <1>3 DEF Value, f

\* Coefficients that are 0 at the end change nothing.
LEMMA ValueTail ==
    ASSUME NEW n \in Nat, NEW m \in Nat, m <= n, NEW v \in 1..Top, NEW p, Terms(p, n),
           \A k \in 0..n : k > m => p[k] = 0
    PROVE  Value(p, n, v) = Value(p, m, v)
<1> DEFINE f == [k \in 0..n |-> field_mul(p[k], field_pow(v, k))]
           g == [k \in 0..m |-> field_mul(p[k], field_pow(v, k))]
<1>1. Terms(f, n)
  BY ValueTerms
<1>2. Terms(p, m)
  BY DEF Terms
<1>3. Terms(g, m)
  BY <1>2, ValueTerms
<1>4. \A k \in 0..n : k > m => f[k] = 0
  BY DEF field_mul
<1>5. \A k \in 0..m : f[k] = g[k]
  OBVIOUS
<1> HIDE DEF f, g
<1>6. SumTo(f, n) = SumTo(f, m)
  BY <1>1, <1>4, SumToTail
<1>7. SumTo(f, m) = SumTo(g, m)
  BY <1>3, <1>5, SumToSame
<1> QED
  BY <1>6, <1>7 DEF Value, f, g

\* The same coefficients have the same value.
LEMMA ValueSame ==
    ASSUME NEW n \in Nat, NEW v, NEW p, NEW q, \A k \in 0..n : p[k] = q[k]
    PROVE  Value(p, n, v) = Value(q, n, v)
<1>1. [k \in 0..n |-> field_mul(p[k], field_pow(v, k))]
        = [k \in 0..n |-> field_mul(q[k], field_pow(v, k))]
  OBVIOUS
<1> QED
  BY <1>1, Zenon DEF Value

\* The value of a polynomial scaled by c and moved up by d.
LEMMA ValueMoved ==
    ASSUME NEW n \in Nat, NEW m \in Nat, NEW d \in Nat, m + d <= n, NEW v \in 1..Top,
           NEW c \in Element, NEW p, Terms(p, m), NEW h,
           \A k \in 0..n : h[k] = IF k - d \in 0..m THEN field_mul(c, p[k - d]) ELSE 0
    PROVE  Value(h, n, v) = field_mul(field_mul(c, field_pow(v, d)), Value(p, m, v))
<1> DEFINE f == [k \in 0..m |-> field_mul(p[k], field_pow(v, k))]
           s == field_mul(c, field_pow(v, d))
           g == [k \in 0..m |-> field_mul(s, f[k])]
           H == [k \in 0..n |-> field_mul(h[k], field_pow(v, k))]
<1>1. field_pow(v, d) \in Element
  BY PowUnfolds
<1>2. s \in Element
  BY <1>1, MulType
<1>3. Terms(f, m)
  BY ValueTerms
<1>4. \A k \in 0..m : g[k] = field_mul(s, f[k])
  OBVIOUS
<1>5. SumTo(g, m) = field_mul(s, SumTo(f, m))
  <2> HIDE DEF g, f, s
  <2> QED
    BY <1>2, <1>3, <1>4, SumToScale
<1>6. Terms(g, m)
  <2> HIDE DEF s, f
  <2> QED
    BY <1>2, <1>3, MulType DEF Terms
<1>7. ASSUME NEW k \in 0..n, k >= d, k - d <= m
      PROVE  H[k] = g[k - d]
  <2> DEFINE j == k - d
  <2>1. j \in 0..m /\ j \in Nat /\ j + d = k
    BY <1>7
  <2>2. h[k] = field_mul(c, p[j])
    BY <2>1
  <2> HIDE DEF j
  <2>3. field_pow(v, k) = field_mul(field_pow(v, j), field_pow(v, d))
    BY <2>1, PowAdds
  <2>4. p[j] \in Element /\ field_pow(v, j) \in Element
    BY <2>1, PowUnfolds DEF Terms
  <2>5. H[k] = field_mul(field_mul(c, p[j]), field_mul(field_pow(v, j), field_pow(v, d)))
    BY <2>2, <2>3
  <2>6. g[j] = field_mul(field_mul(c, field_pow(v, d)), field_mul(p[j], field_pow(v, j)))
    BY <2>1
  <2> HIDE DEF H, g
  <2>7. H[k] = g[j]
    BY <1>1, <2>4, <2>5, <2>6, MulPairs
  <2> QED
    BY <2>7 DEF j
<1>8. ASSUME NEW k \in 0..n, k < d \/ k - d > m
      PROVE  H[k] = 0
  <2>1. k - d \notin 0..m
    BY <1>8
  <2>2. h[k] = 0
    BY <2>1
  <2> QED
    BY <2>2 DEF field_mul
<1> HIDE DEF H, g, f, s
<1>9. Terms(H, n)
  <2>1. ASSUME NEW k \in 0..n PROVE H[k] \in Element
    <3>1. CASE k >= d /\ k - d <= m
      <4>1. k - d \in 0..m
        BY <3>1
      <4> QED
        BY <1>6, <1>7, <3>1, <4>1 DEF Terms
    <3>2. CASE k < d \/ k - d > m
      BY <1>8, <3>2, ZeroAndOne
    <3> QED
      BY <3>1, <3>2
  <2> QED
    BY <2>1 DEF Terms
<1>10. SumTo(H, n) = SumTo(H, m + d)
  <2>1. \A k \in 0..n : k > m + d => H[k] = 0
    BY <1>8
  <2> QED
    BY <1>9, <2>1, SumToTail, m + d \in Nat
<1>11. SumTo(H, m + d) = SumTo(g, m)
  <2>1. ASSUME NEW k \in 0..(m + d) PROVE H[k] = IF k < d THEN 0 ELSE g[k - d]
    <3>1. k \in 0..n /\ (~(k < d) => k >= d /\ k - d <= m)
      OBVIOUS
    <3> QED
      BY <1>7, <1>8, <3>1
  <2> QED
    BY <1>6, <2>1, SumToDelayed
<1> QED
  BY <1>5, <1>10, <1>11 DEF Value, H, f, s

-----------------------------------------------------------------------------
(* Long division. *)

\* One step of polynomial_mod: the coefficient of order i taken away.
Reduced(m, i, divisor, d, n) ==
    [k \in 0..n |->
        IF k - (i - d) \in 0..d /\ divisor[k - (i - d)] # 0
        THEN field_add(m[k], field_mul_log_element(log[divisor[k - (i - d)]],
                                                   field_div_log(log[m[i]], log[divisor[d]])))
        ELSE m[k]]

\* What is left before the step for order i - 1.
Rests(r, dividend, divisor, d, n) ==
    r = [i \in d..(n + 1) |->
            IF i = n + 1 THEN dividend
            ELSE IF r[i + 1][i] = 0 THEN r[i + 1] ELSE Reduced(r[i + 1], i, divisor, d, n)]

\* A step adds a multiple of the divisor, the one that cancels the coefficient.
LEMMA ReducedIs ==
    ASSUME NEW n \in Nat, NEW d \in Nat, d <= n, NEW i \in d..n,
           NEW divisor \in [0..d -> Element], divisor[d] # 0,
           NEW m \in [0..n -> Element], m[i] # 0
    PROVE  \E c \in Element :
              /\ field_mul(c, divisor[d]) = m[i]
              /\ \A k \in 0..n : Reduced(m, i, divisor, d, n)[k]
                   = field_add(m[k], IF k - (i - d) \in 0..d
                                       THEN field_mul(c, divisor[k - (i - d)]) ELSE 0)
<1> DEFINE c == field_div(m[i], divisor[d])
           q == field_div_log(log[m[i]], log[divisor[d]])
           x == Top + log[m[i]] - log[divisor[d]]
<1>0. /\ Top \in Nat /\ Top > 0 /\ Element \ {0} = 1..Top /\ 0 \in Element
      /\ divisor[d] \in Element /\ m[i] \in Element
      /\ i \in 0..n /\ d \in 0..d
  BY FieldSize
<1>1. divisor[d] \in 1..Top
  BY <1>0
<1>2. c \in Element /\ field_mul(divisor[d], c) = m[i]
  BY <1>0, <1>1, MulDivided
<1>3. field_mul(c, divisor[d]) = m[i]
  BY <1>0, <1>2, MulCommutes
<1>4. q \in 1..Top /\ exp[q] = c
  <2>1. log[m[i]] \in 1..Top /\ log[divisor[d]] \in 1..Top
    BY <1>0, LogIsIndex
  <2>2. x \in 1..(2 * Top)
    BY <1>0, <2>1
  <2>3. q = Wrapped(x)
    BY DEF field_div_log
  <2>4. c = exp[x]
    BY <1>0 DEF field_div
  <2> HIDE DEF x, q, c
  <2> QED
    BY <2>2, <2>3, <2>4, Wraps
<1> HIDE DEF c
<1>5. ASSUME NEW k \in 0..n
      PROVE  Reduced(m, i, divisor, d, n)[k]
                   = field_add(m[k], IF k - (i - d) \in 0..d
                                       THEN field_mul(c, divisor[k - (i - d)]) ELSE 0)
  <2> DEFINE j == k - (i - d)
  <2>0. m[k] \in Element
    OBVIOUS
  <2>1. Reduced(m, i, divisor, d, n)[k]
          = IF j \in 0..d /\ divisor[j] # 0
            THEN field_add(m[k], field_mul_log_element(log[divisor[j]], q)) ELSE m[k]
    BY DEF Reduced
  <2> HIDE DEF q
  <2>2. CASE j \in 0..d
    <3> HIDE DEF j
    <3>1. divisor[j] \in Element
      BY <2>2
    <3>2. CASE divisor[j] = 0
      <4>1. field_mul(c, divisor[j]) = 0
        BY <3>2 DEF field_mul
      <4>2. field_add(m[k], 0) = m[k]
        BY <2>0, AddZero
      <4> QED
        BY <2>1, <2>2, <3>2, <4>1, <4>2 DEF j
    <3>3. CASE divisor[j] # 0
      <4>1. divisor[j] \in 1..Top /\ q \in 0..Top
        BY <1>0, <1>4, <3>1, <3>3
      <4>2. field_mul(divisor[j], c) = exp[log[divisor[j]] + q]
        BY <1>4, <4>1, MulPower
      <4>3. field_mul(divisor[j], c) = field_mul(c, divisor[j])
        BY <1>2, <3>1, MulCommutes
      <4>4. field_mul_log_element(log[divisor[j]], q) = field_mul(c, divisor[j])
        BY <4>2, <4>3 DEF field_mul_log_element
      <4>5. Reduced(m, i, divisor, d, n)[k] = field_add(m[k], field_mul(c, divisor[j]))
        BY <2>1, <2>2, <3>3, <4>4
      <4> QED
        BY <2>2, <4>5 DEF j
    <3> QED
      BY <3>2, <3>3
  <2>3. CASE j \notin 0..d
    <3>1. field_add(m[k], 0) = m[k]
      BY <2>0, AddZero
    <3> HIDE DEF j
    <3>2. Reduced(m, i, divisor, d, n)[k] = field_add(m[k], 0)
      BY <2>1, <2>3, <3>1
    <3> QED
      BY <2>3, <3>2 DEF j
  <2> QED
    BY <2>2, <2>3
<1> QED
  BY <1>2, <1>3, <1>5

\* A step cancels its coefficient, leaves those of higher orders alone, and does not change
\* the value at a root of the divisor.
LEMMA ReducedKeeps ==
    ASSUME NEW n \in Nat, NEW d \in Nat, d <= n, NEW i \in d..n,
           NEW divisor \in [0..d -> Element], divisor[d] # 0,
           NEW m \in [0..n -> Element], m[i] # 0
    PROVE  /\ Reduced(m, i, divisor, d, n) \in [0..n -> Element]
           /\ Reduced(m, i, divisor, d, n)[i] = 0
           /\ \A k \in 0..n : k > i => Reduced(m, i, divisor, d, n)[k] = m[k]
           /\ \A v \in 1..Top : Value(divisor, d, v) = 0
                                  => Value(Reduced(m, i, divisor, d, n), n, v) = Value(m, n, v)
<1> DEFINE R == Reduced(m, i, divisor, d, n)
<1>1. PICK c \in Element :
              /\ field_mul(c, divisor[d]) = m[i]
              /\ \A k \in 0..n : R[k] = field_add(m[k], IF k - (i - d) \in 0..d
                                               THEN field_mul(c, divisor[k - (i - d)]) ELSE 0)
  BY ReducedIs
<1> DEFINE t == [k \in 0..n |-> IF k - (i - d) \in 0..d
                                  THEN field_mul(c, divisor[k - (i - d)]) ELSE 0]
<1>2. ASSUME NEW k \in 0..n PROVE t[k] \in Element
  <2>1. k - (i - d) \in 0..d => field_mul(c, divisor[k - (i - d)]) \in Element
    BY MulType
  <2> QED
    BY <2>1, ZeroAndOne
<1>3. \A k \in 0..n : R[k] = field_add(m[k], t[k])
  BY <1>1
<1>4. \A k \in 0..n : R[k] \in Element
  <2> HIDE DEF t, R
  <2> QED
    BY <1>2, <1>3, AddBits
<1>5. R \in [0..n -> Element]
  BY <1>4 DEF Reduced
<1>6. R[i] = 0
  <2>1. i \in 0..n /\ i - (i - d) = d /\ d \in 0..d
    OBVIOUS
  <2>2. t[i] = m[i] /\ m[i] \in Element
    BY <1>1, <2>1
  <2> HIDE DEF t, R
  <2> QED
    BY <1>3, <2>1, <2>2, AddSelf
<1>7. ASSUME NEW k \in 0..n, k > i PROVE R[k] = m[k]
  <2>1. k - (i - d) \notin 0..d
    BY <1>7
  <2>2. t[k] = 0
    BY <2>1
  <2> HIDE DEF t, R
  <2> QED
    BY <1>3, <2>2, AddZero
<1>8. ASSUME NEW v \in 1..Top, Value(divisor, d, v) = 0
      PROVE  Value(R, n, v) = Value(m, n, v)
  <2>1. Terms(t, n) /\ Terms(m, n) /\ Terms(divisor, d)
    BY <1>2 DEF Terms
  <2> DEFINE e == i - d
             s == field_mul(c, field_pow(v, e))
  <2>2. e \in Nat /\ d + e <= n
    OBVIOUS
  <2>3. \A k \in 0..n : t[k] = IF k - e \in 0..d THEN field_mul(c, divisor[k - e]) ELSE 0
    OBVIOUS
  <2> HIDE DEF t, R, e, s
  <2>4. Value(t, n, v) = field_mul(field_mul(c, field_pow(v, e)), Value(divisor, d, v))
    BY <2>1, <2>2, <2>3, ValueMoved
  <2>5. Value(t, n, v) = 0
    BY <1>8, <2>4 DEF field_mul
  <2>6. Value(R, n, v) = field_add(Value(m, n, v), Value(t, n, v))
    BY <1>3, <2>1, ValueAdd
  <2>7. Value(m, n, v) \in Element
    BY <2>1, ValueTerms
  <2> QED
    BY <2>5, <2>6, <2>7, AddZero
<1> QED
  BY <1>5, <1>6, <1>7, <1>8

\* polynomial_mod takes these steps, from the highest order down.
LEMMA RestsExist ==
    ASSUME NEW n \in Nat, NEW d \in Nat, d <= n,
           NEW divisor \in [0..d -> Element], divisor[d] # 0,
           NEW dividend \in [0..n -> Element]
    PROVE  \E r : /\ Rests(r, dividend, divisor, d, n)
                  /\ polynomial_mod(dividend, divisor) = r[d]
<1> DEFINE S == [0..n -> Element]
           N == n + 1 - d
           step(m, i) == IF m[i] = 0 THEN m ELSE Reduced(m, i, divisor, d, n)
           g == [j \in 1..N |-> [m \in S |-> step(m, n + 1 - j)]]
<1>0. N \in Nat /\ \A j \in 1..N : n + 1 - j \in d..n
  OBVIOUS
<1>1. ASSUME NEW i \in d..n, NEW m \in S PROVE step(m, i) \in S
  <2>1. m[i] # 0 => Reduced(m, i, divisor, d, n) \in S
    BY ReducedKeeps
  <2> QED
    BY <2>1
<1> HIDE DEF S, step, N
<1>2. g \in [1..N -> [S -> S]]
  BY <1>0, <1>1
<1>3. dividend \in S
  BY DEF S
<1>4. PICK h \in [0..N -> S] : Recurs(h, dividend, g, N)
  <2>1. \E h \in [0..N -> S] : Recurs(h, dividend, g, N)
    <3> HIDE DEF g
    <3> QED
      BY <1>0, <1>2, <1>3, RecursionExists
  <2> QED
    BY <2>1
<1>5. ASSUME NEW j \in 0..N
      PROVE  h[j] = IF j = 0 THEN dividend ELSE step(h[j - 1], n + 1 - j)
  <2>1. h[j] = IF j = 0 THEN dividend ELSE g[j][h[j - 1]]
    <3> HIDE DEF g
    <3> QED
      BY <1>4 DEF Recurs
  <2>2. j # 0 => j \in 1..N /\ h[j - 1] \in S
    BY <1>0
  <2> QED
    BY <2>1, <2>2
<1> HIDE DEF g
<1> DEFINE r == [i \in d..(n + 1) |-> h[n + 1 - i]]
<1>6. ASSUME NEW i \in d..(n + 1)
      PROVE  r[i] = IF i = n + 1 THEN dividend ELSE step(r[i + 1], i)
  <2>1. n + 1 - i \in 0..N /\ (n + 1 - i = 0 <=> i = n + 1) /\ n + 1 - (n + 1 - i) = i
    BY DEF N
  <2>2. i # n + 1 => i + 1 \in d..(n + 1) /\ n + 1 - (i + 1) = (n + 1 - i) - 1
    OBVIOUS
  <2>3. r[i] = h[n + 1 - i]
    OBVIOUS
  <2>4. i # n + 1 => r[i + 1] = h[(n + 1 - i) - 1]
    BY <2>2
  <2> HIDE DEF r
  <2>5. h[n + 1 - i] = IF n + 1 - i = 0 THEN dividend
                       ELSE step(h[(n + 1 - i) - 1], n + 1 - (n + 1 - i))
    BY <1>5, <2>1
  <2> QED
    BY <2>1, <2>3, <2>4, <2>5
<1>7. Rests(r, dividend, divisor, d, n)
  <2>1. r = [i \in d..(n + 1) |-> r[i]]
    OBVIOUS
  <2> HIDE DEF r
  <2>2. r = [i \in d..(n + 1) |-> IF i = n + 1 THEN dividend ELSE step(r[i + 1], i)]
    BY <1>6, <2>1, Zenon
  <2> QED
    BY <2>2, Zenon DEF Rests, step
<1>8. Order(divisor) = d /\ Order(dividend) = n
  BY OrderOf
<1>9. polynomial_mod(dividend, divisor) = (CHOOSE x : Rests(x, dividend, divisor, d, n))[d]
  <2> DEFINE F(b, c) == (CHOOSE x : Rests(x, dividend, divisor, b, c))[b]
  <2>1. polynomial_mod(dividend, divisor) = F(Order(divisor), Order(dividend))
    BY DEF polynomial_mod, Rests, Reduced
  <2> HIDE DEF F
  <2>2. polynomial_mod(dividend, divisor) = F(d, n)
    BY <1>8, <2>1
  <2> QED
    BY <2>2 DEF F
<1> HIDE DEF r
<1>10. Rests(CHOOSE x : Rests(x, dividend, divisor, d, n), dividend, divisor, d, n)
  BY <1>7
<1> QED
  BY <1>9, <1>10

\* It leaves a polynomial of lower order than the divisor, with the value of the dividend at
\* every root of the divisor.
LEMMA ModKeepsValues ==
    ASSUME NEW n \in Nat, NEW d \in Nat, d <= n,
           NEW divisor \in [0..d -> Element], divisor[d] # 0,
           NEW dividend \in [0..n -> Element]
    PROVE  LET m == polynomial_mod(dividend, divisor)
           IN  /\ m \in [0..n -> Element]
               /\ \A k \in d..n : m[k] = 0
               /\ \A v \in 1..Top : Value(divisor, d, v) = 0
                                      => Value(m, n, v) = Value(dividend, n, v)
<1>1. PICK r : Rests(r, dividend, divisor, d, n) /\ polynomial_mod(dividend, divisor) = r[d]
  BY RestsExist
<1>2. ASSUME NEW i \in d..(n + 1)
      PROVE  r[i] = IF i = n + 1 THEN dividend
                    ELSE IF r[i + 1][i] = 0 THEN r[i + 1]
                         ELSE Reduced(r[i + 1], i, divisor, d, n)
  BY <1>1 DEF Rests
<1> DEFINE Fine(m, i) == /\ m \in [0..n -> Element]
                         /\ \A k \in 0..n : k >= i => m[k] = 0
                         /\ \A v \in 1..Top : Value(divisor, d, v) = 0
                              => Value(m, n, v) = Value(dividend, n, v)
           Good == {j \in Nat : n + 1 - j >= d => Fine(r[n + 1 - j], n + 1 - j)}
<1>3. 0 \in Good
  <2>1. n + 1 \in d..(n + 1) /\ n + 1 - 0 = n + 1
    OBVIOUS
  <2>2. r[n + 1] = dividend
    BY <1>2, <2>1
  <2>3. Fine(dividend, n + 1)
    OBVIOUS
  <2> HIDE DEF Fine
  <2> QED
    BY <2>1, <2>2, <2>3
<1>4. ASSUME NEW j \in Nat, j \in Good
      PROVE  j + 1 \in Good
  <2> SUFFICES ASSUME n + 1 - (j + 1) >= d
               PROVE  Fine(r[n + 1 - (j + 1)], n + 1 - (j + 1))
    OBVIOUS
  <2> DEFINE i == n + 1 - (j + 1)
             m == r[i + 1]
  <2>1. i \in d..n /\ i \in d..(n + 1) /\ i # n + 1 /\ i + 1 = n + 1 - j /\ n + 1 - j >= d
    OBVIOUS
  <2>2. Fine(m, i + 1)
    <3> HIDE DEF Fine
    <3> QED
      BY <1>4, <2>1
  <2>3. r[i] = IF m[i] = 0 THEN m ELSE Reduced(m, i, divisor, d, n)
    <3> HIDE DEF Fine, i
    <3> QED
      BY <1>2, <2>1
  <2> HIDE DEF i, m
  <2>a. SUFFICES Fine(r[i], i)
    BY DEF i
  <2>4. CASE m[i] = 0
    <3>1. \A k \in 0..n : k >= i => k = i \/ k >= i + 1
      BY <2>1
    <3> QED
      BY <2>2, <2>3, <2>4, <3>1
  <2>5. CASE m[i] # 0
    <3> DEFINE x == Reduced(m, i, divisor, d, n)
    <3>0. m \in [0..n -> Element]
      BY <2>2
    <3>1. /\ x \in [0..n -> Element] /\ x[i] = 0
          /\ \A k \in 0..n : k > i => x[k] = m[k]
          /\ \A v \in 1..Top : Value(divisor, d, v) = 0 => Value(x, n, v) = Value(m, n, v)
      <4> HIDE DEF Fine
      <4> QED
        BY <2>1, <2>5, <3>0, ReducedKeeps
    <3>2. r[i] = x
      BY <2>3, <2>5
    <3> HIDE DEF x
    <3>3. \A k \in 0..n : k >= i => k = i \/ (k > i /\ k >= i + 1)
      BY <2>1
    <3>4. \A k \in 0..n : k >= i => x[k] = 0
      BY <2>2, <3>1, <3>3
    <3>5. Fine(x, i)
      BY <2>2, <3>1, <3>4
    <3> HIDE DEF Fine
    <3> QED
      BY <3>2, <3>5
  <2> QED
    BY <2>4, <2>5
<1> HIDE DEF Good
<1>5. n + 1 - d \in Nat /\ n + 1 - (n + 1 - d) = d /\ d >= d
  OBVIOUS
<1>6. n + 1 - d \in Good
  BY <1>3, <1>4, <1>5, SetInduction
<1>7. Fine(r[d], d)
  <2> HIDE DEF Fine
  <2> QED
    BY <1>5, <1>6 DEF Good
<1>8. \A k \in d..n : k \in 0..n /\ k >= d
  OBVIOUS
<1> QED
  BY <1>1, <1>7, <1>8

-----------------------------------------------------------------------------
(* Feedback registers. *)

\* What the register with taps c[0], ..., c[l] makes of the sequence s at n.
Feedback(c, s, l, n) == SumTo([j \in 0..l |-> field_mul(c[j], s[n - j])], l)

\* The terms of a feedback are elements, and so is their sum.
LEMMA FeedbackTerms ==
    ASSUME NEW l \in Nat, NEW n \in Nat, l <= n, NEW c, NEW s, Terms(c, l), Terms(s, n)
    PROVE  /\ Terms([j \in 0..l |-> field_mul(c[j], s[n - j])], l)
           /\ Feedback(c, s, l, n) \in Element
<1> DEFINE t == [j \in 0..l |-> field_mul(c[j], s[n - j])]
<1>1. ASSUME NEW j \in 0..l PROVE field_mul(c[j], s[n - j]) \in Element
  <2>1. n - j \in 0..n
    OBVIOUS
  <2>2. c[j] \in Element /\ s[n - j] \in Element
    BY <2>1 DEF Terms
  <2> QED
    BY <2>2, MulType
<1>2. Terms(t, l)
  BY <1>1 DEF Terms
<1>3. l \in 0..l
  OBVIOUS
<1>4. SumTo(t, l) \in Element
  <2> HIDE DEF t
  <2> QED
    BY <1>2, <1>3, SumToUnfolds
<1> QED
  BY <1>2, <1>4 DEF Feedback

\* Taps that are 0 at the end change nothing.
LEMMA FeedbackTail ==
    ASSUME NEW l \in Nat, NEW m \in Nat, NEW n \in Nat, m <= l, l <= n, NEW c, NEW s,
           Terms(c, l), Terms(s, n), \A k \in 0..l : k > m => c[k] = 0
    PROVE  Feedback(c, s, l, n) = Feedback(c, s, m, n)
<1> DEFINE t == [j \in 0..l |-> field_mul(c[j], s[n - j])]
           r == [j \in 0..m |-> field_mul(c[j], s[n - j])]
<1>1. Terms(t, l)
  BY FeedbackTerms
<1>2. ASSUME NEW j \in 0..l, j > m PROVE t[j] = 0
  <2>1. c[j] = 0 /\ n - j \in 0..n
    BY <1>2
  <2>2. s[n - j] \in Element
    BY <2>1 DEF Terms
  <2>3. field_mul(0, s[n - j]) = 0
    BY <2>2, MulIsTimes, ZeroAndOne
  <2> QED
    BY <2>1, <2>3
<1>3. SumTo(t, l) = SumTo(t, m)
  <2> HIDE DEF t
  <2> QED
    BY <1>1, <1>2, SumToTail
<1>4. Terms(t, m) /\ \A j \in 0..m : r[j] = t[j]
  BY <1>1 DEF Terms
<1>5. SumTo(r, m) = SumTo(t, m)
  <2> HIDE DEF t, r
  <2> QED
    BY <1>4, SumToSame
<1> QED
  BY <1>3, <1>5 DEF Feedback

\* h is c with the taps b, delayed by d and scaled by f / q, added.
Corrects(h, l, c, b, m, d, f, q) ==
    \A k \in 0..l : h[k] = IF k - d \in 0..m
                               THEN field_add(c[k], field_div(field_mul(b[k - d], f), q))
                               ELSE c[k]

\* Taps b, delayed by d and scaled by f / q, added to the taps c, add what b makes of the
\* sequence d earlier, scaled in the same way.
LEMMA FeedbackCorrected ==
    ASSUME NEW l \in Nat, NEW m \in Nat, NEW d \in Nat, NEW n \in Nat, m + d <= l, l <= n,
           NEW c, NEW b, NEW s, NEW h, Terms(c, l), Terms(b, m), Terms(s, n),
           NEW f \in Element, NEW q \in 1..Top, Corrects(h, l, c, b, m, d, f, q)
    PROVE  /\ Terms(h, l)
           /\ \E x \in Element :
                /\ field_mul(q, x) = field_mul(f, Feedback(b, s, m, n - d))
                /\ Feedback(h, s, l, n) = field_add(Feedback(c, s, l, n), x)
<1> DEFINE a(j) == field_div(field_mul(b[j], f), q)
           e == [j \in 0..m |-> field_mul(a(j), s[(n - d) - j])]
           g == [j \in 0..l |-> IF j - d \in 0..m THEN field_mul(a(j - d), s[n - j]) ELSE 0]
           t == [j \in 0..l |-> field_mul(c[j], s[n - j])]
           r == [j \in 0..l |-> field_mul(h[j], s[n - j])]
           z == [j \in 0..m |-> field_mul(b[j], s[(n - d) - j])]
           w == [j \in 0..m |-> field_mul(f, z[j])]
<1> USE DEF Corrects
<1>0. n - d \in Nat /\ m <= n - d /\ q \in Element /\ 0 \in Element
  BY FieldSize, ZeroAndOne
<1>1. ASSUME NEW j \in 0..m
      PROVE  /\ b[j] \in Element /\ a(j) \in Element /\ s[(n - d) - j] \in Element
             /\ field_mul(q, a(j)) = field_mul(b[j], f)
  <2>1. (n - d) - j \in 0..n
    BY <1>0
  <2>2. b[j] \in Element /\ s[(n - d) - j] \in Element
    BY <2>1 DEF Terms
  <2>3. field_mul(b[j], f) \in Element
    BY <2>2, MulType
  <2> QED
    BY <2>2, <2>3, MulDivided
<1>2. ASSUME NEW j \in 0..l
      PROVE  /\ c[j] \in Element /\ s[n - j] \in Element
             /\ t[j] \in Element /\ g[j] \in Element
             /\ h[j] \in Element /\ r[j] = field_add(t[j], g[j])
  <2>1. n - j \in 0..n
    OBVIOUS
  <2>2. c[j] \in Element /\ s[n - j] \in Element
    BY <2>1 DEF Terms
  <2>3. t[j] \in Element
    BY <2>2, MulType
  <2>4. CASE j - d \in 0..m
    <3>1. a(j - d) \in Element
      BY <1>1, <2>4
    <3>2. h[j] = field_add(c[j], a(j - d)) /\ g[j] = field_mul(a(j - d), s[n - j])
      BY <2>4
    <3> HIDE DEF a, g
    <3>3. r[j] = field_mul(field_add(c[j], a(j - d)), s[n - j])
      BY <3>2
    <3>4. h[j] \in Element /\ g[j] \in Element
      BY <2>2, <3>1, <3>2, AddBits, MulType
    <3> QED
      BY <2>2, <2>3, <3>1, <3>2, <3>3, <3>4, MulDistributes
  <2>5. CASE j - d \notin 0..m
    <3>1. h[j] = c[j] /\ g[j] = 0
      BY <2>5
    <3>2. r[j] = t[j]
      BY <3>1
    <3> HIDE DEF a, g, t, r
    <3> QED
      BY <1>0, <2>2, <2>3, <3>1, <3>2, AddZero
  <2> QED
    BY <2>4, <2>5
<1>3. Terms(h, l) /\ Terms(t, l) /\ Terms(g, l)
  <2>1. \A j \in 0..l : h[j] \in Element /\ t[j] \in Element /\ g[j] \in Element
    BY <1>2
  <2> HIDE DEF t, g
  <2> QED
    BY <2>1 DEF Terms
<1>4. SumTo(r, l) = field_add(SumTo(t, l), SumTo(g, l)) /\ SumTo(g, l) \in Element
  <2>1. \A j \in 0..l : r[j] = field_add(t[j], g[j])
    BY <1>2
  <2>2. l \in 0..l
    OBVIOUS
  <2> HIDE DEF r, t, g
  <2> QED
    BY <1>3, <2>1, <2>2, SumToAdd, SumToUnfolds
<1>5. Terms(e, m) /\ Terms(z, m)
  <2>1. \A j \in 0..m : e[j] \in Element /\ z[j] \in Element
    <3> HIDE DEF a
    <3> QED
      BY <1>1, MulType
  <2> HIDE DEF e, z
  <2> QED
    BY <2>1 DEF Terms
<1>6. SumTo(g, l) = SumTo(e, m)
  <2>1. ASSUME NEW j \in 0..l, j > m + d PROVE g[j] = 0
    BY <2>1
  <2>2. SumTo(g, l) = SumTo(g, m + d)
    <3> HIDE DEF g
    <3> QED
      BY <1>3, <2>1, SumToTail
  <2>3. ASSUME NEW j \in 0..(m + d) PROVE g[j] = IF j < d THEN 0 ELSE e[j - d]
    <3>1. j \in 0..l /\ (j - d \in 0..m <=> ~(j < d)) /\ (n - d) - (j - d) = n - j
      BY <1>0
    <3> HIDE DEF a
    <3> QED
      BY <3>1
  <2> HIDE DEF g, e
  <2> QED
    BY <1>5, <2>2, <2>3, SumToDelayed
<1>7. field_mul(q, SumTo(e, m)) = field_mul(f, SumTo(z, m))
  <2>1. ASSUME NEW j \in 0..m PROVE w[j] = field_mul(q, e[j])
    <3> DEFINE aj == a(j)
               sj == s[(n - d) - j]
               bj == b[j]
    <3>1. aj \in Element /\ sj \in Element /\ bj \in Element /\ field_mul(q, aj) = field_mul(bj, f)
      BY <1>1
    <3>2. e[j] = field_mul(aj, sj) /\ w[j] = field_mul(f, field_mul(bj, sj))
      OBVIOUS
    <3> HIDE DEF aj, sj, bj, e, w, a
    <3>3. field_mul(q, field_mul(aj, sj)) = field_mul(field_mul(bj, f), sj)
      BY <1>0, <3>1, MulAssociates
    <3>4. field_mul(field_mul(bj, f), sj) = field_mul(field_mul(f, bj), sj)
      BY <3>1, MulCommutes
    <3>5. field_mul(field_mul(f, bj), sj) = field_mul(f, field_mul(bj, sj))
      BY <3>1, MulAssociates
    <3> QED
      BY <3>2, <3>3, <3>4, <3>5
  <2>2. \A j \in 0..m : w[j] = field_mul(f, z[j])
    BY DEF w
  <2> HIDE DEF e, w, z
  <2>3. SumTo(w, m) = field_mul(q, SumTo(e, m))
    BY <1>0, <1>5, <2>1, SumToScale
  <2>4. SumTo(w, m) = field_mul(f, SumTo(z, m))
    BY <1>5, <2>2, SumToScale
  <2> QED
    BY <2>3, <2>4
<1>8. /\ Feedback(h, s, l, n) = SumTo(r, l) /\ Feedback(c, s, l, n) = SumTo(t, l)
      /\ Feedback(b, s, m, n - d) = SumTo(z, m)
  BY DEF Feedback
<1> HIDE DEF a, e, g, t, r, z, w
<1> QED
  BY <1>3, <1>4, <1>6, <1>7, <1>8

-----------------------------------------------------------------------------
(* Polynomials made from roots. *)

\* Products of polynomials have elements for coefficients.
LEMMA ProductType ==
    ASSUME NEW n \in Nat, NEW l, NEW r, \A k \in DOMAIN l : l[k] \in Element,
           \A k \in DOMAIN r : r[k] \in Element
    PROVE  polynomial_mul(l, r, n) \in [0..n -> Element]
<1> DEFINE f(k) == [j \in 0..k |-> IF j \in DOMAIN l /\ k - j \in DOMAIN r
                                   THEN field_mul(l[j], r[k - j]) ELSE 0]
<1>1. ASSUME NEW k \in 0..n PROVE SumTo(f(k), k) \in Element
  <2> DEFINE g == f(k)
  <2>1. \A j \in 0..k : g[j] \in Element
    BY MulType, ZeroAndOne
  <2>2. k \in Nat /\ k \in 0..k
    OBVIOUS
  <2> HIDE DEF g
  <2>3. Terms(g, k)
    BY <2>1 DEF Terms
  <2>4. SumTo(g, k) \in Element
    BY <2>2, <2>3, SumToUnfolds
  <2> QED
    BY <2>4 DEF g
<1>2. polynomial_mul(l, r, n) = [k \in 0..n |-> SumTo(f(k), k)]
  BY DEF polynomial_mul
<1> HIDE DEF f
<1> QED
  BY <1>1, <1>2

\* x + root.
Factor(root) == [k \in 0..1 |-> IF k = 0 THEN root ELSE 1]

\* The coefficients of root * p, and of x * p.
Low(root, p, m, k) == IF k \in 0..m THEN field_mul(root, p[k]) ELSE 0
High(p, m, k) == IF k - 1 \in 0..m THEN field_mul(1, p[k - 1]) ELSE 0

\* Together they are those of (x + root) * p.
LEMMA MulByFactor ==
    ASSUME NEW root \in Element, NEW m \in Nat, NEW p \in [0..m -> Element], NEW n \in Nat,
           NEW k \in 0..n
    PROVE  /\ Low(root, p, m, k) \in Element /\ High(p, m, k) \in Element
           /\ polynomial_mul(Factor(root), p, n)[k] = field_add(Low(root, p, m, k), High(p, m, k))
<1> DEFINE low == IF k \in 0..m THEN field_mul(root, p[k]) ELSE 0
           high == IF k - 1 \in 0..m THEN field_mul(1, p[k - 1]) ELSE 0
           l == Factor(root)
           f == [j \in 0..k |-> IF j \in DOMAIN l /\ k - j \in DOMAIN p
                                  THEN field_mul(l[j], p[k - j]) ELSE 0]
<1>1. low \in Element /\ high \in Element
  <2>1. k \in 0..m => field_mul(root, p[k]) \in Element
    BY MulType
  <2>2. k - 1 \in 0..m => field_mul(1, p[k - 1]) \in Element
    <3> SUFFICES ASSUME k - 1 \in 0..m PROVE field_mul(1, p[k - 1]) \in Element
      OBVIOUS
    <3>1. p[k - 1] \in Element
      OBVIOUS
    <3> QED
      BY <3>1, MulType, ZeroAndOne
  <2> QED
    BY <2>1, <2>2, ZeroAndOne
<1>2. DOMAIN l = 0..1 /\ l[0] = root /\ l[1] = 1 /\ DOMAIN p = 0..m
  BY DEF Factor
<1> HIDE DEF l
<1>3. f[0] = low
  <2>1. 0 \in 0..k /\ 0 \in 0..1 /\ k - 0 = k
    OBVIOUS
  <2> QED
    BY <1>2, <2>1
<1>4. k >= 1 => f[1] = high
  <2>1. k >= 1 => 1 \in 0..k /\ 1 \in 0..1
    OBVIOUS
  <2> QED
    BY <1>2, <2>1
<1>5. \A j \in 0..k : j > 1 => f[j] = 0
  BY <1>2
<1>6. Terms(f, k)
  <2>1. ASSUME NEW j \in 0..k PROVE f[j] \in Element
    <3>1. j = 0 \/ (j = 1 /\ k >= 1) \/ j > 1
      OBVIOUS
    <3> HIDE DEF f, low, high
    <3> QED
      BY <1>1, <1>3, <1>4, <1>5, <3>1, ZeroAndOne
  <2> QED
    BY <2>1 DEF Terms
<1>7. polynomial_mul(l, p, n)[k] = SumTo(f, k)
  BY DEF polynomial_mul
<1>8. SumTo(f, k) = field_add(low, high)
  <2> HIDE DEF f
  <2>1. CASE k = 0
    <3>1. SumTo(f, k) = low
      BY <1>3, <1>6, <2>1, SumToUnfolds
    <3>2. high = 0
      BY <2>1
    <3> HIDE DEF low, high
    <3> QED
      BY <1>1, <3>1, <3>2, AddZero
  <2>2. CASE k >= 1
    <3> HIDE DEF low, high
    <3>1. SumTo(f, k) = SumTo(f, 1)
      BY <1>5, <1>6, <2>2, SumToTail
    <3>2. SumTo(f, 0 + 1) = field_add(SumTo(f, 0), f[0 + 1]) /\ SumTo(f, 0) = f[0]
      BY <1>6, <2>2, SumToUnfolds
    <3> QED
      BY <1>3, <1>4, <2>2, <3>1, <3>2
  <2> QED
    BY <2>1, <2>2
<1> QED
  BY <1>1, <1>7, <1>8 DEF l, Low, High

\* The value of the product is the product of the values.
LEMMA FactorValue ==
    ASSUME NEW root \in Element, NEW m \in Nat, NEW p \in [0..m -> Element]
    PROVE  LET r == polynomial_mul(Factor(root), p, m + 1)
           IN  /\ r \in [0..(m + 1) -> Element]
               /\ r[m + 1] = p[m]
               /\ \A v \in 1..Top :
                    Value(r, m + 1, v) = field_mul(field_add(root, v), Value(p, m, v))
<1> DEFINE r == polynomial_mul(Factor(root), p, m + 1)
           low == [k \in 0..(m + 1) |-> IF k - 0 \in 0..m THEN field_mul(root, p[k - 0]) ELSE 0]
           high == [k \in 0..(m + 1) |-> IF k - 1 \in 0..m THEN field_mul(1, p[k - 1]) ELSE 0]
<1>1. ASSUME NEW k \in 0..(m + 1)
      PROVE  /\ low[k] \in Element /\ high[k] \in Element
             /\ r[k] = field_add(low[k], high[k])
  <2>1. k - 0 = k /\ m + 1 \in Nat
    OBVIOUS
  <2>2. low[k] = Low(root, p, m, k) /\ high[k] = High(p, m, k)
    BY <2>1 DEF Low, High
  <2> HIDE DEF low, high
  <2> QED
    BY <2>1, <2>2, MulByFactor
<1>2. r \in [0..(m + 1) -> Element]
  <2>1. \A k \in 0..(m + 1) : r[k] \in Element
    <3> HIDE DEF r, low, high
    <3> QED
      BY <1>1, AddBits
  <2> QED
    BY <2>1 DEF polynomial_mul
<1>3. r[m + 1] = p[m]
  <2>1. /\ m + 1 \in 0..(m + 1) /\ (m + 1) - 0 \notin 0..m
        /\ (m + 1) - 1 = m /\ m \in 0..m
    OBVIOUS
  <2>2. p[m] \in Element
    BY <2>1
  <2>3. low[m + 1] = 0 /\ high[m + 1] = p[m]
    BY <2>1, <2>2, MulOne
  <2> HIDE DEF r, low, high
  <2> QED
    BY <1>1, <2>1, <2>2, <2>3, AddZero
<1>4. ASSUME NEW v \in 1..Top
      PROVE  Value(r, m + 1, v) = field_mul(field_add(root, v), Value(p, m, v))
  <2> DEFINE x == Value(p, m, v)
  <2>1. Terms(p, m) /\ Terms(low, m + 1) /\ Terms(high, m + 1)
    BY <1>1 DEF Terms
  <2>2. v \in Element /\ 1 \in Element /\ x \in Element
    <3>1. v \in Element
      BY FieldSize
    <3> QED
      BY <2>1, <3>1, ZeroAndOne, ValueTerms
  <2>3. /\ field_pow(v, 0) = 1 /\ field_pow(v, 0 + 1) = field_mul(v, field_pow(v, 0))
    BY PowUnfolds
  <2>4. field_mul(root, field_pow(v, 0)) = root /\ field_mul(1, field_pow(v, 1)) = v
    BY <2>2, <2>3, MulOne
  <2>5. /\ \A k \in 0..(m + 1) : low[k] = IF k - 0 \in 0..m THEN field_mul(root, p[k - 0]) ELSE 0
        /\ \A k \in 0..(m + 1) : high[k] = IF k - 1 \in 0..m THEN field_mul(1, p[k - 1]) ELSE 0
    OBVIOUS
  <2> HIDE DEF r, low, high, x
  <2>6. Value(low, m + 1, v) = field_mul(field_mul(root, field_pow(v, 0)), Value(p, m, v))
    BY <2>1, <2>5, ValueMoved, m + 1 \in Nat, 0 \in Nat, m + 0 <= m + 1
  <2>7. Value(high, m + 1, v) = field_mul(field_mul(1, field_pow(v, 1)), Value(p, m, v))
    <3>1. PICK one \in Element : one = 1
      BY <2>2
    <3>2. PICK d \in Nat : d = 1
      OBVIOUS
    <3>3. \A k \in 0..(m + 1) : high[k] = IF k - d \in 0..m THEN field_mul(one, p[k - d]) ELSE 0
      BY <2>5, <3>1, <3>2
    <3>4. m + 1 \in Nat /\ m + d <= m + 1
      BY <3>2
    <3>5. Value(high, m + 1, v) = field_mul(field_mul(one, field_pow(v, d)), Value(p, m, v))
      BY <2>1, <3>3, <3>4, ValueMoved
    <3> QED
      BY <3>1, <3>2, <3>5
  <2>8. Value(r, m + 1, v) = field_add(Value(low, m + 1, v), Value(high, m + 1, v))
    BY <1>1, <2>1, ValueAdd, m + 1 \in Nat
  <2>9. field_mul(field_add(root, v), x) = field_add(field_mul(root, x), field_mul(v, x))
    BY <2>2, MulDistributes
  <2> QED
    BY <2>4, <2>6, <2>7, <2>8, <2>9 DEF x
<1> QED
  BY <1>2, <1>3, <1>4

\* The partial products of polynomial_create_from_roots.
Products(p, roots, nroots) ==
    p = [i \in 0..(nroots - 1) |->
            IF i = 0 THEN Factor(roots[0])
            ELSE polynomial_mul(Factor(roots[i]), p[i - 1], i + 1)]

\* The loop of polynomial_create_from_roots makes the products.
LEMMA ProductsExist ==
    ASSUME NEW nroots \in Nat, nroots > 0, NEW roots, \A k \in 0..(nroots - 1) : roots[k] \in Element
    PROVE  \E p : /\ Products(p, roots, nroots)
                  /\ polynomial_create_from_roots(roots, nroots) = p[nroots - 1]
<1> DEFINE N == nroots - 1
           S == {q \in UNION {[0..m -> Element] : m \in 1..nroots} : TRUE}
           next(k, q) == polynomial_mul(Factor(roots[k]), q, k + 1)
           g == [k \in 1..N |-> [q \in S |-> next(k, q)]]
<1>0. N \in Nat /\ \A k \in 0..N : k + 1 \in 1..nroots
  OBVIOUS
<1>1. ASSUME NEW k \in 1..N, NEW q \in S
      PROVE  next(k, q) \in S
  <2>1. PICK m \in 1..nroots : q \in [0..m -> Element]
    OBVIOUS
  <2>2. roots[k] \in Element /\ m \in Nat /\ k + 1 \in Nat /\ k + 1 \in 1..nroots
    BY <1>0
  <2>3. \A j \in 0..(k + 1) : next(k, q)[j] \in Element
    <3> SUFFICES ASSUME NEW j \in 0..(k + 1) PROVE next(k, q)[j] \in Element
      OBVIOUS
    <3> DEFINE low == Low(roots[k], q, m, j)
               high == High(q, m, j)
    <3>1. low \in Element /\ high \in Element /\ next(k, q)[j] = field_add(low, high)
      BY <2>1, <2>2, MulByFactor
    <3> HIDE DEF low, high, next
    <3> QED
      BY <3>1, AddBits
  <2>4. next(k, q) \in [0..(k + 1) -> Element]
    BY <2>3 DEF polynomial_mul
  <2> HIDE DEF next
  <2> QED
    BY <2>2, <2>4
<1>2. Factor(roots[0]) \in S
  <2>1. roots[0] \in Element /\ 1 \in 1..nroots
    OBVIOUS
  <2>2. Factor(roots[0]) \in [0..1 -> Element]
    BY <2>1, ZeroAndOne DEF Factor
  <2> QED
    BY <2>1, <2>2
<1> HIDE DEF S, next, N
<1>3. g \in [1..N -> [S -> S]]
  BY <1>1
<1>4. PICK h \in [0..N -> S] : Recurs(h, Factor(roots[0]), g, N)
  <2>1. \E h \in [0..N -> S] : Recurs(h, Factor(roots[0]), g, N)
    <3> HIDE DEF g
    <3> QED
      BY <1>0, <1>2, <1>3, RecursionExists
  <2> QED
    BY <2>1
<1>5. ASSUME NEW j \in 0..N
      PROVE  h[j] = IF j = 0 THEN Factor(roots[0]) ELSE next(j, h[j - 1])
  <2>1. h[j] = IF j = 0 THEN Factor(roots[0]) ELSE g[j][h[j - 1]]
    <3> HIDE DEF g
    <3> QED
      BY <1>4 DEF Recurs
  <2>2. j # 0 => j \in 1..N /\ h[j - 1] \in S
    BY <1>0
  <2> QED
    BY <2>1, <2>2
<1>6. Products(h, roots, nroots)
  <2>1. h = [j \in 0..N |-> h[j]]
    OBVIOUS
  <2> HIDE DEF g
  <2>2. h = [j \in 0..N |-> IF j = 0 THEN Factor(roots[0]) ELSE next(j, h[j - 1])]
    BY <1>5, <2>1, Zenon
  <2> QED
    BY <2>2, Zenon DEF Products, N, next
<1>7. polynomial_create_from_roots(roots, nroots)
        = (CHOOSE p : Products(p, roots, nroots))[nroots - 1]
  BY DEF polynomial_create_from_roots, Products, Factor
<1>8. Products(CHOOSE p : Products(p, roots, nroots), roots, nroots)
  BY <1>6
<1> QED
  BY <1>7, <1>8

\* The polynomial made from roots has them, and leading coefficient 1.
LEMMA CreatedHasRoots ==
    ASSUME NEW nroots \in Nat, nroots > 0, NEW roots, \A k \in 0..(nroots - 1) : roots[k] \in 1..Top
    PROVE  LET p == polynomial_create_from_roots(roots, nroots)
           IN  /\ p \in [0..nroots -> Element]
               /\ p[nroots] = 1
               /\ \A k \in 0..(nroots - 1) : Value(p, nroots, roots[k]) = 0
<1>0. \A k \in 0..(nroots - 1) : roots[k] \in Element
  BY FieldSize
<1>1. PICK p : /\ Products(p, roots, nroots)
               /\ polynomial_create_from_roots(roots, nroots) = p[nroots - 1]
  BY <1>0, ProductsExist
<1>2. \A i \in 0..(nroots - 1) : p[i] = IF i = 0 THEN Factor(roots[0])
                                        ELSE polynomial_mul(Factor(roots[i]), p[i - 1], i + 1)
  BY <1>1 DEF Products
<1> DEFINE Fine(q, n) == /\ q \in [0..n -> Element] /\ q[n] = 1
                         /\ \A k \in 0..(n - 1) : Value(q, n, roots[k]) = 0
           Good == {i \in Nat : i < nroots => Fine(p[i], i + 1)}
<1>3. 0 \in Good
  <2> DEFINE q == Factor(roots[0])
             r == roots[0]
  <2>0. 0 \in 0..(nroots - 1) /\ p[0] = q /\ r \in Element /\ r \in 1..Top
    BY <1>0, <1>2
  <2>1. q \in [0..1 -> Element] /\ q[1] = 1 /\ q[0] = r
    BY <2>0, ZeroAndOne DEF Factor
  <2>2. Value(q, 1, r) = 0
    <3> DEFINE f == [k \in 0..1 |-> field_mul(q[k], field_pow(r, k))]
    <3> HIDE DEF r, q
    <3>1. Terms(q, 1)
      BY <2>1 DEF Terms
    <3>2. Terms(f, 1)
      BY <2>0, <3>1, ValueTerms
    <3>3. /\ field_pow(r, 0) = 1 /\ field_pow(r, 0 + 1) = field_mul(r, field_pow(r, 0))
      BY <2>0, PowUnfolds
    <3>4. f[0] = r /\ f[1] = r
      <4>1. f[0] = field_mul(q[0], field_pow(r, 0)) /\ f[1] = field_mul(q[1], field_pow(r, 1))
        OBVIOUS
      <4>2. field_mul(r, 1) = r /\ field_mul(1, r) = r
        BY <2>0, MulOne
      <4> HIDE DEF f
      <4> QED
        BY <2>1, <3>3, <4>1, <4>2
    <3> HIDE DEF f
    <3>5. SumTo(f, 0 + 1) = field_add(SumTo(f, 0), f[0 + 1]) /\ SumTo(f, 0) = f[0]
      BY <3>2, SumToUnfolds, 0 < 1
    <3>6. field_add(r, r) = 0
      BY <2>0, AddSelf
    <3> QED
      BY <3>4, <3>5, <3>6 DEF Value, f
  <2>3. \A k \in 0..(1 - 1) : k = 0
    OBVIOUS
  <2>4. Fine(q, 1)
    <3> HIDE DEF q
    <3> QED
      BY <2>1, <2>2, <2>3
  <2> HIDE DEF Fine, q
  <2> QED
    BY <2>0, <2>4
<1>4. ASSUME NEW i \in Nat, i \in Good
      PROVE  i + 1 \in Good
  <2> SUFFICES ASSUME i + 1 < nroots
               PROVE  Fine(p[i + 1], (i + 1) + 1)
    OBVIOUS
  <2> DEFINE m == i + 1
             q == p[i]
             r == roots[m]
             x == polynomial_mul(Factor(r), q, m + 1)
  <2>1. m \in 0..(nroots - 1) /\ m # 0 /\ m - 1 = i /\ m \in Nat /\ i < nroots
    OBVIOUS
  <2>2. p[m] = x
    <3> HIDE DEF Fine, Good
    <3>1. p[m] = polynomial_mul(Factor(roots[m]), p[m - 1], m + 1)
      BY <1>2, <2>1
    <3> QED
      BY <2>1, <3>1
  <2>3. Fine(q, m)
    <3> HIDE DEF Fine
    <3> QED
      BY <1>4, <2>1
  <2>4. r \in Element /\ r \in 1..Top
    BY <1>0, <2>1
  <2> HIDE DEF m, q, r
  <2>5. /\ x \in [0..(m + 1) -> Element]
        /\ x[m + 1] = q[m]
        /\ \A v \in 1..Top : Value(x, m + 1, v) = field_mul(field_add(r, v), Value(q, m, v))
    BY <2>1, <2>3, <2>4, FactorValue
  <2> HIDE DEF x
  <2>6. ASSUME NEW k \in 0..((m + 1) - 1)
        PROVE  Value(x, m + 1, roots[k]) = 0
    <3> DEFINE v == roots[k]
    <3>1. k \in 0..(nroots - 1) /\ v \in 1..Top /\ v \in Element
      BY <1>0, <2>1
    <3>2. Terms(q, m)
      BY <2>3 DEF Terms
    <3>3. Value(q, m, v) \in Element /\ field_add(r, v) \in Element
      BY <2>1, <2>4, <3>1, <3>2, ValueTerms, AddBits
    <3>4. Value(x, m + 1, v) = field_mul(field_add(r, v), Value(q, m, v))
      BY <2>5, <3>1
    <3>5. CASE k = m
      <4>1. field_add(r, v) = 0
        BY <2>4, <3>5, AddSelf DEF r
      <4> QED
        BY <3>3, <3>4, <4>1 DEF field_mul
    <3>6. CASE k # m
      <4>1. k \in 0..(m - 1)
        BY <2>1, <3>6
      <4>2. Value(q, m, v) = 0
        BY <2>3, <4>1
      <4> QED
        BY <3>4, <4>2 DEF field_mul
    <3> QED
      BY <3>5, <3>6
  <2>7. Fine(x, m + 1)
    BY <2>3, <2>5, <2>6
  <2> HIDE DEF Fine
  <2> QED
    BY <2>2, <2>7 DEF m
<1> HIDE DEF Good
<1>5. nroots - 1 \in Nat /\ (nroots - 1) + 1 = nroots /\ nroots - 1 < nroots
  OBVIOUS
<1>6. nroots - 1 \in Good
  BY <1>3, <1>4, <1>5, SetInduction
<1>7. Fine(p[nroots - 1], nroots)
  <2> HIDE DEF Fine
  <2>1. Fine(p[nroots - 1], (nroots - 1) + 1)
    BY <1>5, <1>6 DEF Good
  <2> QED
    BY <1>5, <2>1
<1> QED
  BY <1>1, <1>7

-----------------------------------------------------------------------------
(* Combinations. *)

\* A sum with one term.
LEMMA SumToOnly ==
    ASSUME NEW n \in Nat, NEW m \in 0..n, NEW f, Terms(f, n),
           \A k \in 0..n : k # m => f[k] = 0
    PROVE  SumTo(f, n) = f[m]
<1> DEFINE Good == {k \in Nat : k <= n => SumTo(f, k) = IF k < m THEN 0 ELSE f[m]}
<1>1. 0 \in Good
  <2>1. 0 \in 0..n /\ (~(0 < m) => m = 0) /\ (0 < m => 0 # m)
    OBVIOUS
  <2>2. SumTo(f, 0) = f[0]
    BY SumToUnfolds
  <2> QED
    BY <2>1, <2>2
<1>2. ASSUME NEW k \in Nat, k \in Good
      PROVE  k + 1 \in Good
  <2> SUFFICES ASSUME k + 1 <= n
               PROVE  SumTo(f, k + 1) = IF k + 1 < m THEN 0 ELSE f[m]
    OBVIOUS
  <2>1. k \in 0..n /\ k + 1 \in 0..n /\ k < n
    OBVIOUS
  <2>2. SumTo(f, k) = IF k < m THEN 0 ELSE f[m]
    BY <1>2, <2>1
  <2>3. SumTo(f, k + 1) = field_add(SumTo(f, k), f[k + 1])
    BY <2>1, SumToUnfolds
  <2>4. f[k + 1] \in Element /\ f[m] \in Element /\ 0 \in Element
    BY <2>1, ZeroAndOne DEF Terms
  <2>5. CASE k + 1 = m
    <3>1. k < m /\ ~(k + 1 < m)
      BY <2>5
    <3> QED
      BY <2>2, <2>3, <2>4, <2>5, <3>1, AddZero
  <2>6. CASE k + 1 # m
    <3>1. (k < m <=> k + 1 < m) /\ f[k + 1] = 0
      BY <2>1, <2>6
    <3> QED
      BY <2>2, <2>3, <2>4, <3>1, AddZero
  <2> QED
    BY <2>5, <2>6
<1> HIDE DEF Good
<1>3. n \in Good
  BY <1>1, <1>2, SetInduction
<1> QED
  BY <1>3, n <= n, ~(n < m) DEF Good

\* What the functions f[0], ..., f[m] are at k, weighted by w and added.
Combined(w, f, m, k) == SumTo([n \in 0..m |-> field_mul(w[n], f[n][k])], m)

\* Functions on 0..l with values in the field, m + 1 of them.
Family(f, m, l) == \A n \in 0..m : \A k \in 0..l : f[n][k] \in Element

\* They are added one function after the other.
Accumulates(w, f, m, l) ==
    \A k \in 0..l :
        /\ Combined(w, f, m, k) \in Element
        /\ Combined(w, f, 0, k) = field_mul(w[0], f[0][k])
        /\ \A n \in Nat : n < m => /\ Combined(w, f, n, k) \in Element
                                   /\ Combined(w, f, n + 1, k)
                                        = field_add(Combined(w, f, n, k),
                                                    field_mul(w[n + 1], f[n + 1][k]))

\* The functions are added one after the other.
LEMMA CombinedUnfolds ==
    ASSUME NEW m \in Nat, NEW l \in Nat, NEW w, NEW f, Terms(w, m), Family(f, m, l)
    PROVE  Accumulates(w, f, m, l)
<1> SUFFICES ASSUME NEW k \in 0..l
             PROVE  /\ Combined(w, f, m, k) \in Element
                    /\ Combined(w, f, 0, k) = field_mul(w[0], f[0][k])
                    /\ \A n \in Nat : n < m =>
                         /\ Combined(w, f, n, k) \in Element
                         /\ Combined(w, f, n + 1, k)
                              = field_add(Combined(w, f, n, k), field_mul(w[n + 1], f[n + 1][k]))
  BY DEF Accumulates
<1> DEFINE t == [n \in 0..m |-> field_mul(w[n], f[n][k])]
<1>1. \A n \in 0..m : t[n] \in Element
  BY MulType DEF Terms, Family
<1>2. ASSUME NEW n \in 0..m PROVE Combined(w, f, n, k) = SumTo(t, n)
  <2> DEFINE r == [j \in 0..n |-> field_mul(w[j], f[j][k])]
  <2>1. \A j \in 0..n : r[j] = t[j] /\ t[j] \in Element
    BY <1>1
  <2>2. n \in Nat /\ Combined(w, f, n, k) = SumTo(r, n)
    BY DEF Combined
  <2> HIDE DEF r, t
  <2>3. Terms(t, n)
    BY <2>1 DEF Terms
  <2> QED
    BY <2>1, <2>2, <2>3, SumToSame
<1>3. \A n \in 0..m : t[n] = field_mul(w[n], f[n][k])
  OBVIOUS
<1> HIDE DEF t
<1>4. Terms(t, m)
  BY <1>1 DEF Terms
<1>5. /\ SumTo(t, 0) = t[0]
      /\ \A n \in 0..m : SumTo(t, n) \in Element
      /\ \A n \in Nat : n < m => SumTo(t, n + 1) = field_add(SumTo(t, n), t[n + 1])
  BY <1>4, SumToUnfolds
<1>6. /\ 0 \in 0..m /\ m \in 0..m
      /\ \A n \in Nat : n < m => n \in 0..m /\ n + 1 \in 0..m
  OBVIOUS
<1> QED
  BY <1>2, <1>3, <1>5, <1>6

\* Weights may be taken out of a sum over k.
Part(a, f, l, n) == SumTo([k \in 0..l |-> field_mul(a[k], f[n][k])], l)

Exchanges(w, f, a, m, l) ==
    /\ \A n \in 0..m : Part(a, f, l, n) \in Element
    /\ SumTo([k \in 0..l |-> field_mul(a[k], Combined(w, f, m, k))], l)
         = SumTo([n \in 0..m |-> field_mul(w[n], Part(a, f, l, n))], m)

\* The two sums exchange.
LEMMA SumToCombined ==
    ASSUME NEW m \in Nat, NEW l \in Nat, NEW w, NEW f, NEW a, Terms(w, m), Terms(a, l),
           Family(f, m, l)
    PROVE  Exchanges(w, f, a, m, l)
<1>0. Accumulates(w, f, m, l)
  BY CombinedUnfolds
<1> DEFINE one(n) == [k \in 0..l |-> field_mul(a[k], f[n][k])]
           part(n) == SumTo(one(n), l)
           whole(n) == [k \in 0..l |-> field_mul(a[k], Combined(w, f, n, k))]
           parts == [n \in 0..m |-> field_mul(w[n], part(n))]
           Good == {n \in Nat : n <= m => SumTo(whole(n), l) = SumTo(parts, n)}
<1>1. ASSUME NEW n \in 0..m PROVE Terms(one(n), l) /\ part(n) \in Element
  <2> DEFINE o == one(n)
  <2>1. \A k \in 0..l : o[k] \in Element
    BY MulType DEF Terms, Family
  <2>2. l \in 0..l
    OBVIOUS
  <2> HIDE DEF o
  <2>3. Terms(o, l)
    BY <2>1 DEF Terms
  <2>4. SumTo(o, l) \in Element
    BY <2>2, <2>3, SumToUnfolds
  <2> QED
    BY <2>3, <2>4 DEF o
<1>2. ASSUME NEW n \in 0..m PROVE Terms(whole(n), l)
  <2> DEFINE o == whole(n)
  <2>1. \A k \in 0..l : Combined(w, f, n, k) \in Element
    <3>1. n = m \/ n < m
      OBVIOUS
    <3> QED
      BY <1>0, <3>1 DEF Accumulates
  <2>2. \A k \in 0..l : o[k] \in Element
    BY <2>1, MulType DEF Terms
  <2> HIDE DEF o
  <2>3. Terms(o, l)
    BY <2>2 DEF Terms
  <2> QED
    BY <2>3 DEF o
<1>3. Terms(parts, m)
  <2> HIDE DEF part
  <2>1. \A n \in 0..m : parts[n] \in Element
    BY <1>1, MulType DEF Terms
  <2> HIDE DEF parts
  <2> QED
    BY <2>1 DEF Terms
<1>4. 0 \in Good
  <2> DEFINE h == whole(0)
             o == one(0)
             c == w[0]
  <2>1. c \in Element /\ Terms(o, l)
    <3>1. 0 \in 0..m
      OBVIOUS
    <3> QED
      BY <1>1, <3>1 DEF Terms
  <2>2. ASSUME NEW k \in 0..l PROVE h[k] = field_mul(c, o[k])
    <3>1. Combined(w, f, 0, k) = field_mul(w[0], f[0][k])
      BY <1>0 DEF Accumulates
    <3>2. a[k] \in Element /\ w[0] \in Element /\ f[0][k] \in Element
      BY DEF Terms, Family
    <3>3. field_mul(a[k], field_mul(w[0], f[0][k])) = field_mul(w[0], field_mul(a[k], f[0][k]))
      <4>1. /\ field_mul(a[k], field_mul(w[0], f[0][k])) = field_mul(field_mul(a[k], w[0]), f[0][k])
            /\ field_mul(w[0], field_mul(a[k], f[0][k])) = field_mul(field_mul(w[0], a[k]), f[0][k])
        BY <3>2, MulAssociates
      <4>2. field_mul(a[k], w[0]) = field_mul(w[0], a[k])
        BY <3>2, MulCommutes
      <4> QED
        BY <4>1, <4>2
    <3> QED
      BY <3>1, <3>3
  <2>3. parts[0] = field_mul(c, SumTo(o, l)) /\ SumTo(parts, 0) = parts[0]
    BY <1>3, SumToUnfolds
  <2> HIDE DEF h, o, c, parts
  <2>4. SumTo(h, l) = field_mul(c, SumTo(o, l))
    BY <2>1, <2>2, SumToScale
  <2> QED
    BY <2>3, <2>4 DEF h
<1>5. ASSUME NEW n \in Nat, n \in Good
      PROVE  n + 1 \in Good
  <2> SUFFICES ASSUME n + 1 <= m
               PROVE  SumTo(whole(n + 1), l) = SumTo(parts, n + 1)
    OBVIOUS
  <2> DEFINE h == whole(n + 1)
             g == whole(n)
             o == one(n + 1)
             c == w[n + 1]
             s == [k \in 0..l |-> field_mul(c, o[k])]
  <2>1. n \in 0..m /\ n + 1 \in 0..m /\ n < m
    OBVIOUS
  <2>2. c \in Element /\ Terms(o, l) /\ Terms(g, l)
    BY <1>1, <1>2, <2>1 DEF Terms
  <2>3. Terms(s, l)
    <3> HIDE DEF o, c
    <3>1. \A k \in 0..l : s[k] \in Element
      BY <2>2, MulType DEF Terms
    <3> HIDE DEF s
    <3> QED
      BY <3>1 DEF Terms
  <2>4. ASSUME NEW k \in 0..l PROVE h[k] = field_add(g[k], s[k])
    <3> DEFINE x == Combined(w, f, n, k)
               fk == f[n + 1][k]
               ak == a[k]
    <3>1. x \in Element /\ Combined(w, f, n + 1, k) = field_add(x, field_mul(c, fk))
      BY <1>0, <2>1 DEF Accumulates
    <3>2. ak \in Element /\ fk \in Element
      BY <2>1 DEF Terms, Family
    <3>3. /\ h[k] = field_mul(ak, field_add(x, field_mul(c, fk)))
          /\ g[k] = field_mul(ak, x)
          /\ s[k] = field_mul(c, field_mul(ak, fk))
      BY <3>1
    <3> HIDE DEF x, fk, ak, c, h, g, s, o
    <3>4. field_mul(c, fk) \in Element
      BY <2>2, <3>2, MulType
    <3>5. field_mul(ak, field_add(x, field_mul(c, fk)))
            = field_add(field_mul(ak, x), field_mul(ak, field_mul(c, fk)))
      BY <3>1, <3>2, <3>4, MulDistributes
    <3>6. /\ field_mul(ak, field_mul(c, fk)) = field_mul(field_mul(ak, c), fk)
          /\ field_mul(c, field_mul(ak, fk)) = field_mul(field_mul(c, ak), fk)
      BY <2>2, <3>2, MulAssociates
    <3>7. field_mul(ak, c) = field_mul(c, ak)
      BY <2>2, <3>2, MulCommutes
    <3> QED
      BY <3>3, <3>5, <3>6, <3>7
  <2>5. \A k \in 0..l : s[k] = field_mul(c, o[k])
    OBVIOUS
  <2>6. /\ parts[n + 1] = field_mul(c, SumTo(o, l))
        /\ SumTo(parts, n + 1) = field_add(SumTo(parts, n), parts[n + 1])
    BY <1>3, <2>1, SumToUnfolds
  <2>7. SumTo(g, l) = SumTo(parts, n)
    BY <1>5, <2>1
  <2> HIDE DEF h, g, o, c, s, parts
  <2>8. SumTo(s, l) = field_mul(c, SumTo(o, l))
    BY <2>2, <2>5, SumToScale
  <2>9. SumTo(h, l) = field_add(SumTo(g, l), SumTo(s, l))
    BY <2>2, <2>3, <2>4, SumToAdd
  <2> QED
    BY <2>6, <2>7, <2>8, <2>9 DEF h
<1> HIDE DEF Good
<1>6. m \in Good
  BY <1>4, <1>5, SetInduction
<1>7. SumTo(whole(m), l) = SumTo(parts, m)
  BY <1>6, m <= m DEF Good
<1> QED
  BY <1>1, <1>7 DEF Exchanges, Part

-----------------------------------------------------------------------------
(* Division by x + root. *)

\* A value is that of one coefficient less, and a term.
LEMMA ValueUnfolds ==
    ASSUME NEW n \in Nat, NEW p, Terms(p, n), NEW v \in 1..Top
    PROVE  /\ Value(p, 0, v) = p[0]
           /\ \A m \in 0..n : Value(p, m, v) \in Element
           /\ \A m \in Nat : m < n =>
                Value(p, m + 1, v) = field_add(Value(p, m, v), field_mul(p[m + 1], field_pow(v, m + 1)))
<1> DEFINE t == [k \in 0..n |-> field_mul(p[k], field_pow(v, k))]
<1>1. Terms(t, n)
  BY ValueTerms
<1>2. ASSUME NEW m \in 0..n PROVE Value(p, m, v) = SumTo(t, m)
  <2> DEFINE r == [k \in 0..m |-> field_mul(p[k], field_pow(v, k))]
  <2>1. \A k \in 0..m : k \in 0..n /\ r[k] = t[k]
    OBVIOUS
  <2>2. m \in Nat /\ Value(p, m, v) = SumTo(r, m)
    BY DEF Value
  <2> HIDE DEF r, t
  <2>3. Terms(t, m)
    BY <1>1, <2>1 DEF Terms
  <2> QED
    BY <2>1, <2>2, <2>3, SumToSame
<1>3. \A k \in 0..n : t[k] = field_mul(p[k], field_pow(v, k))
  OBVIOUS
<1> HIDE DEF t
<1>4. /\ SumTo(t, 0) = t[0]
      /\ \A m \in 0..n : SumTo(t, m) \in Element
      /\ \A m \in Nat : m < n => SumTo(t, m + 1) = field_add(SumTo(t, m), t[m + 1])
  BY <1>1, SumToUnfolds
<1>5. 0 \in 0..n /\ \A m \in Nat : m < n => m \in 0..n /\ m + 1 \in 0..n
  OBVIOUS
<1>6. t[0] = p[0]
  <2>1. field_pow(v, 0) = 1 /\ p[0] \in Element
    BY <1>5, PowUnfolds DEF Terms
  <2> QED
    BY <1>3, <1>5, <2>1, MulOne
<1> QED
  BY <1>2, <1>3, <1>4, <1>5, <1>6

\* (x + r) * q is p, up to order n.
Deflates(q, p, r, n) ==
    /\ q \in [0..n -> Element]
    /\ field_mul(r, q[0]) = p[0]
    /\ \A k \in Nat : k < n => field_mul(r, q[k + 1]) = field_add(p[k + 1], q[k])

\* Every polynomial can be divided, from its constant term on.
LEMMA DeflatedExists ==
    ASSUME NEW n \in Nat, NEW p, Terms(p, n), NEW r \in 1..Top
    PROVE  \E q : Deflates(q, p, r, n)
<1> DEFINE a == field_div(p[0], r)
           g == [k \in 1..n |-> [x \in Element |-> field_div(field_add(p[k], x), r)]]
<1>1. \A k \in 0..n : p[k] \in Element
  BY DEF Terms
<1>2. a \in Element /\ field_mul(r, a) = p[0]
  BY <1>1, MulDivided
<1>3. ASSUME NEW k \in 1..n, NEW x \in Element
      PROVE  /\ g[k][x] \in Element
             /\ field_mul(r, g[k][x]) = field_add(p[k], x)
  <2>1. field_add(p[k], x) \in Element
    BY <1>1, AddBits
  <2>2. g[k][x] = field_div(field_add(p[k], x), r)
    OBVIOUS
  <2> HIDE DEF g
  <2> QED
    BY <2>1, <2>2, MulDivided
<1>4. g \in [1..n -> [Element -> Element]]
  BY <1>3
<1> HIDE DEF a, g
<1>5. PICK q \in [0..n -> Element] : Recurs(q, a, g, n)
  BY <1>2, <1>4, RecursionExists
<1>6. q[0] = a
  BY <1>5 DEF Recurs
<1>7. ASSUME NEW k \in Nat, k < n PROVE field_mul(r, q[k + 1]) = field_add(p[k + 1], q[k])
  <2>1. k + 1 \in 0..n /\ k + 1 \in 1..n /\ k + 1 # 0 /\ (k + 1) - 1 = k /\ k \in 0..n
    BY <1>7
  <2>2. q[k + 1] = g[k + 1][q[k]]
    BY <1>5, <2>1 DEF Recurs
  <2> QED
    BY <1>3, <2>1, <2>2
<1>8. Deflates(q, p, r, n)
  BY <1>2, <1>6, <1>7 DEF Deflates
<1> QED
  BY <1>8

\* The value of p, and what is left over.
LEMMA DeflatedValue ==
    ASSUME NEW n \in Nat, NEW p, Terms(p, n), NEW r \in 1..Top, NEW q, Deflates(q, p, r, n),
           NEW v \in 1..Top
    PROVE  \A m \in 0..n :
             Value(p, m, v) = field_add(field_mul(field_add(v, r), Value(q, m, v)),
                                        field_mul(q[m], field_pow(v, m + 1)))
<1> DEFINE s == field_add(v, r)
           Holds(m) == Value(p, m, v) = field_add(field_mul(s, Value(q, m, v)),
                                                  field_mul(q[m], field_pow(v, m + 1)))
           Good == {m \in Nat : m <= n => Holds(m)}
<1>0. /\ v \in Element /\ r \in Element /\ s \in Element
      /\ Terms(q, n) /\ \A k \in 0..n : q[k] \in Element /\ p[k] \in Element
      /\ \A k \in Nat : field_pow(v, k) \in Element
                        /\ field_pow(v, k + 1) = field_mul(v, field_pow(v, k))
      /\ field_pow(v, 0) = 1
  BY FieldSize, AddBits, PowUnfolds DEF Deflates, Terms
<1>1. /\ Value(p, 0, v) = p[0] /\ Value(q, 0, v) = q[0]
      /\ \A m \in 0..n : Value(q, m, v) \in Element
      /\ \A m \in Nat : m < n =>
           /\ Value(p, m + 1, v) = field_add(Value(p, m, v), field_mul(p[m + 1], field_pow(v, m + 1)))
           /\ Value(q, m + 1, v) = field_add(Value(q, m, v), field_mul(q[m + 1], field_pow(v, m + 1)))
  BY <1>0, ValueUnfolds
<1> HIDE DEF s
<1>2. 0 \in Good
  <2> DEFINE q0 == q[0]
  <2>1. q0 \in Element /\ field_mul(r, q0) = p[0]
    BY <1>0 DEF Deflates
  <2>2. field_pow(v, 1) = v
    <3>1. field_pow(v, 0 + 1) = field_mul(v, field_pow(v, 0))
      BY <1>0
    <3> QED
      BY <1>0, <3>1, MulOne
  <2>3. field_mul(s, q0) = field_add(field_mul(v, q0), field_mul(r, q0))
    BY <1>0, <2>1, MulDistributes DEF s
  <2>4. field_mul(q0, v) = field_mul(v, q0) /\ field_mul(v, q0) \in Element /\ field_mul(r, q0) \in Element
    BY <1>0, <2>1, MulCommutes, MulType
  <2> HIDE DEF q0
  <2>5. field_add(field_add(field_mul(v, q0), field_mul(r, q0)), field_mul(v, q0)) = field_mul(r, q0)
    <3> DEFINE x == field_mul(v, q0)
               y == field_mul(r, q0)
    <3>1. x \in Element /\ y \in Element
      BY <2>4
    <3> HIDE DEF x, y
    <3>2. field_add(x, y) = field_add(y, x) /\ field_add(field_add(y, x), x) = y
      BY <3>1, AddCommutes, AddTwice
    <3>3. field_add(field_add(x, y), x) = y
      BY <3>2
    <3> QED
      BY <3>3 DEF x, y
  <2>6. Holds(0)
    BY <1>1, <2>1, <2>2, <2>3, <2>4, <2>5, 0 + 1 = 1 DEF q0
  <2> QED
    BY <2>6
<1>3. ASSUME NEW m \in Nat, m \in Good
      PROVE  m + 1 \in Good
  <2> SUFFICES ASSUME m + 1 <= n
               PROVE  Holds(m + 1)
    OBVIOUS
  <2>1. m \in 0..n /\ m + 1 \in 0..n /\ m < n /\ m <= n /\ m + 1 \in Nat
    OBVIOUS
  <2> DEFINE z == field_pow(v, m + 1)
             qm == q[m]
             qn == q[m + 1]
             pn == p[m + 1]
             V == Value(q, m, v)
             P == Value(p, m, v)
             Q == field_mul(s, V)
             a == field_mul(qm, z)
             b == field_mul(r, qn)
             c == field_mul(qn, z)
  <2>2. z \in Element /\ qm \in Element /\ qn \in Element /\ pn \in Element /\ V \in Element
    BY <1>0, <1>1, <2>1
  <2>3. P = field_add(Q, a)
    BY <1>3, <2>1
  <2>4. b = field_add(pn, qm)
    BY <2>1 DEF Deflates
  <2>5. /\ Value(p, m + 1, v) = field_add(P, field_mul(pn, z))
        /\ Value(q, m + 1, v) = field_add(V, c)
    BY <1>1, <2>1
  <2>6. field_pow(v, (m + 1) + 1) = field_mul(v, z)
    BY <1>0, <2>1
  <2> HIDE DEF z, qm, qn, pn, V, P
  <2>7. Q \in Element /\ a \in Element /\ b \in Element /\ c \in Element
    BY <1>0, <2>2, MulType
  \* Left: Q + a + pn z, where pn is b + qm.
  <2>8. field_mul(pn, z) = field_add(field_mul(b, z), a)
    <3>1. field_add(b, qm) = pn
      BY <2>2, <2>4, AddTwice
    <3> QED
      BY <2>2, <2>7, <3>1, MulDistributes
  <2>9. field_add(P, field_mul(pn, z)) = field_add(Q, field_mul(b, z))
    <3> DEFINE y == field_mul(b, z)
    <3>1. y \in Element
      BY <2>2, <2>7, MulType
    <3> HIDE DEF y, Q, a, b
    <3>2. field_add(field_add(Q, a), field_add(y, a)) = field_add(field_add(Q, y), field_add(a, a))
      BY <2>7, <3>1, AddPairs
    <3>3. field_add(Q, y) \in Element /\ field_add(a, a) = 0
      BY <2>7, <3>1, AddBits, AddSelf
    <3>4. field_add(field_add(Q, y), 0) = field_add(Q, y)
      BY <3>3, AddZero
    <3> QED
      BY <2>3, <2>8, <3>2, <3>3, <3>4 DEF y
  \* Right: s (V + c) + qn v z, where s is v + r.
  <2>10. field_mul(s, field_add(V, c)) = field_add(Q, field_mul(s, c))
    <3> HIDE DEF c
    <3> QED
      BY <1>0, <2>2, <2>7, MulDistributes
  <2>11. field_mul(s, c) = field_add(field_mul(v, c), field_mul(r, c))
    BY <1>0, <2>7, MulDistributes DEF s
  <2>12. field_mul(v, c) = field_mul(qn, field_mul(v, z)) /\ field_mul(r, c) = field_mul(b, z)
    <3>1. /\ field_mul(v, field_mul(qn, z)) = field_mul(field_mul(v, qn), z)
          /\ field_mul(qn, field_mul(v, z)) = field_mul(field_mul(qn, v), z)
          /\ field_mul(r, field_mul(qn, z)) = field_mul(field_mul(r, qn), z)
      BY <1>0, <2>2, MulAssociates
    <3>2. field_mul(v, qn) = field_mul(qn, v)
      BY <1>0, <2>2, MulCommutes
    <3> QED
      BY <3>1, <3>2
  <2>13. field_add(field_add(Q, field_mul(s, c)), field_mul(qn, field_mul(v, z)))
           = field_add(Q, field_mul(b, z))
    <3> DEFINE x == field_mul(v, c)
               y == field_mul(b, z)
    <3>1. x \in Element /\ y \in Element
      BY <1>0, <2>2, <2>7, MulType
    <3>2. field_mul(s, c) = field_add(x, y) /\ field_mul(qn, field_mul(v, z)) = x
      BY <2>11, <2>12
    <3> HIDE DEF x, y, Q, a, b, c
    <3>3. field_add(Q, field_add(x, y)) = field_add(field_add(Q, y), x)
      <4>1. field_add(x, y) = field_add(y, x)
        BY <3>1, AddCommutes
      <4> QED
        BY <2>7, <3>1, <4>1, AddAssociates
    <3>4. field_add(Q, y) \in Element
      BY <2>7, <3>1, AddBits
    <3>5. field_add(field_add(field_add(Q, y), x), x) = field_add(Q, y)
      BY <3>1, <3>4, AddTwice
    <3> QED
      BY <3>2, <3>3, <3>5 DEF y
  <2> HIDE DEF Q, a, b, c
  <2> QED
    BY <2>5, <2>6, <2>9, <2>10, <2>13 DEF qn
<1> HIDE DEF Good
<1>4. \A m \in Nat : m \in Good
  BY <1>2, <1>3, SetInduction
<1> QED
  BY <1>4, \A m \in 0..n : m \in Nat /\ m <= n DEF Good, s

\* Elements that cancel are the same, and a product is 0 only for a factor 0.
LEMMA AddIsZero ==
    ASSUME NEW x \in Element, NEW y \in Element, field_add(x, y) = 0
    PROVE  x = y
<1>1. field_add(field_add(x, y), y) = x
  BY AddTwice
<1>2. field_add(0, y) = y
  BY AddZero
<1> QED
  BY <1>1, <1>2

\* Divided by a root's factor, nothing is left over.
LEMMA DeflatedRoot ==
    ASSUME NEW n \in Nat, NEW p, Terms(p, n), NEW r \in 1..Top, NEW q, Deflates(q, p, r, n),
           NEW m \in 0..n, Value(p, m, r) = 0
    PROVE  /\ q[m] = 0
           /\ \A v \in 1..Top : Value(p, m, v) = field_mul(field_add(v, r), Value(q, m, v))
<1>0. /\ q[m] \in Element /\ r \in Element /\ m + 1 \in Nat /\ m \in Nat
      /\ Terms(q, n) /\ Terms(q, m) /\ 0 \in Element
  BY FieldSize, ZeroAndOne DEF Deflates, Terms
<1>1. q[m] = 0
  <2> DEFINE z == field_pow(r, m + 1)
             c == q[m]
             V == Value(q, m, r)
  <2>1. z \in Element /\ z # 0
    <3>1. z \in 1..Top
      BY <1>0, PowType
    <3> QED
      BY <3>1, FieldSize
  <2>2. Value(p, m, r) = field_add(field_mul(field_add(r, r), V), field_mul(c, z))
    BY DeflatedValue
  <2>3. field_add(r, r) = 0
    BY <1>0, AddSelf
  <2>4. V \in Element /\ c \in Element
    BY <1>0, ValueTerms
  <2> HIDE DEF z, c, V
  <2>5. field_mul(c, z) \in Element /\ field_mul(0, V) = 0
    BY <1>0, <2>1, <2>4, MulType, MulIsTimes
  <2>6. field_mul(c, z) = 0
    BY <2>2, <2>3, <2>5, AddZero
  <2>7. c = 0
    BY <2>1, <2>4, <2>6, MulType
  <2> QED
    BY <2>7 DEF c
<1>2. ASSUME NEW v \in 1..Top
      PROVE  Value(p, m, v) = field_mul(field_add(v, r), Value(q, m, v))
  <2> DEFINE x == field_mul(field_add(v, r), Value(q, m, v))
             y == field_pow(v, m + 1)
  <2>1. Value(p, m, v) = field_add(x, field_mul(q[m], y))
    BY DeflatedValue
  <2>2. x \in Element /\ y \in Element
    <3>1. v \in Element
      BY FieldSize
    <3>2. Value(q, m, v) \in Element /\ field_add(v, r) \in Element
      BY <1>0, <3>1, ValueTerms, AddBits
    <3> QED
      BY <1>0, <3>2, MulType, PowUnfolds
  <2> HIDE DEF x, y
  <2>3. field_mul(q[m], y) = 0
    BY <1>0, <1>1, <2>2, MulIsTimes
  <2>4. field_add(x, 0) = x
    BY <2>2, AddZero
  <2> QED
    BY <2>1, <2>3, <2>4 DEF x
<1> QED
  BY <1>1, <1>2

\* n + 1 different elements, none of them 0.
Different(rho, n) ==
    /\ rho \in [0..n -> 1..Top]
    /\ \A k \in 0..n : \A j \in 0..n : rho[k] = rho[j] => k = j

\* A polynomial of order n with more than n roots is 0.
RootsTooMany(n) ==
    \A p : \A rho : /\ Terms(p, n) /\ Different(rho, n)
                    /\ \A k \in 0..n : Value(p, n, rho[k]) = 0
                    => \A k \in 0..n : p[k] = 0

\* No polynomial but 0 has more roots than its order.
LEMMA RootCount == \A n \in Nat : RootsTooMany(n)
<1> DEFINE Good == {n \in Nat : RootsTooMany(n)}
<1>1. 0 \in Good
  <2> SUFFICES ASSUME NEW p, NEW rho, Terms(p, 0), Different(rho, 0),
                      \A k \in 0..0 : Value(p, 0, rho[k]) = 0,
                      NEW k \in 0..0
               PROVE  p[k] = 0
    BY DEF RootsTooMany
  <2>1. rho[0] \in 1..Top /\ Value(p, 0, rho[0]) = 0 /\ k = 0 /\ 0 \in Nat
    BY DEF Different
  <2>2. Value(p, 0, rho[0]) = p[0]
    BY <2>1, ValueUnfolds
  <2> QED
    BY <2>1, <2>2
<1>2. ASSUME NEW n \in Nat, n \in Good
      PROVE  n + 1 \in Good
  <2> SUFFICES ASSUME NEW p, NEW rho, Terms(p, n + 1), Different(rho, n + 1),
                      \A k \in 0..(n + 1) : Value(p, n + 1, rho[k]) = 0
               PROVE  \A k \in 0..(n + 1) : p[k] = 0
    BY DEF RootsTooMany
  <2> DEFINE r == rho[n + 1]
             less == [k \in 0..n |-> rho[k]]
  <2>1. /\ n + 1 \in Nat /\ n + 1 \in 0..(n + 1) /\ r \in 1..Top /\ n \in 0..(n + 1) /\ n <= n + 1
        /\ Value(p, n + 1, r) = 0
    BY DEF Different
  <2> HIDE DEF r
  <2>2. PICK q : Deflates(q, p, r, n + 1)
    BY <2>1, DeflatedExists
  <2>3. /\ q[n + 1] = 0
        /\ \A v \in 1..Top : Value(p, n + 1, v) = field_mul(field_add(v, r), Value(q, n + 1, v))
    BY <2>1, <2>2, DeflatedRoot
  <2>4. /\ \A k \in 0..(n + 1) : q[k] \in Element
        /\ Terms(q, n + 1) /\ Terms(q, n)
    BY <2>2 DEF Deflates, Terms
  <2>5. ASSUME NEW k \in 0..n PROVE Value(q, n, less[k]) = 0
    <3> DEFINE v == rho[k]
    <3>1. k \in 0..(n + 1) /\ k # n + 1 /\ n + 1 \in 0..(n + 1) /\ less[k] = v
      OBVIOUS
    <3>2. v \in 1..Top /\ v # r /\ Value(p, n + 1, v) = 0
      BY <3>1 DEF Different, r
    <3> HIDE DEF v, less
    <3>3. Value(q, n + 1, v) = Value(q, n, v)
      <4>1. \A j \in 0..(n + 1) : j > n => q[j] = 0
        BY <2>3
      <4> QED
        BY <2>1, <2>4, <3>2, <4>1, ValueTail
    <3>4. v \in Element /\ r \in Element
      BY <2>1, <3>2, FieldSize
    <3>5. field_add(v, r) \in Element /\ field_add(v, r) # 0
      BY <3>2, <3>4, AddBits, AddIsZero
    <3>6. Value(q, n + 1, v) \in Element
      BY <2>1, <2>4, <3>2, ValueTerms
    <3>7. field_mul(field_add(v, r), Value(q, n + 1, v)) = 0
      BY <2>3, <3>2
    <3>8. Value(q, n + 1, v) = 0
      BY <3>5, <3>6, <3>7, MulType
    <3> QED
      BY <3>1, <3>3, <3>8
  <2>6. Different(less, n)
    <3>1. \A k \in 0..n : k \in 0..(n + 1)
      OBVIOUS
    <3> QED
      BY <3>1 DEF Different
  <2>7. \A k \in 0..n : q[k] = 0
    <3> HIDE DEF less
    <3>1. RootsTooMany(n)
      BY <1>2
    <3> QED
      BY <2>4, <2>5, <2>6, <3>1 DEF RootsTooMany
  <2>8. \A k \in 0..(n + 1) : q[k] = 0
    BY <2>3, <2>7, \A k \in 0..(n + 1) : k \in 0..n \/ k = n + 1
  <2>9. field_mul(r, 0) = 0 /\ 0 \in Element
    <3>1. r \in Element /\ 0 \in Element
      BY <2>1, FieldSize, ZeroAndOne
    <3> QED
      BY <3>1, MulIsTimes
  <2>10. ASSUME NEW k \in 0..(n + 1) PROVE p[k] = 0
    <3>1. p[k] \in Element
      BY DEF Terms
    <3>2. CASE k = 0
      <4>1. field_mul(r, q[0]) = p[0] /\ 0 \in 0..(n + 1)
        BY <2>2, <2>1 DEF Deflates
      <4> QED
        BY <2>8, <2>9, <3>2, <4>1
    <3>3. CASE k # 0
      <4>1. k - 1 \in Nat /\ k - 1 < n + 1 /\ (k - 1) + 1 = k /\ k - 1 \in 0..(n + 1)
        BY <3>3
      <4>2. field_mul(r, q[k]) = field_add(p[k], q[k - 1])
        BY <2>2, <4>1 DEF Deflates
      <4>3. field_add(p[k], 0) = 0
        BY <2>8, <2>9, <4>1, <4>2
      <4> QED
        BY <2>9, <3>1, <4>3, AddIsZero
    <3> QED
      BY <3>2, <3>3
  <2> QED
    BY <2>10
<1> HIDE DEF Good
<1>3. \A n \in Nat : n \in Good
  BY <1>1, <1>2, SetInduction
<1> QED
  BY <1>3 DEF Good

\* At a root the derivative of (x + r) * q is q.
LEMMA DerivativeAtRoot ==
    ASSUME NEW t \in Nat, t > 0, NEW p, Terms(p, t), NEW r \in 1..Top,
           NEW q, Deflates(q, p, r, t), q[t] = 0,
           NEW d, \A k \in 0..(t - 1) : d[k] = field_sum(p[k + 1], k + 1)
    PROVE  /\ Terms(d, t - 1)
           /\ Value(d, t - 1, r) = Value(q, t - 1, r)
<1> DEFINE l == t - 1
           Holds(m) == Value(d, m, r) = IF m % 2 = 0 THEN Value(q, m + 1, r) ELSE Value(q, m, r)
           Good == {m \in Nat : m <= l => Holds(m)}
<1>0. /\ l \in Nat /\ l + 1 = t /\ r \in Element /\ 0 \in Element
      /\ Terms(q, t) /\ \A k \in 0..t : p[k] \in Element /\ q[k] \in Element
      /\ \A k \in Nat : field_pow(r, k) \in Element
                        /\ field_pow(r, k + 1) = field_mul(r, field_pow(r, k))
  <2>1. l \in Nat /\ l + 1 = t
    OBVIOUS
  <2>2. r \in Element /\ 0 \in Element
    BY FieldSize, ZeroAndOne
  <2>3. Terms(q, t) /\ \A k \in 0..t : p[k] \in Element /\ q[k] \in Element
    BY DEF Deflates, Terms
  <2>4. \A k \in Nat : field_pow(r, k) \in Element
                        /\ field_pow(r, k + 1) = field_mul(r, field_pow(r, k))
    BY PowUnfolds
  <2> QED
    BY <2>1, <2>2, <2>3, <2>4
<1>1. ASSUME NEW k \in 0..l
      PROVE  /\ d[k] = IF (k + 1) % 2 = 1 THEN p[k + 1] ELSE 0
             /\ p[k + 1] \in Element /\ d[k] \in Element
             /\ p[k + 1] = field_add(field_mul(r, q[k + 1]), q[k])
  <2>1. k + 1 \in 0..t /\ k \in 0..t /\ k \in Nat /\ k < t
    BY <1>0
  <2>2. p[k + 1] \in Element /\ q[k + 1] \in Element /\ q[k] \in Element
    BY <1>0, <2>1
  <2>3. field_mul(r, q[k + 1]) = field_add(p[k + 1], q[k])
    BY <2>1 DEF Deflates
  <2>4. field_add(field_add(p[k + 1], q[k]), q[k]) = p[k + 1]
    BY <2>2, AddTwice
  <2> QED
    BY <1>0, <2>2, <2>3, <2>4 DEF field_sum
<1>2. Terms(d, l)
  BY <1>1 DEF Terms
<1> HIDE DEF l
<1>3. /\ Value(d, 0, r) = d[0] /\ Value(q, 0, r) = q[0]
      /\ \A m \in 0..l : Value(d, m, r) \in Element
      /\ \A m \in 0..t : Value(q, m, r) \in Element
      /\ \A m \in Nat : m < l => Value(d, m + 1, r)
                                   = field_add(Value(d, m, r), field_mul(d[m + 1], field_pow(r, m + 1)))
      /\ \A m \in Nat : m < t => Value(q, m + 1, r)
                                   = field_add(Value(q, m, r), field_mul(q[m + 1], field_pow(r, m + 1)))
  <2>1. /\ Value(d, 0, r) = d[0]
        /\ \A m \in 0..l : Value(d, m, r) \in Element
        /\ \A m \in Nat : m < l => Value(d, m + 1, r)
                                     = field_add(Value(d, m, r), field_mul(d[m + 1], field_pow(r, m + 1)))
    BY <1>0, <1>2, ValueUnfolds
  <2>2. /\ Value(q, 0, r) = q[0]
        /\ \A m \in 0..t : Value(q, m, r) \in Element
        /\ \A m \in Nat : m < t => Value(q, m + 1, r)
                                     = field_add(Value(q, m, r), field_mul(q[m + 1], field_pow(r, m + 1)))
    BY <1>0, ValueUnfolds
  <2> QED
    BY <2>1, <2>2
\* A coefficient of even order brings two terms of q.
<1>4. ASSUME NEW m \in 0..l
      PROVE  field_mul(p[m + 1], field_pow(r, m))
               = field_add(field_mul(q[m], field_pow(r, m)), field_mul(q[m + 1], field_pow(r, m + 1)))
  <2> DEFINE z == field_pow(r, m)
             a == q[m]
             b == q[m + 1]
  <2>1. m \in Nat /\ m \in 0..t /\ m + 1 \in 0..t
    BY <1>0
  <2>2. z \in Element /\ a \in Element /\ b \in Element /\ field_pow(r, m + 1) = field_mul(r, z)
    BY <1>0, <2>1
  <2>3. p[m + 1] = field_add(field_mul(r, b), a)
    BY <1>1
  <2> HIDE DEF z, a, b
  <2>4. field_mul(r, b) \in Element
    BY <1>0, <2>2, MulType
  <2>5. field_mul(field_add(field_mul(r, b), a), z)
          = field_add(field_mul(field_mul(r, b), z), field_mul(a, z))
    BY <2>2, <2>4, MulDistributes
  <2>6. field_mul(field_mul(r, b), z) = field_mul(b, field_mul(r, z))
    BY <1>0, <2>2, MulCommutes, MulAssociates
  <2>7. field_mul(field_mul(r, b), z) \in Element /\ field_mul(a, z) \in Element
    BY <2>2, <2>4, MulType
  <2>8. field_add(field_mul(field_mul(r, b), z), field_mul(a, z))
          = field_add(field_mul(a, z), field_mul(field_mul(r, b), z))
    BY <2>7, AddCommutes
  <2> QED
    BY <2>2, <2>3, <2>5, <2>6, <2>8 DEF z, a, b
<1>5. 0 \in Good
  <2>1. 0 \in 0..l /\ 0 < t /\ 0 + 1 = 1 /\ 1 % 2 = 1 /\ 0 % 2 = 0 /\ field_pow(r, 0) = 1 /\ 1 \in 0..t
    BY <1>0, PowUnfolds
  <2>2. d[0] = p[1] /\ p[1] \in Element
    BY <1>1, <2>1
  <2>3. field_mul(p[1], 1) = p[1] /\ field_mul(q[0], 1) = q[0]
    <3>1. 0 \in 0..t /\ q[0] \in Element
      BY <1>0
    <3> QED
      BY <2>2, <3>1, MulOne
  <2>4. p[1] = field_add(q[0], field_mul(q[1], field_pow(r, 1)))
    BY <1>4, <2>1, <2>3
  <2>5. Value(q, 1, r) = field_add(q[0], field_mul(q[1], field_pow(r, 1)))
    BY <1>3, <2>1
  <2>6. Holds(0)
    BY <1>3, <2>1, <2>2, <2>4, <2>5
  <2> QED
    BY <2>6
<1>6. ASSUME NEW m \in Nat, m \in Good
      PROVE  m + 1 \in Good
  <2> SUFFICES ASSUME m + 1 <= l
               PROVE  Holds(m + 1)
    OBVIOUS
  <2>1. m \in 0..l /\ m + 1 \in 0..l /\ m < l /\ m + 1 \in Nat /\ m + 1 < t /\ m < t
        /\ m + 1 \in 0..t /\ m \in 0..t
    BY <1>0
  <2>2. Holds(m)
    BY <1>6, <2>1
  <2>3. Value(d, m + 1, r) = field_add(Value(d, m, r), field_mul(d[m + 1], field_pow(r, m + 1)))
    BY <1>3, <2>1
  <2>4. CASE m % 2 = 0
    <3>1. (m + 1) % 2 # 0 /\ ((m + 1) + 1) % 2 # 1
      BY <2>4
    <3>2. d[m + 1] = 0
      BY <1>1, <2>1, <3>1
    <3>3. field_mul(0, field_pow(r, m + 1)) = 0
      BY <1>0, <2>1, MulIsTimes
    <3>4. field_add(Value(d, m, r), 0) = Value(d, m, r)
      BY <1>3, <2>1, AddZero
    <3> QED
      BY <2>2, <2>3, <2>4, <3>1, <3>2, <3>3, <3>4
  <2>5. CASE m % 2 # 0
    <3>1. (m + 1) % 2 = 0 /\ ((m + 1) + 1) % 2 = 1
      BY <2>5
    <3>2. d[m + 1] = p[(m + 1) + 1]
      BY <1>1, <2>1, <3>1
    <3> DEFINE k == m + 1
               a == field_mul(q[k], field_pow(r, k))
               b == field_mul(q[k + 1], field_pow(r, k + 1))
               V == Value(q, m, r)
    <3>3. k \in 0..l /\ k + 1 \in 0..t /\ k \in 0..t /\ k \in Nat /\ k + 1 \in Nat
      BY <1>0, <2>1
    <3>4. field_mul(d[k], field_pow(r, k)) = field_add(a, b)
      BY <1>4, <3>2, <3>3
    <3>5. a \in Element /\ b \in Element /\ V \in Element
      <4>1. V \in Element
        BY <1>3, <2>1
      <4>2. q[k] \in Element /\ q[k + 1] \in Element
            /\ field_pow(r, k) \in Element /\ field_pow(r, k + 1) \in Element
        BY <1>0, <3>3
      <4> HIDE DEF k, V
      <4> QED
        BY <4>1, <4>2, MulType
    <3>6. Value(q, k, r) = field_add(V, a) /\ Value(q, k + 1, r) = field_add(Value(q, k, r), b)
      <4>1. k < t
        BY <2>1
      <4> QED
        BY <1>3, <2>1, <3>3, <4>1
    <3>7. Value(d, m, r) = V /\ Value(d, k, r) = field_add(V, field_add(a, b))
      BY <2>2, <2>3, <2>5, <3>4
    <3> HIDE DEF a, b, V
    <3>8. field_add(V, field_add(a, b)) = field_add(field_add(V, a), b)
      BY <3>5, AddAssociates
    <3> QED
      BY <3>1, <3>6, <3>7, <3>8
  <2> QED
    BY <2>4, <2>5
<1> HIDE DEF Good
<1>7. l \in Good
  <2>1. \A m \in Nat : m \in Good
    BY <1>5, <1>6, SetInduction
  <2> QED
    BY <1>0, <2>1
<1>8. Holds(l)
  BY <1>0, <1>7 DEF Good
<1>9. Value(q, t, r) = Value(q, l, r)
  <2>1. \A k \in 0..t : k > l => q[k] = 0
    BY <1>0
  <2> QED
    BY <1>0, <2>1, ValueTail
<1>10. Value(d, l, r) = Value(q, l, r)
  BY <1>0, <1>8, <1>9
<1> QED
  BY <1>2, <1>10 DEF l

-----------------------------------------------------------------------------
(* What a register makes of powers. *)

\* A sequence that starts at x and is multiplied by x.
Geometric(z, x, n) == \A j \in 0..n : z[j] = field_pow(x, j + 1)

\* Its convolution with c is c divided by the factor of the inverse of x.
LEMMA FeedbackOfPowers ==
    ASSUME NEW n \in Nat, NEW c, Terms(c, n), NEW r \in 1..Top, NEW x \in 1..Top,
           field_mul(r, x) = 1, NEW q, Deflates(q, c, r, n), NEW z, Geometric(z, x, n)
    PROVE  Terms(z, n) /\ \A k \in 0..n : Feedback(c, z, k, k) = q[k]
<1> DEFINE Holds(k) == Feedback(c, z, k, k) = q[k]
           Good == {k \in Nat : k <= n => Holds(k)}
<1>0. /\ r \in Element /\ x \in Element /\ \A k \in 0..n : c[k] \in Element /\ q[k] \in Element
      /\ \A j \in 0..n : z[j] = field_pow(x, j + 1) /\ z[j] \in Element
      /\ \A j \in Nat : j < n => z[j + 1] = field_mul(x, z[j])
      /\ z[0] = x /\ 0 \in 0..n
  <2>1. r \in Element /\ x \in Element /\ \A k \in 0..n : c[k] \in Element /\ q[k] \in Element
    BY FieldSize DEF Terms, Deflates
  <2>2. /\ \A j \in Nat : field_pow(x, j) \in Element
                          /\ field_pow(x, j + 1) = field_mul(x, field_pow(x, j))
        /\ field_pow(x, 0) = 1
    BY PowUnfolds
  <2>3. \A j \in 0..n : z[j] = field_pow(x, j + 1) /\ z[j] \in Element
    BY <2>2 DEF Geometric
  <2>4. ASSUME NEW j \in Nat, j < n PROVE z[j + 1] = field_mul(x, z[j])
    <3>1. j + 1 \in 0..n /\ j \in 0..n /\ j + 1 \in Nat
      BY <2>4
    <3> QED
      BY <2>2, <2>3, <3>1
  <2>5. z[0] = x
    <3>1. field_pow(x, 0 + 1) = field_mul(x, 1)
      BY <2>2
    <3>2. field_mul(x, 1) = x /\ 0 \in 0..n
      BY <2>1, MulOne
    <3> QED
      BY <2>3, <3>1, <3>2
  <2> QED
    BY <2>1, <2>3, <2>4, <2>5
\* What is multiplied by r is got back by x.
<1>1. ASSUME NEW y \in Element PROVE field_mul(field_mul(r, y), x) = y
  <2>1. field_mul(field_mul(r, y), x) = field_mul(field_mul(r, x), y)
    <3>1. field_mul(r, y) = field_mul(y, r)
      BY <1>0, MulCommutes
    <3>2. field_mul(field_mul(y, r), x) = field_mul(y, field_mul(r, x))
      BY <1>0, MulAssociates
    <3>3. field_mul(y, field_mul(r, x)) = field_mul(field_mul(r, x), y)
      BY <1>0, MulType, MulCommutes
    <3> QED
      BY <3>1, <3>2, <3>3
  <2> QED
    BY <2>1, MulOne
<1>2. Terms(z, n)
  BY <1>0 DEF Terms
<1>3. 0 \in Good
  <2> DEFINE f == [j \in 0..0 |-> field_mul(c[j], z[0 - j])]
  <2>1. f[0] = field_mul(c[0], x)
    BY <1>0
  <2>2. Terms(f, 0)
    <3>1. f[0] \in Element
      BY <1>0, <2>1, MulType
    <3> HIDE DEF f
    <3> QED
      BY <3>1 DEF Terms
  <2>3. SumTo(f, 0) = f[0]
    <3> HIDE DEF f
    <3> QED
      BY <2>2, SumToUnfolds
  <2>4. field_mul(r, q[0]) = c[0]
    BY DEF Deflates
  <2>5. field_mul(c[0], x) = q[0]
    BY <1>0, <1>1, <2>4
  <2> QED
    BY <2>1, <2>3, <2>5 DEF Feedback
<1>4. ASSUME NEW k \in Nat, k \in Good
      PROVE  k + 1 \in Good
  <2> SUFFICES ASSUME k + 1 <= n
               PROVE  Holds(k + 1)
    OBVIOUS
  <2> DEFINE m == k + 1
             f == [j \in 0..k |-> field_mul(c[j], z[k - j])]
             g == [j \in 0..m |-> field_mul(c[j], z[m - j])]
             e == c[m]
  <2>1. k \in 0..n /\ m \in 0..n /\ m \in Nat /\ k < m /\ k < n /\ m - m = 0 /\ \A j \in 0..k : j \in 0..m
    OBVIOUS
  <2>2. Feedback(c, z, k, k) = q[k] /\ SumTo(f, k) = q[k]
    BY <1>4, <2>1 DEF Feedback
  <2>3. Terms(c, m) /\ Terms(z, m) /\ Terms(c, k) /\ Terms(z, k)
    BY <1>0 DEF Terms
  <2>4. Terms(f, k) /\ Terms(g, m)
    <3> HIDE DEF m
    <3>1. m <= m /\ k <= k
      BY <2>1
    <3> QED
      BY <2>1, <2>3, <3>1, FeedbackTerms
  <2>5. ASSUME NEW j \in 0..k PROVE g[j] = field_mul(x, f[j])
    <3> DEFINE cj == c[j]
               zj == z[k - j]
    <3>1. m - j = (k - j) + 1 /\ k - j \in Nat /\ k - j < n /\ k - j \in 0..n /\ j \in 0..n /\ j \in 0..m
      OBVIOUS
    <3>2. cj \in Element /\ zj \in Element /\ z[m - j] = field_mul(x, zj)
      BY <1>0, <3>1
    <3>3. g[j] = field_mul(cj, field_mul(x, zj)) /\ f[j] = field_mul(cj, zj)
      BY <3>1, <3>2
    <3> HIDE DEF cj, zj, f, g, m
    <3>4. /\ field_mul(cj, field_mul(x, zj)) = field_mul(field_mul(cj, x), zj)
          /\ field_mul(x, field_mul(cj, zj)) = field_mul(field_mul(x, cj), zj)
      BY <1>0, <3>2, MulAssociates
    <3>5. field_mul(cj, x) = field_mul(x, cj)
      BY <1>0, <3>2, MulCommutes
    <3> QED
      BY <3>3, <3>4, <3>5
  <2>6. g[m] = field_mul(e, x) /\ e \in Element
    <3>1. m \in 0..m
      OBVIOUS
    <3> QED
      BY <1>0, <2>1, <3>1
  <2>7. SumTo(g, m) = field_add(SumTo(g, k), g[m])
    <3> HIDE DEF g
    <3>1. SumTo(g, k + 1) = field_add(SumTo(g, k), g[k + 1])
      BY <2>1, <2>4, SumToUnfolds
    <3> QED
      BY <3>1
  <2>8. SumTo(g, k) = field_mul(x, SumTo(f, k))
    <3> HIDE DEF g, f
    <3> QED
      BY <1>0, <2>4, <2>5, SumToScale
  <2>9. field_mul(r, q[m]) = field_add(e, q[k])
    BY <2>1 DEF Deflates
  <2>10. Feedback(c, z, m, m) = SumTo(g, m)
    BY DEF Feedback
  <2> DEFINE a == q[k]
             b == q[m]
  <2>11. a \in Element /\ b \in Element
    BY <1>0, <2>1
  <2>12. SumTo(g, m) = field_add(field_mul(x, a), field_mul(e, x))
    BY <2>2, <2>6, <2>7, <2>8
  <2> HIDE DEF a, b, e, f, g, m
  <2>13. field_mul(x, a) = field_mul(a, x) /\ field_mul(a, x) \in Element /\ field_mul(e, x) \in Element
    BY <1>0, <2>6, <2>11, MulCommutes, MulType
  <2>14. field_add(field_mul(a, x), field_mul(e, x)) = field_mul(field_add(a, e), x)
    BY <1>0, <2>6, <2>11, MulDistributes
  <2>15. field_add(a, e) = field_mul(r, b)
    BY <2>6, <2>9, <2>11, AddCommutes DEF a, b
  <2>16. field_mul(field_mul(r, b), x) = b
    BY <1>1, <2>11
  <2> QED
    BY <2>10, <2>12, <2>13, <2>14, <2>15, <2>16 DEF m, b
<1> HIDE DEF Good
<1>5. \A k \in Nat : k \in Good
  BY <1>3, <1>4, SetInduction
<1> QED
  BY <1>2, <1>5, \A k \in 0..n : k \in Nat /\ k <= n DEF Good

\* A register whose first tap is not 0 makes 0 only of zeros.
LEMMA FeedbackOfZeros ==
    ASSUME NEW n \in Nat, NEW c, Terms(c, n), c[0] # 0, NEW h, Terms(h, n),
           \A k \in 0..n : Feedback(c, h, k, k) = 0
    PROVE  \A k \in 0..n : h[k] = 0
<1> DEFINE Good == {m \in Nat : m <= n => \A k \in 0..m : h[k] = 0}
<1>1. ASSUME NEW m \in 0..n, \A k \in 0..m : k < m => h[k] = 0
      PROVE  h[m] = 0
  <2> DEFINE f == [j \in 0..m |-> field_mul(c[j], h[m - j])]
  <2>1. m \in Nat /\ m <= m /\ 0 \in 0..m /\ m - 0 = m /\ \A j \in 0..m : j \in 0..n
    OBVIOUS
  <2>2. Terms(c, m) /\ Terms(h, m)
    BY <2>1 DEF Terms
  <2>3. Terms(f, m)
    BY <2>1, <2>2, FeedbackTerms
  <2>4. \A j \in 0..m : j # 0 => f[j] = 0
    <3> SUFFICES ASSUME NEW j \in 0..m, j # 0 PROVE f[j] = 0
      OBVIOUS
    <3>1. m - j \in 0..m /\ m - j < m /\ j \in 0..n
      OBVIOUS
    <3>2. h[m - j] = 0 /\ c[j] \in Element /\ 0 \in Element
      BY <1>1, <3>1, ZeroAndOne DEF Terms
    <3> QED
      BY <3>2, MulIsTimes
  <2>5. f[0] = field_mul(c[0], h[m]) /\ c[0] \in Element /\ h[m] \in Element
    BY <2>1, <2>2 DEF Terms
  <2>6. Feedback(c, h, m, m) = SumTo(f, m)
    BY DEF Feedback
  <2> HIDE DEF f
  <2>7. SumTo(f, m) = f[0]
    BY <2>1, <2>3, <2>4, SumToOnly
  <2> QED
    BY <2>5, <2>6, <2>7, MulType
<1>2. 0 \in Good
  <2>1. \A k \in 0..0 : k = 0
    OBVIOUS
  <2>2. 0 \in 0..n /\ \A k \in 0..0 : ~(k < 0)
    OBVIOUS
  <2>3. h[0] = 0
    BY <1>1, <2>2
  <2> QED
    BY <2>1, <2>3
<1>3. ASSUME NEW m \in Nat, m \in Good
      PROVE  m + 1 \in Good
  <2> SUFFICES ASSUME m + 1 <= n
               PROVE  \A k \in 0..(m + 1) : h[k] = 0
    OBVIOUS
  <2>1. \A k \in 0..m : h[k] = 0
    BY <1>3
  <2>2. m + 1 \in 0..n /\ \A k \in 0..(m + 1) : k \in 0..m \/ k = m + 1
    OBVIOUS
  <2>3. h[m + 1] = 0
    BY <1>1, <2>1, <2>2
  <2> QED
    BY <2>1, <2>2, <2>3
<1> HIDE DEF Good
<1>4. n \in Good
  BY <1>2, <1>3, SetInduction
<1> QED
  BY <1>4, n <= n DEF Good

\* So it makes the same only of the same.
LEMMA FeedbackDetermines ==
    ASSUME NEW n \in Nat, NEW c, Terms(c, n), c[0] # 0, NEW s, Terms(s, n), NEW u, Terms(u, n),
           \A k \in 0..n : Feedback(c, s, k, k) = Feedback(c, u, k, k)
    PROVE  \A k \in 0..n : s[k] = u[k]
<1> DEFINE h == [k \in 0..n |-> field_add(s[k], u[k])]
<1>1. \A k \in 0..n : h[k] \in Element
  BY AddBits DEF Terms
<1>2. ASSUME NEW k \in 0..n PROVE Feedback(c, h, k, k) = 0
  <2> DEFINE f == [j \in 0..k |-> field_mul(c[j], s[k - j])]
             g == [j \in 0..k |-> field_mul(c[j], u[k - j])]
             e == [j \in 0..k |-> field_mul(c[j], h[k - j])]
  <2>1. k \in Nat /\ k <= k /\ \A j \in 0..k : j \in 0..n
    OBVIOUS
  <2>2. Terms(c, k) /\ Terms(s, k) /\ Terms(u, k)
    BY <2>1 DEF Terms
  <2>3. Terms(f, k) /\ Terms(g, k) /\ Feedback(c, s, k, k) \in Element
    BY <2>1, <2>2, FeedbackTerms
  <2>4. ASSUME NEW j \in 0..k PROVE e[j] = field_add(f[j], g[j])
    <3>1. k - j \in 0..n /\ j \in 0..n
      OBVIOUS
    <3>2. c[j] \in Element /\ s[k - j] \in Element /\ u[k - j] \in Element
      BY <3>1 DEF Terms
    <3>3. h[k - j] = field_add(s[k - j], u[k - j])
      BY <3>1
    <3> HIDE DEF h
    <3> QED
      BY <3>2, <3>3, MulDistributes
  <2>5. /\ Feedback(c, s, k, k) = SumTo(f, k) /\ Feedback(c, u, k, k) = SumTo(g, k)
        /\ Feedback(c, h, k, k) = SumTo(e, k)
    BY DEF Feedback
  <2> HIDE DEF e, f, g, h
  <2>6. SumTo(e, k) = field_add(SumTo(f, k), SumTo(g, k))
    BY <2>1, <2>3, <2>4, SumToAdd
  <2>7. SumTo(f, k) \in Element /\ SumTo(g, k) = SumTo(f, k)
    BY <2>3, <2>5
  <2> QED
    BY <2>5, <2>6, <2>7, AddSelf
<1>3. Terms(h, n)
  <2> HIDE DEF h
  <2> QED
    BY <1>1 DEF Terms
<1>4. \A k \in 0..n : h[k] = field_add(s[k], u[k])
  OBVIOUS
<1> HIDE DEF h
<1>5. \A k \in 0..n : h[k] = 0
  BY <1>2, <1>3, FeedbackOfZeros
<1> QED
  BY <1>4, <1>5, AddIsZero DEF Terms

\* Values of combinations.
CombinesAt(w, f, m, l, v) ==
    LET e == [k \in 0..l |-> Combined(w, f, m, k)]
    IN  /\ Terms(e, l)
        /\ \A n \in 0..m : Value(f[n], l, v) \in Element
        /\ Value(e, l, v) = SumTo([n \in 0..m |-> field_mul(w[n], Value(f[n], l, v))], m)

\* The value of a combination is the combination of the values.
LEMMA CombinedValue ==
    ASSUME NEW m \in Nat, NEW l \in Nat, NEW w, NEW f, Terms(w, m), Family(f, m, l), NEW v \in 1..Top
    PROVE  CombinesAt(w, f, m, l, v)
<1> DEFINE a == [k \in 0..l |-> field_pow(v, k)]
           e == [k \in 0..l |-> Combined(w, f, m, k)]
           one(n) == [k \in 0..l |-> field_mul(a[k], f[n][k])]
           part(n) == SumTo(one(n), l)
           whole == [k \in 0..l |-> field_mul(a[k], Combined(w, f, m, k))]
           parts == [n \in 0..m |-> field_mul(w[n], part(n))]
           values == [n \in 0..m |-> field_mul(w[n], Value(f[n], l, v))]
<1>1. Accumulates(w, f, m, l)
  BY CombinedUnfolds
<1>2. \A k \in 0..l : e[k] \in Element
  BY <1>1 DEF Accumulates
<1>3. Terms(e, l) /\ \A n \in 0..m : Terms(f[n], l)
  <2> HIDE DEF e
  <2> QED
    BY <1>2 DEF Terms, Family
<1>4. Terms(a, l) /\ \A k \in 0..l : a[k] = field_pow(v, k) /\ a[k] \in Element
  <2>1. \A k \in 0..l : a[k] = field_pow(v, k) /\ a[k] \in Element
    BY PowUnfolds
  <2> HIDE DEF a
  <2> QED
    BY <2>1 DEF Terms
<1>5. ASSUME NEW n \in 0..m PROVE Value(f[n], l, v) = part(n) /\ Value(f[n], l, v) \in Element
  <2> DEFINE o == one(n)
             r == [k \in 0..l |-> field_mul(f[n][k], field_pow(v, k))]
  <2>1. Terms(r, l) /\ Value(f[n], l, v) \in Element
    BY <1>3, ValueTerms
  <2>2. ASSUME NEW k \in 0..l PROVE o[k] = r[k]
    <3>1. f[n][k] \in Element /\ a[k] \in Element /\ a[k] = field_pow(v, k)
      BY <1>4 DEF Family
    <3> HIDE DEF a
    <3> QED
      BY <3>1, MulCommutes
  <2>3. Value(f[n], l, v) = SumTo(r, l)
    BY DEF Value
  <2> HIDE DEF o, r
  <2>4. SumTo(o, l) = SumTo(r, l)
    BY <2>1, <2>2, SumToSame
  <2> QED
    BY <2>1, <2>3, <2>4 DEF o
<1>6. Value(e, l, v) = SumTo(whole, l)
  <2> DEFINE r == [k \in 0..l |-> field_mul(e[k], field_pow(v, k))]
  <2>1. Terms(r, l)
    <3> HIDE DEF e
    <3> QED
      BY <1>3, ValueTerms
  <2>2. ASSUME NEW k \in 0..l PROVE whole[k] = r[k]
    <3>1. e[k] \in Element /\ e[k] = Combined(w, f, m, k) /\ a[k] \in Element /\ a[k] = field_pow(v, k)
      BY <1>2, <1>4
    <3>2. whole[k] = field_mul(a[k], e[k]) /\ r[k] = field_mul(e[k], a[k])
      BY <3>1
    <3> QED
      BY <3>1, <3>2, MulCommutes
  <2>3. Value(e, l, v) = SumTo(r, l)
    BY DEF Value
  <2> HIDE DEF whole, r
  <2> QED
    BY <2>1, <2>2, <2>3, SumToSame
<1>7. SumTo(whole, l) = SumTo(parts, m)
  <2> HIDE DEF a
  <2>1. Exchanges(w, f, a, m, l)
    BY <1>4, SumToCombined
  <2> QED
    BY <2>1 DEF Exchanges, Part
<1>8. parts = values
  <2> HIDE DEF part
  <2> QED
    BY <1>5
<1> QED
  BY <1>3, <1>5, <1>6, <1>7, <1>8 DEF CombinesAt

\* What a register makes of a combination of sequences.
FeedbackCombines(c, u, w, z, m, l, k) ==
    Feedback(c, u, l, k) = SumTo([i \in 0..m |-> field_mul(w[i], Feedback(c, z[i], l, k))], m)

\* The feedback of a combination is the combination of the feedbacks.
LEMMA CombinedFeedback ==
    ASSUME NEW m \in Nat, NEW n \in Nat, NEW w, NEW z, Terms(w, m), Family(z, m, n),
           NEW u, \A k \in 0..n : u[k] = Combined(w, z, m, k), NEW k \in 0..n,
           NEW l \in 0..k, NEW c, Terms(c, l)
    PROVE  FeedbackCombines(c, u, w, z, m, l, k)
<1> DEFINE f == [i \in 0..m |-> [j \in 0..l |-> z[i][k - j]]]
           part(i) == SumTo([j \in 0..l |-> field_mul(c[j], f[i][j])], l)
           whole == [j \in 0..l |-> field_mul(c[j], Combined(w, f, m, j))]
           t == [j \in 0..l |-> field_mul(c[j], u[k - j])]
           parts == [i \in 0..m |-> field_mul(w[i], part(i))]
           values == [i \in 0..m |-> field_mul(w[i], Feedback(c, z[i], l, k))]
<1>0. l \in Nat /\ \A j \in 0..l : k - j \in 0..n
  OBVIOUS
<1>1. Family(f, m, l)
  BY <1>0 DEF Family
<1>2. SumTo(whole, l) = SumTo(parts, m)
  <2> HIDE DEF f
  <2>1. Exchanges(w, f, c, m, l)
    BY <1>0, <1>1, SumToCombined
  <2> QED
    BY <2>1 DEF Exchanges, Part
<1>3. t = whole
  <2>1. ASSUME NEW j \in 0..l PROVE Combined(w, f, m, j) = u[k - j]
    <3> DEFINE x == [i \in 0..m |-> field_mul(w[i], f[i][j])]
               y == [i \in 0..m |-> field_mul(w[i], z[i][k - j])]
    <3>1. x = y
      OBVIOUS
    <3>2. Combined(w, f, m, j) = SumTo(x, m) /\ Combined(w, z, m, k - j) = SumTo(y, m)
      BY DEF Combined
    <3>3. u[k - j] = Combined(w, z, m, k - j)
      BY <1>0
    <3> HIDE DEF x, y, f
    <3> QED
      BY <3>1, <3>2, <3>3
  <2> HIDE DEF f
  <2> QED
    BY <2>1
<1>4. ASSUME NEW i \in 0..m PROVE part(i) = Feedback(c, z[i], l, k)
  <2> DEFINE x == [j \in 0..l |-> field_mul(c[j], f[i][j])]
             y == [j \in 0..l |-> field_mul(c[j], z[i][k - j])]
  <2>1. x = y
    OBVIOUS
  <2>2. part(i) = SumTo(x, l) /\ Feedback(c, z[i], l, k) = SumTo(y, l)
    BY DEF Feedback
  <2> HIDE DEF x, y, part
  <2> QED
    BY <2>1, <2>2
<1>5. parts = values
  <2> HIDE DEF part
  <2> QED
    BY <1>4
<1>6. Feedback(c, u, l, k) = SumTo(t, l)
  BY DEF Feedback
<1> HIDE DEF t, whole, parts, values
<1>7. Feedback(c, u, l, k) = SumTo(values, m)
  BY <1>2, <1>3, <1>5, <1>6
<1> QED
  BY <1>7 DEF values, FeedbackCombines

-----------------------------------------------------------------------------
(* Forney's formula. *)

\* rho holds all roots of the register's polynomial c of order t, whose first tap is not 0.
Splits(c, t, rho, n) ==
    /\ Terms(c, n) /\ c[0] # 0 /\ \A k \in 0..n : k > t => c[k] = 0
    /\ Different(rho, t - 1)
    /\ \A m \in 0..(t - 1) : Value(c, t, rho[m]) = 0

\* q[m] is c divided by the factor of the m-th root.
Divided(q, c, t, rho, n) == \A m \in 0..(t - 1) : Deflates(q[m], c, rho[m], n)

\* A polynomial that splits can be divided by each of its factors.
LEMMA DividedExists ==
    ASSUME NEW n \in Nat, NEW t \in Nat, t > 0, NEW c, NEW rho, Splits(c, t, rho, n)
    PROVE  \E q : Divided(q, c, t, rho, n)
<1> DEFINE q == [m \in 0..(t - 1) |-> CHOOSE p : Deflates(p, c, rho[m], n)]
<1>1. ASSUME NEW m \in 0..(t - 1) PROVE Deflates(q[m], c, rho[m], n)
  <2>1. rho[m] \in 1..Top /\ Terms(c, n)
    BY DEF Splits, Different
  <2>2. \E p : Deflates(p, c, rho[m], n)
    BY <2>1, DeflatedExists
  <2> QED
    BY <2>2
<1> HIDE DEF q
<1> QED
  BY <1>1 DEF Divided

\* Each has no terms from order t on, the other roots, and not this one.
LEMMA DividedHas ==
    ASSUME NEW n \in Nat, NEW t \in Nat, t > 0, t <= n, NEW c, NEW rho, Splits(c, t, rho, n),
           NEW q, Divided(q, c, t, rho, n), NEW m \in 0..(t - 1)
    PROVE  /\ \A k \in 0..n : q[m][k] \in Element /\ (k >= t => q[m][k] = 0)
           /\ Terms(q[m], t - 1)
           /\ \A j \in 0..(t - 1) : j # m => Value(q[m], t - 1, rho[j]) = 0
           /\ Value(q[m], t - 1, rho[m]) \in Element \ {0}
<1> DEFINE p == q[m]
           r == rho[m]
           l == t - 1
<1>0. /\ l \in Nat /\ l + 1 = t /\ t \in 0..n /\ 0 \in 0..n /\ m \in 0..l /\ l <= t
      /\ Deflates(p, c, r, n) /\ r \in 1..Top /\ Terms(c, n) /\ Value(c, t, r) = 0 /\ c[0] # 0
      /\ \A j \in 0..l : rho[j] \in 1..Top /\ (rho[j] = r => j = m)
      /\ \A j \in 0..l : Value(c, t, rho[j]) = 0
  BY DEF Splits, Divided, Different
<1> HIDE DEF p, r, l
<1>1. /\ \A k \in 0..n : p[k] \in Element
      /\ Terms(p, n) /\ Terms(p, t) /\ Terms(p, l)
      /\ field_mul(r, p[0]) = c[0] /\ r \in Element /\ 0 \in Element /\ r # 0
      /\ \A k \in Nat : k < n => field_mul(r, p[k + 1]) = field_add(c[k + 1], p[k])
  <2>1. \A k \in 0..t : k \in 0..n
    BY <1>0
  <2>2. \A k \in 0..l : k \in 0..n
    BY <1>0
  <2> QED
    BY <1>0, <2>1, <2>2, FieldSize, ZeroAndOne DEF Deflates, Terms
<1>2. /\ p[t] = 0
      /\ \A v \in 1..Top : Value(c, t, v) = field_mul(field_add(v, r), Value(p, t, v))
  BY <1>0, DeflatedRoot
<1>3. \A k \in 0..n : k >= t => p[k] = 0
  <2> DEFINE Good == {d \in Nat : t + d <= n => p[t + d] = 0}
  <2>1. 0 \in Good
    BY <1>2
  <2>2. ASSUME NEW d \in Nat, d \in Good PROVE d + 1 \in Good
    <3> SUFFICES ASSUME t + (d + 1) <= n PROVE p[t + (d + 1)] = 0
      OBVIOUS
    <3> DEFINE k == t + d
    <3>1. k \in Nat /\ k < n /\ k + 1 = t + (d + 1) /\ k + 1 \in 0..n /\ k + 1 > t /\ t + d <= n
      OBVIOUS
    <3>2. p[k] = 0 /\ c[k + 1] = 0
      BY <2>2, <3>1 DEF Splits
    <3>3. field_mul(r, p[k + 1]) = field_add(0, 0)
      BY <1>1, <3>1, <3>2
    <3>4. field_add(0, 0) = 0
      BY <1>1, AddSelf
    <3>5. p[k + 1] = 0
      BY <1>1, <3>1, <3>3, <3>4, MulType
    <3> QED
      BY <3>1, <3>5
  <2> HIDE DEF Good
  <2>3. \A d \in Nat : d \in Good
    BY <2>1, <2>2, SetInduction
  <2> SUFFICES ASSUME NEW k \in 0..n, k >= t PROVE p[k] = 0
    OBVIOUS
  <2>4. k - t \in Nat /\ t + (k - t) = k
    OBVIOUS
  <2> QED
    BY <2>3, <2>4 DEF Good
<1>4. ASSUME NEW v \in 1..Top PROVE Value(p, t, v) = Value(p, l, v) /\ Value(p, l, v) \in Element
  <2>1. \A k \in 0..t : k > l => p[k] = 0
    BY <1>0, <1>2
  <2>2. Value(p, t, v) = Value(p, l, v)
    BY <1>0, <1>1, <2>1, ValueTail
  <2>3. Value(p, l, v) \in Element
    BY <1>0, <1>1, ValueTerms
  <2> QED
    BY <2>2, <2>3
<1>5. ASSUME NEW j \in 0..l, j # m PROVE Value(p, l, rho[j]) = 0
  <2> DEFINE v == rho[j]
  <2>1. v \in 1..Top /\ v # r /\ v \in Element /\ Value(c, t, v) = 0
    BY <1>0, <1>5, FieldSize
  <2> HIDE DEF v
  <2>2. field_add(v, r) \in Element /\ field_add(v, r) # 0
    BY <1>1, <2>1, AddBits, AddIsZero
  <2>3. field_mul(field_add(v, r), Value(p, l, v)) = 0
    BY <1>2, <1>4, <2>1
  <2>4. Value(p, l, v) = 0
    BY <1>4, <2>1, <2>2, <2>3, MulType
  <2> QED
    BY <2>4 DEF v
<1>6. Value(p, l, r) # 0
  <2> SUFFICES ASSUME Value(p, l, r) = 0 PROVE FALSE
    OBVIOUS
  <2>1. \A j \in 0..l : Value(p, l, rho[j]) = 0
    <3> SUFFICES ASSUME NEW j \in 0..l PROVE Value(p, l, rho[j]) = 0
      OBVIOUS
    <3>1. CASE j = m
      BY <3>1 DEF r
    <3> QED
      BY <1>5, <3>1
  <2>2. Different(rho, l)
    BY DEF Splits, l
  <2>3. p[0] = 0
    <3>1. RootsTooMany(l)
      BY <1>0, RootCount
    <3>2. 0 \in 0..l
      BY <1>0
    <3> QED
      BY <1>1, <2>1, <2>2, <3>1, <3>2 DEF RootsTooMany
  <2>4. field_mul(r, 0) = 0
    BY <1>1, MulIsTimes
  <2> QED
    BY <1>0, <1>1, <2>3, <2>4
<1>7. Value(p, l, r) \in Element
  BY <1>0, <1>4
<1> QED
  BY <1>1, <1>3, <1>5, <1>6, <1>7 DEF p, r, l

\* x[m] is the inverse of the m-th root, and z[m] its powers.
Inverses(z, x, rho, t, n) ==
    \A m \in 0..(t - 1) :
        x[m] \in 1..Top /\ field_mul(rho[m], x[m]) = 1 /\ Geometric(z[m], x[m], n)

\* e is what the register makes of s, d the derivative of c, and w[m] times d is e at each root.
Weighs(w, e, d, c, s, rho, t, n) ==
    /\ Terms(w, t - 1)
    /\ \A k \in 0..n : e[k] = Feedback(c, s, k, k)
    /\ \A k \in 0..(t - 1) : d[k] = field_sum(c[k + 1], k + 1)
    /\ \A m \in 0..(t - 1) : field_mul(w[m], Value(d, t - 1, rho[m])) = Value(e, n, rho[m])

\* At its root the derivative is the quotient, and not zero.
LEMMA DerivativeIsQuotient ==
    ASSUME NEW n \in Nat, NEW t \in Nat, t > 0, t <= n, NEW c, NEW rho, Splits(c, t, rho, n),
           NEW q, Divided(q, c, t, rho, n), NEW m \in 0..(t - 1),
           NEW d, \A k \in 0..(t - 1) : d[k] = field_sum(c[k + 1], k + 1)
    PROVE  /\ Value(d, t - 1, rho[m]) = Value(q[m], t - 1, rho[m])
           /\ Value(d, t - 1, rho[m]) \in 1..Top
<1> DEFINE l == t - 1
           v == rho[m]
<1>0. /\ l \in Nat /\ l <= n /\ m \in 0..l /\ v \in 1..Top /\ l <= t /\ l \in 0..n /\ t \in 0..n
      /\ \A i \in 0..t : i \in 0..n
  BY DEF Splits, Different
<1> DEFINE p == [k \in 0..t |-> q[m][k]]
<1>1. \A k \in 0..n : q[m][k] \in Element /\ (k >= t => q[m][k] = 0)
  BY DividedHas
<1>2. \A k \in 0..l : p[k] = q[m][k]
  OBVIOUS
<1>3. Deflates(q[m], c, v, n) /\ Terms(c, t) /\ Value(c, t, v) = 0
  BY <1>0 DEF Divided, Splits, Terms
<1>4. p[t] = 0 /\ p \in [0..t -> Element] /\ \A k \in 0..t : p[k] = q[m][k]
  BY <1>1, <1>0
<1> HIDE DEF p
<1>5. Deflates(p, c, v, t)
  <2>1. field_mul(v, p[0]) = c[0]
    BY <1>3, <1>4 DEF Deflates
  <2>2. ASSUME NEW k \in Nat, k < t PROVE field_mul(v, p[k + 1]) = field_add(c[k + 1], p[k])
    <3>1. k \in 0..t /\ k + 1 \in 0..t /\ k < n
      BY <2>2
    <3> QED
      BY <3>1, <1>3, <1>4 DEF Deflates
  <2> QED
    BY <1>4, <2>1, <2>2 DEF Deflates
<1>6. Value(d, l, v) = Value(p, l, v)
  BY <1>0, <1>3, <1>4, <1>5, DerivativeAtRoot
<1>7. Value(p, l, v) = Value(q[m], l, v)
  BY <1>0, <1>2, ValueSame
<1>8. Value(q[m], l, v) \in Element \ {0}
  BY DividedHas
<1> QED
  BY <1>6, <1>7, <1>8, FieldSize

\* The weighted quotients at a root of c are worth c's derivative there, weighted.
QuotientsAt(w, q, d, t, n, v, m) ==
    SumTo([i \in 0..(t - 1) |-> field_mul(w[i], Value(q[i], n, v))], t - 1)
      = field_mul(w[m], Value(d, t - 1, v))

\* At the m-th root the quotients' combination is the derivative weighed.
LEMMA QuotientsWeighed ==
    ASSUME NEW n \in Nat, NEW t \in Nat, t > 0, t <= n, NEW c, NEW rho, Splits(c, t, rho, n),
           NEW q, Divided(q, c, t, rho, n), NEW w, Terms(w, t - 1), NEW m \in 0..(t - 1),
           NEW d, \A k \in 0..(t - 1) : d[k] = field_sum(c[k + 1], k + 1)
    PROVE  QuotientsAt(w, q, d, t, n, rho[m], m)
<1> DEFINE l == t - 1
           v == rho[m]
           f == [i \in 0..l |-> field_mul(w[i], Value(q[i], n, v))]
<1>0. /\ l \in Nat /\ l <= n /\ m \in 0..l /\ v \in 1..Top /\ l <= t /\ l \in 0..n /\ t \in 0..n
      /\ \A i \in 0..l : w[i] \in Element
      /\ \A i \in 0..t : i \in 0..n
  BY DEF Splits, Different, Terms
<1>1. ASSUME NEW i \in 0..l
      PROVE  /\ Value(q[i], n, v) = Value(q[i], l, v)
             /\ i # m => Value(q[i], l, v) = 0
             /\ Value(q[i], l, v) \in Element
  <2>1. /\ \A k \in 0..n : q[i][k] \in Element /\ (k >= t => q[i][k] = 0)
        /\ Terms(q[i], t - 1)
        /\ \A j \in 0..(t - 1) : j # i => Value(q[i], t - 1, rho[j]) = 0
    BY DividedHas
  <2>2. Terms(q[i], n) /\ \A k \in 0..n : k > l => q[i][k] = 0
    BY <2>1, <1>0 DEF Terms
  <2>3. Value(q[i], n, v) = Value(q[i], l, v)
    <3> HIDE DEF l, v
    <3> QED
      BY <1>0, <2>2, ValueTail
  <2>4. Value(q[i], l, v) \in Element
    <3>1. Terms(q[i], l)
      BY <2>1
    <3> HIDE DEF l, v
    <3> QED
      BY <1>0, <3>1, ValueTerms
  <2> QED
    BY <2>1, <2>3, <2>4
<1>2. \A i \in 0..l : f[i] \in Element /\ (i # m => f[i] = 0)
  <2> SUFFICES ASSUME NEW i \in 0..l PROVE f[i] \in Element /\ (i # m => f[i] = 0)
    OBVIOUS
  <2>1. f[i] = field_mul(w[i], Value(q[i], l, v)) /\ w[i] \in Element
    BY <1>0, <1>1
  <2> HIDE DEF f, l, v
  <2> QED
    BY <1>1, <2>1, MulType, MulIsTimes, ZeroAndOne
<1>3. SumTo(f, l) = f[m]
  <2>1. Terms(f, l)
    <3> HIDE DEF f
    <3> QED
      BY <1>2 DEF Terms
  <2> HIDE DEF f, l
  <2> QED
    BY <1>0, <1>2, <2>1, SumToOnly
<1>4. f[m] = field_mul(w[m], Value(q[m], l, v))
  BY <1>1
<1>5. Value(d, l, v) = Value(q[m], l, v)
  BY DerivativeIsQuotient
<1> QED
  BY <1>3, <1>4, <1>5 DEF QuotientsAt

\* What the register makes of the sequence is the quotients, weighed.
LEMMA EvaluatorIsWeighed ==
    ASSUME NEW n \in Nat, NEW t \in Nat, t > 0, t <= n, NEW c, NEW rho, Splits(c, t, rho, n),
           NEW q, Divided(q, c, t, rho, n),
           NEW s, Terms(s, n), \A k \in t..n : Feedback(c, s, t, k) = 0,
           NEW w, NEW e, NEW d, Weighs(w, e, d, c, s, rho, t, n)
    PROVE  /\ Family(q, t - 1, n)
           /\ \A k \in 0..n : e[k] = Combined(w, q, t - 1, k)
<1> DEFINE l == t - 1
           g == [k \in 0..n |-> Combined(w, q, l, k)]
           h == [k \in 0..n |-> field_add(e[k], g[k])]
<1>0. /\ l \in Nat /\ l <= n /\ l + 1 = t /\ l <= t /\ Terms(w, l) /\ Terms(c, n)
      /\ \A k \in 0..n : k \in Nat /\ (k > l <=> k >= t) /\ (~(k \in 0..l) => k > l)
      /\ \A k \in 0..l : k \in 0..n
      /\ \A k \in 0..n : e[k] = Feedback(c, s, k, k)
  BY DEF Splits, Weighs
<1>1. /\ Family(q, l, n)
      /\ \A i \in 0..l : \A k \in 0..n : k >= t => q[i][k] = 0
  <2>1. \A i \in 0..l : \A k \in 0..n : q[i][k] \in Element /\ (k >= t => q[i][k] = 0)
    BY DividedHas
  <2> QED
    BY <2>1 DEF Family
<1>2. /\ Terms(g, n)
      /\ \A v \in 1..Top :
           Value(g, n, v) = SumTo([i \in 0..l |-> field_mul(w[i], Value(q[i], n, v))], l)
  <2>1. ASSUME NEW v \in 1..Top PROVE CombinesAt(w, q, l, n, v)
    <3> HIDE DEF l
    <3> QED
      BY <1>0, <1>1, CombinedValue
  <2>2. CombinesAt(w, q, l, n, Top)
    BY <2>1, FieldSize
  <2>3. Terms(g, n)
    BY <2>2 DEF CombinesAt
  <2>4. ASSUME NEW v \in 1..Top
        PROVE  Value(g, n, v) = SumTo([i \in 0..l |-> field_mul(w[i], Value(q[i], n, v))], l)
    <3>1. CombinesAt(w, q, l, n, v)
      BY <2>1
    <3> QED
      BY <3>1 DEF CombinesAt
  <2> QED
    BY <2>3, <2>4
<1>3. \A k \in 0..n : e[k] \in Element /\ (k >= t => e[k] = 0)
  <2> SUFFICES ASSUME NEW k \in 0..n PROVE e[k] \in Element /\ (k >= t => e[k] = 0)
    OBVIOUS
  <2>1. Terms(c, k) /\ Terms(s, k) /\ k \in Nat /\ k <= k
    <3>1. \A j \in 0..k : j \in 0..n
      OBVIOUS
    <3> QED
      BY <1>0, <3>1 DEF Terms
  <2>2. e[k] \in Element
    BY <1>0, <2>1, FeedbackTerms
  <2>3. ASSUME k >= t PROVE e[k] = 0
    <3>1. \A j \in 0..k : j > t => c[j] = 0
      BY DEF Splits
    <3>2. Feedback(c, s, k, k) = Feedback(c, s, t, k)
      BY <2>1, <2>3, <3>1, FeedbackTail
    <3>3. k \in t..n
      BY <2>3
    <3> QED
      BY <1>0, <3>2, <3>3
  <2> QED
    BY <2>2, <2>3
<1>4. \A k \in 0..n : g[k] \in Element /\ (k >= t => g[k] = 0)
  <2> SUFFICES ASSUME NEW k \in 0..n, k >= t PROVE Combined(w, q, l, k) = 0
    <3>1. \A k \in 0..n : g[k] \in Element
      BY <1>2 DEF Terms
    <3> QED
      BY <3>1
  <2> DEFINE f == [i \in 0..l |-> field_mul(w[i], q[i][k])]
  <2>1. \A i \in 0..l : f[i] = 0
    <3> SUFFICES ASSUME NEW i \in 0..l PROVE field_mul(w[i], q[i][k]) = 0
      OBVIOUS
    <3>1. w[i] \in Element /\ q[i][k] = 0
      BY <1>0, <1>1 DEF Terms
    <3> QED
      BY <3>1, MulIsTimes, ZeroAndOne
  <2>2. Combined(w, q, l, k) = SumTo(f, l)
    BY DEF Combined
  <2> HIDE DEF f, l
  <2> QED
    BY <1>0, <2>1, <2>2, SumToZero
<1>5. ASSUME NEW m \in 0..l PROVE rho[m] \in 1..Top /\ Value(g, n, rho[m]) = Value(e, n, rho[m])
  <2> DEFINE v == rho[m]
  <2>1. v \in 1..Top
    BY DEF Splits, Different
  <2>2. /\ \A k \in 0..(t - 1) : d[k] = field_sum(c[k + 1], k + 1)
        /\ field_mul(w[m], Value(d, t - 1, v)) = Value(e, n, v)
        /\ Terms(w, t - 1)
    BY DEF Weighs
  <2>3. SumTo([i \in 0..(t - 1) |-> field_mul(w[i], Value(q[i], n, rho[m]))], t - 1)
          = field_mul(w[m], Value(d, t - 1, rho[m]))
    <3>1. m \in 0..(t - 1)
      BY <1>0
    <3>2. QuotientsAt(w, q, d, t, n, rho[m], m)
      <4> HIDE DEF g, h, l, v
      <4> QED
        BY <2>2, <3>1, QuotientsWeighed
    <3> HIDE DEF g, h, l, v
    <3> QED
      BY <3>2 DEF QuotientsAt
  <2>4. Value(g, n, v) = SumTo([i \in 0..l |-> field_mul(w[i], Value(q[i], n, v))], l)
    BY <1>2, <2>1
  <2> QED
    BY <2>1, <2>2, <2>3, <2>4
<1>6. \A k \in 0..n : h[k] = field_add(e[k], g[k]) /\ h[k] \in Element /\ (k > l => h[k] = 0)
  <2> SUFFICES ASSUME NEW k \in 0..n
               PROVE  h[k] = field_add(e[k], g[k]) /\ h[k] \in Element /\ (k > l => h[k] = 0)
    OBVIOUS
  <2>1. h[k] = field_add(e[k], g[k])
    OBVIOUS
  <2> HIDE DEF g, h
  <2> QED
    BY <1>0, <1>3, <1>4, <2>1, AddBits, AddSelf, ZeroAndOne
<1>7. \A k \in 0..n : g[k] = Combined(w, q, l, k)
  OBVIOUS
<1> HIDE DEF g, h, l
<1>8. Terms(h, n) /\ Terms(h, l) /\ Terms(e, n)
  BY <1>0, <1>3, <1>6 DEF Terms
<1>9. \A m \in 0..l : Value(h, l, rho[m]) = 0
  <2> SUFFICES ASSUME NEW m \in 0..l PROVE Value(h, l, rho[m]) = 0
    OBVIOUS
  <2> DEFINE v == rho[m]
  <2>1. v \in 1..Top /\ Value(g, n, v) = Value(e, n, v)
    BY <1>5
  <2> HIDE DEF v
  <2>2. Value(h, n, v) = field_add(Value(e, n, v), Value(g, n, v))
    BY <1>2, <1>6, <1>8, <2>1, ValueAdd
  <2>3. Value(e, n, v) \in Element
    BY <1>8, <2>1, ValueTerms
  <2>4. Value(h, n, v) = Value(h, l, v)
    BY <1>0, <1>6, <1>8, <2>1, ValueTail
  <2> QED
    BY <2>1, <2>2, <2>3, <2>4, AddSelf DEF v
<1>10. \A k \in 0..l : h[k] = 0
  <2>1. Different(rho, l)
    BY DEF Splits, l
  <2>2. RootsTooMany(l)
    BY <1>0, RootCount
  <2> QED
    BY <1>8, <1>9, <2>1, <2>2 DEF RootsTooMany
<1>11. ASSUME NEW k \in 0..n PROVE e[k] = Combined(w, q, l, k)
  <2>1. h[k] = 0
    BY <1>0, <1>6, <1>10
  <2>2. e[k] = g[k]
    BY <1>3, <1>4, <1>6, <2>1, AddIsZero
  <2> QED
    BY <1>7, <2>2
<1> QED
  BY <1>1, <1>11 DEF l

\* The register makes 0 of s from t on.
Describes(c, s, t, n) == \A k \in t..n : Feedback(c, s, t, k) = 0

\* s is the combination of the powers.
Explains(s, w, z, t, n) == \A k \in 0..n : s[k] = Combined(w, z, t - 1, k)

\* Forney's formula: the sequence is the combination of the inverses' powers.
LEMMA Forney ==
    ASSUME NEW n \in Nat, NEW t \in Nat, t > 0, t <= n, NEW c, NEW rho, Splits(c, t, rho, n),
           NEW s, Terms(s, n), Describes(c, s, t, n),
           NEW w, NEW e, NEW d, Weighs(w, e, d, c, s, rho, t, n),
           NEW z, NEW x, Inverses(z, x, rho, t, n)
    PROVE  Explains(s, w, z, t, n)
<1> DEFINE l == t - 1
           u == [k \in 0..n |-> Combined(w, z, l, k)]
<1>0. /\ l \in Nat /\ Terms(w, l) /\ Terms(c, n) /\ c[0] # 0
      /\ \A m \in 0..l : rho[m] \in 1..Top
      /\ \A k \in 0..n : e[k] = Feedback(c, s, k, k)
  BY DEF Splits, Weighs, Different
<1>1. PICK q : Divided(q, c, t, rho, n)
  BY DividedExists
<1>2. Family(q, l, n) /\ \A k \in 0..n : e[k] = Combined(w, q, l, k)
  BY <1>1, EvaluatorIsWeighed DEF Describes
<1>3. ASSUME NEW m \in 0..l
      PROVE  /\ Terms(z[m], n)
             /\ \A k \in 0..n : Feedback(c, z[m], k, k) = q[m][k]
  <2>1. Deflates(q[m], c, rho[m], n)
    BY <1>1 DEF Divided
  <2>2. x[m] \in 1..Top /\ field_mul(rho[m], x[m]) = 1 /\ Geometric(z[m], x[m], n)
    BY DEF Inverses
  <2> HIDE DEF l
  <2> QED
    BY <1>0, <2>1, <2>2, FeedbackOfPowers
<1>4. Family(z, l, n)
  BY <1>3 DEF Family, Terms
<1>5. \A k \in 0..n : u[k] = Combined(w, z, l, k)
  OBVIOUS
<1> HIDE DEF l, u
<1>6. Terms(u, n)
  <2>1. Accumulates(w, z, l, n)
    BY <1>0, <1>4, CombinedUnfolds
  <2> QED
    BY <1>5, <2>1 DEF Accumulates, Terms
<1>7. ASSUME NEW k \in 0..n PROVE Feedback(c, s, k, k) = Feedback(c, u, k, k)
  <2> DEFINE f == [i \in 0..l |-> field_mul(w[i], Feedback(c, z[i], k, k))]
             g == [i \in 0..l |-> field_mul(w[i], q[i][k])]
  <2>0. k \in 0..k /\ Terms(c, k)
    <3>1. k \in 0..k /\ \A j \in 0..k : j \in 0..n
      OBVIOUS
    <3> QED
      BY <1>0, <3>1 DEF Terms
  <2>1. f = g
    BY <1>3
  <2>2. Feedback(c, u, k, k) = SumTo(f, l)
    <3>1. FeedbackCombines(c, u, w, z, l, k, k)
      BY <1>0, <1>4, <1>5, <2>0, CombinedFeedback
    <3> QED
      BY <3>1 DEF FeedbackCombines
  <2>3. Combined(w, q, l, k) = SumTo(g, l)
    BY DEF Combined
  <2>4. Feedback(c, s, k, k) = Combined(w, q, l, k)
    BY <1>0, <1>2
  <2> HIDE DEF f, g
  <2> QED
    BY <2>1, <2>2, <2>3, <2>4
<1>8. \A k \in 0..n : s[k] = u[k]
  BY <1>0, <1>6, <1>7, FeedbackDetermines
<1> QED
  BY <1>5, <1>8 DEF Explains, l

-----------------------------------------------------------------------------
(* Powers of powers and of reciprocals. *)

\* Powers of powers multiply their exponents.
LEMMA PowOfPow ==
    ASSUME NEW v \in 1..Top, NEW a \in Nat
    PROVE  \A b \in Nat : field_pow(field_pow(v, a), b) = field_pow(v, a * b)
<1> DEFINE u == field_pow(v, a)
           Good == {b \in Nat : field_pow(u, b) = field_pow(v, a * b)}
<1>0. u \in 1..Top /\ field_pow(v, a) = u
  BY PowType
<1> HIDE DEF u
<1>1. 0 \in Good
  <2>1. a * 0 = 0
    OBVIOUS
  <2>2. field_pow(u, 0) = 1 /\ field_pow(v, 0) = 1
    BY <1>0, PowUnfolds
  <2> QED
    BY <2>1, <2>2
<1>2. ASSUME NEW b \in Nat, b \in Good PROVE b + 1 \in Good
  <2> DEFINE p == a * b
  <2>1. p \in Nat /\ a * (b + 1) = a + p
    OBVIOUS
  <2>2. field_pow(u, b) = field_pow(v, p)
    BY <1>2
  <2> HIDE DEF p
  <2>3. field_pow(u, b + 1) = field_mul(u, field_pow(u, b))
    BY <1>0, PowUnfolds
  <2>4. field_pow(v, a + p) = field_mul(field_pow(v, a), field_pow(v, p))
    BY <2>1, PowAdds
  <2> QED
    BY <1>0, <2>1, <2>2, <2>3, <2>4
<1> HIDE DEF Good
<1>3. \A b \in Nat : b \in Good
  BY <1>1, <1>2, SetInduction
<1> QED
  BY <1>3 DEF Good, u

\* Every power of alpha in the table is one.
LEMMA ExpIsPow ==
    ASSUME NEW a \in Nat
    PROVE  exp[1] \in 1..Top /\ exp[a % Top] = field_pow(exp[1], a)
<1>0. Top \in Nat /\ Top > 0 /\ Element \ {0} = 1..Top /\ 1 \in 1..Top
  BY FieldSize
<1>1. exp[1] \in 1..Top
  BY <1>0, EachElementOnce
<1>2. log[exp[1]] \in 1..Top /\ exp[log[exp[1]]] = exp[1]
  BY <1>0, <1>1, LogIsIndex
<1>3. log[exp[1]] = 1
  BY <1>0, <1>2, EachElementOnce
<1>4. 1 * a = a
  OBVIOUS
<1> QED
  BY <1>1, <1>3, <1>4 DEF field_pow

\* Powers of inverses are inverse.
LEMMA PowOfInverse ==
    ASSUME NEW r \in 1..Top, NEW x \in 1..Top, field_mul(r, x) = 1
    PROVE  \A n \in Nat : field_mul(field_pow(r, n), field_pow(x, n)) = 1
<1> DEFINE Good == {n \in Nat : field_mul(field_pow(r, n), field_pow(x, n)) = 1}
<1>0. r \in Element /\ x \in Element /\ 1 \in Element
  BY FieldSize, ZeroAndOne
<1>1. 0 \in Good
  BY <1>0, PowUnfolds, MulOne
<1>2. ASSUME NEW n \in Nat, n \in Good PROVE n + 1 \in Good
  <2> DEFINE a == field_pow(r, n)
             b == field_pow(x, n)
  <2>1. a \in Element /\ b \in Element /\ field_mul(a, b) = 1
    BY <1>2, PowUnfolds
  <2>2. field_pow(r, n + 1) = field_mul(r, a) /\ field_pow(x, n + 1) = field_mul(x, b)
    BY PowUnfolds
  <2> HIDE DEF a, b
  <2>3. field_mul(x, b) = field_mul(b, x)
    BY <1>0, <2>1, MulCommutes
  <2>4. field_mul(field_mul(r, a), field_mul(b, x)) = field_mul(field_mul(r, x), field_mul(a, b))
    BY <1>0, <2>1, MulPairs
  <2>5. field_mul(1, 1) = 1
    BY <1>0, MulOne
  <2> QED
    BY <2>1, <2>2, <2>3, <2>4, <2>5
<1> HIDE DEF Good
<1>3. \A n \in Nat : n \in Good
  BY <1>1, <1>2, SetInduction
<1> QED
  BY <1>3 DEF Good

\* The power -1 is the reciprocal.
LEMMA PowMinusOne ==
    ASSUME NEW r \in 1..Top
    PROVE  field_pow(r, -1) = field_div(1, r)
<1> DEFINE a == log[r]
           p == a * (-1)
           q == p \div Top
           m == p % Top
<1>0. Top \in Nat /\ Top > 0 /\ Element \ {0} = 1..Top /\ 1 \in 1..Top
  BY FieldSize
<1>1. a \in 1..Top /\ log[1] \in 1..Top
  BY <1>0, LogIsIndex
<1>2. log[1] = Top
  <2>1. exp[log[1]] = 1 /\ exp[Top] = 1 /\ Top \in 1..Top
    BY <1>0, LogIsIndex, PowersGoRound
  <2> QED
    BY <1>1, <2>1, EachElementOnce
<1>3. field_pow(r, -1) = exp[m] /\ field_div(1, r) = exp[Top + Top - a]
  BY <1>0, <1>2 DEF field_pow, field_div
<1> HIDE DEF a
<1>4. p \in Int /\ p = -a
  BY <1>1
<1> HIDE DEF p
<1>5. q \in Int /\ m \in 0..(Top - 1) /\ p = Top * q + m
  BY <1>0, <1>4
<1> HIDE DEF q, m
<1>6. q = -1
  <2>1. q >= 0 => Top * q >= 0
    BY <1>0, <1>5
  <2>2. q <= -2 => Top * q <= Top * (-2)
    BY <1>0, <1>5
  <2> QED
    BY <1>0, <1>1, <1>4, <1>5, <2>1, <2>2
<1>7. Top * (-1) = -Top
  BY <1>0
<1>8. m = Top - a
  BY <1>0, <1>1, <1>4, <1>5, <1>6, <1>7
<1>9. Top + Top - a = Top + m /\ m \in 0..Top
  BY <1>0, <1>1, <1>8
<1> QED
  BY <1>3, <1>9, PowersGoRound

\* The first root's power in Forney's formula takes the powers of the reciprocal back to one
\* more than the syndrome's number.
LEMMA PowersMeet ==
    ASSUME NEW r \in 1..Top, NEW f \in Nat, NEW k \in Nat
    PROVE  LET x == field_div(1, r)
           IN  /\ x \in 1..Top
               /\ field_mul(r, x) = 1
               /\ field_pow(r, f - 1) \in Element
               /\ field_mul(field_pow(r, f - 1), field_pow(x, k + f)) = field_pow(x, k + 1)
<1> DEFINE x == field_div(1, r)
<1>0. x \in 1..Top /\ r \in Element /\ 1 \in Element
  BY FieldSize, ZeroAndOne, DivisionType
<1>1. field_mul(r, x) = 1
  BY <1>0, MulDivided
<1>2. field_pow(r, -1) = x
  BY PowMinusOne
<1> HIDE DEF x
<1>3. x \in Element /\ \A n \in Nat : field_pow(x, n) \in Element
  BY <1>0, FieldSize, PowUnfolds
<1>4. CASE f = 0
  <2>1. f - 1 = -1 /\ k + f = k
    BY <1>4
  <2>2. field_pow(x, k + 1) = field_mul(x, field_pow(x, k))
    BY <1>0, PowUnfolds
  <2> QED
    BY <1>0, <1>1, <1>2, <1>3, <2>1, <2>2 DEF x
<1>5. CASE f > 0
  <2> DEFINE n == f - 1
             a == field_pow(r, n)
             b == field_pow(x, n)
             c == field_pow(x, k + 1)
  <2>1. n \in Nat /\ k + f = n + (k + 1)
    BY <1>5
  <2>2. a \in Element /\ b \in Element /\ c \in Element
    BY <1>3, <2>1, PowUnfolds
  <2>3. field_mul(a, b) = 1
    BY <1>0, <1>1, <2>1, PowOfInverse
  <2>4. field_pow(x, n + (k + 1)) = field_mul(b, c)
    BY <1>0, <2>1, PowAdds
  <2> HIDE DEF a, b, c, n
  <2>5. field_mul(a, field_mul(b, c)) = field_mul(field_mul(a, b), c)
    BY <2>2, MulAssociates
  <2>6. field_mul(1, c) = c
    BY <2>2, MulOne
  <2> QED
    BY <1>0, <1>1, <2>1, <2>2, <2>3, <2>4, <2>5, <2>6 DEF a, c, n, x
<1> QED
  BY <1>4, <1>5

-----------------------------------------------------------------------------
(* Roots found, and values put at their places. *)

\* On logarithms, 0 standing for no term, the value is the same.
LEMMA EvalLogIsValue ==
    ASSUME NEW n \in Nat, NEW v \in 1..Top, NEW p, Terms(p, n), NEW lut, LogPowers(lut, v, n)
    PROVE  polynomial_eval_log_lut([k \in 0..n |-> log[p[k]]], lut) = Value(p, n, v)
<1> DEFINE logs == [k \in 0..n |-> log[p[k]]]
           f == [k \in 0..n |-> field_mul(p[k], field_pow(v, k))]
           e == [k \in DOMAIN logs |-> IF logs[k] = 0 THEN 0
                                       ELSE field_mul_log_element(logs[k], lut[k])]
<1>0. /\ Top \in Nat /\ Top > 0 /\ Element \ {0} = 1..Top /\ 0 \in Element
      /\ DOMAIN logs = 0..n /\ Order(logs) = n
  BY FieldSize, OrderOf
<1>1. lut[0] \in 1..Top /\ lut[0] # 0
  BY <1>0 DEF LogPowers
<1>2. ASSUME NEW k \in 0..n PROVE e[k] = f[k]
  <2>1. lut[k] \in 0..Top /\ exp[lut[k]] = field_pow(v, k) /\ p[k] \in Element
    BY <1>0 DEF LogPowers, Terms
  <2>2. logs[k] = log[p[k]]
    OBVIOUS
  <2>3. CASE p[k] = 0
    <3>1. log[0] = 0
      BY <1>0 DEF log
    <3> QED
      BY <1>0, <2>2, <2>3, <3>1 DEF field_mul
  <2>4. CASE p[k] # 0
    <3>1. p[k] \in 1..Top
      BY <1>0, <2>1, <2>4
    <3>2. field_mul(p[k], exp[lut[k]]) = exp[log[p[k]] + lut[k]] /\ log[p[k]] \in 1..Top
      BY <2>1, <3>1, MulPower
    <3>3. e[k] = exp[log[p[k]] + lut[k]]
      BY <1>0, <2>2, <3>2 DEF field_mul_log_element
    <3> QED
      BY <2>1, <3>2, <3>3
  <2> QED
    BY <2>3, <2>4
<1>3. polynomial_eval_log_lut(logs, lut) = SumTo(e, n)
  BY <1>0, <1>1 DEF polynomial_eval_log_lut
<1>4. Terms(f, n)
  BY ValueTerms
<1> HIDE DEF e, f
<1>5. SumTo(e, n) = SumTo(f, n)
  BY <1>2, <1>4, SumToSame
<1> QED
  BY <1>3, <1>5 DEF Value, f

\* h is p with the values added at their places.
Filled(h, p, values, places, l, b) ==
    /\ Terms(values, l)
    /\ \A n \in 0..l : places[n] \in 0..b
    /\ \A k \in 0..b :
         h[k] = field_add(p[k], SumTo([n \in 0..l |-> IF places[n] = k THEN values[n] ELSE 0], l))

\* To its value each contributes the power of its place.
Contributions(values, places, l, v) ==
    SumTo([n \in 0..l |-> field_mul(values[n], field_pow(v, places[n]))], l)

\* Placing values in a block adds their contributions to its value.
LEMMA PlacedValue ==
    ASSUME NEW b \in Nat, NEW l \in Nat, NEW p, Terms(p, b), NEW v \in 1..Top,
           NEW h, NEW values, NEW places, Filled(h, p, values, places, l, b)
    PROVE  /\ Terms(h, b)
           /\ Value(h, b, v) = field_add(Value(p, b, v), Contributions(values, places, l, v))
<1> DEFINE one == [n \in 0..l |-> [k \in 0..b |-> IF places[n] = k THEN 1 ELSE 0]]
           e == [k \in 0..b |-> Combined(values, one, l, k)]
<1>0. /\ 0 \in Element /\ 1 \in Element
      /\ Terms(values, l) /\ \A n \in 0..l : values[n] \in Element /\ places[n] \in 0..b
      /\ \A n \in 0..l : \A k \in 0..b : one[n][k] = IF places[n] = k THEN 1 ELSE 0
  BY ZeroAndOne DEF Filled, Terms
<1>1. \A k \in 0..b : e[k] = Combined(values, one, l, k)
  OBVIOUS
<1> HIDE DEF one
<1>2. Family(one, l, b)
  BY <1>0 DEF Family
<1>3. CombinesAt(values, one, l, b, v)
  BY <1>0, <1>2, CombinedValue
<1>4. Terms(e, b) /\ Value(e, b, v) = SumTo([n \in 0..l |-> field_mul(values[n], Value(one[n], b, v))], l)
  BY <1>3 DEF CombinesAt
<1> HIDE DEF e
<1>5. ASSUME NEW n \in 0..l PROVE Value(one[n], b, v) = field_pow(v, places[n])
  <2> DEFINE f == [k \in 0..b |-> field_mul(one[n][k], field_pow(v, k))]
             m == places[n]
  <2>1. Terms(one[n], b) /\ m \in 0..b
    BY <1>0, <1>2 DEF Family, Terms
  <2>2. Terms(f, b)
    BY <2>1, ValueTerms
  <2>3. \A k \in 0..b : field_pow(v, k) \in Element /\ f[k] = field_mul(one[n][k], field_pow(v, k))
    BY PowUnfolds
  <2>4. Value(one[n], b, v) = SumTo(f, b)
    BY DEF Value
  <2> HIDE DEF f
  <2>5. f[m] = field_pow(v, m)
    <3>1. one[n][m] = 1
      BY <1>0, <2>1
    <3> QED
      BY <2>1, <2>3, <3>1, MulOne
  <2>6. \A k \in 0..b : k # m => f[k] = 0
    <3> SUFFICES ASSUME NEW k \in 0..b, k # m PROVE f[k] = 0
      OBVIOUS
    <3>1. one[n][k] = 0
      BY <1>0
    <3> QED
      BY <1>0, <2>3, <3>1, MulIsTimes
  <2> HIDE DEF m
  <2>7. SumTo(f, b) = f[m]
    BY <2>1, <2>2, <2>6, SumToOnly
  <2> QED
    BY <2>4, <2>5, <2>7 DEF m
<1>6. Value(e, b, v) = Contributions(values, places, l, v)
  <2> DEFINE f == [n \in 0..l |-> field_mul(values[n], Value(one[n], b, v))]
             g == [n \in 0..l |-> field_mul(values[n], field_pow(v, places[n]))]
  <2>1. f = g
    BY <1>5
  <2>2. Value(e, b, v) = SumTo(f, l) /\ Contributions(values, places, l, v) = SumTo(g, l)
    BY <1>4 DEF Contributions
  <2> HIDE DEF f, g
  <2> QED
    BY <2>1, <2>2
<1>7. ASSUME NEW k \in 0..b
      PROVE  e[k] = SumTo([n \in 0..l |-> IF places[n] = k THEN values[n] ELSE 0], l)
  <2> DEFINE f == [n \in 0..l |-> field_mul(values[n], one[n][k])]
             g == [n \in 0..l |-> IF places[n] = k THEN values[n] ELSE 0]
  <2>1. ASSUME NEW n \in 0..l PROVE f[n] = g[n]
    <3>1. values[n] \in Element /\ one[n][k] = IF places[n] = k THEN 1 ELSE 0
      BY <1>0
    <3> QED
      BY <1>0, <3>1, MulOne, MulIsTimes
  <2>2. f = g
    BY <2>1
  <2>3. Combined(values, one, l, k) = SumTo(f, l)
    BY DEF Combined
  <2> HIDE DEF f
  <2> QED
    BY <1>1, <2>2, <2>3
<1>8. \A k \in 0..b : h[k] = field_add(p[k], e[k])
  BY <1>7 DEF Filled
<1>9. Terms(h, b)
  BY <1>4, <1>8, AddBits DEF Terms
<1>10. Value(h, b, v) = field_add(Value(p, b, v), Value(e, b, v))
  BY <1>4, <1>8, ValueAdd
<1> QED
  BY <1>6, <1>9, <1>10

-----------------------------------------------------------------------------
(* Registers that describe sums of powers. *)

\* What a register makes of the powers of x is its polynomial's value at the inverse.
LEMMA FeedbackAtPower ==
    ASSUME NEW k \in Nat, NEW l \in 0..k, NEW c, Terms(c, l), NEW r \in 1..Top, NEW x \in 1..Top,
           field_mul(r, x) = 1, NEW z, \A j \in 0..k : z[j] = field_pow(x, j)
    PROVE  Feedback(c, z, l, k) = field_mul(field_pow(x, k), Value(c, l, r))
<1> DEFINE f == [j \in 0..l |-> field_mul(c[j], field_pow(r, j))]
           h == [j \in 0..l |-> field_mul(c[j], z[k - j])]
           y == field_pow(x, k)
<1>0. l \in Nat /\ y \in Element /\ Terms(f, l)
  <2>1. l \in Nat
    OBVIOUS
  <2>2. Terms(f, l)
    BY <2>1, ValueTerms
  <2> QED
    BY <2>1, <2>2, PowUnfolds
<1>1. ASSUME NEW j \in 0..l PROVE h[j] = field_mul(y, f[j])
  <2> DEFINE a == c[j]
             b == field_pow(r, j)
             u == field_pow(x, j)
             v == field_pow(x, k - j)
  <2>1. j \in Nat /\ k - j \in Nat /\ k - j \in 0..k /\ (k - j) + j = k
    OBVIOUS
  <2>2. a \in Element /\ b \in Element /\ u \in Element /\ v \in Element /\ 1 \in Element
    BY <2>1, PowUnfolds, ZeroAndOne DEF Terms
  <2>3. field_mul(b, u) = 1
    BY <2>1, PowOfInverse
  <2>4. y = field_mul(v, u)
    <3>1. field_pow(x, (k - j) + j) = field_mul(field_pow(x, k - j), field_pow(x, j))
      BY <2>1, PowAdds
    <3> QED
      BY <2>1, <3>1
  <2>5. h[j] = field_mul(a, v) /\ f[j] = field_mul(a, b)
    BY <2>1
  <2> HIDE DEF a, b, u, v, y, f, h
  <2>6. field_mul(field_mul(v, u), field_mul(a, b)) = field_mul(field_mul(v, b), field_mul(u, a))
    BY <2>2, MulPairs
  <2>7. field_mul(field_mul(v, b), field_mul(u, a)) = field_mul(field_mul(v, a), field_mul(b, u))
    BY <2>2, MulPairs
  <2>8. field_mul(v, a) = field_mul(a, v) /\ field_mul(v, a) \in Element
    BY <2>2, MulCommutes, MulType
  <2>9. field_mul(field_mul(v, a), 1) = field_mul(v, a)
    BY <2>8, MulOne
  <2> QED
    BY <2>3, <2>4, <2>5, <2>6, <2>7, <2>8, <2>9
<1>2. Feedback(c, z, l, k) = SumTo(h, l) /\ Value(c, l, r) = SumTo(f, l)
  BY DEF Feedback, Value
<1> HIDE DEF f, h, y
<1>3. SumTo(h, l) = field_mul(y, SumTo(f, l))
  BY <1>0, <1>1, SumToScale
<1> QED
  BY <1>2, <1>3 DEF y

\* A polynomial created from different roots, none of them 0, splits; 0 is no root of it.
LEMMA CreatedSplits ==
    ASSUME NEW t \in Nat, t > 0, NEW rho, Different(rho, t - 1)
    PROVE  Splits(polynomial_create_from_roots(rho, t), t, rho, t)
<1> DEFINE c == polynomial_create_from_roots(rho, t)
           l == t - 1
           d == [k \in 0..l |-> c[k + 1]]
<1>0. l \in Nat /\ l + 1 = t /\ t \in 0..t /\ \A k \in 0..l : rho[k] \in 1..Top /\ k + 1 \in 0..t
  BY DEF Different
<1>1. c \in [0..t -> Element] /\ c[t] = 1 /\ \A k \in 0..l : Value(c, t, rho[k]) = 0
  BY <1>0, CreatedHasRoots
<1> HIDE DEF c
<1>2. Terms(c, t) /\ \A k \in 0..t : ~(k > t)
  BY <1>1 DEF Terms
<1>3. c[0] # 0
  <2> SUFFICES ASSUME c[0] = 0 PROVE FALSE
    OBVIOUS
  <2>1. \A k \in 0..l : d[k] = c[k + 1] /\ d[k] \in Element
    BY <1>0, <1>1
  <2> HIDE DEF d
  <2>2. Terms(d, l) /\ 1 \in Element
    BY <2>1, ZeroAndOne DEF Terms
  <2>3. ASSUME NEW k \in 0..t PROVE c[k] = IF k - 1 \in 0..l THEN field_mul(1, d[k - 1]) ELSE 0
    <3>1. CASE k = 0
      BY <3>1
    <3>2. CASE k # 0
      <4>1. k - 1 \in 0..l /\ (k - 1) + 1 = k
        BY <1>0, <3>2
      <4>2. d[k - 1] = c[k] /\ d[k - 1] \in Element
        BY <2>1, <4>1
      <4> QED
        BY <4>1, <4>2, MulOne
    <3> QED
      BY <3>1, <3>2
  <2>4. ASSUME NEW k \in 0..l PROVE Value(d, l, rho[k]) = 0
    <3> DEFINE v == rho[k]
               y == field_pow(v, 1)
               z == Value(d, l, v)
    <3>1. v \in 1..Top /\ Value(c, t, v) = 0
      BY <1>0, <1>1
    <3> HIDE DEF v
    <3>2. Value(c, t, v) = field_mul(field_mul(1, y), z)
      <4>1. l + 1 <= t /\ 1 \in Nat
        BY <1>0
      <4> HIDE DEF l
      <4> QED
        BY <1>0, <2>2, <2>3, <3>1, <4>1, ValueMoved
    <3>3. z \in Element /\ y \in 1..Top
      BY <1>0, <2>2, <3>1, ValueTerms, PowType
    <3> HIDE DEF y, z
    <3>4. y \in Element /\ y # 0 /\ field_mul(1, y) = y
      BY <3>3, FieldSize, MulOne
    <3>5. z = 0
      BY <3>1, <3>2, <3>3, <3>4, MulType
    <3> QED
      BY <3>5 DEF z, v
  <2>5. RootsTooMany(l) /\ Different(rho, l)
    BY <1>0, RootCount
  <2>6. l \in 0..l
    BY <1>0
  <2>7. d[l] = 0
    BY <2>2, <2>4, <2>5, <2>6 DEF RootsTooMany
  <2> QED
    BY <1>0, <1>1, <2>1, <2>6, <2>7
<1> QED
  BY <1>0, <1>1, <1>2, <1>3 DEF Splits, c, l

\* The powers of x[0], ..., x[n], weighed.
PowerSum(w, x, n, k) == SumTo([j \in 0..n |-> field_mul(w[j], field_pow(x[j], k))], n)

\* Of n + 1 different elements the sums of n + 1 powers are 0 only without weight.
LEMMA Independent ==
    ASSUME NEW n \in Nat, NEW x, Different(x, n), NEW w, Terms(w, n),
           \A k \in 0..n : PowerSum(w, x, n, k) = 0
    PROVE  \A j \in 0..n : w[j] = 0
<1> DEFINE t == n + 1
           f == [j \in 0..n |-> [k \in 0..n |-> field_pow(x[j], k)]]
<1>0. /\ t \in Nat /\ t > 0 /\ t <= t /\ t - 1 = n
      /\ \A j \in 0..n : x[j] \in 1..Top
  BY DEF Different
<1>1. PICK c : Splits(c, t, x, t)
  BY <1>0, CreatedSplits
<1>2. PICK q : Divided(q, c, t, x, t)
  BY <1>0, <1>1, DividedExists
<1>3. \A j \in 0..n : \A k \in 0..n : f[j][k] = field_pow(x[j], k)
  OBVIOUS
<1>4. \A k \in 0..n : Combined(w, f, n, k) = 0
  <2> SUFFICES ASSUME NEW k \in 0..n PROVE Combined(w, f, n, k) = 0
    OBVIOUS
  <2> DEFINE a == [j \in 0..n |-> field_mul(w[j], f[j][k])]
             b == [j \in 0..n |-> field_mul(w[j], field_pow(x[j], k))]
  <2>1. a = b
    BY <1>3
  <2>2. Combined(w, f, n, k) = SumTo(a, n) /\ PowerSum(w, x, n, k) = SumTo(b, n)
    BY DEF Combined, PowerSum
  <2> HIDE DEF a, b
  <2> QED
    BY <2>1, <2>2
<1> HIDE DEF f, t
<1>5. Family(f, n, n)
  <2>1. \A j \in 0..n : \A k \in 0..n : field_pow(x[j], k) \in Element
    BY <1>0, PowUnfolds
  <2> QED
    BY <1>3, <2>1 DEF Family
<1> SUFFICES ASSUME NEW j \in 0..n PROVE w[j] = 0
  OBVIOUS
<1> DEFINE a == q[j]
           u == [k \in 0..n |-> field_mul(a[k], Combined(w, f, n, k))]
           h == [i \in 0..n |-> field_mul(w[i], Part(a, f, n, i))]
<1>6. /\ Terms(a, n)
      /\ \A i \in 0..n : i # j => Value(a, n, x[i]) = 0
      /\ Value(a, n, x[j]) \in Element \ {0}
  <2>1. j \in 0..(t - 1)
    BY <1>0
  <2>2. /\ Terms(q[j], t - 1)
        /\ \A i \in 0..(t - 1) : i # j => Value(q[j], t - 1, x[i]) = 0
        /\ Value(q[j], t - 1, x[j]) \in Element \ {0}
    BY <1>0, <1>1, <1>2, <2>1, DividedHas
  <2> QED
    BY <1>0, <2>2
<1>7. ASSUME NEW i \in 0..n PROVE Part(a, f, n, i) = Value(a, n, x[i])
  <2> DEFINE b == [k \in 0..n |-> field_mul(a[k], f[i][k])]
             d == [k \in 0..n |-> field_mul(a[k], field_pow(x[i], k))]
  <2>1. b = d
    BY <1>3
  <2>2. Part(a, f, n, i) = SumTo(b, n) /\ Value(a, n, x[i]) = SumTo(d, n)
    BY DEF Part, Value
  <2> HIDE DEF b, d, a
  <2> QED
    BY <2>1, <2>2
<1>8. SumTo(u, n) = SumTo(h, n) /\ \A i \in 0..n : Part(a, f, n, i) \in Element
  <2>1. Exchanges(w, f, a, n, n)
    BY <1>5, <1>6, SumToCombined
  <2> QED
    BY <2>1 DEF Exchanges
<1>9. \A k \in 0..n : u[k] = 0
  <2> SUFFICES ASSUME NEW k \in 0..n PROVE u[k] = 0
    OBVIOUS
  <2>1. u[k] = field_mul(a[k], 0) /\ a[k] \in Element
    BY <1>4, <1>6 DEF Terms
  <2> QED
    BY <2>1, MulIsTimes, ZeroAndOne
<1>10. \A i \in 0..n : h[i] = field_mul(w[i], Value(a, n, x[i]))
  BY <1>7
<1>11. \A i \in 0..n : w[i] \in Element /\ Value(a, n, x[i]) \in Element
  BY <1>7, <1>8 DEF Terms
<1> HIDE DEF a, h, u
<1>12. \A i \in 0..n : h[i] \in Element /\ (i # j => h[i] = 0)
  <2> SUFFICES ASSUME NEW i \in 0..n PROVE h[i] \in Element /\ (i # j => h[i] = 0)
    OBVIOUS
  <2> DEFINE v == Value(a, n, x[i])
  <2>1. h[i] = field_mul(w[i], v) /\ w[i] \in Element /\ v \in Element /\ (i # j => v = 0)
    BY <1>6, <1>10, <1>11
  <2> HIDE DEF v
  <2> QED
    BY <2>1, MulType, MulIsTimes
<1>13. SumTo(u, n) = 0
  BY <1>9, SumToZero
<1>14. SumTo(h, n) = h[j]
  <2>1. Terms(h, n)
    BY <1>12 DEF Terms
  <2> QED
    BY <1>12, <2>1, SumToOnly
<1>15. field_mul(w[j], Value(a, n, x[j])) = 0
  BY <1>8, <1>10, <1>13, <1>14
<1> QED
  BY <1>6, <1>11, <1>15, MulType

\* A register that fails at i, and one that does not, have together more than i taps.
LEMMA LengthBound ==
    ASSUME NEW i \in Nat, NEW l \in Nat, NEW e \in Nat, l + e <= i,
           NEW c, Terms(c, l), NEW b, Terms(b, e), b[0] # 0, NEW s, Terms(s, i),
           \A k \in l..(i - 1) : Feedback(c, s, l, k) = 0,
           \A k \in e..i : Feedback(b, s, e, k) = 0
    PROVE  Feedback(c, s, l, i) = 0
<1> DEFINE f == [m \in 0..e |-> [j \in 0..l |-> s[(i - m) - j]]]
           u == [j \in 0..l |-> field_mul(c[j], Combined(b, f, e, j))]
           h == [m \in 0..e |-> field_mul(b[m], Part(c, f, l, m))]
<1>0. /\ 0 \in 0..e /\ i - 0 = i
      /\ \A m \in 0..e : i - m \in 0..i /\ (m # 0 => i - m \in l..(i - 1))
      /\ \A j \in 0..l : i - j \in e..i
      /\ \A m \in 0..e : \A j \in 0..l : (i - m) - j \in 0..i /\ (i - m) - j = (i - j) - m
  OBVIOUS
<1>1. Family(f, e, l)
  BY <1>0 DEF Family, Terms
<1>2. SumTo(u, l) = SumTo(h, e) /\ \A m \in 0..e : Part(c, f, l, m) \in Element
  <2> HIDE DEF f
  <2>1. Exchanges(b, f, c, e, l)
    BY <1>1, SumToCombined
  <2> QED
    BY <2>1 DEF Exchanges
<1>3. ASSUME NEW m \in 0..e PROVE Part(c, f, l, m) = Feedback(c, s, l, i - m)
  <2> DEFINE x == [j \in 0..l |-> field_mul(c[j], f[m][j])]
             y == [j \in 0..l |-> field_mul(c[j], s[(i - m) - j])]
  <2>1. x = y
    OBVIOUS
  <2>2. Part(c, f, l, m) = SumTo(x, l) /\ Feedback(c, s, l, i - m) = SumTo(y, l)
    BY DEF Part, Feedback
  <2> HIDE DEF x, y, f
  <2> QED
    BY <2>1, <2>2
<1>4. ASSUME NEW j \in 0..l PROVE Combined(b, f, e, j) = 0
  <2> DEFINE x == [m \in 0..e |-> field_mul(b[m], f[m][j])]
             y == [m \in 0..e |-> field_mul(b[m], s[(i - j) - m])]
  <2>1. x = y
    BY <1>0
  <2>2. Combined(b, f, e, j) = SumTo(x, e) /\ Feedback(b, s, e, i - j) = SumTo(y, e)
    BY DEF Combined, Feedback
  <2> HIDE DEF x, y, f
  <2> QED
    BY <1>0, <2>1, <2>2
<1>5. \A j \in 0..l : u[j] = 0
  <2> SUFFICES ASSUME NEW j \in 0..l PROVE u[j] = 0
    OBVIOUS
  <2>1. u[j] = field_mul(c[j], 0) /\ c[j] \in Element
    BY <1>4 DEF Terms
  <2> HIDE DEF u
  <2> QED
    BY <2>1, MulIsTimes, ZeroAndOne
<1>6. \A m \in 0..e : h[m] = field_mul(b[m], Feedback(c, s, l, i - m)) /\ b[m] \in Element
  BY <1>3 DEF Terms
<1>7. \A m \in 0..e : Feedback(c, s, l, i - m) \in Element
  BY <1>2, <1>3
<1> HIDE DEF h, u, f
<1>8. \A m \in 0..e : h[m] \in Element /\ (m # 0 => h[m] = 0)
  <2> SUFFICES ASSUME NEW m \in 0..e PROVE h[m] \in Element /\ (m # 0 => h[m] = 0)
    OBVIOUS
  <2> DEFINE v == Feedback(c, s, l, i - m)
  <2>1. h[m] = field_mul(b[m], v) /\ b[m] \in Element /\ v \in Element /\ (m # 0 => v = 0)
    BY <1>0, <1>6, <1>7
  <2> HIDE DEF v
  <2> QED
    BY <2>1, MulType, MulIsTimes
<1>9. SumTo(u, l) = 0
  BY <1>5, SumToZero
<1>10. SumTo(h, e) = h[0]
  <2>1. Terms(h, e)
    BY <1>8 DEF Terms
  <2> QED
    BY <1>0, <1>8, <2>1, SumToOnly
<1>11. field_mul(b[0], Feedback(c, s, l, i)) = 0
  BY <1>0, <1>2, <1>6, <1>9, <1>10
<1> QED
  BY <1>0, <1>6, <1>7, <1>11, MulType

\* s[0], ..., s[n] are such sums.
Spanned(s, w, x, m, n) == \A k \in 0..n : s[k] = PowerSum(w, x, m, k)

\* rho[i] is the inverse of x[i].
Reciprocal(rho, x, m) ==
    \A i \in 0..m : rho[i] \in 1..Top /\ x[i] \in 1..Top /\ field_mul(rho[i], x[i]) = 1

\* What a register of l taps makes of them: every weight is multiplied by the polynomial's value.
FeedbackWeighs(c, s, l, k, w, x, rho, m) ==
    Feedback(c, s, l, k) =
        SumTo([i \in 0..m |-> field_mul(w[i], field_mul(field_pow(x[i], k), Value(c, l, rho[i])))], m)

\* A register makes such a sum of them.
LEMMA FeedbackOfSum ==
    ASSUME NEW m \in Nat, NEW n \in Nat, NEW w, Terms(w, m), NEW rho, NEW x, Reciprocal(rho, x, m),
           NEW s, Spanned(s, w, x, m, n), NEW k \in 0..n, NEW l \in 0..k, NEW c, Terms(c, l)
    PROVE  FeedbackWeighs(c, s, l, k, w, x, rho, m)
<1> DEFINE z == [i \in 0..m |-> [j \in 0..n |-> field_pow(x[i], j)]]
           f == [i \in 0..m |-> field_mul(w[i], Feedback(c, z[i], l, k))]
           g == [i \in 0..m |-> field_mul(w[i], field_mul(field_pow(x[i], k), Value(c, l, rho[i])))]
<1>0. \A i \in 0..m : rho[i] \in 1..Top /\ x[i] \in 1..Top /\ field_mul(rho[i], x[i]) = 1
  BY DEF Reciprocal
<1>1. \A i \in 0..m : \A j \in 0..n : z[i][j] = field_pow(x[i], j)
  OBVIOUS
<1>2. \A j \in 0..n : s[j] = Combined(w, z, m, j)
  <2> SUFFICES ASSUME NEW j \in 0..n PROVE s[j] = Combined(w, z, m, j)
    OBVIOUS
  <2> DEFINE a == [i \in 0..m |-> field_mul(w[i], z[i][j])]
             b == [i \in 0..m |-> field_mul(w[i], field_pow(x[i], j))]
  <2>1. a = b
    BY <1>1
  <2>2. Combined(w, z, m, j) = SumTo(a, m) /\ s[j] = SumTo(b, m)
    BY DEF Combined, Spanned, PowerSum
  <2> HIDE DEF a, b
  <2> QED
    BY <2>1, <2>2
<1> HIDE DEF z
<1>3. Family(z, m, n)
  <2>1. \A i \in 0..m : \A j \in 0..n : field_pow(x[i], j) \in Element
    BY <1>0, PowUnfolds
  <2> QED
    BY <1>1, <2>1 DEF Family
<1>4. Feedback(c, s, l, k) = SumTo(f, m)
  <2>1. FeedbackCombines(c, s, w, z, m, l, k)
    BY <1>2, <1>3, CombinedFeedback
  <2> QED
    BY <2>1 DEF FeedbackCombines
<1>5. ASSUME NEW i \in 0..m
      PROVE  Feedback(c, z[i], l, k) = field_mul(field_pow(x[i], k), Value(c, l, rho[i]))
  <2> DEFINE u == z[i]
             v == x[i]
             r == rho[i]
  <2>1. /\ k \in Nat /\ v \in 1..Top /\ r \in 1..Top /\ field_mul(r, v) = 1
        /\ \A j \in 0..k : u[j] = field_pow(v, j)
    BY <1>0, <1>1
  <2> HIDE DEF u, v, r
  <2>2. Feedback(c, u, l, k) = field_mul(field_pow(v, k), Value(c, l, r))
    BY <2>1, FeedbackAtPower
  <2> QED
    BY <2>2 DEF u, v, r
<1>6. f = g
  BY <1>5
<1> HIDE DEF f
<1> QED
  BY <1>4, <1>6 DEF FeedbackWeighs

\* Its types.
LEMMA WeighedTypes ==
    ASSUME NEW m \in Nat, NEW rho, NEW x, Reciprocal(rho, x, m), NEW k \in Nat, NEW l \in Nat,
           NEW c, Terms(c, l), NEW i \in 0..m
    PROVE  /\ rho[i] \in 1..Top /\ x[i] \in 1..Top
           /\ field_pow(x[i], k) \in Element /\ field_pow(x[i], k) # 0
           /\ Value(c, l, rho[i]) \in Element
<1>1. rho[i] \in 1..Top /\ x[i] \in 1..Top
  BY DEF Reciprocal
<1>2. field_pow(x[i], k) \in 1..Top
  BY <1>1, PowType
<1>3. Value(c, l, rho[i]) \in Element
  BY <1>1, ValueTerms
<1> QED
  BY <1>1, <1>2, <1>3, FieldSize

\* A polynomial with the inverses as roots describes the sums.
LEMMA RootsDescribe ==
    ASSUME NEW m \in Nat, NEW n \in Nat, NEW w, Terms(w, m), NEW rho, NEW x, Reciprocal(rho, x, m),
           NEW s, Spanned(s, w, x, m, n), NEW l \in Nat, NEW c, Terms(c, l),
           \A i \in 0..m : Value(c, l, rho[i]) = 0
    PROVE  Describes(c, s, l, n)
<1> SUFFICES ASSUME NEW k \in l..n PROVE Feedback(c, s, l, k) = 0
  BY DEF Describes
<1> DEFINE g == [i \in 0..m |-> field_mul(w[i], field_mul(field_pow(x[i], k), Value(c, l, rho[i])))]
<1>1. k \in 0..n /\ l \in 0..k /\ k \in Nat
  OBVIOUS
<1>2. FeedbackWeighs(c, s, l, k, w, x, rho, m)
  BY <1>1, FeedbackOfSum
<1>3. ASSUME NEW i \in 0..m PROVE g[i] = 0
  <2> DEFINE y == field_pow(x[i], k)
  <2>1. y \in Element /\ w[i] \in Element
    BY <1>1, WeighedTypes DEF Terms
  <2>2. g[i] = field_mul(w[i], field_mul(y, 0))
    OBVIOUS
  <2> HIDE DEF y, g
  <2> QED
    BY <2>1, <2>2, MulIsTimes, ZeroAndOne
<1>4. Feedback(c, s, l, k) = SumTo(g, m)
  BY <1>2 DEF FeedbackWeighs
<1> HIDE DEF g
<1> QED
  BY <1>3, <1>4, SumToZero

\* A weight with a power in it moves the powers on.
LEMMA WeighedPower ==
    ASSUME NEW x \in 1..Top, NEW a \in Element, NEW v \in Element, NEW f \in Nat, NEW k \in Nat
    PROVE  field_mul(field_mul(a, field_mul(field_pow(x, f), v)), field_pow(x, k))
             = field_mul(a, field_mul(field_pow(x, f + k), v))
<1> DEFINE y == field_pow(x, f)
           z == field_pow(x, k)
<1>1. y \in Element /\ z \in Element
  BY PowUnfolds
<1>2. field_pow(x, f + k) = field_mul(y, z)
  BY PowAdds
<1> HIDE DEF y, z
<1>3. field_mul(y, v) \in Element
  BY <1>1, MulType
<1>4. field_mul(field_mul(a, field_mul(y, v)), z) = field_mul(a, field_mul(field_mul(y, v), z))
  BY <1>1, <1>3, MulAssociates
<1>5. field_mul(field_mul(y, v), z) = field_mul(field_mul(y, z), v)
  <2>1. field_mul(field_mul(y, v), z) = field_mul(y, field_mul(v, z))
    BY <1>1, MulAssociates
  <2>2. field_mul(field_mul(y, z), v) = field_mul(y, field_mul(z, v))
    BY <1>1, MulAssociates
  <2>3. field_mul(v, z) = field_mul(z, v)
    BY <1>1, MulCommutes
  <2> QED
    BY <2>1, <2>2, <2>3
<1> QED
  BY <1>2, <1>4, <1>5 DEF y, z

\* The weights that are left when a register of l taps has been applied.
Filtered(w, x, rho, c, l, m) ==
    [i \in 0..m |-> field_mul(w[i], field_mul(field_pow(x[i], l), Value(c, l, rho[i])))]

\* What the register makes of the sums are sums of the same powers, without those whose
\* inverses are its roots.
LEMMA FilteredSpan ==
    ASSUME NEW m \in Nat, NEW n \in Nat, NEW w, Terms(w, m), NEW rho, NEW x, Reciprocal(rho, x, m),
           NEW s, Spanned(s, w, x, m, n), NEW l \in Nat, NEW c, Terms(c, l),
           NEW r, \A k \in 0..(n - l) : r[k] = Feedback(c, s, l, k + l)
    PROVE  /\ Terms(Filtered(w, x, rho, c, l, m), m)
           /\ \A i \in 0..m : Filtered(w, x, rho, c, l, m)[i] = 0
                                <=> w[i] = 0 \/ Value(c, l, rho[i]) = 0
           /\ Spanned(r, Filtered(w, x, rho, c, l, m), x, m, n - l)
<1> DEFINE u == Filtered(w, x, rho, c, l, m)
<1>0. \A i \in 0..m : u[i] = field_mul(w[i], field_mul(field_pow(x[i], l), Value(c, l, rho[i])))
  BY DEF Filtered
<1> HIDE DEF u
<1>1. ASSUME NEW i \in 0..m
      PROVE  /\ u[i] \in Element
             /\ u[i] = 0 <=> w[i] = 0 \/ Value(c, l, rho[i]) = 0
  <2> DEFINE y == field_pow(x[i], l)
             v == Value(c, l, rho[i])
  <2>1. y \in Element /\ y # 0 /\ v \in Element /\ w[i] \in Element
    BY WeighedTypes DEF Terms
  <2>2. u[i] = field_mul(w[i], field_mul(y, v))
    BY <1>0
  <2> HIDE DEF y, v
  <2> DEFINE g == w[i]
             p == field_mul(y, v)
  <2>3. p \in Element /\ (p = 0 => v = 0)
    BY <2>1, MulType
  <2>4. v = 0 => p = 0
    BY <2>1, MulIsTimes
  <2>5. u[i] = field_mul(g, p) /\ g \in Element
    BY <2>1, <2>2
  <2> HIDE DEF g, p
  <2>6. u[i] \in Element /\ (u[i] = 0 => g = 0 \/ p = 0)
    BY <2>3, <2>5, MulType
  <2>7. g = 0 \/ p = 0 => u[i] = 0
    BY <2>3, <2>5, MulIsTimes
  <2> QED
    BY <2>3, <2>4, <2>6, <2>7 DEF v, g
<1>2. ASSUME NEW k \in 0..(n - l) PROVE r[k] = PowerSum(u, x, m, k)
  <2> DEFINE a == [i \in 0..m |-> field_mul(u[i], field_pow(x[i], k))]
             b == [i \in 0..m |-> field_mul(w[i], field_mul(field_pow(x[i], l + k), Value(c, l, rho[i])))]
  <2>1. l + k \in 0..n /\ l \in 0..(l + k) /\ k \in Nat /\ l + k = k + l
    OBVIOUS
  <2>2. FeedbackWeighs(c, s, l, l + k, w, x, rho, m)
    BY <2>1, FeedbackOfSum
  <2>3. r[k] = SumTo(b, m)
    BY <2>1, <2>2 DEF FeedbackWeighs
  <2>4. ASSUME NEW i \in 0..m PROVE a[i] = b[i]
    <3> DEFINE v == Value(c, l, rho[i])
    <3>1. v \in Element /\ w[i] \in Element /\ x[i] \in 1..Top
      BY WeighedTypes DEF Terms
    <3>2. /\ a[i] = field_mul(field_mul(w[i], field_mul(field_pow(x[i], l), v)), field_pow(x[i], k))
          /\ b[i] = field_mul(w[i], field_mul(field_pow(x[i], l + k), v))
      BY <1>0
    <3> DEFINE y == x[i]
               g == w[i]
    <3>3. y \in 1..Top /\ g \in Element
      BY <3>1
    <3>4. field_mul(field_mul(g, field_mul(field_pow(y, l), v)), field_pow(y, k))
            = field_mul(g, field_mul(field_pow(y, l + k), v))
      <4> HIDE DEF v, y, g
      <4> QED
        BY <2>1, <3>1, <3>3, WeighedPower
    <3> HIDE DEF v, a, b
    <3> QED
      BY <3>2, <3>4
  <2>5. a = b
    BY <2>4
  <2>6. PowerSum(u, x, m, k) = SumTo(a, m)
    BY DEF PowerSum
  <2> HIDE DEF a, b
  <2> QED
    BY <2>3, <2>5, <2>6
<1>3. Terms(u, m) /\ Spanned(r, u, x, m, n - l)
  BY <1>1, <1>2 DEF Terms, Spanned
<1> QED
  BY <1>1, <1>3 DEF u

\* A register of no more taps than there are powers that describes twice as many sums has the
\* inverses as roots.
LEMMA DescribesRoots ==
    ASSUME NEW m \in Nat, NEW n \in Nat, NEW w, Terms(w, m), \A i \in 0..m : w[i] # 0,
           NEW rho, NEW x, Reciprocal(rho, x, m), Different(x, m), NEW s, Spanned(s, w, x, m, n),
           NEW l \in Nat, NEW c, Terms(c, l), l + m <= n, Describes(c, s, l, n)
    PROVE  \A i \in 0..m : Value(c, l, rho[i]) = 0
<1> DEFINE u == Filtered(w, x, rho, c, l, m)
           r == [k \in 0..(n - l) |-> Feedback(c, s, l, k + l)]
<1>1. \A k \in 0..(n - l) : r[k] = Feedback(c, s, l, k + l) /\ k + l \in l..n
  OBVIOUS
<1>2. \A k \in 0..(n - l) : r[k] = 0
  BY <1>1 DEF Describes
<1> HIDE DEF r, u
<1>3. /\ Terms(u, m)
      /\ \A i \in 0..m : u[i] = 0 <=> w[i] = 0 \/ Value(c, l, rho[i]) = 0
      /\ Spanned(r, u, x, m, n - l)
  BY <1>1, FilteredSpan DEF u
<1>4. \A k \in 0..m : PowerSum(u, x, m, k) = 0
  <2> SUFFICES ASSUME NEW k \in 0..m PROVE PowerSum(u, x, m, k) = 0
    OBVIOUS
  <2>1. k \in 0..(n - l)
    OBVIOUS
  <2> QED
    BY <1>2, <1>3, <2>1 DEF Spanned
<1>5. \A i \in 0..m : u[i] = 0
  BY <1>3, <1>4, Independent
<1> QED
  BY <1>3, <1>5

\* Powers without weight may be left out.
LEMMA SpanShortened ==
    ASSUME NEW m \in Nat, NEW n \in Int, NEW w, Terms(w, m), NEW x, Different(x, m),
           NEW s, Spanned(s, w, x, m, n), NEW e \in 0..m,
           \A i \in 0..m : i > e => w[i] = 0
    PROVE  Terms(w, e) /\ Spanned(s, w, x, e, n)
<1>1. \A i \in 0..m : w[i] \in Element /\ x[i] \in 1..Top
  BY DEF Terms, Different
<1>2. ASSUME NEW k \in 0..n PROVE PowerSum(w, x, m, k) = PowerSum(w, x, e, k)
  <2> DEFINE a == [i \in 0..m |-> field_mul(w[i], field_pow(x[i], k))]
             b == [i \in 0..e |-> field_mul(w[i], field_pow(x[i], k))]
  <2>1. PowerSum(w, x, m, k) = SumTo(a, m) /\ PowerSum(w, x, e, k) = SumTo(b, e)
    BY DEF PowerSum
  <2>2. ASSUME NEW i \in 0..m
        PROVE  a[i] \in Element /\ (i > e => a[i] = 0)
    <3> DEFINE y == field_pow(x[i], k)
    <3>1. y \in Element /\ w[i] \in Element
      BY <1>1, PowUnfolds
    <3>2. a[i] = field_mul(w[i], y)
      OBVIOUS
    <3> HIDE DEF y, a
    <3> QED
      BY <3>1, <3>2, MulType, MulIsTimes
  <2>3. \A i \in 0..e : b[i] = a[i] /\ i \in 0..m
    OBVIOUS
  <2> HIDE DEF a, b
  <2>4. Terms(a, m) /\ Terms(a, e)
    BY <2>2, <2>3 DEF Terms
  <2>5. SumTo(a, m) = SumTo(a, e)
    BY <2>2, <2>4, SumToTail
  <2>6. SumTo(b, e) = SumTo(a, e)
    BY <2>3, <2>4, SumToSame
  <2> QED
    BY <2>1, <2>5, <2>6
<1>3. Terms(w, e)
  BY <1>1 DEF Terms
<1> QED
  BY <1>2, <1>3 DEF Spanned

\* Sums without weights are 0.
LEMMA SpanOfNothing ==
    ASSUME NEW m \in Nat, NEW n \in Int, NEW w, NEW x, Different(x, m),
           NEW s, Spanned(s, w, x, m, n), \A i \in 0..m : w[i] = 0
    PROVE  \A k \in 0..n : s[k] = 0
<1> SUFFICES ASSUME NEW k \in 0..n PROVE s[k] = 0
  OBVIOUS
<1> DEFINE a == [i \in 0..m |-> field_mul(w[i], field_pow(x[i], k))]
<1>1. s[k] = SumTo(a, m)
  BY DEF Spanned, PowerSum
<1>2. ASSUME NEW i \in 0..m PROVE a[i] = 0
  <2> DEFINE y == field_pow(x[i], k)
  <2>1. y \in Element
    BY PowUnfolds DEF Different
  <2>2. a[i] = field_mul(0, y)
    OBVIOUS
  <2> HIDE DEF y, a
  <2> QED
    BY <2>1, <2>2, MulIsTimes, ZeroAndOne
<1> HIDE DEF a
<1> QED
  BY <1>1, <1>2, SumToZero

-----------------------------------------------------------------------------
(* Roots, products and places. *)

\* A polynomial with a constant term has no more roots than its order.
LEMMA RootsBound ==
    ASSUME NEW n \in Nat, NEW p, Terms(p, n), p[0] # 0, NEW m \in Nat, NEW rho, Different(rho, m),
           \A k \in 0..m : Value(p, n, rho[k]) = 0
    PROVE  m < n
<1> SUFFICES ASSUME n <= m PROVE FALSE
  OBVIOUS
<1> DEFINE r == [k \in 0..n |-> rho[k]]
<1>0. \A k \in 0..n : k \in 0..m /\ r[k] = rho[k]
  OBVIOUS
<1>1. /\ \A k \in 0..m : rho[k] \in 1..Top
      /\ \A k \in 0..m : \A j \in 0..m : rho[k] = rho[j] => k = j
  BY DEF Different
<1>2. \A k \in 0..n : r[k] \in 1..Top /\ Value(p, n, r[k]) = 0
  BY <1>0, <1>1
<1>3. \A k \in 0..n : \A j \in 0..n : r[k] = r[j] => k = j
  BY <1>0, <1>1
<1>4. r \in [0..n -> 1..Top]
  BY <1>2
<1> HIDE DEF r
<1>5. Different(r, n)
  BY <1>3, <1>4 DEF Different
<1>6. RootsTooMany(n)
  BY RootCount
<1>7. p[0] = 0
  <2>1. 0 \in 0..n
    OBVIOUS
  <2> QED
    BY <1>2, <1>5, <1>6, <2>1 DEF RootsTooMany
<1> QED
  BY <1>7

\* One more root, other than those there are.
LEMMA OneRootMore ==
    ASSUME NEW n \in Nat, NEW p, Terms(p, n), p[0] # 0, NEW rho, Different(rho, n - 1),
           \A k \in 0..(n - 1) : Value(p, n, rho[k]) = 0,
           NEW e \in 1..Top, Value(p, n, e) = 0
    PROVE  \E k \in 0..(n - 1) : rho[k] = e
<1> SUFFICES ASSUME \A k \in 0..(n - 1) : rho[k] # e PROVE FALSE
  OBVIOUS
<1> DEFINE r == [k \in 0..n |-> IF k = n THEN e ELSE rho[k]]
<1>0. \A k \in 0..n : (k # n => k \in 0..(n - 1)) /\ r[k] = (IF k = n THEN e ELSE rho[k])
  OBVIOUS
<1>1. /\ \A k \in 0..(n - 1) : rho[k] \in 1..Top
      /\ \A k \in 0..(n - 1) : \A j \in 0..(n - 1) : rho[k] = rho[j] => k = j
  BY DEF Different
<1>2. \A k \in 0..n : r[k] \in 1..Top /\ Value(p, n, r[k]) = 0
  BY <1>0, <1>1
<1>3. \A k \in 0..n : \A j \in 0..n : r[k] = r[j] => k = j
  BY <1>0, <1>1
<1>4. r \in [0..n -> 1..Top]
  BY <1>2
<1> HIDE DEF r
<1>5. Different(r, n)
  BY <1>3, <1>4 DEF Different
<1>6. n < n
  BY <1>2, <1>5, RootsBound
<1> QED
  BY <1>6

\* Inverses of different elements are different.
LEMMA InversesDifferent ==
    ASSUME NEW m, NEW x, Different(x, m), NEW rho, DOMAIN rho = 0..m, rho = [k \in 0..m |-> rho[k]],
           Reciprocal(rho, x, m)
    PROVE  Different(rho, m)
<1>1. \A k \in 0..m : rho[k] \in 1..Top /\ x[k] \in 1..Top /\ field_mul(rho[k], x[k]) = 1
  BY DEF Reciprocal
<1>2. rho \in [0..m -> 1..Top]
  BY <1>1
<1>3. ASSUME NEW k \in 0..m, NEW j \in 0..m, rho[k] = rho[j] PROVE k = j
  <2>1. x[k] \in Element /\ x[j] \in Element
    BY <1>1, FieldSize
  <2>2. x[k] = x[j]
    BY <1>1, <1>3, <2>1, MulCancels
  <2> QED
    BY <2>2 DEF Different
<1> QED
  BY <1>2, <1>3 DEF Different

\* What polynomial_mul computes has as its value the product of the values.
IsProduct(h, p, n, q, m) ==
    \A k \in 0..(n + m) :
        h[k] = SumTo([j \in 0..k |-> IF j \in 0..n /\ k - j \in 0..m
                                     THEN field_mul(p[j], q[k - j]) ELSE 0], k)

\* The coefficient is a combination of delayed copies of the second polynomial.
LEMMA ProductIsCombined ==
    ASSUME NEW n \in Nat, NEW m \in Nat, NEW p, Terms(p, n), NEW q, Terms(q, m),
           NEW h, IsProduct(h, p, n, q, m),
           NEW f, \A j \in 0..n : \A k \in 0..(n + m) : f[j][k] = IF k - j \in 0..m THEN q[k - j] ELSE 0,
           NEW k \in 0..(n + m)
    PROVE  h[k] = Combined(p, f, n, k)
<1> DEFINE a == [j \in 0..k |-> IF j \in 0..n /\ k - j \in 0..m THEN field_mul(p[j], q[k - j]) ELSE 0]
           b == [j \in 0..n |-> field_mul(p[j], f[j][k])]
<1>0. k \in Nat /\ 0 \in Element /\ (\A j \in 0..n : p[j] \in Element) /\ \A j \in 0..m : q[j] \in Element
  BY ZeroAndOne DEF Terms
<1>1. h[k] = SumTo(a, k) /\ Combined(p, f, n, k) = SumTo(b, n)
  BY DEF IsProduct, Combined
<1>2. ASSUME NEW j \in 0..k
      PROVE  /\ a[j] \in Element
             /\ j > n => a[j] = 0
             /\ j \in 0..n => a[j] = b[j]
  <2>1. CASE j \in 0..n /\ k - j \in 0..m
    <3>1. a[j] = field_mul(p[j], q[k - j]) /\ b[j] = field_mul(p[j], q[k - j])
      BY <2>1
    <3>2. ~(j > n)
      BY <2>1
    <3> HIDE DEF a, b
    <3> QED
      BY <1>0, <2>1, <3>1, <3>2, MulType
  <2>2. CASE ~(j \in 0..n /\ k - j \in 0..m)
    <3>1. a[j] = 0 /\ (j \in 0..n => b[j] = field_mul(p[j], 0))
      BY <2>2
    <3> HIDE DEF a, b
    <3> QED
      BY <1>0, <3>1, MulIsTimes
  <2> QED
    BY <2>1, <2>2
<1>3. ASSUME NEW j \in 0..n, j > k PROVE b[j] = 0
  <2>1. ~(k - j \in 0..m)
    BY <1>3
  <2>2. b[j] = field_mul(p[j], 0)
    BY <2>1
  <2> HIDE DEF b
  <2> QED
    BY <1>0, <2>2, MulIsTimes
<1>4. ASSUME NEW j \in 0..n PROVE b[j] \in Element
  <2>1. CASE j > k
    BY <1>0, <1>3, <2>1
  <2>2. CASE ~(j > k)
    <3>1. j \in 0..k
      BY <2>2
    <3> HIDE DEF a, b
    <3> QED
      BY <1>2, <3>1
  <2> QED
    BY <2>1, <2>2
<1> HIDE DEF a, b
<1>5. Terms(a, k) /\ Terms(b, n)
  BY <1>2, <1>4 DEF Terms
<1>6. CASE k <= n
  <2>1. SumTo(b, n) = SumTo(b, k)
    BY <1>0, <1>3, <1>5, <1>6, SumToTail
  <2>2. \A j \in 0..k : b[j] = a[j]
    BY <1>2, <1>6
  <2> QED
    BY <1>0, <1>1, <1>5, <2>1, <2>2, SumToSame
<1>7. CASE ~(k <= n)
  <2>1. SumTo(a, k) = SumTo(a, n)
    BY <1>0, <1>2, <1>5, <1>7, SumToTail
  <2>2. \A j \in 0..n : j \in 0..k
    BY <1>7
  <2>3. \A j \in 0..n : a[j] = b[j]
    BY <1>2, <2>2
  <2> QED
    BY <1>1, <1>5, <2>1, <2>3, SumToSame
<1> QED
  BY <1>6, <1>7

\* A product's value is the product of the values.
LEMMA ProductValue ==
    ASSUME NEW n \in Nat, NEW m \in Nat, NEW p, Terms(p, n), NEW q, Terms(q, m),
           NEW h, IsProduct(h, p, n, q, m), NEW v \in 1..Top
    PROVE  /\ Terms(h, n + m)
           /\ h[0] = field_mul(p[0], q[0])
           /\ Value(h, n + m, v) = field_mul(Value(p, n, v), Value(q, m, v))
<1> DEFINE f == [j \in 0..n |-> [k \in 0..(n + m) |-> IF k - j \in 0..m THEN q[k - j] ELSE 0]]
           l == n + m
           e == [k \in 0..l |-> Combined(p, f, n, k)]
           g == [j \in 0..n |-> field_mul(p[j], Value(f[j], l, v))]
           b == [j \in 0..n |-> field_mul(p[j], field_pow(v, j))]
           V == Value(q, m, v)
<1>0. /\ l \in Nat /\ 0 \in Element /\ (\A j \in 0..n : p[j] \in Element)
      /\ (\A j \in 0..m : q[j] \in Element) /\ V \in Element
  BY ZeroAndOne, ValueTerms DEF Terms
<1>1. \A j \in 0..n : \A k \in 0..l : f[j][k] = IF k - j \in 0..m THEN q[k - j] ELSE 0
  OBVIOUS
<1>2. ASSUME NEW k \in 0..l PROVE h[k] = Combined(p, f, n, k)
  <2> HIDE DEF f
  <2> QED
    BY <1>1, ProductIsCombined
<1>3. Family(f, n, l)
  <2> HIDE DEF f
  <2> QED
    BY <1>0, <1>1 DEF Family
<1>4. Terms(e, l) /\ Value(e, l, v) = SumTo(g, n)
  <2>1. CombinesAt(p, f, n, l, v)
    <3> HIDE DEF f, l
    <3> QED
      BY <1>0, <1>3, CombinedValue
  <2> QED
    BY <2>1 DEF CombinesAt
<1>5. \A k \in 0..l : e[k] = h[k]
  BY <1>2
<1>6. ASSUME NEW j \in 0..n PROVE g[j] = field_mul(V, b[j])
  <2> DEFINE a == field_pow(v, j)
             F == f[j]
  <2>1. a \in Element /\ j \in Nat
    BY PowUnfolds
  <2>2. \A k \in 0..l : F[k] = IF k - j \in 0..m THEN field_mul(1, q[k - j]) ELSE 0
    <3> SUFFICES ASSUME NEW k \in 0..l
                 PROVE  F[k] = IF k - j \in 0..m THEN field_mul(1, q[k - j]) ELSE 0
      OBVIOUS
    <3>1. F[k] = IF k - j \in 0..m THEN q[k - j] ELSE 0
      OBVIOUS
    <3> HIDE DEF F
    <3> QED
      BY <1>0, <3>1, MulOne
  <2>3. Value(F, l, v) = field_mul(field_mul(1, a), V)
    <3>1. m + j <= l /\ 1 \in Element
      BY ZeroAndOne
    <3> HIDE DEF F, l
    <3> QED
      BY <1>0, <2>1, <2>2, <3>1, ValueMoved
  <2>4. g[j] = field_mul(p[j], Value(F, l, v)) /\ b[j] = field_mul(p[j], a)
    OBVIOUS
  <2> HIDE DEF a, F, g, b, V, l
  <2>5. g[j] = field_mul(p[j], field_mul(a, V))
    BY <2>1, <2>3, <2>4, MulOne
  <2>6. field_mul(field_mul(p[j], a), V) = field_mul(p[j], field_mul(a, V))
    BY <1>0, <2>1, MulAssociates
  <2>7. field_mul(p[j], a) \in Element
    BY <1>0, <2>1, MulType
  <2> QED
    BY <1>0, <2>4, <2>5, <2>6, <2>7, MulCommutes
<1>7. Terms(b, n) /\ Value(p, n, v) = SumTo(b, n) /\ Value(p, n, v) \in Element
  BY ValueTerms DEF Value
<1> HIDE DEF e, g, b, V, f
<1>8. Terms(h, l) /\ Value(h, l, v) = Value(e, l, v)
  <2> HIDE DEF l
  <2>1. Terms(h, l)
    BY <1>4, <1>5 DEF Terms
  <2> QED
    BY <1>0, <1>5, <2>1, ValueSame
<1>9. SumTo(g, n) = field_mul(V, SumTo(b, n))
  BY <1>0, <1>6, <1>7, SumToScale
<1>10. h[0] = field_mul(p[0], q[0])
  <2> DEFINE a == [j \in 0..0 |-> IF j \in 0..n /\ 0 - j \in 0..m THEN field_mul(p[j], q[0 - j]) ELSE 0]
  <2>1. h[0] = SumTo(a, 0)
    <3>1. 0 \in 0..(n + m)
      OBVIOUS
    <3> QED
      BY <3>1 DEF IsProduct
  <2>2. a[0] = field_mul(p[0], q[0]) /\ p[0] \in Element /\ q[0] \in Element
    BY <1>0
  <2> HIDE DEF a
  <2>3. Terms(a, 0)
    BY <2>2, MulType DEF Terms
  <2> QED
    BY <2>1, <2>2, <2>3, SumToUnfolds
<1> QED
  BY <1>0, <1>4, <1>7, <1>8, <1>9, <1>10, MulCommutes DEF V

\* e is what the register makes of s, d the derivative of c.
Evaluates(e, d, c, s, t, b) ==
    /\ \A k \in 0..b : e[k] = Feedback(c, s, k, k)
    /\ \A k \in 0..(t - 1) : d[k] = field_sum(c[k + 1], k + 1)

\* Forney's formula read the other way: of syndromes that are sums of powers, weighed, the
\* evaluator's value at a root is the weight times the derivative's.
LEMMA EvaluatorAtRoot ==
    ASSUME NEW n \in Nat, NEW t \in Nat, t > 0, t <= n, NEW c, NEW rho, Splits(c, t, rho, n),
           NEW z, NEW x, Inverses(z, x, rho, t, n), NEW w, Terms(w, t - 1),
           NEW b \in Nat, t - 1 <= b, b <= n, NEW s, Explains(s, w, z, t, b),
           NEW e, NEW d, Evaluates(e, d, c, s, t, b), NEW m \in 0..(t - 1)
    PROVE  /\ Terms(e, b)
           /\ Value(e, b, rho[m]) = field_mul(w[m], Value(d, t - 1, rho[m]))
           /\ Value(d, t - 1, rho[m]) \in 1..Top
<1> DEFINE l == t - 1
           v == rho[m]
<1>00. /\ \A k \in 0..b : s[k] = Combined(w, z, t - 1, k) /\ e[k] = Feedback(c, s, k, k)
       /\ \A k \in 0..(t - 1) : d[k] = field_sum(c[k + 1], k + 1)
  BY DEF Explains, Evaluates
<1>1. PICK q : Divided(q, c, t, rho, n)
  BY DividedExists
<1>0. /\ l \in Nat /\ v \in 1..Top /\ l + 1 = t /\ m \in 0..l
      /\ \A i \in 0..l : rho[i] \in 1..Top /\ x[i] \in 1..Top /\ field_mul(rho[i], x[i]) = 1
                         /\ Geometric(z[i], x[i], n) /\ Deflates(q[i], c, rho[i], n)
      /\ Terms(c, n) /\ (\A k \in 0..b : k \in 0..n /\ Terms(c, k))
  BY <1>1 DEF Splits, Different, Inverses, Divided, Terms
<1> DEFINE g == [k \in 0..n |-> Combined(w, q, l, k)]
<1>2. /\ Family(q, l, n)
      /\ \A i \in 0..l : \A k \in 0..n : k >= t => q[i][k] = 0
  <2>1. \A i \in 0..l : \A k \in 0..n : q[i][k] \in Element /\ (k >= t => q[i][k] = 0)
    BY <1>1, DividedHas
  <2> QED
    BY <2>1 DEF Family
<1>3. ASSUME NEW i \in 0..l
      PROVE  Terms(z[i], n) /\ \A k \in 0..n : Feedback(c, z[i], k, k) = q[i][k]
  <2> DEFINE r == rho[i]
             y == x[i]
             u == z[i]
             p == q[i]
  <2>1. r \in 1..Top /\ y \in 1..Top /\ field_mul(r, y) = 1 /\ Geometric(u, y, n) /\ Deflates(p, c, r, n)
    BY <1>0
  <2> HIDE DEF r, y, u, p
  <2>2. Terms(u, n) /\ \A k \in 0..n : Feedback(c, u, k, k) = p[k]
    BY <1>0, <2>1, FeedbackOfPowers
  <2> QED
    BY <2>2 DEF u, p
<1>4. Family(z, l, b)
  BY <1>0, <1>3 DEF Family, Terms
<1> HIDE DEF l
<1>5. ASSUME NEW k \in 0..b PROVE e[k] = Combined(w, q, l, k)
  <2> DEFINE f == [i \in 0..l |-> field_mul(w[i], Feedback(c, z[i], k, k))]
             h == [i \in 0..l |-> field_mul(w[i], q[i][k])]
  <2>1. f = h
    BY <1>0, <1>3
  <2>2. k \in 0..k /\ Terms(c, k)
    BY <1>0
  <2>3. FeedbackCombines(c, s, w, z, l, k, k)
    BY <1>0, <1>00, <1>4, <2>2, CombinedFeedback DEF l
  <2>4. Feedback(c, s, k, k) = SumTo(f, l)
    BY <2>3 DEF FeedbackCombines
  <2>5. Combined(w, q, l, k) = SumTo(h, l)
    BY DEF Combined
  <2> HIDE DEF f, h
  <2> QED
    BY <1>00, <2>1, <2>4, <2>5
<1>6. /\ Terms(g, n)
      /\ Value(g, n, v) = SumTo([i \in 0..l |-> field_mul(w[i], Value(q[i], n, v))], l)
  <2>1. CombinesAt(w, q, l, n, v)
    BY <1>0, <1>2, CombinedValue DEF l
  <2> QED
    BY <2>1 DEF CombinesAt
<1>7. ASSUME NEW k \in 0..n, k > b PROVE g[k] = 0
  <2> DEFINE f == [i \in 0..l |-> field_mul(w[i], q[i][k])]
  <2>0. k >= t
    BY <1>0, <1>7
  <2>1. \A i \in 0..l : f[i] = 0
    <3> SUFFICES ASSUME NEW i \in 0..l PROVE field_mul(w[i], q[i][k]) = 0
      OBVIOUS
    <3>1. w[i] \in Element /\ q[i][k] = 0
      BY <1>2, <2>0 DEF Terms, l
    <3> QED
      BY <3>1, MulIsTimes, ZeroAndOne
  <2>2. g[k] = SumTo(f, l)
    BY DEF Combined
  <2> HIDE DEF f, g
  <2> QED
    BY <1>0, <2>1, <2>2, SumToZero
<1>8. \A k \in 0..b : e[k] = g[k] /\ g[k] \in Element
  BY <1>0, <1>5, <1>6 DEF Terms
<1> HIDE DEF g
<1>9. Value(g, n, v) = Value(g, b, v)
  BY <1>0, <1>6, <1>7, ValueTail
<1>10. Value(e, b, v) = Value(g, b, v)
  BY <1>8, ValueSame
<1>11. QuotientsAt(w, q, d, t, n, rho[m], m)
  BY <1>00, <1>1, QuotientsWeighed
<1>12. Value(g, n, v) = field_mul(w[m], Value(d, t - 1, v))
  BY <1>6, <1>11 DEF QuotientsAt, l
<1>13. Value(d, t - 1, rho[m]) \in 1..Top
  BY <1>00, <1>1, DerivativeIsQuotient
<1>14. Terms(e, b)
  BY <1>8 DEF Terms
<1> QED
  BY <1>9, <1>10, <1>12, <1>13, <1>14

\* Places in 0..b, all different, at which alone p is not 0.
Supports(places, l, p, b) ==
    /\ \A n \in 0..l : places[n] \in 0..b
    /\ \A n \in 0..l : \A k \in 0..l : places[n] = places[k] => n = k
    /\ \A k \in 0..b : p[k] # 0 => \E n \in 0..l : places[n] = k

\* What values put at places come to at k.
PutAt(values, places, l, k) == SumTo([n \in 0..l |-> IF places[n] = k THEN values[n] ELSE 0], l)

\* Putting the values at their places makes p.
LEMMA SupportFills ==
    ASSUME NEW b \in Nat, NEW l \in Nat, NEW p, Terms(p, b), NEW places, Supports(places, l, p, b),
           NEW values, \A n \in 0..l : values[n] = p[places[n]], NEW k \in 0..b
    PROVE  PutAt(values, places, l, k) = p[k]
<1> DEFINE f == [n \in 0..l |-> IF places[n] = k THEN values[n] ELSE 0]
<1>0. /\ \A n \in 0..l : places[n] \in 0..b /\ values[n] = p[places[n]]
      /\ \A n \in 0..l : \A j \in 0..l : places[n] = places[j] => n = j
      /\ \A j \in 0..b : p[j] # 0 => \E n \in 0..l : places[n] = j
      /\ \A j \in 0..b : p[j] \in Element
      /\ 0 \in Element
  BY ZeroAndOne DEF Supports, Terms
<1>1. \A n \in 0..l : f[n] = IF places[n] = k THEN p[k] ELSE 0
  BY <1>0
<1>2. \A n \in 0..l : f[n] \in Element
  BY <1>0, <1>1
<1> HIDE DEF f
<1>3. Terms(f, l)
  BY <1>2 DEF Terms
<1>4. CASE \E n \in 0..l : places[n] = k
  <2>1. PICK n \in 0..l : places[n] = k
    BY <1>4
  <2>2. \A j \in 0..l : j # n => f[j] = 0
    BY <1>0, <1>1, <2>1
  <2>3. SumTo(f, l) = f[n]
    BY <1>3, <2>2, SumToOnly
  <2> QED
    BY <1>1, <2>1, <2>3 DEF f, PutAt
<1>5. CASE ~\E n \in 0..l : places[n] = k
  <2>1. (\A j \in 0..l : f[j] = 0) /\ p[k] = 0
    BY <1>0, <1>1, <1>5
  <2>2. SumTo(f, l) = 0
    BY <2>1, SumToZero
  <2> QED
    BY <2>1, <2>2 DEF f, PutAt
<1> QED
  BY <1>4, <1>5

\* So p's value is what the values contribute.
LEMMA SupportValue ==
    ASSUME NEW b \in Nat, NEW l \in Nat, NEW p, Terms(p, b), NEW places, Supports(places, l, p, b),
           NEW values, \A n \in 0..l : values[n] = p[places[n]], NEW v \in 1..Top
    PROVE  Terms(values, l) /\ Value(p, b, v) = Contributions(values, places, l, v)
<1> DEFINE zero == [k \in 0..b |-> 0]
           g == [k \in 0..b |-> field_mul(zero[k], field_pow(v, k))]
<1>0. /\ 0 \in Element
      /\ \A k \in 0..b : zero[k] = 0 /\ p[k] \in Element
  BY ZeroAndOne DEF Terms
<1> HIDE DEF zero
<1>1. Terms(zero, b)
  BY <1>0 DEF Terms
<1>2. Terms(values, l)
  BY <1>0 DEF Terms, Supports
<1>3. Filled(p, zero, values, places, l, b)
  <2>1. ASSUME NEW k \in 0..b
        PROVE  p[k] = field_add(zero[k], SumTo([n \in 0..l |-> IF places[n] = k THEN values[n] ELSE 0], l))
    <3>1. SumTo([n \in 0..l |-> IF places[n] = k THEN values[n] ELSE 0], l) = p[k]
      BY SupportFills DEF PutAt
    <3> QED
      BY <1>0, <3>1, AddZero
  <2>2. \A n \in 0..l : places[n] \in 0..b
    BY DEF Supports
  <2> QED
    BY <1>2, <2>1, <2>2 DEF Filled
<1>4. Value(p, b, v) = field_add(Value(zero, b, v), Contributions(values, places, l, v))
  BY <1>1, <1>3, PlacedValue
<1>5. Value(zero, b, v) = 0
  <2>1. ASSUME NEW k \in 0..b PROVE g[k] = 0
    <3>1. field_pow(v, k) \in Element
      BY PowUnfolds
    <3> QED
      BY <1>0, <3>1, MulIsTimes
  <2>2. Value(zero, b, v) = SumTo(g, b)
    BY DEF Value
  <2> HIDE DEF g
  <2> QED
    BY <2>1, <2>2, SumToZero
<1>6. Contributions(values, places, l, v) \in Element
  <2> DEFINE f == [n \in 0..l |-> field_mul(values[n], field_pow(v, places[n]))]
  <2>1. ASSUME NEW n \in 0..l PROVE f[n] \in Element
    <3>1. values[n] \in Element /\ places[n] \in Nat
      BY <1>2 DEF Terms, Supports
    <3> QED
      BY <3>1, PowUnfolds, MulType
  <2>2. Contributions(values, places, l, v) = SumTo(f, l)
    BY DEF Contributions
  <2> HIDE DEF f
  <2>3. Terms(f, l)
    BY <2>1 DEF Terms
  <2>4. l \in 0..l
    OBVIOUS
  <2> QED
    BY <2>2, <2>3, <2>4, SumToUnfolds
<1> QED
  BY <1>2, <1>4, <1>5, <1>6, AddZero

\* The weight that Forney's formula makes a of moves the powers by one.
LEMMA ForneyWeight ==
    ASSUME NEW r \in 1..Top, NEW f \in Nat, NEW a \in Element
    PROVE  LET x == field_div(1, r)
               y == field_pow(r, f - 1)
               w == field_div(a, y)
           IN  /\ x \in 1..Top /\ field_mul(r, x) = 1
               /\ y \in 1..Top /\ w \in Element /\ field_mul(y, w) = a
               /\ \A k \in Nat : field_mul(w, field_pow(x, k + 1))
                                   = field_mul(field_mul(a, field_pow(x, f)), field_pow(x, k))
<1> DEFINE x == field_div(1, r)
           y == field_pow(r, f - 1)
           w == field_div(a, y)
<1>1. /\ x \in 1..Top /\ field_mul(r, x) = 1 /\ y \in Element
      /\ \A k \in Nat : field_mul(y, field_pow(x, k + f)) = field_pow(x, k + 1)
  <2>1. 0 \in Nat
    OBVIOUS
  <2>2. x \in 1..Top /\ field_mul(r, x) = 1 /\ y \in Element
    BY <2>1, PowersMeet
  <2>3. ASSUME NEW k \in Nat PROVE field_mul(y, field_pow(x, k + f)) = field_pow(x, k + 1)
    BY PowersMeet
  <2> QED
    BY <2>2, <2>3
<1> HIDE DEF x, y
<1>2. y \in 1..Top
  <2> SUFFICES y # 0
    BY <1>1, FieldSize
  <2>1. field_mul(y, field_pow(x, 0 + f)) = field_pow(x, 0 + 1)
    BY <1>1
  <2>2. field_pow(x, 0 + f) \in Element /\ field_pow(x, 0 + 1) \in 1..Top
    BY <1>1, PowUnfolds, PowType
  <2>3. field_mul(0, field_pow(x, 0 + f)) = 0
    BY <2>2, MulIsTimes, ZeroAndOne
  <2> QED
    BY <2>1, <2>2, <2>3
<1>3. w \in Element /\ field_mul(y, w) = a
  BY <1>2, MulDivided
<1> HIDE DEF w
<1>4. ASSUME NEW k \in Nat
      PROVE  field_mul(w, field_pow(x, k + 1)) = field_mul(field_mul(a, field_pow(x, f)), field_pow(x, k))
  <2> DEFINE u == field_pow(x, f)
             v == field_pow(x, k)
             z == field_pow(x, k + f)
  <2>1. u \in Element /\ v \in Element /\ z \in Element /\ z = field_mul(v, u)
    <3>1. x \in 1..Top /\ x \in Element /\ k + f \in Nat /\ f \in Nat
      BY <1>1, FieldSize
    <3>2. u \in Element
      BY <3>1, PowUnfolds
    <3>3. v \in Element
      BY <3>1, PowUnfolds
    <3>4. z \in Element
      BY <3>1, PowUnfolds
    <3>5. z = field_mul(v, u)
      BY <3>1, PowAdds
    <3> QED
      BY <3>2, <3>3, <3>4, <3>5
  <2>2. field_pow(x, k + 1) = field_mul(y, z)
    BY <1>1
  <2> HIDE DEF u, v, z
  <2>3. field_mul(w, field_mul(y, z)) = field_mul(field_mul(w, y), z)
    BY <1>1, <1>3, <2>1, MulAssociates
  <2>4. field_mul(w, y) = a
    BY <1>1, <1>3, MulCommutes
  <2>5. z = field_mul(u, v)
    BY <2>1, MulCommutes
  <2>6. field_mul(field_mul(a, u), v) = field_mul(a, field_mul(u, v))
    BY <2>1, MulAssociates
  <2> QED
    BY <2>2, <2>3, <2>4, <2>5, <2>6 DEF u, v
<1> QED
  BY <1>1, <1>2, <1>3, <1>4 DEF x, y, w

=============================================================================
