--------------------------- MODULE FramingProofs ---------------------------
(***************************************************************************)
(* Frames are self-delimiting, for bytes of any width, messages of any     *)
(* length and any parity: behind the preamble every second pair of bits    *)
(* differs, which leaves no room for a third run of three.  And frames     *)
(* hold what is handed on: the pairs behind the preamble, read by their    *)
(* second symbol, are the length, the message and its parity up to the     *)
(* first zero byte.                                                        *)
(***************************************************************************)
EXTENDS Framing, InductionLemmas

\* A frame is empty or a preamble followed by pairs of different bits.
Differ(s, j) == s[2 * j - 1] # s[2 * j]

WellFormed(s) ==
    /\ s \in Seq(0..1)
    /\ Len(s) >= 8
    /\ Len(s) % 2 = 0
    /\ \A k \in 1..8 : s[k] = Preamble[k]
    /\ \A j \in 4..(Len(s) \div 2) : Differ(s, j)

FrameInv ==
    /\ frame = <<>> \/ WellFormed(frame)
    /\ pc \in {"encode", "append", "done"} => WellFormed(frame)

-----------------------------------------------------------------------------
\* The Manchester code of any byte is a sequence of pairs of different bits.
LEMMA ManchesterPairs ==
    ASSUME NEW ook
    PROVE  /\ ook_to_manchester(ook) \in Seq(0..1)
           /\ Len(ook_to_manchester(ook)) = 2 * ByteBits
           /\ \A j \in 1..ByteBits : Differ(ook_to_manchester(ook), j)
<1> DEFINE bits == ook_to_manchester(ook)
<1>1. ByteBits \in Nat /\ 2 * ByteBits \in Nat
  BY ByteAssumption
<1>2. /\ bits \in [1..(2 * ByteBits) -> 0..1]
      /\ \A k \in 1..(2 * ByteBits) :
           bits[k] = IF SetBit(ook, ByteBits - (k + 1) \div 2) <=> k % 2 = 0
                       THEN 1 ELSE 0
  BY DEF ook_to_manchester
<1>3. bits \in Seq(0..1) /\ Len(bits) = 2 * ByteBits
  BY <1>1, <1>2
<1>4. ASSUME NEW j \in 1..ByteBits
      PROVE  Differ(bits, j)
  <2>1. /\ 2 * j - 1 \in 1..(2 * ByteBits)
        /\ 2 * j \in 1..(2 * ByteBits)
        /\ (2 * j - 1 + 1) \div 2 = j
        /\ (2 * j + 1) \div 2 = j
        /\ (2 * j - 1) % 2 = 1
        /\ (2 * j) % 2 = 0
    BY <1>1
  <2>2. bits[2 * j - 1] = IF SetBit(ook, ByteBits - j) <=> FALSE THEN 1 ELSE 0
    BY <1>2, <2>1
  <2>3. bits[2 * j] = IF SetBit(ook, ByteBits - j) <=> TRUE THEN 1 ELSE 0
    BY <1>2, <2>1
  <2> QED
    BY <2>2, <2>3 DEF Differ, SetBit
<1> QED
  BY <1>3, <1>4

\* A byte's code behind a well-formed frame, or behind the bare preamble, gives a
\* well-formed frame.
LEMMA AppendKeepsPairs ==
    ASSUME NEW s, WellFormed(s), NEW ook
    PROVE  WellFormed(s \o ook_to_manchester(ook))
<1> DEFINE b == ook_to_manchester(ook)
           t == s \o b
<1>1. ByteBits \in Nat
  BY ByteAssumption
<1>2. /\ b \in Seq(0..1)
      /\ Len(b) = 2 * ByteBits
      /\ \A j \in 1..ByteBits : Differ(b, j)
  BY ManchesterPairs
<1>3. /\ s \in Seq(0..1)
      /\ Len(s) \in Nat
      /\ Len(s) >= 8
      /\ Len(s) % 2 = 0
      /\ \A k \in 1..8 : s[k] = Preamble[k]
      /\ \A j \in 4..(Len(s) \div 2) : Differ(s, j)
  BY DEF WellFormed
<1> HIDE DEF b
<1>4. /\ t \in Seq(0..1)
      /\ Len(t) = Len(s) + 2 * ByteBits
      /\ \A k \in 1..Len(s) : t[k] = s[k]
      /\ \A k \in 1..(2 * ByteBits) : t[Len(s) + k] = b[k]
  <2>1. Len(b) \in Nat
    BY <1>1, <1>2
  <2>2. t \in Seq(0..1) /\ Len(t) = Len(s) + Len(b)
    BY <1>2, <1>3
  <2>3. \A k \in 1..(Len(s) + Len(b)) :
            t[k] = IF k <= Len(s) THEN s[k] ELSE b[k - Len(s)]
    BY <1>2, <1>3
  <2>4. \A k \in 1..Len(s) : t[k] = s[k]
    BY <2>1, <2>3, <1>3
  <2>5. ASSUME NEW k \in 1..Len(b)
        PROVE  t[Len(s) + k] = b[k]
    BY <2>1, <2>3, <1>3
  <2> QED
    BY <2>2, <2>4, <2>5, <1>2
<1> HIDE DEF t
<1>5. Len(t) >= 8 /\ Len(t) % 2 = 0
  BY <1>1, <1>3, <1>4
<1>6. \A k \in 1..8 : t[k] = Preamble[k]
  BY SMTT(30), <1>3, <1>4
<1>7. ASSUME NEW j \in 4..(Len(t) \div 2)
      PROVE  Differ(t, j)
  <2>1. CASE j <= Len(s) \div 2
    <3>1. 2 * j - 1 \in 1..Len(s) /\ 2 * j \in 1..Len(s) /\ j \in 4..(Len(s) \div 2)
      BY <2>1, <1>3
    <3> QED
      BY <3>1, <1>3, <1>4 DEF Differ
  <2>2. CASE j > Len(s) \div 2
    <3> DEFINE k == j - Len(s) \div 2
    <3>1. /\ k \in 1..ByteBits
          /\ 2 * k - 1 \in 1..(2 * ByteBits)
          /\ 2 * k \in 1..(2 * ByteBits)
          /\ 2 * j - 1 = Len(s) + (2 * k - 1)
          /\ 2 * j = Len(s) + 2 * k
      <4>1. PICK h \in Nat : Len(s) = 2 * h /\ Len(s) \div 2 = h
        BY SMTT(30), <1>3
      <4>2. Len(t) = 2 * (h + ByteBits)
        BY <4>1, <1>1, <1>4
      <4>3. Len(t) \div 2 = h + ByteBits
        BY <4>1, <4>2, <1>1
      <4> QED
        BY <4>1, <4>3, <2>2, <1>1
    <3> HIDE DEF k
    <3>2. t[2 * j - 1] = b[2 * k - 1] /\ t[2 * j] = b[2 * k]
      BY <3>1, <1>4
    <3> QED
      BY <3>1, <3>2, <1>2 DEF Differ
  <2> QED
    BY <2>1, <2>2, <1>3, <1>4, <1>1
<1>8. WellFormed(t)
  BY <1>4, <1>5, <1>6, <1>7 DEF WellFormed
<1> QED
  BY <1>8 DEF t, b

LEMMA PreambleWellFormed == WellFormed(Preamble)
BY DEF WellFormed, Preamble, Differ

\* Between the pairs there is no room for a run of three but in the preamble.
LEMMA PairsHaveNoRuns == FrameInv => OnlyPreambleHasRunsOfThree
<1>0. CASE frame = <<>>
  <2>1. \A k \in 1..(Len(frame) - 2) : FALSE
    BY <1>0
  <2> QED
    BY <2>1 DEF OnlyPreambleHasRunsOfThree
<1> SUFFICES ASSUME WellFormed(frame), NEW k \in 1..(Len(frame) - 2)
             PROVE  ThreeAlike(k) <=> k \in {2, 5}
  BY <1>0 DEF FrameInv, OnlyPreambleHasRunsOfThree
<1>1. /\ Len(frame) \in Nat
      /\ Len(frame) >= 8
      /\ Len(frame) % 2 = 0
      /\ \A n \in 4..(Len(frame) \div 2) : frame[2 * n - 1] # frame[2 * n]
  BY DEF WellFormed, Differ
<1>2. /\ frame[1] = 0 /\ frame[2] = 1 /\ frame[3] = 1 /\ frame[4] = 1
      /\ frame[5] = 0 /\ frame[6] = 0 /\ frame[7] = 0 /\ frame[8] = 1
  BY DEF WellFormed, Preamble
<1>3. CASE k <= 6
  BY <1>2, <1>3 DEF ThreeAlike
<1>4. CASE k > 6 /\ k % 2 = 1
  <2>0. PICK h \in Nat : k = 2 * h + 1
    BY <1>4
  <2>1. /\ (k + 1) \div 2 \in 4..(Len(frame) \div 2)
        /\ 2 * ((k + 1) \div 2) - 1 = k
        /\ 2 * ((k + 1) \div 2) = k + 1
    BY <2>0, <1>1, <1>4
  <2> QED
    BY <2>1, <1>1, <1>4 DEF ThreeAlike
<1>5. CASE k > 6 /\ k % 2 = 0
  <2>1. /\ (k + 2) \div 2 \in 4..(Len(frame) \div 2)
        /\ 2 * ((k + 2) \div 2) - 1 = k + 1
        /\ 2 * ((k + 2) \div 2) = k + 2
    BY <1>1, <1>5
  <2> QED
    BY <2>1, <1>1, <1>5 DEF ThreeAlike
<1> QED
  BY <1>3, <1>4, <1>5

\* A receiver finds the start of a frame from anywhere in it: only the preamble holds
\* runs of three, for every message and every parity (manchester.c:39-69).
THEOREM SelfDelimiting == Spec => []OnlyPreambleHasRunsOfThree
<1>1. Init => FrameInv
  BY DEF Init, FrameInv
<1>2. FrameInv /\ [Next]_vars => FrameInv'
  <2> SUFFICES ASSUME FrameInv, [Next]_vars
               PROVE  FrameInv'
    OBVIOUS
  <2>0. ASSUME NEW m, Begin(m)
        PROVE  FrameInv'
    BY <2>0, PreambleWellFormed, AppendKeepsPairs DEF Begin, FrameInv
  <2>1. CASE Call
    BY <2>0, <2>1 DEF Call
  <2>7. CASE CallWithLine
    BY <2>0, <2>7 DEF CallWithLine
  <2>8. CASE ReadFifo
    BY <2>8 DEF ReadFifo, FrameInv
  <2>9. CASE Strip
    BY <2>9 DEF Strip, FrameInv
  <2>2. CASE Encode
    BY <2>2 DEF Encode, FrameInv
  <2>3. CASE AppendByte
    BY <2>3, AppendKeepsPairs DEF AppendByte, FrameInv
  <2>4. CASE StopAtZero
    BY <2>4 DEF StopAtZero, FrameInv
  <2>5. CASE StopAtEnd
    BY <2>5 DEF StopAtEnd, FrameInv
  <2>6. CASE UNCHANGED vars
    BY <2>6 DEF vars, FrameInv
  <2> QED
    BY <2>1, <2>2, <2>3, <2>4, <2>5, <2>6, <2>7, <2>8, <2>9 DEF Next
<1> QED
  BY <1>1, <1>2, PairsHaveNoRuns, PTL DEF Spec

-----------------------------------------------------------------------------
(* What a frame holds. *)

\* The powers of two a byte is put together from are positive numbers.
LEMMA Powers == \A n \in 0..ByteBits : 2^n \in Nat /\ 2^n > 0
<1> DEFINE Good == {n \in Nat : n <= ByteBits => 2^n \in Nat /\ 2^n > 0}
<1>0. ByteBits \in Nat
  BY ByteAssumption
<1>1. 0 \in Good
  BY PowersAssumption
<1>2. ASSUME NEW n \in Nat, n \in Good
      PROVE  n + 1 \in Good
  <2> SUFFICES ASSUME n + 1 <= ByteBits
               PROVE  2^(n + 1) \in Nat /\ 2^(n + 1) > 0
    OBVIOUS
  <2>1. 2^(n + 1) = 2 * 2^n
    BY <1>0, PowersAssumption
  <2>2. 2^n \in Nat /\ 2^n > 0
    BY <1>0, <1>2
  <2> QED
    BY <2>1, <2>2
<1> HIDE DEF Good
<1>3. Nat \subseteq Good
  BY <1>1, <1>2, SetInduction
<1> QED
  BY <1>0, <1>3 DEF Good

\* The second symbols of a byte's code, weighed by the powers of two, add up to the byte.
Weighed(code) == [j \in 1..ByteBits |-> code[2 * j] * 2^(ByteBits - j)]

\* The second symbol of a pair is the bit of the byte.
LEMMA SecondSymbols ==
    ASSUME NEW v \in Byte, NEW j \in 1..ByteBits
    PROVE  ook_to_manchester(v)[2 * j] = (v \div 2^(ByteBits - j)) % 2
<1>1. /\ ByteBits \in Nat /\ 2 * j \in 1..(2 * ByteBits)
      /\ (2 * j + 1) \div 2 = j /\ (2 * j) % 2 = 0
  BY ByteAssumption
<1>2. ook_to_manchester(v)[2 * j] = IF SetBit(v, ByteBits - j) THEN 1 ELSE 0
  BY <1>1 DEF ook_to_manchester
<1>3. v \in Nat /\ 2^(ByteBits - j) \in Nat /\ 2^(ByteBits - j) > 0
  BY <1>1, Powers DEF Byte
<1>4. v \div 2^(ByteBits - j) \in Nat
  BY <1>3, Division
<1>5. (v \div 2^(ByteBits - j)) % 2 \in {0, 1}
  BY <1>4
<1> QED
  BY <1>2, <1>5 DEF SetBit

\* The byte read back from the code of a byte is that byte: the sum of its bits.
LEMMA ByteReadsBack ==
    ASSUME NEW v \in Byte
    PROVE  SumFunctionOnSet(Weighed(ook_to_manchester(v)), 1..ByteBits) = v
<1> DEFINE g == Weighed(ook_to_manchester(v))
           Good == {n \in Nat : n <= ByteBits =>
                      SumFunctionOnSet(g, 1..n) = 2^(ByteBits - n) * (v \div 2^(ByteBits - n))}
<1>0. ByteBits \in Nat /\ v \in Nat /\ v < 2^ByteBits /\ 2^ByteBits \in Nat /\ 2^ByteBits > 0
  BY ByteAssumption DEF Byte
<1>a. \A j \in 1..ByteBits :
        /\ g[j] = ((v \div 2^(ByteBits - j)) % 2) * 2^(ByteBits - j)
        /\ g[j] \in Int
  <2> SUFFICES ASSUME NEW j \in 1..ByteBits
               PROVE  /\ g[j] = ((v \div 2^(ByteBits - j)) % 2) * 2^(ByteBits - j)
                      /\ g[j] \in Int
    OBVIOUS
  <2>1. g[j] = ((v \div 2^(ByteBits - j)) % 2) * 2^(ByteBits - j)
    BY SecondSymbols DEF Weighed
  <2>2. 2^(ByteBits - j) \in Nat /\ 2^(ByteBits - j) > 0
    BY <1>0, Powers
  <2>3. (v \div 2^(ByteBits - j)) % 2 \in Int
    BY <1>0, <2>2, Division
  <2> QED
    BY <2>1, <2>2, <2>3
<1> HIDE DEF g
<1>1. 0 \in Good
  <2>1. 1..0 = {}
    OBVIOUS
  <2>2. SumFunctionOnSet(g, 1..0) = 0
    BY <2>1, SumEmpty
  <2>3. v \div 2^ByteBits = 0
    BY <1>0
  <2>4. ByteBits - 0 = ByteBits
    BY <1>0
  <2> QED
    BY <1>0, <2>2, <2>3, <2>4
<1>2. ASSUME NEW n \in Nat, n \in Good
      PROVE  n + 1 \in Good
  <2> SUFFICES ASSUME n + 1 <= ByteBits
               PROVE  SumFunctionOnSet(g, 1..(n + 1))
                        = 2^(ByteBits - (n + 1)) * (v \div 2^(ByteBits - (n + 1)))
    OBVIOUS
  <2> DEFINE p == 2^(ByteBits - (n + 1))
  <2>1. p \in Nat /\ p > 0
    BY <1>0, Powers
  <2>2. 2^(ByteBits - n) = 2 * p
    <3>1. ByteBits - (n + 1) \in 0..(ByteBits - 1) /\ ByteBits - (n + 1) + 1 = ByteBits - n
      BY <1>0
    <3> QED
      BY <3>1, PowersAssumption
  <2>3. SumFunctionOnSet(g, 1..n) = (2 * p) * (v \div (2 * p))
    BY <1>0, <1>2, <2>2
  <2>4. SumFunctionOnSet(g, 1..(n + 1)) = g[n + 1] + SumFunctionOnSet(g, 1..n)
    <3>1. \A j \in 1..(n + 1) : g[j] \in Int
      BY <1>0, <1>a
    <3> QED
      BY <3>1, SumNext
  <2>5. g[n + 1] = ((v \div p) % 2) * p
    BY <1>0, <1>a
  <2> HIDE DEF p
  <2>6. v \div p = 2 * (v \div (2 * p)) + ((v \div p) % 2)
    BY <1>0, <2>1, Halves
  <2> DEFINE d == v \div p
             h == v \div (2 * p)
             b == (v \div p) % 2
  <2>7. h \in Nat /\ b \in Nat
    BY <1>0, <2>1, Division
  <2>8. SumFunctionOnSet(g, 1..(n + 1)) = b * p + (2 * p) * h
    BY <2>3, <2>4, <2>5
  <2>9. d = 2 * h + b
    BY <2>6
  <2> HIDE DEF d, h, b
  <2>10. b * p + (2 * p) * h = p * d
    BY <2>1, <2>7, <2>9
  <2> QED
    BY <2>8, <2>10 DEF p, d
<1> HIDE DEF Good
<1>3. Nat \subseteq Good
  BY <1>1, <1>2, SetInduction
<1>b. ByteBits \in Good
  BY <1>0, <1>3
<1>4. SumFunctionOnSet(g, 1..ByteBits) = 2^(ByteBits - ByteBits) * (v \div 2^(ByteBits - ByteBits))
  BY <1>0, <1>b DEF Good
<1>5. 2^(ByteBits - ByteBits) = 1
  BY <1>0, PowersAssumption
<1>6. v \div 1 = v
  BY <1>0
<1> QED
  BY <1>0, <1>4, <1>5, <1>6 DEF g

-----------------------------------------------------------------------------
(* A frame holds bytes if the code of each stands behind the preamble in its *)
(* place.                                                                    *)
Holds(s, bytes) ==
    /\ s \in Seq(0..1)
    /\ bytes \in Seq(Byte)
    /\ Len(s) = 8 + 2 * ByteBits * Len(bytes)
    /\ \A b \in 1..Len(bytes) : \A k \in 1..(2 * ByteBits) :
         s[8 + 2 * ByteBits * (b - 1) + k] = ook_to_manchester(bytes[b])[k]

\* A preamble holds no byte.
LEMMA PreambleHolds == Holds(Preamble, <<>>)
BY ByteAssumption DEF Holds, Preamble

\* The code of a byte appended, a frame holds that byte too.
LEMMA AppendHolds ==
    ASSUME NEW s, NEW bytes, Holds(s, bytes), NEW v \in Byte
    PROVE  Holds(s \o ook_to_manchester(v), Append(bytes, v))
<1> DEFINE code == ook_to_manchester(v)
           t == s \o code
           more == Append(bytes, v)
           w == 2 * ByteBits
           n == Len(bytes)
<1>1. w \in Nat /\ n \in Nat /\ s \in Seq(0..1) /\ bytes \in Seq(Byte) /\ Len(s) = 8 + w * n
  BY ByteAssumption DEF Holds
<1>2. code \in Seq(0..1) /\ Len(code) = w
  BY ManchesterPairs
<1>3. \A b \in 1..n : \A k \in 1..w : s[8 + w * (b - 1) + k] = ook_to_manchester(bytes[b])[k]
  BY DEF Holds
<1>4. more \in Seq(Byte) /\ Len(more) = n + 1 /\ more[n + 1] = v
      /\ \A b \in 1..n : more[b] = bytes[b]
  BY <1>1, AppendProperties
<1> HIDE DEF code, w, n, more
<1>5. /\ t \in Seq(0..1) /\ Len(t) = Len(s) + w
      /\ \A k \in 1..Len(s) : t[k] = s[k]
      /\ \A k \in 1..w : t[Len(s) + k] = code[k]
  <2>1. Len(code) \in Nat /\ Len(s) \in Nat
    BY <1>1, <1>2
  <2>2. t \in Seq(0..1) /\ Len(t) = Len(s) + Len(code)
    BY <1>1, <1>2
  <2>3. \A k \in 1..(Len(s) + Len(code)) :
            t[k] = IF k <= Len(s) THEN s[k] ELSE code[k - Len(s)]
    BY <1>1, <1>2
  <2>4. \A k \in 1..Len(s) : t[k] = s[k]
    BY <2>1, <2>3
  <2>5. ASSUME NEW k \in 1..Len(code)
        PROVE  t[Len(s) + k] = code[k]
    BY <2>1, <2>3
  <2> QED
    BY <1>2, <2>2, <2>4, <2>5
<1> HIDE DEF t
<1>6. Len(t) = 8 + w * (n + 1)
  BY <1>1, <1>5
<1>7. ASSUME NEW b \in 1..(n + 1), NEW k \in 1..w
      PROVE  t[8 + w * (b - 1) + k] = ook_to_manchester(more[b])[k]
  <2>1. CASE b = n + 1
    <3>1. 8 + w * (b - 1) = Len(s)
      BY <1>1, <2>1
    <3>2. t[Len(s) + k] = code[k]
      BY <1>5
    <3> QED
      BY <1>4, <2>1, <3>1, <3>2 DEF code
  <2>2. CASE b # n + 1
    <3>1. b \in 1..n /\ b - 1 \in 0..(n - 1)
      BY <1>1, <2>2
    <3>2. w * (b - 1) <= w * (n - 1) /\ w * (b - 1) \in Nat
      BY <1>1, <3>1
    <3>3. w * (n - 1) + w = w * n
      BY <1>1
    <3>4. 8 + w * (b - 1) + k \in 1..Len(s)
      <4> DEFINE x == w * (b - 1)
                 y == w * (n - 1)
                 z == w * n
      <4>1. x \in Nat /\ x <= y /\ y + w = z /\ Len(s) = 8 + z /\ z \in Nat /\ y \in Int
        BY <1>1, <3>2, <3>3
      <4> HIDE DEF x, y, z
      <4>2. 8 + x + k \in 1..Len(s)
        BY <1>1, <4>1
      <4> QED
        BY <4>2 DEF x
    <3> QED
      BY <1>3, <1>4, <1>5, <3>1, <3>4
  <2> QED
    BY <2>1, <2>2
<1>8. Holds(t, more)
  BY <1>4, <1>5, <1>6, <1>7 DEF Holds, w
<1> QED
  BY <1>8 DEF t, more, code, n

\* Read back, a frame gives the bytes it holds.
LEMMA HoldsReadsBack ==
    ASSUME NEW bytes, Holds(frame, bytes)
    PROVE  FrameBytes = bytes
<1> DEFINE w == 2 * ByteBits
           n == Len(bytes)
           value(b) == FoldFunction(+, 0, [j \in 1..ByteBits |->
                         frame[8 + w * (b - 1) + 2 * j] * 2^(ByteBits - j)])
<1>1. /\ ByteBits \in Nat /\ w \in Nat /\ w > 0 /\ n \in Nat
      /\ bytes \in Seq(Byte) /\ Len(frame) = 8 + w * n
  BY ByteAssumption DEF Holds
<1>2. ASSUME NEW b \in 1..n
      PROVE  value(b) = bytes[b]
  <2> DEFINE g == [j \in 1..ByteBits |-> frame[8 + w * (b - 1) + 2 * j] * 2^(ByteBits - j)]
  <2>1. bytes[b] \in Byte
    BY <1>1
  <2>2. \A j \in 1..ByteBits :
          frame[8 + w * (b - 1) + 2 * j] = ook_to_manchester(bytes[b])[2 * j]
    <3>1. \A k \in 1..w : frame[8 + w * (b - 1) + k] = ook_to_manchester(bytes[b])[k]
      BY DEF Holds
    <3>2. \A j \in 1..ByteBits : 2 * j \in 1..w
      BY <1>1
    <3> QED
      BY <3>1, <3>2
  <2>3. g = Weighed(ook_to_manchester(bytes[b]))
    BY <2>2 DEF Weighed
  <2>4. FoldFunction(+, 0, g) = SumFunctionOnSet(g, DOMAIN g)
    BY DEF FoldFunction, SumFunctionOnSet
  <2>5. DOMAIN g = 1..ByteBits
    OBVIOUS
  <2> HIDE DEF g
  <2>6. SumFunctionOnSet(g, 1..ByteBits) = bytes[b]
    BY <2>1, <2>3, ByteReadsBack
  <2>7. FoldFunction(+, 0, g) = bytes[b]
    BY <2>4, <2>5, <2>6
  <2> QED
    BY <2>7 DEF g
<1>3. (Len(frame) - 8) \div w = n
  <2>1. Len(frame) - 8 = w * n + 0
    BY <1>1
  <2> QED
    BY <1>1, <2>1, Quotient
<1>4. FrameBytes = [b \in 1..((Len(frame) - 8) \div w) |-> value(b)]
  BY DEF FrameBytes
<1> HIDE DEF value
<1>5. FrameBytes = [b \in 1..n |-> bytes[b]]
  BY <1>2, <1>3, <1>4
<1> QED
  BY <1>1, <1>5

-----------------------------------------------------------------------------
(* What is in the frame while it is built. *)

\* The bytes written so far are those of message and parity up to the loop counter, the
\* parity's without a zero.
LoopInv ==
    /\ message_RS = msg \o parity
    /\ parity \in Seq(Byte)
    /\ i \in 0..Len(message_RS)
    /\ \A k \in (Len(msg) + 1)..i : message_RS[k] # 0
    /\ Holds(frame, <<Len(msg)>> \o SubSeq(message_RS, 1, i))
    /\ IF Len(msg) > MaxPayload THEN parity = <<>> /\ rs_bytes = -1 /\ i < Len(msg)
                                ELSE Len(parity) = ParityBytes

EndInv ==
    IF Len(msg) > MaxPayload THEN i = Len(msg) - 1
                             ELSE i >= Len(msg) /\ RsAt(i) = 0

BytesInv ==
    /\ pc \in {"encode", "append", "done"} => msg \in Seq(Byte) /\ Len(msg) \in Byte
    /\ pc = "encode" => Holds(frame, <<Len(msg)>>)
    /\ pc \in {"append", "done"} => LoopInv
    /\ pc = "append" /\ Len(msg) <= MaxPayload => rs_bytes = BlockLength
    /\ pc = "done" => EndInv

\* Behind the length found so far the chunk is line ends; what is handed on is the text
\* typed, as far as its length can be told.
LineInv ==
    /\ buffer \in Seq(Byte)
    /\ rx_len \in Int
    /\ pc = "strip" => /\ rx_len <= Len(buffer)
                       /\ \A k \in DOMAIN buffer : k > rx_len => buffer[k] \in LineEnds
    /\ pc \in {"encode", "append", "done"} /\ Typed(buffer) # <<>> =>
         msg = SubSeq(Typed(buffer), 1, Len(Typed(buffer)) % 2^ByteBits)

ContentInv == BytesInv /\ LineInv

\* A length is written modulo the range of a byte.
LEMMA LengthIsByte ==
    /\ ByteBits \in Nat /\ 2^ByteBits \in Nat /\ 2^ByteBits > 0
    /\ Byte \subseteq Nat
    /\ \A n \in Int : n % 2^ByteBits \in Byte
<1>1. ByteBits \in Nat /\ 2^ByteBits \in Nat /\ 2^ByteBits > 0
  BY ByteAssumption
<1>2. Byte = 0..(2^ByteBits - 1)
  BY DEF Byte
<1> QED
  BY <1>1, <1>2

\* Both callers start a frame with the length of a message of bytes.
LEMMA BeginHolds ==
    ASSUME NEW m \in Seq(Byte), Len(m) \in Byte, Begin(m)
    PROVE  BytesInv'
<1>1. pc' = "encode" /\ msg' = m /\ frame' = Preamble \o ook_to_manchester(Len(m))
  BY DEF Begin
<1>2. Holds(frame', Append(<<>>, Len(m)))
  BY <1>1, PreambleHolds, AppendHolds
<1>3. Append(<<>>, Len(m)) = <<Len(m)>>
  OBVIOUS
<1> QED
  BY <1>1, <1>2, <1>3 DEF BytesInv

\* The line ends taken off, what is left is the text typed.
LEMMA TypedIs ==
    ASSUME NEW chunk \in Seq(Byte), NEW n \in 0..Len(chunk),
           \A k \in DOMAIN chunk : k > n => chunk[k] \in LineEnds,
           n > 0 => chunk[n] \notin LineEnds
    PROVE  Typed(chunk) = SubSeq(chunk, 1, n)
<1> DEFINE S == {0} \cup {k \in DOMAIN chunk : chunk[k] \notin LineEnds}
<1>1. DOMAIN chunk = 1..Len(chunk) /\ Len(chunk) \in Nat
  OBVIOUS
<1>2. n \in S /\ \A k \in S : n >= k
  BY <1>1
<1>3. \A m \in S : (\A k \in S : m >= k) => m = n
  BY <1>1, <1>2
<1> HIDE DEF S
<1>4. Max(S) = n
  BY <1>2, <1>3 DEF Max
<1> QED
  BY <1>4 DEF Typed, S

\* Text typed is the chunk up to its last byte that is no line end, if there is one.
LEMMA TypedIsPrefix ==
    ASSUME NEW chunk \in Seq(Byte)
    PROVE  \E n \in 0..Len(chunk) : Typed(chunk) = SubSeq(chunk, 1, n)
<1> DEFINE Ends(n) == \A k \in DOMAIN chunk : k > n => chunk[k] \in LineEnds
           S == {n \in Nat : Ends(n)}
<1>1. Len(chunk) \in S /\ DOMAIN chunk = 1..Len(chunk) /\ Len(chunk) \in Nat
  OBVIOUS
<1>2. PICK n \in S : \A m \in S : n <= m
  BY <1>1, LeastNumber
<1>3. n \in 0..Len(chunk)
  BY <1>1, <1>2
<1>4. n > 0 => chunk[n] \notin LineEnds
  <2> SUFFICES ASSUME n > 0, chunk[n] \in LineEnds PROVE FALSE
    OBVIOUS
  <2>1. \A k \in DOMAIN chunk : k > n - 1 => chunk[k] \in LineEnds
    BY <1>1, <1>2, <1>3
  <2>2. n - 1 \in S
    BY <1>3, <2>1
  <2> QED
    BY <1>2, <1>3, <2>2
<1>5. Typed(chunk) = SubSeq(chunk, 1, n)
  BY <1>2, <1>3, <1>4, TypedIs
<1> QED
  BY <1>3, <1>5

\* What handle_data hands on is the text typed, cut to the length it tells.
LEMMA HandedIsTyped ==
    ASSUME LineInv, CallWithLine
    PROVE  /\ Handed \in Seq(Byte) /\ Len(Handed) \in Byte
           /\ Typed(buffer) # <<>> =>
                Handed = SubSeq(Typed(buffer), 1, Len(Typed(buffer)) % 2^ByteBits)
<1> DEFINE count == rx_len % 2^ByteBits
<1>1. /\ buffer \in Seq(Byte) /\ rx_len \in Int /\ rx_len <= Len(buffer)
      /\ \A k \in DOMAIN buffer : k > rx_len => buffer[k] \in LineEnds
      /\ rx_len > 0 => buffer[rx_len] \notin LineEnds
  BY DEF LineInv, CallWithLine, EndsLine
<1>2. count \in Byte /\ count \in Nat /\ 0 \in Byte
  <2>1. 0 \in Byte
    BY LengthIsByte DEF Byte
  <2> QED
    BY <1>1, <2>1, LengthIsByte
<1>3. Handed = [k \in 1..count |-> IF k <= rx_len THEN buffer[k] ELSE 0]
  BY DEF Handed
<1>4. Handed \in Seq(Byte) /\ Len(Handed) = count
  <2>1. \A k \in 1..count : (IF k <= rx_len THEN buffer[k] ELSE 0) \in Byte
    BY <1>1, <1>2
  <2> HIDE DEF count
  <2> QED
    BY <1>2, <1>3, <2>1
<1>5. ASSUME Typed(buffer) # <<>>
      PROVE  Handed = SubSeq(Typed(buffer), 1, Len(Typed(buffer)) % 2^ByteBits)
  <2>1. rx_len > 0
    <3> SUFFICES ASSUME rx_len <= 0 PROVE FALSE
      BY <1>1
    <3>1. \A k \in DOMAIN buffer : k > 0 => buffer[k] \in LineEnds
      BY <1>1
    <3>2. 0 \in 0..Len(buffer)
      BY <1>1
    <3>3. Typed(buffer) = SubSeq(buffer, 1, 0)
      BY <1>1, <3>1, <3>2, TypedIs
    <3> QED
      BY <1>1, <1>5, <3>3
  <2>2. Typed(buffer) = SubSeq(buffer, 1, rx_len)
    BY <1>1, <2>1, TypedIs
  <2>3. Len(Typed(buffer)) = rx_len /\ \A k \in 1..rx_len : Typed(buffer)[k] = buffer[k]
    BY <1>1, <2>1, <2>2
  <2>4. count <= rx_len
    BY <1>1, <2>1, LengthIsByte
  <2>5. Typed(buffer) \in Seq(Byte)
    BY <1>1, <2>1, <2>2
  <2> HIDE DEF count
  <2>6. SubSeq(Typed(buffer), 1, count) = [k \in 1..count |-> buffer[k]]
    BY <1>2, <2>3, <2>4, <2>5
  <2>7. Handed = [k \in 1..count |-> buffer[k]]
    <3>1. \A k \in 1..count : k <= rx_len
      BY <1>1, <1>2, <2>4
    <3> QED
      BY <1>3, <3>1
  <2> QED
    BY <2>3, <2>6, <2>7 DEF count
<1> QED
  BY <1>2, <1>4, <1>5

\* rs_encode leaves the frame alone and puts the parity behind the message.
LEMMA EncodeKeeps ==
    ASSUME BytesInv, Encode
    PROVE  BytesInv'
<1>1. /\ pc = "encode" /\ pc' = "append" /\ msg' = msg /\ frame' = frame /\ i' = 0
      /\ message_RS' = msg \o parity'
  BY DEF Encode
<1>2. msg \in Seq(Byte) /\ Len(msg) \in Byte /\ Len(msg) \in Nat /\ Holds(frame, <<Len(msg)>>)
  BY <1>1 DEF BytesInv
<1>3. MaxPayload \in Nat /\ ParityBytes \in Nat
  BY FramingAssumption, LengthIsByte
<1>4. /\ parity' \in Seq(Byte)
      /\ IF Len(msg) > MaxPayload THEN parity' = <<>> /\ rs_bytes' = -1
                                  ELSE Len(parity') = ParityBytes /\ rs_bytes' = BlockLength
  <2>1. CASE Len(msg) > MaxPayload
    BY <2>1 DEF Encode
  <2>2. CASE ~(Len(msg) > MaxPayload)
    <3>1. parity' \in Parities(msg) /\ rs_bytes' = BlockLength
      BY <2>2 DEF Encode
    <3>2. msg \in [1..Len(msg) -> Byte]
      BY <1>2
    <3>3. parity' \in [1..ParityBytes -> Byte]
      BY <1>2, <3>1, <3>2, FramingAssumption
    <3> QED
      BY <1>3, <2>2, <3>1, <3>3
  <2> QED
    BY <2>1, <2>2
<1>5. message_RS' \in Seq(Byte) /\ Len(message_RS') \in Nat
  BY <1>1, <1>2, <1>4
<1>6. SubSeq(message_RS', 1, 0) = <<>> /\ <<Len(msg)>> \o <<>> = <<Len(msg)>>
  BY <1>5
<1>7. Holds(frame', <<Len(msg')>> \o SubSeq(message_RS', 1, i'))
  BY <1>1, <1>2, <1>6
<1>8. LoopInv'
  <2>1. i' \in 0..Len(message_RS')
    BY <1>1, <1>5
  <2>2. \A k \in (Len(msg') + 1)..i' : message_RS'[k] # 0
    BY <1>1, <1>2
  <2>3. Len(msg') > MaxPayload => i' < Len(msg')
    BY <1>1, <1>2, <1>3
  <2> QED
    BY <1>1, <1>4, <1>7, <2>1, <2>2, <2>3 DEF LoopInv
<1> QED
  BY <1>1, <1>2, <1>3, <1>4, <1>8 DEF BytesInv

\* In the loop: the types, and that the byte at the counter is one of message and parity
\* unless the loop ends there.
LEMMA LoopFacts ==
    ASSUME BytesInv, pc = "append"
    PROVE  /\ LoopInv /\ msg \in Seq(Byte) /\ Len(msg) \in Byte /\ Len(msg) \in Nat
           /\ MaxPayload \in Nat /\ BlockLength \in Nat /\ ParityBytes <= BlockLength
           /\ message_RS \in Seq(Byte) /\ Len(message_RS) = Len(msg) + Len(parity)
           /\ Len(parity) \in Nat
           /\ ~(Len(msg) > MaxPayload) => Len(parity) <= rs_bytes /\ rs_bytes \in Nat
<1>1. LoopInv /\ msg \in Seq(Byte) /\ Len(msg) \in Byte /\ Len(msg) \in Nat
  BY DEF BytesInv
<1>2. MaxPayload \in Nat /\ BlockLength \in Nat /\ ParityBytes \in Nat /\ ParityBytes <= BlockLength
  BY FramingAssumption, LengthIsByte
<1>3. parity \in Seq(Byte) /\ message_RS = msg \o parity
  BY <1>1 DEF LoopInv
<1>4. /\ message_RS \in Seq(Byte) /\ Len(message_RS) = Len(msg) + Len(parity)
      /\ Len(parity) \in Nat
  BY <1>1, <1>3
<1>5. ~(Len(msg) > MaxPayload) => Len(parity) = ParityBytes /\ rs_bytes = BlockLength
  BY <1>1, <1>2 DEF LoopInv, BytesInv
<1> QED
  BY <1>1, <1>2, <1>4, <1>5

\* A turn of the loop appends one byte.
LEMMA AppendByteKeeps ==
    ASSUME BytesInv, AppendByte
    PROVE  BytesInv'
<1>1. /\ pc = "append" /\ i < Len(msg) + rs_bytes /\ ~AtZero /\ i' = i + 1
      /\ frame' = frame \o ook_to_manchester(RsAt(i))
      /\ UNCHANGED <<pc, msg, parity, message_RS, rs_bytes>>
  BY DEF AppendByte
<1>2. /\ LoopInv /\ msg \in Seq(Byte) /\ Len(msg) \in Byte /\ Len(msg) \in Nat
      /\ MaxPayload \in Nat /\ BlockLength \in Nat /\ ParityBytes <= BlockLength
      /\ message_RS \in Seq(Byte) /\ Len(message_RS) = Len(msg) + Len(parity)
      /\ Len(parity) \in Nat
      /\ ~(Len(msg) > MaxPayload) => Len(parity) <= rs_bytes /\ rs_bytes \in Nat
  BY <1>1, LoopFacts
<1>3. /\ i \in 0..Len(message_RS)
      /\ \A k \in (Len(msg) + 1)..i : message_RS[k] # 0
      /\ Holds(frame, <<Len(msg)>> \o SubSeq(message_RS, 1, i))
      /\ Len(msg) > MaxPayload => rs_bytes = -1
  BY <1>2 DEF LoopInv
<1>4. i < Len(message_RS)
  <2>1. CASE i < Len(msg)
    BY <1>2, <1>3, <2>1
  <2>2. CASE i >= Len(msg)
    BY <1>1, <1>2, <1>3, <2>2 DEF AtZero, RsAt
  <2> QED
    BY <1>2, <1>3, <2>1, <2>2
<1>5. RsAt(i) = message_RS[i + 1] /\ message_RS[i + 1] \in Byte
  BY <1>2, <1>3, <1>4 DEF RsAt
<1>6. SubSeq(message_RS, 1, i + 1) = Append(SubSeq(message_RS, 1, i), message_RS[i + 1])
  BY <1>2, <1>3, <1>4
<1>7. <<Len(msg)>> \o SubSeq(message_RS, 1, i + 1)
        = Append(<<Len(msg)>> \o SubSeq(message_RS, 1, i), message_RS[i + 1])
  <2>1. SubSeq(message_RS, 1, i) \in Seq(Byte) /\ <<Len(msg)>> \in Seq(Byte)
    BY <1>2, <1>3
  <2>2. ASSUME NEW s \in Seq(Byte), NEW t \in Seq(Byte), NEW e \in Byte
        PROVE  s \o Append(t, e) = Append(s \o t, e)
    OBVIOUS
  <2> QED
    BY <1>5, <1>6, <2>1, <2>2
<1>8. Holds(frame', <<Len(msg)>> \o SubSeq(message_RS, 1, i + 1))
  BY <1>1, <1>3, <1>5, <1>7, AppendHolds
<1>9. \A k \in (Len(msg) + 1)..(i + 1) : message_RS[k] # 0
  <2> SUFFICES ASSUME NEW k \in (Len(msg) + 1)..(i + 1) PROVE message_RS[k] # 0
    OBVIOUS
  <2>1. CASE k = i + 1
    BY <1>1, <1>2, <1>3, <1>5, <2>1 DEF AtZero
  <2>2. CASE k # i + 1
    BY <1>2, <1>3, <2>2
  <2> QED
    BY <2>1, <2>2
<1>10. Len(msg) > MaxPayload => i + 1 < Len(msg)
  BY <1>1, <1>2, <1>3
<1>11. LoopInv'
  <2>1. i' \in 0..Len(message_RS')
    BY <1>1, <1>2, <1>3, <1>4
  <2> QED
    BY <1>1, <1>2, <1>8, <1>9, <1>10, <2>1 DEF LoopInv
<1> QED
  BY <1>1, <1>2, <1>11 DEF BytesInv

\* At its end, the loop has met the first zero byte behind the message.
LEMMA StopKeeps ==
    ASSUME BytesInv, StopAtZero \/ StopAtEnd
    PROVE  BytesInv'
<1>1. pc = "append" /\ pc' = "done" /\ UNCHANGED <<msg, parity, message_RS, i, frame>>
  BY DEF StopAtZero, StopAtEnd
<1>2. /\ LoopInv /\ msg \in Seq(Byte) /\ Len(msg) \in Byte /\ Len(msg) \in Nat
      /\ MaxPayload \in Nat /\ BlockLength \in Nat /\ ParityBytes <= BlockLength
      /\ message_RS \in Seq(Byte) /\ Len(message_RS) = Len(msg) + Len(parity)
      /\ Len(parity) \in Nat
      /\ ~(Len(msg) > MaxPayload) => Len(parity) <= rs_bytes /\ rs_bytes \in Nat
  BY <1>1, LoopFacts
<1>3. /\ i \in 0..Len(message_RS) /\ i \in Nat
      /\ Len(msg) > MaxPayload => rs_bytes = -1 /\ i < Len(msg)
  BY <1>2 DEF LoopInv
<1>4. StopAtZero => ~(Len(msg) > MaxPayload)
  BY <1>2, <1>3 DEF StopAtZero, AtZero
<1>5. StopAtEnd => rs_bytes' = rs_bytes /\ i >= Len(msg) + rs_bytes
  BY DEF StopAtEnd
<1>6. EndInv'
  <2>1. CASE StopAtZero
    BY <1>1, <1>4, <2>1 DEF StopAtZero, AtZero, EndInv, RsAt
  <2>2. CASE StopAtEnd /\ Len(msg) > MaxPayload
    <3>1. i = Len(msg) - 1
      BY <1>2, <1>3, <1>5, <2>2
    <3> QED
      BY <1>1, <2>2, <3>1 DEF EndInv
  <2>3. CASE StopAtEnd /\ ~(Len(msg) > MaxPayload)
    <3>1. i >= Len(msg) /\ ~(i < Len(message_RS))
      BY <1>2, <1>3, <1>5, <2>3
    <3> QED
      BY <1>1, <2>3, <3>1 DEF EndInv, RsAt
  <2> QED
    BY <2>1, <2>2, <2>3
<1>7. LoopInv'
  BY <1>1, <1>2, <1>4, <1>5 DEF LoopInv
<1> QED
  BY <1>1, <1>2, <1>6, <1>7 DEF BytesInv

\* No frame has been begun at first.
LEMMA ContentInit == Init => ContentInv
<1>1. Init => BytesInv
  BY DEF Init, BytesInv
<1>2. Init => LineInv
  BY DEF Init, LineInv
<1> QED
  BY <1>1, <1>2 DEF ContentInv

\* Every step keeps the invariant.
LEMMA ContentKept ==
    ASSUME ContentInv, [Next]_vars
    PROVE  ContentInv'
<1>0. BytesInv /\ LineInv
  BY DEF ContentInv
<1>1. CASE ReadFifo
  <2>1. buffer' \in Seq(Byte) /\ rx_len' = Len(buffer') /\ pc' = "strip"
    BY <1>1, FramingAssumption DEF ReadFifo
  <2>2. LineInv'
    BY <2>1 DEF LineInv
  <2> QED
    BY <2>1, <2>2 DEF BytesInv, ContentInv
<1>2. CASE Strip
  <2>1. /\ pc = "strip" /\ pc' = "strip" /\ rx_len' = rx_len - 1 /\ buffer' = buffer
        /\ EndsLine \/ rx_len <= 0
    BY <1>2 DEF Strip, UnderBuffer
  <2>2. /\ buffer \in Seq(Byte) /\ rx_len \in Int /\ rx_len <= Len(buffer)
        /\ \A k \in DOMAIN buffer : k > rx_len => buffer[k] \in LineEnds
    BY <1>0, <2>1 DEF LineInv
  <2>3. \A k \in DOMAIN buffer : k > rx_len - 1 => buffer[k] \in LineEnds
    BY <2>1, <2>2 DEF EndsLine
  <2>4. LineInv'
    BY <2>1, <2>2, <2>3 DEF LineInv
  <2> QED
    BY <2>1, <2>4 DEF BytesInv, ContentInv
<1>3. CASE CallWithLine
  <2>1. Begin(Handed) /\ buffer' = buffer /\ rx_len' = rx_len
    BY <1>3 DEF CallWithLine
  <2>2. msg' = Handed /\ pc' = "encode"
    BY <2>1 DEF Begin
  <2>3. Handed \in Seq(Byte) /\ Len(Handed) \in Byte
    BY <1>0, <1>3, HandedIsTyped
  <2>4. BytesInv'
    BY <2>1, <2>3, BeginHolds
  <2>5. LineInv'
    BY <1>0, <1>3, <2>1, <2>2, HandedIsTyped DEF LineInv
  <2> QED
    BY <2>4, <2>5 DEF ContentInv
<1>4. CASE Call
  <2>1. PICK m \in Payloads : Begin(m) /\ buffer' = <<>> /\ rx_len' = 0
    BY <1>4 DEF Call
  <2>2. m \in Seq(Byte) /\ Len(m) \in Byte
    BY FramingAssumption
  <2>3. BytesInv'
    BY <2>1, <2>2, BeginHolds
  <2>4. Typed(<<>>) = <<>>
    <3>1. <<>> \in Seq(Byte) /\ Len(<<>>) = 0
      OBVIOUS
    <3>2. PICK n \in 0..Len(<<>>) : Typed(<<>>) = SubSeq(<<>>, 1, n)
      BY <3>1, TypedIsPrefix
    <3>3. n = 0 /\ SubSeq(<<>>, 1, 0) = <<>>
      BY <3>1
    <3> QED
      BY <3>2, <3>3
  <2>5. LineInv'
    <3>1. Typed(buffer') = <<>> /\ pc' = "encode"
      BY <2>1, <2>4 DEF Begin
    <3> QED
      BY <2>1, <3>1 DEF LineInv
  <2> QED
    BY <2>3, <2>5 DEF ContentInv
<1>5. CASE Encode
  BY <1>0, <1>5, EncodeKeeps DEF Encode, LineInv, ContentInv
<1>6. CASE AppendByte
  BY <1>0, <1>6, AppendByteKeeps DEF AppendByte, LineInv, ContentInv
<1>7. CASE StopAtZero
  BY <1>0, <1>7, StopKeeps DEF StopAtZero, LineInv, ContentInv
<1>8. CASE StopAtEnd
  BY <1>0, <1>8, StopKeeps DEF StopAtEnd, LineInv, ContentInv
<1>9. CASE UNCHANGED vars
  BY <1>0, <1>9 DEF vars, ContentInv, BytesInv, LineInv, LoopInv, EndInv, RsAt
<1> QED
  BY <1>1, <1>2, <1>3, <1>4, <1>5, <1>6, <1>7, <1>8, <1>9 DEF Next

\* The invariant, by induction on the steps.
LEMMA ContentInvariance == Spec => []ContentInv
BY ContentInit, ContentKept, PTL DEF Spec

-----------------------------------------------------------------------------
\* Up to the first zero byte the parity is what the loop appends.
LEMMA UpToZeroIs ==
    ASSUME NEW s \in Seq(Byte), NEW n \in 0..Len(s), \A k \in 1..n : s[k] # 0,
           n = Len(s) \/ s[n + 1] = 0
    PROVE  UpToZero(s) = SubSeq(s, 1, n)
<1>0. n = Len(s) \/ s[n + 1] = 0
  OBVIOUS
<1>a. n \in Nat /\ (n # Len(s) => n < Len(s) /\ n + 1 \in 1..Len(s))
  <2>1. Len(s) \in Nat
    OBVIOUS
  <2>2. \A len \in Nat : \A m \in 0..len :
          m \in Nat /\ (m # len => m < len /\ m + 1 \in 1..len)
    OBVIOUS
  <2> QED
    BY <2>1, <2>2
<1> DEFINE zeros == {k \in DOMAIN s : s[k] = 0}
<1>1. DOMAIN s = 1..Len(s) /\ Len(s) \in Nat
  OBVIOUS
<1>2. CASE n = Len(s)
  <2>1. zeros = {}
    BY <1>1, <1>2
  <2>2. SubSeq(s, 1, Len(s)) = s
    OBVIOUS
  <2> QED
    BY <1>2, <2>1, <2>2 DEF UpToZero
<1>3. CASE n # Len(s)
  <2>0. zeros \subseteq Nat
    OBVIOUS
  <2>1. n + 1 \in zeros /\ \A k \in zeros : n + 1 <= k
    <3>1. n + 1 \in DOMAIN s /\ s[n + 1] = 0
      BY <1>a, <1>0, <1>1, <1>3
    <3>2. ASSUME NEW k \in zeros
          PROVE  n + 1 <= k
      <4>1. k \in 1..Len(s) /\ k \notin 1..n
        BY <1>1
      <4> QED
        BY <4>1
    <3> QED
      BY <3>1, <3>2
  <2>2. \A m \in zeros : (\A k \in zeros : m <= k) => m = n + 1
    BY <2>0, <2>1
  <2> HIDE DEF zeros
  <2>3. Min(zeros) = n + 1
    BY <2>1, <2>2 DEF Min
  <2>4. Min(zeros) - 1 = n
    BY <2>3
  <2>5. zeros # {}
    BY <2>1
  <2> QED
    BY <2>4, <2>5 DEF UpToZero, zeros
<1> QED
  BY <1>2, <1>3

\* A sequence begins what is put together from it.
LEMMA ConcatIsPrefix ==
    ASSUME NEW S, NEW s \in Seq(S), NEW t \in Seq(S)
    PROVE  IsPrefix(s, s \o t)
<1> DEFINE u == s \o t
<1>1. /\ u \in Seq(S) /\ Len(u) = Len(s) + Len(t) /\ Len(s) \in Nat /\ Len(t) \in Nat
      /\ \A k \in 1..Len(s) : u[k] = s[k]
  BY ConcatProperties
<1> HIDE DEF u
<1>2. Len(s) <= Len(u)
  BY <1>1
<1>3. SubSeq(u, 1, Len(s)) = [k \in 1..Len(s) |-> u[k]]
  BY <1>1, <1>2
<1>4. SubSeq(s, 1, Len(s)) = [k \in 1..Len(s) |-> s[k]]
  BY <1>1
<1>5. SubSeq(s, 1, Len(s)) = SubSeq(u, 1, Len(s))
  BY <1>1, <1>3, <1>4
<1> QED
  BY <1>2, <1>5 DEF IsPrefix, u

\* The part of a sequence of bytes up to the first zero is a sequence of bytes.
LEMMA UpToZeroType ==
    ASSUME NEW s \in Seq(Byte)
    PROVE  UpToZero(s) \in Seq(Byte)
<1> DEFINE zeros == {k \in DOMAIN s : s[k] = 0}
<1>1. CASE zeros = {}
  BY <1>1 DEF UpToZero
<1>2. CASE zeros # {}
  <2>1. zeros \subseteq Nat /\ zeros \subseteq DOMAIN s
    OBVIOUS
  <2>2. PICK least \in zeros : \A k \in zeros : least <= k
    BY <1>2, <2>1, LeastNumber
  <2>3. Min(zeros) \in zeros
    BY <2>2 DEF Min
  <2>4. Min(zeros) - 1 \in 0..Len(s)
    BY <2>1, <2>3
  <2> HIDE DEF zeros
  <2> DEFINE n == Min(zeros) - 1
  <2> HIDE DEF n
  <2>5. SubSeq(s, 1, n) \in Seq(Byte)
    BY <2>4, n \in 0..Len(s) DEF n
  <2> QED
    BY <1>2, <2>5 DEF UpToZero, zeros, n
<1> QED
  BY <1>1, <1>2

\* What a finished frame holds.
LEMMA DoneHolds ==
    ASSUME BytesInv, pc = "done"
    PROVE  FrameBytes = <<Len(msg)>> \o
              (IF Len(msg) > MaxPayload THEN SubSeq(msg, 1, Len(msg) - 1)
                                        ELSE msg \o UpToZero(parity))
<1>1. /\ LoopInv /\ EndInv
      /\ msg \in Seq(Byte) /\ Len(msg) \in Nat /\ MaxPayload \in Nat
  BY FramingAssumption, LengthIsByte DEF BytesInv
<1>2. /\ message_RS = msg \o parity /\ parity \in Seq(Byte)
      /\ i \in 0..Len(message_RS)
      /\ \A k \in (Len(msg) + 1)..i : message_RS[k] # 0
      /\ Holds(frame, <<Len(msg)>> \o SubSeq(message_RS, 1, i))
      /\ Len(msg) > MaxPayload => parity = <<>>
  BY <1>1 DEF LoopInv
<1>3. /\ message_RS \in Seq(Byte) /\ Len(parity) \in Nat
      /\ Len(message_RS) = Len(msg) + Len(parity)
      /\ \A k \in 1..Len(msg) : message_RS[k] = msg[k]
      /\ \A k \in 1..Len(parity) : message_RS[Len(msg) + k] = parity[k]
  BY <1>1, <1>2
<1>4. FrameBytes = <<Len(msg)>> \o SubSeq(message_RS, 1, i)
  BY <1>2, HoldsReadsBack
<1>5. CASE Len(msg) > MaxPayload
  <2>1. i = Len(msg) - 1
    BY <1>1, <1>5 DEF EndInv
  <2>2. message_RS = msg
    BY <1>1, <1>2, <1>5
  <2> QED
    BY <1>4, <1>5, <2>1, <2>2
<1>6. CASE ~(Len(msg) > MaxPayload)
  <2>1. i >= Len(msg) /\ RsAt(i) = 0
    BY <1>1, <1>6 DEF EndInv
  <2> DEFINE n == i - Len(msg)
  <2>2. n \in 0..Len(parity) /\ i = Len(msg) + n
    BY <1>1, <1>2, <1>3, <2>1
  <2> HIDE DEF n
  <2>3. \A k \in 1..n : parity[k] # 0
    <3> SUFFICES ASSUME NEW k \in 1..n PROVE parity[k] # 0
      OBVIOUS
    <3>1. k \in 1..Len(parity) /\ Len(msg) + k \in (Len(msg) + 1)..i
      BY <1>1, <1>3, <2>2
    <3> QED
      BY <1>2, <1>3, <3>1
  <2>4. n = Len(parity) \/ parity[n + 1] = 0
    <3> SUFFICES ASSUME n # Len(parity) PROVE parity[n + 1] = 0
      OBVIOUS
    <3>1. n + 1 \in 1..Len(parity) /\ i < Len(message_RS) /\ i + 1 = Len(msg) + (n + 1)
      BY <1>1, <1>3, <2>2
    <3>2. message_RS[i + 1] = 0
      BY <2>1, <3>1 DEF RsAt
    <3>3. message_RS[Len(msg) + (n + 1)] = parity[n + 1]
      BY <1>3, <3>1
    <3> QED
      BY <3>1, <3>2, <3>3
  <2>5. UpToZero(parity) = SubSeq(parity, 1, n)
    BY <1>2, <2>2, <2>3, <2>4, UpToZeroIs
  <2>6. SubSeq(message_RS, 1, i) = msg \o SubSeq(parity, 1, n)
    <3> DEFINE s == SubSeq(message_RS, 1, i)
               p == SubSeq(parity, 1, n)
               t == msg \o p
    <3>1. s \in Seq(Byte) /\ Len(s) = i /\ \A k \in 1..i : s[k] = message_RS[k]
      BY <1>2, <1>3
    <3>2. p \in Seq(Byte) /\ Len(p) = n /\ \A k \in 1..n : p[k] = parity[k]
      BY <1>2, <1>3, <2>2
    <3> HIDE DEF p
    <3>3. /\ t \in Seq(Byte) /\ Len(t) = i
          /\ \A k \in 1..Len(msg) : t[k] = msg[k]
          /\ \A k \in 1..n : t[Len(msg) + k] = p[k]
      <4>1. p \in Seq(Byte) /\ Len(p) = n /\ n \in Nat
        BY <1>3, <2>2, <3>2
      <4>2. /\ t \in Seq(Byte)
            /\ Len(t) = Len(msg) + Len(p)
            /\ \A k \in 1..(Len(msg) + Len(p)) :
                 t[k] = IF k <= Len(msg) THEN msg[k] ELSE p[k - Len(msg)]
        BY <1>1, <4>1, ConcatProperties
      <4> HIDE DEF t
      <4>3. ASSUME NEW k \in 1..Len(msg) PROVE t[k] = msg[k]
        BY <1>1, <4>1, <4>2
      <4>4. ASSUME NEW k \in 1..n PROVE t[Len(msg) + k] = p[k]
        <5>1. /\ Len(msg) + k \in 1..(Len(msg) + Len(p))
              /\ ~(Len(msg) + k <= Len(msg))
              /\ (Len(msg) + k) - Len(msg) = k
          BY <1>1, <4>1
        <5> QED
          BY <4>2, <5>1
      <4> QED
        BY <1>1, <2>2, <4>1, <4>2, <4>3, <4>4
    <3> HIDE DEF s, t
    <3>4. ASSUME NEW k \in 1..i
          PROVE  s[k] = t[k]
      <4>1. CASE k <= Len(msg)
        BY <1>1, <1>3, <3>1, <3>3, <4>1
      <4>2. CASE k > Len(msg)
        <5>1. k - Len(msg) \in 1..n /\ k - Len(msg) \in 1..Len(parity) /\ k = Len(msg) + (k - Len(msg))
          BY <1>1, <1>3, <2>2, <4>2
        <5>2. s[k] = parity[k - Len(msg)]
          BY <1>3, <3>1, <5>1
        <5>3. t[k] = parity[k - Len(msg)]
          BY <3>2, <3>3, <5>1
        <5> QED
          BY <5>2, <5>3
      <4> QED
        BY <1>1, <4>1, <4>2
    <3>5. s = t
      BY <3>1, <3>3, <3>4
    <3> QED
      BY <3>5 DEF s, t, p
  <2> QED
    BY <1>4, <1>6, <2>5, <2>6
<1> QED
  BY <1>5, <1>6

\* Whatever the width of a byte, the message and its parity, a frame read back gives the
\* length, the whole message and the parity up to its first zero byte
\* (manchester.c:39-69).
THEOREM ReadsBack == Spec => []FrameReadsBack
<1>1. ContentInv => FrameReadsBack
  BY DoneHolds DEF ContentInv, FrameReadsBack
<1> QED
  BY <1>1, ContentInvariance, PTL

\* Whatever the serial line brings, text that the code can encode gets into the frame
\* whole, and longer text loses its end (uarte_controller.c:15-22, manchester.c:34-69).
THEOREM HoldsTypedText == Spec => []FrameHoldsTypedText
<1>1. ContentInv => FrameHoldsTypedText
  <2> SUFFICES ASSUME ContentInv, pc = "done", Typed(buffer) # <<>>
               PROVE  /\ IsPrefix(msg, Typed(buffer))
                      /\ Len(Typed(buffer)) <= MaxPayload =>
                           IsPrefix(<<Len(Typed(buffer))>> \o Typed(buffer), FrameBytes)
    BY DEF FrameHoldsTypedText
  <2> DEFINE typed == Typed(buffer)
             bytes == FrameBytes
  <2>1. BytesInv /\ msg = SubSeq(typed, 1, Len(typed) % 2^ByteBits)
    BY DEF ContentInv, LineInv
  <2>2. typed \in Seq(Byte)
    <3>1. buffer \in Seq(Byte)
      BY DEF ContentInv, LineInv
    <3>2. PICK n \in 0..Len(buffer) : typed = SubSeq(buffer, 1, n)
      BY <3>1, TypedIsPrefix
    <3> QED
      BY <3>1, <3>2
  <2>3. bytes = <<Len(msg)>> \o (IF Len(msg) > MaxPayload THEN SubSeq(msg, 1, Len(msg) - 1)
                                                       ELSE msg \o UpToZero(parity))
    BY <2>1, DoneHolds
  <2>4. UpToZero(parity) \in Seq(Byte)
    <3>1. parity \in Seq(Byte)
      BY <2>1 DEF BytesInv, LoopInv
    <3> QED
      BY <3>1, UpToZeroType
  <2> HIDE DEF typed, bytes
  <2>5. Len(typed) \in Nat /\ Len(typed) % 2^ByteBits \in 0..Len(typed)
    BY <2>2, LengthIsByte
  <2>6. msg \in Seq(Byte) /\ Len(msg) = Len(typed) % 2^ByteBits /\ Len(msg) <= Len(typed)
    BY <2>1, <2>2, <2>5
  <2>7. IsPrefix(msg, typed)
    <3>1. SubSeq(msg, 1, Len(msg)) = msg
      BY <2>6
    <3> QED
      BY <2>1, <2>6, <3>1 DEF IsPrefix
  <2>8. ASSUME Len(typed) <= MaxPayload
        PROVE  IsPrefix(<<Len(typed)>> \o typed, bytes)
    <3>1. MaxPayload \in Nat /\ MaxPayload < 2^ByteBits
      BY FramingAssumption, LengthIsByte DEF Byte
    <3>2. Len(typed) % 2^ByteBits = Len(typed)
      BY <2>5, <2>8, <3>1, LengthIsByte
    <3>3. msg = typed
      BY <2>1, <2>2, <3>2
    <3>4. bytes = <<Len(typed)>> \o (typed \o UpToZero(parity))
      BY <2>3, <2>5, <2>8, <3>1, <3>3
    <3> DEFINE front == <<Len(typed)>> \o typed
    <3>5. <<Len(typed)>> \in Seq(Byte) /\ front \in Seq(Byte)
      <4>1. Len(typed) \in Byte
        BY <2>1, <3>3, <2>5, LengthIsByte, <3>2
      <4> QED
        BY <2>2, <4>1
    <3>6. bytes = front \o UpToZero(parity)
      BY <2>2, <2>4, <3>4, <3>5, ConcatAssociative
    <3> HIDE DEF front
    <3>7. IsPrefix(front, bytes)
      BY <2>4, <3>5, <3>6, ConcatIsPrefix
    <3> QED
      BY <3>7 DEF front
  <2> QED
    BY <2>7, <2>8 DEF typed, bytes
<1> QED
  BY <1>1, ContentInvariance, PTL
=============================================================================
