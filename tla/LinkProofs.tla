----------------------------- MODULE LinkProofs -----------------------------
(***************************************************************************)
(* The receiver in front of the transmitter, for any frames, gaps and      *)
(* printing times: it starts to read at the end of a preamble and nowhere  *)
(* else, reads a whole frame as it was sent, and misses few of those that  *)
(* leave it the time to print.                                             *)
(*                                                                         *)
(* The first rests on the symbols behind a preamble: they come in pairs    *)
(* that differ, and gaps have runs of two, so that three dark symbols in a *)
(* row are a preamble's.  The second relates the reads left, the bits      *)
(* registered and the current run to the position in the frame.  The third *)
(* follows the search from the end of one message to the next preamble,    *)
(* and charges the frames missed to the disturbed samples.                 *)
(***************************************************************************)
EXTENDS Link, InductionLemmas

\* Runs are measured to less than half a symbol, and a preamble's are told from longer ones.
ClearRuns == 2 * Jitter < Ticks /\ MaxPeriods > 2

-----------------------------------------------------------------------------
(* What is on the air. *)

Differ(s, j) == s[2 * j - 1] # s[2 * j]

LEMMA Numbers ==
    /\ ByteBits \in Nat /\ ByteBits > 0
    /\ 2^ByteBits \in Nat /\ 2^ByteBits > 0
    /\ BYTES_RS \in Nat /\ BYTES_RS > 0
    /\ Wrap \in Nat /\ Wrap > 3
    /\ Ticks \in Nat /\ Ticks > 0
    /\ Jitter \in Nat
    /\ MaxPeriods \in Nat
    /\ Byte \subseteq Nat
BY ByteAssumption, ReceiverAssumption DEF Byte

LEMMA Even ==
    ASSUME NEW v \in Nat, v % 2 = 0
    PROVE  v \div 2 \in Nat /\ v = 2 * (v \div 2)
OBVIOUS

\* The code of a byte: pairs of different symbols, the second of them the bit.
LEMMA CodePairs ==
    ASSUME NEW ook
    PROVE  /\ ook_to_manchester(ook) \in Seq(0..1)
           /\ Len(ook_to_manchester(ook)) = 2 * ByteBits
           /\ \A j \in 1..ByteBits :
                /\ Differ(ook_to_manchester(ook), j)
                /\ ook_to_manchester(ook)[2 * j] = 1 <=> SetBit(ook, ByteBits - j)
<1> DEFINE code == ook_to_manchester(ook)
<1>1. ByteBits \in Nat /\ 2 * ByteBits \in Nat
  BY Numbers
<1>2. /\ code \in [1..(2 * ByteBits) -> 0..1]
      /\ \A k \in 1..(2 * ByteBits) :
           code[k] = IF SetBit(ook, ByteBits - (k + 1) \div 2) <=> k % 2 = 0 THEN 1 ELSE 0
  BY DEF ook_to_manchester
<1>3. code \in Seq(0..1) /\ Len(code) = 2 * ByteBits
  BY <1>1, <1>2
<1>4. ASSUME NEW j \in 1..ByteBits
      PROVE  Differ(code, j) /\ (code[2 * j] = 1 <=> SetBit(ook, ByteBits - j))
  <2>1. /\ 2 * j - 1 \in 1..(2 * ByteBits)
        /\ 2 * j \in 1..(2 * ByteBits)
        /\ (2 * j - 1 + 1) \div 2 = j
        /\ (2 * j + 1) \div 2 = j
        /\ (2 * j - 1) % 2 = 1
        /\ (2 * j) % 2 = 0
    BY <1>1
  <2>2. code[2 * j - 1] = IF SetBit(ook, ByteBits - j) <=> FALSE THEN 1 ELSE 0
    BY <1>2, <2>1
  <2>3. code[2 * j] = IF SetBit(ook, ByteBits - j) <=> TRUE THEN 1 ELSE 0
    BY <1>2, <2>1
  <2> QED
    BY <2>2, <2>3 DEF Differ, SetBit
<1> QED
  BY <1>3, <1>4

LEMMA PreambleIs ==
    /\ Preamble \in Seq(0..1) /\ Len(Preamble) = 8
    /\ Preamble[1] = 0 /\ Preamble[2] = 1 /\ Preamble[3] = 1 /\ Preamble[4] = 1
    /\ Preamble[5] = 0 /\ Preamble[6] = 0 /\ Preamble[7] = 0 /\ Preamble[8] = 1
BY DEF Preamble

IsFrame(f) ==
    /\ f.payload \in Seq(Byte) /\ Len(f.payload) \in Byte
    /\ f.parity \in [1..BYTES_RS -> Byte]
    /\ f.sent \in 0..BYTES_RS

LEMMA BytesType ==
    ASSUME NEW f, IsFrame(f)
    PROVE  /\ Bytes(f) \in Seq(Byte)
           /\ Len(Bytes(f)) = 1 + Len(f.payload) + f.sent
           /\ Bytes(f)[1] = Len(f.payload)
<1>1. f.parity \in Seq(Byte) /\ Len(f.parity) = BYTES_RS
  BY Numbers DEF IsFrame
<1>2. /\ SubSeq(f.parity, 1, f.sent) \in Seq(Byte)
      /\ Len(SubSeq(f.parity, 1, f.sent)) = f.sent
  BY <1>1, Numbers DEF IsFrame
<1>3. <<Len(f.payload)>> \in Seq(Byte)
  BY DEF IsFrame
<1> DEFINE head == <<Len(f.payload)>> \o f.payload
<1>4. /\ head \in Seq(Byte) /\ Len(head) = 1 + Len(f.payload) /\ head[1] = Len(f.payload)
  BY <1>3 DEF IsFrame
<1> HIDE DEF head
<1>5. Bytes(f) = head \o SubSeq(f.parity, 1, f.sent)
  BY DEF Bytes, head
<1> QED
  BY <1>2, <1>4, <1>5 DEF IsFrame

\* The symbols of a frame, byte for byte.
LEMMA FrameShape ==
    ASSUME NEW f, IsFrame(f)
    PROVE  /\ FrameSymbols(f) \in Seq(0..1)
           /\ Len(FrameSymbols(f)) = 8 + 2 * ByteBits * Len(Bytes(f))
           /\ \A k \in 1..8 : FrameSymbols(f)[k] = Preamble[k]
           /\ \A b \in 1..Len(Bytes(f)) : \A k \in 1..(2 * ByteBits) :
                FrameSymbols(f)[8 + 2 * ByteBits * (b - 1) + k]
                  = ook_to_manchester(Bytes(f)[b])[k]
<1> DEFINE w == 2 * ByteBits
           codes == [b \in DOMAIN Bytes(f) |-> ook_to_manchester(Bytes(f)[b])]
           rest == FlattenSeq(codes)
<1>1. DOMAIN Bytes(f) = 1..Len(Bytes(f)) /\ Len(Bytes(f)) \in Nat /\ w \in Nat
  BY BytesType, Numbers
<1>2. /\ codes \in Seq(Seq(0..1)) /\ Len(codes) = Len(Bytes(f))
      /\ \A b \in 1..Len(Bytes(f)) : codes[b] = ook_to_manchester(Bytes(f)[b])
      /\ \A b \in 1..Len(codes) : Len(codes[b]) = w
  BY <1>1, CodePairs
<1> HIDE DEF codes, w
<1>3. /\ rest \in Seq(0..1) /\ Len(rest) = w * Len(codes)
      /\ \A b \in 1..Len(codes) : \A k \in 1..w : rest[w * (b - 1) + k] = codes[b][k]
  <2>1. codes \in Seq(Seq(0..1)) /\ w \in Nat /\ Uniform(codes, w)
    BY <1>1, <1>2 DEF Uniform
  <2>2. rest \in Seq(0..1) /\ Placed(rest, codes, w)
    BY <2>1, FlattenType, FlattenUniform
  <2> HIDE DEF rest
  <2> QED
    BY <2>2 DEF Placed
<1>4. FrameSymbols(f) = Preamble \o rest
  BY DEF FrameSymbols, codes
<1>5. Preamble \in Seq(0..1) /\ Len(Preamble) = 8
  BY PreambleIs
<1> HIDE DEF rest
<1>6. /\ FrameSymbols(f) \in Seq(0..1) /\ Len(FrameSymbols(f)) = 8 + Len(rest)
      /\ \A k \in 1..8 : FrameSymbols(f)[k] = Preamble[k]
      /\ \A k \in 1..Len(rest) : FrameSymbols(f)[8 + k] = rest[k]
  <2>1. rest \in Seq(0..1) /\ Len(rest) \in Nat
    BY <1>3
  <2> HIDE DEF rest
  <2>2. /\ Preamble \o rest \in Seq(0..1) /\ Len(Preamble \o rest) = Len(Preamble) + Len(rest)
        /\ \A i \in 1..(Len(Preamble) + Len(rest)) :
             (Preamble \o rest)[i] = IF i <= Len(Preamble) THEN Preamble[i]
                                                          ELSE rest[i - Len(Preamble)]
    BY <1>5, <2>1, ConcatProperties
  <2>3. \A k \in 1..8 : k \in 1..(8 + Len(rest)) /\ k <= 8
    BY <2>1
  <2>4. \A k \in 1..Len(rest) : 8 + k \in 1..(8 + Len(rest)) /\ ~(8 + k <= 8) /\ (8 + k) - 8 = k
    BY <2>1
  <2> QED
    BY <1>4, <1>5, <2>2, <2>3, <2>4
<1>7. ASSUME NEW b \in 1..Len(Bytes(f)), NEW k \in 1..w
      PROVE  FrameSymbols(f)[8 + w * (b - 1) + k] = ook_to_manchester(Bytes(f)[b])[k]
  <2> DEFINE x == w * (b - 1)
             y == w * (Len(codes) - b)
  <2>1. x \in Nat /\ y \in Nat /\ Len(rest) = x + w + y
    BY <1>1, <1>2, <1>3
  <2>2. rest[x + k] = ook_to_manchester(Bytes(f)[b])[k]
    BY <1>2, <1>3
  <2> HIDE DEF x, y
  <2>3. x + k \in 1..Len(rest) /\ 8 + x + k = 8 + (x + k)
    BY <1>1, <2>1
  <2>4. FrameSymbols(f)[8 + x + k] = rest[x + k]
    BY <1>6, <2>3
  <2> QED
    BY <2>2, <2>4 DEF x
<1> QED
  BY <1>2, <1>3, <1>6, <1>7 DEF w

\* A frame is a preamble and pairs of different symbols.
Paired(s) ==
    /\ s \in Seq(0..1)
    /\ Len(s) % 2 = 0 /\ Len(s) >= 8 + 2 * ByteBits
    /\ \A k \in 1..8 : s[k] = Preamble[k]
    /\ \A j \in 4..(Len(s) \div 2) : Differ(s, j)

LEMMA FramePaired ==
    ASSUME NEW f, IsFrame(f)
    PROVE  Paired(FrameSymbols(f))
<1> DEFINE s == FrameSymbols(f)
           n == Len(Bytes(f))
<1>1. n \in Nat /\ n >= 1 /\ ByteBits \in Nat /\ ByteBits > 0
  BY BytesType, Numbers DEF IsFrame
<1>2. /\ s \in Seq(0..1) /\ Len(s) = 8 + 2 * ByteBits * n
      /\ \A k \in 1..8 : s[k] = Preamble[k]
      /\ \A b \in 1..n : \A k \in 1..(2 * ByteBits) :
           s[8 + 2 * ByteBits * (b - 1) + k] = ook_to_manchester(Bytes(f)[b])[k]
  BY FrameShape
<1> HIDE DEF s, n
<1> DEFINE all == ByteBits * n
<1>3. all \in Nat /\ all >= ByteBits /\ 2 * ByteBits * n = 2 * all
  <2>1. all = ByteBits + ByteBits * (n - 1) /\ ByteBits * (n - 1) \in Nat
    BY <1>1
  <2> QED
    BY <1>1, <2>1
<1>4. Len(s) % 2 = 0 /\ Len(s) >= 8 + 2 * ByteBits /\ Len(s) \div 2 = 4 + all
  <2> HIDE DEF all
  <2> QED
    BY <1>1, <1>2, <1>3
<1>5. ASSUME NEW j \in 4..(Len(s) \div 2)
      PROVE  Differ(s, j)
  <2>1. CASE j = 4
    BY <1>2, <2>1, PreambleIs DEF Differ
  <2>2. CASE j # 4
    <3> DEFINE v == j - 5
               q == v \div ByteBits
               r == v % ByteBits
    <3>1. v \in Nat /\ v < all
      BY <1>3, <1>4, <2>2
    <3>2. q \in Nat /\ v = ByteBits * q + r /\ r \in 0..(ByteBits - 1)
      BY <1>1, <3>1, Division
    <3> HIDE DEF v, q, r
    <3>3. q + 1 \in 1..n
      <4>1. CASE q >= n
        <5>1. ByteBits * q = all + ByteBits * (q - n) /\ ByteBits * (q - n) \in Nat
          BY <1>1, <3>2, <4>1
        <5> QED
          BY <1>3, <3>1, <3>2, <5>1
      <4> QED
        BY <1>1, <3>2, <4>1
    <3>4. /\ 2 * (r + 1) - 1 \in 1..(2 * ByteBits) /\ 2 * (r + 1) \in 1..(2 * ByteBits)
          /\ r + 1 \in 1..ByteBits
      BY <1>1, <3>2
    <3> DEFINE base == 8 + 2 * ByteBits * q
    <3>5. base + (2 * (r + 1) - 1) = 2 * j - 1 /\ base + 2 * (r + 1) = 2 * j
      <4>1. 2 * ByteBits * q = 2 * (ByteBits * q) /\ ByteBits * q \in Nat
        BY <1>1, <3>2
      <4>2. j = v + 5 /\ j \in Nat
        BY DEF v
      <4> QED
        BY <3>2, <4>1, <4>2
    <3>6. (q + 1) - 1 = q
      BY <3>2
    <3> HIDE DEF base
    <3>7. \A k \in 1..(2 * ByteBits) : s[base + k] = ook_to_manchester(Bytes(f)[q + 1])[k]
      BY <1>2, <3>3, <3>6 DEF base
    <3> QED
      BY <3>4, <3>5, <3>7, CodePairs DEF Differ
  <2> QED
    BY <2>1, <2>2
<1> QED
  BY <1>2, <1>4, <1>5 DEF Paired, s

InSetup ==
    /\ setup \in Setups /\ sending \in setup.frames
    /\ at \in 1..Len(Stream(sending))

\* Shape of a stream: the frame, then runs of two that begin and end with an edge.
Streamed(s, n) ==
    /\ s \in Seq(0..1) /\ n \in Nat /\ Len(s) \in Nat /\ Len(s) >= n + 4
    /\ n % 2 = 0 /\ n >= 8 + 2 * ByteBits
    /\ \A k \in 1..8 : s[k] = Preamble[k]
    /\ \A j \in 4..(n \div 2) : Differ(s, j)
    /\ s[n + 1] # s[n]
    /\ \A m \in 1..(Len(s) - n - 2) : s[n + m] # s[n + m + 2]
    /\ s[Len(s)] = 1

LEMMA StreamShape ==
    ASSUME setup \in Setups, NEW frame \in setup.frames
    PROVE  /\ IsFrame(frame)
           /\ Streamed(Stream(frame), Len(FrameSymbols(frame)))
           /\ \A k \in 1..Len(FrameSymbols(frame)) : Stream(frame)[k] = FrameSymbols(frame)[k]
           /\ Len(Stream(frame)) >= Len(FrameSymbols(frame)) + 2 * setup.pulses
<1> DEFINE f == FrameSymbols(frame)
           g == GapSymbols(frame)
           p == Pulses(frame)
           n == Len(f)
<1>1. IsFrame(frame) /\ setup.pulses \in Nat /\ setup.pulses > 0 /\ setup.pulses % 2 = 0
  BY LinkAssumption DEF IsFrame
<1>2. Paired(f)
  BY <1>1, FramePaired
<1>3. f \in Seq(0..1) /\ n \in Nat /\ n >= 8 + 2 * ByteBits /\ n % 2 = 0 /\ n > 0
  <2> HIDE DEF f
  <2>1. f \in Seq(0..1) /\ n >= 8 + 2 * ByteBits /\ n % 2 = 0
    BY <1>2 DEF Paired
  <2>2. n \in Nat /\ ByteBits \in Nat
    BY <2>1, Numbers
  <2> QED
    BY <2>1, <2>2
<1>4. Last(f) = f[n] /\ f[n] \in {0, 1}
  BY <1>3 DEF Last
<1>5. p = setup.pulses + 1 - f[n] /\ p \in Nat /\ p >= 2 /\ (f[n] + p) % 2 = 1
  BY <1>1, <1>4 DEF Pulses
<1>6. g = [k \in 1..(2 * p) |-> (f[n] + (k + 1) \div 2) % 2]
  BY <1>4 DEF GapSymbols
<1>7. Stream(frame) = f \o g
  BY DEF Stream
<1> HIDE DEF f, g, p
<1>8. /\ g \in Seq(0..1) /\ Len(g) = 2 * p
      /\ \A k \in 1..(2 * p) : g[k] = (f[n] + (k + 1) \div 2) % 2
  <2>1. ASSUME NEW k \in 1..(2 * p)
        PROVE  (f[n] + (k + 1) \div 2) % 2 \in 0..1
    <3>1. (k + 1) \div 2 \in Nat
      BY <1>5
    <3>2. f[n] + (k + 1) \div 2 \in Nat
      BY <1>4, <3>1
    <3> QED
      BY <3>2
  <2>2. g \in [1..(2 * p) -> 0..1]
    BY <1>6, <2>1
  <2>3. 2 * p \in Nat
    BY <1>5
  <2> QED
    BY <1>6, <2>2, <2>3
<1> DEFINE s == f \o g
<1>9. /\ s \in Seq(0..1) /\ Len(s) = n + 2 * p
      /\ \A k \in 1..n : s[k] = f[k]
      /\ \A k \in 1..(2 * p) : s[n + k] = g[k]
  <2>1. 2 * p \in Nat /\ Len(f) = n /\ n \in Nat
    BY <1>3, <1>5
  <2> HIDE DEF n
  <2>2. /\ s \in Seq(0..1) /\ Len(s) = n + 2 * p
        /\ \A i \in 1..(n + 2 * p) : s[i] = IF i <= n THEN f[i] ELSE g[i - n]
    <3> DEFINE m == 2 * p
    <3>1. f \in Seq(0..1) /\ g \in Seq(0..1) /\ Len(f) = n /\ Len(g) = m
      BY <1>3, <1>8, <2>1
    <3> HIDE DEF m
    <3>2. /\ s \in Seq(0..1) /\ Len(s) = Len(f) + Len(g)
          /\ \A i \in 1..(Len(f) + Len(g)) : s[i] = IF i <= Len(f) THEN f[i] ELSE g[i - Len(f)]
      BY <3>1, ConcatProperties
    <3> QED
      BY <3>1, <3>2 DEF m
  <2>3. \A k \in 1..n : k \in 1..(n + 2 * p) /\ k <= n
    BY <2>1
  <2>4. \A k \in 1..(2 * p) : n + k \in 1..(n + 2 * p) /\ ~(n + k <= n) /\ (n + k) - n = k
    BY <2>1
  <2> QED
    BY <2>2, <2>3, <2>4
<1> HIDE DEF s, n
<1>10. \A k \in 1..8 : s[k] = Preamble[k]
  BY <1>2, <1>3, <1>9, Numbers DEF Paired
<1>11. \A j \in 4..(n \div 2) : Differ(s, j)
  <2> SUFFICES ASSUME NEW j \in 4..(n \div 2) PROVE Differ(s, j)
    OBVIOUS
  <2>1. 2 * j - 1 \in 1..n /\ 2 * j \in 1..n
    <3>1. n \in Nat /\ n = 2 * (n \div 2) /\ n \div 2 \in Nat
      BY <1>3, Even
    <3> QED
      BY <3>1
  <2>2. Differ(f, j)
    BY <1>2 DEF Paired, n
  <2> QED
    BY <1>9, <2>1, <2>2 DEF Differ
<1>12. s[n + 1] # s[n]
  <2>1. g[1] = (f[n] + 1) % 2 /\ s[n + 1] = g[1] /\ s[n] = f[n]
    <3>1. 1 \in 1..(2 * p) /\ n \in 1..n /\ (1 + 1) \div 2 = 1
      BY <1>3, <1>5
    <3> QED
      BY <1>8, <1>9, <3>1
  <2> QED
    BY <1>4, <2>1
<1>13. \A m \in 1..(Len(s) - n - 2) : s[n + m] # s[n + m + 2]
  <2> SUFFICES ASSUME NEW m \in 1..(Len(s) - n - 2) PROVE s[n + m] # s[n + m + 2]
    OBVIOUS
  <2>0. Len(s) = n + 2 * p /\ 2 * p \in Nat
    BY <1>5, <1>9
  <2>1. m \in 1..(2 * p) /\ m + 2 \in 1..(2 * p) /\ n + m + 2 = n + (m + 2)
    <3> DEFINE q == 2 * p
    <3>1. q \in Nat /\ m \in 1..(n + q - n - 2) /\ n \in Nat
      BY <1>3, <2>0
    <3> HIDE DEF q
    <3>2. m \in 1..q /\ m + 2 \in 1..q /\ n + m + 2 = n + (m + 2)
      BY <3>1
    <3> QED
      BY <3>2 DEF q
  <2> DEFINE h == (m + 1) \div 2
  <2>2. h \in Nat /\ (m + 2 + 1) \div 2 = h + 1
    BY <2>1
  <2>3. g[m] = (f[n] + h) % 2 /\ g[m + 2] = (f[n] + (h + 1)) % 2
    BY <1>8, <2>1, <2>2
  <2> HIDE DEF h
  <2>4. g[m] # g[m + 2]
    BY <1>4, <2>2, <2>3
  <2> QED
    BY <1>9, <2>1, <2>4
<1>14. s[Len(s)] = 1
  <2>1. 2 * p \in 1..(2 * p) /\ (2 * p + 1) \div 2 = p
    BY <1>5
  <2> QED
    BY <1>5, <1>8, <1>9, <2>1
<1> QED
  <2>1. Len(s) \in Nat /\ Len(s) >= n + 4
    BY <1>3, <1>5, <1>9
  <2>2. Streamed(s, n)
    BY <1>3, <1>9, <1>10, <1>11, <1>12, <1>13, <1>14, <2>1 DEF Streamed
  <2>3. s = Stream(frame) /\ f = FrameSymbols(frame) /\ n = Len(FrameSymbols(frame))
    BY <1>7 DEF s, n, f
  <2>4. Len(s) >= n + 2 * setup.pulses
    BY <1>1, <1>3, <1>4, <1>5, <1>9
  <2> QED
    BY <1>1, <1>9, <2>2, <2>3, <2>4

\* Three dark symbols and a lit one are the end of a preamble.
LEMMA ThreeDark ==
    ASSUME NEW s, NEW n, Streamed(s, n), NEW k \in 4..Len(s),
           s[k - 3] = 0, s[k - 2] = 0, s[k - 1] = 0, s[k] = 1
    PROVE  k = 8
<1>1. /\ n \in Nat /\ Len(s) \in Nat /\ n % 2 = 0 /\ n >= 8 /\ k \in Nat /\ k >= 4
      /\ \A i \in 1..8 : s[i] = Preamble[i]
      /\ \A j \in 4..(n \div 2) : s[2 * j - 1] # s[2 * j]
      /\ s[n + 1] # s[n]
      /\ \A m \in 1..(Len(s) - n - 2) : s[n + m] # s[n + m + 2]
  BY Numbers DEF Streamed, Differ
<1>2. CASE k < 8
  <2>1. k \in {4, 5, 6, 7}
    BY <1>1, <1>2
  <2>2. s[2] = 1 /\ s[3] = 1 /\ s[4] = 1
    BY <1>1, PreambleIs
  <2> QED
    BY <2>1, <2>2
<1>3. CASE k > 8 /\ k - 1 <= n
  <2>1. CASE k % 2 = 0
    <3> DEFINE j == k \div 2 - 1
    <3>1. k \div 2 \in Nat /\ k = 2 * (k \div 2) /\ n = 2 * (n \div 2) /\ n \div 2 \in Nat
      BY <1>1, <2>1, Even
    <3>2. j \in 4..(n \div 2) /\ 2 * j = k - 2 /\ 2 * j - 1 = k - 3
      BY <1>3, <3>1
    <3> HIDE DEF j
    <3>3. s[2 * j - 1] # s[2 * j]
      BY <1>1, <3>2
    <3> QED
      BY <3>2, <3>3
  <2>2. CASE k % 2 = 1
    <3> DEFINE j == (k - 1) \div 2
    <3>0. k \in Nat /\ k >= 4 /\ k % 2 = 1
      BY <1>1, <2>2
    <3>1. k - 1 \in Nat /\ (k - 1) % 2 = 0
      BY <3>0
    <3>2. j \in Nat /\ 2 * j = k - 1 /\ n = 2 * (n \div 2) /\ n \div 2 \in Nat
      BY <1>1, <3>1, Even
    <3> HIDE DEF j
    <3>3. j \in 4..(n \div 2) /\ 2 * j - 1 = k - 2
      BY <1>1, <1>3, <3>2
    <3>4. s[2 * j - 1] # s[2 * j]
      BY <1>1, <3>3
    <3> QED
      BY <3>2, <3>3, <3>4
  <2> QED
    BY <1>1, <2>1, <2>2
<1>4. CASE k - 1 = n + 1 \/ k - 1 = n + 2
  BY <1>1, <1>4
<1>5. CASE k - 1 > n + 2
  <2>1. k - n - 3 \in 1..(Len(s) - n - 2) /\ n + (k - n - 3) = k - 3 /\ n + (k - n - 3) + 2 = k - 1
    BY <1>1, <1>5
  <2> QED
    BY <1>1, <2>1
<1> QED
  BY <1>1, <1>2, <1>3, <1>4, <1>5

-----------------------------------------------------------------------------
(* The search. *)

\* A run measured as one of a preamble is longer than two symbols, and read as such.
LEMMA PreambleRun ==
    ASSUME ClearRuns, NEW t \in Nat, NEW took \in Measured(t), NrPeriods(took) = 3
    PROVE  t > 2 * Ticks /\ ~OneSymbol(took) /\ ~TwoSymbols(took)
<1>1. /\ Ticks \in Nat /\ Ticks > 0 /\ Jitter \in Nat /\ Wrap \in Nat /\ Wrap > 3
      /\ 2 * Jitter < Ticks
  BY Numbers DEF ClearRuns
<1>2. took \in Nat /\ took <= t + Jitter
  BY <1>1 DEF Measured
<1> DEFINE v == 2 * took + Ticks
           p == 2 * Ticks
           q == v \div p
<1>3. v \in Nat /\ p \in Nat /\ p > 0
  BY <1>1, <1>2
<1>4. q \in Nat /\ v = p * q + (v % p) /\ v % p \in 0..(p - 1)
  BY <1>3, Division
<1>5. q % Wrap = 3
  BY DEF NrPeriods
<1> HIDE DEF q, v, p
<1>6. q >= 3
  <2>1. q = Wrap * (q \div Wrap) + (q % Wrap) /\ q \div Wrap \in Nat
    BY <1>1, <1>4, Division
  <2>2. Wrap * (q \div Wrap) \in Nat
    BY <1>1, <2>1
  <2> QED
    BY <1>4, <1>5, <2>1, <2>2
<1>7. p * q = 3 * p + p * (q - 3) /\ p * (q - 3) \in Nat
  BY <1>3, <1>4, <1>6
<1>8. v >= 3 * p
  BY <1>3, <1>4, <1>7
<1>9. 2 * took + Ticks >= 6 * Ticks
  BY <1>1, <1>2, <1>8 DEF v, p
<1> QED
  BY <1>1, <1>2, <1>9 DEF OneSymbol, TwoSymbols

\* While the search waits for light again, it has seen dark for as many symbols as
\* it counts ticks for, up to three.
DarkFor(s, k, t) ==
    /\ k > 1 /\ s[k - 1] = 0
    /\ t <= Ticks
         \/ /\ k > 2 /\ s[k - 2] = 0
            /\ t <= 2 * Ticks \/ (k > 3 /\ s[k - 3] = 0)

SearchInv ==
    /\ since \in Nat /\ blind \in Nat
    /\ last_state \in BOOLEAN /\ is_high \in BOOLEAN
    /\ mode # "preamble" \/ blind > 0 => ~last_state
    /\ mode = "preamble" =>
         /\ is_high /\ decoded = <<>>
         /\ last_state => DarkFor(Stream(sending), at, since)

LockInv == InSetup /\ SearchInv

LEMMA StreamSame ==
    ASSUME setup' = setup, sending' = sending
    PROVE  Stream(sending)' = Stream(sending)
BY DEF Stream, GapSymbols, Pulses

LEMMA LongerType ==
    ASSUME since \in Nat
    PROVE  Longer \in Nat /\ Longer <= since + Ticks
BY Numbers DEF Longer

\* The next symbol is one of a stream; behind the last one of a stream, which is lit,
\* the next stream begins.
LEMMA SendMoves ==
    ASSUME InSetup, Send
    PROVE  /\ InSetup'
           /\ setup' = setup
           /\ Stream(sending)[at] # 1 =>
                at' = at + 1 /\ Stream(sending)' = Stream(sending)
<1> DEFINE n == Len(FrameSymbols(sending))
<1>1. Streamed(Stream(sending), n)
  BY StreamShape DEF InSetup
<1>2. Stream(sending)[Len(Stream(sending))] = 1 /\ Len(Stream(sending)) \in Nat
  BY <1>1 DEF Streamed
<1>3. setup' = setup
  BY DEF Send, Symbol, LastSymbol, Light
<1>4. CASE Symbol
  <2>1. at < Len(Stream(sending)) /\ at' = at + 1 /\ sending' = sending
    BY <1>4 DEF Symbol
  <2>2. Stream(sending)' = Stream(sending)
    BY <1>3, <2>1, StreamSame
  <2> QED
    BY <1>2, <1>3, <2>1, <2>2 DEF InSetup
<1>5. CASE LastSymbol
  <2>1. at = Len(Stream(sending)) /\ at' = 1 /\ sending' \in setup.frames
    BY <1>5 DEF LastSymbol
  <2>2. Stream(sending)' = Stream(sending')
    BY <1>3 DEF Stream, GapSymbols, Pulses
  <2>3. Streamed(Stream(sending'), Len(FrameSymbols(sending')))
    BY <2>1, StreamShape DEF InSetup
  <2>4. Len(Stream(sending')) \in Nat /\ Len(Stream(sending')) >= 1
    BY <2>3 DEF Streamed
  <2>5. at' \in 1..Len(Stream(sending)')
    BY <2>1, <2>2, <2>4
  <2> QED
    BY <1>2, <1>3, <2>1, <2>5 DEF InSetup
<1> QED
  BY <1>4, <1>5 DEF Send

\* One symbol seen keeps the search's account of the dark.
LEMMA SeeKeepsSearch ==
    ASSUME LockInv, Send
    PROVE  SearchInv'
<1> DEFINE s == Stream(sending)
           lit == s[at] = 1
<1>0. Ticks \in Nat /\ Ticks > 0
  BY Numbers
<1>1. /\ since \in Nat /\ blind \in Nat /\ last_state \in BOOLEAN /\ is_high \in BOOLEAN
      /\ mode # "preamble" \/ blind > 0 => ~last_state
      /\ mode = "preamble" => is_high /\ decoded = <<>>
      /\ mode = "preamble" /\ last_state => DarkFor(s, at, since)
  BY DEF LockInv, SearchInv
<1>2. See(lit)
  BY DEF Send, Symbol, LastSymbol, Light
<1>3. Longer \in Nat /\ Longer <= since + Ticks
  BY <1>1, LongerType
<1>4. s \in Seq(0..1) /\ at \in 1..Len(s) /\ s[at] \in {0, 1}
  <2>1. Streamed(s, Len(FrameSymbols(sending)))
    BY StreamShape DEF LockInv, InSetup
  <2>2. s \in Seq(0..1) /\ at \in 1..Len(s)
    BY <2>1 DEF Streamed, LockInv, InSetup
  <2> QED
    BY <2>2
<1>5. ~lit => s[at] = 0 /\ at' = at + 1 /\ Stream(sending)' = s
  BY <1>4, SendMoves DEF LockInv
<1> HIDE DEF lit, s
<1>6. CASE SearchOn(lit)
  <2>1. /\ mode = "preamble" /\ mode' = mode /\ since' = Longer
        /\ last_state' = last_state /\ is_high' = is_high /\ decoded' = decoded
        /\ blind' = IF blind > 0 THEN blind - 1 ELSE 0
        /\ blind > 0 \/ lit = ~last_state
    BY <1>6 DEF SearchOn, decoder
  <2>2. ASSUME last_state
        PROVE  DarkFor(Stream(sending)', at', since') /\ blind' = 0
    <3>1. blind = 0 /\ ~lit /\ DarkFor(s, at, since)
      <4>1. blind = 0
        BY <1>1, <2>2
      <4>2. ~lit
        BY <2>1, <2>2, <4>1, ~(0 > 0)
      <4> QED
        BY <1>1, <2>1, <2>2, <4>1, <4>2
    <3>2. DarkFor(s, at + 1, Longer)
      <4>1. at \in Nat /\ (at + 1) - 1 = at /\ (at + 1) - 2 = at - 1 /\ (at + 1) - 3 = at - 2
        BY <1>4
      <4>2. s[at] = 0
        BY <1>5, <3>1
      <4> QED
        BY <1>0, <1>1, <1>3, <3>1, <4>1, <4>2 DEF DarkFor
    <3> QED
      BY <1>5, <2>1, <3>1, <3>2
  <2> QED
    BY <1>1, <1>3, <2>1, <2>2 DEF SearchInv
<1>7. CASE \E late \in 0..(Ticks - 1) :
             AnyEdge(lit, late) \/ StartReading(lit, late) \/ SearchAgain(lit, late)
  <2>1. PICK late \in 0..(Ticks - 1) :
          AnyEdge(lit, late) \/ StartReading(lit, late) \/ SearchAgain(lit, late)
    BY <1>7
  <2>2. SearchEdge(lit, late) /\ is_high' = is_high /\ decoded' = decoded
    BY <2>1 DEF AnyEdge, StartReading, SearchAgain, Found, decoder
  <2>3. /\ mode = "preamble" /\ last_state' = ~lit
        /\ since' = Ticks - late /\ since' \in Nat /\ since' <= Ticks
    BY <1>0, <2>2 DEF SearchEdge
  <2>4. CASE lit
    <3>1. blind' \in Nat
      BY <2>1, Numbers DEF AnyEdge, StartReading, SearchAgain, Filling
    <3> QED
      BY <1>1, <2>2, <2>3, <2>4, <3>1 DEF SearchInv
  <2>5. CASE ~lit
    <3>1. mode' = "preamble" /\ blind' = 0
      BY <2>1, <2>3, <2>5 DEF AnyEdge, StartReading, SearchAgain, Found
    <3>2. DarkFor(s, at + 1, since')
      <4>1. at \in Nat /\ at + 1 > 1 /\ (at + 1) - 1 = at
        BY <1>4
      <4> QED
        BY <1>5, <2>3, <2>5, <4>1 DEF DarkFor
    <3> QED
      BY <1>1, <1>5, <2>2, <2>3, <2>5, <3>1, <3>2 DEF SearchInv
  <2> QED
    BY <2>4, <2>5
<1>8. CASE \/ ReadOn(lit) \/ ReadMore(lit) \/ LengthComplete(lit) \/ PayloadComplete(lit)
           \/ Printing
  <2>1. /\ mode # "preamble" /\ mode' # "preamble"
        /\ blind' = blind /\ last_state' = last_state
    BY <1>8 DEF ReadOn, ReadMore, LengthComplete, PayloadComplete, Printing, ReadEdge, search
  <2>2. since' \in Nat /\ is_high' \in BOOLEAN
    BY <1>0, <1>1, <1>3, <1>8
       DEF ReadOn, ReadMore, LengthComplete, PayloadComplete, Printing, ReadEdge, decoder
  <2> QED
    BY <1>1, <2>1, <2>2 DEF SearchInv
<1> QED
  BY <1>2, <1>6, <1>7, <1>8 DEF See

LEMMA LockStart == Init => LockInv
<1> SUFFICES ASSUME Init PROVE LockInv
  OBVIOUS
<1>1. setup \in Setups /\ sending \in setup.frames
  BY DEF Init
<1>2. Streamed(Stream(sending), Len(FrameSymbols(sending)))
  BY <1>1, StreamShape
<1>3. at \in 1..Len(Stream(sending))
  BY <1>2 DEF Init, Streamed
<1>4. SearchInv
  BY DEF Init, ReceiverInit, SearchInv, Filling
<1> QED
  BY <1>1, <1>3, <1>4 DEF LockInv, InSetup

LEMMA LockKept == LockInv /\ [Next]_linkVars => LockInv'
<1> SUFFICES ASSUME LockInv, [Next]_linkVars PROVE LockInv'
  OBVIOUS
<1>1. CASE Send
  BY <1>1, SendMoves, SeeKeepsSearch DEF LockInv
<1>2. CASE Receive
  <2>1. /\ setup' = setup /\ sending' = sending /\ at' = at
        /\ blind' = Filling /\ is_high' = TRUE /\ decoded' = <<>> /\ mode = "print"
        /\ since' = since /\ last_state' = last_state
    BY <1>2 DEF Receive, Loop
  <2>2. Stream(sending)' = Stream(sending)
    BY <2>1, StreamSame
  <2> QED
    BY <2>1, <2>2 DEF LockInv, InSetup, SearchInv, Filling
<1>3. CASE UNCHANGED linkVars
  <2>1. /\ setup' = setup /\ sending' = sending /\ at' = at /\ mode' = mode
        /\ blind' = blind /\ is_high' = is_high /\ decoded' = decoded
        /\ since' = since /\ last_state' = last_state
    BY <1>3 DEF linkVars, receiver, search, decoder
  <2>2. Stream(sending)' = Stream(sending)
    BY <2>1, StreamSame
  <2> QED
    BY <2>1, <2>2 DEF LockInv, InSetup, SearchInv
<1> QED
  BY <1>1, <1>2, <1>3 DEF Next

\* A pattern that is found ends with three dark symbols and a lit one.
LEMMA FoundAtPreamble ==
    ASSUME ClearRuns, LockInv, NEW late \in 0..(Ticks - 1), NEW took \in Measured(since + late),
           NEW dark \in BOOLEAN, Found(Stream(sending)[at] = 1, late, took, dark)
    PROVE  /\ at = 8 /\ Stream(sending)[8] = 1
           /\ is_high /\ decoded = <<>> /\ ~TwoSymbols(took)
           /\ since' = Ticks
<1> DEFINE s == Stream(sending)
           lit == s[at] = 1
<1>1. lit /\ last_state /\ blind = 0 /\ late = 0 /\ since' = Ticks /\ mode = "preamble"
  <2>1. lit /\ SearchEdge(lit, late)
    BY DEF Found
  <2> QED
    BY <2>1, Numbers DEF SearchEdge, LockInv, SearchInv
<1>2. NrPeriods(took) = 3
  <2>1. pattern_detect' = <<pattern_detect[2], NrPeriods(took)>> /\ pattern_detect' = <<3, 3>>
    BY DEF Found, NotePeriods, PREAMBLE_PATTERN
  <2>2. <<pattern_detect[2], NrPeriods(took)>>[2] = <<3, 3>>[2]
    BY <2>1
  <2> QED
    BY <2>2
<1>3. since \in Nat /\ DarkFor(s, at, since) /\ is_high /\ decoded = <<>>
  BY <1>1 DEF LockInv, SearchInv
<1>4. since + late = since
  BY <1>1, <1>3
<1>5. since > 2 * Ticks /\ ~TwoSymbols(took)
  BY <1>2, <1>3, <1>4, PreambleRun
<1>6. /\ Streamed(s, Len(FrameSymbols(sending)))
      /\ at \in 1..Len(s)
  BY StreamShape DEF LockInv, InSetup
<1>7. /\ at > 3 /\ s[at - 3] = 0 /\ s[at - 2] = 0 /\ s[at - 1] = 0 /\ s[at] = 1
  BY <1>1, <1>3, <1>5, Numbers DEF DarkFor
<1>8. at \in 4..Len(s)
  BY <1>6, <1>7
<1>9. at = 8
  BY <1>6, <1>7, <1>8, ThreeDark
<1> QED
  BY <1>1, <1>3, <1>5, <1>7, <1>9

\* Whoever starts to read is at the end of a preamble.
LEMMA LockAtPreamble ==
    ASSUME ClearRuns, LockInv, Next, Locks
    PROVE  /\ at = 8 /\ Stream(sending)[8] = 1 /\ Send
           /\ is_high' /\ is_high' = is_high /\ decoded' = <<>> /\ uneven' = TRUE
           /\ incoming_reads' = 2 * ByteBits - 1 /\ since' = Ticks
<1> DEFINE lit == Stream(sending)[at] = 1
<1>1. Send /\ See(lit)
  BY DEF Next, Receive, Loop, Send, Symbol, LastSymbol, Light, Locks
<1>2. PICK late \in 0..(Ticks - 1) : StartReading(lit, late)
  BY <1>1 DEF See, Locks, SearchOn, AnyEdge, SearchAgain, ReadOn, ReadMore, LengthComplete,
              PayloadComplete, Printing, ReadEdge
<1>3. PICK took \in Measured(since + late), dark \in BOOLEAN :
        /\ Found(lit, late, took, dark)
        /\ uneven' = ~TwoSymbols(took)
        /\ incoming_reads' = MANCHESTER_BITS_LENGTH - 1
        /\ UNCHANGED <<is_high, decoded>>
  BY <1>2 DEF StartReading
<1>4. /\ at = 8 /\ Stream(sending)[8] = 1
      /\ is_high /\ decoded = <<>> /\ ~TwoSymbols(took)
      /\ since' = Ticks
  BY <1>3, FoundAtPreamble
<1> QED
  BY <1>1, <1>3, <1>4 DEF MANCHESTER_BITS_LENGTH

\* The receiver starts to read only at the last symbol of a preamble, wherever it was switched
\* on and whatever was cut, missed or disturbed before, if runs are measured clearly
\* (read_preamble's pattern against the runs of construct_frame and toggle_dmd).
THEOREM LocksOnlyOnPreamble ==
    ASSUME ClearRuns
    PROVE  Spec => LocksOnPreamble
<1>1. LockInv /\ [Next]_linkVars => [Locks => at = Len(Preamble)]_linkVars
  BY LockAtPreamble, PreambleIs
<1> QED
  BY <1>1, LockStart, LockKept, PTL DEF Spec, LocksOnPreamble

-----------------------------------------------------------------------------
(* What a frame holds, bit for bit. *)

\* The powers of two a byte is put together from are positive numbers.
LEMMA Powers == \A n \in 0..ByteBits : 2^n \in Nat /\ 2^n > 0
<1> DEFINE Good == {n \in Nat : n <= ByteBits => 2^n \in Nat /\ 2^n > 0}
<1>0. ByteBits \in Nat
  BY Numbers
<1>1. 0 \in Good
  BY PowersAssumption
<1>2. ASSUME NEW n \in Nat, n \in Good
      PROVE  n + 1 \in Good
  <2> SUFFICES ASSUME n + 1 <= ByteBits
               PROVE  2^(n + 1) \in Nat /\ 2^(n + 1) > 0
    OBVIOUS
  <2>1. 2^(n + 1) = 2 * 2^n
    BY <1>0, PowersAssumption
  <2>2. 2^n \in Nat /\ 2^n > 0
    BY <1>0, <1>2
  <2> QED
    BY <2>1, <2>2
<1> HIDE DEF Good
<1>3. Nat \subseteq Good
  BY <1>1, <1>2, SetInduction
<1> QED
  BY <1>0, <1>3 DEF Good

\* Bytes with the same bits are the same.
LEMMA SameBits ==
    ASSUME NEW a \in Byte, NEW c \in Byte,
           \A j \in 0..(ByteBits - 1) : SetBit(a, j) <=> SetBit(c, j)
    PROVE  a = c
<1> DEFINE Good == {n \in Nat : n <= ByteBits =>
                      a \div 2^(ByteBits - n) = c \div 2^(ByteBits - n)}
<1>0. /\ ByteBits \in Nat /\ 2^ByteBits \in Nat /\ 2^ByteBits > 0
      /\ a \in Nat /\ c \in Nat /\ a < 2^ByteBits /\ c < 2^ByteBits
  <2> DEFINE top == 2^ByteBits
  <2>1. top \in Nat /\ top > 0 /\ Byte = 0..(top - 1)
    BY Numbers DEF Byte
  <2> HIDE DEF top
  <2>2. a \in Nat /\ c \in Nat /\ a < top /\ c < top
    BY <2>1
  <2> QED
    BY <2>1, <2>2, Numbers DEF top
<1>1. 0 \in Good
  <2> DEFINE top == 2^ByteBits
  <2>1. top \in Nat /\ top > 0 /\ a < top /\ c < top /\ ByteBits - 0 = ByteBits
    BY <1>0
  <2> HIDE DEF top
  <2>2. ASSUME NEW v \in Nat, v < top
        PROVE  v \div top = 0
    <3>1. v = top * 0 + v
      BY <2>1, <2>2
    <3>2. (top * 0 + v) \div top = 0
      BY <2>1, <2>2, Quotient
    <3> QED
      BY <3>1, <3>2
  <2>3. a \div top = c \div top
    BY <1>0, <2>1, <2>2
  <2> QED
    BY <2>1, <2>3 DEF top
<1>2. ASSUME NEW n \in Nat, n \in Good
      PROVE  n + 1 \in Good
  <2> SUFFICES ASSUME n + 1 <= ByteBits
               PROVE  a \div 2^(ByteBits - (n + 1)) = c \div 2^(ByteBits - (n + 1))
    OBVIOUS
  <2> DEFINE k == ByteBits - (n + 1)
             p == 2^k
  <2>1. k \in 0..(ByteBits - 1) /\ k + 1 = ByteBits - n
    BY <1>0
  <2>2. p \in Nat /\ p > 0 /\ 2^(ByteBits - n) = 2 * p
    BY <1>0, <2>1, Powers, PowersAssumption
  <2>3. a \div (2 * p) = c \div (2 * p)
    BY <1>0, <1>2, <2>2
  <2>4. (a \div p) % 2 = 1 <=> (c \div p) % 2 = 1
    BY <2>1 DEF SetBit
  <2> HIDE DEF k, p
  <2>5. a \div p = 2 * (a \div (2 * p)) + ((a \div p) % 2)
    BY <1>0, <2>2, Halves
  <2>6. c \div p = 2 * (c \div (2 * p)) + ((c \div p) % 2)
    BY <1>0, <2>2, Halves
  <2>7. (a \div p) % 2 \in {0, 1} /\ (c \div p) % 2 \in {0, 1}
    <3>1. a \div p \in Nat /\ c \div p \in Nat
      BY <1>0, <2>2, Division
    <3> QED
      BY <3>1
  <2>8. a \div p = c \div p
    BY <2>3, <2>4, <2>5, <2>6, <2>7
  <2> QED
    BY <2>8 DEF p, k
<1> HIDE DEF Good
<1>3. Nat \subseteq Good
  BY <1>1, <1>2, SetInduction
<1>4. a \div 2^(ByteBits - ByteBits) = c \div 2^(ByteBits - ByteBits)
  <2>1. ByteBits \in Nat /\ ByteBits <= ByteBits
    BY <1>0
  <2>2. ByteBits \in Good
    BY <1>3, <2>1
  <2> QED
    BY <2>1, <2>2 DEF Good
<1>5. ByteBits - ByteBits = 0 /\ 2^0 = 1
  BY <1>0, PowersAssumption
<1>6. a \div 1 = c \div 1
  BY <1>4, <1>5
<1> QED
  BY <1>0, <1>6

\* The second symbol of each pair behind the preamble is a bit of a byte.
LEMMA SecondSymbol ==
    ASSUME NEW f, IsFrame(f), NEW b \in 1..Len(Bytes(f)), NEW j \in 1..ByteBits
    PROVE  FrameSymbols(f)[8 + 2 * ByteBits * (b - 1) + 2 * j] = 1
             <=> SetBit(Bytes(f)[b], ByteBits - j)
<1>1. 2 * j \in 1..(2 * ByteBits)
  BY Numbers
<1>2. FrameSymbols(f)[8 + 2 * ByteBits * (b - 1) + 2 * j] = ook_to_manchester(Bytes(f)[b])[2 * j]
  BY <1>1, FrameShape
<1> QED
  BY <1>2, CodePairs

\* One element in front moves the others on by one.
OneMore(t, u) == Len(t) = Len(u) + 1 /\ \A b \in 1..Len(u) : t[b + 1] = u[b]

LEMMA OneInFront ==
    ASSUME NEW S, NEW v \in S, NEW a \in Seq(S), NEW c \in Seq(S)
    PROVE  OneMore((<<v>> \o a) \o c, a \o c)
BY DEF OneMore

\* The bits behind the length of a whole frame are those of its payload and parity.
LEMMA BitsAreSent ==
    ASSUME NEW f, IsFrame(f), Whole(f), NEW d \in Seq(BOOLEAN),
           Len(d) = ByteBits * (Len(f.payload) + BYTES_RS),
           \A m \in 1..Len(d) : d[m] <=> FrameSymbols(f)[8 + 2 * ByteBits + 2 * m] = 1
    PROVE  d = FlattenSeq([b \in 1..(Len(f.payload) + BYTES_RS) |->
                              Bits((f.payload \o f.parity)[b])])
<1> DEFINE bytes == f.payload \o f.parity
           count == Len(f.payload) + BYTES_RS
           pieces == [b \in 1..count |-> Bits(bytes[b])]
           joined == FlattenSeq(pieces)
<1>1. /\ f.payload \in Seq(Byte) /\ Len(f.payload) \in Nat
      /\ f.parity \in Seq(Byte) /\ Len(f.parity) = BYTES_RS /\ f.sent = BYTES_RS
      /\ BYTES_RS \in Nat /\ ByteBits \in Nat /\ ByteBits > 0
  <2>1. /\ f.payload \in Seq(Byte) /\ Len(f.payload) \in Byte
        /\ f.parity \in [1..BYTES_RS -> Byte] /\ f.sent = BYTES_RS
    BY DEF IsFrame, Whole
  <2>2. /\ BYTES_RS \in Nat /\ ByteBits \in Nat /\ ByteBits > 0
        /\ Byte \subseteq Nat
    BY Numbers
  <2>3. f.parity \in Seq(Byte) /\ Len(f.parity) = BYTES_RS
    BY <2>1, <2>2
  <2> QED
    BY <2>1, <2>2, <2>3
<1>2. count \in Nat /\ bytes \in Seq(Byte) /\ Len(bytes) = count
  <2>0. f.payload \in Seq(Byte) /\ f.parity \in Seq(Byte)
    BY <1>1
  <2>1. \A a, c \in Seq(Byte) :
          a \o c \in Seq(Byte) /\ Len(a \o c) = Len(a) + Len(c)
    BY ConcatProperties
  <2>2. bytes \in Seq(Byte) /\ Len(bytes) = Len(f.payload) + Len(f.parity)
    BY Zenon, <2>0, <2>1
  <2> HIDE DEF bytes
  <2> QED
    BY <1>1, <2>2
<1>3. OneMore(Bytes(f), bytes)
  <2>1. SubSeq(f.parity, 1, BYTES_RS) = f.parity
    BY <1>1
  <2>2. Bytes(f) = (<<Len(f.payload)>> \o f.payload) \o f.parity
    BY <1>1, <2>1 DEF Bytes
  <2>3. Len(f.payload) \in Byte /\ f.payload \in Seq(Byte) /\ f.parity \in Seq(Byte)
    BY <1>1 DEF IsFrame
  <2> QED
    BY <2>2, <2>3, OneInFront
<1> HIDE DEF bytes
<1>4. Len(Bytes(f)) = count + 1 /\ \A b \in 1..count : Bytes(f)[b + 1] = bytes[b]
  BY <1>2, <1>3 DEF OneMore
<1> HIDE DEF count
<1>5. \A v : Bits(v) \in Seq(BOOLEAN) /\ Len(Bits(v)) = ByteBits
             /\ \A j \in 1..ByteBits : Bits(v)[j] = SetBit(v, ByteBits - j)
  BY <1>1 DEF Bits, SetBit
<1>6. /\ pieces \in Seq(Seq(BOOLEAN)) /\ Len(pieces) = count /\ Uniform(pieces, ByteBits)
      /\ \A b \in 1..count : pieces[b] = Bits(bytes[b])
  BY <1>2, <1>5 DEF Uniform
<1> HIDE DEF pieces
<1>7. joined \in Seq(BOOLEAN) /\ Placed(joined, pieces, ByteBits)
  BY <1>1, <1>6, FlattenType, FlattenUniform
<1> HIDE DEF joined
<1>8. Len(joined) = ByteBits * count
  BY <1>6, <1>7 DEF Placed
<1>9. Len(d) = ByteBits * count /\ ByteBits * count \in Nat
  BY <1>1, <1>2 DEF count
<1>10. ASSUME NEW m \in 1..Len(d)
       PROVE  d[m] = joined[m]
  <2> DEFINE q == (m - 1) \div ByteBits
             r == (m - 1) % ByteBits
  <2>1. q \in Nat /\ m - 1 = ByteBits * q + r /\ r \in 0..(ByteBits - 1)
    <3>1. m - 1 \in Nat /\ ByteBits \in Nat /\ ByteBits > 0
      BY <1>1, <1>9
    <3> QED
      BY <3>1, Division
  <2> HIDE DEF q, r
  <2>2. q + 1 \in 1..count
    <3>1. CASE q >= count
      <4>1. ByteBits * q = ByteBits * count + ByteBits * (q - count) /\ ByteBits * (q - count) \in Nat
        BY <1>1, <1>2, <2>1, <3>1
      <4> QED
        BY <1>9, <2>1, <4>1
    <3> QED
      BY <1>2, <2>1, <3>1
  <2>3. r + 1 \in 1..ByteBits /\ (q + 1) - 1 = q /\ (q + 2) - 1 = q + 1
        /\ q + 2 \in 1..Len(Bytes(f)) /\ (q + 1) + 1 = q + 2
    BY <1>1, <1>2, <1>4, <2>1, <2>2
  <2>4. m = ByteBits * q + (r + 1)
    BY <1>1, <2>1, <1>9
  <2>5. joined[m] = SetBit(bytes[q + 1], ByteBits - (r + 1))
    <3>1. joined[ByteBits * ((q + 1) - 1) + (r + 1)] = pieces[q + 1][r + 1]
      BY <1>6, <1>7, <2>2, <2>3 DEF Placed
    <3>2. pieces[q + 1][r + 1] = SetBit(bytes[q + 1], ByteBits - (r + 1))
      BY <1>5, <1>6, <2>2, <2>3
    <3> QED
      BY <2>3, <2>4, <3>1, <3>2
  <2>6. FrameSymbols(f)[8 + 2 * ByteBits * (q + 1) + 2 * (r + 1)] = 1
          <=> SetBit(bytes[q + 1], ByteBits - (r + 1))
    <3>1. FrameSymbols(f)[8 + 2 * ByteBits * ((q + 2) - 1) + 2 * (r + 1)] = 1
            <=> SetBit(Bytes(f)[q + 2], ByteBits - (r + 1))
      BY <2>3, SecondSymbol
    <3>2. Bytes(f)[q + 2] = bytes[q + 1]
      BY <1>4, <2>2, <2>3
    <3> QED
      BY <2>3, <3>1, <3>2
  <2>7. 8 + 2 * ByteBits * (q + 1) + 2 * (r + 1) = 8 + 2 * ByteBits + 2 * m
    <3>1. 2 * ByteBits * (q + 1) = 2 * (ByteBits * q) + 2 * ByteBits /\ ByteBits * q \in Nat
      BY <1>1, <2>1
    <3> QED
      BY <1>1, <2>1, <2>4, <3>1
  <2>8. d[m] <=> joined[m]
    BY <2>5, <2>6, <2>7
  <2>9. d[m] \in BOOLEAN /\ joined[m] \in BOOLEAN
    BY <1>7, <1>8, <1>9
  <2> QED
    BY <2>8, <2>9
<1>11. Len(d) = Len(joined)
  BY <1>8, <1>9
<1>12. d = joined
  BY <1>7, <1>10, <1>11, SeqEqual
<1> QED
  BY <1>12 DEF joined, pieces, count, bytes

-----------------------------------------------------------------------------
(* Reading. *)

\* The level a run has, and the bits that second symbols behind position z stand for.
Level == IF is_high THEN 1 ELSE 0

BitsBehind(d, s, z) ==
    /\ d \in Seq(BOOLEAN)
    /\ \A m \in 1..Len(d) : d[m] <=> s[z + 2 * m] = 1

\* In step with a frame of n symbols: the current run has l symbols up to the one last seen,
\* the reads left lead to position end, and what is registered are the bits behind z.
Span(s, k, z, end, l) ==
    /\ l \in {1, 2} /\ k - l >= 8 /\ since = l * Ticks
    /\ is_high \in BOOLEAN /\ uneven \in BOOLEAN
    /\ s[k - 1] = Level
    /\ l = 2 => s[k - 2] = Level /\ k % 2 = 0
    /\ uneven <=> (k - l) % 2 = 0
    /\ incoming_reads = end - (k - l) /\ incoming_reads > 0
    /\ BitsBehind(decoded, s, z)
    /\ Len(decoded) = (k - l + 1) \div 2 - z \div 2

LengthEnd == 2 * ByteBits + 7
PayloadStart == 2 * ByteBits + 8

ReadInv ==
    /\ heard \in BOOLEAN
    /\ heard /\ Whole(sending) =>
         /\ mode = "length" => \E l \in {1, 2} : Span(Stream(sending), at, 8, LengthEnd, l)
         /\ mode = "payload" =>
              /\ length = Len(sending.payload)
              /\ \E l \in {1, 2}, e \in {0, 1} :
                   Span(Stream(sending), at, PayloadStart, Len(FrameSymbols(sending)) - e, l)

\* Runs of one and two symbols are told apart.
LEMMA RunLengths ==
    ASSUME ClearRuns, NEW l \in {1, 2}, NEW took \in Measured(l * Ticks)
    PROVE  /\ l = 1 => OneSymbol(took) /\ ~TwoSymbols(took)
           /\ l = 2 => ~OneSymbol(took) /\ TwoSymbols(took)
<1>1. Ticks \in Nat /\ Ticks > 0 /\ Jitter \in Nat /\ 2 * Jitter < Ticks
  BY Numbers DEF ClearRuns
<1>2. took \in Nat /\ took <= l * Ticks + Jitter /\ l * Ticks - Jitter <= took
  BY <1>1 DEF Measured
<1> QED
  BY <1>1, <1>2 DEF OneSymbol, TwoSymbols

\* The current run is in the frame, before its last symbol.
LEMMA SpanInFrame ==
    ASSUME NEW s, NEW n, Streamed(s, n), NEW k \in Nat, NEW z, NEW end \in Nat, end <= n,
           NEW l, Span(s, k, z, end, l)
    PROVE  /\ k <= n /\ k < Len(s) /\ k > 8 /\ k \in 1..Len(s)
           /\ s[k] \in {0, 1}
           /\ k % 2 = 0 => s[k - 1] # s[k]
           /\ k % 2 = 1 => s[k] # s[k + 1] /\ s[k + 1] \in {0, 1}
<1>1. /\ n \in Nat /\ n % 2 = 0 /\ Len(s) \in Nat /\ Len(s) >= n + 4 /\ s \in Seq(0..1)
      /\ \A j \in 4..(n \div 2) : s[2 * j - 1] # s[2 * j]
  BY DEF Streamed, Differ
<1>2. /\ l \in {1, 2} /\ k - l >= 8 /\ end - (k - l) > 0 /\ (l = 2 => k % 2 = 0)
  BY DEF Span
<1>3. k <= n /\ k > 8
  BY <1>1, <1>2
<1>4. k < Len(s) /\ k \in 1..Len(s) /\ k + 1 \in 1..Len(s)
  BY <1>1, <1>3
<1>5. s[k] \in {0, 1} /\ s[k + 1] \in {0, 1}
  BY <1>1, <1>4
<1>6. n = 2 * (n \div 2) /\ n \div 2 \in Nat
  BY <1>1, Even
<1>7. ASSUME k % 2 = 0
      PROVE  s[k - 1] # s[k]
  <2>1. k = 2 * (k \div 2) /\ k \div 2 \in Nat
    BY <1>7, Even
  <2>2. k \div 2 \in 4..(n \div 2)
    BY <1>3, <1>6, <2>1
  <2>3. s[2 * (k \div 2) - 1] # s[2 * (k \div 2)]
    BY <1>1, <2>2
  <2> QED
    BY <2>1, <2>3
<1>8. ASSUME k % 2 = 1
      PROVE  s[k] # s[k + 1]
  <2>1. k + 1 \in Nat /\ (k + 1) % 2 = 0
    BY <1>8
  <2>2. k + 1 = 2 * ((k + 1) \div 2) /\ (k + 1) \div 2 \in Nat
    BY <2>1, Even
  <2> DEFINE j == (k + 1) \div 2
  <2>3. j \in 4..(n \div 2) /\ 2 * j = k + 1 /\ 2 * j - 1 = k
    BY <1>3, <1>6, <2>2
  <2> HIDE DEF j
  <2>4. s[2 * j - 1] # s[2 * j]
    BY <1>1, <2>3
  <2> QED
    BY <2>3, <2>4
<1> QED
  BY <1>3, <1>4, <1>5, <1>7, <1>8

\* A symbol without an edge makes a run of two out of one that began in the middle of a pair.
LEMMA SpanGrows ==
    ASSUME ClearRuns, NEW s, NEW n, Streamed(s, n), NEW k \in Nat, NEW z, NEW end \in Nat,
           end <= n, NEW l, Span(s, k, z, end, l), s[k] = Level
    PROVE  l = 1 /\ k % 2 = 1 /\ Longer = 2 * Ticks
<1>1. /\ l \in {1, 2} /\ s[k - 1] = Level /\ (l = 2 => k % 2 = 0) /\ since = l * Ticks
  BY DEF Span
<1>2. k % 2 = 0 => s[k - 1] # s[k]
  BY SpanInFrame
<1>3. l = 1 /\ k % 2 = 1
  <2>1. k % 2 \in {0, 1}
    OBVIOUS
  <2> QED
    BY <1>1, <1>2, <2>1
<1>4. Longer = 2 * Ticks
  <2>1. /\ Ticks \in Nat /\ MaxPeriods \in Nat /\ MaxPeriods > 2
    BY Numbers DEF ClearRuns
  <2>2. MaxPeriods * Ticks = 2 * Ticks + (MaxPeriods - 2) * Ticks /\ (MaxPeriods - 2) * Ticks \in Nat
    BY <2>1
  <2>3. since = Ticks
    BY <1>1, <1>3, <2>1
  <2> QED
    BY <2>1, <2>2, <2>3 DEF Longer
<1> QED
  BY <1>3, <1>4

\* An edge takes the run off the reads and registers the bit of the pair it decides.
LEMMA SpanEdge ==
    ASSUME ClearRuns, NEW s, NEW n, Streamed(s, n), NEW k \in Nat, NEW z \in Nat, z % 2 = 0,
           NEW end \in Nat, end <= n, NEW l, Span(s, k, z, end, l), s[k] # Level,
           NEW took \in Measured(since)
    PROVE  /\ ReadsLeft(took) = end - k
           /\ (IF OneSymbol(took) THEN ~uneven ELSE uneven) <=> k % 2 = 0
           /\ BitsBehind(Registered(took), s, z)
           /\ Len(Registered(took)) = (k + 1) \div 2 - z \div 2
<1>1. /\ l \in {1, 2} /\ k - l >= 8 /\ since = l * Ticks
      /\ is_high \in BOOLEAN /\ uneven \in BOOLEAN
      /\ s[k - 1] = Level
      /\ l = 2 => s[k - 2] = Level /\ k % 2 = 0
      /\ uneven <=> (k - l) % 2 = 0
      /\ incoming_reads = end - (k - l) /\ incoming_reads > 0
      /\ decoded \in Seq(BOOLEAN)
      /\ \A m \in 1..Len(decoded) : decoded[m] <=> s[z + 2 * m] = 1
      /\ Len(decoded) = (k - l + 1) \div 2 - z \div 2
  BY DEF Span, BitsBehind
<1>2. /\ s[k] \in {0, 1} /\ k > 8
      /\ k % 2 = 1 => s[k] # s[k + 1] /\ s[k + 1] \in {0, 1}
  BY SpanInFrame
<1>3. /\ l = 1 => OneSymbol(took) /\ ~TwoSymbols(took)
      /\ l = 2 => ~OneSymbol(took) /\ TwoSymbols(took)
  BY <1>1, RunLengths
<1>4. ReadsLeft(took) = end - k
  <2>1. CASE l = 1
    <3>1. ReadsLeft(took) = incoming_reads - 1
      BY <1>3, <2>1 DEF ReadsLeft
    <3> QED
      BY <1>1, <2>1, <3>1
  <2>2. CASE l = 2
    <3>1. ReadsLeft(took) = incoming_reads - 2
      BY <1>3, <2>2 DEF ReadsLeft
    <3> QED
      BY <1>1, <2>2, <3>1
  <2> QED
    BY <1>1, <2>1, <2>2
<1>5. z \div 2 \in Nat /\ z = 2 * (z \div 2)
  BY Even
<1>6. ASSUME NEW b \in BOOLEAN, b <=> s[z + 2 * (Len(decoded) + 1)] = 1
      PROVE  BitsBehind(Append(decoded, b), s, z) /\ Len(Append(decoded, b)) = Len(decoded) + 1
  <2>1. /\ Append(decoded, b) \in Seq(BOOLEAN) /\ Len(Append(decoded, b)) = Len(decoded) + 1
        /\ Len(decoded) \in Nat
        /\ \A m \in 1..Len(decoded) : Append(decoded, b)[m] = decoded[m]
        /\ Append(decoded, b)[Len(decoded) + 1] = b
    BY <1>1, AppendProperties
  <2> DEFINE more == Append(decoded, b)
  <2> HIDE DEF more
  <2>2. ASSUME NEW m \in 1..(Len(decoded) + 1)
        PROVE  more[m] <=> s[z + 2 * m] = 1
    <3>1. CASE m = Len(decoded) + 1
      <4>1. more[m] = b
        BY <2>1, <3>1 DEF more
      <4> QED
        BY <1>6, <3>1, <4>1
    <3>2. CASE m \in 1..Len(decoded)
      <4>1. more[m] = decoded[m]
        BY <2>1, <3>2 DEF more
      <4> QED
        BY <1>1, <3>2, <4>1
    <3>3. m \in 1..Len(decoded) \/ m = Len(decoded) + 1
      BY <2>1
    <3> QED
      BY <3>1, <3>2, <3>3
  <2>3. \A m \in 1..(Len(decoded) + 1) : Append(decoded, b)[m] <=> s[z + 2 * m] = 1
    BY <2>2 DEF more
  <2> QED
    BY <2>1, <2>3 DEF BitsBehind
<1>7. CASE k % 2 = 1
  <2>1. l = 1 /\ (k - 1) % 2 = 0 /\ (k - l) % 2 = 0
    BY <1>1, <1>7
  <2>2. OneSymbol(took) /\ ~TwoSymbols(took) /\ uneven
    BY <1>1, <1>3, <2>1
  <2>3. Registered(took) = Append(decoded, is_high)
    BY <2>2 DEF Registered
  <2>4. (k + 1) \div 2 = k \div 2 + 1 /\ 2 * ((k + 1) \div 2) = k + 1 /\ (k - l + 1) \div 2 = k \div 2
    BY <1>7, <2>1
  <2>5. z + 2 * (Len(decoded) + 1) = k + 1
    BY <1>1, <1>5, <2>4
  <2>6. is_high <=> s[k + 1] = 1
    BY <1>1, <1>2, <1>7 DEF Level
  <2>7. BitsBehind(Registered(took), s, z) /\ Len(Registered(took)) = Len(decoded) + 1
    BY <1>1, <1>6, <2>3, <2>5, <2>6
  <2>8. Len(Registered(took)) = (k + 1) \div 2 - z \div 2
    BY <1>1, <1>5, <2>4, <2>7
  <2> QED
    BY <1>4, <1>7, <2>2, <2>7, <2>8
<1>8. CASE k % 2 = 0 /\ l = 1
  <2>1. (k - l) % 2 = 1 /\ (k - l + 1) \div 2 = (k + 1) \div 2
    BY <1>8
  <2>2. OneSymbol(took) /\ ~TwoSymbols(took) /\ ~uneven
    BY <1>1, <1>3, <1>8, <2>1
  <2>3. Registered(took) = decoded
    BY <2>2 DEF Registered
  <2> QED
    BY <1>1, <1>4, <1>8, <2>1, <2>2, <2>3 DEF BitsBehind
<1>9. CASE k % 2 = 0 /\ l = 2
  <2>1. (k - l) % 2 = 0 /\ (k - l + 1) \div 2 = k \div 2 - 1 /\ (k + 1) \div 2 = k \div 2
        /\ k = 2 * (k \div 2) /\ k \div 2 \in Nat
    BY <1>9
  <2>2. ~OneSymbol(took) /\ TwoSymbols(took) /\ uneven
    BY <1>1, <1>3, <1>9, <2>1
  <2>3. Registered(took) = Append(decoded, ~is_high)
    BY <2>2 DEF Registered
  <2>4. z + 2 * (Len(decoded) + 1) = k
    BY <1>1, <1>5, <2>1
  <2>5. ~is_high <=> s[k] = 1
    BY <1>1, <1>2 DEF Level
  <2>6. BitsBehind(Registered(took), s, z) /\ Len(Registered(took)) = Len(decoded) + 1
    BY <1>1, <1>6, <2>3, <2>4, <2>5
  <2>7. Len(Registered(took)) = (k + 1) \div 2 - z \div 2
    BY <1>1, <1>5, <2>1, <2>6
  <2> QED
    BY <1>4, <1>9, <2>2, <2>6, <2>7
<1> QED
  BY <1>1, <1>7, <1>8, <1>9

\* In step with a frame the receiver sees one of its symbols.
LEMMA InStepMoves ==
    ASSUME LockInv, Send, NEW z, NEW end \in Nat, end <= Len(FrameSymbols(sending)), NEW l,
           Span(Stream(sending), at, z, end, l)
    PROVE  /\ Streamed(Stream(sending), Len(FrameSymbols(sending)))
           /\ at \in Nat /\ at' = at + 1 /\ sending' = sending
           /\ Stream(sending)' = Stream(sending)
           /\ heard' = (heard \/ Locks)
           /\ See(Stream(sending)[at] = 1)
<1>1. Streamed(Stream(sending), Len(FrameSymbols(sending))) /\ at \in 1..Len(Stream(sending))
  BY StreamShape DEF LockInv, InSetup
<1>2. at \in Nat /\ Len(Stream(sending)) \in Nat
  BY <1>1 DEF Streamed
<1>3. at < Len(Stream(sending))
  BY <1>1, <1>2, SpanInFrame
<1>4. Symbol
  BY <1>2, <1>3 DEF Send, LastSymbol
<1>5. sending' = sending /\ setup' = setup
  BY <1>4 DEF Symbol, Light
<1> QED
  BY <1>1, <1>2, <1>4, <1>5, StreamSame DEF Symbol, Light

LEMMA OtherLevel == \A a, b \in BOOLEAN : a # b => (a <=> ~b)
OBVIOUS

\* What an edge leaves.
LEMMA EdgeFacts ==
    ASSUME ClearRuns, LockInv, NEW z \in Nat, z % 2 = 0,
           NEW end \in Nat, end <= Len(FrameSymbols(sending)), NEW l,
           Span(Stream(sending), at, z, end, l),
           NEW took \in Measured(since), ReadEdge(Stream(sending)[at] = 1, took)
    PROVE  /\ at \in Nat /\ at > 8 /\ at <= Len(FrameSymbols(sending))
           /\ at - l < end /\ l \in {1, 2} /\ (l = 2 => at % 2 = 0)
           /\ Stream(sending)[at] = Level'
           /\ is_high' \in BOOLEAN /\ uneven' \in BOOLEAN
           /\ uneven' <=> at % 2 = 0
           /\ since' = Ticks
           /\ ReadsLeft(took) = end - at
           /\ BitsBehind(Registered(took), Stream(sending), z)
           /\ Len(Registered(took)) = (at + 1) \div 2 - z \div 2
<1> DEFINE s == Stream(sending)
           n == Len(FrameSymbols(sending))
<1>1. Streamed(s, n) /\ at \in 1..Len(s)
  BY StreamShape DEF LockInv, InSetup
<1>2. at \in Nat /\ Len(s) \in Nat
  BY <1>1 DEF Streamed
<1>3. /\ at <= n /\ at > 8 /\ s[at] \in {0, 1}
  BY <1>1, <1>2, SpanInFrame
<1>4. /\ l \in {1, 2} /\ incoming_reads = end - (at - l) /\ incoming_reads > 0
      /\ (l = 2 => at % 2 = 0)
      /\ is_high \in BOOLEAN /\ uneven \in BOOLEAN
  BY DEF Span
<1>5. /\ (s[at] = 1) # is_high /\ is_high' = ~is_high
      /\ uneven' = (IF OneSymbol(took) THEN ~uneven ELSE uneven)
      /\ since' = Ticks
  BY DEF ReadEdge
<1>6. s[at] # Level /\ s[at] = Level'
  <2> DEFINE lit == s[at] = 1
  <2>1. lit \in BOOLEAN /\ lit # is_high
    BY <1>5
  <2>2. lit <=> ~is_high
    BY <1>4, <2>1, OtherLevel
  <2>3. s[at] = 1 <=> ~is_high
    BY <2>2
  <2>4. CASE is_high
    <3>1. s[at] = 0 /\ ~is_high'
      BY <1>3, <1>5, <2>3, <2>4
    <3> QED
      BY <2>4, <3>1 DEF Level
  <2>5. CASE ~is_high
    <3>1. s[at] = 1 /\ is_high'
      BY <1>5, <2>3, <2>5
    <3> QED
      BY <2>5, <3>1 DEF Level
  <2> QED
    BY <2>4, <2>5
<1>7. /\ ReadsLeft(took) = end - at
      /\ (IF OneSymbol(took) THEN ~uneven ELSE uneven) <=> at % 2 = 0
      /\ BitsBehind(Registered(took), s, z)
      /\ Len(Registered(took)) = (at + 1) \div 2 - z \div 2
  BY <1>1, <1>2, <1>6, SpanEdge
<1>8. at - l < end
  BY <1>2, <1>4
<1> QED
  BY <1>2, <1>3, <1>4, <1>5, <1>6, <1>7, <1>8

\* Where the parts of a whole frame begin and end.
LEMMA FrameParts ==
    ASSUME InSetup
    PROVE  /\ IsFrame(sending)
           /\ Len(FrameSymbols(sending)) \in Nat
           /\ LengthEnd \in Nat /\ LengthEnd < Len(FrameSymbols(sending))
           /\ PayloadStart \in Nat /\ PayloadStart % 2 = 0 /\ PayloadStart \div 2 = ByteBits + 4
           /\ \A k \in 1..Len(FrameSymbols(sending)) :
                Stream(sending)[k] = FrameSymbols(sending)[k]
           /\ Whole(sending) =>
                Len(FrameSymbols(sending))
                  = PayloadStart + 2 * (ByteBits * (Len(sending.payload) + BYTES_RS))
<1> DEFINE n == Len(FrameSymbols(sending))
           c == Len(sending.payload) + BYTES_RS
<1>1. /\ IsFrame(sending) /\ Streamed(Stream(sending), n)
      /\ \A k \in 1..n : Stream(sending)[k] = FrameSymbols(sending)[k]
  BY StreamShape DEF InSetup
<1>2. n \in Nat /\ n >= 8 + 2 * ByteBits /\ ByteBits \in Nat /\ ByteBits > 0
  BY <1>1, Numbers DEF Streamed
<1>3. ASSUME Whole(sending)
      PROVE  n = PayloadStart + 2 * (ByteBits * c)
  <2>1. Len(Bytes(sending)) = 1 + c /\ c \in Nat
    BY <1>1, <1>3, BytesType, Numbers DEF Whole, IsFrame
  <2> HIDE DEF c
  <2>2. n = 8 + 2 * ByteBits * (1 + c)
    BY <1>1, <2>1, FrameShape
  <2>3. 2 * ByteBits * (1 + c) = 2 * ByteBits + 2 * (ByteBits * c)
    BY <1>2, <2>1
  <2> QED
    BY <1>2, <2>1, <2>2, <2>3 DEF PayloadStart
<1>4. LengthEnd < n
  BY <1>2 DEF LengthEnd
<1> HIDE DEF n
<1>5. /\ LengthEnd \in Nat
      /\ PayloadStart \in Nat /\ PayloadStart % 2 = 0 /\ PayloadStart \div 2 = ByteBits + 4
  BY <1>2 DEF LengthEnd, PayloadStart
<1> QED
  BY <1>1, <1>2, <1>3, <1>4, <1>5 DEF n

\* Without an edge the receiver stays in step.
LEMMA ReadOnKeeps ==
    ASSUME ClearRuns, LockInv, Send, ReadOn(Stream(sending)[at] = 1),
           NEW z \in Nat, NEW end \in Nat, end <= Len(FrameSymbols(sending)), NEW l,
           Span(Stream(sending), at, z, end, l)
    PROVE  /\ since' = 2 * Ticks /\ is_high' = is_high /\ uneven' = uneven
           /\ incoming_reads' = incoming_reads /\ decoded' = decoded
           /\ l = 1 /\ at % 2 = 1 /\ Stream(sending)[at] = Level
<1> DEFINE s == Stream(sending)
<1>1. /\ Streamed(s, Len(FrameSymbols(sending))) /\ at \in Nat
  BY InStepMoves
<1>2. s[at] \in {0, 1}
  BY <1>1, SpanInFrame
<1>3. is_high \in BOOLEAN
  BY DEF Span
<1>4. /\ (s[at] = 1) = is_high /\ since' = Longer
      /\ is_high' = is_high /\ uneven' = uneven
      /\ incoming_reads' = incoming_reads /\ decoded' = decoded
  BY DEF ReadOn, decoder
<1>5. s[at] = Level
  BY <1>2, <1>3, <1>4 DEF Level
<1>6. l = 1 /\ at % 2 = 1 /\ Longer = 2 * Ticks
  BY <1>1, <1>5, SpanGrows
<1> QED
  BY <1>4, <1>5, <1>6

\* Until the reads are used up, a receiver in step stays in step.
LEMMA StaysInStep ==
    ASSUME ClearRuns, LockInv, Send, NEW z \in Nat, z % 2 = 0,
           NEW end \in Nat, end <= Len(FrameSymbols(sending)), NEW l,
           Span(Stream(sending), at, z, end, l),
           ReadOn(Stream(sending)[at] = 1) \/ ReadMore(Stream(sending)[at] = 1)
    PROVE  /\ mode' = mode
           /\ \E k \in {1, 2} : Span(Stream(sending), at, z, end, k)'
<1> DEFINE s == Stream(sending)
<1>1. at \in Nat /\ at' = at + 1 /\ Stream(sending)' = s
  BY InStepMoves
<1>2. CASE ReadOn(s[at] = 1)
  <2>1. /\ since' = 2 * Ticks /\ is_high' = is_high /\ uneven' = uneven
        /\ incoming_reads' = incoming_reads /\ decoded' = decoded
        /\ l = 1 /\ at % 2 = 1 /\ s[at] = Level
    BY <1>2, ReadOnKeeps
  <2>2. mode' = mode
    BY <1>2 DEF ReadOn
  <2>3. /\ (at + 1) - 2 = at - 1 /\ (at + 1) - 1 = at /\ (at + 1) % 2 = 0
    BY <1>1, <2>1
  <2>4. Span(Stream(sending), at, z, end, 2)'
    BY <1>1, <2>1, <2>3 DEF Span, BitsBehind, Level
  <2> QED
    BY <2>2, <2>4
<1>3. CASE ReadMore(s[at] = 1)
  <2>1. PICK took \in Measured(since) :
          /\ ReadEdge(s[at] = 1, took) /\ ReadsLeft(took) > 0
          /\ incoming_reads' = ReadsLeft(took) /\ decoded' = Registered(took)
          /\ mode' = mode
    BY <1>3 DEF ReadMore
  <2>2. /\ at > 8 /\ s[at] = Level' /\ is_high' \in BOOLEAN /\ uneven' \in BOOLEAN
        /\ uneven' <=> at % 2 = 0
        /\ since' = Ticks /\ ReadsLeft(took) = end - at
        /\ BitsBehind(Registered(took), s, z)
        /\ Len(Registered(took)) = (at + 1) \div 2 - z \div 2
    BY <2>1, EdgeFacts
  <2>3. (at + 1) - 1 = at /\ (at + 1) - 1 + 1 = at + 1 /\ 1 * Ticks = Ticks
    BY <1>1, Numbers
  <2>4. Span(Stream(sending), at, z, end, 1)'
    BY <1>1, <2>1, <2>2, <2>3 DEF Span, BitsBehind, Level
  <2> QED
    BY <2>1, <2>4
<1> QED
  BY <1>2, <1>3

\* The bits of the length byte are those of the length.
LEMMA LengthIsRead ==
    ASSUME LockInv, NEW d, BitsBehind(d, Stream(sending), 8), Len(d) = ByteBits,
           NEW byte \in Byte, IsByteOf(byte, d)
    PROVE  byte = Len(sending.payload)
<1> DEFINE f == sending
           s == Stream(sending)
<1>1. IsFrame(f) /\ \A k \in 1..Len(FrameSymbols(f)) : s[k] = FrameSymbols(f)[k]
  BY FrameParts DEF LockInv
<1>2. /\ Len(Bytes(f)) \in Nat /\ 1 \in 1..Len(Bytes(f)) /\ Bytes(f)[1] = Len(f.payload)
      /\ Len(f.payload) \in Byte
  BY <1>1, BytesType, Numbers DEF IsFrame
<1>3. ByteBits \in Nat /\ PayloadStart <= Len(FrameSymbols(f))
  BY FrameParts, Numbers DEF LockInv, LengthEnd, PayloadStart
<1>4. ASSUME NEW j \in 1..ByteBits
      PROVE  SetBit(byte, ByteBits - j) <=> SetBit(Len(f.payload), ByteBits - j)
  <2>1. SetBit(byte, ByteBits - j) <=> d[j]
    BY <1>3 DEF IsByteOf
  <2>2. d[j] <=> s[8 + 2 * j] = 1
    BY DEF BitsBehind
  <2>3. 8 + 2 * j \in 1..Len(FrameSymbols(f))
    BY <1>3, FrameParts DEF PayloadStart, LockInv
  <2>4. FrameSymbols(f)[8 + 2 * ByteBits * (1 - 1) + 2 * j] = 1
          <=> SetBit(Bytes(f)[1], ByteBits - j)
    BY <1>1, <1>2, SecondSymbol
  <2>5. 8 + 2 * ByteBits * (1 - 1) + 2 * j = 8 + 2 * j
    BY <1>3
  <2> QED
    BY <1>1, <1>2, <2>1, <2>2, <2>3, <2>4, <2>5
<1>5. ASSUME NEW k \in 0..(ByteBits - 1)
      PROVE  SetBit(byte, k) <=> SetBit(Len(f.payload), k)
  <2>1. ByteBits - k \in 1..ByteBits /\ ByteBits - (ByteBits - k) = k
    BY <1>3
  <2> QED
    BY <1>4, <2>1
<1> QED
  BY <1>2, <1>5, SameBits

\* The receiver locks in step with the frame on the air.
LEMMA LockInStep ==
    ASSUME ClearRuns, LockInv, Next, Locks
    PROVE  ReadInv'
<1>1. /\ at = 8 /\ Stream(sending)[8] = 1 /\ Send
      /\ is_high' /\ is_high' = is_high /\ decoded' = <<>> /\ uneven' = TRUE
      /\ incoming_reads' = 2 * ByteBits - 1 /\ since' = Ticks
  BY LockAtPreamble
<1>2. is_high' \in BOOLEAN /\ mode' = "length"
  BY <1>1 DEF LockInv, SearchInv, Locks
<1>3. Streamed(Stream(sending), Len(FrameSymbols(sending)))
  BY StreamShape DEF LockInv, InSetup
<1>4. Symbol
  <2>1. at \in Nat /\ at < Len(Stream(sending)) /\ ~(at < at)
    BY <1>1, <1>3, Numbers DEF Streamed
  <2>2. at # Len(Stream(sending))
    BY <2>1
  <2> QED
    BY <1>1, <2>2 DEF Send, LastSymbol
<1>5. at' = 9 /\ sending' = sending /\ setup' = setup /\ heard' \in BOOLEAN
  BY <1>1, <1>4 DEF Symbol, Light, Locks
<1>6. Stream(sending)' = Stream(sending)
  BY <1>5, StreamSame
<1>7. /\ 9 - 1 >= 8 /\ (9 - 1) % 2 = 0 /\ 9 - 1 = 8 /\ (9 - 1 + 1) \div 2 - 8 \div 2 = 0
      /\ LengthEnd - (9 - 1) = 2 * ByteBits - 1 /\ 2 * ByteBits - 1 > 0
      /\ 1 * Ticks = Ticks
  BY Numbers DEF LengthEnd
<1>8. <<>> \in Seq(BOOLEAN) /\ Len(<<>>) = 0 /\ \A m \in 1..0 : FALSE
  OBVIOUS
<1>9. Span(Stream(sending), at, 8, LengthEnd, 1)'
  BY <1>1, <1>2, <1>5, <1>6, <1>7, <1>8 DEF Span, BitsBehind, Level, LengthEnd
<1> QED
  BY <1>2, <1>5, <1>9 DEF ReadInv

\* A symbol read in step leaves the receiver in step.
LEMMA LengthInStep ==
    ASSUME ClearRuns, LockInv, ReadInv, Send, heard, Whole(sending), mode = "length"
    PROVE  ReadInv'
<1> DEFINE s == Stream(sending)
           n == Len(FrameSymbols(sending))
<1>1. PICK l \in {1, 2} : Span(s, at, 8, LengthEnd, l)
  BY DEF ReadInv
<1>2. /\ LengthEnd \in Nat /\ LengthEnd <= n /\ n \in Nat /\ PayloadStart \in Nat
      /\ PayloadStart \div 2 = ByteBits + 4 /\ LengthEnd = PayloadStart - 1
  <2>1. LengthEnd = PayloadStart - 1
    BY Numbers DEF LengthEnd, PayloadStart
  <2>2. /\ LengthEnd \in Nat /\ LengthEnd < n /\ n \in Nat /\ PayloadStart \in Nat
        /\ PayloadStart \div 2 = ByteBits + 4
    BY FrameParts DEF LockInv
  <2> HIDE DEF n
  <2> QED
    BY <2>1, <2>2
<1>3. /\ at \in Nat /\ at' = at + 1 /\ sending' = sending /\ Stream(sending)' = s
      /\ heard' \in BOOLEAN /\ See(s[at] = 1)
  BY <1>1, <1>2, InStepMoves DEF ReadInv
<1>4. 8 \in Nat /\ 8 % 2 = 0 /\ 8 \div 2 = 4
  OBVIOUS
<1>5. CASE ReadOn(s[at] = 1) \/ ReadMore(s[at] = 1)
  <2>1. mode' = mode /\ \E k \in {1, 2} : Span(Stream(sending), at, 8, LengthEnd, k)'
    BY <1>1, <1>2, <1>4, <1>5, StaysInStep
  <2> QED
    BY <1>3, <2>1 DEF ReadInv, LengthEnd
<1>6. CASE LengthComplete(s[at] = 1)
  <2>1. PICK took \in Measured(since) :
          /\ ReadEdge(s[at] = 1, took) /\ ReadsLeft(took) <= 0
          /\ length' \in Byte /\ IsByteOf(length', Registered(took))
          /\ decoded' = <<>> /\ incoming_reads' = (length' + BYTES_RS) * 2 * ByteBits
          /\ mode' = "payload"
    BY <1>6 DEF LengthComplete
  <2>2. /\ at > 8 /\ s[at] = Level' /\ is_high' \in BOOLEAN /\ uneven' \in BOOLEAN
        /\ uneven' <=> at % 2 = 0
        /\ l = 2 => at % 2 = 0
        /\ at - l < LengthEnd
        /\ since' = Ticks /\ ReadsLeft(took) = LengthEnd - at
        /\ BitsBehind(Registered(took), s, 8)
        /\ Len(Registered(took)) = (at + 1) \div 2 - 8 \div 2
    BY <1>1, <1>2, <1>4, <2>1, EdgeFacts
  <2>3. at \in {LengthEnd, PayloadStart}
    <3> HIDE DEF n, s
    <3>1. /\ LengthEnd - at <= 0 /\ at - l < LengthEnd
          /\ at \in Nat /\ LengthEnd \in Nat /\ PayloadStart \in Nat
          /\ LengthEnd = PayloadStart - 1
      BY <1>2, <1>3, <2>1, <2>2
    <3>2. CASE l = 1
      BY <3>1, <3>2
    <3>3. CASE l = 2
      BY <3>1, <3>3
    <3>4. l \in {1, 2}
      OBVIOUS
    <3> QED
      BY <3>2, <3>3, <3>4
  <2>4. (at + 1) \div 2 = ByteBits + 4
    BY <2>3, Numbers DEF LengthEnd, PayloadStart
  <2>5. length' = Len(sending.payload)
    BY <1>4, <2>1, <2>2, <2>4, LengthIsRead, Numbers
  <2>0. PICK e \in {0, 1} : e = PayloadStart - at
    BY <1>2, <1>3, <2>3
  <2>6. incoming_reads' = n - e - at /\ incoming_reads' > 0
    <3> DEFINE c == Len(sending.payload) + BYTES_RS
               p == ByteBits * c
    <3>1. c \in Nat /\ c > 0 /\ n = PayloadStart + 2 * p
      BY FrameParts, Numbers DEF LockInv, IsFrame
    <3>2. incoming_reads' = c * 2 * ByteBits
      BY <2>1, <2>5
    <3> HIDE DEF c
    <3>3. c * 2 * ByteBits = 2 * p /\ p \in Nat /\ p > 0
      BY <3>1, Numbers
    <3> HIDE DEF p, n
    <3>4. incoming_reads' = 2 * p
      BY <3>2, <3>3
    <3> QED
      BY <1>2, <1>3, <2>0, <2>3, <3>1, <3>3, <3>4
  <2>7. (at + 1) - 1 = at /\ (at + 1) - 1 + 1 = at + 1 /\ 1 * Ticks = Ticks
    BY <1>3, Numbers
  <2>8. <<>> \in Seq(BOOLEAN) /\ Len(<<>>) = 0 /\ \A m \in 1..0 : FALSE
    OBVIOUS
  <2>9. (at + 1) \div 2 - PayloadStart \div 2 = 0
    BY <1>2, <2>4, Numbers
  <2>10. Span(Stream(sending), at, PayloadStart, Len(FrameSymbols(sending)) - e, 1)'
    <3>1. Len(FrameSymbols(sending))' = n
      BY <1>3
    <3>2. at' - 1 >= 8 /\ at' - 1 = at
      BY <1>3, <2>2
    <3>3. BitsBehind(decoded, Stream(sending), PayloadStart)'
      BY <2>1, <2>8 DEF BitsBehind
    <3>4. incoming_reads' = Len(FrameSymbols(sending))' - e - (at' - 1)
      BY <2>6, <3>1, <3>2
    <3>5. Stream(sending)'[at' - 1] = Level'
      BY <1>3, <2>2, <3>2
    <3>6. uneven' <=> (at' - 1) % 2 = 0
      <4>1. at' - 1 = at
        BY <3>2
      <4> QED
        BY Zenon, <2>2, <4>1
    <3>7. Len(decoded') = (at' - 1 + 1) \div 2 - PayloadStart \div 2
      BY <1>3, <2>1, <2>7, <2>8, <2>9, <3>2
    <3>8. since' = 1 * Ticks
      BY <2>2, <2>7
    <3> HIDE DEF s, n
    <3> QED
      BY <2>2, <2>6, <3>2, <3>3, <3>4, <3>5, <3>6, <3>7, <3>8 DEF Span, PayloadStart
  <2>11. \E k \in {1, 2}, d \in {0, 1} :
           Span(Stream(sending), at, PayloadStart, Len(FrameSymbols(sending)) - d, k)'
    BY <2>10
  <2> QED
    BY <1>3, <2>1, <2>5, <2>11 DEF ReadInv
<1> QED
  BY <1>3, <1>5, <1>6
     DEF See, SearchOn, AnyEdge, StartReading, SearchAgain, Found, SearchEdge, PayloadComplete,
         Printing

LEMMA PayloadInStep ==
    ASSUME ClearRuns, LockInv, ReadInv, Send, heard, Whole(sending), mode = "payload"
    PROVE  ReadInv'
<1> DEFINE s == Stream(sending)
           n == Len(FrameSymbols(sending))
<1>1. PICK l \in {1, 2}, e \in {0, 1} : Span(s, at, PayloadStart, n - e, l)
  BY DEF ReadInv
<1>2. /\ n \in Nat /\ PayloadStart \in Nat /\ PayloadStart % 2 = 0
      /\ LengthEnd \in Nat /\ LengthEnd < n
  BY FrameParts DEF LockInv
<1>3. PICK end \in Nat : end = n - e /\ end <= n
  <2> HIDE DEF n
  <2> QED
    BY <1>2
<1>4. Span(s, at, PayloadStart, end, l)
  BY <1>1, <1>3
<1>5. /\ sending' = sending /\ heard' \in BOOLEAN /\ See(s[at] = 1)
  BY <1>3, <1>4, InStepMoves DEF ReadInv
<1>6. CASE ReadOn(s[at] = 1) \/ ReadMore(s[at] = 1)
  <2>1. PICK k \in {1, 2} : Span(Stream(sending), at, PayloadStart, end, k)'
    BY <1>2, <1>3, <1>4, <1>6, StaysInStep
  <2>2. mode' = mode /\ length' = length
    BY <1>6 DEF ReadOn, ReadMore, decoder
  <2>3. end = Len(FrameSymbols(sending))' - e
    BY <1>3, <1>5
  <2>4. Span(Stream(sending), at, PayloadStart, Len(FrameSymbols(sending)) - e, k)'
    BY <2>1, <2>3 DEF Span
  <2> QED
    BY <1>5, <2>2, <2>4 DEF ReadInv
<1>7. CASE PayloadComplete(s[at] = 1)
  BY <1>5, <1>7 DEF PayloadComplete, ReadInv
<1> QED
  BY <1>5, <1>6, <1>7
     DEF See, SearchOn, AnyEdge, StartReading, SearchAgain, Found, SearchEdge, LengthComplete,
         Printing

LEMMA ReadStart == Init => ReadInv
BY DEF Init, ReceiverInit, ReadInv

LEMMA ReadKept ==
    ASSUME ClearRuns, LockInv, ReadInv, [Next]_linkVars
    PROVE  ReadInv'
<1>1. CASE Next /\ Locks
  BY <1>1, LockInStep
<1>2. CASE LastSymbol
  BY <1>2 DEF LastSymbol, ReadInv
<1>3. CASE Symbol /\ ~Locks
  <2>1. /\ sending' = sending /\ heard' = heard /\ heard \in BOOLEAN
        /\ See(Stream(sending)[at] = 1) /\ Send
    BY <1>3 DEF Symbol, Light, ReadInv, Send
  <2>2. CASE ~(heard /\ Whole(sending))
    BY <2>1, <2>2 DEF ReadInv
  <2>3. CASE heard /\ Whole(sending) /\ mode \in {"length", "payload"}
    BY <2>1, <2>3, LengthInStep, PayloadInStep
  <2>4. CASE mode \notin {"length", "payload"}
    <3>1. mode' = mode
      BY <1>3, <2>1, <2>4
         DEF See, Locks, SearchOn, AnyEdge, StartReading, SearchAgain, Found, SearchEdge,
             ReadOn, ReadMore, ReadEdge, LengthComplete, PayloadComplete, Printing
    <3> QED
      BY <2>1, <2>4, <3>1 DEF ReadInv
  <2> QED
    BY <2>2, <2>3, <2>4
<1>4. CASE Receive
  BY <1>4 DEF Receive, Loop, ReadInv
<1>5. CASE UNCHANGED linkVars
  <2>1. /\ heard' = heard /\ sending' = sending /\ at' = at
        /\ mode' = mode /\ length' = length /\ since' = since
        /\ is_high' = is_high /\ uneven' = uneven /\ incoming_reads' = incoming_reads
        /\ decoded' = decoded /\ setup' = setup
    BY <1>5 DEF linkVars, receiver, search, decoder
  <2>2. Stream(sending)' = Stream(sending)
    BY <2>1, StreamSame
  <2>3. Len(FrameSymbols(sending))' = Len(FrameSymbols(sending))
    BY <2>1
  <2> QED
    BY <2>1, <2>2, <2>3 DEF ReadInv, Span, BitsBehind, Level
<1> QED
  BY <1>1, <1>2, <1>3, <1>4, <1>5 DEF Next, Send

\* What a receiver in step has read when the reads are used up.
LEMMA ReadInStep ==
    ASSUME ClearRuns, LockInv, ReadInv, Next, Completes, Whole(sending), heard
    PROVE  /\ length' = Len(sending.payload)
           /\ decoded' = FlattenSeq([b \in 1..(Len(sending.payload) + BYTES_RS) |->
                                       Bits((sending.payload \o sending.parity)[b])])
           /\ at \in (Len(FrameSymbols(sending)) - 1)..Len(FrameSymbols(sending))
<1> DEFINE s == Stream(sending)
           n == Len(FrameSymbols(sending))
           count == Len(sending.payload) + BYTES_RS
<1>1. PICK l \in {1, 2}, e \in {0, 1} : Span(s, at, PayloadStart, n - e, l)
  BY DEF ReadInv, Completes
<1>2. /\ n \in Nat /\ PayloadStart \in Nat /\ PayloadStart % 2 = 0
      /\ PayloadStart \div 2 = ByteBits + 4
      /\ LengthEnd \in Nat /\ LengthEnd < n
      /\ n = PayloadStart + 2 * (ByteBits * count)
      /\ IsFrame(sending)
      /\ \A k \in 1..n : s[k] = FrameSymbols(sending)[k]
  BY FrameParts DEF LockInv
<1>3. PICK end \in Nat : end = n - e /\ end <= n
  <2>1. n \in Nat /\ n > 0
    BY <1>2
  <2> HIDE DEF n
  <2> QED
    BY <2>1
<1>4. Span(s, at, PayloadStart, end, l)
  BY <1>1, <1>3
<1>5. PayloadComplete(s[at] = 1) /\ Send
  BY DEF Next, Receive, Loop, Send, Symbol, LastSymbol, Light, Completes, See, SearchOn, AnyEdge,
         StartReading, SearchAgain, ReadOn, ReadMore, LengthComplete, Printing
<1>6. PICK took \in Measured(since) :
        /\ ReadEdge(s[at] = 1, took) /\ ReadsLeft(took) <= 0
        /\ decoded' = Registered(took) /\ length' = length
  BY <1>5 DEF PayloadComplete
<1>7. /\ at \in Nat /\ at <= n /\ at - l < end
      /\ ReadsLeft(took) = end - at
      /\ BitsBehind(Registered(took), s, PayloadStart)
      /\ Len(Registered(took)) = (at + 1) \div 2 - PayloadStart \div 2
  BY <1>2, <1>3, <1>4, <1>5, <1>6, EdgeFacts
<1>8. length' = Len(sending.payload)
  BY <1>6 DEF ReadInv, Completes
<1>9. count \in Nat /\ ByteBits * count \in Nat
  <2>1. count \in Nat
    BY <1>2, Numbers DEF IsFrame
  <2> HIDE DEF count
  <2> QED
    BY <2>1, Numbers
<1>10. at \in {n - 1, n} /\ at \in (n - 1)..n
  <2> HIDE DEF n
  <2>1. /\ end - at <= 0 /\ end = n - e /\ at \in Nat /\ n \in Nat /\ at <= n
    BY <1>2, <1>3, <1>6, <1>7
  <2> QED
    BY <2>1
<1>11. Len(Registered(took)) = ByteBits * count
  <2> DEFINE p == ByteBits * count
  <2>1. /\ p \in Nat /\ n = PayloadStart + 2 * p /\ PayloadStart \in Nat /\ n \in Nat
        /\ PayloadStart % 2 = 0 /\ PayloadStart \div 2 = ByteBits + 4 /\ ByteBits \in Nat
    BY <1>2, <1>9, Numbers
  <2> HIDE DEF p, n, count
  <2>2. PayloadStart = 2 * (ByteBits + 4)
    BY <2>1
  <2>3. (at + 1) \div 2 = ByteBits + 4 + p
    BY <1>10, <2>1, <2>2
  <2>4. Len(Registered(took)) = p
    BY <1>7, <2>1, <2>3
  <2> QED
    BY <2>4 DEF p
<1>12. PICK d \in Seq(BOOLEAN) : d = Registered(took)
  BY <1>7 DEF BitsBehind
<1>13. ASSUME NEW m \in 1..Len(d)
       PROVE  d[m] <=> FrameSymbols(sending)[8 + 2 * ByteBits + 2 * m] = 1
  <2>1. d[m] <=> s[PayloadStart + 2 * m] = 1
    BY <1>7, <1>12 DEF BitsBehind
  <2> DEFINE p == ByteBits * count
  <2>2. m \in 1..p /\ p \in Nat /\ n = PayloadStart + 2 * p /\ PayloadStart \in Nat
    BY <1>2, <1>9, <1>11, <1>12
  <2> HIDE DEF p, n
  <2>3. PayloadStart + 2 * m \in 1..n
    BY <2>2
  <2>4. s[PayloadStart + 2 * m] = FrameSymbols(sending)[PayloadStart + 2 * m]
    BY <1>2, <2>3
  <2>5. PayloadStart + 2 * m = 8 + 2 * ByteBits + 2 * m
    BY Numbers DEF PayloadStart
  <2> QED
    BY <2>1, <2>4, <2>5
<1>14. d = FlattenSeq([b \in 1..count |-> Bits((sending.payload \o sending.parity)[b])])
  BY <1>2, <1>11, <1>12, <1>13, BitsAreSent
<1> QED
  BY <1>6, <1>8, <1>10, <1>12, <1>14

\* A whole frame is read as it was sent, and read to its last bit but not beyond the frame,
\* for any payload and parity and whatever frames were cut, missed or disturbed before, if runs
\* are measured clearly (fast_samples: 15 symbols, then 16 for each byte, and uneven in between).
THEOREM ReadsFramesAsSent ==
    ASSUME ClearRuns
    PROVE  Spec => ReadsWhatWasSent
<1>1. Init => LockInv /\ ReadInv
  BY LockStart, ReadStart
<1>2. LockInv /\ ReadInv /\ [Next]_linkVars => LockInv' /\ ReadInv'
  BY LockKept, ReadKept
<1>3. LockInv /\ ReadInv /\ [Next]_linkVars =>
        [Completes /\ Whole(sending) /\ heard =>
           /\ length' = Len(sending.payload)
           /\ decoded' = FlattenSeq([b \in 1..(Len(sending.payload) + BYTES_RS) |->
                                       Bits((sending.payload \o sending.parity)[b])])
           /\ at \in (Len(FrameSymbols(sending)) - 1)..Len(FrameSymbols(sending))]_linkVars
  BY ReadInStep
<1> QED
  BY <1>1, <1>2, <1>3, PTL DEF Spec, ReadsWhatWasSent

-----------------------------------------------------------------------------
(* Missing few. *)

\* Frames are whole, and printing fits the gap with the periods the threshold needs.
FitsGap ==
    /\ \A f \in setup.frames : Whole(f)
    /\ setup.busy + Filling <= 2 * setup.pulses

\* The search at a symbol of the preamble: all of it is noticed, and its runs are noted.
Rhythm ==
    /\ blind = 0
    /\ last_state <=> at \in {2, 6, 7, 8}
    /\ at \in {2, 3, 6} => since = Ticks
    /\ at \in {4, 7} => since = 2 * Ticks
    /\ at \in {5, 8} => since = 3 * Ticks
    /\ at \in {6, 7, 8} => pattern_detect[2] = 3

\* One frame is lost when it is on the air, nobody reads it and its preamble is over or
\* cannot be read; another is due when the sample compared next time was disturbed.
Lost == IF ~heard /\ (at > 8 \/ ~Rhythm) THEN 1 ELSE 0
Due  == IF last_sample THEN 1 ELSE 0

Slack == IF setup.anywhere THEN 1 ELSE 0

Paid ==
    /\ missed \in Nat /\ glitches \in Nat /\ last_sample \in BOOLEAN
    /\ missed + Lost + Due <= 2 * glitches + Slack
    /\ Due <= 2 * glitches

\* The threshold has come up before the next preamble, and with that the search is in step.
InStep ==
    /\ at > 8 => at + blind <= Len(Stream(sending)) + 1
    /\ at <= 8 => Rhythm

\* Switched on so late that the next preamble may go unnoticed.
Fresh == setup.anywhere /\ missed = 0 /\ (at > 8 => heard)

\* Reading goes on with a frame that was heard; printing ends before the gap does, early
\* enough for the threshold to come up.
OnTime ==
    /\ mode \in {"preamble", "length", "payload", "print"}
    /\ blind \in 0..Filling
    /\ mode \in {"length", "payload"} => heard
    /\ mode = "print" =>
         busy \in Nat /\ at > 8 /\ at + busy + Filling <= Len(Stream(sending)) + 1
    /\ mode = "preamble" => InStep \/ Fresh

PaceInv == FitsGap => Paid /\ OnTime

\* The printing time and the periods of the threshold fit behind a whole frame.
LEMMA GapHolds ==
    ASSUME InSetup, FitsGap
    PROVE  /\ Whole(sending) /\ setup.busy \in Nat
           /\ Streamed(Stream(sending), Len(FrameSymbols(sending)))
           /\ Len(FrameSymbols(sending)) \in Nat /\ Len(FrameSymbols(sending)) > 9
           /\ Len(Stream(sending)) \in Nat /\ at \in 1..Len(Stream(sending))
           /\ Len(FrameSymbols(sending)) + 4 <= Len(Stream(sending))
           /\ Len(FrameSymbols(sending)) + setup.busy + Filling <= Len(Stream(sending))
<1>1. /\ setup.busy \in Nat /\ setup.pulses \in Nat
  BY LinkAssumption, ReceiverAssumption DEF InSetup
<1>2. /\ Streamed(Stream(sending), Len(FrameSymbols(sending)))
      /\ Len(Stream(sending)) >= Len(FrameSymbols(sending)) + 2 * setup.pulses
  BY StreamShape DEF InSetup
<1>3. /\ Len(FrameSymbols(sending)) \in Nat /\ Len(FrameSymbols(sending)) > 9
      /\ Len(Stream(sending)) \in Nat
      /\ Len(FrameSymbols(sending)) + 4 <= Len(Stream(sending))
  BY <1>2, Numbers DEF Streamed
<1>4. Whole(sending) /\ setup.busy + Filling <= 2 * setup.pulses
  BY DEF FitsGap, InSetup
<1>5. Len(FrameSymbols(sending)) + setup.busy + Filling <= Len(Stream(sending))
  BY <1>1, <1>2, <1>3, <1>4 DEF Filling
<1> QED
  BY <1>1, <1>2, <1>3, <1>4, <1>5 DEF InSetup

LEMMA Amounts ==
    /\ Lost = 0 \/ (Lost = 1 /\ ~heard /\ (at > 8 \/ ~Rhythm))
    /\ Due = 0 \/ Due = 1
    /\ Slack = 0 \/ (Slack = 1 /\ setup.anywhere)
BY DEF Lost, Due, Slack

\* What is owed for one that is not lost is not more than before.
LEMMA OwesNoMore ==
    ASSUME Paid, setup' = setup, glitches' = glitches, last_sample' = last_sample,
           missed' = missed, Lost' = 0 \/ Lost' = Lost
    PROVE  Paid'
<1>1. Due' = Due /\ Slack' = Slack
  BY DEF Due, Slack
<1>2. /\ missed \in Nat /\ glitches \in Nat /\ last_sample \in BOOLEAN
      /\ missed + Lost + Due <= 2 * glitches + Slack
      /\ Due <= 2 * glitches
  BY DEF Paid
<1>3. PICK m \in Nat, l \in Nat, d \in Nat, g \in Nat, k \in Nat :
        m = missed /\ l = Lost /\ d = Due /\ g = glitches /\ k = Slack
  BY <1>2, Amounts
<1>4. m + l + d <= 2 * g + k /\ m + 0 + d <= 2 * g + k
  BY <1>2, <1>3
<1>5. missed' + Lost' + Due' <= 2 * glitches' + Slack' /\ Due' <= 2 * glitches'
  BY <1>1, <1>2, <1>3, <1>4
<1> QED
  BY <1>2, <1>5 DEF Paid

\* Behind a preamble a frame is lost already, or never.
LEMMA SymbolPaid ==
    ASSUME Paid, Symbol, at \in Nat, heard \in BOOLEAN,
           glitches' = glitches, last_sample' = last_sample, at <= 8 /\ Rhythm => at < 8 /\ Rhythm'
    PROVE  Paid'
<1>1. /\ missed' = missed /\ at' = at + 1 /\ setup' = setup /\ (~heard' => ~heard)
  BY DEF Symbol, Light
<1>2. ~heard' /\ (at' > 8 \/ ~Rhythm') => ~heard /\ (at > 8 \/ ~Rhythm)
  <2>1. CASE at < 8
    <3>1. ~(at' > 8)
      BY <1>1, <2>1
    <3>2. ~Rhythm' => ~Rhythm
      BY <2>1
    <3> QED
      BY Zenon, <1>1, <3>1, <3>2
  <2>2. CASE at = 8
    <3>1. ~Rhythm
      BY <2>2
    <3> QED
      BY <1>1, <3>1
  <2>3. CASE at > 8
    BY <1>1, <2>3
  <2> QED
    BY <2>1, <2>2, <2>3
<1>3. Lost' = 0 \/ Lost' = Lost
  BY <1>2 DEF Lost
<1> QED
  BY <1>1, <1>3, OwesNoMore

\* With the last symbol of a gap a lost frame is missed.
LEMMA LastSymbolPaid ==
    ASSUME Paid, LastSymbol, at > 8, heard \in BOOLEAN,
           glitches' = glitches, last_sample' = last_sample,
           Rhythm' \/ (setup.anywhere /\ heard)
    PROVE  Paid'
<1>1. /\ setup' = setup /\ at' = 1
      /\ heard => missed' = 0
      /\ ~heard => missed' = 0 \/ missed' = missed \/ missed' = missed + 1
  BY DEF LastSymbol, Light
<1>2. Due' = Due /\ Slack' = Slack
  BY <1>1 DEF Due, Slack
<1>3. /\ missed \in Nat /\ glitches \in Nat /\ last_sample \in BOOLEAN
      /\ missed + Lost + Due <= 2 * glitches + Slack
      /\ Due <= 2 * glitches
  BY DEF Paid
<1>4. PICK m \in Nat, l \in Nat, d \in Nat, g \in Nat, k \in Nat :
        m = missed /\ l = Lost /\ d = Due /\ g = glitches /\ k = Slack
  BY <1>3, Amounts
<1>5. m + l + d <= 2 * g + k /\ d <= 2 * g
  BY <1>3, <1>4
<1>6. CASE ~heard
  <2>1. Lost = 1 /\ Lost' = 0
    <3>1. Rhythm' /\ ~(1 > 8)
      BY <1>6
    <3> QED
      BY <1>1, <1>6, <3>1 DEF Lost
  <2>2. missed' \in Nat /\ missed' + 0 + d <= 2 * g + k
    BY <1>1, <1>4, <1>5, <1>6, <2>1
  <2>3. missed' + Lost' + Due' <= 2 * glitches' + Slack' /\ Due' <= 2 * glitches'
    BY <1>2, <1>4, <1>5, <2>1, <2>2
  <2> QED
    BY <1>3, <2>2, <2>3 DEF Paid
<1>7. CASE heard
  <2>1. missed' = 0
    BY <1>1, <1>7
  <2>2. Lost' = 0 \/ (Lost' = 1 /\ k = 1)
    <3>1. CASE Rhythm'
      <4>1. ~(1 > 8)
        OBVIOUS
      <4> QED
        BY <1>1, <3>1, <4>1 DEF Lost
    <3>2. CASE setup.anywhere
      <4>1. k = 1
        BY <1>4, <3>2 DEF Slack
      <4> QED
        BY <4>1 DEF Lost
    <3> QED
      BY <3>1, <3>2
  <2>3. 0 + 0 + d <= 2 * g + k /\ (k = 1 => 0 + 1 + d <= 2 * g + k)
    BY <1>4, <1>5
  <2>4. missed' + Lost' + Due' <= 2 * glitches' + Slack' /\ Due' <= 2 * glitches'
    BY <1>2, <1>4, <1>5, <2>1, <2>2, <2>3
  <2> QED
    BY <1>3, <2>1, <2>4 DEF Paid
<1> QED
  BY <1>6, <1>7

\* A symbol that completes no pattern leaves the search going on.
LEMMA SearchUndecided ==
    ASSUME LockInv, OnTime, mode = "preamble", NEW lit,
           SearchOn(lit) \/ \E late \in 0..(Ticks - 1) : AnyEdge(lit, late)
    PROVE  /\ mode' = "preamble" /\ glitches' = glitches /\ last_sample' = last_sample
           /\ blind' \in 0..Filling /\ (blind' = 0 \/ blind' = blind - 1)
           /\ lit /\ blind' = 0 => ~last_state'
<1>1. /\ blind \in 0..Filling /\ Filling \in Nat
      /\ last_state \in BOOLEAN /\ (blind > 0 => ~last_state)
  BY DEF LockInv, SearchInv, OnTime, Filling
<1>2. CASE SearchOn(lit)
  <2>1. /\ mode' = mode /\ glitches' = glitches /\ last_sample' = last_sample
        /\ last_state' = last_state
        /\ blind' = IF blind > 0 THEN blind - 1 ELSE 0
        /\ blind > 0 \/ lit = ~last_state
    BY <1>2 DEF SearchOn
  <2>2. lit => ~last_state
    BY <1>1, <2>1
  <2>3. blind' \in 0..Filling /\ (blind' = 0 \/ blind' = blind - 1)
    BY <1>1, <2>1
  <2> QED
    BY <2>1, <2>2, <2>3
<1>3. CASE \E late \in 0..(Ticks - 1) : AnyEdge(lit, late)
  <2>1. /\ mode' = mode /\ glitches' = glitches /\ last_sample' = last_sample
        /\ blind' = 0
    BY <1>3 DEF AnyEdge
  <2>2. lit => ~last_state'
    BY <1>3 DEF AnyEdge, SearchEdge
  <2>3. blind' \in 0..Filling
    BY <1>1, <2>1
  <2> QED
    BY <2>1, <2>2, <2>3
<1> QED
  BY <1>2, <1>3

\* Anywhere but at the end of a preamble the search just goes on.
LEMMA SearchGoesOn ==
    ASSUME ClearRuns, LockInv, FitsGap, OnTime, Send, mode = "preamble", at # 8
    PROVE  /\ \/ SearchOn(Stream(sending)[at] = 1)
              \/ \E late \in 0..(Ticks - 1) : AnyEdge(Stream(sending)[at] = 1, late)
           /\ mode' = "preamble" /\ glitches' = glitches /\ last_sample' = last_sample
           /\ blind' \in 0..Filling /\ (blind' = 0 \/ blind' = blind - 1)
           /\ Stream(sending)[at] = 1 /\ blind' = 0 => ~last_state'
<1> DEFINE lit == Stream(sending)[at] = 1
<1>1. See(lit)
  BY DEF Send, Symbol, LastSymbol, Light
<1>2. \/ SearchOn(lit)
      \/ \E late \in 0..(Ticks - 1) : AnyEdge(lit, late)
  BY <1>1, FoundAtPreamble
     DEF See, StartReading, SearchAgain, ReadOn, ReadMore, LengthComplete, PayloadComplete,
         Printing, ReadEdge
<1> HIDE DEF lit
<1>3. /\ mode' = "preamble" /\ glitches' = glitches /\ last_sample' = last_sample
      /\ blind' \in 0..Filling /\ (blind' = 0 \/ blind' = blind - 1)
      /\ lit /\ blind' = 0 => ~last_state'
  BY <1>2, SearchUndecided
<1> QED
  BY <1>2, <1>3 DEF lit

\* In the gap the search loses no period the threshold needs, and ends in the light.
LEMMA GapOnTime ==
    ASSUME ClearRuns, LockInv, FitsGap, Paid, OnTime, Send, heard \in BOOLEAN,
           mode = "preamble", at > 8
    PROVE  Paid' /\ OnTime'
<1> DEFINE s == Stream(sending)
           lit == s[at] = 1
<1>1. /\ at \in 1..Len(s) /\ Len(s) \in Nat /\ Len(s) > 8 /\ s[Len(s)] = 1
      /\ blind \in 0..Filling /\ Filling \in Nat
  BY GapHolds DEF LockInv, OnTime, Streamed, Filling
<1>2. at \in Nat /\ at # 8 /\ ~(at <= 8)
  BY <1>1
<1>3. /\ mode' = "preamble" /\ glitches' = glitches /\ last_sample' = last_sample
      /\ blind' \in 0..Filling /\ (blind' = 0 \/ blind' = blind - 1)
      /\ lit /\ blind' = 0 => ~last_state'
  BY <1>2, SearchGoesOn
<1>4. at + blind <= Len(s) + 1 \/ (setup.anywhere /\ missed = 0 /\ heard)
  BY DEF OnTime, InStep, Fresh
<1>5. CASE Symbol
  <2>1. /\ at < Len(s) /\ at' = at + 1 /\ sending' = sending /\ setup' = setup
        /\ missed' = missed /\ (heard => heard')
    BY <1>5 DEF Symbol, Light
  <2>2. Stream(sending)' = s
    BY <2>1, StreamSame
  <2>3. at' > 8 /\ ~(at' <= 8)
    BY <1>2, <2>1
  <2>4. InStep' \/ Fresh'
    <3>1. CASE at + blind <= Len(s) + 1
      <4>1. at' + blind' <= Len(s) + 1
        BY <1>1, <1>3, <2>1, <3>1
      <4> QED
        BY <2>2, <2>3, <4>1 DEF InStep
    <3>2. CASE setup.anywhere /\ missed = 0 /\ heard
      BY <2>1, <3>2 DEF Fresh
    <3> QED
      BY <1>4, <3>1, <3>2
  <2>5. Paid'
    BY <1>2, <1>3, <1>5, SymbolPaid
  <2> QED
    BY <1>3, <2>4, <2>5 DEF OnTime
<1>6. CASE LastSymbol
  <2>1. /\ at = Len(s) /\ at' = 1 /\ lit /\ setup' = setup
        /\ heard => missed' = 0
    BY <1>1, <1>6 DEF LastSymbol, Light
  <2>2. 1 <= 8 /\ ~(1 > 8) /\ 1 \notin {2, 3, 4, 5, 6, 7, 8}
    OBVIOUS
  <2>3. Rhythm' \/ (setup.anywhere /\ heard)
    <3>1. CASE at + blind <= Len(s) + 1
      <4>1. blind' = 0
        BY <1>1, <1>3, <2>1, <3>1
      <4>2. ~last_state'
        BY <1>3, <2>1, <4>1
      <4> QED
        BY <2>1, <2>2, <4>1, <4>2 DEF Rhythm
    <3> QED
      BY <1>4, <3>1
  <2>4. InStep' \/ Fresh'
    BY <2>1, <2>2, <2>3 DEF InStep, Fresh
  <2>5. Paid'
    BY <1>3, <1>6, <2>3, LastSymbolPaid
  <2> QED
    BY <1>3, <2>4, <2>5 DEF OnTime
<1> QED
  BY <1>5, <1>6 DEF Send

\* A run of three symbols is measured as one of a preamble.
LEMMA ThreePeriods ==
    ASSUME ClearRuns, NEW took \in Measured(3 * Ticks)
    PROVE  NrPeriods(took) = 3
<1>1. /\ Ticks \in Nat /\ Ticks > 0 /\ Jitter \in Nat /\ Wrap \in Nat /\ Wrap > 3
      /\ 2 * Jitter < Ticks
  BY Numbers DEF ClearRuns
<1>2. took \in Nat /\ took <= 3 * Ticks + Jitter /\ 3 * Ticks - Jitter <= took
  BY <1>1 DEF Measured
<1> DEFINE p == 2 * Ticks
           r == 2 * took + Ticks - 3 * p
<1>3. p \in Nat /\ p > 0 /\ r \in Nat /\ r < p /\ 2 * took + Ticks = p * 3 + r
  BY <1>1, <1>2
<1> HIDE DEF p, r
<1>4. (p * 3 + r) \div p = 3
  BY <1>3, Quotient
<1>5. 3 % Wrap = 3
  BY <1>1
<1> QED
  BY <1>3, <1>4, <1>5 DEF NrPeriods, p

\* Runs of up to three symbols are told apart.
LEMMA Grows ==
    ASSUME ClearRuns, NEW k \in {1, 2}, since = k * Ticks
    PROVE  Longer = (k + 1) * Ticks
<1>1. Ticks \in Nat /\ MaxPeriods \in Nat /\ MaxPeriods > 2
  BY Numbers DEF ClearRuns
<1>2. MaxPeriods * Ticks = 3 * Ticks + (MaxPeriods - 3) * Ticks /\ (MaxPeriods - 3) * Ticks \in Nat
  BY <1>1
<1> QED
  BY <1>1, <1>2 DEF Longer

\* The search keeps step with the symbols of a preamble up to the last.
LEMMA KeepsRhythm ==
    ASSUME ClearRuns, LockInv, FitsGap, OnTime, Send, mode = "preamble", at < 8, Rhythm
    PROVE  Rhythm'
<1> DEFINE s == Stream(sending)
           lit == s[at] = 1
<1>1. /\ at \in 1..7 /\ s[at] = Preamble[at] /\ last_state \in BOOLEAN
      /\ at \in Nat /\ Len(s) \in Nat /\ at < Len(s)
  <2>1. InSetup /\ last_state \in BOOLEAN
    BY DEF LockInv, SearchInv
  <2>2. /\ at \in 1..Len(s) /\ Len(s) \in Nat /\ Len(s) > 8
        /\ \A k \in 1..8 : s[k] = Preamble[k]
    BY <2>1, GapHolds DEF Streamed
  <2> QED
    BY <2>1, <2>2
<1>2. at' = at + 1 /\ at' \in 2..8
  <2>1. Symbol
    BY <1>1 DEF Send, LastSymbol
  <2> QED
    BY <1>1, <2>1 DEF Symbol
<1>3. \/ SearchOn(lit)
      \/ \E late \in 0..(Ticks - 1) : AnyEdge(lit, late)
  BY <1>1, SearchGoesOn
<1>4. /\ blind = 0
      /\ last_state <=> at \in {2, 6, 7, 8}
      /\ at \in {2, 3, 6} => since = Ticks
      /\ at \in {4, 7} => since = 2 * Ticks
      /\ at \in {5, 8} => since = 3 * Ticks
      /\ at \in {6, 7, 8} => pattern_detect[2] = 3
  BY DEF Rhythm
<1>5. lit <=> at \in {2, 3, 4}
  BY <1>1, PreambleIs
<1>6. Ticks \in Nat
  BY Numbers
<1> HIDE DEF lit
<1>7. CASE SearchOn(lit)
  <2>1. /\ lit = ~last_state /\ blind' = 0 /\ since' = Longer
        /\ last_state' = last_state /\ pattern_detect' = pattern_detect
    BY <1>4, <1>7, ~(0 > 0) DEF SearchOn
  <2>2. at \in {3, 4, 6, 7}
    <3>1. lit <=> ~last_state
      BY <2>1
    <3>2. at \notin {1, 2, 5}
      BY <1>4, <1>5, <3>1
    <3> QED
      BY <1>1, <3>2
  <2>3. /\ at \in {3, 6} => since' = 2 * Ticks
        /\ at \in {4, 7} => since' = 3 * Ticks
    <3>1. at \in {3, 6} => Longer = 2 * Ticks
      <4>1. at \in {3, 6} => since = 1 * Ticks
        BY <1>4, <1>6
      <4> QED
        BY <4>1, Grows
    <3>2. at \in {4, 7} => Longer = 3 * Ticks
      BY <1>4, Grows
    <3> QED
      BY <2>1, <3>1, <3>2
  <2>4. last_state' <=> at' \in {2, 6, 7, 8}
    BY <1>2, <1>4, <2>1, <2>2
  <2>5. /\ at' \in {2, 3, 6} => since' = Ticks
        /\ at' \in {4, 7} => since' = 2 * Ticks
        /\ at' \in {5, 8} => since' = 3 * Ticks
    BY <1>2, <2>2, <2>3
  <2>6. at' \in {6, 7, 8} => pattern_detect'[2] = 3
    BY <1>2, <1>4, <2>1, <2>2
  <2> QED
    BY <2>1, <2>4, <2>5, <2>6 DEF Rhythm
<1>8. CASE \E late \in 0..(Ticks - 1) : AnyEdge(lit, late)
  <2>1. PICK late \in 0..(Ticks - 1) : AnyEdge(lit, late)
    BY <1>8
  <2>2. /\ lit = last_state /\ last_state' = ~lit /\ late = 0 /\ since' = Ticks - late
        /\ blind' = 0
    BY <1>4, <1>6, <2>1 DEF AnyEdge, SearchEdge
  <2>3. PICK took \in Measured(since + late) :
          pattern_detect' = <<pattern_detect[2], NrPeriods(took)>>
    BY <2>1 DEF AnyEdge, NotePeriods
  <2>4. at \in {1, 2, 5} /\ (last_state' <=> ~lit) /\ since' = Ticks
    <3>1. lit <=> last_state
      BY <2>2
    <3>2. at \notin {3, 4, 6, 7}
      BY <1>4, <1>5, <3>1
    <3>3. at \in {1, 2, 5}
      BY <1>1, <3>2
    <3>4. since' = Ticks
      BY <1>6, <2>2
    <3>5. last_state' <=> ~lit
      BY <2>2
    <3> QED
      BY <3>3, <3>4, <3>5
  <2>5. ASSUME at = 5
        PROVE  pattern_detect'[2] = 3
    <3>1. since + late = 3 * Ticks
      BY <1>4, <1>6, <2>2, <2>5
    <3>2. NrPeriods(took) = 3
      BY <3>1, ThreePeriods
    <3> QED
      BY <2>3, <3>2
  <2>6. last_state' <=> at' \in {2, 6, 7, 8}
    BY <1>2, <1>5, <2>4
  <2>7. /\ at' \in {2, 3, 6} => since' = Ticks
        /\ at' \in {4, 7} => since' = 2 * Ticks
        /\ at' \in {5, 8} => since' = 3 * Ticks
    BY <1>2, <2>4
  <2>8. at' \in {6, 7, 8} => pattern_detect'[2] = 3
    BY <1>2, <2>4, <2>5
  <2> QED
    BY <2>2, <2>6, <2>7, <2>8 DEF Rhythm
<1> QED
  BY <1>3, <1>7, <1>8

\* Whether in step or not, the search gets to the end of the preamble.
LEMMA PreambleOnTime ==
    ASSUME ClearRuns, LockInv, FitsGap, Paid, OnTime, Send, heard \in BOOLEAN,
           mode = "preamble", at < 8
    PROVE  Paid' /\ OnTime'
<1>1. /\ at \in Nat /\ Len(Stream(sending)) \in Nat /\ at < Len(Stream(sending))
      /\ ~(at > 8) /\ at <= 8 /\ at # 8
  <2>1. /\ at \in 1..Len(Stream(sending)) /\ Len(Stream(sending)) \in Nat
        /\ Len(Stream(sending)) > 8
    BY GapHolds DEF LockInv
  <2> QED
    BY <2>1
<1>2. Symbol
  BY <1>1 DEF Send, LastSymbol
<1>3. /\ at' = at + 1 /\ ~(at' > 8) /\ setup' = setup /\ missed' = missed
  BY <1>1, <1>2 DEF Symbol, Light
<1>4. /\ mode' = "preamble" /\ glitches' = glitches /\ last_sample' = last_sample
      /\ blind' \in 0..Filling
  BY <1>1, SearchGoesOn
<1>5. Rhythm => Rhythm'
  BY KeepsRhythm
<1>6. Rhythm \/ (setup.anywhere /\ missed = 0)
  BY <1>1 DEF OnTime, InStep, Fresh
<1>7. InStep' \/ Fresh'
  BY <1>3, <1>5, <1>6 DEF InStep, Fresh
<1>8. Paid'
  BY <1>1, <1>2, <1>4, <1>5, SymbolPaid
<1> QED
  BY <1>4, <1>7, <1>8 DEF OnTime

\* In step, the search finds the preamble complete at its last symbol.
LEMMA FindsPreamble ==
    ASSUME ClearRuns, Rhythm, at = 8, NEW lit, lit
    PROVE  /\ ~SearchOn(lit)
           /\ \A late \in 0..(Ticks - 1) : ~AnyEdge(lit, late)
<1>1. blind = 0 /\ last_state /\ since = 3 * Ticks /\ pattern_detect[2] = 3
  BY DEF Rhythm
<1>2. ~SearchOn(lit)
  BY <1>1, ~(0 > 0) DEF SearchOn
<1>3. ASSUME NEW late \in 0..(Ticks - 1), AnyEdge(lit, late)
      PROVE  FALSE
  <2>1. late = 0
    BY <1>1, <1>3, Numbers DEF AnyEdge, SearchEdge
  <2>2. since + late = 3 * Ticks
    BY <1>1, <2>1, Numbers
  <2>3. PICK took \in Measured(3 * Ticks) :
          pattern_detect' = <<pattern_detect[2], NrPeriods(took)>>
    BY <1>3, <2>2 DEF AnyEdge, NotePeriods
  <2>4. pattern_detect' = <<3, 3>>
    BY <1>1, <2>3, ThreePeriods
  <2> QED
    BY <1>3, <2>4 DEF AnyEdge, PREAMBLE_PATTERN
<1> QED
  BY <1>2, <1>3

\* At the last symbol of a preamble the receiver starts to read, or pays for starting again
\* with the sample that was disturbed, or has been switched on too late.
LEMMA ReadsOrPays ==
    ASSUME ClearRuns, LockInv, FitsGap, Paid, OnTime, Send, heard \in BOOLEAN,
           mode = "preamble", at = 8
    PROVE  Paid' /\ OnTime'
<1> DEFINE s == Stream(sending)
           lit == s[at] = 1
<1>1. /\ at \in Nat /\ Len(s) \in Nat /\ Len(s) >= 14 /\ s[8] = Preamble[8]
  BY GapHolds DEF LockInv, Streamed
<1>2. Symbol
  <2>1. PICK long \in Nat : long = Len(s) /\ long >= 14
    BY <1>1
  <2>2. at # Len(s)
    BY <2>1
  <2> QED
    BY <2>2 DEF Send, LastSymbol
<1>3. /\ at' = 9 /\ See(lit) /\ sending' = sending /\ setup' = setup
      /\ heard' = (heard \/ Locks) /\ missed' = missed
  BY <1>2 DEF Symbol, Light
<1>4. lit
  BY <1>1, PreambleIs
<1>5. /\ 9 > 8 /\ ~(9 <= 8)
      /\ \A b \in 0..Filling : 9 + b <= Len(s) + 1
  BY <1>1 DEF Filling
<1>6. ASSUME mode' = "preamble", blind' \in 0..Filling
      PROVE  OnTime'
  <2>1. Stream(sending)' = s
    BY <1>3, StreamSame
  <2>2. InStep'
    BY <1>3, <1>5, <1>6, <2>1 DEF InStep
  <2> QED
    BY <1>6, <2>2 DEF OnTime
<1>7. /\ missed \in Nat /\ glitches \in Nat /\ last_sample \in BOOLEAN
      /\ missed + Lost + Due <= 2 * glitches + Slack
      /\ Due <= 2 * glitches
  BY DEF Paid
<1>8. PICK m \in Nat, l \in Nat, d \in Nat, g \in Nat, k \in Nat :
        m = missed /\ l = Lost /\ d = Due /\ g = glitches /\ k = Slack
  BY <1>7, Amounts
<1>9. m + l + d <= 2 * g + k /\ d <= 2 * g
  BY <1>7, <1>8
<1>10. Slack' = Slack
  BY <1>3 DEF Slack
<1> HIDE DEF lit
<1>11. CASE SearchOn(lit) \/ \E late \in 0..(Ticks - 1) : AnyEdge(lit, late)
  <2>1. ~Rhythm
    BY <1>4, <1>11, FindsPreamble
  <2>2. /\ mode' = "preamble" /\ glitches' = glitches /\ last_sample' = last_sample
        /\ blind' \in 0..Filling
    BY <1>11, SearchUndecided
  <2>3. Paid'
    BY <1>1, <1>2, <2>1, <2>2, SymbolPaid
  <2> QED
    BY <1>6, <2>2, <2>3
<1>12. CASE \E late \in 0..(Ticks - 1) : StartReading(lit, late)
  <2>1. /\ mode' = "length" /\ last_sample' = last_sample /\ blind' = 0
        /\ glitches' = glitches \/ glitches' = glitches + 1
    BY <1>12 DEF StartReading, Found
  <2>2. heard' = TRUE
    BY <1>3, <2>1 DEF Locks
  <2>3. Lost' = 0 /\ Due' = Due
    BY <2>1, <2>2 DEF Lost, Due
  <2>4. glitches' \in Nat /\ m + 0 + d <= 2 * glitches' + k /\ d <= 2 * glitches'
    BY <1>8, <1>9, <2>1
  <2>5. missed' + Lost' + Due' <= 2 * glitches' + Slack' /\ Due' <= 2 * glitches'
    BY <1>3, <1>8, <1>10, <2>3, <2>4
  <2>6. Paid'
    BY <1>3, <1>7, <2>1, <2>4, <2>5 DEF Paid
  <2>7. OnTime'
    <3>1. 0 \in 0..Filling
      BY DEF Filling
    <3> QED
      BY <2>1, <2>2, <3>1 DEF OnTime
  <2> QED
    BY <2>6, <2>7
<1>13. CASE \E late \in 0..(Ticks - 1) : SearchAgain(lit, late)
  <2>1. PICK dark \in BOOLEAN :
          /\ mode' = "preamble" /\ blind' = Filling
          /\ last_sample' = dark /\ dark # last_sample
          /\ glitches' = IF dark THEN glitches + 1 ELSE glitches
    BY <1>13 DEF SearchAgain, Found
  <2>2. OnTime'
    <3>1. Filling \in 0..Filling
      BY DEF Filling
    <3> QED
      BY <1>6, <2>1, <3>1
  <2>3. Lost' = 0 \/ Lost' = 1
    BY DEF Lost
  <2>4. CASE dark
    <3>1. Due' = 1 /\ glitches' = glitches + 1
      BY <2>1, <2>4 DEF Due
    <3>2. m + 0 + 1 <= 2 * (g + 1) + k /\ m + 1 + 1 <= 2 * (g + 1) + k /\ 1 <= 2 * (g + 1)
      BY <1>9
    <3>3. missed' + Lost' + Due' <= 2 * glitches' + Slack' /\ Due' <= 2 * glitches'
      BY <1>3, <1>8, <1>10, <2>3, <3>1, <3>2
    <3>4. glitches' \in Nat
      BY <1>8, <3>1
    <3> QED
      BY <1>3, <1>7, <2>1, <2>2, <3>3, <3>4 DEF Paid
  <2>5. CASE ~dark
    <3>1. last_sample /\ Due = 1 /\ Due' = 0 /\ glitches' = glitches
      BY <1>7, <2>1, <2>5 DEF Due
    <3>2. m + 0 + 0 <= 2 * g + k /\ m + 1 + 0 <= 2 * g + k /\ 0 <= 2 * g
      BY <1>8, <1>9, <3>1
    <3>3. missed' + Lost' + Due' <= 2 * glitches' + Slack' /\ Due' <= 2 * glitches'
      BY <1>3, <1>8, <1>10, <2>3, <3>1, <3>2
    <3> QED
      BY <1>3, <1>7, <2>1, <2>2, <3>1, <3>3 DEF Paid
  <2> QED
    BY <2>4, <2>5
<1> QED
  BY <1>3, <1>11, <1>12, <1>13
     DEF See, ReadOn, ReadMore, LengthComplete, PayloadComplete, Printing, ReadEdge

\* A frame that was heard is read to its end and printed, and printing ends in time.
LEMMA ReadsInTime ==
    ASSUME ClearRuns, LockInv, ReadInv, FitsGap, Paid, OnTime, Send,
           mode \in {"length", "payload"}
    PROVE  Paid' /\ OnTime'
<1> DEFINE s == Stream(sending)
           n == Len(FrameSymbols(sending))
<1>1. /\ InSetup /\ Whole(sending) /\ heard /\ heard \in BOOLEAN
  BY GapHolds DEF LockInv, OnTime, ReadInv
<1>2. /\ n \in Nat /\ n > 9 /\ Len(s) \in Nat /\ setup.busy \in Nat
      /\ n + setup.busy + Filling <= Len(s) /\ Streamed(s, n)
  BY <1>1, GapHolds
<1>3. LengthEnd \in Nat /\ LengthEnd < n /\ PayloadStart \in Nat
  BY <1>1, FrameParts
<1>4. PICK z, end \in Nat, l \in {1, 2} : Span(s, at, z, end, l) /\ end <= n
  <2>1. CASE mode = "length"
    <3>1. PICK l \in {1, 2} : Span(s, at, 8, LengthEnd, l)
      BY <1>1, <2>1 DEF ReadInv
    <3>2. LengthEnd <= n /\ 8 \in Nat
      BY <1>2, <1>3
    <3> HIDE DEF n, s
    <3> QED
      BY <1>3, <3>1, <3>2
  <2>2. CASE mode = "payload"
    <3>1. PICK l \in {1, 2}, e \in {0, 1} : Span(s, at, PayloadStart, n - e, l)
      BY <1>1, <2>2 DEF ReadInv
    <3>2. n - e \in Nat /\ n - e <= n
      BY <1>2
    <3> HIDE DEF n, s
    <3> QED
      BY <1>3, <3>1, <3>2
  <2> QED
    BY <2>1, <2>2
<1>5. /\ at \in Nat /\ at' = at + 1 /\ Stream(sending)' = s
      /\ heard' = (heard \/ Locks) /\ See(s[at] = 1)
  BY <1>4, InStepMoves
<1>6. at > 8 /\ at <= n
  BY <1>2, <1>4, <1>5, SpanInFrame
<1>7. heard' /\ at' > 8 /\ at # Len(s) /\ ~(at <= 8)
  <2>1. heard'
    BY <1>1, <1>5
  <2>2. at' > 8 /\ ~(at <= 8)
    BY <1>5, <1>6
  <2>3. at # Len(s)
    BY <1>2, <1>4, <1>5, SpanInFrame
  <2> QED
    BY <2>1, <2>2, <2>3
<1>8. \/ ReadOn(s[at] = 1) \/ ReadMore(s[at] = 1)
      \/ LengthComplete(s[at] = 1) \/ PayloadComplete(s[at] = 1)
  BY <1>5
     DEF See, SearchOn, AnyEdge, StartReading, SearchAgain, Found, SearchEdge, Printing
<1>9. glitches' = glitches /\ last_sample' = last_sample /\ blind' = blind
  BY <1>8 DEF ReadOn, ReadMore, LengthComplete, PayloadComplete, search
<1>10. Paid' /\ blind' \in 0..Filling
  <2>1. Symbol
    BY <1>7 DEF Send, LastSymbol
  <2>2. Paid'
    BY <1>1, <1>5, <1>7, <1>9, <2>1, SymbolPaid
  <2> QED
    BY <1>9, <2>2 DEF OnTime
<1>11. CASE PayloadComplete(s[at] = 1)
  <2>1. mode' = "print" /\ busy' \in Nat
    BY <1>11, ReceiverAssumption DEF PayloadComplete
  <2>2. busy' <= setup.busy
    BY DEF Send, Symbol, LastSymbol, Light
  <2>3. at' + busy' + Filling <= Len(s) + 1
    BY <1>2, <1>5, <1>6, <2>1, <2>2 DEF Filling
  <2> QED
    BY <1>5, <1>7, <1>10, <2>1, <2>3 DEF OnTime
<1>12. CASE ReadOn(s[at] = 1) \/ ReadMore(s[at] = 1) \/ LengthComplete(s[at] = 1)
  <2>1. mode' \in {"length", "payload"}
    BY <1>12 DEF ReadOn, ReadMore, LengthComplete
  <2> QED
    BY <1>7, <1>10, <2>1 DEF OnTime
<1> QED
  BY <1>8, <1>11, <1>12

\* Printing goes on in the gap.
LEMMA PrintsInTime ==
    ASSUME LockInv, FitsGap, Paid, OnTime, Send, heard \in BOOLEAN, mode = "print"
    PROVE  Paid' /\ OnTime'
<1> DEFINE s == Stream(sending)
<1>1. /\ InSetup /\ at \in Nat /\ Len(s) \in Nat
  BY GapHolds DEF LockInv
<1>2. busy \in Nat /\ at > 8 /\ at + busy + Filling <= Len(s) + 1
  BY DEF OnTime
<1>3. See(s[at] = 1)
  BY DEF Send, Symbol, LastSymbol, Light
<1>4. Printing
  BY <1>3
     DEF See, SearchOn, AnyEdge, StartReading, SearchAgain, Found, SearchEdge, ReadOn, ReadMore,
         LengthComplete, PayloadComplete, ReadEdge
<1>5. /\ mode' = mode /\ busy > 0 /\ busy' = busy - 1
      /\ glitches' = glitches /\ last_sample' = last_sample /\ blind' = blind
  BY <1>4 DEF Printing, search
<1>6. at < Len(s) /\ ~(at <= 8)
  BY <1>1, <1>2, <1>5 DEF Filling
<1>7. Symbol
  BY <1>1, <1>6 DEF Send, LastSymbol
<1>8. at' = at + 1 /\ sending' = sending /\ setup' = setup
  BY <1>7 DEF Symbol, Light
<1>9. Stream(sending)' = s
  BY <1>8, StreamSame
<1>10. busy' \in Nat /\ at' > 8 /\ at' + busy' + Filling <= Len(s) + 1
  BY <1>1, <1>2, <1>5, <1>8 DEF Filling
<1>11. Paid' /\ blind' \in 0..Filling
  BY <1>1, <1>5, <1>6, <1>7, SymbolPaid DEF OnTime
<1> QED
  BY <1>5, <1>9, <1>10, <1>11 DEF OnTime

LEMMA PaceStart == Init => PaceInv
<1> SUFFICES ASSUME Init, FitsGap PROVE Paid /\ OnTime
  BY DEF PaceInv
<1>1. InSetup
  BY LockStart DEF LockInv
<1>2. /\ Len(FrameSymbols(sending)) \in Nat /\ Len(FrameSymbols(sending)) > 9
      /\ Len(Stream(sending)) \in Nat
      /\ Len(FrameSymbols(sending)) + 4 <= Len(Stream(sending))
  BY <1>1, GapHolds
<1>3. /\ mode = "preamble" /\ blind = Filling /\ heard = TRUE /\ missed = 0
      /\ glitches = 0 /\ last_sample = FALSE
  BY DEF Init, ReceiverInit
<1>4. Paid
  <2>1. Lost = 0 /\ Due = 0
    BY <1>3 DEF Lost, Due
  <2>2. missed + Lost + Due <= 2 * glitches + Slack /\ Due <= 2 * glitches
    <3>1. Slack = 0 \/ Slack = 1
      BY DEF Slack
    <3> QED
      BY <1>3, <2>1, <3>1
  <2>3. missed \in Nat /\ glitches \in Nat
    BY <1>3
  <2>4. last_sample \in BOOLEAN
    BY <1>3
  <2> QED
    BY <2>2, <2>3, <2>4 DEF Paid
<1>5. InStep \/ Fresh
  <2>1. CASE setup.anywhere
    BY <1>3, <2>1 DEF Fresh
  <2>2. CASE ~setup.anywhere
    <3>1. at = Len(FrameSymbols(sending)) + 1
      BY <2>2 DEF Init
    <3>2. at > 8 /\ ~(at <= 8) /\ at + blind <= Len(Stream(sending)) + 1
      BY <1>2, <1>3, <3>1 DEF Filling
    <3> QED
      BY <3>2 DEF InStep
  <2> QED
    BY <2>1, <2>2
<1>6. Filling \in 0..Filling
  BY DEF Filling
<1> QED
  BY <1>3, <1>4, <1>5, <1>6 DEF OnTime

LEMMA PaceKept ==
    ASSUME ClearRuns, LockInv, ReadInv, PaceInv, [Next]_linkVars
    PROVE  PaceInv'
<1>1. setup' = setup
  BY DEF Next, Send, Symbol, LastSymbol, Light, Receive, linkVars
<1> SUFFICES ASSUME FitsGap PROVE Paid' /\ OnTime'
  BY <1>1 DEF PaceInv, FitsGap
<1>2. Paid /\ OnTime /\ InSetup /\ heard \in BOOLEAN
  BY DEF PaceInv, LockInv, ReadInv
<1>3. at \in Nat /\ Len(Stream(sending)) \in Nat
  BY <1>2, GapHolds
<1>4. CASE Send
  <2>1. CASE mode = "preamble"
    <3>1. at < 8 \/ at = 8 \/ at > 8
      BY <1>3
    <3> QED
      BY <1>2, <1>4, <2>1, <3>1, PreambleOnTime, ReadsOrPays, GapOnTime
  <2>2. CASE mode \in {"length", "payload"}
    BY <1>2, <1>4, <2>2, ReadsInTime
  <2>3. CASE mode = "print"
    BY <1>2, <1>4, <2>3, PrintsInTime
  <2> QED
    BY <1>2, <2>1, <2>2, <2>3 DEF OnTime
<1>5. CASE Receive
  <2>1. /\ mode = "print" /\ busy = 0 /\ mode' = "preamble" /\ blind' = Filling
        /\ sending' = sending /\ at' = at /\ heard' = heard /\ missed' = missed
        /\ glitches' = glitches /\ last_sample' = last_sample
    BY <1>5 DEF Receive, Loop
  <2>2. Stream(sending)' = Stream(sending)
    BY <1>1, <2>1, StreamSame
  <2>3. at > 8 /\ ~(at <= 8) /\ at + Filling <= Len(Stream(sending)) + 1
    BY <1>2, <1>3, <2>1 DEF OnTime, Filling
  <2>4. InStep'
    BY <2>1, <2>2, <2>3 DEF InStep
  <2>5. Lost' = Lost
    BY <2>1, <2>3 DEF Lost
  <2>6. Paid'
    BY <1>1, <1>2, <2>1, <2>5, OwesNoMore
  <2>7. Filling \in 0..Filling
    BY DEF Filling
  <2> QED
    BY <2>1, <2>4, <2>6, <2>7 DEF OnTime
<1>6. CASE UNCHANGED linkVars
  <2>1. /\ mode' = mode /\ busy' = busy /\ blind' = blind /\ since' = since
        /\ last_state' = last_state /\ pattern_detect' = pattern_detect
        /\ sending' = sending /\ at' = at /\ heard' = heard /\ missed' = missed
        /\ glitches' = glitches /\ last_sample' = last_sample
    BY <1>6 DEF linkVars, receiver, search
  <2>2. Stream(sending)' = Stream(sending)
    BY <1>1, <2>1, StreamSame
  <2>3. Rhythm' = Rhythm
    BY <2>1 DEF Rhythm
  <2>4. Lost' = Lost
    BY <2>1, <2>3 DEF Lost
  <2>5. Paid'
    BY <1>1, <1>2, <2>1, <2>4, OwesNoMore
  <2>6. InStep \/ Fresh => InStep' \/ Fresh'
    BY <1>1, <2>1, <2>2, <2>3 DEF InStep, Fresh
  <2> QED
    BY <1>2, <2>1, <2>2, <2>5, <2>6 DEF OnTime
<1> QED
  BY <1>4, <1>5, <1>6 DEF Next

\* When frames are whole and printing fits the gap with the periods the threshold needs, no
\* frame is missed but for a disturbed sample behind a preamble, and that costs its frame and
\* the next; a receiver that is switched on anywhere misses one more at most, for any frames,
\* gaps and printing times (common.h:28, fast_receiver.ino:280, 365, 383).
THEOREM MissesOnlyDisturbed ==
    ASSUME ClearRuns
    PROVE  Spec => [](FitsGap => MissesFew)
<1>1. Init => LockInv /\ ReadInv /\ PaceInv
  BY LockStart, ReadStart, PaceStart
<1>2. LockInv /\ ReadInv /\ PaceInv /\ [Next]_linkVars => LockInv' /\ ReadInv' /\ PaceInv'
  BY LockKept, ReadKept, PaceKept
<1>3. PaceInv => (FitsGap => MissesFew)
  <2> SUFFICES ASSUME PaceInv, FitsGap PROVE MissesFew
    OBVIOUS
  <2>1. missed \in Nat /\ glitches \in Nat /\ missed + Lost + Due <= 2 * glitches + Slack
    BY DEF PaceInv, Paid
  <2>2. PICK m \in Nat, l \in Nat, d \in Nat, g \in Nat :
          m = missed /\ l = Lost /\ d = Due /\ g = glitches
    BY <2>1, Amounts
  <2>3. CASE setup.anywhere
    <3>1. ~Undisturbed /\ Slack = 1
      BY <2>3 DEF Undisturbed, Slack
    <3>2. m <= 2 * g + 1
      BY <2>1, <2>2, <3>1
    <3> QED
      BY <2>2, <3>1, <3>2 DEF MissesFew
  <2>4. CASE ~setup.anywhere
    <3>1. Undisturbed /\ Slack = 0
      BY <2>4 DEF Undisturbed, FitsGap, Slack
    <3>2. m <= 2 * g + 0
      BY <2>1, <2>2, <3>1
    <3> QED
      BY <2>2, <3>1, <3>2 DEF MissesFew
  <2> QED
    BY <2>3, <2>4
<1> QED
  BY <1>1, <1>2, <1>3, PTL DEF Spec

=============================================================================
