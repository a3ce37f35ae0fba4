--------------------------- MODULE ReceiverProofs ---------------------------
(***************************************************************************)
(* The receiver under any light: its variables keep their types, the bits  *)
(* of a message stay within the bytes waited for and one bit more, and     *)
(* every search starts clean.                                              *)
(* The log has room for every message in flight, for any size of log; and  *)
(* a receiver with a log is a receiver, so that what is shown of           *)
(* ReceiverSpec holds of it too.  What the log reports is the number of    *)
(* bits that differ, counted by sums over the bytes compared.              *)
(*                                                                         *)
(* The bound on the bits rests on a budget: twice the bits registered plus *)
(* the reads left, plus one while the current run began in the middle of a *)
(* bit, never grows while a message is read.                               *)
(***************************************************************************)
EXTENDS PayloadLog, InductionLemmas

MessageBits == (length + BYTES_RS) * ByteBits
Middle == IF uneven THEN 1 ELSE 0
Budget == 2 * Len(decoded) + incoming_reads + Middle

BudgetInv ==
    /\ mode \in {"length", "payload"} => incoming_reads > 0
    /\ mode = "length" => Budget <= 2 * ByteBits
    /\ mode = "payload" => Budget <= 2 * MessageBits + 1
    /\ mode = "print" => Len(decoded) <= MessageBits + 1

\* The search is left with light on, and with the resets still to come.
CleanInv ==
    /\ mode = "preamble" => is_high /\ decoded = <<>> /\ length = 0
    /\ mode # "preamble" => ~last_state
    /\ blind > 0 => ~last_state

IInv == ReceiverTypeOK /\ BudgetInv /\ CleanInv

-----------------------------------------------------------------------------
LEMMA Numbers ==
    /\ ByteBits \in Nat /\ ByteBits > 0
    /\ BYTES_RS \in Nat
    /\ Wrap \in Nat /\ Wrap > 3
    /\ Ticks \in Nat /\ Ticks > 0
    /\ Jitter \in Nat
    /\ BusyMax \in Nat
    /\ MaxPeriods * Ticks \in Nat
    /\ Ticks <= MaxPeriods * Ticks
    /\ 0 \in Byte
    /\ Byte \subseteq Nat
<1>1. /\ ByteBits \in Nat /\ ByteBits > 0
      /\ 2^ByteBits \in Nat /\ 2^ByteBits > 0
  BY ByteAssumption
<1>2. 0 \in Byte /\ Byte \subseteq Nat
  <2> DEFINE top == 2^ByteBits
  <2>1. top \in Nat /\ top > 0
    BY <1>1
  <2>2. Byte = 0..(top - 1)
    BY DEF Byte
  <2> HIDE DEF top
  <2> QED
    BY <2>1, <2>2
<1>3. /\ BYTES_RS \in Nat
      /\ Wrap \in Nat /\ Wrap > 3
      /\ Ticks \in Nat /\ Ticks > 0
      /\ Jitter \in Nat
      /\ BusyMax \in Nat
      /\ MaxPeriods \in Nat /\ MaxPeriods > 0
  BY ReceiverAssumption
<1>4. MaxPeriods * Ticks \in Nat /\ Ticks <= MaxPeriods * Ticks
  BY <1>3
<1> QED
  BY <1>1, <1>2, <1>3, <1>4

LEMMA MessageBitsNat ==
    ASSUME NEW n \in Byte
    PROVE  /\ (n + BYTES_RS) * ByteBits \in Nat
           /\ (n + BYTES_RS) * 2 * ByteBits = 2 * ((n + BYTES_RS) * ByteBits)
           /\ (n + BYTES_RS) * ByteBits > 0
<1>1. n + BYTES_RS \in Nat /\ n + BYTES_RS > 0 /\ ByteBits \in Nat /\ ByteBits > 0
  BY Numbers, ReceiverAssumption
<1> QED
  BY <1>1

LEMMA PeriodsFitByte ==
    ASSUME NEW took \in Int, took > 0
    PROVE  NrPeriods(took) \in 0..(Wrap - 1)
<1> DEFINE q == (2 * took + Ticks) \div (2 * Ticks)
<1>1. q \in Nat
  BY Numbers
<1> HIDE DEF q
<1>2. q % Wrap \in 0..(Wrap - 1)
  BY <1>1, Numbers
<1> QED
  BY <1>2 DEF NrPeriods, q

LEMMA MeasuredPositive ==
    ASSUME NEW t \in Nat, NEW took \in Measured(t)
    PROVE  took \in Int /\ took > 0
BY Numbers DEF Measured

LEMMA LongerFits ==
    ASSUME since \in 0..(MaxPeriods * Ticks)
    PROVE  Longer \in 0..(MaxPeriods * Ticks)
<1> DEFINE top == MaxPeriods * Ticks
<1>1. top \in Nat /\ Ticks \in Nat
  BY Numbers
<1>2. Longer = IF since + Ticks > top THEN since ELSE since + Ticks
  BY DEF Longer
<1> HIDE DEF top
<1>3. since \in 0..top
  BY DEF top
<1>4. Longer \in 0..top
  BY <1>1, <1>2, <1>3
<1> QED
  BY <1>4 DEF top

-----------------------------------------------------------------------------
\* A run of any length leaves the budget where it was or lower, and registers at
\* most one bit.
LEMMA RunKeepsBudget ==
    ASSUME ReceiverTypeOK,
           NEW took \in Int,
           uneven' = (IF OneSymbol(took) THEN ~uneven ELSE uneven)
    PROVE  /\ Registered(took) \in Seq(BOOLEAN)
           /\ ReadsLeft(took) \in Int
           /\ Len(Registered(took)) <= Len(decoded) + 1
           /\ 2 * Len(Registered(took)) + ReadsLeft(took) + Middle' <= Budget
<1>1. /\ decoded \in Seq(BOOLEAN) /\ Len(decoded) \in Nat
      /\ is_high \in BOOLEAN /\ uneven \in BOOLEAN /\ incoming_reads \in Int
  BY DEF ReceiverTypeOK
<1>0. ~(OneSymbol(took) /\ TwoSymbols(took))
  BY Numbers DEF OneSymbol, TwoSymbols
<1>2. ASSUME NEW b \in BOOLEAN
      PROVE  Append(decoded, b) \in Seq(BOOLEAN) /\ Len(Append(decoded, b)) = Len(decoded) + 1
  BY <1>1
<1>3. CASE OneSymbol(took) /\ uneven
  <2>1. Registered(took) = Append(decoded, is_high) /\ ReadsLeft(took) = incoming_reads - 1
    BY <1>0, <1>3 DEF Registered, ReadsLeft
  <2>2. Middle = 1 /\ Middle' = 0
    BY <1>3 DEF Middle
  <2> QED
    BY <1>1, <1>2, <2>1, <2>2 DEF Budget
<1>4. CASE OneSymbol(took) /\ ~uneven
  <2>1. Registered(took) = decoded /\ ReadsLeft(took) = incoming_reads - 1
    BY <1>0, <1>4 DEF Registered, ReadsLeft
  <2>2. Middle = 0 /\ Middle' = 1
    BY <1>4 DEF Middle
  <2> QED
    BY <1>1, <2>1, <2>2 DEF Budget
<1>5. CASE ~OneSymbol(took)
  <2>1. Middle' = Middle /\ Middle \in 0..1
    BY <1>5 DEF Middle
  <2>2. CASE TwoSymbols(took)
    <3>1. /\ Registered(took) = Append(decoded, ~is_high)
          /\ ReadsLeft(took) = incoming_reads - 2
      BY <1>5, <2>2 DEF Registered, ReadsLeft
    <3> QED
      BY <1>1, <1>2, <2>1, <3>1 DEF Budget
  <2>3. CASE ~TwoSymbols(took)
    <3>1. Registered(took) = decoded /\ ReadsLeft(took) = incoming_reads - 3
      BY <1>5, <2>3 DEF Registered, ReadsLeft
    <3> QED
      BY <1>1, <2>1, <3>1 DEF Budget
  <2> QED
    BY <2>2, <2>3
<1> QED
  BY <1>3, <1>4, <1>5

\* A budget of which no bit is registered yet.
LEMMA NothingRegistered ==
    ASSUME NEW d, d = <<>>, NEW r \in Int, NEW m \in 0..1
    PROVE  2 * Len(d) + r + m <= r + 1
<1>1. Len(d) = 0
  OBVIOUS
<1> QED
  BY <1>1

LEMMA InitHolds == ReceiverInit => IInv
<1> SUFFICES ASSUME ReceiverInit PROVE IInv
  OBVIOUS
<1>1. ReceiverTypeOK
  <2>1. MaxPeriods * Ticks \in Nat
    BY Numbers
  <2>2. since \in 0..(MaxPeriods * Ticks)
    <3> DEFINE top == MaxPeriods * Ticks
    <3>1. top \in Nat /\ since = 0
      BY <2>1 DEF ReceiverInit
    <3> HIDE DEF top
    <3>2. since \in 0..top
      BY <3>1
    <3> QED
      BY <3>2 DEF top
  <2>3. pattern_detect \in (0..(Wrap - 1)) \X (0..(Wrap - 1))
    BY Numbers DEF ReceiverInit
  <2>4. blind \in 0..Filling /\ busy \in 0..BusyMax /\ glitches \in 0..MaxGlitches
    BY ReceiverAssumption DEF ReceiverInit, Filling
  <2>5. decoded \in Seq(BOOLEAN) /\ length \in Byte /\ incoming_reads \in Int
    BY Numbers DEF ReceiverInit
  <2> QED
    BY <2>2, <2>3, <2>4, <2>5 DEF ReceiverInit, ReceiverTypeOK
<1>2. BudgetInv /\ CleanInv
  BY DEF ReceiverInit, BudgetInv, CleanInv
<1> QED
  BY <1>1, <1>2 DEF IInv

\* An edge seen by the search: what it writes keeps its type.
LEMMA SearchEdgeTypes ==
    ASSUME ReceiverTypeOK,
           NEW lit \in BOOLEAN,
           NEW late \in 0..(Ticks - 1),
           NEW took \in Measured(since + late),
           SearchEdge(lit, late),
           NotePeriods(took)
    PROVE  /\ since' \in 0..(MaxPeriods * Ticks)
           /\ last_state' \in BOOLEAN
           /\ pattern_detect' \in (0..(Wrap - 1)) \X (0..(Wrap - 1))
<1>1. since \in Nat /\ late \in Nat /\ late < Ticks
  BY Numbers DEF ReceiverTypeOK
<1>2. since' = Ticks - late /\ last_state' = ~lit
  BY DEF SearchEdge
<1>3. since' \in 0..(MaxPeriods * Ticks)
  <2> DEFINE top == MaxPeriods * Ticks
  <2>1. top \in Nat /\ Ticks \in Nat /\ Ticks <= top
    BY Numbers
  <2> HIDE DEF top
  <2>2. since' \in 0..top
    BY <1>1, <1>2, <2>1
  <2> QED
    BY <2>2 DEF top
<1>4. took \in Int /\ took > 0
  BY <1>1, MeasuredPositive
<1>5. NrPeriods(took) \in 0..(Wrap - 1)
  BY <1>4, PeriodsFitByte
<1>6. pattern_detect' \in (0..(Wrap - 1)) \X (0..(Wrap - 1))
  BY <1>5 DEF NotePeriods, ReceiverTypeOK
<1> QED
  BY <1>2, <1>3, <1>6

LEMMA FoundFacts ==
    ASSUME ReceiverTypeOK,
           NEW lit \in BOOLEAN,
           NEW late \in 0..(Ticks - 1),
           NEW took \in Measured(since + late),
           NEW dark \in BOOLEAN,
           Found(lit, late, took, dark)
    PROVE  /\ SearchEdge(lit, late) /\ NotePeriods(took) /\ lit
           /\ mode = "preamble"
           /\ last_state' = FALSE
           /\ glitches' \in 0..MaxGlitches
<1>1. SearchEdge(lit, late) /\ NotePeriods(took) /\ lit
  BY DEF Found
<1>2. mode = "preamble" /\ last_state' = FALSE
  BY <1>1 DEF SearchEdge
<1>3. glitches' \in 0..MaxGlitches
  <2>1. glitches \in Nat
    BY ReceiverAssumption DEF ReceiverTypeOK
  <2>2. glitches' = (IF dark THEN glitches + 1 ELSE glitches) /\ glitches' <= MaxGlitches
    BY DEF Found
  <2> QED
    BY <2>1, <2>2, ReceiverAssumption
<1> QED
  BY <1>1, <1>2, <1>3

\* An edge seen by read_incoming.
LEMMA ReadEdgeTypes ==
    ASSUME ReceiverTypeOK,
           NEW lit \in BOOLEAN,
           NEW took \in Measured(since),
           ReadEdge(lit, took)
    PROVE  /\ took \in Int
           /\ since' \in 0..(MaxPeriods * Ticks)
           /\ is_high' \in BOOLEAN
           /\ uneven' \in BOOLEAN
           /\ uneven' = (IF OneSymbol(took) THEN ~uneven ELSE uneven)
<1>1. since \in Nat
  BY Numbers DEF ReceiverTypeOK
<1>2. took \in Int
  BY <1>1, MeasuredPositive
<1>3. Ticks \in 0..(MaxPeriods * Ticks)
  <2> DEFINE top == MaxPeriods * Ticks
  <2>1. top \in Nat /\ Ticks \in Nat /\ Ticks <= top
    BY Numbers
  <2> HIDE DEF top
  <2>2. Ticks \in 0..top
    BY <2>1
  <2> QED
    BY <2>2 DEF top
<1> QED
  BY <1>2, <1>3 DEF ReadEdge, ReceiverTypeOK

-----------------------------------------------------------------------------
LEMMA SearchSteps ==
    ASSUME IInv, NEW lit \in BOOLEAN,
           SearchOn(lit) \/ \E late \in 0..(Ticks - 1) :
               AnyEdge(lit, late) \/ StartReading(lit, late) \/ SearchAgain(lit, late)
    PROVE  IInv'
<1> USE DEF IInv
<1>1. CASE SearchOn(lit)
  <2>1. ReceiverTypeOK'
    <3>1. since' \in 0..(MaxPeriods * Ticks)
      BY <1>1, LongerFits DEF SearchOn, ReceiverTypeOK
    <3>2. blind' \in 0..Filling
      BY <1>1 DEF SearchOn, ReceiverTypeOK, Filling
    <3> QED
      BY <1>1, <3>1, <3>2 DEF SearchOn, ReceiverTypeOK, decoder
  <2>2. BudgetInv'
    BY <1>1 DEF SearchOn, BudgetInv
  <2>3. CleanInv'
    BY <1>1 DEF SearchOn, CleanInv, decoder, ReceiverTypeOK, Filling
  <2> QED
    BY <2>1, <2>2, <2>3
<1>2. ASSUME NEW late \in 0..(Ticks - 1), AnyEdge(lit, late)
      PROVE  IInv'
  <2>1. PICK took \in Measured(since + late) : SearchEdge(lit, late) /\ NotePeriods(took)
    BY <1>2 DEF AnyEdge
  <2>2. ReceiverTypeOK'
    <3>1. /\ since' \in 0..(MaxPeriods * Ticks)
          /\ last_state' \in BOOLEAN
          /\ pattern_detect' \in (0..(Wrap - 1)) \X (0..(Wrap - 1))
      BY <2>1, SearchEdgeTypes
    <3> QED
      BY <1>2, <3>1 DEF AnyEdge, ReceiverTypeOK, decoder, Filling
  <2>3. BudgetInv'
    BY <1>2, <2>1 DEF AnyEdge, SearchEdge, BudgetInv
  <2>4. CleanInv'
    BY <1>2, <2>1 DEF AnyEdge, SearchEdge, CleanInv, decoder
  <2> QED
    BY <2>2, <2>3, <2>4
<1>3. ASSUME NEW late \in 0..(Ticks - 1), StartReading(lit, late)
      PROVE  IInv'
  <2>1. PICK took \in Measured(since + late), dark \in BOOLEAN :
            /\ Found(lit, late, took, dark)
            /\ mode' = "length"
            /\ blind' = 0
            /\ uneven' = ~TwoSymbols(took)
            /\ incoming_reads' = MANCHESTER_BITS_LENGTH - 1
            /\ UNCHANGED <<busy, last_sample, is_high, decoded, length>>
    BY <1>3 DEF StartReading
  <2>2. /\ SearchEdge(lit, late) /\ NotePeriods(took) /\ lit
        /\ mode = "preamble"
        /\ last_state' = FALSE
        /\ glitches' \in 0..MaxGlitches
    BY <2>1, FoundFacts
  <2>3. ReceiverTypeOK'
    <3>1. /\ since' \in 0..(MaxPeriods * Ticks)
          /\ last_state' \in BOOLEAN
          /\ pattern_detect' \in (0..(Wrap - 1)) \X (0..(Wrap - 1))
      BY <2>2, SearchEdgeTypes
    <3>2. incoming_reads' \in Int /\ uneven' \in BOOLEAN /\ blind' \in 0..Filling
      BY <2>1, Numbers DEF MANCHESTER_BITS_LENGTH, TwoSymbols, Filling
    <3> QED
      BY <2>1, <2>2, <3>1, <3>2 DEF ReceiverTypeOK
  <2>4. BudgetInv'
    <3>1. decoded' = <<>>
      BY <2>1, <2>2 DEF CleanInv
    <3>2. Middle' \in 0..1
      BY DEF Middle
    <3>3. incoming_reads' = 2 * ByteBits - 1 /\ incoming_reads' > 0
      BY <2>1, Numbers DEF MANCHESTER_BITS_LENGTH
    <3>4. Budget' <= 2 * ByteBits
      <4> DEFINE r == 2 * ByteBits - 1
      <4>1. r \in Int /\ r + 1 = 2 * ByteBits /\ incoming_reads' = r
        BY <3>3, Numbers
      <4> HIDE DEF r
      <4>2. Budget' <= r + 1
        BY <3>1, <3>2, <4>1, NothingRegistered DEF Budget
      <4> QED
        BY <4>1, <4>2
    <3> QED
      BY <2>1, <3>3, <3>4 DEF BudgetInv
  <2>5. CleanInv'
    BY <2>1, <2>2 DEF CleanInv
  <2> QED
    BY <2>3, <2>4, <2>5
<1>4. ASSUME NEW late \in 0..(Ticks - 1), SearchAgain(lit, late)
      PROVE  IInv'
  <2>1. PICK took \in Measured(since + late), dark \in BOOLEAN :
            /\ Found(lit, late, took, dark)
            /\ last_sample' = dark
            /\ blind' = Filling
            /\ UNCHANGED <<mode, busy, decoder>>
    BY <1>4 DEF SearchAgain
  <2>2. /\ SearchEdge(lit, late) /\ NotePeriods(took) /\ lit
        /\ mode = "preamble"
        /\ last_state' = FALSE
        /\ glitches' \in 0..MaxGlitches
    BY <2>1, FoundFacts
  <2>3. ReceiverTypeOK'
    <3>1. /\ since' \in 0..(MaxPeriods * Ticks)
          /\ last_state' \in BOOLEAN
          /\ pattern_detect' \in (0..(Wrap - 1)) \X (0..(Wrap - 1))
      BY <2>2, SearchEdgeTypes
    <3> QED
      BY <2>1, <2>2, <3>1 DEF ReceiverTypeOK, decoder, Filling
  <2>4. BudgetInv'
    BY <2>1, <2>2 DEF BudgetInv
  <2>5. CleanInv'
    BY <2>1, <2>2 DEF CleanInv, decoder
  <2> QED
    BY <2>3, <2>4, <2>5
<1> QED
  BY <1>1, <1>2, <1>3, <1>4

LEMMA ReadSteps ==
    ASSUME IInv, NEW lit \in BOOLEAN,
           ReadOn(lit) \/ ReadMore(lit) \/ LengthComplete(lit) \/ PayloadComplete(lit)
    PROVE  IInv'
<1> USE DEF IInv
<1>T. MessageBits \in Nat /\ ByteBits \in Nat /\ Len(decoded) \in Nat /\ incoming_reads \in Int
  BY MessageBitsNat, Numbers DEF MessageBits, ReceiverTypeOK
<1>1. CASE ReadOn(lit)
  <2>1. ReceiverTypeOK'
    <3>1. since' \in 0..(MaxPeriods * Ticks)
      BY <1>1, LongerFits DEF ReadOn, ReceiverTypeOK
    <3> QED
      BY <1>1, <3>1 DEF ReadOn, ReceiverTypeOK, search, decoder
  <2>2. BudgetInv'
    BY <1>1 DEF ReadOn, BudgetInv, Budget, Middle, MessageBits, decoder
  <2>3. CleanInv'
    BY <1>1 DEF ReadOn, CleanInv, search, decoder
  <2> QED
    BY <2>1, <2>2, <2>3
<1>2. CASE ReadMore(lit)
  <2>1. PICK took \in Measured(since) :
            /\ ReadEdge(lit, took)
            /\ ReadsLeft(took) > 0
            /\ incoming_reads' = ReadsLeft(took)
            /\ decoded' = Registered(took)
            /\ UNCHANGED <<mode, busy, search, length>>
    BY <1>2 DEF ReadMore
  <2>2. /\ took \in Int
        /\ since' \in 0..(MaxPeriods * Ticks)
        /\ is_high' \in BOOLEAN
        /\ uneven' \in BOOLEAN
        /\ uneven' = (IF OneSymbol(took) THEN ~uneven ELSE uneven)
    BY <2>1, ReadEdgeTypes
  <2>3. /\ decoded' \in Seq(BOOLEAN)
        /\ incoming_reads' \in Int
        /\ Budget' <= Budget
    BY <2>1, <2>2, RunKeepsBudget DEF Budget
  <2>4. ReceiverTypeOK'
    BY <2>1, <2>2, <2>3 DEF ReceiverTypeOK, search
  <2>5. BudgetInv'
    <3>1. mode \in {"length", "payload"} /\ mode' = mode
      BY <2>1 DEF ReadEdge
    <3>2. MessageBits' = MessageBits
      BY <2>1 DEF MessageBits
    <3>3. Budget \in Int /\ Budget' \in Int
      BY <1>T, <2>3 DEF Budget, Middle
    <3>4. incoming_reads' > 0
      BY <2>1
    <3> QED
      BY <1>T, <2>3, <3>1, <3>2, <3>3, <3>4 DEF BudgetInv
  <2>6. CleanInv'
    BY <2>1 DEF ReadEdge, CleanInv, search
  <2> QED
    BY <2>4, <2>5, <2>6
<1>3. CASE LengthComplete(lit)
  <2>1. PICK took \in Measured(since) :
            /\ ReadEdge(lit, took)
            /\ mode = "length"
            /\ length' \in Byte
            /\ decoded' = <<>>
            /\ incoming_reads' = (length' + BYTES_RS) * 2 * ByteBits
            /\ mode' = "payload"
            /\ UNCHANGED <<busy, search>>
    BY <1>3 DEF LengthComplete
  <2>2. /\ since' \in 0..(MaxPeriods * Ticks)
        /\ is_high' \in BOOLEAN
        /\ uneven' \in BOOLEAN
    BY <2>1, ReadEdgeTypes
  <2>3. PICK bits \in Nat :
            bits > 0 /\ incoming_reads' = 2 * bits /\ MessageBits' = bits
    BY <2>1, MessageBitsNat DEF MessageBits
  <2>4. ReceiverTypeOK'
    BY <2>1, <2>2, <2>3 DEF ReceiverTypeOK, search
  <2>5. BudgetInv'
    <3>1. decoded' = <<>>
      BY <2>1
    <3>2. Middle' \in 0..1
      BY DEF Middle
    <3>3. Budget' <= 2 * MessageBits' + 1 /\ incoming_reads' > 0
      <4>1. incoming_reads' \in Int /\ incoming_reads' > 0
        BY <2>3
      <4>2. Budget' <= incoming_reads' + 1
        BY <3>1, <3>2, <4>1, NothingRegistered DEF Budget
      <4> QED
        BY <2>3, <4>1, <4>2
    <3> QED
      BY <2>1, <3>3 DEF BudgetInv
  <2>6. CleanInv'
    BY <2>1 DEF CleanInv, search
  <2> QED
    BY <2>4, <2>5, <2>6
<1>4. CASE PayloadComplete(lit)
  <2>1. PICK took \in Measured(since) :
            /\ ReadEdge(lit, took)
            /\ mode = "payload"
            /\ decoded' = Registered(took)
            /\ incoming_reads' = ReadsLeft(took)
            /\ busy' \in 0..BusyMax
            /\ mode' = "print"
            /\ UNCHANGED <<search, length>>
    BY <1>4 DEF PayloadComplete
  <2>2. /\ took \in Int
        /\ since' \in 0..(MaxPeriods * Ticks)
        /\ is_high' \in BOOLEAN
        /\ uneven' \in BOOLEAN
        /\ uneven' = (IF OneSymbol(took) THEN ~uneven ELSE uneven)
    BY <2>1, ReadEdgeTypes
  <2>3. /\ decoded' \in Seq(BOOLEAN)
        /\ incoming_reads' \in Int
        /\ Len(decoded') <= Len(decoded) + 1
    BY <2>1, <2>2, RunKeepsBudget
  <2>4. ReceiverTypeOK'
    BY <2>1, <2>2, <2>3 DEF ReceiverTypeOK, search
  <2>5. BudgetInv'
    <3>1. Budget <= 2 * MessageBits + 1 /\ incoming_reads > 0
      BY <2>1 DEF BudgetInv
    <3>2. Middle \in 0..1
      BY DEF Middle
    <3>3. Len(decoded) <= MessageBits
      BY <1>T, <3>1, <3>2 DEF Budget
    <3>4. MessageBits' = MessageBits
      BY <2>1 DEF MessageBits
    <3>5. Len(decoded') \in Nat
      BY <2>3
    <3>6. Len(decoded') <= MessageBits' + 1
      BY <1>T, <2>3, <3>3, <3>4, <3>5
    <3> QED
      BY <2>1, <3>6 DEF BudgetInv
  <2>6. CleanInv'
    BY <2>1 DEF CleanInv, search
  <2> QED
    BY <2>4, <2>5, <2>6
<1> QED
  BY <1>1, <1>2, <1>3, <1>4

LEMMA LoopSteps ==
    ASSUME IInv, Printing \/ Loop
    PROVE  IInv'
<1> USE DEF IInv
<1>1. CASE Printing
  <2>1. ReceiverTypeOK'
    <3>1. since' \in 0..(MaxPeriods * Ticks)
      BY <1>1, LongerFits DEF Printing, ReceiverTypeOK
    <3>2. busy' \in 0..BusyMax
      BY <1>1, Numbers DEF Printing, ReceiverTypeOK
    <3> QED
      BY <1>1, <3>1, <3>2 DEF Printing, ReceiverTypeOK, search, decoder
  <2>2. BudgetInv'
    BY <1>1 DEF Printing, BudgetInv, MessageBits, decoder
  <2>3. CleanInv'
    BY <1>1 DEF Printing, CleanInv, search, decoder
  <2> QED
    BY <2>1, <2>2, <2>3
<1>2. CASE Loop
  <2>1. ReceiverTypeOK'
    BY <1>2, Numbers DEF Loop, ReceiverTypeOK, Filling
  <2>2. BudgetInv'
    BY <1>2 DEF Loop, BudgetInv
  <2>3. CleanInv'
    BY <1>2 DEF Loop, CleanInv
  <2> QED
    BY <2>1, <2>2, <2>3
<1> QED
  BY <1>1, <1>2

LEMMA NextKeeps == IInv /\ [ReceiverNext]_receiver => IInv'
<1> SUFFICES ASSUME IInv, [ReceiverNext]_receiver PROVE IInv'
  OBVIOUS
<1>1. CASE Loop
  BY <1>1, LoopSteps
<1>2. ASSUME NEW lit \in BOOLEAN, See(lit) PROVE IInv'
  BY <1>2, SearchSteps, ReadSteps, LoopSteps DEF See
<1>3. CASE UNCHANGED receiver
  <2>1. ReceiverTypeOK'
    BY <1>3 DEF IInv, receiver, ReceiverTypeOK, search, decoder
  <2>2. BudgetInv'
    BY <1>3 DEF IInv, receiver, BudgetInv, Budget, Middle, MessageBits, search, decoder
  <2>3. CleanInv'
    BY <1>3 DEF IInv, receiver, CleanInv, search, decoder
  <2> QED
    BY <2>1, <2>2, <2>3 DEF IInv
<1> QED
  BY <1>1, <1>2, <1>3 DEF ReceiverNext

-----------------------------------------------------------------------------
\* Under any light the receiver's variables keep their types (fast_receiver.ino).
THEOREM TypeCorrect == ReceiverSpec => []ReceiverTypeOK
<1>1. IInv => ReceiverTypeOK
  BY DEF IInv
<1> QED
  BY <1>1, InitHolds, NextKeeps, PTL DEF ReceiverSpec

\* Under any light register_bit stays within the bytes waited for and one bit more
\* (fast_receiver.ino:307-311), for bytes of any width and any number of parity bytes.
THEOREM BitsStayInside == ReceiverSpec => []DecodedFits
<1>1. IInv => DecodedFits
  <2> SUFFICES ASSUME IInv PROVE DecodedFits
    OBVIOUS
  <2>1. MessageBits \in Nat /\ ByteBits \in Nat /\ Len(decoded) \in Nat /\ incoming_reads \in Int
    BY MessageBitsNat, Numbers DEF IInv, MessageBits, ReceiverTypeOK
  <2>2. Middle \in 0..1
    BY DEF Middle
  <2>3. mode = "length" => Len(decoded) <= ByteBits
    BY <2>1, <2>2 DEF IInv, BudgetInv, Budget
  <2>4. mode \in {"payload", "print"} => Len(decoded) <= MessageBits + 1
    BY <2>1, <2>2 DEF IInv, BudgetInv, Budget
  <2> QED
    BY <2>3, <2>4 DEF DecodedFits, MessageBits
<1> QED
  BY <1>1, InitHolds, NextKeeps, PTL DEF ReceiverSpec

\* Every search starts as the first one did, whatever was received before
\* (fast_receiver.ino:373-398).
THEOREM SearchesStartClean == ReceiverSpec => []SearchStartsClean
<1>1. IInv => SearchStartsClean
  BY DEF IInv, CleanInv, SearchStartsClean
<1> QED
  BY <1>1, InitHolds, NextKeeps, PTL DEF ReceiverSpec

-----------------------------------------------------------------------------
(* The receiver with its log. *)

\* A full log is only met while searching, where no sample is taken before it is
\* emptied: so LogFits is inductive, whatever sampling does to the mode.
THEOREM LogNeverOverflows == LogSpec => []LogFits
<1>1. LogInit => LogFits
  BY LogAssumption DEF LogInit, LogFits, ReceiverInit
<1>2. LogFits /\ [LogNext]_logVars => LogFits'
  <2> SUFFICES ASSUME LogFits, [LogNext]_logVars
               PROVE  LogFits'
    OBVIOUS
  <2>0. PAYLOAD_COUNTS \in Nat \ {0}
    BY LogAssumption
  <2>1. CASE LogLoop
    BY <2>0, <2>1 DEF LogLoop, Loop, LogFits
  <2>2. ASSUME NEW lit \in BOOLEAN, Sampling(lit)
        PROVE  LogFits'
    BY <2>0, <2>2 DEF Sampling, LogFits, log
  <2>3. CASE reboot_record
    BY <2>0, <2>3 DEF reboot_record, LogFits, receiver
  <2>4. CASE UNCHANGED logVars
    BY <2>4 DEF logVars, log, receiver, LogFits
  <2> QED
    BY <2>1, <2>2, <2>3, <2>4 DEF LogNext
<1> QED
  BY <1>1, <1>2, PTL DEF LogSpec

\* Logging and reporting are stutters of the receiver: they neither sample nor
\* touch its state (fast_receiver.ino:390 and 506-566).
LEMMA LogIsReceiver == LogSpec => ReceiverSpec
<1>1. LogInit => ReceiverInit
  BY DEF LogInit
<1>2. [LogNext]_logVars => [ReceiverNext]_receiver
  <2> SUFFICES ASSUME [LogNext]_logVars
               PROVE  [ReceiverNext]_receiver
    OBVIOUS
  <2>1. CASE LogLoop
    BY <2>1 DEF LogLoop, ReceiverNext
  <2>2. ASSUME NEW lit \in BOOLEAN, Sampling(lit)
        PROVE  ReceiverNext
    BY <2>2 DEF Sampling, ReceiverNext
  <2>3. CASE reboot_record
    BY <2>3 DEF reboot_record
  <2>4. CASE UNCHANGED logVars
    BY <2>4 DEF logVars
  <2> QED
    BY <2>1, <2>2, <2>3, <2>4 DEF LogNext
<1> QED
  BY <1>1, <1>2, PTL DEF LogSpec, ReceiverSpec

\* With a log, too, the bits of a message stay in the array decoded.
THEOREM LoggedBitsStayInside == LogSpec => []DecodedFits
BY LogIsReceiver, BitsStayInside, PTL

-----------------------------------------------------------------------------
(* What process_result counts. *)

\* The bits in which two bytes differ.
DiffBits(a, b) == {j \in 0..(ByteBits - 1) : SetBit(a, j) # SetBit(b, j)}

\* A table of bytes and their bits: the bits of one byte, and the part with some bytes.
Row(R, i) == {j \in 0..(ByteBits - 1) : <<i, j>> \in R}
Rows(R, T) == {ij \in R : ij[1] \in T}

\* A byte has no more than its bits.
LEMMA RowFinite ==
    ASSUME NEW R, NEW i
    PROVE  IsFiniteSet(Row(R, i)) /\ Cardinality(Row(R, i)) \in 0..ByteBits
<1>1. ByteBits \in Nat
  BY ByteAssumption
<1>2. IsFiniteSet(0..(ByteBits - 1)) /\ Cardinality(0..(ByteBits - 1)) = ByteBits
  BY <1>1, FS_Interval
<1>3. /\ IsFiniteSet(Row(R, i))
      /\ Cardinality(Row(R, i)) <= Cardinality(0..(ByteBits - 1))
  BY <1>2, FS_Subset DEF Row
<1>4. Cardinality(Row(R, i)) \in Nat
  BY <1>3, FS_CardinalityType
<1> QED
  BY <1>1, <1>2, <1>3, <1>4

\* One row of pairs has as many pairs as it has columns.
LEMMA RowPairs ==
    ASSUME NEW T, NEW i \in T, NEW R \in SUBSET (T \X (0..(ByteBits - 1)))
    PROVE  IsFiniteSet(Rows(R, {i})) /\ Cardinality(Rows(R, {i})) = Cardinality(Row(R, i))
<1> DEFINE f == [j \in Row(R, i) |-> <<i, j>>]
<1>1. IsFiniteSet(Row(R, i))
  BY RowFinite
<1>2. f \in Bijection(Row(R, i), Rows(R, {i}))
  <2>1. ASSUME NEW j \in Row(R, i) PROVE f[j] \in Rows(R, {i})
    BY DEF Row, Rows
  <2>2. ASSUME NEW j \in Row(R, i), NEW k \in Row(R, i), f[j] = f[k] PROVE j = k
    BY <2>2
  <2>3. ASSUME NEW p \in Rows(R, {i}) PROVE \E j \in Row(R, i) : f[j] = p
    <3>1. p \in T \X (0..(ByteBits - 1)) /\ p[1] = i /\ p \in R
      BY DEF Rows
    <3>2. p = <<i, p[2]>> /\ p[2] \in 0..(ByteBits - 1)
      BY <3>1
    <3>3. p[2] \in Row(R, i)
      BY <3>1, <3>2 DEF Row
    <3> QED
      BY <3>2, <3>3
  <2> QED
    BY <2>1, <2>2, <2>3 DEF Bijection, Injection, Surjection, IsInjective
<1> QED
  BY <1>1, <1>2, FS_Bijection DEF ExistsBijection

\* Sets without a common element, together, have as many elements as both.
LEMMA DisjointUnion ==
    ASSUME NEW A, IsFiniteSet(A), NEW B, IsFiniteSet(B), A \cap B = {}
    PROVE  /\ IsFiniteSet(A \cup B)
           /\ Cardinality(A \cup B) = Cardinality(A) + Cardinality(B)
           /\ Cardinality(A) \in Nat /\ Cardinality(B) \in Nat
<1>1. Cardinality(A \cap B) = 0
  BY FS_EmptySet
<1>2. /\ IsFiniteSet(A \cup B)
      /\ Cardinality(A \cup B) = Cardinality(A) + Cardinality(B) - Cardinality(A \cap B)
  BY FS_Union
<1>3. Cardinality(A) \in Nat /\ Cardinality(B) \in Nat
  BY FS_CardinalityType
<1> QED
  BY <1>1, <1>2, <1>3

\* So many pairs are in the rows as there are columns in each of them.
LEMMA TableSum ==
    ASSUME NEW D, NEW R \in SUBSET (D \X (0..(ByteBits - 1))),
           NEW T \in SUBSET D, IsFiniteSet(T),
           NEW g, \A i \in T : g[i] = Cardinality(Row(R, i))
    PROVE  IsFiniteSet(Rows(R, T)) /\ Cardinality(Rows(R, T)) = SumFunctionOnSet(g, T)
<1> DEFINE Good == {n \in Nat : \A U \in SUBSET T : Cardinality(U) = n =>
                      /\ IsFiniteSet(Rows(R, U))
                      /\ Cardinality(Rows(R, U)) = SumFunctionOnSet(g, U)}
<1>1. \A U \in SUBSET T : IsFiniteSet(U) /\ Cardinality(U) \in Nat
  BY FS_Subset, FS_CardinalityType
<1>2. 0 \in Good
  <2> SUFFICES ASSUME NEW U \in SUBSET T, Cardinality(U) = 0
               PROVE  /\ IsFiniteSet(Rows(R, U))
                      /\ Cardinality(Rows(R, U)) = SumFunctionOnSet(g, U)
    OBVIOUS
  <2>1. U = {}
    BY <1>1, FS_EmptySet
  <2>2. Rows(R, U) = {}
    BY <2>1 DEF Rows
  <2> QED
    BY <2>1, <2>2, FS_EmptySet, SumEmpty
<1>3. ASSUME NEW n \in Nat, n \in Good
      PROVE  n + 1 \in Good
  <2> SUFFICES ASSUME NEW U \in SUBSET T, Cardinality(U) = n + 1
               PROVE  /\ IsFiniteSet(Rows(R, U))
                      /\ Cardinality(Rows(R, U)) = SumFunctionOnSet(g, U)
    BY <1>3
  <2>0. U # {}
    <3>1. Cardinality({}) = 0
      BY FS_EmptySet
    <3>2. n + 1 # 0
      BY <1>3
    <3> QED
      BY <3>1, <3>2
  <2>1. PICK i \in U : TRUE
    BY <2>0
  <2> DEFINE rest == U \ {i}
  <2>2. rest \in SUBSET T /\ Cardinality(rest) = n
    <3>1. i \in U /\ IsFiniteSet(U)
      BY <1>1, <2>1
    <3>2. Cardinality(rest) = Cardinality(U) - 1
      BY <3>1, FS_RemoveElement
    <3>3. n \in Nat
      BY <1>3
    <3> QED
      BY <3>2, <3>3
  <2>3. /\ IsFiniteSet(Rows(R, rest))
        /\ Cardinality(Rows(R, rest)) = SumFunctionOnSet(g, rest)
    BY <1>3, <2>2
  <2>4. /\ IsFiniteSet(Rows(R, {i}))
        /\ Cardinality(Rows(R, {i})) = g[i]
    BY RowPairs, i \in D
  <2>5. Rows(R, U) = Rows(R, rest) \cup Rows(R, {i}) /\ Rows(R, rest) \cap Rows(R, {i}) = {}
    BY <2>1 DEF Rows
  <2>6. \A k \in U : g[k] \in Int
    BY RowFinite
  <2>7. SumFunctionOnSet(g, U) = g[i] + SumFunctionOnSet(g, rest)
    BY <1>1, <2>6, SumRemove
  <2>8. /\ IsFiniteSet(Rows(R, U))
        /\ Cardinality(Rows(R, U)) = Cardinality(Rows(R, rest)) + Cardinality(Rows(R, {i}))
    <3> HIDE DEF rest
    <3> DEFINE A == Rows(R, rest)
               B == Rows(R, {i})
    <3> HIDE DEF A, B
    <3>1. IsFiniteSet(A) /\ IsFiniteSet(B) /\ A \cap B = {} /\ Rows(R, U) = A \cup B
      BY <2>3, <2>4, <2>5 DEF A, B
    <3>2. IsFiniteSet(A \cup B) /\ Cardinality(A \cup B) = Cardinality(A) + Cardinality(B)
      BY <3>1, DisjointUnion
    <3> QED
      BY <3>1, <3>2 DEF A, B
  <2>9. Cardinality(Rows(R, rest)) \in Nat /\ g[i] \in Int
    BY <2>3, <2>6, FS_CardinalityType
  <2> HIDE DEF rest
  <2> QED
    BY <2>3, <2>4, <2>7, <2>8, <2>9
<1> HIDE DEF Good
<1>4. Good \subseteq Nat
  BY DEF Good
<1>5. Nat \subseteq Good
  BY <1>2, <1>3, <1>4, SetInduction
<1> QED
  BY <1>1, <1>5 DEF Good

\* The bytes count_errors compares: up to the first zero of either string.
Compared(m1, m2) == {i \in 1..WANTED_LENGTH :
                       \A j \in 1..i : ByteAt(m1, j) # 0 /\ ByteAt(m2, j) # 0}

\* The bits in which the strings differ, behind their ends too.
Differing(m1, m2) ==
    {ij \in (1..WANTED_LENGTH) \X (0..(ByteBits - 1)) :
       SetBit(ByteAt(m1, ij[1]), ij[2]) # SetBit(ByteAt(m2, ij[1]), ij[2])}

\* What differs in the bytes compared, byte by byte.
LEMMA ComparedSum ==
    ASSUME NEW m1, NEW m2, NEW g,
           \A i \in Compared(m1, m2) : g[i] = Cardinality(Row(Differing(m1, m2), i))
    PROVE  /\ IsFiniteSet(Rows(Differing(m1, m2), Compared(m1, m2)))
           /\ Cardinality(Rows(Differing(m1, m2), Compared(m1, m2)))
                = SumFunctionOnSet(g, Compared(m1, m2))
<1> DEFINE R == Differing(m1, m2)
           T == Compared(m1, m2)
           D == 1..WANTED_LENGTH
<1>1. WANTED_LENGTH \in Nat
  BY LogAssumption DEF WANTED_LENGTH
<1>2. T \in SUBSET D /\ IsFiniteSet(T)
  <2>1. T \in SUBSET D
    BY DEF Compared
  <2>2. IsFiniteSet(D)
    BY <1>1, FS_Interval
  <2> QED
    BY <2>1, <2>2, FS_Subset
<1>3. R \in SUBSET (D \X (0..(ByteBits - 1)))
  BY DEF Differing
<1>4. \A i \in T : g[i] = Cardinality(Row(R, i))
  OBVIOUS
<1> HIDE DEF R, T, D
<1>5. IsFiniteSet(Rows(R, T)) /\ Cardinality(Rows(R, T)) = SumFunctionOnSet(g, T)
  BY <1>2, <1>3, <1>4, TableSum
<1> QED
  BY <1>5 DEF R, T

\* count_errors counts the bits that differ in the bytes it compares.
LEMMA CountErrors ==
    ASSUME NEW m1, NEW m2
    PROVE  /\ IsFiniteSet(Rows(Differing(m1, m2), Compared(m1, m2)))
           /\ count_errors(m1, m2) = Cardinality(Rows(Differing(m1, m2), Compared(m1, m2)))
<1> DEFINE R == Differing(m1, m2)
           T == Compared(m1, m2)
           g == [i \in T |-> popcount(ByteAt(m1, i), ByteAt(m2, i))]
           iter == CHOOSE f : f = [s \in SUBSET T |->
                      IF s = {} THEN 0
                      ELSE popcount(ByteAt(m1, Least(s)), ByteAt(m2, Least(s))) + f[s \ {Least(s)}]]
<1>1. WANTED_LENGTH \in Nat
  BY LogAssumption DEF WANTED_LENGTH
<1>2. IsFiniteSet(T) /\ T \subseteq 1..WANTED_LENGTH
  BY <1>1, FS_Interval, FS_Subset DEF Compared
<1>3. \A i \in T : popcount(ByteAt(m1, i), ByteAt(m2, i)) = Cardinality(Row(R, i))
  <2> SUFFICES ASSUME NEW i \in T
               PROVE  popcount(ByteAt(m1, i), ByteAt(m2, i)) = Cardinality(Row(R, i))
    OBVIOUS
  <2>1. Row(R, i) = {j \in 0..(ByteBits - 1) :
                       SetBit(ByteAt(m1, i), j) # SetBit(ByteAt(m2, i), j)}
    BY <1>2 DEF Row, Differing
  <2> QED
    BY <2>1 DEF popcount
<1>4. \A i \in T : g[i] = Cardinality(Row(R, i)) /\ g[i] \in Int
  BY <1>3, RowFinite
<1>5. count_errors(m1, m2) = iter[T]
  BY DEF count_errors, MapThenSumSet, MapThenFoldSet, Compared, Least
<1>6. PICK f \in [SUBSET T -> Int] : SumsUp(f, g, SUBSET T) /\ SumFunctionOnSet(g, T) = f[T]
  BY <1>2, <1>4, SumIsSum
<1>7. iter[T] = f[T]
  <2>1. \A s \in SUBSET T : s # {} => Least(s) \in T
    BY DEF Least
  <2>2. f = [s \in SUBSET T |->
               IF s = {} THEN 0
               ELSE popcount(ByteAt(m1, Least(s)), ByteAt(m2, Least(s))) + f[s \ {Least(s)}]]
    BY <1>6, <2>1 DEF SumsUp
  <2>3. iter = [s \in SUBSET T |->
               IF s = {} THEN 0
               ELSE popcount(ByteAt(m1, Least(s)), ByteAt(m2, Least(s))) + iter[s \ {Least(s)}]]
    BY <2>2
  <2> HIDE DEF iter
  <2>4. SumsUp(iter, g, SUBSET T)
    BY <2>1, <2>3 DEF SumsUp
  <2> HIDE DEF g, T
  <2> QED
    BY <1>2, <1>6, <2>4, SumsAgree
<1>8. /\ IsFiniteSet(Rows(R, T))
      /\ Cardinality(Rows(R, T)) = SumFunctionOnSet(g, T)
  <2>1. \A i \in T : g[i] = Cardinality(Row(R, i))
    BY <1>4
  <2> HIDE DEF g
  <2> QED
    BY <2>1, ComparedSum
<1> QED
  BY <1>5, <1>6, <1>7, <1>8

\* Counts are numbers.
LEMMA CountsAreNumbers == \A m1, m2 : count_errors(m1, m2) \in Nat
BY CountErrors, FS_CardinalityType

\* The bits of bytes that never came.
LEMMA NeverCame ==
    ASSUME NEW n \in Nat, NEW came \in Nat
    PROVE  LET missing == {ij \in (1..n) \X (0..(ByteBits - 1)) : ij[1] > came}
           IN  /\ IsFiniteSet(missing)
               /\ Cardinality(missing) = IF came < n THEN (n - came) * ByteBits ELSE 0
<1> DEFINE missing == {ij \in (1..n) \X (0..(ByteBits - 1)) : ij[1] > came}
           A == (came + 1)..n
           B == 0..(ByteBits - 1)
<1>1. ByteBits \in Nat
  BY ByteAssumption
<1>2. IsFiniteSet(A) /\ Cardinality(A) = IF came < n THEN n - came ELSE 0
  BY FS_Interval
<1>3. IsFiniteSet(B) /\ Cardinality(B) = ByteBits
  BY <1>1, FS_Interval
<1>4. missing = A \X B
  <2>1. ASSUME NEW ij \in (1..n) \X B
        PROVE  ij[1] > came <=> ij \in A \X B
    <3>1. ij = <<ij[1], ij[2]>> /\ ij[1] \in 1..n /\ ij[2] \in B
      OBVIOUS
    <3>2. ij[1] > came <=> ij[1] \in A
      BY <3>1
    <3> QED
      BY <3>1, <3>2
  <2>2. A \X B \subseteq (1..n) \X B
    OBVIOUS
  <2> QED
    BY <2>1, <2>2
<1> HIDE DEF A, B, missing
<1>5. IsFiniteSet(A \X B) /\ Cardinality(A \X B) = Cardinality(A) * Cardinality(B)
  BY <1>2, <1>3, FS_Product
<1>6. Cardinality(missing) = IF came < n THEN (n - came) * ByteBits ELSE 0
  BY <1>1, <1>2, <1>3, <1>4, <1>5
<1> QED
  BY <1>4, <1>5, <1>6 DEF missing

\* What is counted for the message, and for the bytes of it that never came.
LEMMA MessageBitsCounted ==
    ASSUME NEW m2, NEW came \in Nat, DOMAIN m2 = 1..came
    PROVE  LET wrong == WrongBits(WANTED_PAYLOAD, m2, came)
               counted == count_errors(WANTED_PAYLOAD, m2)
                            + (IF came < WANTED_LENGTH THEN (WANTED_LENGTH - came) * ByteBits
                                                       ELSE 0)
           IN  /\ counted \in Nat /\ Cardinality(wrong) \in Nat
               /\ counted <= Cardinality(wrong)
               /\ NoZero(WANTED_PAYLOAD) /\ NoZero(m2) => counted = Cardinality(wrong)
<1> DEFINE B == 0..(ByteBits - 1)
           wrong == WrongBits(WANTED_PAYLOAD, m2, came)
           rows == Rows(Differing(WANTED_PAYLOAD, m2), Compared(WANTED_PAYLOAD, m2))
           missing == {ij \in (1..WANTED_LENGTH) \X B : ij[1] > came}
<1>1. /\ WANTED_LENGTH \in Nat /\ ByteBits \in Nat
      /\ DOMAIN WANTED_PAYLOAD = 1..WANTED_LENGTH
  BY LogAssumption, ByteAssumption DEF WANTED_LENGTH
<1>2. IsFiniteSet(rows) /\ count_errors(WANTED_PAYLOAD, m2) = Cardinality(rows)
  BY CountErrors
<1>3. /\ IsFiniteSet(missing)
      /\ Cardinality(missing) = IF came < WANTED_LENGTH THEN (WANTED_LENGTH - came) * ByteBits
                                                        ELSE 0
  BY <1>1, NeverCame
<1>4. IsFiniteSet(wrong)
  <2>1. IsFiniteSet(1..WANTED_LENGTH) /\ IsFiniteSet(B)
    BY <1>1, FS_Interval
  <2>2. IsFiniteSet((1..WANTED_LENGTH) \X B)
    BY <2>1, FS_Product
  <2>3. wrong \in SUBSET ((1..WANTED_LENGTH) \X B)
    BY <1>1 DEF WrongBits
  <2> HIDE DEF wrong, B
  <2> QED
    BY <2>2, <2>3, FS_Subset
<1>5. ASSUME NEW ij \in rows
      PROVE  /\ ij \in (1..WANTED_LENGTH) \X B /\ ij[1] <= came
             /\ SetBit(WANTED_PAYLOAD[ij[1]], ij[2]) # SetBit(m2[ij[1]], ij[2])
  <2>1. /\ ij \in (1..WANTED_LENGTH) \X B
        /\ SetBit(ByteAt(WANTED_PAYLOAD, ij[1]), ij[2]) # SetBit(ByteAt(m2, ij[1]), ij[2])
        /\ ij[1] \in Compared(WANTED_PAYLOAD, m2)
    BY DEF Rows, Differing
  <2>2. ij[1] \in 1..WANTED_LENGTH /\ ByteAt(m2, ij[1]) # 0
    BY <2>1 DEF Compared
  <2>3. ij[1] \in DOMAIN m2 /\ ij[1] \in DOMAIN WANTED_PAYLOAD
    BY <1>1, <2>2 DEF ByteAt
  <2> QED
    BY <1>1, <2>1, <2>3 DEF ByteAt
<1>6. rows \cup missing \subseteq wrong /\ rows \cap missing = {}
  BY <1>1, <1>5 DEF WrongBits
<1>7. ASSUME NoZero(WANTED_PAYLOAD), NoZero(m2)
      PROVE  wrong \subseteq rows \cup missing
  <2> SUFFICES ASSUME NEW ij \in wrong, ~(ij[1] > came)
               PROVE  ij \in rows
    BY <1>1 DEF WrongBits
  <2>1. /\ ij \in (1..WANTED_LENGTH) \X B
        /\ SetBit(WANTED_PAYLOAD[ij[1]], ij[2]) # SetBit(m2[ij[1]], ij[2])
    BY <1>1 DEF WrongBits
  <2>2. ij[1] \in 1..WANTED_LENGTH /\ ij[1] \in 1..came
    BY <1>1, <2>1
  <2>3. \A j \in 1..ij[1] : /\ j \in DOMAIN WANTED_PAYLOAD /\ j \in DOMAIN m2
                            /\ ByteAt(WANTED_PAYLOAD, j) # 0 /\ ByteAt(m2, j) # 0
    <3> SUFFICES ASSUME NEW j \in 1..ij[1]
                 PROVE  /\ j \in DOMAIN WANTED_PAYLOAD /\ j \in DOMAIN m2
                        /\ ByteAt(WANTED_PAYLOAD, j) # 0 /\ ByteAt(m2, j) # 0
      OBVIOUS
    <3>1. j \in 1..WANTED_LENGTH /\ j \in 1..came
      BY <1>1, <2>2
    <3> QED
      BY <1>1, <1>7, <3>1 DEF NoZero, ByteAt
  <2>4. ij[1] \in Compared(WANTED_PAYLOAD, m2)
    BY <2>2, <2>3 DEF Compared
  <2>5. ij \in Differing(WANTED_PAYLOAD, m2)
    BY <1>1, <2>1, <2>2 DEF Differing, ByteAt
  <2> QED
    BY <2>4, <2>5 DEF Rows
<1> HIDE DEF rows, missing, wrong
<1>8. /\ Cardinality(rows \cup missing) = Cardinality(rows) + Cardinality(missing)
      /\ Cardinality(rows) \in Nat /\ Cardinality(missing) \in Nat
  BY <1>2, <1>3, <1>6, DisjointUnion
<1>9. Cardinality(wrong) \in Nat /\ Cardinality(rows \cup missing) <= Cardinality(wrong)
  BY <1>4, <1>6, FS_Subset, FS_CardinalityType
<1>10. NoZero(WANTED_PAYLOAD) /\ NoZero(m2) => wrong = rows \cup missing
  BY <1>6, <1>7
<1> DEFINE counted == count_errors(WANTED_PAYLOAD, m2)
                        + (IF came < WANTED_LENGTH THEN (WANTED_LENGTH - came) * ByteBits
                                                   ELSE 0)
<1>11. counted = Cardinality(rows \cup missing)
  BY <1>2, <1>3, <1>8
<1> HIDE DEF counted
<1>12. /\ counted \in Nat /\ Cardinality(wrong) \in Nat
       /\ counted <= Cardinality(wrong)
       /\ NoZero(WANTED_PAYLOAD) /\ NoZero(m2) => counted = Cardinality(wrong)
  <2>1. counted \in Nat
    BY <1>8, <1>11
  <2>2. counted <= Cardinality(wrong)
    BY <1>9, <1>11
  <2>3. NoZero(WANTED_PAYLOAD) /\ NoZero(m2) => counted = Cardinality(wrong)
    BY <1>10, <1>11
  <2> QED
    BY <1>9, <2>1, <2>2, <2>3
<1> QED
  BY <1>12 DEF counted, wrong

\* What is counted for the parity bytes, as long as count_errors looks at all of them.
LEMMA ParityBitsCounted ==
    ASSUME NEW m1, NEW m2, DOMAIN m1 = 1..BYTES_RS, DOMAIN m2 = 1..BYTES_RS
    PROVE  LET wrong == WrongBits(m1, m2, BYTES_RS)
           IN  /\ count_errors(m1, m2) \in Nat /\ Cardinality(wrong) \in Nat
               /\ count_errors(m1, m2) <= Cardinality(wrong)
               /\ NoZero(m1) /\ NoZero(m2) => count_errors(m1, m2) = Cardinality(wrong)
<1> DEFINE B == 0..(ByteBits - 1)
           wrong == WrongBits(m1, m2, BYTES_RS)
           rows == Rows(Differing(m1, m2), Compared(m1, m2))
<1>1. /\ WANTED_LENGTH \in Nat /\ ByteBits \in Nat /\ BYTES_RS \in Nat
      /\ BYTES_RS <= WANTED_LENGTH
  BY LogAssumption, WantedAssumption, ReceiverAssumption, ByteAssumption DEF WANTED_LENGTH
<1>2. IsFiniteSet(rows) /\ count_errors(m1, m2) = Cardinality(rows)
  BY CountErrors
<1>3. IsFiniteSet(wrong)
  <2>1. IsFiniteSet(1..BYTES_RS) /\ IsFiniteSet(B)
    BY <1>1, FS_Interval
  <2>2. IsFiniteSet((1..BYTES_RS) \X B)
    BY <2>1, FS_Product
  <2>3. wrong \in SUBSET ((1..BYTES_RS) \X B)
    BY DEF WrongBits
  <2> HIDE DEF wrong, B
  <2> QED
    BY <2>2, <2>3, FS_Subset
<1>4. ASSUME NEW ij \in rows
      PROVE  ij \in wrong
  <2>1. /\ ij \in (1..WANTED_LENGTH) \X B
        /\ SetBit(ByteAt(m1, ij[1]), ij[2]) # SetBit(ByteAt(m2, ij[1]), ij[2])
        /\ ij[1] \in Compared(m1, m2)
    BY DEF Rows, Differing
  <2>2. ij[1] \in 1..WANTED_LENGTH /\ ByteAt(m1, ij[1]) # 0
    BY <2>1 DEF Compared
  <2>3. ij[1] \in DOMAIN m1 /\ ij[1] \in DOMAIN m2
    BY <2>2 DEF ByteAt
  <2>4. ij \in (DOMAIN m1) \X B
    BY <2>1, <2>3
  <2> QED
    BY <2>1, <2>3, <2>4 DEF ByteAt, WrongBits
<1>5. ASSUME NoZero(m1), NoZero(m2), NEW ij \in wrong
      PROVE  ij \in rows
  <2>1. /\ ij \in (1..BYTES_RS) \X B
        /\ SetBit(m1[ij[1]], ij[2]) # SetBit(m2[ij[1]], ij[2])
    BY <1>1 DEF WrongBits
  <2>2. ij[1] \in 1..BYTES_RS /\ ij[1] \in 1..WANTED_LENGTH /\ ij[2] \in B
    BY <1>1, <2>1
  <2>3. ASSUME NEW j \in 1..ij[1]
        PROVE  ByteAt(m1, j) # 0 /\ ByteAt(m2, j) # 0
    <3>1. j \in 1..BYTES_RS
      BY <1>1, <2>2
    <3> QED
      BY <1>5, <3>1 DEF NoZero, ByteAt
  <2>4. ij[1] \in Compared(m1, m2)
    BY <2>2, <2>3 DEF Compared
  <2>5. ij \in Differing(m1, m2)
    BY <2>1, <2>2 DEF Differing, ByteAt
  <2> QED
    BY <2>4, <2>5 DEF Rows
<1> HIDE DEF rows, wrong
<1>6. Cardinality(rows) \in Nat /\ Cardinality(wrong) \in Nat
  BY <1>2, <1>3, FS_CardinalityType
<1>7. Cardinality(rows) <= Cardinality(wrong)
  <2>1. rows \in SUBSET wrong
    BY <1>4
  <2> QED
    BY <1>3, <2>1, FS_Subset
<1>8. NoZero(m1) /\ NoZero(m2) => rows = wrong
  BY <1>4, <1>5
<1>9. /\ count_errors(m1, m2) \in Nat /\ Cardinality(wrong) \in Nat
      /\ count_errors(m1, m2) <= Cardinality(wrong)
      /\ NoZero(m1) /\ NoZero(m2) => count_errors(m1, m2) = Cardinality(wrong)
  BY <1>2, <1>6, <1>7, <1>8
<1> QED
  BY <1>9 DEF wrong

\* Nothing in two strings is zero if nothing is in them put together.
LEMMA NoZeroParts ==
    ASSUME NEW S, NEW s \in Seq(S), NEW t \in Seq(S), NoZero(s \o t)
    PROVE  NoZero(s) /\ NoZero(t)
<1> DEFINE u == s \o t
<1>1. Len(s) \in Nat /\ Len(t) \in Nat /\ DOMAIN s = 1..Len(s) /\ DOMAIN t = 1..Len(t)
  OBVIOUS
<1>2. /\ u \in Seq(S) /\ Len(u) = Len(s) + Len(t)
      /\ \A k \in 1..(Len(s) + Len(t)) : u[k] = IF k <= Len(s) THEN s[k] ELSE t[k - Len(s)]
  BY ConcatProperties
<1> HIDE DEF u
<1>3. \A k \in 1..(Len(s) + Len(t)) : u[k] # 0
  BY <1>2 DEF NoZero, u
<1>4. ASSUME NEW k \in 1..Len(s) PROVE s[k] # 0
  <2>1. k \in 1..(Len(s) + Len(t)) /\ k <= Len(s)
    BY <1>1
  <2> QED
    BY <1>2, <1>3, <2>1
<1>5. ASSUME NEW k \in 1..Len(t) PROVE t[k] # 0
  <2>1. /\ k + Len(s) \in 1..(Len(s) + Len(t)) /\ ~(k + Len(s) <= Len(s))
        /\ (k + Len(s)) - Len(s) = k
    BY <1>1
  <2> QED
    BY <1>2, <1>3, <2>1
<1> QED
  BY <1>1, <1>4, <1>5 DEF NoZero

\* The errors process_result reports are the bits that differ (fast_receiver.ino:433-439), zero
\* bytes apart, for any wanted message that is not shorter than its parity.
THEOREM CountsTheWrongBits == LogSpec => []CountsWrongBits
<1>1. ReceiverTypeOK => CountsWrongBits
  <2> SUFFICES ASSUME ReceiverTypeOK
               PROVE  /\ process_result <= AllWrongBits
                      /\ NoZero(WANTED_PAYLOAD \o WANTED_RS \o print_message \o print_rs)
                           => process_result = AllWrongBits
    BY DEF CountsWrongBits
  <2>1. length \in Nat /\ BYTES_RS \in Nat
    BY Numbers DEF ReceiverTypeOK
  <2> DEFINE head == popcount(WANTED_LENGTH, length)
             never == IF length < WANTED_LENGTH THEN (WANTED_LENGTH - length) * ByteBits ELSE 0
             came == count_errors(WANTED_PAYLOAD, print_message) + never
             message == Cardinality(WrongBits(WANTED_PAYLOAD, print_message, length))
             check == count_errors(WANTED_RS, print_rs)
             parity == Cardinality(WrongBits(WANTED_RS, print_rs, BYTES_RS))
             strings == WANTED_PAYLOAD \o WANTED_RS \o print_message \o print_rs
  <2>2. head \in Nat
    <3>1. head = Cardinality(Row({1} \X DiffBits(WANTED_LENGTH, length), 1))
      <4>1. Row({1} \X DiffBits(WANTED_LENGTH, length), 1) = DiffBits(WANTED_LENGTH, length)
        BY DEF Row, DiffBits
      <4> QED
        BY <4>1 DEF popcount, DiffBits
    <3> QED
      BY <3>1, RowFinite, Numbers
  <2>3. /\ came \in Nat /\ message \in Nat /\ came <= message
        /\ NoZero(WANTED_PAYLOAD) /\ NoZero(print_message) => came = message
    <3>1. DOMAIN print_message = 1..length
      BY DEF print_message
    <3> QED
      BY <2>1, <3>1, MessageBitsCounted
  <2>4. /\ check \in Nat /\ parity \in Nat /\ check <= parity
        /\ NoZero(WANTED_RS) /\ NoZero(print_rs) => check = parity
    <3>1. DOMAIN WANTED_RS = 1..BYTES_RS /\ DOMAIN print_rs = 1..BYTES_RS
      BY DEF WANTED_RS, print_rs
    <3> QED
      BY <3>1, ParityBitsCounted
  <2>5. NoZero(strings) =>
          NoZero(WANTED_PAYLOAD) /\ NoZero(WANTED_RS) /\ NoZero(print_message) /\ NoZero(print_rs)
    <3> DEFINE Entry == Byte \cup {DecodedByte(k) : k \in 1..(length + BYTES_RS)}
               a == WANTED_PAYLOAD
               b == WANTED_RS
               c == print_message
               d == print_rs
    <3>1. a \in Seq(Entry)
      BY LogAssumption
    <3>2. b \in Seq(Entry)
      <4>1. \A k \in 1..BYTES_RS : WANTED_RS[k] \in Byte
        BY LogAssumption, Numbers DEF WANTED_RS
      <4> QED
        BY <2>1, <4>1 DEF WANTED_RS
    <3>3. c \in Seq(Entry)
      BY <2>1 DEF print_message
    <3>4. d \in Seq(Entry)
      <4>1. \A k \in 1..BYTES_RS : length + k \in 1..(length + BYTES_RS)
        BY <2>1
      <4> QED
        BY <2>1, <4>1 DEF print_rs
    <3> HIDE DEF Entry, a, b, c, d
    <3>5. (a \o b) \in Seq(Entry) /\ (a \o b \o c) \in Seq(Entry)
      BY <3>1, <3>2, <3>3
    <3>6. strings = (a \o b \o c) \o d
      BY DEF a, b, c, d
    <3> HIDE DEF strings
    <3>7. ASSUME NoZero(strings)
          PROVE  NoZero(a) /\ NoZero(b) /\ NoZero(c) /\ NoZero(d)
      <4>1. NoZero(a \o b \o c) /\ NoZero(d)
        BY <3>4, <3>5, <3>6, <3>7, NoZeroParts
      <4>2. NoZero(a \o b) /\ NoZero(c)
        BY <3>3, <3>5, <4>1, NoZeroParts
      <4>3. NoZero(a) /\ NoZero(b)
        BY <3>1, <3>2, <4>2, NoZeroParts
      <4> QED
        BY <4>1, <4>2, <4>3
    <3> QED
      BY <3>7 DEF a, b, c, d
  <2>6. process_result = head + came + check
    <3>1. never \in Int
      BY <2>1, LogAssumption, Numbers DEF WANTED_LENGTH
    <3> DEFINE first == count_errors(WANTED_PAYLOAD, print_message)
    <3>2. first \in Nat
      BY CountsAreNumbers
    <3>3. process_result = head + first + check + never
      BY DEF process_result
    <3>4. came = first + never
      OBVIOUS
    <3> HIDE DEF head, never, first, came, check
    <3> QED
      BY <2>2, <2>4, <3>1, <3>2, <3>3, <3>4
  <2> HIDE DEF head, came, message, check, parity, strings
  <2>7. /\ process_result <= head + message + parity
        /\ NoZero(strings) => process_result = head + message + parity
    BY <2>2, <2>3, <2>4, <2>5, <2>6
  <2> QED
    BY <2>7 DEF AllWrongBits, head, message, parity, strings
<1>2. ReceiverSpec => []ReceiverTypeOK
  BY TypeCorrect
<1> QED
  BY <1>1, <1>2, LogIsReceiver, PTL
=============================================================================
