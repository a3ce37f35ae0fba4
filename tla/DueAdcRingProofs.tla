-------------------------- MODULE DueAdcRingProofs --------------------------
(***************************************************************************)
(* The sampling ring for any pins in any order of enabling, any ring size  *)
(* and any number of laps, calls, starts and stops.                        *)
(*                                                                         *)
(* A start leaves in NumChEn, the walks' stride, the number of channels,   *)
(* because no two pins share one (PinInv).  The two DMA segments in flight and the two    *)
(* pointers of getMeasures cover the ring between them (RInv), so that     *)
(* what was returned is behind the measure it goes on with (TakenInv), and *)
(* what was read is behind the newest (ReadInv).  What lies behind the DMA *)
(* is filled (FilledInv) and in the order of the channels (RingInv), and a *)
(* walk looks at no more entries than one round has (WalkInv).             *)
(***************************************************************************)
EXTENDS DueAdcRing, InductionLemmas

\* At a start, the channels are those of the enabled pins, from which it has removed the
\* negative inputs.
PinInv ==
    /\ enablPin \subseteq 0..11
    /\ enablDif \subseteq Differential
    /\ call.op = "start" =>
         /\ enabcha = {channel(pin) : pin \in enablPin}
         /\ NumChEn = Cardinality(enablPin)
         /\ enablPin = Sampled

-----------------------------------------------------------------------------
LEMMA ChannelInjective ==
    ASSUME NEW p \in 0..11, NEW q \in 0..11, channel(p) = channel(q)
    PROVE  p = q
BY DEF channel

LEMMA NegativeIsPin ==
    ASSUME NEW p \in Differential
    PROVE  Negative(p) \in 0..11
BY DEF Differential, Negative

LEMMA AsManyChannelsAsPins ==
    ASSUME NEW S, S \subseteq 0..11
    PROVE  Cardinality({channel(p) : p \in S}) = Cardinality(S)
<1> DEFINE T == {channel(p) : p \in S}
           f == [p \in S |-> channel(p)]
<1>1. IsFiniteSet(S)
  BY FS_Interval, FS_Subset, 0 \in Int, 11 \in Int
<1>2. f \in [S -> T]
  OBVIOUS
<1>3. \A p, q \in S : f[p] = f[q] => p = q
  BY ChannelInjective
<1>4. \A t \in T : \E p \in S : f[p] = t
  OBVIOUS
<1>5. f \in Bijection(S, T)
  BY <1>2, <1>3, <1>4 DEF Bijection, Injection, Surjection, IsInjective
<1>6. ExistsBijection(S, T)
  BY <1>5 DEF ExistsBijection
<1> QED
  BY <1>1, <1>6, FS_Bijection

LEMMA PinsGiveChannels == PinInv => PairsSampledOnce
<1> SUFFICES ASSUME PinInv, call.op = "start"
             PROVE  /\ \A pin \in enablDif : channel(Negative(pin)) \notin enabcha
                    /\ NumChEn = Cardinality(enabcha)
  BY DEF PairsSampledOnce
<1>1. ASSUME NEW pin \in enablDif, channel(Negative(pin)) \in enabcha
      PROVE  FALSE
  <2>1. PICK q \in enablPin : channel(Negative(pin)) = channel(q)
    BY <1>1 DEF PinInv
  <2>2. Negative(pin) \in 0..11 /\ q \in 0..11
    BY NegativeIsPin DEF PinInv
  <2>3. Negative(pin) = q
    BY <2>1, <2>2, ChannelInjective
  <2> QED
    BY <2>1, <2>3 DEF PinInv, Sampled
<1>2. NumChEn = Cardinality(enabcha)
  BY AsManyChannelsAsPins DEF PinInv
<1> QED
  BY <1>1, <1>2

-----------------------------------------------------------------------------
(* The converter, its DMA channel and the library's calls, in the words of   *)
(* the invariants.                                                           *)

\* Calls during which the DMA may store any number of measures.
Waits == {"none", "start", "read", "entry", "speed"}
Ops == Waits \cup {"stop", "mark", "find", "sum", "measures"}

Calls == [op: Ops, want: 0..15, pos: 0..BufSiz, left: Nat, more: 0..Null]
CallOK == call \in Calls

\* The counters cover the rest of the ring.
DmaInv ==
    /\ okHandler = okStart
    /\ ENDRX => okStart
    /\ okStart => enabcha # {}
    /\ RCR > 0 => RPR + RCR = BufSiz
    /\ okStart /\ RCR = 0 => RPR = BufSiz
    /\ OnTime /\ okStart => RCR > 0

\* A call that walks the ring meets at most Lag new measures.
CallInv ==
    /\ call.op = "none" => call = Idle
    /\ call.op \notin {"none", "measures"} => okStart
    /\ call.op \in Waits => lag = 0
    /\ call.op = "stop" => lag <= 1
    /\ call.op # "stop" => lag <= Lag
    /\ call.op \in {"find", "measures"} => call.left > 0
    /\ call.op = "entry" => call.pos \in Slots

MachineInv == DmaInv /\ CallInv

RInv == TypeOK /\ CallOK /\ MachineInv /\ PinInv

LEMMA Sizes ==
    /\ BufSiz \in Nat /\ BufSiz > 0 /\ Null = BufSiz + 1 /\ Null \in Nat
    /\ Lag \in Nat /\ Reach \in Nat /\ Lag <= BufSiz /\ Lag + Reach <= BufSiz /\ Asked \in Nat
    /\ Pins \subseteq 0..11 /\ IsFiniteSet(Pins) /\ Cardinality(Pins) \in Nat
    /\ Cardinality(Pins) <= Reach
    /\ Slots = 0..(BufSiz - 1) /\ Unset = 15
<1>1. IsFiniteSet(Pins)
  BY RingAssumption, FS_Interval, FS_Subset, 0 \in Int, 11 \in Int
<1>2. Cardinality(Pins) \in Nat
  BY <1>1, FS_CardinalityType
<1> QED
  BY <1>1, <1>2, RingAssumption DEF Null, Slots, Unset

LEMMA ChannelTags ==
    ASSUME NEW pin \in Pins
    PROVE  channel(pin) \in 0..13
BY RingAssumption DEF channel

\* No more channels than pins.
LEMMA ChannelCount ==
    ASSUME NEW S, S \subseteq {channel(p) : p \in Pins}
    PROVE  Cardinality(S) \in Nat /\ Cardinality(S) <= Cardinality(Pins)
<1> DEFINE T == {channel(p) : p \in Pins}
<1>1. T \subseteq 0..13
  BY ChannelTags
<1>2. Cardinality(T) = Cardinality(Pins)
  BY Sizes, AsManyChannelsAsPins
<1>3. S \subseteq T
  OBVIOUS
<1> HIDE DEF T
<1>4. IsFiniteSet(T)
  BY <1>1, FS_Interval, FS_Subset, 0 \in Int, 13 \in Int
<1>5. IsFiniteSet(S) /\ Cardinality(S) <= Cardinality(T)
  BY <1>3, <1>4, FS_Subset
<1> QED
  BY <1>2, <1>5, FS_CardinalityType

LEMMA IdleFacts ==
    /\ Idle.op = "none" /\ Idle.want = 15 /\ Idle.pos = 0 /\ Idle.left = 0 /\ Idle.more = 0
    /\ Idle \in Calls
BY Sizes DEF Idle, Calling, Calls, Ops, Waits, Unset

LEMMA CallMade ==
    ASSUME NEW op \in Ops, NEW want \in 0..15, NEW pos \in 0..BufSiz, NEW left \in Nat,
           NEW more \in 0..Null
    PROVE  Calling(op, want, pos, left, more) \in Calls
BY DEF Calling, Calls

LEMMA CallFacts ==
    ASSUME RInv
    PROVE  /\ Returning => call.op = "none" /\ lag = 0
           /\ call.op \in Ops /\ call.want \in 0..15 /\ call.pos \in 0..BufSiz
           /\ call.left \in Nat /\ call.more \in 0..Null
           /\ lag \in Nat
BY IdleFacts, Sizes DEF RInv, CallOK, Calls, MachineInv, CallInv, TypeOK, Returning, Waits

\* The steps that leave the ring, its pointers and the call alone.
Setup ==
    /\ Returning /\ call' = call
    /\ UNCHANGED <<enabcha, okStart, okHandler, dma, kept, lag, history>>

Starting == gostart /\ ~okStart /\ Sampled # {}

LEMMA RingCases ==
    ASSUME RInv, Next
    PROVE  \/ Setup \/ Starting \/ Stop \/ GetPosCurr \/ MeasureSpeed
           \/ \E pin \in Pins : ReadAnalogPin(pin) \/ FindValueForPin(pin)
           \/ \E pin \in Pins, pSkip \in 0..Reach, nrM \in 1..Reach :
                FindAvgForPinPos(pin, pSkip, nrM)
           \/ \E nrMeas \in NrMeas : getMeasures(nrMeas)
           \/ Started \/ Stopped \/ ReadPointer \/ ReadEntry \/ FindEntry
           \/ MeasureEntry \/ SpeedInterrupt \/ Convert \/ adcHandler
<1>1. Configure => Setup
  BY DEF Configure, DisEnabPin, EnablePin, EnableDif, ChangePins, PinsOnly, Setup
<1>2. gostart => Setup \/ Starting
  <2> SUFFICES ASSUME gostart, ~Starting PROVE Setup
    OBVIOUS
  <2>1. /\ Returning /\ call' = Idle
        /\ UNCHANGED <<dma, kept, okHandler, okStart, enabcha, history, lag>>
    BY DEF gostart, Starting
  <2> QED
    BY <2>1 DEF Setup, Returning
<1> QED
  BY <1>1, <1>2 DEF Next, NewCall, Proceed

LEMMA MinIn ==
    ASSUME NEW S, S \subseteq Nat, S # {}
    PROVE  Min(S) \in S /\ \A n \in S : Min(S) <= n
BY LeastNumber DEF Min

LEMMA NextChannelIn ==
    ASSUME RInv, okStart
    PROVE  NextChannel \in enabcha /\ enabcha \subseteq 0..13
<1>1. enabcha # {} /\ enabcha \subseteq 0..13
  BY ChannelTags DEF RInv, MachineInv, DmaInv, CallInv, TypeOK
<1> DEFINE above == {ch \in enabcha : converted = Unset \/ ch > converted}
<1>2. above \subseteq enabcha
  OBVIOUS
<1>3. NextChannel = Min(IF above # {} THEN above ELSE enabcha)
  BY DEF NextChannel
<1> HIDE DEF above
<1>4. above \subseteq Nat /\ enabcha \subseteq Nat
  BY <1>1, <1>2
<1> QED
  BY <1>1, <1>2, <1>3, <1>4, MinIn

LEMMA SampledFacts ==
    ASSUME RInv
    PROVE  /\ Sampled \subseteq enablPin /\ Sampled \subseteq Pins
           /\ Cardinality(Sampled) \in 0..Cardinality(Pins)
           /\ Sampled # {} => Cardinality(Sampled) > 0
           /\ {channel(pin) : pin \in Sampled} \subseteq {channel(pin) : pin \in Pins}
           /\ Sampled # {} => {channel(pin) : pin \in Sampled} # {}
<1>1. Sampled \subseteq enablPin /\ Sampled \subseteq Pins
  BY DEF RInv, TypeOK, Sampled
<1>2. IsFiniteSet(Sampled) /\ Cardinality(Sampled) <= Cardinality(Pins)
  BY <1>1, Sizes, FS_Subset
<1>3. Cardinality(Sampled) \in Nat /\ (Sampled # {} => Cardinality(Sampled) # 0)
  BY <1>2, FS_CardinalityType, FS_EmptySet
<1>4. Sampled # {} => Cardinality(Sampled) > 0
  BY <1>3
<1>5. Cardinality(Sampled) \in 0..Cardinality(Pins)
  BY <1>2, <1>3, Sizes
<1>6. {channel(pin) : pin \in Sampled} \subseteq {channel(pin) : pin \in Pins}
  BY <1>1
<1>7. Sampled # {} => {channel(pin) : pin \in Sampled} # {}
  OBVIOUS
<1> QED
  BY <1>1, <1>4, <1>5, <1>6, <1>7

\* The types of the variables but those of the pins, the call and its lag.
Ring == <<okStart, okHandler, Buffer, RPR, RCR, RNCR, ENDRX, converted, lastRPR, MeasRPR,
          taken, read>>
RestOK ==
    /\ okStart \in BOOLEAN /\ okHandler \in BOOLEAN
    /\ Buffer \in [Slots -> 0..15]
    /\ RPR \in 0..BufSiz /\ RCR \in 0..BufSiz /\ RNCR \in {0, BufSiz}
    /\ ENDRX \in BOOLEAN /\ converted \in 0..15
    /\ lastRPR \in 0..Null /\ MeasRPR \in 0..Null
    /\ taken \subseteq Slots /\ read \subseteq Slots

LEMMA MachineInit == Init => TypeOK /\ CallOK /\ MachineInv
<1> SUFFICES ASSUME Init PROVE TypeOK /\ CallOK /\ MachineInv
  OBVIOUS
<1>1. TypeOK
  <2>1. /\ 0 \in 0..Cardinality(Pins) /\ 0 \in 0..BufSiz /\ Null \in 0..Null
        /\ 0 \in 0..15 /\ 15 \in 0..15
    BY Sizes
  <2>2. Buffer \in [Slots -> 0..15] /\ converted \in 0..15
    BY <2>1 DEF Init, Unset
  <2> QED
    BY <2>1, <2>2 DEF Init, TypeOK
<1>2. CallOK
  BY IdleFacts DEF Init, CallOK
<1>3. MachineInv
  <2>1. call = Idle /\ lag = 0 /\ okStart = FALSE /\ okHandler = FALSE /\ ENDRX = FALSE /\ RCR = 0
    BY DEF Init
  <2>2. 0 <= Lag /\ 0 <= 1 /\ ~(0 > 0)
    BY Sizes
  <2> QED
    BY <2>1, <2>2, IdleFacts DEF MachineInv, DmaInv, CallInv
<1> QED
  BY <1>1, <1>2, <1>3

LEMMA PinsTypeStep ==
    ASSUME RInv, Next
    PROVE  /\ enablPin' \subseteq Pins /\ enablDif' \subseteq Pins
           /\ enabcha' \subseteq {channel(pin) : pin \in Pins}
           /\ NumChEn' \in 0..Cardinality(Pins)
<1>1. CASE gostart
  <2>1. /\ enablPin' = Sampled /\ enablDif' = enablDif /\ NumChEn' = Cardinality(Sampled)
        /\ enabcha' = enabcha \/ enabcha' = {channel(pin) : pin \in Sampled}
    BY <1>1 DEF gostart
  <2> QED
    BY <2>1, SampledFacts DEF RInv, TypeOK
<1>2. ASSUME NEW pin \in Pins, EnableDif(pin)
      PROVE  /\ enablPin' \subseteq Pins /\ enablDif' \subseteq Pins
             /\ UNCHANGED <<enabcha, NumChEn>>
  BY <1>2 DEF EnableDif, PinsOnly, RInv, TypeOK
<1>3. ASSUME NEW pin \in Pins, EnablePin(pin)
      PROVE  /\ enablPin' \subseteq Pins /\ enablDif' \subseteq Pins
             /\ UNCHANGED <<enabcha, NumChEn>>
  BY <1>3 DEF EnablePin, PinsOnly, RInv, TypeOK
<1>4. DisEnabPin => /\ enablPin' \subseteq Pins /\ enablDif' \subseteq Pins
                    /\ UNCHANGED <<enabcha, NumChEn>>
  BY DEF DisEnabPin, PinsOnly
<1>5. CASE Configure
  BY <1>2, <1>3, <1>4, <1>5 DEF Configure, RInv, TypeOK
<1>6. CASE ~gostart /\ ~Configure
  <2>1. UNCHANGED pins
    BY <1>6 DEF Next, NewCall, Proceed, Stop, GetPosCurr, MeasureSpeed, ReadAnalogPin,
       FindValueForPin, FindAvgForPinPos, getMeasures, Started, Stopped, ReadPointer, ReadEntry,
       FindEntry, MeasureEntry, SpeedInterrupt, Convert, adcHandler, CallOnly
  <2> QED
    BY <2>1 DEF pins, RInv, TypeOK
<1> QED
  BY <1>1, <1>5, <1>6

LEMMA BeforeIn ==
    ASSUME NEW pos \in 0..BufSiz
    PROVE  Before(pos) \in Slots /\ Before(pos) \in 0..BufSiz
BY Sizes DEF Before

LEMMA RestStep ==
    ASSUME RInv, Next
    PROVE  RestOK'
<1>0. RestOK
  BY DEF RInv, TypeOK, RestOK
<1>1. CASE Setup \/ GetPosCurr \/ MeasureSpeed \/ Started \/ FindEntry \/ SpeedInterrupt
           \/ (\E pin \in Pins : ReadAnalogPin(pin) \/ FindValueForPin(pin))
           \/ (\E pin \in Pins, pSkip \in 0..Reach, nrM \in 1..Reach : FindAvgForPinPos(pin, pSkip, nrM))
  <2>1. UNCHANGED Ring
    BY <1>1 DEF Setup, GetPosCurr, MeasureSpeed, Started, FindEntry, SpeedInterrupt, ReadAnalogPin,
       FindValueForPin, FindAvgForPinPos, CallOnly, Ring, dma, kept, history
  <2> QED
    BY <1>0, <2>1 DEF Ring, RestOK
<1>2. CASE Starting
  <2>1. /\ Buffer' = [i \in Slots |-> Unset] /\ RPR' = 0 /\ RCR' = BufSiz /\ RNCR' = BufSiz
        /\ ENDRX' = FALSE /\ converted' = Unset /\ lastRPR' = 0 /\ MeasRPR' = Null
        /\ okHandler' = TRUE /\ okStart' = TRUE /\ taken' = {} /\ read' = {} 
    BY <1>2 DEF Starting, gostart
  <2>2. 0 \in 0..BufSiz /\ BufSiz \in 0..BufSiz /\ Unset \in 0..15 /\ 0 \in 0..Null /\ Null \in 0..Null
    BY Sizes
  <2>3. Buffer' \in [Slots -> 0..15]
    BY <2>1, <2>2
  <2> QED
    BY <1>0, <2>1, <2>2, <2>3 DEF RestOK
<1>3. CASE Stop
  <2>1. lastRPR' = RPR /\ UNCHANGED <<okStart, okHandler, dma, MeasRPR, taken, read>>
    BY <1>3 DEF Stop, history
  <2>2. RPR \in 0..Null
    BY <1>0, Sizes DEF RestOK
  <2> QED
    BY <1>0, <2>1, <2>2 DEF RestOK, dma
<1>4. CASE Stopped
  <2>1. /\ okHandler' = FALSE /\ okStart' = FALSE /\ RPR' = 0 /\ RCR' = 0 /\ RNCR' = 0
        /\ ENDRX' = FALSE /\ converted' = Unset /\ read' = {}
        /\ UNCHANGED <<Buffer, lastRPR, MeasRPR, taken>>
    BY <1>4 DEF Stopped, kept
  <2>2. 0 \in 0..BufSiz /\ Unset \in 0..15
    BY Sizes
  <2> QED
    BY <1>0, <2>1, <2>2 DEF RestOK
<1>5. CASE ReadPointer
  <2>1. lastRPR' = RPR /\ UNCHANGED <<okStart, okHandler, dma, MeasRPR, taken, read>>
    BY <1>5 DEF ReadPointer, CallOnly, history
  <2>2. RPR \in 0..Null
    BY <1>0, Sizes DEF RestOK
  <2> QED
    BY <1>0, <2>1, <2>2 DEF RestOK, dma
<1>6. CASE ReadEntry
  <2>1. UNCHANGED <<okStart, okHandler, dma, kept, taken>>
    BY <1>6 DEF ReadEntry, CallOnly
  <2>2. Buffer[call.pos] = call.want => read' = {call.pos}
    BY <1>6 DEF ReadEntry
  <2>3. Buffer[call.pos] # call.want => read' = read
    BY <1>6 DEF ReadEntry
  <2>4. call.pos \in Slots
    BY <1>6 DEF ReadEntry, RInv, MachineInv, CallInv
  <2> QED
    BY <1>0, <2>1, <2>2, <2>3, <2>4 DEF RestOK, dma, kept
<1>7. CASE MeasureEntry
  <2>1. Before(call.pos) \in Slots
    BY CallFacts, BeforeIn
  <2>2. /\ UNCHANGED <<okStart, okHandler, dma, kept, read>>
        /\ taken' = taken \/ taken' = taken \cup {Before(call.pos)}
    BY <1>7 DEF MeasureEntry, CallOnly
  <2> QED
    BY <1>0, <2>1, <2>2 DEF RestOK, dma, kept
<1>8. ASSUME NEW nrMeas \in NrMeas, getMeasures(nrMeas)
      PROVE  RestOK'
  <2>1. MeasRPR' = curRPR /\ UNCHANGED <<okStart, okHandler, dma, lastRPR, taken, read>>
    BY <1>8 DEF getMeasures, CallOnly, history
  <2>2. curRPR \in 0..Null
    BY <1>0, Sizes DEF RestOK, curRPR
  <2> QED
    BY <1>0, <2>1, <2>2 DEF RestOK, dma
<1>9. CASE Convert
  <2>1. NextChannel \in 0..15
    BY <1>9, NextChannelIn DEF Convert
  <2>2. CASE RCR = 0
    <3>1. /\ UNCHANGED <<okStart, okHandler, kept, Buffer, RPR, RCR, RNCR, ENDRX, history>>
          /\ converted' = NextChannel
      BY <1>9, <2>2 DEF Convert
    <3> QED
      BY <1>0, <2>1, <3>1 DEF RestOK, kept, history
  <2>3. CASE RCR # 0
    <3>1. RPR + RCR = BufSiz /\ RCR > 0 /\ RPR \in Slots
      BY <1>0, <2>3, Sizes DEF RInv, MachineInv, DmaInv, RestOK
    <3>2. /\ Buffer' = [Buffer EXCEPT ![RPR] = NextChannel]
          /\ taken' = taken \ {RPR} /\ read' = read \ {RPR}
          /\ UNCHANGED <<okStart, okHandler, lastRPR, MeasRPR>> /\ converted' = NextChannel
      BY <1>9, <2>3 DEF Convert, kept
    <3>3. Buffer' \in [Slots -> 0..15]
      BY <1>0, <2>1, <3>2 DEF RestOK
    <3>4. CASE RCR > 1
      <4>1. RPR' = RPR + 1 /\ RCR' = RCR - 1 /\ UNCHANGED <<RNCR, ENDRX>>
        BY <1>9, <2>3, <3>4 DEF Convert
      <4>2. RPR' \in 0..BufSiz /\ RCR' \in 0..BufSiz
        BY <3>1, <3>4, <4>1, <1>0, Sizes DEF RestOK
      <4> QED
        BY <1>0, <2>1, <3>2, <3>3, <4>1, <4>2 DEF RestOK
    <3>5. CASE ~(RCR > 1)
      <4>1. /\ RPR' = IF RNCR > 0 THEN 0 ELSE RPR + 1
            /\ RCR' = RNCR /\ RNCR' = 0 /\ ENDRX' = TRUE
        BY <1>9, <2>3, <3>5 DEF Convert
      <4>2. RPR' \in 0..BufSiz /\ RCR' \in 0..BufSiz /\ RNCR' \in {0, BufSiz}
        BY <3>1, <4>1, <1>0, Sizes DEF RestOK
      <4> QED
        BY <1>0, <2>1, <3>2, <3>3, <4>1, <4>2 DEF RestOK
    <3> QED
      BY <3>4, <3>5
  <2> QED
    BY <2>2, <2>3
<1>10. CASE adcHandler
  <2>1. /\ UNCHANGED <<okStart, okHandler, Buffer, converted, lastRPR, MeasRPR, taken, read>>
        /\ ENDRX' = FALSE
        /\ RPR' \in {0, RPR} /\ RCR' \in {RCR, BufSiz} /\ RNCR' \in {0, BufSiz}
    BY <1>10 DEF adcHandler, kept, history
  <2>2. RPR' \in 0..BufSiz /\ RCR' \in 0..BufSiz /\ ENDRX' \in BOOLEAN
    <3>1. 0 \in 0..BufSiz /\ BufSiz \in 0..BufSiz
      BY Sizes
    <3> QED
      BY <1>0, <2>1, <3>1 DEF RestOK
  <2> QED
    BY <1>0, <2>1, <2>2 DEF RestOK
<1> QED
  BY <1>1, <1>2, <1>3, <1>4, <1>5, <1>6, <1>7, <1>8, <1>9, <1>10, RingCases

LEMMA BackIn ==
    ASSUME NEW pos \in Nat, NEW n \in Nat, n <= BufSiz
    PROVE  Back(pos, n) \in Slots /\ Back(pos, n) \in 0..BufSiz
BY Sizes DEF Back

LEMMA EntryIn ==
    ASSUME RInv
    PROVE  Entry \in 0..BufSiz
<1>1. call.pos \in 0..BufSiz /\ call.pos \in Nat
  BY CallFacts, Sizes
<1>2. NumChEn \in Nat /\ NumChEn <= BufSiz
  BY Sizes DEF RInv, TypeOK
<1>3. Back(call.pos, NumChEn) \in 0..BufSiz
  BY <1>1, <1>2, BackIn
<1> QED
  BY <1>1, <1>3, BeforeIn DEF Entry

LEMMA CallStep ==
    ASSUME RInv, Next
    PROVE  CallOK'
<1>0. /\ lastRPR \in 0..Null /\ MeasRPR \in 0..Null /\ RPR \in 0..BufSiz
      /\ call \in Calls /\ NumChEn \in Nat
  BY Sizes DEF RInv, TypeOK, CallOK
<1>1. /\ call.op \in Ops /\ call.want \in 0..15 /\ call.pos \in 0..BufSiz
      /\ call.left \in Nat /\ call.more \in 0..Null
  BY CallFacts
<1>2. /\ 0 \in 0..BufSiz /\ 0 \in Nat /\ 1 \in Nat /\ 2 \in Nat /\ 0 \in 0..Null /\ Unset \in 0..15
      /\ Ops = {"none", "start", "read", "entry", "speed", "stop", "mark", "find", "sum", "measures"}
  BY Sizes DEF Ops, Waits
<1>3. call' = Idle => CallOK'
  BY IdleFacts DEF CallOK
<1>4. CASE Setup
  BY <1>0, <1>4 DEF Setup, CallOK
<1>5. CASE Starting
  BY <1>2, <1>5, CallMade DEF Starting, gostart, CallOK
<1>6. CASE Stop
  BY <1>2, <1>6, CallMade DEF Stop, CallOK
<1>7. CASE GetPosCurr
  BY <1>0, <1>2, <1>7, CallMade DEF GetPosCurr, CallOK
<1>8. CASE MeasureSpeed
  BY <1>2, <1>8, CallMade DEF MeasureSpeed, CallOK
<1>9. ASSUME NEW pin \in Pins, ReadAnalogPin(pin)
      PROVE  CallOK'
  <2>1. channel(pin) \in 0..15
    BY ChannelTags
  <2> QED
    BY <1>2, <1>9, <2>1, CallMade DEF ReadAnalogPin, CallOK
<1>10. ASSUME NEW pin \in Pins, FindValueForPin(pin)
       PROVE  CallOK'
  <2>1. channel(pin) \in 0..15
    BY ChannelTags
  <2> QED
    BY <1>0, <1>2, <1>10, <2>1, CallMade DEF FindValueForPin, CallOK
<1>11. ASSUME NEW pin \in Pins, NEW pSkip \in 0..Reach, NEW nrM \in 1..Reach,
              FindAvgForPinPos(pin, pSkip, nrM)
       PROVE  CallOK'
  <2>1. channel(pin) \in 0..15
    BY ChannelTags
  <2>2. nrM - 1 \in 0..Null /\ pSkip \in Nat /\ pSkip <= BufSiz /\ call.pos \in Nat
    BY <1>1, Sizes
  <2>3. Back(call.pos, pSkip) \in 0..BufSiz
    BY <2>2, BackIn
  <2> DEFINE pos == IF pSkip = 0 THEN call.pos ELSE Back(call.pos, pSkip)
  <2>4. pos \in 0..BufSiz
    BY <1>1, <2>3
  <2>5. call' = Idle \/ call' = Calling("find", channel(pin), pos, NumChEn, nrM - 1)
    BY <1>11 DEF FindAvgForPinPos, Return
  <2> HIDE DEF pos
  <2> QED
    BY <1>0, <1>2, <1>3, <2>1, <2>2, <2>4, <2>5, CallMade DEF CallOK
<1>12. ASSUME NEW nrMeas \in NrMeas, getMeasures(nrMeas)
       PROVE  CallOK'
  <2>1. curRPR \in 0..BufSiz /\ call' = Calling("measures", Unset, curRPR, nrMeas, lastTaken)
    <3>1. curRPR # Null /\ call' = Calling("measures", Unset, curRPR, nrMeas, lastTaken)
      BY <1>12 DEF getMeasures
    <3> QED
      BY <1>0, <3>1, Sizes DEF curRPR
  <2>2. lastTaken \in 0..Null
    BY <1>0, Sizes DEF lastTaken, Before
  <2>3. nrMeas \in Nat
    BY Sizes DEF NrMeas
  <2> QED
    BY <1>2, <2>1, <2>2, <2>3, CallMade DEF CallOK
<1>13. CASE Started \/ Stopped
  BY <1>3, <1>13 DEF Started, Stopped, Return
<1>14. CASE ReadPointer
  <2>1. Before(RPR) \in 0..BufSiz
    BY <1>0, BeforeIn
  <2>2. call' = [call EXCEPT !.op = "entry", !.pos = Before(RPR)]
    BY <1>14 DEF ReadPointer
  <2> QED
    BY <1>0, <1>2, <2>1, <2>2 DEF CallOK, Calls
<1>15. CASE ReadEntry
  <2>1. call' = Idle \/ call' = [call EXCEPT !.op = "read"]
    BY <1>15 DEF ReadEntry, Return
  <2>2. call' = [call EXCEPT !.op = "read"] => CallOK'
    BY <1>0, <1>2 DEF CallOK, Calls
  <2> QED
    BY <1>3, <2>1, <2>2
<1>16. CASE SpeedInterrupt
  <2>1. call' = Idle \/ call' = [call EXCEPT !.left = 1, !.more = 0]
    BY <1>16 DEF SpeedInterrupt, Return
  <2>2. call' = [call EXCEPT !.left = 1, !.more = 0] => CallOK'
    BY <1>0, <1>2 DEF CallOK, Calls
  <2> QED
    BY <1>3, <2>1, <2>2
<1>17. CASE FindEntry
  <2>1. CASE Misses \/ (Found /\ call.more = 0)
    BY <1>3, <1>17, <2>1 DEF FindEntry, Return
  <2>2. CASE ~(Misses \/ (Found /\ call.more = 0))
    <3>1. call' = [call EXCEPT !.pos = Entry, !.op = IF Found THEN "sum" ELSE "find",
                               !.left = IF Found THEN 0 ELSE @ - 1,
                               !.more = IF Found THEN @ - 1 ELSE @]
      BY <1>17, <2>2 DEF FindEntry
    <3>2. Entry \in 0..BufSiz
      BY EntryIn
    <3>3. CASE Found
      <4>1. call.more - 1 \in 0..Null
        BY <1>1, <2>2, <3>3, Sizes
      <4>2. call' = [call EXCEPT !.pos = Entry, !.op = "sum", !.left = 0, !.more = @ - 1]
        BY <3>1, <3>3
      <4> QED
        BY <1>0, <1>2, <3>2, <4>1, <4>2 DEF CallOK, Calls
    <3>4. CASE ~Found
      <4>1. call.op = "find" /\ call.left # 1
        BY <1>17, <2>2, <3>4 DEF FindEntry, Misses
      <4>2. call.left > 0
        BY <4>1 DEF RInv, MachineInv, CallInv
      <4>3. call.left - 1 \in Nat
        BY <1>1, <4>2
      <4>4. call' = [call EXCEPT !.pos = Entry, !.op = "find", !.left = @ - 1]
        BY <3>1, <3>4
      <4> QED
        BY <1>0, <1>2, <3>2, <4>3, <4>4 DEF CallOK, Calls
    <3> QED
      BY <3>3, <3>4
  <2> QED
    BY <2>1, <2>2
<1>18. CASE MeasureEntry
  <2>1. Before(call.pos) \in 0..BufSiz
    BY <1>1, BeforeIn
  <2>2. CASE call' # Idle
    <3>1. call' = [call EXCEPT !.pos = Before(call.pos), !.left = @ - 1] /\ call.op = "measures"
      BY <1>18, <2>2 DEF MeasureEntry, Return
    <3>2. call.left > 0
      BY <3>1 DEF MachineInv, CallInv, RInv
    <3>3. call.left - 1 \in Nat
      BY <1>1, <3>2
    <3> QED
      BY <1>0, <2>1, <3>1, <3>3 DEF CallOK, Calls
  <2> QED
    BY <1>3, <2>2
<1>19. CASE Convert
  BY <1>0, <1>19 DEF Convert, CallOK
<1>20. CASE adcHandler
  <2>1. call' = call \/ call' = [call EXCEPT !.more = 1]
    BY <1>20 DEF adcHandler
  <2>2. 1 \in 0..Null
    BY Sizes
  <2> QED
    BY <1>0, <2>1, <2>2 DEF CallOK, Calls
<1> QED
  BY <1>4, <1>5, <1>6, <1>7, <1>8, <1>9, <1>10, <1>11, <1>12, <1>13, <1>14, <1>15, <1>16, <1>17,
     <1>18, <1>19, <1>20, RingCases

LEMMA DmaStep ==
    ASSUME RInv, Next
    PROVE  DmaInv'
<1>0. /\ DmaInv /\ BufSiz \in Nat /\ BufSiz > 0
      /\ RPR \in 0..BufSiz /\ RCR \in 0..BufSiz /\ RNCR \in {0, BufSiz}
  BY Sizes DEF RInv, MachineInv, TypeOK
<1>1. CASE UNCHANGED <<enabcha, okStart, okHandler, dma>>
  BY <1>0, <1>1 DEF DmaInv, dma
<1>2. CASE Setup
  BY <1>1, <1>2 DEF Setup
<1>3. CASE Starting
  <2>1. /\ okHandler' = TRUE /\ okStart' = TRUE /\ RPR' = 0 /\ RCR' = BufSiz /\ ENDRX' = FALSE
        /\ enabcha' = {channel(pin) : pin \in Sampled} /\ Sampled # {}
    BY <1>3 DEF Starting, gostart
  <2>2. enabcha' # {}
    BY <2>1, SampledFacts
  <2>3. RCR' > 0 /\ RPR' + RCR' = BufSiz
    BY <2>1, Sizes
  <2>4. okHandler' = okStart' /\ (ENDRX' => okStart')
    BY <2>1
  <2> QED
    BY <2>2, <2>3, <2>4 DEF DmaInv
<1>4. CASE Stopped
  <2>1. okHandler' = FALSE /\ okStart' = FALSE /\ RCR' = 0 /\ ENDRX' = FALSE
    BY <1>4 DEF Stopped
  <2>2. okHandler' = okStart' /\ ~okStart' /\ ~ENDRX'
    BY <2>1
  <2>3. ~(RCR' > 0)
    BY <2>1
  <2> QED
    BY <2>2, <2>3 DEF DmaInv
<1>5. CASE Convert
  <2>1. UNCHANGED <<enabcha, NumChEn, okStart, okHandler>> /\ okStart
    BY <1>5 DEF Convert, pins
  <2>2. CASE RCR = 0
    <3>1. UNCHANGED <<RPR, RCR, ENDRX>> /\ ~OnTime
      BY <1>0, <1>5, <2>2 DEF Convert, DmaInv
    <3> QED
      BY <1>0, <2>1, <3>1 DEF DmaInv
  <2>3. CASE RCR > 1
    <3>1. RPR' = RPR + 1 /\ RCR' = RCR - 1
      BY <1>5, <2>3 DEF Convert
    <3>2. RPR' + RCR' = BufSiz /\ RCR' > 0
      BY <1>0, <2>3, <3>1 DEF DmaInv
    <3> QED
      BY <1>0, <2>1, <3>2 DEF DmaInv
  <2>4. CASE RCR = 1
    <3>1. RPR' = (IF RNCR > 0 THEN 0 ELSE RPR + 1) /\ RCR' = RNCR /\ (OnTime => RNCR > 0)
      BY <1>5, <2>4 DEF Convert
    <3>2. RCR' > 0 => RPR' + RCR' = BufSiz
      BY <1>0, <3>1
    <3>3. RPR + 1 = BufSiz
      BY <1>0, <2>4 DEF DmaInv
    <3>4. (OnTime => RCR' > 0) /\ (RCR' = 0 => RPR' = BufSiz)
      BY <1>0, <3>1, <3>3
    <3>5. UNCHANGED <<enabcha, NumChEn, okStart, okHandler>>
      BY <2>1
    <3> QED
      BY <1>0, <2>1, <3>2, <3>4, <3>5 DEF DmaInv
  <2> QED
    BY <1>0, <2>2, <2>3, <2>4
<1>6. CASE adcHandler
  <2>1. UNCHANGED <<enabcha, NumChEn, okStart, okHandler>> /\ okHandler /\ ENDRX' = FALSE
    BY <1>6 DEF adcHandler, pins
  <2>2. IF RCR = 0 THEN RPR' = 0 /\ RCR' = BufSiz ELSE UNCHANGED <<RPR, RCR>>
    BY <1>6 DEF adcHandler
  <2>3. RCR' > 0 /\ RPR' + RCR' = BufSiz
    BY <1>0, <2>2 DEF DmaInv
  <2>4. RCR' # 0 /\ (OnTime => RCR' > 0)
    BY <1>0, <2>2, <2>3
  <2> QED
    BY <1>0, <2>1, <2>3, <2>4 DEF DmaInv
<1>7. CASE \/ Stop \/ GetPosCurr \/ MeasureSpeed \/ Started \/ ReadPointer \/ ReadEntry \/ FindEntry
           \/ MeasureEntry \/ SpeedInterrupt
           \/ \E pin \in Pins : ReadAnalogPin(pin) \/ FindValueForPin(pin)
           \/ \E pin \in Pins, pSkip \in 0..Reach, nrM \in 1..Reach : FindAvgForPinPos(pin, pSkip, nrM)
           \/ \E nrMeas \in NrMeas : getMeasures(nrMeas)
  <2>1. UNCHANGED <<pins, okStart, okHandler, dma>>
    BY <1>7 DEF Stop, GetPosCurr, MeasureSpeed, Started, ReadPointer, ReadEntry, FindEntry,
       MeasureEntry, SpeedInterrupt, ReadAnalogPin, FindValueForPin, FindAvgForPinPos, getMeasures,
       CallOnly
  <2> QED
    BY <1>1, <2>1 DEF pins
<1> QED
  BY <1>2, <1>3, <1>4, <1>5, <1>6, <1>7, RingCases

LEMMA CallBegun ==
    ASSUME NEW op \in Ops \ {"none"}, NEW want, NEW pos, NEW left, NEW more,
           call' = Calling(op, want, pos, left, more),
           op # "measures" => okStart',
           op \in Waits => lag' = 0, op = "stop" => lag' <= 1, op # "stop" => lag' <= Lag,
           op \in {"find", "measures"} => left > 0,
           op = "entry" => pos \in Slots
    PROVE  CallInv'
<1>1. call'.op = op /\ call'.pos = pos /\ call'.left = left
  BY DEF Calling
<1> QED
  BY <1>1 DEF CallInv

LEMMA CallInvStep ==
    ASSUME RInv, Next
    PROVE  CallInv'
<1>0. CallInv /\ CallOK /\ call \in Calls
  BY DEF RInv, MachineInv, CallOK
<1>1. Returning => lag = 0
  BY CallFacts
<1>2. 0 <= Lag /\ Lag \in Nat /\ BufSiz \in Nat /\ lag \in Nat
  BY Sizes, CallFacts
<1>3. NumChEn \in Nat
  BY Sizes DEF RInv, TypeOK
<1>4. CASE Return
  BY <1>2, <1>4, IdleFacts DEF Return, CallInv
<1>5. CASE Setup
  BY <1>0, <1>5 DEF Setup, CallInv
<1>6. CASE Starting
  <2>1. call' = Calling("start", Unset, 0, 0, 0) /\ okStart' /\ lag' = 0
    BY <1>1, <1>6 DEF Starting, gostart
  <2> QED
    BY <1>2, <2>1, CallBegun DEF Ops, Waits
<1>7. CASE Stop
  <2>1. call' = Calling("stop", Unset, 0, 0, 0) /\ okStart' /\ lag' = 0
    BY <1>1, <1>7 DEF Stop
  <2> QED
    BY <1>2, <2>1, CallBegun DEF Ops, Waits
<1>8. CASE GetPosCurr
  <2>1. call' = Calling("mark", Unset, RPR, 0, 0) /\ okStart' /\ lag' = 0
    BY <1>1, <1>8 DEF GetPosCurr, CallOnly
  <2> QED
    BY <1>2, <2>1, CallBegun DEF Ops, Waits
<1>9. CASE MeasureSpeed
  <2>1. call' = Calling("speed", Unset, 0, 2, 0) /\ okStart' /\ lag' = 0
    BY <1>1, <1>9 DEF MeasureSpeed, CallOnly
  <2> QED
    BY <1>2, <2>1, CallBegun DEF Ops, Waits
<1>10. ASSUME NEW pin \in Pins, ReadAnalogPin(pin)
       PROVE  CallInv'
  <2>1. call' = Calling("read", channel(pin), 0, 0, 0) /\ okStart' /\ lag' = 0
    BY <1>1, <1>10 DEF ReadAnalogPin, Reads, CallOnly
  <2> QED
    BY <1>2, <2>1, CallBegun DEF Ops, Waits
<1>11. ASSUME NEW pin \in Pins, FindValueForPin(pin)
       PROVE  CallInv'
  <2>1. call' = Calling("find", channel(pin), RPR, NumChEn, 0) /\ okStart' /\ lag' = 0 /\ NumChEn > 0
    BY <1>1, <1>11 DEF FindValueForPin, Reads, CallOnly
  <2> QED
    BY <1>2, <2>1, CallBegun DEF Ops, Waits
<1>12. ASSUME NEW pin \in Pins, NEW pSkip \in 0..Reach, NEW nrM \in 1..Reach,
              FindAvgForPinPos(pin, pSkip, nrM)
       PROVE  CallInv'
  <2> DEFINE pos == IF pSkip = 0 THEN call.pos ELSE Back(call.pos, pSkip)
  <2>1. CASE NumChEn = 0
    BY <1>4, <1>12, <2>1 DEF FindAvgForPinPos
  <2>2. CASE NumChEn # 0
    <3>1. call' = Calling("find", channel(pin), pos, NumChEn, nrM - 1) /\ call.op = "mark"
          /\ okStart' = okStart /\ lag' = lag
      BY <1>12, <2>2 DEF FindAvgForPinPos, CallOnly
    <3>2. okStart /\ lag <= Lag /\ NumChEn > 0
      BY <1>0, <1>3, <2>2, <3>1 DEF CallInv
    <3> HIDE DEF pos
    <3> QED
      BY <1>2, <3>1, <3>2, CallBegun DEF Ops, Waits
  <2> QED
    BY <2>1, <2>2
<1>13. ASSUME NEW nrMeas \in NrMeas, getMeasures(nrMeas)
       PROVE  CallInv'
  <2>1. call' = Calling("measures", Unset, curRPR, nrMeas, lastTaken) /\ lag' = 0 /\ nrMeas > 0
    BY <1>1, <1>2, <1>13, Sizes DEF getMeasures, NrMeas
  <2> QED
    BY <1>2, <2>1, CallBegun DEF Ops, Waits
<1>14. CASE Started \/ Stopped
  BY <1>4, <1>14 DEF Started, Stopped
<1>15. CASE ReadPointer
  <2>1. Before(RPR) \in Slots
    BY BeforeIn DEF RInv, TypeOK
  <2>2. /\ call' = [call EXCEPT !.op = "entry", !.pos = Before(RPR)]
        /\ okStart' = okStart /\ lag' = lag /\ call.op = "read"
    BY <1>15 DEF ReadPointer, CallOnly
  <2>3. call'.op = "entry" /\ call'.pos = Before(RPR)
    BY <1>0, <2>2 DEF Calls
  <2> QED
    BY <1>0, <1>2, <2>1, <2>2, <2>3 DEF CallInv, Waits
<1>16. CASE ReadEntry
  <2>1. CASE ~Return
    <3>1. /\ call' = [call EXCEPT !.op = "read"]
          /\ okStart' = okStart /\ lag' = lag /\ call.op = "entry"
      BY <1>16, <2>1 DEF ReadEntry, CallOnly
    <3>2. call'.op = "read"
      BY <1>0, <3>1 DEF Calls
    <3> QED
      BY <1>0, <1>2, <3>1, <3>2 DEF CallInv, Waits
  <2> QED
    BY <1>4, <2>1
<1>17. CASE SpeedInterrupt
  <2>1. CASE ~Return
    <3>1. /\ call' = [call EXCEPT !.left = 1, !.more = 0]
          /\ okStart' = okStart /\ lag' = lag /\ call.op = "speed"
      BY <1>17, <2>1 DEF SpeedInterrupt, CallOnly
    <3>2. call'.op = "speed"
      BY <1>0, <3>1 DEF Calls
    <3> QED
      BY <1>0, <1>2, <3>1, <3>2 DEF CallInv, Waits
  <2> QED
    BY <1>4, <2>1
<1>18. CASE FindEntry
  <2>1. CASE ~Return
    <3>1. /\ ~(Misses \/ (Found /\ call.more = 0)) /\ okStart' = okStart /\ lag' = lag
          /\ call.op \in {"find", "sum"}
      BY <1>18, <2>1 DEF FindEntry, CallOnly
    <3>2. call' = [call EXCEPT !.pos = Entry, !.op = IF Found THEN "sum" ELSE "find",
                               !.left = IF Found THEN 0 ELSE @ - 1,
                               !.more = IF Found THEN @ - 1 ELSE @]
      BY <1>18, <3>1 DEF FindEntry
    <3>3. call'.op \in {"find", "sum"} /\ (call'.op = "find" => ~Found /\ call'.left = call.left - 1)
      BY <1>0, <3>2 DEF Calls
    <3>4. call'.op = "find" => call.left # 1 /\ call.left > 0
      BY <1>0, <3>1, <3>3 DEF Misses, CallInv
    <3>5. call'.op = "find" => call'.left > 0
      BY <3>3, <3>4, CallFacts, Sizes
    <3> QED
      BY <1>0, <1>2, <3>1, <3>3, <3>5 DEF CallInv, Waits
  <2> QED
    BY <1>4, <2>1
<1>19. CASE MeasureEntry
  <2>1. CASE ~Return
    <3>1. /\ call' = [call EXCEPT !.pos = Before(call.pos), !.left = @ - 1] /\ call.left # 1
          /\ okStart' = okStart /\ lag' = lag /\ call.op = "measures"
      BY <1>19, <2>1 DEF MeasureEntry, CallOnly
    <3>2. call'.op = "measures" /\ call'.left = call.left - 1
      BY <1>0, <3>1 DEF Calls
    <3>3. call.left > 0
      BY <1>0, <3>1 DEF CallInv
    <3>4. call'.left > 0
      BY <3>1, <3>2, <3>3, CallFacts, Sizes
    <3> QED
      BY <1>0, <1>2, <3>1, <3>2, <3>4 DEF CallInv, Waits
  <2> QED
    BY <1>4, <2>1
<1>20. CASE Convert
  <2>1. call' = call /\ okStart' = okStart
    BY <1>20 DEF Convert
  <2>2. call.op \in Waits => lag' = 0
    BY <1>0, <1>20 DEF Convert, Waits, CallInv, Returning
  <2>3. call.op \notin Waits => lag' = lag + 1
    BY <1>20, IdleFacts DEF Convert, Waits, Returning
  <2>4. call.op \notin Waits => lag < (IF call.op = "stop" THEN 1 ELSE Lag)
    BY <1>20 DEF Convert, MayStore, Waits
  <2>5. call.op \notin Waits => lag' <= (IF call.op = "stop" THEN 1 ELSE Lag)
    BY <1>2, <2>3, <2>4
  <2>6. "stop" \notin Waits
    BY DEF Waits
  <2> QED
    BY <1>0, <1>2, <2>1, <2>2, <2>5, <2>6 DEF CallInv
<1>21. CASE adcHandler
  <2>1. /\ call' = (IF call.op = "speed" THEN [call EXCEPT !.more = 1] ELSE call)
        /\ lag' = lag /\ okStart' = okStart
    BY <1>21 DEF adcHandler
  <2>2. call'.op = call.op /\ call'.left = call.left /\ call'.pos = call.pos
    BY <1>0, <2>1 DEF Calls
  <2>3. call.op = "none" => call' = call
    BY <2>1
  <2> QED
    BY <1>0, <2>1, <2>2, <2>3 DEF CallInv
<1> QED
  BY <1>5, <1>6, <1>7, <1>8, <1>9, <1>10, <1>11, <1>12, <1>13, <1>14, <1>15, <1>16, <1>17, <1>18,
     <1>19, <1>20, <1>21, RingCases


LEMMA LagStep ==
    ASSUME RInv, Next
    PROVE  lag' \in Nat
<1>1. lag \in Nat
  BY CallFacts
<1>2. lag' \in {0, lag, lag + 1}
  <2>1. Setup \/ Starting \/ Convert \/ adcHandler => lag' \in {0, lag, lag + 1}
    BY DEF Setup, Starting, gostart, Convert, adcHandler
  <2>2. ASSUME \/ Started \/ Stopped \/ ReadPointer \/ ReadEntry \/ FindEntry
               \/ MeasureEntry \/ SpeedInterrupt \/ Stop \/ GetPosCurr \/ MeasureSpeed
        PROVE  lag' \in {0, lag}
    BY <2>2 DEF Stop, GetPosCurr, MeasureSpeed, Started, Stopped, ReadPointer, ReadEntry, FindEntry,
       MeasureEntry, SpeedInterrupt, Return
  <2>3. ASSUME \/ \E pin \in Pins : ReadAnalogPin(pin) \/ FindValueForPin(pin)
               \/ \E pin \in Pins, pSkip \in 0..Reach, nrM \in 1..Reach :
                    FindAvgForPinPos(pin, pSkip, nrM)
               \/ \E nrMeas \in NrMeas : getMeasures(nrMeas)
        PROVE  lag' \in {0, lag}
    BY <2>3 DEF ReadAnalogPin, FindValueForPin, FindAvgForPinPos, getMeasures, Return
  <2> QED
    BY <2>1, <2>2, <2>3, RingCases
<1> QED
  BY <1>1, <1>2

\* Only a start leaves the library in a start's wait, with the pins it has counted.
LEMMA PinInvStep ==
    ASSUME RInv, Next
    PROVE  PinInv'
<1>1. enablPin' \subseteq 0..11
  BY PinsTypeStep, Sizes
<1>2. enablDif' \subseteq Differential
  <2>1. ASSUME NEW pin \in Pins, EnableDif(pin) PROVE enablDif' \subseteq Differential
    BY <2>1 DEF EnableDif, RInv, PinInv
  <2>2. DisEnabPin => enablDif' = {}
    BY DEF DisEnabPin
  <2>3. ASSUME NEW pin \in Pins, EnablePin(pin) PROVE enablDif' = enablDif
    BY <2>3 DEF EnablePin
  <2>4. CASE Configure
    BY <2>1, <2>2, <2>3, <2>4 DEF Configure, RInv, PinInv
  <2>5. CASE ~Configure
    <3>1. enablDif' = enablDif
      BY <2>5 DEF Next, NewCall, Proceed, gostart, Stop, GetPosCurr, MeasureSpeed, ReadAnalogPin,
         FindValueForPin, FindAvgForPinPos, getMeasures, Started, Stopped, ReadPointer, ReadEntry,
         FindEntry, MeasureEntry, SpeedInterrupt, Convert, adcHandler, CallOnly, pins
    <3> QED
      BY <3>1 DEF RInv, PinInv
  <2> QED
    BY <2>4, <2>5
<1>3. ASSUME call'.op = "start"
      PROVE  /\ enabcha' = {channel(pin) : pin \in enablPin'}
             /\ NumChEn' = Cardinality(enablPin')
             /\ enablPin' = Sampled'
  <2>1. CASE Starting
    <3>1. /\ enablPin' = Sampled /\ enablDif' = enablDif /\ NumChEn' = Cardinality(Sampled)
          /\ enabcha' = {channel(pin) : pin \in Sampled}
      BY <2>1 DEF Starting, gostart
    <3>2. Sampled' = Sampled
      BY <3>1 DEF Sampled
    <3> QED
      BY <3>1, <3>2
  <2>2. CASE call.op = "start" /\ UNCHANGED pins
    <3>1. UNCHANGED <<enablPin, enablDif, enabcha, NumChEn>>
      BY <2>2 DEF pins
    <3> QED
      BY <2>2, <3>1 DEF RInv, PinInv, Sampled
  <2>3. Convert \/ adcHandler => call.op = "start" /\ UNCHANGED pins
    BY <1>3 DEF Convert, adcHandler, RInv, CallOK, Calls
  <2>4. ~(Setup \/ Stop \/ GetPosCurr \/ MeasureSpeed \/ Started \/ Stopped)
    BY <1>3, IdleFacts DEF Setup, Returning, Stop, GetPosCurr, MeasureSpeed, Started, Stopped,
       Return, Calling
  <2>5. ~\E pin \in Pins : ReadAnalogPin(pin) \/ FindValueForPin(pin)
    BY <1>3 DEF ReadAnalogPin, FindValueForPin, Calling
  <2>6. ~\E pin \in Pins, pSkip \in 0..Reach, nrM \in 1..Reach : FindAvgForPinPos(pin, pSkip, nrM)
    BY <1>3, IdleFacts DEF FindAvgForPinPos, Calling, Return
  <2>7. ~\E nrMeas \in NrMeas : getMeasures(nrMeas)
    BY <1>3 DEF getMeasures, Calling
  <2>8. ~(ReadPointer \/ ReadEntry \/ SpeedInterrupt)
    BY <1>3, IdleFacts DEF ReadPointer, ReadEntry, SpeedInterrupt, Return, RInv, CallOK, Calls
  <2>9. ~MeasureEntry
    BY <1>3, IdleFacts DEF MeasureEntry, Return, RInv, CallOK, Calls
  <2>10. ~FindEntry
    <3> SUFFICES ASSUME FindEntry PROVE FALSE
      OBVIOUS
    <3>1. call' = Idle \/ call'.op = (IF Found THEN "sum" ELSE "find")
      BY DEF FindEntry, Return, RInv, CallOK, Calls
    <3> QED
      BY <1>3, <3>1, IdleFacts
  <2> QED
    BY <2>1, <2>2, <2>3, <2>4, <2>5, <2>6, <2>7, <2>8, <2>9, <2>10, RingCases
<1> QED
  BY <1>1, <1>2, <1>3 DEF PinInv

\* The DMA's segments and the pointers of the calls divide the ring as the handlers
\* leave it (DueAdcFast.cpp:283-431 and 617-663), between any two steps of a call.
THEOREM RingInvariance == Spec => []RInv
<1>1. Init => RInv
  <2>1. Init => PinInv
    BY IdleFacts DEF Init, PinInv
  <2> QED
    BY <2>1, MachineInit DEF RInv
<1>2. RInv /\ [Next]_vars => RInv'
  <2> SUFFICES ASSUME RInv, [Next]_vars PROVE RInv'
    OBVIOUS
  <2>1. CASE UNCHANGED vars
    <3>1. UNCHANGED <<pins, okStart, okHandler, dma, kept, call, lag, history>>
      BY <2>1 DEF vars
    <3>2. TypeOK'
      BY <3>1 DEF RInv, TypeOK, pins, dma, kept, history
    <3>3. DmaInv' /\ CallInv' /\ CallOK' /\ PinInv'
      BY <3>1 DEF RInv, MachineInv, DmaInv, CallInv, CallOK, PinInv, Sampled, pins, dma
    <3> QED
      BY <3>2, <3>3 DEF RInv, MachineInv
  <2>2. CASE Next
    <3>1. DmaInv' /\ CallInv' /\ CallOK' /\ PinInv'
      BY <2>2, DmaStep, CallInvStep, CallStep, PinInvStep
    <3>2. lag' \in 0..BufSiz
      <4>1. lag' \in Nat /\ (lag' <= 1 \/ lag' <= Lag)
        BY <2>2, <3>1, LagStep DEF CallInv
      <4> QED
        BY <4>1, Sizes
    <3>3. TypeOK'
      BY <2>2, <3>2, PinsTypeStep, RestStep DEF TypeOK, RestOK
    <3> QED
      BY <3>1, <3>3 DEF RInv, MachineInv
  <2> QED
    BY <2>1, <2>2
<1> QED
  BY <1>1, <1>2, PTL DEF Spec

\* Every pointer, counter and tag of the ring keeps its range, over any pins, ring size and
\* order of calls (DueAdcFast.cpp:165-663).
THEOREM RingTypes == Spec => []TypeOK
<1>1. RInv => TypeOK
  BY DEF RInv
<1> QED
  BY <1>1, RingInvariance, PTL

\* Whatever pins are enabled, in single-ended or differential mode, in any order and while
\* the converter runs too, a start samples each pair as one channel and leaves the number of
\* channels as the walks' stride (DueAdcFast.cpp:165-281).
THEOREM OneChannelPerPair == Spec => []PairsSampledOnce
<1>1. RInv => PairsSampledOnce
  BY PinsGiveChannels DEF RInv
<1> QED
  BY <1>1, RingInvariance, PTL


-----------------------------------------------------------------------------
(* Ways along the ring.  A position from Buffer is in 0..BufSiz: a ring that *)
(* ran dry ends at BufSiz, the same place as 0.                              *)

\* The entries stored on the way from one position to another, less than a lap.
Since(i, from, to) == IF from <= to THEN from <= i /\ i < to ELSE from <= i \/ i < to

\* The way from one position on to another, at least one and at least no entry.
Room(pos, from) == IF pos > from THEN pos - from ELSE (BufSiz + pos) - from
Gap(from, to) == IF from <= to THEN to - from ELSE (BufSiz + to) - from

\* The entries after a and up to b.
Between(i, a, b) == IF a < b THEN a < i /\ i <= b ELSE a < i \/ i <= b

\* Where the DMA's pointer may be after an entry is stored at c, and after the
\* interrupt handler.
Stores(c, d) == c \in Slots /\ (d = c + 1 \/ (c = BufSiz - 1 /\ d = 0))
Rewinds(c, d) == c \in 0..BufSiz /\ (d = c \/ (c = BufSiz /\ d = 0))

LEMMA RoomStored ==
    ASSUME NEW pos \in 0..BufSiz, NEW c, NEW d, Stores(c, d), Room(pos, c) >= 2
    PROVE  Room(pos, d) = Room(pos, c) - 1
BY Sizes DEF Room, Stores

LEMMA GapStored ==
    ASSUME NEW m \in 0..BufSiz, NEW c, NEW d, Stores(c, d)
    PROVE  Gap(m, d) <= Gap(m, c) + 1
BY Sizes DEF Gap, Stores

LEMMA SinceStored ==
    ASSUME NEW m \in 0..BufSiz, NEW c, NEW d, Stores(c, d), NEW i \in Slots, Since(i, m, d)
    PROVE  i = c \/ Since(i, m, c)
BY Sizes DEF Since, Stores

LEMMA RoomRewound ==
    ASSUME NEW pos \in 0..BufSiz, NEW c, NEW d, Rewinds(c, d), Room(pos, c) >= 1
    PROVE  Room(pos, d) = Room(pos, c)
BY Sizes DEF Room, Rewinds

LEMMA GapRewound ==
    ASSUME NEW m \in 0..BufSiz, NEW c, NEW d, Rewinds(c, d)
    PROVE  Gap(m, d) <= Gap(m, c)
BY Sizes DEF Gap, Rewinds

LEMMA SinceRewound ==
    ASSUME NEW m \in 0..BufSiz, NEW c, NEW d, Rewinds(c, d), NEW i \in Slots, Since(i, m, d)
    PROVE  Since(i, m, c)
BY Sizes DEF Since, Rewinds

LEMMA WayTypes ==
    ASSUME NEW a \in 0..BufSiz, NEW b \in 0..BufSiz
    PROVE  Room(a, b) \in Nat /\ Room(a, b) <= BufSiz /\ Gap(a, b) \in Nat
BY Sizes DEF Room, Gap

LEMMA SlotIsPosition ==
    ASSUME NEW c \in Slots
    PROVE  c \in 0..BufSiz /\ c \in Nat /\ Room(c, c) = BufSiz
BY Sizes DEF Room

LEMMA RoomBefore ==
    ASSUME NEW pos \in 0..BufSiz, NEW c \in 0..BufSiz, Room(pos, c) >= 2
    PROVE  Room(Before(pos), c) = Room(pos, c) - 1
BY Sizes DEF Room, Before

LEMMA BehindIsOutside ==
    ASSUME NEW pos \in 0..BufSiz, NEW c \in 0..BufSiz, NEW m \in 0..BufSiz,
           Room(pos, c) >= 1, Gap(m, c) + Room(pos, c) <= BufSiz, m = BufSiz => pos > 0
    PROVE  ~Since(Before(pos), m, c) /\ ~Since(Before(pos), pos, m)
BY Sizes DEF Room, Gap, Since, Before

LEMMA SinceBack ==
    ASSUME NEW pos \in 0..BufSiz, NEW c \in 0..BufSiz, NEW m \in 0..BufSiz,
           Room(pos, c) >= 2, Gap(m, c) + Room(pos, c) <= BufSiz, m = BufSiz => pos > 0,
           NEW i \in Slots, i = Before(pos) \/ Since(i, pos, m)
    PROVE  Since(i, Before(pos), m)
BY Sizes DEF Room, Gap, Since, Before

LEMMA EndsBeforeStart ==
    ASSUME NEW pos \in 0..BufSiz, NEW c \in 0..BufSiz, pos > 0,
           Room(pos, c) >= 2, Gap(BufSiz, c) + Room(pos, c) <= BufSiz
    PROVE  Before(pos) > 0
BY Sizes DEF Room, Gap, Before

LEMMA BetweenBack ==
    ASSUME NEW a \in Slots, NEW p \in Slots, p # a, Before(p) # a, NEW i \in Slots,
           Between(i, a, Before(p))
    PROVE  i # p /\ Between(i, a, p)
BY Sizes DEF Between, Before

LEMMA BetweenIsSince ==
    ASSUME NEW m \in 0..BufSiz, NEW c \in 0..BufSiz, Before(m) # Before(c), NEW i \in Slots,
           Between(i, Before(m), Before(c))
    PROVE  Since(i, m, c)
BY Sizes DEF Between, Since, Before


-----------------------------------------------------------------------------
(* The measures already returned.                                            *)

\* The walk stays ahead of the converter, before the pointer it started from, and
\* between the entries returned before and itself there is none left to meet.
Walked ==
    /\ Room(call.pos, curRPR) >= call.left + (IF okStart THEN Lag - lag ELSE 0)
    /\ Gap(MeasRPR, curRPR) + Room(call.pos, curRPR) <= BufSiz
    /\ MeasRPR = BufSiz => call.pos > 0
    /\ call.more \in Slots \cup {Null}
    /\ call.more = Null => \A i \in taken : Since(i, call.pos, MeasRPR)
    /\ call.more # Null /\ Before(call.pos) # call.more =>
         \A i \in taken : ~Between(i, call.more, Before(call.pos))

TakenInv ==
    /\ MeasRPR = Null => taken = {} /\ call.op # "measures"
    /\ MeasRPR # Null => curRPR # Null /\ \A i \in taken : ~Since(i, MeasRPR, curRPR)
    /\ call.op = "stop" => /\ lastRPR # Null
                           /\ MeasRPR # Null => \A i \in taken : ~Since(i, MeasRPR, lastRPR)
    /\ call.op = "measures" => Walked

\* What the steps on the pointers and the entries returned need to know of the state.
LEMMA TakenFacts ==
    ASSUME RInv, TakenInv
    PROVE  /\ call.pos \in 0..BufSiz /\ call.left \in Nat
           /\ MeasRPR \in 0..Null /\ lastRPR \in 0..Null /\ RPR \in 0..BufSiz
           /\ MeasRPR # Null => MeasRPR \in 0..BufSiz /\ curRPR \in 0..BufSiz
           /\ taken \subseteq Slots /\ lag \in Nat
           /\ call.op = "measures" => lag <= Lag /\ call.left > 0 /\ MeasRPR # Null
<1>1. MeasRPR # Null => MeasRPR \in 0..BufSiz /\ curRPR \in 0..BufSiz
  BY Sizes DEF RInv, TypeOK, TakenInv, curRPR
<1>2. call.op = "measures" => lag <= Lag /\ call.left > 0 /\ MeasRPR # Null
  BY DEF RInv, MachineInv, CallInv, TakenInv
<1> QED
  BY <1>1, <1>2, CallFacts, Sizes DEF RInv, TypeOK

LEMMA TakenKept ==
    ASSUME TakenInv, UNCHANGED <<MeasRPR, taken>>, curRPR' = curRPR,
           call'.op \notin {"stop", "measures"}, call.op # "measures"
    PROVE  TakenInv'
BY DEF TakenInv

LEMMA TakenStored ==
    ASSUME RInv, TakenInv, Convert
    PROVE  TakenInv'
<1>0. /\ okStart /\ okStart' /\ curRPR = RPR /\ curRPR' = RPR'
      /\ UNCHANGED <<MeasRPR, lastRPR, call>>
  BY DEF Convert, curRPR, kept
<1>1. /\ call.pos \in 0..BufSiz /\ call.left \in Nat /\ RPR \in 0..BufSiz
      /\ MeasRPR # Null => MeasRPR \in 0..BufSiz
      /\ taken \subseteq Slots /\ lag \in Nat /\ Lag \in Nat /\ RCR \in 0..BufSiz
      /\ call.op = "measures" => lag <= Lag /\ call.left > 0 /\ MeasRPR # Null
  BY TakenFacts, Sizes DEF RInv, TypeOK
<1>2. call.op = "measures" => lag' = lag + 1 /\ lag < Lag
  BY IdleFacts DEF Convert, MayStore, Returning
<1>3. CASE RCR = 0
  <2>1. UNCHANGED <<RPR, taken>>
    BY <1>3 DEF Convert, history
  <2>2. Walked /\ call.op = "measures" => Walked'
    <3> SUFFICES ASSUME Walked, call.op = "measures" PROVE Walked'
      OBVIOUS
    <3>1. Room(call.pos, RPR) >= call.left + (Lag - lag')
      <4>1. Room(call.pos, RPR) >= call.left + (Lag - lag) /\ Room(call.pos, RPR) \in Nat
        BY <1>0, <1>1, WayTypes DEF Walked
      <4> QED
        BY <1>1, <1>2, <4>1
    <3> QED
      BY <1>0, <2>1, <3>1 DEF Walked
  <2> QED
    BY <1>0, <2>1, <2>2 DEF TakenInv
<1>4. CASE RCR # 0
  <2>1. Stores(RPR, RPR') /\ taken' = taken \ {RPR}
    <3>1. RPR + RCR = BufSiz /\ RCR > 0
      BY <1>1, <1>4 DEF RInv, MachineInv, DmaInv
    <3>2. RPR \in Slots /\ (RCR = 1 => RPR = BufSiz - 1)
      BY <1>1, <3>1, Sizes
    <3>3. taken' = taken \ {RPR} /\ (RCR > 1 => RPR' = RPR + 1)
          /\ (~(RCR > 1) => RPR' = (IF RNCR > 0 THEN 0 ELSE RPR + 1))
      BY <1>4 DEF Convert
    <3>4. RCR > 1 \/ RCR = 1
      BY <1>1, <1>4
    <3> QED
      BY <3>2, <3>3, <3>4 DEF Stores
  <2>2. \A m \in 0..BufSiz : (\A i \in taken : ~Since(i, m, RPR))
                               => \A i \in taken' : ~Since(i, m, RPR')
    BY <1>1, <2>1, SinceStored
  <2>3. RPR' # Null
    BY <2>1, Sizes DEF Stores
  <2>4. Walked /\ call.op = "measures" => Walked'
    <3> SUFFICES ASSUME Walked, call.op = "measures" PROVE Walked'
      OBVIOUS
    <3> DEFINE room == Room(call.pos, RPR)
               gap == Gap(MeasRPR, RPR)
    <3>1. room \in Nat /\ gap \in Nat /\ room >= call.left + (Lag - lag) /\ gap + room <= BufSiz
      BY <1>0, <1>1, WayTypes DEF Walked
    <3>2. room >= 2
      <4>1. Lag - lag >= 1 /\ call.left >= 1 /\ Lag - lag \in Nat
        BY <1>1, <1>2
      <4> HIDE DEF room
      <4> QED
        BY <1>1, <3>1, <4>1
    <3>3. Room(call.pos, RPR') = room - 1
      BY <1>1, <2>1, <3>2, RoomStored
    <3>4. Gap(MeasRPR, RPR') <= gap + 1 /\ Gap(MeasRPR, RPR') \in Nat
      <4>1. RPR' \in 0..BufSiz
        BY <2>1, Sizes DEF Stores
      <4> QED
        BY <1>1, <2>1, <4>1, GapStored, WayTypes
    <3> HIDE DEF room, gap
    <3>5. Room(call.pos, RPR') >= call.left + (Lag - lag')
      BY <1>1, <1>2, <3>1, <3>3
    <3>6. Gap(MeasRPR, RPR') + Room(call.pos, RPR') <= BufSiz
      BY <3>1, <3>3, <3>4, Sizes
    <3> QED
      BY <1>0, <2>1, <3>5, <3>6 DEF Walked
  <2>5. MeasRPR # Null => \A i \in taken' : ~Since(i, MeasRPR, RPR')
    BY <1>0, <1>1, <2>2 DEF TakenInv
  <2> QED
    BY <1>0, <2>1, <2>3, <2>4, <2>5 DEF TakenInv
<1> QED
  BY <1>3, <1>4


LEMMA TakenRewound ==
    ASSUME RInv, TakenInv, adcHandler
    PROVE  TakenInv'
<1>0. /\ okStart /\ okStart' /\ curRPR = RPR /\ curRPR' = RPR'
      /\ UNCHANGED <<MeasRPR, lastRPR, lag, taken>>
  BY DEF adcHandler, curRPR, kept, history, RInv, MachineInv, DmaInv
<1>1. /\ call.pos \in 0..BufSiz /\ RPR \in 0..BufSiz /\ (MeasRPR # Null => MeasRPR \in 0..BufSiz)
      /\ taken \subseteq Slots /\ RCR \in 0..BufSiz
      /\ call.op = "measures" => lag <= Lag /\ call.left > 0 /\ MeasRPR # Null
  BY TakenFacts DEF RInv, TypeOK
<1>2. Rewinds(RPR, RPR')
  BY <1>0, <1>1 DEF adcHandler, RInv, MachineInv, DmaInv, Rewinds
<1>3. RPR' # Null /\ RPR' \in 0..BufSiz
  BY <1>2, Sizes DEF Rewinds
<1>4. /\ call'.op = call.op /\ call'.pos = call.pos
      /\ call.op = "measures" => call' = call
  BY DEF adcHandler, RInv, CallOK, Calls
<1>5. MeasRPR # Null => \A i \in taken' : ~Since(i, MeasRPR, RPR')
  BY <1>0, <1>1, <1>2, SinceRewound DEF TakenInv
<1>6. Walked /\ call.op = "measures" => Walked'
  <2> SUFFICES ASSUME Walked, call.op = "measures" PROVE Walked'
    OBVIOUS
  <2> DEFINE room == Room(call.pos, RPR)
             gap == Gap(MeasRPR, RPR)
  <2>1. /\ room \in Nat /\ gap \in Nat /\ room >= call.left + (Lag - lag) /\ gap + room <= BufSiz
    BY <1>0, <1>1, WayTypes DEF Walked
  <2>2. room >= 1
    <3>1. call.left \in Nat /\ lag \in Nat /\ Lag \in Nat /\ call.left > 0 /\ lag <= Lag
      BY <1>1, TakenFacts, Sizes
    <3> HIDE DEF room
    <3> QED
      BY <2>1, <3>1
  <2>3. Room(call.pos, RPR') = room
    BY <1>1, <1>2, <2>2, RoomRewound
  <2>4. Gap(MeasRPR, RPR') <= gap /\ Gap(MeasRPR, RPR') \in Nat
    BY <1>1, <1>2, <1>3, GapRewound, WayTypes
  <2> HIDE DEF room, gap
  <2>5. Gap(MeasRPR, RPR') + Room(call.pos, RPR') <= BufSiz
    BY <2>1, <2>3, <2>4, Sizes
  <2>6. Room(call.pos, RPR') >= call.left + (Lag - lag)
    BY <2>1, <2>3
  <2> QED
    BY <1>0, <1>4, <2>5, <2>6 DEF Walked
<1> QED
  BY <1>0, <1>3, <1>4, <1>5, <1>6 DEF TakenInv

\* A call to getMeasures starts at the converter, just after the entries returned.
LEMMA TakenBegun ==
    ASSUME Asked <= BufSiz, RInv, TakenInv, NEW nrMeas \in NrMeas, getMeasures(nrMeas)
    PROVE  TakenInv'
<1>0. /\ UNCHANGED <<okStart, lastRPR, lag, taken>> /\ curRPR' = curRPR /\ MeasRPR' = curRPR
      /\ call' = Calling("measures", Unset, curRPR, nrMeas, lastTaken)
      /\ curRPR # Null /\ curRPR # MeasRPR
  BY DEF getMeasures, CallOnly, curRPR, dma, history
<1>1. curRPR \in 0..BufSiz /\ lag = 0 /\ taken \subseteq Slots
  BY <1>0, CallFacts, TakenFacts, Sizes DEF getMeasures, curRPR
<1>2. call'.op = "measures" /\ call'.pos = curRPR /\ call'.left = nrMeas /\ call'.more = lastTaken
  BY <1>0 DEF Calling
<1>3. \A i \in taken : ~Since(i, curRPR, curRPR)
  BY <1>1, Sizes DEF Since
<1>4. Room(curRPR, curRPR) = BufSiz /\ Gap(curRPR, curRPR) = 0
  BY <1>1, Sizes DEF Room, Gap
<1>5. Room(curRPR, curRPR) >= nrMeas + (IF okStart THEN Lag - lag ELSE 0)
  <2>1. nrMeas \in Nat /\ nrMeas <= (IF okStart THEN Reach ELSE BufSiz)
    BY Sizes DEF NrMeas
  <2> QED
    BY <1>1, <1>4, <2>1, Sizes
<1>6. Gap(curRPR, curRPR) + Room(curRPR, curRPR) <= BufSiz
  BY <1>4, Sizes
<1>7. curRPR = BufSiz => curRPR > 0
  BY Sizes
<1>8. CASE MeasRPR = Null
  <2>1. lastTaken = Null /\ taken = {}
    BY <1>8 DEF lastTaken, TakenInv
  <2>2. Walked'
    BY <1>0, <1>2, <1>5, <1>6, <1>7, <2>1 DEF Walked
  <2> QED
    BY <1>0, <1>2, <1>3, <2>2 DEF TakenInv
<1>9. CASE MeasRPR # Null
  <2>1. MeasRPR \in 0..BufSiz /\ lastTaken = Before(MeasRPR) /\ lastTaken \in Slots
    BY <1>9, TakenFacts, BeforeIn DEF lastTaken
  <2>2. Null \notin Slots
    BY Sizes
  <2>3. Before(curRPR) # lastTaken => \A i \in taken : ~Between(i, lastTaken, Before(curRPR))
    BY <1>1, <1>9, <2>1, BetweenIsSince DEF TakenInv
  <2>4. Walked'
    BY <1>0, <1>2, <1>5, <1>6, <1>7, <2>1, <2>2, <2>3 DEF Walked
  <2> QED
    BY <1>0, <1>2, <1>3, <2>4 DEF TakenInv
<1> QED
  BY <1>8, <1>9

LEMMA TakenReturned ==
    ASSUME RInv, TakenInv, MeasureEntry
    PROVE  TakenInv'
<1> DEFINE p == Before(call.pos)
           room == Room(call.pos, curRPR)
           gap == Gap(MeasRPR, curRPR)
<1>0. /\ UNCHANGED <<okStart, lastRPR, MeasRPR>> /\ curRPR' = curRPR /\ call.op = "measures"
  BY DEF MeasureEntry, CallOnly, curRPR, dma, kept
<1>1. /\ call.pos \in 0..BufSiz /\ call.left \in Nat /\ call.left > 0 /\ lag \in Nat /\ lag <= Lag
      /\ MeasRPR # Null /\ MeasRPR \in 0..BufSiz /\ curRPR \in 0..BufSiz /\ taken \subseteq Slots
      /\ Lag \in Nat /\ Walked
  BY <1>0, TakenFacts, Sizes DEF TakenInv
<1>2. p \in Slots /\ p \in 0..BufSiz
  BY <1>1, BeforeIn
<1>3. room \in Nat /\ gap \in Nat /\ gap + room <= BufSiz
  BY <1>1, WayTypes DEF Walked
<1>4. room >= call.left + (IF okStart THEN Lag - lag ELSE 0)
  BY <1>1 DEF Walked
<1>5. room >= 1
  <2> HIDE DEF room
  <2> QED
    BY <1>1, <1>3, <1>4
<1>6. ~Since(p, MeasRPR, curRPR) /\ ~Since(p, call.pos, MeasRPR)
  BY <1>1, <1>3, <1>5, BehindIsOutside DEF Walked
<1>7. taken' = taken \/ taken' = taken \cup {p}
  BY DEF MeasureEntry
<1>8. \A i \in taken' : ~Since(i, MeasRPR, curRPR)
  BY <1>1, <1>6, <1>7 DEF TakenInv
<1>9. CASE call' = Idle
  BY <1>0, <1>1, <1>8, <1>9, IdleFacts DEF TakenInv
<1>10. CASE call' # Idle
  <2>1. /\ call' = [call EXCEPT !.pos = p, !.left = @ - 1] /\ call.left # 1 /\ lag' = lag
        /\ p # call.more /\ taken' = taken \cup {p}
    BY <1>10 DEF MeasureEntry, Return
  <2>2. /\ call'.op = "measures" /\ call'.pos = p /\ call'.left = call.left - 1
        /\ call'.more = call.more
    BY <1>0, <2>1 DEF RInv, CallOK, Calls
  <2>3. room >= 2
    <3> HIDE DEF room
    <3> QED
      BY <1>1, <1>3, <1>4, <2>1
  <2>4. Room(p, curRPR) = room - 1
    BY <1>1, <2>3, RoomBefore
  <2>5. Room(p, curRPR) >= (call.left - 1) + (IF okStart THEN Lag - lag ELSE 0)
    <3> HIDE DEF room, p
    <3> QED
      BY <1>1, <1>3, <1>4, <2>4
  <2>6. gap + Room(p, curRPR) <= BufSiz
    <3> HIDE DEF room, p, gap
    <3> QED
      BY <1>3, <2>4, Sizes
  <2>7. MeasRPR = BufSiz => p > 0
    BY <1>1, <1>3, <2>3, EndsBeforeStart DEF Walked
  <2>8. call.more = Null => \A i \in taken' : Since(i, p, MeasRPR)
    <3> SUFFICES ASSUME call.more = Null, NEW i \in taken' PROVE Since(i, p, MeasRPR)
      OBVIOUS
    <3>1. i \in Slots /\ (i = p \/ Since(i, call.pos, MeasRPR))
      BY <1>1, <1>2, <2>1 DEF Walked
    <3> QED
      BY <1>1, <1>3, <2>3, <3>1, SinceBack DEF Walked
  <2>9. call.more # Null /\ Before(p) # call.more => \A i \in taken' : ~Between(i, call.more, Before(p))
    <3> SUFFICES ASSUME call.more # Null, Before(p) # call.more, NEW i \in taken'
                 PROVE  ~Between(i, call.more, Before(p))
      OBVIOUS
    <3>1. call.more \in Slots /\ (i = p \/ i \in taken) /\ i \in Slots
      BY <1>1, <1>2, <2>1 DEF Walked
    <3>2. i \in taken => ~Between(i, call.more, p)
      BY <1>1, <2>1 DEF Walked
    <3> HIDE DEF p
    <3> QED
      BY <1>2, <2>1, <3>1, <3>2, BetweenBack
  <2>10. Walked'
    <3>1. call'.more \in Slots \cup {Null}
      BY <1>1, <2>2 DEF Walked
    <3> HIDE DEF p
    <3> QED
      BY <1>0, <2>1, <2>2, <2>5, <2>6, <2>7, <2>8, <2>9, <3>1 DEF Walked
  <2> QED
    BY <1>0, <1>1, <1>8, <2>2, <2>10 DEF TakenInv
<1> QED
  BY <1>9, <1>10


LEMMA TakenStep ==
    ASSUME Asked <= BufSiz, RInv, TakenInv, Next, RInv'
    PROVE  TakenInv'
<1>0. Idle.op = "none"
  BY IdleFacts
<1>1. Setup => TakenInv'
  BY <1>0, TakenKept DEF Setup, Returning, kept, history, dma, curRPR
<1>2. Starting => TakenInv'
  <2> SUFFICES ASSUME Starting PROVE TakenInv'
    OBVIOUS
  <2>1. MeasRPR' = Null /\ taken' = {} /\ call' = Calling("start", Unset, 0, 0, 0)
    BY DEF Starting, gostart
  <2> QED
    BY <2>1 DEF TakenInv, Calling
<1>3. Stop => TakenInv'
  <2> SUFFICES ASSUME Stop PROVE TakenInv'
    OBVIOUS
  <2>1. /\ lastRPR' = RPR /\ call' = Calling("stop", Unset, 0, 0, 0) /\ UNCHANGED <<MeasRPR, taken>>
        /\ curRPR = RPR /\ curRPR' = RPR
    BY DEF Stop, history, dma, curRPR
  <2>2. RPR # Null
    BY Sizes DEF RInv, TypeOK
  <2>3. call'.op = "stop"
    BY <2>1 DEF Calling
  <2> QED
    BY <2>1, <2>2, <2>3 DEF TakenInv
<1>4. Stopped => TakenInv'
  <2> SUFFICES ASSUME Stopped PROVE TakenInv'
    OBVIOUS
  <2>1. UNCHANGED <<MeasRPR, taken, lastRPR>> /\ call' = Idle /\ curRPR' = lastRPR /\ call.op = "stop"
    BY DEF Stopped, kept, Return, curRPR
  <2> QED
    BY <1>0, <2>1 DEF TakenInv
<1>5. GetPosCurr \/ MeasureSpeed => TakenInv'
  <2> SUFFICES ASSUME GetPosCurr \/ MeasureSpeed PROVE TakenInv'
    OBVIOUS
  <2>1. UNCHANGED <<MeasRPR, taken>> /\ curRPR' = curRPR /\ Returning
        /\ call' \in {Calling("mark", Unset, RPR, 0, 0), Calling("speed", Unset, 0, 2, 0)}
    BY DEF GetPosCurr, MeasureSpeed, kept, history, dma, CallOnly, curRPR
  <2> QED
    BY <1>0, <2>1, TakenKept DEF Calling, Returning
<1>6. ASSUME NEW pin \in Pins, ReadAnalogPin(pin) \/ FindValueForPin(pin) PROVE TakenInv'
  <2>1. UNCHANGED <<MeasRPR, taken>> /\ curRPR' = curRPR /\ Returning
        /\ call' \in {Calling("read", channel(pin), 0, 0, 0),
                      Calling("find", channel(pin), RPR, NumChEn, 0)}
    BY <1>6 DEF ReadAnalogPin, FindValueForPin, Reads, kept, history, dma, CallOnly, curRPR
  <2> QED
    BY <1>0, <2>1, TakenKept DEF Calling, Returning
<1>7. ASSUME NEW pin \in Pins, NEW pSkip \in 0..Reach, NEW nrM \in 1..Reach,
             FindAvgForPinPos(pin, pSkip, nrM)
      PROVE  TakenInv'
  <2>1. UNCHANGED <<MeasRPR, taken>> /\ curRPR' = curRPR /\ call.op = "mark"
    BY <1>7 DEF FindAvgForPinPos, kept, history, dma, CallOnly, curRPR
  <2>2. call' = Idle \/ call'.op = "find"
    BY <1>7 DEF FindAvgForPinPos, Calling, Return
  <2> QED
    BY <1>0, <2>1, <2>2, TakenKept
<1>8. ReadPointer => TakenInv'
  <2> SUFFICES ASSUME ReadPointer PROVE TakenInv'
    OBVIOUS
  <2>1. UNCHANGED <<MeasRPR, taken, okStart, RPR>> /\ call.op = "read"
        /\ call' = [call EXCEPT !.op = "entry", !.pos = Before(RPR)]
    BY DEF ReadPointer, history, dma, CallOnly
  <2>2. okStart /\ call'.op = "entry"
    BY <2>1 DEF RInv, MachineInv, CallInv, CallOK, Calls
  <2> QED
    BY <2>1, <2>2, TakenKept DEF curRPR
<1>9. Started \/ ReadEntry \/ FindEntry \/ SpeedInterrupt => TakenInv'
  <2> SUFFICES ASSUME Started \/ ReadEntry \/ FindEntry \/ SpeedInterrupt PROVE TakenInv'
    OBVIOUS
  <2>1. UNCHANGED <<MeasRPR, taken>> /\ curRPR' = curRPR
        /\ call.op \in {"start", "entry", "find", "sum", "speed"}
    BY DEF Started, ReadEntry, FindEntry, SpeedInterrupt, CallOnly, dma, kept, history, curRPR
  <2>2. call' = Idle \/ call'.op \in {"read", "find", "sum", "speed"}
    BY <2>1 DEF Started, ReadEntry, FindEntry, SpeedInterrupt, Return, RInv, CallOK, Calls
  <2> QED
    BY <1>0, <2>1, <2>2, TakenKept
<1> QED
  BY <1>1, <1>2, <1>3, <1>4, <1>5, <1>6, <1>7, <1>8, <1>9, RingCases, TakenStored, TakenRewound,
     TakenBegun, TakenReturned

LEMMA TakenInvReturnsOnce ==
    ASSUME RInv, TakenInv
    PROVE  MeasuresReturnedOnce
<1> DEFINE p == Before(call.pos)
<1> SUFFICES ASSUME call.op = "measures", p # call.more
             PROVE  p \notin taken
  BY DEF MeasuresReturnedOnce
<1>1. /\ call.pos \in 0..BufSiz /\ MeasRPR \in 0..BufSiz /\ curRPR \in 0..BufSiz /\ Walked
  BY TakenFacts DEF TakenInv
<1>2. CASE call.more = Null
  <2> DEFINE room == Room(call.pos, curRPR)
  <2>1. call.left \in Nat /\ call.left > 0 /\ lag \in Nat /\ lag <= Lag /\ Lag \in Nat
    BY TakenFacts, Sizes
  <2>2. room \in Nat
    BY <1>1, WayTypes
  <2>3. room >= call.left + (IF okStart THEN Lag - lag ELSE 0)
    BY <1>1 DEF Walked
  <2>4. room >= 1
    <3> HIDE DEF room
    <3> QED
      BY <2>1, <2>2, <2>3
  <2>5. ~Since(p, call.pos, MeasRPR)
    BY <1>1, <2>4, BehindIsOutside DEF Walked
  <2> QED
    BY <1>1, <1>2, <2>5 DEF Walked
<1>3. CASE call.more # Null
  <2>1. p \in Slots /\ call.more \in Slots
    BY <1>1, <1>3, BeforeIn DEF Walked
  <2>2. Between(p, call.more, p)
    BY <2>1, Sizes DEF Between
  <2> QED
    BY <1>1, <1>3, <2>2 DEF Walked
<1> QED
  BY <1>2, <1>3

\* However many calls to getMeasures, laps of the ring and stops there are, no measure is
\* returned twice, unless more are asked for than the ring holds (DueAdcFast.cpp:617-663).
THEOREM ReturnedOnce ==
    ASSUME Asked <= BufSiz
    PROVE  Spec => []MeasuresReturnedOnce
<1>1. Init => TakenInv
  BY IdleFacts DEF Init, TakenInv
<1>2. RInv /\ TakenInv /\ [Next]_vars /\ RInv' => TakenInv'
  <2> SUFFICES ASSUME RInv, TakenInv, [Next]_vars, RInv' PROVE TakenInv'
    OBVIOUS
  <2>1. UNCHANGED vars => TakenInv'
    BY DEF vars, TakenInv, Walked, kept, dma, history, curRPR
  <2> QED
    BY <2>1, TakenStep
<1>3. RInv /\ TakenInv => MeasuresReturnedOnce
  BY TakenInvReturnsOnce
<1> QED
  BY <1>1, <1>2, <1>3, RingInvariance, PTL DEF Spec


-----------------------------------------------------------------------------
(* The measure read last.                                                    *)

\* The DMA has stored anew nothing between the pointer remembered and its own that is still
\* the measure read last, and a call looks at the entry before the pointer remembered.
ReadInv ==
    /\ okStart => lastRPR # Null
    /\ OnTime /\ okStart => lastRPR \in Slots
    /\ OnTime /\ okStart /\ call.op # "stop" => \A i \in read : ~Since(i, lastRPR, RPR)
    /\ OnTime /\ call.op = "entry" => call.pos = Before(lastRPR) /\ call.pos \notin read

LEMMA BeforeIsStoredLast ==
    ASSUME NEW a \in Slots, NEW b \in Slots
    PROVE  /\ ~Since(Before(a), a, b)
           /\ a # b => Since(Before(b), a, b)
           /\ ~Since(Before(a), a, a)
BY Sizes DEF Since, Before

LEMMA RoomLeft ==
    ASSUME NEW p \in 0..BufSiz, NEW r \in 0..BufSiz, r > 0, p + r = BufSiz
    PROVE  p \in Slots
BY Sizes

LEMMA OnTimeInRing ==
    ASSUME RInv, OnTime, okStart
    PROVE  RPR \in Slots /\ RCR > 0 /\ RPR + RCR = BufSiz
<1>1. RCR > 0 /\ RPR + RCR = BufSiz /\ RPR \in 0..BufSiz /\ RCR \in 0..BufSiz
  BY DEF RInv, MachineInv, DmaInv, TypeOK
<1> QED
  BY <1>1, Sizes

LEMMA ConvertOnTime ==
    ASSUME RInv, OnTime, Convert
    PROVE  /\ Stores(RPR, RPR') /\ taken' = taken \ {RPR} /\ read' = read \ {RPR} /\ okStart
           /\ Buffer' = [Buffer EXCEPT ![RPR] = NextChannel] /\ converted' = NextChannel
<1>1. RPR \in Slots /\ RCR > 0 /\ RPR + RCR = BufSiz /\ RCR \in 0..BufSiz /\ okStart
  BY OnTimeInRing DEF Convert, RInv, TypeOK
<1>2. /\ taken' = taken \ {RPR} /\ read' = read \ {RPR}
      /\ Buffer' = [Buffer EXCEPT ![RPR] = NextChannel] /\ converted' = NextChannel
      /\ RCR > 1 => RPR' = RPR + 1
      /\ ~(RCR > 1) => RPR' = (IF RNCR > 0 THEN 0 ELSE RPR + 1)
  BY <1>1 DEF Convert
<1>3. RCR > 1 \/ RPR = BufSiz - 1
  BY <1>1, Sizes
<1> QED
  BY <1>1, <1>2, <1>3 DEF Stores

\* The steps on which nothing is read.
LEMMA ReadKept ==
    ASSUME ReadInv, UNCHANGED <<okStart, lastRPR, RPR, read>>, call.op # "stop",
           call'.op # "entry"
    PROVE  ReadInv'
BY DEF ReadInv

LEMMA ReadStep ==
    ASSUME RInv, ReadInv, Next, RInv'
    PROVE  ReadInv'
<1>0. Idle.op = "none" /\ read \subseteq Slots
  BY IdleFacts DEF RInv, TypeOK
<1>1. Setup => ReadInv'
  BY <1>0, ReadKept DEF Setup, Returning, kept, history, dma
<1>2. Starting => ReadInv'
  <2> SUFFICES ASSUME Starting PROVE ReadInv'
    OBVIOUS
  <2>1. lastRPR' = 0 /\ read' = {} /\ call'.op = "start"
    BY DEF Starting, gostart, Calling
  <2>2. 0 \in Slots /\ 0 # Null
    BY Sizes
  <2> QED
    BY <2>1, <2>2 DEF ReadInv
<1>3. Stop => ReadInv'
  <2> SUFFICES ASSUME Stop PROVE ReadInv'
    OBVIOUS
  <2>1. /\ lastRPR' = RPR /\ UNCHANGED <<okStart>> /\ okStart /\ call'.op = "stop"
    BY DEF Stop, Calling
  <2>2. RPR # Null /\ (OnTime => RPR \in Slots)
    BY <2>1, OnTimeInRing, Sizes DEF RInv, TypeOK
  <2> QED
    BY <2>1, <2>2 DEF ReadInv
<1>4. Stopped => ReadInv'
  BY <1>0 DEF Stopped, Return, ReadInv
<1>5. GetPosCurr \/ MeasureSpeed => ReadInv'
  <2> SUFFICES ASSUME GetPosCurr \/ MeasureSpeed PROVE ReadInv'
    OBVIOUS
  <2>1. UNCHANGED <<okStart, lastRPR, RPR, read>> /\ Returning
        /\ call' \in {Calling("mark", Unset, RPR, 0, 0), Calling("speed", Unset, 0, 2, 0)}
    BY DEF GetPosCurr, MeasureSpeed, kept, history, dma, CallOnly
  <2> QED
    BY <1>0, <2>1, ReadKept DEF Calling, Returning
<1>6. ASSUME NEW pin \in Pins, ReadAnalogPin(pin) \/ FindValueForPin(pin) PROVE ReadInv'
  <2>1. UNCHANGED <<okStart, lastRPR, RPR, read>> /\ Returning
        /\ call' \in {Calling("read", channel(pin), 0, 0, 0),
                      Calling("find", channel(pin), RPR, NumChEn, 0)}
    BY <1>6 DEF ReadAnalogPin, FindValueForPin, Reads, kept, history, dma, CallOnly
  <2> QED
    BY <1>0, <2>1, ReadKept DEF Calling, Returning
<1>7. ASSUME NEW pin \in Pins, NEW pSkip \in 0..Reach, NEW nrM \in 1..Reach,
             FindAvgForPinPos(pin, pSkip, nrM)
      PROVE  ReadInv'
  <2>1. UNCHANGED <<okStart, lastRPR, RPR, read>> /\ call.op = "mark"
    BY <1>7 DEF FindAvgForPinPos, kept, history, dma, CallOnly
  <2>2. call' = Idle \/ call'.op = "find"
    BY <1>7 DEF FindAvgForPinPos, Calling, Return
  <2> QED
    BY <1>0, <2>1, <2>2, ReadKept
<1>8. ASSUME NEW nrMeas \in NrMeas, getMeasures(nrMeas) PROVE ReadInv'
  <2>1. UNCHANGED <<okStart, lastRPR, RPR, read>> /\ Returning /\ call'.op = "measures"
    BY <1>8 DEF getMeasures, kept, history, dma, CallOnly, Calling
  <2> QED
    BY <1>0, <2>1, ReadKept DEF Returning
<1>9. ReadPointer => ReadInv'
  <2> SUFFICES ASSUME ReadPointer PROVE ReadInv'
    OBVIOUS
  <2>1. /\ UNCHANGED <<okStart, RPR, read>> /\ call.op = "read" /\ lastRPR' = RPR
        /\ RPR # lastRPR /\ call' = [call EXCEPT !.op = "entry", !.pos = Before(RPR)]
    BY DEF ReadPointer, history, dma, CallOnly
  <2>2. okStart /\ call'.op = "entry" /\ call'.pos = Before(RPR)
    BY <2>1 DEF RInv, MachineInv, CallInv, CallOK, Calls
  <2>3. RPR # Null
    BY Sizes DEF RInv, TypeOK
  <2>4. CASE OnTime
    <3>1. RPR \in Slots /\ lastRPR \in Slots
      BY <2>2, <2>4, OnTimeInRing DEF ReadInv
    <3>2. Before(RPR) \notin read
      BY <2>1, <2>2, <2>4, <3>1, BeforeIsStoredLast DEF ReadInv
    <3>3. \A i \in read : ~Since(i, RPR, RPR)
      BY <1>0, <3>1, Sizes DEF Since
    <3> QED
      BY <2>1, <2>2, <2>3, <3>1, <3>2, <3>3 DEF ReadInv
  <2> QED
    BY <2>1, <2>2, <2>3, <2>4 DEF ReadInv
<1>10. ReadEntry => ReadInv'
  <2> SUFFICES ASSUME ReadEntry PROVE ReadInv'
    OBVIOUS
  <2>1. UNCHANGED <<okStart, RPR, lastRPR>> /\ call.op = "entry"
    BY DEF ReadEntry, kept, dma, CallOnly
  <2>2. okStart
    BY <2>1 DEF RInv, MachineInv, CallInv
  <2>3. \/ call' = Idle /\ read' = {call.pos}
        \/ call' = [call EXCEPT !.op = "read"] /\ read' = read
    BY DEF ReadEntry, Return
  <2>4. call'.op # "entry"
    BY <1>0, <2>3 DEF RInv, CallOK, Calls
  <2>5. CASE OnTime /\ read' = {call.pos}
    <3>1. RPR \in Slots /\ lastRPR \in Slots /\ call.pos = Before(lastRPR)
      BY <2>1, <2>2, <2>5, OnTimeInRing DEF ReadInv
    <3>2. ~Since(call.pos, lastRPR, RPR)
      BY <3>1, BeforeIsStoredLast
    <3> QED
      BY <2>1, <2>2, <2>4, <2>5, <3>1, <3>2 DEF ReadInv
  <2>6. CASE ~OnTime \/ read' = read
    BY <2>1, <2>4, <2>6 DEF ReadInv
  <2> QED
    BY <2>3, <2>5, <2>6
<1>11. Started \/ FindEntry \/ SpeedInterrupt \/ MeasureEntry => ReadInv'
  <2> SUFFICES ASSUME Started \/ FindEntry \/ SpeedInterrupt \/ MeasureEntry PROVE ReadInv'
    OBVIOUS
  <2>1. UNCHANGED <<okStart, lastRPR, RPR, read>>
        /\ call.op \in {"start", "find", "sum", "speed", "measures"}
    BY DEF Started, FindEntry, SpeedInterrupt, MeasureEntry, CallOnly, dma, kept, history
  <2>2. call' = Idle \/ call'.op \in {"measures", "find", "sum", "speed"}
    BY <2>1 DEF Started, FindEntry, SpeedInterrupt, MeasureEntry, Return, RInv, CallOK, Calls
  <2> QED
    BY <1>0, <2>1, <2>2, ReadKept
<1>12. Convert => ReadInv'
  <2> SUFFICES ASSUME Convert PROVE ReadInv'
    OBVIOUS
  <2>1. UNCHANGED <<okStart, lastRPR, call>>
    BY DEF Convert, kept
  <2>2. CASE OnTime
    <3>1. Stores(RPR, RPR') /\ read' = read \ {RPR} /\ okStart
      BY <2>2, ConvertOnTime
    <3>2. lastRPR \in 0..BufSiz /\ lastRPR \in Slots
      BY <2>2, <3>1, Sizes DEF ReadInv
    <3>3. call.op # "stop" => \A i \in read' : ~Since(i, lastRPR, RPR')
      BY <1>0, <2>2, <3>1, <3>2, SinceStored DEF ReadInv
    <3> QED
      BY <2>1, <2>2, <3>1, <3>2, <3>3 DEF ReadInv
  <2>3. CASE ~OnTime
    BY <2>1, <2>3 DEF ReadInv
  <2> QED
    BY <2>2, <2>3
<1>13. adcHandler => ReadInv'
  <2> SUFFICES ASSUME adcHandler PROVE ReadInv'
    OBVIOUS
  <2>1. UNCHANGED <<okStart, lastRPR, read>> /\ okStart
    BY DEF adcHandler, kept, history, RInv, MachineInv, DmaInv
  <2>2. call'.op = call.op /\ call'.pos = call.pos
    BY DEF adcHandler, RInv, CallOK, Calls
  <2>3. CASE OnTime
    <3>1. RCR > 0 /\ RCR \in 0..BufSiz
      BY <2>1, <2>3, OnTimeInRing DEF RInv, TypeOK
    <3>2. RPR' = RPR
      BY <3>1 DEF adcHandler
    <3> QED
      BY <2>1, <2>2, <3>2 DEF ReadInv
  <2>4. CASE ~OnTime
    BY <2>1, <2>2, <2>4 DEF ReadInv
  <2> QED
    BY <2>3, <2>4
<1> QED
  BY <1>1, <1>2, <1>3, <1>4, <1>5, <1>6, <1>7, <1>8, <1>9, <1>10, <1>11, <1>12, <1>13, RingCases

\* ReadAnalogPin never returns the measure it returned before, as long as the end-of-buffer
\* interrupt is served within a lap (DueAdcFast.cpp:433-444).
THEOREM FreshReads == Spec => []ReadsAreFresh
<1>1. Init => ReadInv
  BY IdleFacts DEF Init, ReadInv
<1>2. RInv /\ ReadInv /\ [Next]_vars /\ RInv' => ReadInv'
  <2> SUFFICES ASSUME RInv, ReadInv, [Next]_vars, RInv' PROVE ReadInv'
    OBVIOUS
  <2>1. UNCHANGED vars => ReadInv'
    BY DEF vars, ReadInv, kept, dma, history
  <2> QED
    BY <2>1, ReadStep
<1>3. ReadInv => ReadsAreFresh
  BY DEF ReadInv, ReadsAreFresh
<1> QED
  BY <1>1, <1>2, <1>3, RingInvariance, PTL DEF Spec


-----------------------------------------------------------------------------
(* The entries filled.                                                       *)

\* The entries before a pointer are filled, and the last of the ring too once the pointer
\* is behind the one getMeasures kept.
FilledTo(pos) == \A i \in Slots : i < pos => Buffer[i] # Unset
LapFilled(pos) == MeasRPR # Null /\ pos < MeasRPR => Buffer[BufSiz - 1] # Unset

FilledInv ==
    /\ curRPR # Null => FilledTo(curRPR)
    /\ call.op = "stop" => FilledTo(lastRPR) /\ (OnTime => LapFilled(lastRPR))
    /\ OnTime /\ curRPR # Null => /\ curRPR \in Slots
                                  /\ MeasRPR \in Slots \cup {Null}
                                  /\ LapFilled(curRPR)

LEMMA TagsOfChannels ==
    ASSUME RInv, okStart
    PROVE  NextChannel \in 0..15 /\ NextChannel # Unset
BY NextChannelIn, Sizes

LEMMA FilledKept ==
    ASSUME FilledInv, UNCHANGED <<MeasRPR, Buffer>>, curRPR' = curRPR,
           call'.op # "stop"
    PROVE  FilledInv'
BY DEF FilledInv, FilledTo, LapFilled

LEMMA FilledStored ==
    ASSUME RInv, RInv', FilledInv, Convert
    PROVE  FilledInv'
<1>0. /\ okStart /\ okStart' /\ curRPR = RPR /\ curRPR' = RPR'
      /\ UNCHANGED <<MeasRPR, lastRPR, call>>
  BY DEF Convert, curRPR, kept
<1>1. RPR \in 0..BufSiz /\ RPR' \in 0..BufSiz /\ RPR # Null /\ RPR' # Null
      /\ Buffer \in [Slots -> 0..15] /\ RCR \in 0..BufSiz
      /\ MeasRPR \in 0..Null /\ lastRPR \in 0..Null
  BY Sizes DEF RInv, TypeOK
<1>2. CASE RCR = 0
  <2>1. UNCHANGED <<Buffer, RPR>>
    BY <1>2 DEF Convert
  <2> QED
    BY <1>0, <1>1, <2>1 DEF FilledInv, FilledTo, LapFilled
<1>3. CASE RCR # 0
  <2>1. RPR + RCR = BufSiz /\ RCR > 0
    BY <1>1, <1>3 DEF RInv, MachineInv, DmaInv
  <2>2. RPR \in Slots /\ (RCR = 1 => RPR = BufSiz - 1)
    BY <1>1, <2>1, Sizes
  <2>3. Buffer' = [Buffer EXCEPT ![RPR] = NextChannel] /\ (RCR > 1 => RPR' = RPR + 1)
        /\ (~(RCR > 1) => RPR' = (IF RNCR > 0 THEN 0 ELSE RPR + 1))
    BY <1>3 DEF Convert
  <2>4. RPR' = RPR + 1 \/ (RPR = BufSiz - 1 /\ RPR' = 0)
    <3>1. RCR > 1 \/ RCR = 1
      BY <1>1, <2>1
    <3> QED
      BY <2>2, <2>3, <3>1
  <2>5. \A i \in Slots : (Buffer[i] # Unset => Buffer'[i] # Unset) /\ (i = RPR => Buffer'[i] # Unset)
    BY <1>0, <1>1, <2>2, <2>3, TagsOfChannels
  <2>6. FilledTo(RPR)
    BY <1>0, <1>1 DEF FilledInv
  <2>7. \A i \in Slots : i < RPR' => i = RPR \/ i < RPR
    BY <2>2, <2>4, Sizes
  <2>8. \A i \in Slots : i < RPR' => Buffer'[i] # Unset
    BY <2>5, <2>6, <2>7 DEF FilledTo
  <2>9. BufSiz - 1 \in Slots
    BY Sizes
  <2>10. ASSUME OnTime
         PROVE  /\ RPR' \in Slots /\ MeasRPR \in Slots \cup {Null}
                /\ MeasRPR # Null /\ RPR' < MeasRPR => Buffer'[BufSiz - 1] # Unset
    <3>1. RCR' > 0 /\ RPR' + RCR' = BufSiz /\ RCR' \in 0..BufSiz
      BY <1>0, <2>10 DEF RInv, MachineInv, DmaInv, TypeOK
    <3>2. RPR' \in Slots
      BY <1>1, <3>1, RoomLeft
    <3>3. MeasRPR \in Slots \cup {Null} /\ LapFilled(RPR)
      BY <1>0, <1>1, <2>10 DEF FilledInv
    <3>4. RPR' < MeasRPR /\ MeasRPR # Null => RPR < MeasRPR \/ RPR = BufSiz - 1
      BY <1>1, <2>4, Sizes
    <3> QED
      BY <2>5, <2>9, <3>2, <3>3, <3>4 DEF LapFilled
  <2>11. ASSUME call.op = "stop"
         PROVE  /\ \A i \in Slots : i < lastRPR => Buffer'[i] # Unset
                /\ OnTime /\ MeasRPR # Null /\ lastRPR < MeasRPR => Buffer'[BufSiz - 1] # Unset
    BY <2>5, <2>9, <2>11 DEF FilledInv, FilledTo, LapFilled
  <2> QED
    BY <1>0, <2>8, <2>10, <2>11 DEF FilledInv, FilledTo, LapFilled
<1> QED
  BY <1>2, <1>3

LEMMA FilledStep ==
    ASSUME RInv, ReadInv, FilledInv, Next, RInv'
    PROVE  FilledInv'
<1>0. Idle.op = "none" /\ RPR # Null /\ (okStart => RPR = curRPR)
  BY IdleFacts, Sizes DEF RInv, TypeOK, curRPR
<1>1. Setup => FilledInv'
  BY <1>0, FilledKept DEF Setup, Returning, kept, history, dma, curRPR
<1>2. Starting => FilledInv'
  <2> SUFFICES ASSUME Starting PROVE FilledInv'
    OBVIOUS
  <2>1. okStart' /\ RPR' = 0 /\ MeasRPR' = Null /\ call'.op = "start" /\ curRPR' = 0
    BY DEF Starting, gostart, Calling, curRPR
  <2>2. 0 \in Slots /\ \A i \in Slots : ~(i < 0)
    BY Sizes
  <2> QED
    BY <2>1, <2>2 DEF FilledInv, FilledTo, LapFilled
<1>3. Stop => FilledInv'
  <2> SUFFICES ASSUME Stop PROVE FilledInv'
    OBVIOUS
  <2>1. /\ lastRPR' = RPR /\ UNCHANGED <<Buffer, MeasRPR>> /\ okStart
        /\ curRPR = RPR /\ curRPR' = RPR
    BY DEF Stop, dma, curRPR
  <2> QED
    BY <1>0, <2>1 DEF FilledInv, FilledTo, LapFilled
<1>4. Stopped => FilledInv'
  <2> SUFFICES ASSUME Stopped PROVE FilledInv'
    OBVIOUS
  <2>1. UNCHANGED <<Buffer, MeasRPR, lastRPR>> /\ call' = Idle /\ curRPR' = lastRPR
        /\ call.op = "stop"
    BY DEF Stopped, kept, Return, curRPR
  <2>2. okStart
    BY <2>1 DEF RInv, MachineInv, CallInv
  <2>3. OnTime => lastRPR \in Slots /\ MeasRPR \in Slots \cup {Null}
    BY <1>0, <2>2 DEF ReadInv, FilledInv
  <2> QED
    BY <1>0, <2>1, <2>3 DEF FilledInv, FilledTo, LapFilled
<1>5. GetPosCurr \/ MeasureSpeed => FilledInv'
  <2> SUFFICES ASSUME GetPosCurr \/ MeasureSpeed PROVE FilledInv'
    OBVIOUS
  <2>1. UNCHANGED <<MeasRPR, Buffer>> /\ curRPR' = curRPR
        /\ call' \in {Calling("mark", Unset, RPR, 0, 0), Calling("speed", Unset, 0, 2, 0)}
    BY DEF GetPosCurr, MeasureSpeed, kept, history, dma, CallOnly, curRPR
  <2> QED
    BY <2>1, FilledKept DEF Calling
<1>6. ASSUME NEW pin \in Pins, ReadAnalogPin(pin) \/ FindValueForPin(pin) PROVE FilledInv'
  <2>1. UNCHANGED <<MeasRPR, Buffer>> /\ curRPR' = curRPR
        /\ call' \in {Calling("read", channel(pin), 0, 0, 0),
                      Calling("find", channel(pin), RPR, NumChEn, 0)}
    BY <1>6 DEF ReadAnalogPin, FindValueForPin, Reads, kept, history, dma, CallOnly, curRPR
  <2> QED
    BY <2>1, FilledKept DEF Calling
<1>7. ASSUME NEW pin \in Pins, NEW pSkip \in 0..Reach, NEW nrM \in 1..Reach,
             FindAvgForPinPos(pin, pSkip, nrM)
      PROVE  FilledInv'
  <2>1. UNCHANGED <<MeasRPR, Buffer>> /\ curRPR' = curRPR /\ (call' = Idle \/ call'.op = "find")
    BY <1>7 DEF FindAvgForPinPos, kept, history, dma, CallOnly, curRPR, Calling, Return
  <2> QED
    BY <1>0, <2>1, FilledKept
<1>8. ASSUME NEW nrMeas \in NrMeas, getMeasures(nrMeas) PROVE FilledInv'
  <2>1. UNCHANGED <<Buffer>> /\ curRPR' = curRPR /\ MeasRPR' = curRPR /\ curRPR # Null
        /\ call'.op = "measures"
    BY <1>8 DEF getMeasures, history, dma, CallOnly, Calling, curRPR
  <2>2. OnTime => ~(curRPR < curRPR)
    BY <2>1, Sizes DEF FilledInv
  <2> QED
    BY <2>1, <2>2 DEF FilledInv, FilledTo, LapFilled
<1>9. ReadPointer => FilledInv'
  <2> SUFFICES ASSUME ReadPointer PROVE FilledInv'
    OBVIOUS
  <2>1. UNCHANGED <<okStart, RPR, MeasRPR, Buffer>> /\ call.op = "read"
        /\ call' = [call EXCEPT !.op = "entry", !.pos = Before(RPR)]
    BY DEF ReadPointer, history, dma, CallOnly
  <2>2. okStart /\ call'.op = "entry"
    BY <2>1 DEF RInv, MachineInv, CallInv, CallOK, Calls
  <2> QED
    BY <2>1, <2>2, FilledKept DEF curRPR
<1>10. Started \/ FindEntry \/ SpeedInterrupt \/ MeasureEntry \/ ReadEntry => FilledInv'
  <2> SUFFICES ASSUME Started \/ FindEntry \/ SpeedInterrupt \/ MeasureEntry \/ ReadEntry
               PROVE  FilledInv'
    OBVIOUS
  <2>1. UNCHANGED <<MeasRPR, Buffer>> /\ curRPR' = curRPR
    BY DEF Started, FindEntry, SpeedInterrupt, MeasureEntry, ReadEntry, CallOnly, dma, kept, history,
       curRPR
  <2>2. call' = Idle \/ call'.op \in {"measures", "find", "sum", "speed", "read"}
    BY DEF Started, FindEntry, SpeedInterrupt, MeasureEntry, ReadEntry, Return, RInv, CallOK, Calls
  <2> QED
    BY <1>0, <2>1, <2>2, FilledKept
<1>11. adcHandler => FilledInv'
  <2> SUFFICES ASSUME adcHandler PROVE FilledInv'
    OBVIOUS
  <2>1. UNCHANGED <<okStart, lastRPR, MeasRPR, Buffer>> /\ okStart
    BY DEF adcHandler, kept, history, RInv, MachineInv, DmaInv
  <2>2. call'.op = call.op
    BY DEF adcHandler, RInv, CallOK, Calls
  <2>3. RPR' = RPR \/ (RPR' = 0 /\ ~OnTime)
    BY <2>1, OnTimeInRing DEF adcHandler
  <2>4. \A i \in Slots : ~(i < 0)
    BY Sizes
  <2>5. curRPR = RPR /\ curRPR' = RPR'
    BY <2>1 DEF curRPR
  <2> QED
    BY <1>0, <2>1, <2>2, <2>3, <2>4, <2>5 DEF FilledInv, FilledTo, LapFilled
<1> QED
  BY <1>1, <1>2, <1>3, <1>4, <1>5, <1>6, <1>7, <1>8, <1>9, <1>10, <1>11, FilledStored, RingCases

LEMMA FilledAgrees ==
    ASSUME RInv, FilledInv
    PROVE  IsMeasuresAgrees
<1> SUFFICES ASSUME OnTime, curRPR # Null
             PROVE  isMeasures <=> /\ curRPR # MeasRPR
                                   /\ Before(curRPR) # lastTaken
                                   /\ Buffer[Before(curRPR)] # Unset
  BY DEF IsMeasuresAgrees
<1>1. curRPR \in Slots /\ MeasRPR \in Slots \cup {Null} /\ FilledTo(curRPR) /\ LapFilled(curRPR)
      /\ Null \notin Slots
  BY Sizes DEF FilledInv
<1>2. Before(curRPR) \in Slots /\ (curRPR # 0 => Before(curRPR) < curRPR)
      /\ (curRPR = 0 => Before(curRPR) = BufSiz - 1)
  BY <1>1, Sizes DEF Before
<1>3. curRPR # 0 => Buffer[Before(curRPR)] # Unset
  BY <1>1, <1>2 DEF FilledTo
<1>4. CASE MeasRPR = Null
  BY <1>1, <1>2, <1>3, <1>4 DEF isMeasures, lastTaken
<1>5. CASE MeasRPR # Null
  <2>1. MeasRPR \in Slots /\ lastTaken = Before(MeasRPR)
    BY <1>1, <1>5 DEF lastTaken
  <2>2. curRPR # MeasRPR => Before(curRPR) # Before(MeasRPR)
    BY <1>1, <2>1, Sizes DEF Before
  <2>3. curRPR # MeasRPR /\ curRPR = 0 => Buffer[Before(curRPR)] # Unset
    <3>1. curRPR # MeasRPR /\ curRPR = 0 => curRPR < MeasRPR
      BY <2>1, Sizes
    <3> QED
      BY <1>1, <1>2, <1>5, <3>1 DEF LapFilled
  <2> QED
    BY <1>3, <1>5, <2>1, <2>2, <2>3 DEF isMeasures
<1> QED
  BY <1>4, <1>5

\* isMeasures promises what getMeasures would return, at the start of the ring and with no
\* call before, too, as long as the end-of-buffer interrupt is served within a lap
\* (DueAdcFast.cpp:617-678).
THEOREM MeasuresPromised == Spec => []IsMeasuresAgrees
<1>1. Init => FilledInv
  BY IdleFacts DEF Init, FilledInv, FilledTo, LapFilled, curRPR
<1>2. Init => ReadInv
  BY IdleFacts DEF Init, ReadInv
<1>3. RInv /\ ReadInv /\ FilledInv /\ [Next]_vars /\ RInv' => ReadInv' /\ FilledInv'
  <2> SUFFICES ASSUME RInv, ReadInv, FilledInv, [Next]_vars, RInv' PROVE ReadInv' /\ FilledInv'
    OBVIOUS
  <2>1. UNCHANGED vars => ReadInv' /\ FilledInv'
    BY DEF vars, ReadInv, FilledInv, FilledTo, LapFilled, kept, dma, history, curRPR
  <2> QED
    BY <2>1, ReadStep, FilledStep
<1>4. RInv /\ FilledInv => IsMeasuresAgrees
  BY FilledAgrees
<1> QED
  BY <1>1, <1>2, <1>3, <1>4, RingInvariance, PTL DEF Spec


-----------------------------------------------------------------------------
(* The channels in the ring.                                                 *)

\* A channel's place in the converter's round, and the place after another.
Place(S, ch) == Cardinality({c \in S : c < ch})
Following(n, r) == IF r + 1 = n THEN 0 ELSE r + 1
Rank(ch) == Place(enabcha, ch)
Channels == Cardinality(enabcha)
Onward(r) == Following(Channels, r)

\* How many measures one place in the round comes after another.
Behind(r, q) == IF q <= r THEN r - q ELSE (Channels + r) - q

\* The whole ring has been filled.
Lapped == Buffer[BufSiz - 1] # Unset

RoundRobin ==
    /\ \A i \in Slots : Buffer[i] \in enabcha \cup {Unset}
    /\ \A i \in Slots : Buffer[i] # Unset <=> (i < RPR \/ Lapped)
    /\ converted = Unset <=> (RPR = 0 /\ ~Lapped)
    /\ converted # Unset => converted \in enabcha /\ Buffer[Before(RPR)] = converted
    /\ ~Lapped => \A i \in Slots : i < RPR /\ i < Channels => Rank(Buffer[i]) = i
    /\ \A i \in Slots \ {RPR} :
         Buffer[i] # Unset /\ Buffer[Before(i)] # Unset
            => Rank(Buffer[i]) = Onward(Rank(Buffer[Before(i)]))
    /\ \A i \in Slots \ {RPR} :
         Room(i, RPR) >= Channels /\ Buffer[Back(i, Channels)] # Unset
            => Buffer[i] = Buffer[Back(i, Channels)]

\* As long as every end of a buffer is served in time, the ring holds round after round.
RingInv == OnTime /\ okStart => RoundRobin

LEMMA ChannelFacts ==
    ASSUME RInv, okStart
    PROVE  /\ enabcha \subseteq 0..13 /\ IsFiniteSet(enabcha) /\ Cardinality(enabcha) = Channels
           /\ Channels \in Nat /\ Channels > 0 /\ Channels <= Reach /\ Channels <= BufSiz
           /\ Unset \notin enabcha
<1>1. enabcha \subseteq 0..13
  BY NextChannelIn
<1>2. IsFiniteSet(enabcha)
  BY <1>1, FS_Interval, FS_Subset, 0 \in Int, 13 \in Int
<1>3. Cardinality(enabcha) = Channels
  BY DEF Channels
<1>4. Channels \in 0..Cardinality(Pins) /\ Channels > 0
  <2>1. enabcha # {} /\ enabcha \subseteq {channel(p) : p \in Pins}
    BY DEF RInv, TypeOK, MachineInv, DmaInv
  <2>2. Cardinality(enabcha) # 0
    BY <1>2, <2>1, FS_EmptySet
  <2> QED
    BY <2>1, <2>2, ChannelCount, Sizes DEF Channels
<1>5. Channels \in Nat /\ Channels <= Reach /\ Channels <= BufSiz
  BY <1>4, Sizes
<1> QED
  BY <1>1, <1>2, <1>3, <1>4, <1>5, Sizes

\* The places of n channels are 0 to n - 1, each channel's its own.
LEMMA RankInRound ==
    ASSUME RInv, okStart, NEW ch \in enabcha
    PROVE  Rank(ch) \in Nat /\ Rank(ch) < Channels
<1> DEFINE S == {c \in enabcha : c < ch}
<1>1. S \subseteq enabcha /\ ch \notin S /\ ch \in Nat
  BY ChannelFacts
<1>2. IsFiniteSet(S) /\ Cardinality(S) <= Cardinality(enabcha)
      /\ (Cardinality(enabcha) = Cardinality(S) => S = enabcha)
  BY <1>1, ChannelFacts, FS_Subset
<1>3. Cardinality(S) \in Nat /\ Cardinality(S) # Channels
  BY <1>1, <1>2, ChannelFacts, FS_CardinalityType
<1>4. Cardinality(S) < Channels
  BY <1>2, <1>3, ChannelFacts
<1> QED
  BY <1>3, <1>4 DEF Rank, Place

LEMMA RankAbove ==
    ASSUME RInv, okStart, NEW ch \in enabcha, NEW d \in enabcha,
           d > ch, \A c \in enabcha : c > ch => d <= c
    PROVE  Rank(d) = Rank(ch) + 1
<1> DEFINE S == {c \in enabcha : c < ch}
<1>1. S \subseteq enabcha /\ ch \notin S /\ enabcha \subseteq Nat
  BY ChannelFacts
<1>2. {c \in enabcha : c < d} = S \cup {ch}
  <2>1. ASSUME NEW c \in enabcha
        PROVE  c < d <=> c < ch \/ c = ch
    <3>1. c \in Nat /\ d \in Nat /\ ch \in Nat /\ (c > ch => d <= c)
      BY <1>1
    <3> QED
      BY <3>1
  <2> QED
    BY <2>1
<1>3. IsFiniteSet(S)
  BY <1>1, ChannelFacts, FS_Subset
<1>4. Cardinality(S \cup {ch}) = Cardinality(S) + 1
  BY <1>1, <1>3, FS_AddElement
<1> QED
  BY <1>2, <1>4 DEF Rank, Place

LEMMA RankOfLast ==
    ASSUME RInv, okStart, NEW ch \in enabcha, \A c \in enabcha : ~(c > ch)
    PROVE  Rank(ch) + 1 = Channels
<1> DEFINE S == {c \in enabcha : c < ch}
<1>1. S \subseteq enabcha /\ ch \notin S /\ enabcha \subseteq Nat
  BY ChannelFacts
<1>2. enabcha = S \cup {ch}
  <2>1. ASSUME NEW c \in enabcha
        PROVE  c < ch \/ c = ch
    <3>1. c \in Nat /\ ch \in Nat /\ ~(c > ch)
      BY <1>1
    <3> QED
      BY <3>1
  <2> QED
    BY <2>1
<1>3. IsFiniteSet(S)
  BY <1>1, ChannelFacts, FS_Subset
<1>4. Cardinality(S \cup {ch}) = Cardinality(S) + 1
  BY <1>1, <1>3, FS_AddElement
<1> QED
  BY <1>2, <1>4, ChannelFacts DEF Rank, Place

LEMMA RankOfFirst ==
    ASSUME RInv, okStart, NEW ch \in enabcha, \A c \in enabcha : ch <= c
    PROVE  Rank(ch) = 0
<1>1. enabcha \subseteq Nat
  BY ChannelFacts
<1>2. {c \in enabcha : c < ch} = {}
  <2>1. ASSUME NEW c \in enabcha
        PROVE  ~(c < ch)
    <3>1. c \in Nat /\ ch \in Nat /\ ch <= c
      BY <1>1
    <3> QED
      BY <3>1
  <2> QED
    BY <2>1
<1> QED
  BY <1>2, FS_EmptySet DEF Rank, Place

LEMMA RankGrows ==
    ASSUME RInv, okStart, NEW ch \in enabcha, NEW d \in enabcha, ch < d
    PROVE  Rank(ch) < Rank(d)
<1> DEFINE S == {c \in enabcha : c < ch}
           T == {c \in enabcha : c < d}
<1>1. enabcha \subseteq Nat /\ T \subseteq enabcha /\ ch \in T /\ ch \notin S
  BY ChannelFacts
<1>2. S \subseteq T /\ S # T
  <2>1. ASSUME NEW c \in enabcha, c < ch
        PROVE  c < d
    <3>1. c \in Nat /\ ch \in Nat /\ d \in Nat
      BY <1>1
    <3> QED
      BY <2>1, <3>1
  <2>2. S \subseteq T
    BY <2>1
  <2> QED
    BY <1>1, <2>2
<1>3. IsFiniteSet(T)
  BY <1>1, ChannelFacts, FS_Subset
<1>4. IsFiniteSet(S) /\ Cardinality(S) <= Cardinality(T) /\ Cardinality(T) # Cardinality(S)
  BY <1>2, <1>3, FS_Subset
<1>5. Cardinality(S) \in Nat /\ Cardinality(T) \in Nat
  BY <1>3, <1>4, FS_CardinalityType
<1>6. Cardinality(S) < Cardinality(T)
  BY <1>4, <1>5
<1> QED
  BY <1>6 DEF Rank, Place

LEMMA RankInjective ==
    ASSUME RInv, okStart, NEW ch \in enabcha, NEW d \in enabcha, Rank(ch) = Rank(d)
    PROVE  ch = d
<1>1. ch \in Nat /\ d \in Nat
  BY ChannelFacts
<1>2. ~(ch < d) /\ ~(d < ch)
  BY RankGrows, RankInRound
<1> QED
  BY <1>1, <1>2

LEMMA NextInRound ==
    ASSUME RInv, okStart
    PROVE  /\ NextChannel \in enabcha
           /\ converted = Unset => Rank(NextChannel) = 0
           /\ converted \in enabcha => Rank(NextChannel) = Onward(Rank(converted))
<1> DEFINE above == {ch \in enabcha : converted = Unset \/ ch > converted}
<1>0. enabcha \subseteq Nat /\ enabcha # {} /\ above \subseteq enabcha /\ Unset \notin enabcha
  BY ChannelFacts DEF RInv, MachineInv, DmaInv
<1>1. NextChannel = Min(IF above # {} THEN above ELSE enabcha)
  BY DEF NextChannel
<1>2. converted = Unset => above = enabcha
  OBVIOUS
<1>3. converted \in enabcha => above = {ch \in enabcha : ch > converted}
  BY <1>0
<1> HIDE DEF above
<1>4. above = {} => NextChannel \in enabcha /\ \A c \in enabcha : NextChannel <= c
  BY <1>0, <1>1, MinIn
<1>5. above # {} => NextChannel \in above /\ \A c \in above : NextChannel <= c
  BY <1>0, <1>1, MinIn
<1>6. NextChannel \in enabcha
  BY <1>0, <1>4, <1>5
<1>7. ASSUME converted = Unset
      PROVE  Rank(NextChannel) = 0
  BY <1>0, <1>2, <1>5, <1>6, <1>7, RankOfFirst
<1>8. ASSUME converted \in enabcha
      PROVE  Rank(NextChannel) = Onward(Rank(converted))
  <2>1. Rank(converted) \in Nat /\ Rank(NextChannel) \in Nat /\ Rank(NextChannel) < Channels
    BY <1>6, <1>8, RankInRound
  <2>2. CASE above = {}
    <3>1. Rank(NextChannel) = 0
      BY <1>4, <1>6, <2>2, RankOfFirst
    <3>2. \A c \in enabcha : ~(c > converted)
      BY <1>3, <1>8, <2>2
    <3>3. Rank(converted) + 1 = Channels
      BY <1>8, <3>2, RankOfLast
    <3> QED
      BY <3>1, <3>3 DEF Onward, Following
  <2>3. CASE above # {}
    <3>1. NextChannel > converted /\ \A c \in enabcha : c > converted => NextChannel <= c
      BY <1>3, <1>5, <1>8, <2>3
    <3>2. Rank(NextChannel) = Rank(converted) + 1
      BY <1>6, <1>8, <3>1, RankAbove
    <3>3. Rank(converted) + 1 # Channels
      BY <2>1, <3>2, ChannelFacts
    <3> QED
      BY <3>2, <3>3 DEF Onward, Following
  <2> QED
    BY <2>2, <2>3
<1> QED
  BY <1>6, <1>7, <1>8


LEMMA BackIs ==
    ASSUME NEW pos \in Slots, NEW k \in Nat, k > 0, k <= BufSiz
    PROVE  Back(pos, k) = (IF k <= pos THEN pos - k ELSE (BufSiz + pos) - k)
<1>1. pos \in Nat /\ pos < BufSiz /\ BufSiz \in Nat \ {0} /\ pos + (BufSiz - k) \in Nat
  BY Sizes
<1>2. CASE k <= pos
  <2>1. pos - k \in Nat /\ pos - k < BufSiz /\ pos + (BufSiz - k) = (pos - k) + BufSiz
    BY <1>1, <1>2
  <2>2. ((pos - k) + BufSiz) % BufSiz = pos - k
    BY <1>1, <2>1
  <2>3. Back(pos, k) = pos - k
    BY <2>1, <2>2 DEF Back
  <2> QED
    BY <1>2, <2>3
<1>3. CASE ~(k <= pos)
  <2>1. pos + (BufSiz - k) < BufSiz /\ pos + (BufSiz - k) = (BufSiz + pos) - k
    BY <1>1, <1>3
  <2>2. (pos + (BufSiz - k)) % BufSiz = pos + (BufSiz - k)
    BY <1>1, <2>1
  <2>3. Back(pos, k) = (BufSiz + pos) - k
    BY <2>1, <2>2 DEF Back
  <2> QED
    BY <1>3, <2>3
<1> QED
  BY <1>2, <1>3

LEMMA BackRoom ==
    ASSUME NEW pos \in Slots, NEW c \in Slots, NEW k \in Nat, k > 0, Room(pos, c) > k
    PROVE  Back(pos, k) \in Slots /\ Back(pos, k) # c /\ Room(Back(pos, k), c) = Room(pos, c) - k
<1>1. Room(pos, c) \in Nat /\ Room(pos, c) <= BufSiz
  BY Sizes DEF Room
<1>2. k <= BufSiz
  BY <1>1, Sizes
<1> DEFINE b == (IF k <= pos THEN pos - k ELSE (BufSiz + pos) - k)
<1>3. Back(pos, k) = b
  BY <1>2, BackIs
<1>4. b \in Slots /\ b # c /\ Room(b, c) = Room(pos, c) - k
  BY <1>2, Sizes DEF Room
<1> QED
  BY <1>3, <1>4

LEMMA BeforeOfBack ==
    ASSUME NEW pos \in Slots, NEW k \in Nat, k > 0, k <= BufSiz
    PROVE  Before(Back(pos, k)) = Back(Before(pos), k)
<1>1. Before(pos) \in Slots
  BY BeforeIn, Sizes
<1>2. Back(pos, k) = (IF k <= pos THEN pos - k ELSE (BufSiz + pos) - k)
  BY BackIs
<1>3. Back(Before(pos), k) = (IF k <= Before(pos) THEN Before(pos) - k ELSE (BufSiz + Before(pos)) - k)
  BY <1>1, BackIs
<1> QED
  BY <1>2, <1>3, Sizes DEF Before

LEMMA BackElsewhere ==
    ASSUME NEW pos \in Slots, NEW k \in Nat, k > 0, k < BufSiz
    PROVE  /\ Back(pos, k) \in Slots /\ Back(pos, k) # pos
           /\ Back(pos, k) = 0 /\ pos > 0 => pos = k
           /\ Back(pos, k) < pos => Back(pos, k) = pos - k
<1>0. k <= BufSiz
  BY Sizes
<1>1. Back(pos, k) = (IF k <= pos THEN pos - k ELSE (BufSiz + pos) - k)
  BY <1>0, BackIs
<1> QED
  BY <1>1, Sizes

LEMMA StoreWays ==
    ASSUME NEW c \in Slots, NEW d \in Slots, Stores(c, d)
    PROVE  /\ Before(d) = c
           /\ c # d => Room(c, d) = BufSiz - 1 /\ BufSiz > 1 /\ Before(c) # c /\ Room(Before(c), c) = BufSiz - 1
           /\ \A i \in Slots : i # c /\ i # d => Before(i) # c /\ Room(i, c) = Room(i, d) + 1
<1>1. Before(d) = c
  BY Sizes DEF Stores, Before
<1>2. c # d => Room(c, d) = BufSiz - 1 /\ BufSiz > 1
  BY Sizes DEF Stores, Room
<1>3. BufSiz > 1 => Before(c) # c /\ Room(Before(c), c) = BufSiz - 1
  BY Sizes DEF Before, Room
<1>4. ASSUME NEW i \in Slots, i # c, i # d
      PROVE  Before(i) # c /\ Room(i, c) = Room(i, d) + 1
  <2>1. Before(i) # c
    BY <1>4, Sizes DEF Stores, Before
  <2>2. Room(i, c) = Room(i, d) + 1
    BY <1>4, Sizes DEF Stores, Room
  <2> QED
    BY <2>1, <2>2
<1> QED
  BY <1>1, <1>2, <1>3, <1>4


\* What a measure stored finds in the ring.
LEMMA ConvertFacts ==
    ASSUME RInv, RInv', OnTime, Convert
    PROVE  /\ RPR \in Slots /\ RPR' \in Slots /\ Stores(RPR, RPR') /\ okStart
           /\ UNCHANGED <<enabcha, NumChEn, Channels, okStart>>
           /\ Buffer \in [Slots -> 0..15] /\ Buffer'[RPR] = NextChannel
           /\ \A i \in Slots : i # RPR => Buffer'[i] = Buffer[i]
           /\ converted' = NextChannel /\ NextChannel # Unset
<1>1. /\ Stores(RPR, RPR') /\ okStart
      /\ Buffer' = [Buffer EXCEPT ![RPR] = NextChannel] /\ converted' = NextChannel
  BY ConvertOnTime
<1>2. UNCHANGED <<enabcha, NumChEn, Channels, okStart>>
  BY DEF Convert, pins, Channels
<1>3. /\ RCR' > 0 /\ RPR' + RCR' = BufSiz /\ RPR' \in 0..BufSiz /\ RCR' \in 0..BufSiz
      /\ Buffer \in [Slots -> 0..15]
  BY <1>1, <1>2 DEF RInv, MachineInv, DmaInv, TypeOK
<1>4. RPR' \in Slots
  BY <1>3, RoomLeft
<1>5. RPR \in Slots
  BY <1>1 DEF Stores
<1>6. NextChannel # Unset
  BY <1>1, TagsOfChannels
<1> QED
  BY <1>1, <1>2, <1>3, <1>4, <1>5, <1>6

LEMMA RingStored ==
    ASSUME RInv, RInv', RingInv, Convert
    PROVE  RingInv'
<1> SUFFICES ASSUME OnTime, okStart' PROVE RoundRobin'
  BY DEF RingInv
<1>0. OnTime /\ okStart /\ RoundRobin
  BY DEF RingInv, Convert
<1> DEFINE c == RPR
           d == RPR'
           n == Channels
           next == NextChannel
<1>1. /\ c \in Slots /\ d \in Slots /\ Stores(c, d)
      /\ UNCHANGED <<enabcha, Channels, okStart>>
      /\ Buffer \in [Slots -> 0..15] /\ Buffer'[c] = next
      /\ \A i \in Slots : i # c => Buffer'[i] = Buffer[i]
      /\ converted' = next /\ next # Unset
  BY <1>0, ConvertFacts
<1>2. /\ Before(d) = c
      /\ c # d => /\ Room(c, d) = BufSiz - 1 /\ BufSiz > 1
                  /\ Before(c) # c /\ Room(Before(c), c) = BufSiz - 1
      /\ \A i \in Slots : i # c /\ i # d => Before(i) # c /\ Room(i, c) = Room(i, d) + 1
  BY <1>1, StoreWays
<1>3. /\ next \in enabcha
      /\ converted = Unset => Rank(next) = 0
      /\ converted \in enabcha => Rank(next) = Onward(Rank(converted))
  BY <1>0, NextInRound
<1>4. n \in Nat /\ n > 0 /\ n <= BufSiz /\ BufSiz \in Nat /\ BufSiz - 1 \in Slots /\ BufSiz > 0
      /\ \A i \in Slots : i \in Nat /\ i < BufSiz /\ Before(i) \in Slots
  BY <1>0, ChannelFacts, BeforeIn, Sizes
<1>5. \A i \in Slots : Buffer'[i] \in enabcha \cup {Unset}
  BY <1>0, <1>1, <1>3 DEF RoundRobin
<1>6. d = c + 1 \/ (c = BufSiz - 1 /\ d = 0)
  BY <1>1 DEF Stores
<1>7. Lapped' <=> Lapped \/ c = BufSiz - 1
  BY <1>1, <1>4 DEF Lapped
<1>8. \A i \in Slots : Buffer'[i] # Unset <=> (i < d \/ Lapped')
  <2> SUFFICES ASSUME NEW i \in Slots PROVE Buffer'[i] # Unset <=> (i < d \/ Lapped')
    OBVIOUS
  <2>1. Buffer[i] # Unset <=> (i < c \/ Lapped)
    BY <1>0 DEF RoundRobin
  <2>2. c = BufSiz - 1 => i = c \/ i < c
    BY <1>1, <1>4
  <2>3. ASSUME c # BufSiz - 1
        PROVE  i < d <=> i = c \/ i < c
    <3>1. d = c + 1 /\ i \in Nat /\ c \in Nat
      BY <1>1, <1>4, <1>6, <2>3
    <3> HIDE DEF c, d
    <3> QED
      BY <3>1
  <2> QED
    BY <1>1, <1>7, <2>1, <2>2, <2>3
<1>9. converted' = Unset <=> (d = 0 /\ ~Lapped')
  <2>1. d = 0 => c = BufSiz - 1
    BY <1>1, <1>4, <1>6
  <2> QED
    BY <1>1, <1>7, <2>1
<1>10. converted' # Unset => converted' \in enabcha /\ Buffer'[Before(d)] = converted'
  BY <1>1, <1>2, <1>3
<1>11. ASSUME ~Lapped', NEW i \in Slots, i < d, i < n
       PROVE  Rank(Buffer'[i]) = i
  <2>1. ~Lapped /\ d = c + 1
    BY <1>6, <1>7, <1>11
  <2>2. CASE i # c
    <3>1. i < c
      BY <1>1, <1>4, <1>11, <2>1, <2>2
    <3> QED
      BY <1>0, <1>1, <1>11, <2>1, <2>2, <3>1 DEF RoundRobin
  <2>3. CASE i = c /\ c = 0
    <3>1. converted = Unset
      BY <1>0, <2>1, <2>3 DEF RoundRobin
    <3> QED
      BY <1>1, <1>3, <2>3, <3>1
  <2>4. CASE i = c /\ c # 0
    <3>1. Before(c) = c - 1 /\ c - 1 \in Slots /\ c - 1 < c /\ c - 1 < n
      BY <1>1, <1>4, <1>11, <2>4, Sizes DEF Before
    <3>2. converted # Unset /\ converted \in enabcha /\ Buffer[c - 1] = converted
      BY <1>0, <2>1, <2>4, <3>1 DEF RoundRobin
    <3>3. Rank(converted) = c - 1
      BY <1>0, <2>1, <3>1, <3>2 DEF RoundRobin
    <3>4. Onward(c - 1) = c
      BY <1>1, <1>4, <1>11, <2>4 DEF Onward, Following
    <3> QED
      BY <1>1, <1>3, <2>4, <3>2, <3>3, <3>4
  <2> QED
    BY <2>2, <2>3, <2>4
<1>12. ASSUME NEW i \in Slots, i # d, Buffer'[i] # Unset, Buffer'[Before(i)] # Unset
       PROVE  Rank(Buffer'[i]) = Onward(Rank(Buffer'[Before(i)]))
  <2>1. CASE i = c
    <3>1. Before(c) # c /\ Before(c) \in Slots
      BY <1>1, <1>2, <1>4, <1>12, <2>1
    <3>2. Buffer'[Before(c)] = Buffer[Before(c)] /\ Buffer[Before(c)] # Unset
      BY <1>1, <1>12, <2>1, <3>1
    <3>3. converted # Unset
      <4>1. Before(c) < c \/ Lapped
        BY <1>0, <3>1, <3>2 DEF RoundRobin
      <4>2. c = 0 => Lapped
        <5>1. Before(c) \in Nat
          BY <1>4, <3>1
        <5> QED
          BY <4>1, <5>1
      <4> QED
        BY <1>0, <4>2 DEF RoundRobin
    <3>4. converted \in enabcha /\ Buffer[Before(c)] = converted
      BY <1>0, <3>3 DEF RoundRobin
    <3> QED
      BY <1>1, <1>3, <2>1, <3>2, <3>4
  <2>2. CASE i # c
    <3>1. Before(i) # c /\ Before(i) \in Slots
      BY <1>2, <1>4, <1>12, <2>2
    <3>2. Buffer'[i] = Buffer[i] /\ Buffer'[Before(i)] = Buffer[Before(i)]
      BY <1>1, <2>2, <3>1
    <3> QED
      BY <1>0, <1>12, <2>2, <3>2 DEF RoundRobin
  <2> QED
    BY <2>1, <2>2
<1>13. ASSUME NEW i \in Slots, i # d, Room(i, d) >= n, Buffer'[Back(i, n)] # Unset
       PROVE  Buffer'[i] = Buffer'[Back(i, n)]
  <2> DEFINE e == Back(i, n)
  <2>1. CASE i # c
    <3>1. Room(i, c) = Room(i, d) + 1 /\ Room(i, d) \in Nat
      <4>1. i \in 0..BufSiz /\ d \in 0..BufSiz
        BY <1>1, <1>4, Sizes
      <4> QED
        BY <1>2, <1>13, <2>1, <4>1, WayTypes
    <3>2. Room(i, c) > n /\ Room(i, c) >= n
      BY <1>4, <1>13, <3>1
    <3>3. e \in Slots /\ e # c
      BY <1>1, <1>4, <3>2, BackRoom
    <3>4. Buffer'[i] = Buffer[i] /\ Buffer'[e] = Buffer[e]
      BY <1>1, <2>1, <3>3
    <3> QED
      BY <1>0, <1>13, <2>1, <3>2, <3>4 DEF RoundRobin
  <2>2. CASE i = c
    <3> DEFINE b == Before(c)
    <3>1. /\ n < BufSiz /\ b # c /\ b \in Slots /\ Room(b, c) >= n
      BY <1>1, <1>2, <1>4, <1>13, <2>2
    <3>2. /\ e \in Slots /\ e # c
          /\ e = 0 /\ c > 0 => c = n
          /\ e < c => e = c - n
      BY <1>1, <1>4, <2>2, <3>1, BackElsewhere
    <3>3. Buffer'[e] = Buffer[e] /\ Buffer[e] # Unset
      BY <1>1, <1>13, <3>2
    <3>4. converted # Unset
      <4>1. e < c \/ Lapped
        BY <1>0, <3>2, <3>3 DEF RoundRobin
      <4>2. c = 0 => Lapped
        <5>1. e \in Nat
          BY <1>4, <3>2
        <5> HIDE DEF e
        <5> QED
          BY <4>1, <5>1
      <4> QED
        BY <1>0, <4>2 DEF RoundRobin
    <3>5. converted \in enabcha /\ Buffer[b] = converted
      BY <1>0, <3>4 DEF RoundRobin
    <3>6. Buffer[e] \in enabcha
      BY <1>0, <3>2, <3>3 DEF RoundRobin
    <3>7. Before(e) = Back(b, n) /\ Before(e) \in Slots
      BY <1>1, <1>4, <2>2, <3>2, BeforeOfBack
    <3>8. CASE Buffer[Before(e)] # Unset
      <4>1. Buffer[b] = Buffer[Before(e)]
        BY <1>0, <3>1, <3>7, <3>8 DEF RoundRobin
      <4>2. Rank(Buffer[e]) = Onward(Rank(Buffer[Before(e)]))
        BY <1>0, <3>2, <3>3, <3>8 DEF RoundRobin
      <4>3. Rank(Buffer[e]) = Rank(next)
        BY <1>3, <3>5, <4>1, <4>2
      <4> QED
        BY <1>0, <1>1, <1>3, <2>2, <3>3, <3>6, <4>3, RankInjective
    <3>9. CASE Buffer[Before(e)] = Unset
      <4>1. ~Lapped /\ e < c /\ ~(Before(e) < c)
        BY <1>0, <3>2, <3>3, <3>7, <3>9 DEF RoundRobin
      <4>2. e = 0 /\ c > 0
        <5>1. e # 0 => Before(e) < e
          BY <1>4, <3>2 DEF Before
        <5>2. e \in Nat /\ c \in Nat /\ Before(e) \in Nat
          BY <1>1, <1>4, <3>2, <3>7
        <5> QED
          BY <4>1, <5>1, <5>2
      <4>3. c = n /\ b = n - 1 /\ n - 1 \in Nat
        BY <1>4, <3>2, <4>2 DEF Before
      <4>4. n - 1 < c /\ n - 1 < n /\ 0 < c /\ 0 < n /\ 0 \in Slots /\ n - 1 \in Slots
        BY <1>1, <1>4, <3>1, <3>2, <4>2, <4>3
      <4>5. Rank(Buffer[0]) = 0 /\ Rank(Buffer[n - 1]) = n - 1
        BY <1>0, <4>1, <4>4 DEF RoundRobin
      <4>6. Onward(n - 1) = 0
        BY <1>4, <4>3 DEF Onward, Following
      <4>7. Rank(next) = 0
        BY <1>3, <3>5, <4>3, <4>5, <4>6
      <4> QED
        BY <1>0, <1>1, <1>3, <2>2, <3>3, <3>6, <4>2, <4>5, <4>7, RankInjective
    <3> QED
      BY <3>8, <3>9
  <2> QED
    BY <2>1, <2>2
<1> QED
  BY <1>1, <1>5, <1>8, <1>9, <1>10, <1>11, <1>12, <1>13 DEF RoundRobin, Rank, Onward


LEMMA RingKept ==
    ASSUME RingInv, UNCHANGED <<enabcha, okStart, Buffer, RPR, converted>>
    PROVE  RingInv'
BY DEF RingInv, RoundRobin, Lapped, Rank, Onward, Channels

LEMMA RingStep ==
    ASSUME RInv, RingInv, Next, RInv'
    PROVE  RingInv'
<1>1. Setup => RingInv'
  BY RingKept DEF Setup, dma
<1>2. Starting => RingInv'
  <2> SUFFICES ASSUME Starting PROVE RingInv'
    OBVIOUS
  <2>1. Buffer' = [i \in Slots |-> Unset] /\ RPR' = 0 /\ converted' = Unset
    BY DEF Starting, gostart
  <2>2. /\ BufSiz - 1 \in Slots
        /\ \A i \in Slots : ~(i < 0)
        /\ \A i \in Slots : Before(i) \in Slots
    BY Sizes, BeforeIn
  <2>3. ~Lapped'
    BY <2>1, <2>2 DEF Lapped
  <2>4. \A i \in Slots \ {0} : Buffer'[Before(i)] = Unset
    BY <2>1, <2>2
  <2>5. ASSUME NEW i \in Slots \ {0}, Room(i, 0) >= Channels', Buffer'[Back(i, Channels')] # Unset
        PROVE  FALSE
    <3>1. Channels' \in Nat /\ Channels' <= BufSiz
      <4>1. enabcha' \subseteq {channel(p) : p \in Pins}
        BY DEF RInv, TypeOK
      <4> QED
        BY <4>1, ChannelCount, Sizes DEF Channels
    <3>2. Back(i, Channels') \in Slots
      <4>1. i \in Nat
        BY Sizes
      <4> QED
        BY <3>1, <4>1, BackIn
    <3> QED
      BY <2>1, <2>5, <3>2
  <2> QED
    BY <2>1, <2>2, <2>3, <2>4, <2>5 DEF RingInv, RoundRobin
<1>3. Stopped => RingInv'
  BY DEF Stopped, RingInv
<1>4. Stop \/ GetPosCurr \/ MeasureSpeed \/ Started \/ ReadPointer \/ ReadEntry \/ FindEntry
         \/ MeasureEntry \/ SpeedInterrupt => RingInv'
  BY RingKept DEF Stop, GetPosCurr, MeasureSpeed, Started, ReadPointer, ReadEntry, FindEntry,
     MeasureEntry, SpeedInterrupt, CallOnly, dma, pins
<1>5. ASSUME NEW pin \in Pins, ReadAnalogPin(pin) \/ FindValueForPin(pin) PROVE RingInv'
  BY <1>5, RingKept DEF ReadAnalogPin, FindValueForPin, CallOnly, dma, pins
<1>6. ASSUME NEW pin \in Pins, NEW pSkip \in 0..Reach, NEW nrM \in 1..Reach,
             FindAvgForPinPos(pin, pSkip, nrM)
      PROVE  RingInv'
  BY <1>6, RingKept DEF FindAvgForPinPos, CallOnly, dma, pins
<1>7. ASSUME NEW nrMeas \in NrMeas, getMeasures(nrMeas) PROVE RingInv'
  BY <1>7, RingKept DEF getMeasures, CallOnly, dma, pins
<1>8. adcHandler => RingInv'
  <2> SUFFICES ASSUME adcHandler PROVE RingInv'
    OBVIOUS
  <2>1. UNCHANGED <<enabcha, okStart, Buffer, converted>>
    BY DEF adcHandler, pins
  <2>2. OnTime /\ okStart => RPR' = RPR
    BY OnTimeInRing DEF adcHandler
  <2>3. CASE OnTime /\ okStart
    BY <2>1, <2>2, <2>3, RingKept
  <2>4. CASE ~(OnTime /\ okStart)
    BY <2>1, <2>4 DEF RingInv
  <2> QED
    BY <2>3, <2>4
<1> QED
  BY <1>1, <1>2, <1>3, <1>4, <1>5, <1>6, <1>7, <1>8, RingStored, RingCases

-----------------------------------------------------------------------------
(* The walks back along the ring.                                            *)

\* How many entries a walk may still go back.
Steps == IF call.op = "sum" THEN NumChEn * (call.more + 1) ELSE call.left + NumChEn * call.more

Walks == {"find", "sum"}

\* The walks of which something is claimed.
Fits == OnTime /\ StrideFits

LEMMA StrideFacts ==
    ASSUME RInv, okStart, Fits
    PROVE  /\ OnTime /\ NumChEn = Channels
           /\ NumChEn \in Nat /\ NumChEn > 0 /\ NumChEn <= Reach /\ NumChEn <= BufSiz
<1>1. OnTime /\ NumChEn = Channels
  BY DEF Fits, StrideFits, Channels
<1> QED
  BY <1>1, ChannelFacts

\* A walk does not reach the entries the DMA may store meanwhile; on its way to the pin's
\* last measure, the pin's place in the round is no further than the entries it has left.
WalkInv ==
    /\ Fits /\ call.op \in {"mark", "find", "sum"} => call.pos \in Slots
    /\ Fits /\ call.op = "mark" => Room(call.pos, RPR) >= BufSiz - lag
    /\ Fits /\ call.op \in Walks => /\ call.want \in enabcha
                                      /\ Room(call.pos, RPR) >= Steps + (Lag - lag)
    /\ Fits /\ call.op = "find" => call.left \in 1..NumChEn
    /\ Fits /\ (call.op = "sum" \/ (call.op = "find" /\ call.left < NumChEn))
         => call.pos # RPR
    /\ Fits /\ call.op = "sum" => Buffer[call.pos] = call.want
    /\ Fits /\ call.op = "find" /\ call.left < NumChEn /\ Buffer[call.pos] # Unset
         => /\ Buffer[call.pos] # call.want
            /\ Behind(Rank(Buffer[call.pos]), Rank(call.want)) <= call.left


LEMMA Times ==
    ASSUME NEW n \in Nat, NEW k \in Nat, n > 0
    PROVE  n * (k + 1) = n * k + n /\ n * k \in Nat /\ n * 0 = 0
OBVIOUS

\* A call that does not walk the ring.
LEMMA NoWalk == call'.op \notin {"mark", "find", "sum"} => WalkInv'
BY DEF WalkInv, Walks

\* What a walk on time needs to know of the state.
LEMMA WalkFacts ==
    ASSUME RInv, WalkInv, Fits, call.op \in {"mark", "find", "sum"}
    PROVE  /\ okStart /\ RPR \in Slots /\ call.pos \in Slots
           /\ call.left \in Nat /\ call.more \in Nat /\ lag \in Nat /\ Lag \in Nat /\ lag <= Lag
           /\ Room(call.pos, RPR) \in Nat /\ Room(call.pos, RPR) <= BufSiz
           /\ call.op \in Walks => Steps \in Nat /\ Steps > 0
<1>1. okStart /\ lag <= Lag
  BY DEF RInv, MachineInv, CallInv
<1>2. RPR \in Slots /\ call.pos \in Slots
  BY <1>1, OnTimeInRing DEF WalkInv, Fits
<1>3. call.left \in Nat /\ call.more \in Nat /\ lag \in Nat /\ Lag \in Nat
  BY CallFacts, Sizes
<1>4. Room(call.pos, RPR) \in Nat /\ Room(call.pos, RPR) <= BufSiz
  BY <1>2, SlotIsPosition, WayTypes
<1>5. ASSUME call.op \in Walks
      PROVE  Steps \in Nat /\ Steps > 0
  <2>1. /\ NumChEn \in Nat /\ NumChEn > 0 /\ NumChEn * call.more \in Nat
        /\ NumChEn * (call.more + 1) = NumChEn * call.more + NumChEn
    BY <1>1, <1>3, StrideFacts, Times
  <2>2. CASE call.op = "sum"
    BY <2>1, <2>2 DEF Steps
  <2>3. CASE call.op = "find"
    <3>1. call.left > 0
      BY <2>3 DEF RInv, MachineInv, CallInv
    <3>2. Steps = call.left + NumChEn * call.more
      BY <2>3 DEF Steps
    <3> QED
      BY <1>3, <2>1, <3>1, <3>2
  <2> QED
    BY <1>5, <2>2, <2>3 DEF Walks
<1> QED
  BY <1>1, <1>2, <1>3, <1>4, <1>5

LEMMA WalkStored ==
    ASSUME RInv, RInv', WalkInv, Convert
    PROVE  WalkInv'
<1> SUFFICES ASSUME Fits', call'.op \in {"mark", "find", "sum"}
             PROVE  WalkInv'
  BY DEF WalkInv, Walks
<1>0. Fits /\ call' = call /\ call.op \in {"mark", "find", "sum"}
  BY DEF Convert, pins, Fits, StrideFits
<1>1. lag' = lag + 1 /\ lag < Lag
  BY <1>0, IdleFacts DEF Convert, MayStore, Returning
<1>2. /\ RPR \in Slots /\ RPR' \in Slots /\ Stores(RPR, RPR') /\ okStart
      /\ UNCHANGED <<enabcha, NumChEn, Channels, okStart>>
      /\ \A i \in Slots : i # RPR => Buffer'[i] = Buffer[i]
  BY <1>0, ConvertFacts DEF Fits
<1> DEFINE room == Room(call.pos, RPR)
<1>3. /\ call.pos \in Slots /\ call.left \in Nat /\ call.more \in Nat /\ lag \in Nat /\ Lag \in Nat
      /\ room \in Nat /\ room <= BufSiz
      /\ call.op \in Walks => Steps \in Nat /\ Steps > 0
  BY <1>0, WalkFacts
<1>4. call.op \in Walks => call.want \in enabcha /\ room >= Steps + (Lag - lag)
  BY <1>0 DEF WalkInv
<1>5. call.op = "mark" => room >= BufSiz - lag
  BY <1>0 DEF WalkInv
<1>6. room >= 2
  <2>1. CASE call.op \in Walks
    <3> HIDE DEF room
    <3> QED
      BY <1>1, <1>3, <1>4, <2>1
  <2>2. CASE call.op = "mark"
    <3>1. BufSiz - lag >= 2
      <4>1. Lag + Reach <= BufSiz /\ Reach >= 1 /\ Reach \in Nat /\ BufSiz \in Nat
        BY <1>2, ChannelFacts, Sizes
      <4> QED
        BY <1>1, <1>3, <4>1
    <3> HIDE DEF room
    <3> QED
      BY <1>3, <1>5, <2>2, <3>1, Sizes
  <2> QED
    BY <1>0, <2>1, <2>2 DEF Walks
<1>7. Room(call.pos, RPR') = room - 1
  <2>1. call.pos \in 0..BufSiz
    BY <1>3, Sizes
  <2> QED
    BY <1>2, <1>6, <2>1, RoomStored
<1>8. call.pos # RPR'
  <2>1. Room(RPR', RPR') = BufSiz
    BY <1>2, SlotIsPosition
  <2> HIDE DEF room
  <2> QED
    BY <1>3, <1>7, <2>1, Sizes
<1>9. call.pos # RPR => Buffer'[call.pos] = Buffer[call.pos]
  BY <1>2, <1>3
<1>10. Steps' = Steps
  BY <1>0, <1>2 DEF Steps
<1> HIDE DEF room
<1>11. call.op \in Walks => Room(call.pos, RPR') >= Steps + (Lag - lag')
  BY <1>1, <1>3, <1>4, <1>7
<1>12. call.op = "mark" => Room(call.pos, RPR') >= BufSiz - lag'
  BY <1>1, <1>3, <1>5, <1>7, Sizes
<1>13. call.op = "find" => call.left \in 1..NumChEn
  BY <1>0 DEF WalkInv
<1>14. call.op = "sum" => Buffer'[call.pos] = call.want
  BY <1>0, <1>9 DEF WalkInv
<1>15. call.op = "find" /\ call.left < NumChEn /\ Buffer'[call.pos] # Unset
         => /\ Buffer'[call.pos] # call.want
            /\ Behind(Rank(Buffer'[call.pos]), Rank(call.want)) <= call.left
  BY <1>0, <1>9 DEF WalkInv
<1> QED
  BY <1>0, <1>2, <1>3, <1>4, <1>8, <1>10, <1>11, <1>12, <1>13, <1>14, <1>15
     DEF WalkInv, Behind, Rank


\* A walk begins at the DMA's pointer, or as many entries back from a position held as it was
\* told to skip.
LEMMA WalkFound ==
    ASSUME RInv, RInv', NEW pin \in Pins, FindValueForPin(pin)
    PROVE  WalkInv'
<1> SUFFICES ASSUME Fits' PROVE WalkInv'
  BY DEF WalkInv
<1>1. /\ UNCHANGED <<enabcha, NumChEn, okStart, Buffer, RPR, lag>>
      /\ channel(pin) \in enabcha /\ Fits /\ okStart /\ lag = 0
      /\ call' = Calling("find", channel(pin), RPR, NumChEn, 0)
  BY CallFacts DEF FindValueForPin, Reads, CallOnly, pins, dma, Fits, StrideFits
<1>2. /\ call'.op = "find" /\ call'.want = channel(pin) /\ call'.pos = RPR
      /\ call'.left = NumChEn /\ call'.more = 0
  BY <1>1 DEF Calling
<1>3. RPR \in Slots /\ NumChEn \in Nat /\ NumChEn > 0 /\ NumChEn <= Reach
  BY <1>1, OnTimeInRing, StrideFacts
<1>4. Room(RPR, RPR) = BufSiz
  BY <1>3, SlotIsPosition
<1>5. Steps' = NumChEn
  BY <1>1, <1>2, <1>3, Times DEF Steps
<1>6. BufSiz >= NumChEn + (Lag - 0)
  BY <1>3, Sizes
<1>7. NumChEn \in 1..NumChEn
  BY <1>3
<1>8. ~(NumChEn < NumChEn)
  BY <1>3
<1> QED
  BY <1>1, <1>2, <1>3, <1>4, <1>5, <1>6, <1>7, <1>8 DEF WalkInv, Walks

LEMMA WalkHeld ==
    ASSUME RInv, RInv', WalkInv, NEW pin \in Pins, NEW pSkip \in 0..Reach, NEW nrM \in 1..Reach,
           FindAvgForPinPos(pin, pSkip, nrM)
    PROVE  WalkInv'
<1> SUFFICES ASSUME Fits' PROVE WalkInv'
  BY DEF WalkInv
<1> DEFINE pos == IF pSkip = 0 THEN call.pos ELSE Back(call.pos, pSkip)
           room == Room(call.pos, RPR)
           times == NumChEn * nrM
<1>0. /\ UNCHANGED <<enabcha, NumChEn, okStart, Buffer, RPR>>
      /\ channel(pin) \in enabcha /\ Fits /\ call.op = "mark"
      /\ pSkip + times <= Reach
  BY DEF FindAvgForPinPos, CallOnly, pins, dma, Fits, StrideFits
<1>01. NumChEn # 0
  <2>1. okStart
    BY <1>0 DEF RInv, MachineInv, CallInv
  <2> QED
    BY <1>0, <2>1, StrideFacts
<1>1. /\ UNCHANGED <<enabcha, NumChEn, okStart, Buffer, RPR, lag>>
      /\ channel(pin) \in enabcha /\ Fits /\ call.op = "mark"
      /\ pSkip + times <= Reach
      /\ call' = Calling("find", channel(pin), pos, NumChEn, nrM - 1)
  <2> HIDE DEF times
  <2> QED
    BY <1>0, <1>01 DEF FindAvgForPinPos
<1>2. /\ call'.op = "find" /\ call'.want = channel(pin) /\ call'.pos = pos
      /\ call'.left = NumChEn /\ call'.more = nrM - 1
  BY <1>1 DEF Calling
<1>3. /\ okStart /\ RPR \in Slots /\ call.pos \in Slots /\ lag \in Nat /\ Lag \in Nat /\ lag <= Lag
      /\ room \in Nat /\ room <= BufSiz /\ room >= BufSiz - lag
  BY <1>1, WalkFacts DEF WalkInv
<1>4. NumChEn \in Nat /\ NumChEn > 0 /\ pSkip \in Nat /\ nrM - 1 \in Nat /\ nrM \in Nat
      /\ Lag + Reach <= BufSiz /\ Reach \in Nat /\ BufSiz \in Nat
  BY <1>1, <1>3, StrideFacts, Sizes
<1>5. NumChEn * (nrM - 1) + NumChEn = times /\ times \in Nat /\ times > 0
  <2>1. (nrM - 1) + 1 = nrM
    BY <1>4
  <2>2. /\ NumChEn * ((nrM - 1) + 1) = NumChEn * (nrM - 1) + NumChEn
        /\ NumChEn * (nrM - 1) \in Nat
    BY <1>4, Times
  <2> QED
    BY <1>4, <2>1, <2>2
<1> HIDE DEF times
<1>6. room > pSkip
  <2> HIDE DEF room
  <2> QED
    BY <1>1, <1>3, <1>4, <1>5
<1>7. pos \in Slots /\ Room(pos, RPR) = room - pSkip
  <2>1. CASE pSkip = 0
    <3>1. pos = call.pos
      BY <2>1
    <3> HIDE DEF pos
    <3> QED
      BY <1>3, <2>1, <3>1
  <2>2. CASE pSkip > 0
    <3>1. pos = Back(call.pos, pSkip)
      BY <2>2
    <3> HIDE DEF pos
    <3> QED
      BY <1>3, <1>4, <1>6, <2>2, <3>1, BackRoom
  <2> QED
    BY <1>4, <2>1, <2>2
<1>8. Steps' = times
  <2>1. Steps' = NumChEn + NumChEn * (nrM - 1)
    BY <1>1, <1>2 DEF Steps
  <2>2. NumChEn * (nrM - 1) \in Nat
    BY <1>4, Times
  <2> QED
    BY <1>4, <1>5, <2>1, <2>2
<1> HIDE DEF pos, room
<1>9. Room(pos, RPR) >= times + (Lag - lag)
  BY <1>1, <1>3, <1>4, <1>5, <1>7
<1>10. NumChEn \in 1..NumChEn /\ ~(NumChEn < NumChEn)
  BY <1>4
<1> QED
  BY <1>1, <1>2, <1>7, <1>8, <1>9, <1>10 DEF WalkInv, Walks


LEMMA BehindBefore ==
    ASSUME Channels \in Nat, NEW r \in Nat, NEW q \in Nat, r < Channels, q < Channels, NEW left \in Nat
    PROVE  /\ Behind(r, q) \in Nat /\ Behind(r, q) < Channels
           /\ Behind(r, q) <= 0 => r = q
           /\ Onward(r) # q /\ Behind(Onward(r), q) <= left => Behind(r, q) <= left - 1
<1>1. Behind(r, q) \in Nat /\ Behind(r, q) < Channels /\ (Behind(r, q) <= 0 => r = q)
  BY DEF Behind
<1>2. Onward(r) # q /\ Behind(Onward(r), q) <= left => Behind(r, q) <= left - 1
  BY DEF Behind, Onward, Following
<1> QED
  BY <1>1, <1>2

\* The entry a walk to the pin's last measure looks at next is closer to it in the round.
LEMMA FindLooks ==
    ASSUME RInv, RingInv, WalkInv, Fits, call.op = "find", Buffer[Before(call.pos)] # Unset
    PROVE  /\ Buffer[Before(call.pos)] \in enabcha
           /\ Behind(Rank(Buffer[Before(call.pos)]), Rank(call.want)) <= call.left - 1
<1> DEFINE e == Before(call.pos)
<1>1. /\ okStart /\ RPR \in Slots /\ call.pos \in Slots /\ call.left \in Nat /\ RoundRobin
      /\ call.want \in enabcha /\ call.left \in 1..NumChEn
  BY WalkFacts DEF WalkInv, Walks, RingInv, Fits
<1>2. e \in Slots
  BY <1>1, SlotIsPosition, BeforeIn
<1>3. Buffer[e] \in enabcha
  BY <1>1, <1>2 DEF RoundRobin
<1>4. NumChEn \in Nat /\ Rank(Buffer[e]) \in Nat /\ Rank(Buffer[e]) < NumChEn
      /\ Rank(call.want) \in Nat /\ Rank(call.want) < NumChEn /\ Channels = NumChEn
  BY <1>1, <1>3, StrideFacts, RankInRound
<1>5. CASE ~(call.left < NumChEn)
  <2>1. call.left = NumChEn
    BY <1>1, <1>4, <1>5
  <2>2. /\ Behind(Rank(Buffer[e]), Rank(call.want)) \in Nat
        /\ Behind(Rank(Buffer[e]), Rank(call.want)) < NumChEn
    BY <1>1, <1>4, BehindBefore
  <2>3. Behind(Rank(Buffer[e]), Rank(call.want)) <= NumChEn - 1
    BY <1>4, <2>2
  <2> QED
    BY <1>3, <2>1, <2>3
<1>6. CASE call.left < NumChEn
  <2>1. call.pos # RPR
    BY <1>6 DEF WalkInv
  <2>2. Buffer[call.pos] # Unset
    <3>1. e < RPR \/ Lapped
      BY <1>1, <1>2 DEF RoundRobin
    <3>2. e < RPR => call.pos < RPR
      BY <1>1, <2>1, Sizes DEF Before
    <3> QED
      BY <1>1, <3>1, <3>2 DEF RoundRobin
  <2>3. Buffer[call.pos] \in enabcha
    BY <1>1, <2>2 DEF RoundRobin
  <2>4. Rank(Buffer[call.pos]) = Onward(Rank(Buffer[e]))
    BY <1>1, <2>1, <2>2 DEF RoundRobin
  <2>5. Rank(Buffer[call.pos]) # Rank(call.want)
        /\ Behind(Rank(Buffer[call.pos]), Rank(call.want)) <= call.left
    BY <1>1, <1>6, <2>2, <2>3, RankInjective DEF WalkInv
  <2>6. Behind(Rank(Buffer[e]), Rank(call.want)) <= call.left - 1
    BY <1>1, <1>4, <2>4, <2>5, BehindBefore
  <2> QED
    BY <1>3, <2>6
<1> QED
  BY <1>5, <1>6

\* A round further back is the pin's channel again.
LEMMA SumLooks ==
    ASSUME RInv, RingInv, WalkInv, Fits, call.op = "sum", Buffer[Back(call.pos, NumChEn)] # Unset
    PROVE  Buffer[Back(call.pos, NumChEn)] = call.want
<1>1. /\ okStart /\ RPR \in Slots /\ call.pos \in Slots /\ RoundRobin /\ lag \in Nat /\ Lag \in Nat
      /\ call.pos # RPR /\ Buffer[call.pos] = call.want /\ lag <= Lag /\ call.more \in Nat
      /\ Room(call.pos, RPR) \in Nat
  BY WalkFacts DEF WalkInv, RingInv, Fits
<1>2. Room(call.pos, RPR) >= NumChEn * (call.more + 1) + (Lag - lag)
  BY DEF WalkInv, Walks, Steps
<1>3. /\ NumChEn \in Nat /\ NumChEn * (call.more + 1) = NumChEn * call.more + NumChEn
      /\ NumChEn * call.more \in Nat /\ Channels = NumChEn
  BY <1>1, StrideFacts, Times
<1>4. Room(call.pos, RPR) >= NumChEn
  BY <1>1, <1>2, <1>3
<1> QED
  BY <1>1, <1>3, <1>4 DEF RoundRobin

LEMMA WalksMissUnfilled ==
    ASSUME RInv, RingInv, WalkInv
    PROVE  MissesOnlyUnfilled
<1> SUFFICES ASSUME Fits, Misses, Buffer[Entry] # Unset
             PROVE  FALSE
  BY DEF MissesOnlyUnfilled, Fits
<1>1. CASE call.op = "sum"
  BY <1>1, SumLooks DEF Misses, Found, Entry
<1>2. CASE call.op = "find"
  <2>1. Entry = Before(call.pos) /\ call.left = 1 /\ ~Found
    BY <1>2 DEF Entry, Misses
  <2>2. Buffer[Entry] \in enabcha /\ Behind(Rank(Buffer[Entry]), Rank(call.want)) <= 0
    BY <1>2, <2>1, FindLooks
  <2>3. okStart /\ call.want \in enabcha
    BY <1>2, WalkFacts DEF WalkInv, Walks
  <2>4. Rank(Buffer[Entry]) = Rank(call.want)
    BY <2>2, <2>3, ChannelFacts, RankInRound, BehindBefore
  <2> QED
    BY <2>1, <2>2, <2>3, <2>4, RankInjective DEF Found
<1> QED
  BY <1>1, <1>2 DEF Misses


LEMMA WalkLooks ==
    ASSUME RInv, RInv', RingInv, WalkInv, FindEntry
    PROVE  WalkInv'
<1>0. /\ UNCHANGED <<enabcha, NumChEn, okStart, Buffer, RPR>> /\ call.op \in Walks
  BY DEF FindEntry, CallOnly, pins, dma, Walks
<1>1. CASE Return
  BY <1>1, IdleFacts, NoWalk DEF Return
<1>2. CASE ~Return
  <2> SUFFICES ASSUME Fits' PROVE WalkInv'
    BY DEF WalkInv
  <2> DEFINE room == Room(call.pos, RPR)
  <2>1. /\ Fits /\ lag' = lag /\ ~(Misses \/ (Found /\ call.more = 0))
        /\ call' = [call EXCEPT !.pos = Entry, !.op = IF Found THEN "sum" ELSE "find",
                               !.left = IF Found THEN 0 ELSE @ - 1,
                               !.more = IF Found THEN @ - 1 ELSE @]
    BY <1>0, <1>2 DEF FindEntry, Fits, StrideFits
  <2>2. /\ okStart /\ RPR \in Slots /\ call.pos \in Slots /\ call.left \in Nat /\ call.more \in Nat
        /\ lag \in Nat /\ Lag \in Nat /\ lag <= Lag /\ room \in Nat /\ room <= BufSiz
        /\ call.want \in enabcha /\ room >= Steps + (Lag - lag)
    BY <1>0, <2>1, WalkFacts DEF WalkInv, Walks
  <2>3. /\ NumChEn \in Nat /\ NumChEn > 0 /\ NumChEn * call.more \in Nat
        /\ NumChEn * (call.more + 1) = NumChEn * call.more + NumChEn
    BY <2>1, <2>2, StrideFacts, Times
  <2>4. /\ call'.op = (IF Found THEN "sum" ELSE "find") /\ call'.pos = Entry
        /\ call'.left = (IF Found THEN 0 ELSE call.left - 1)
        /\ call'.more = (IF Found THEN call.more - 1 ELSE call.more)
        /\ call'.want = call.want
    BY <2>1 DEF RInv, CallOK, Calls
  <2>5. call.op = "find" => call.left > 0 /\ Steps = call.left + NumChEn * call.more
    BY DEF RInv, MachineInv, CallInv, Steps
  <2>6. call.op = "sum" => Steps = NumChEn * (call.more + 1)
    BY DEF Steps
  <2>7. Found => call.more > 0 /\ NumChEn * ((call.more - 1) + 1) = NumChEn * call.more
                 /\ NumChEn * call.more >= NumChEn
    <3> SUFFICES ASSUME Found
                 PROVE  call.more > 0 /\ NumChEn * ((call.more - 1) + 1) = NumChEn * call.more
                        /\ NumChEn * call.more >= NumChEn
      OBVIOUS
    <3>1. call.more > 0 /\ (call.more - 1) + 1 = call.more /\ call.more - 1 \in Nat
      BY <2>1, <2>2
    <3>2. /\ NumChEn * ((call.more - 1) + 1) = NumChEn * (call.more - 1) + NumChEn
          /\ NumChEn * (call.more - 1) \in Nat
      BY <2>3, <3>1, Times
    <3>3. NumChEn * call.more >= NumChEn
      BY <2>3, <3>1, <3>2
    <3> QED
      BY <3>1, <3>3
  <2>8. CASE call.op = "find"
    <3>1. Entry = Before(call.pos) /\ Steps = call.left + NumChEn * call.more /\ call.left > 0
      BY <2>5, <2>8 DEF Entry
    <3>2. room >= 2
      <4>1. ~Found => call.left # 1
        BY <2>1, <2>8 DEF Misses
      <4> HIDE DEF room
      <4>2. CASE Found
        <5> DEFINE times == NumChEn * call.more
        <5>1. times \in Nat /\ times >= 1 /\ call.left >= 1 /\ Lag - lag >= 0
          BY <2>2, <2>3, <2>7, <3>1, <4>2
        <5>2. room >= (call.left + times) + (Lag - lag)
          BY <2>2, <3>1
        <5> HIDE DEF times
        <5> QED
          BY <2>2, <5>1, <5>2
      <4>3. CASE ~Found
        <5> DEFINE times == NumChEn * call.more
        <5>1. times \in Nat /\ call.left >= 2 /\ Lag - lag >= 0
          BY <2>2, <2>3, <3>1, <4>1, <4>3
        <5>2. room >= (call.left + times) + (Lag - lag)
          BY <2>2, <3>1
        <5> HIDE DEF times
        <5> QED
          BY <2>2, <5>1, <5>2
      <4> QED
        BY <4>2, <4>3
    <3>3. Room(Entry, RPR) = room - 1 /\ Entry \in Slots
      BY <2>2, <3>1, <3>2, SlotIsPosition, RoomBefore, BeforeIn
    <3>4. Entry # RPR
      <4>1. Room(RPR, RPR) = BufSiz
        BY <2>2, SlotIsPosition
      <4> HIDE DEF room
      <4> QED
        BY <2>2, <3>2, <3>3, <4>1, Sizes
    <3>5. CASE Found
      <4>1. Steps' = NumChEn * call.more
        BY <1>0, <2>4, <2>7, <3>5 DEF Steps
      <4>2. Room(Entry, RPR) >= NumChEn * call.more + (Lag - lag)
        <5> HIDE DEF room
        <5> QED
          BY <2>2, <2>3, <3>1, <3>3
      <4>3. call'.op = "sum" /\ Buffer[Entry] = call.want
        BY <2>4, <3>5 DEF Found
      <4> QED
        BY <1>0, <2>1, <2>2, <2>4, <3>3, <3>4, <4>1, <4>2, <4>3 DEF WalkInv
    <3>6. CASE ~Found
      <4>1. call'.op = "find" /\ call'.left = call.left - 1 /\ Buffer[Entry] # call.want
        BY <2>4, <3>6 DEF Found
      <4>2. Steps' = (call.left - 1) + NumChEn * call.more
        BY <1>0, <2>4, <3>6 DEF Steps
      <4>3. Room(Entry, RPR) >= ((call.left - 1) + NumChEn * call.more) + (Lag - lag)
        <5> HIDE DEF room
        <5> QED
          BY <2>2, <2>3, <3>1, <3>3
      <4>4. call.left - 1 \in 1..NumChEn
        <5>1. call.left \in 1..NumChEn /\ call.left # 1
          BY <2>1, <2>8, <3>6 DEF WalkInv, Misses
        <5> QED
          BY <2>3, <5>1
      <4>5. Buffer[Entry] # Unset => Behind(Rank(Buffer[Entry]), Rank(call.want)) <= call.left - 1
        BY <2>1, <2>8, <3>1, FindLooks
      <4> QED
        BY <1>0, <2>1, <2>2, <2>4, <3>3, <3>4, <4>1, <4>2, <4>3, <4>4, <4>5
           DEF WalkInv, Behind, Rank, Channels
    <3> QED
      BY <3>5, <3>6
  <2>9. CASE call.op = "sum"
    <3>1. Entry = Back(call.pos, NumChEn) /\ Found /\ Steps = NumChEn * (call.more + 1)
      BY <2>1, <2>6, <2>9 DEF Entry, Misses
    <3>2. room > NumChEn
      <4> HIDE DEF room
      <4> QED
        BY <2>2, <2>3, <2>7, <3>1
    <3>3. Room(Entry, RPR) = room - NumChEn /\ Entry \in Slots /\ Entry # RPR
      BY <2>2, <2>3, <3>1, <3>2, BackRoom
    <3>4. Steps' = NumChEn * call.more
      BY <1>0, <2>4, <2>7, <3>1 DEF Steps
    <3>5. Room(Entry, RPR) >= NumChEn * call.more + (Lag - lag)
      <4> HIDE DEF room
      <4> QED
        BY <2>2, <2>3, <3>1, <3>3
    <3>6. call'.op = "sum" /\ Buffer[Entry] = call.want
      BY <2>4, <3>1 DEF Found
    <3> QED
      BY <1>0, <2>1, <2>2, <2>4, <3>3, <3>4, <3>5, <3>6 DEF WalkInv
  <2> QED
    BY <1>0, <2>8, <2>9 DEF Walks
<1> QED
  BY <1>1, <1>2

LEMMA WalkStep ==
    ASSUME RInv, RingInv, WalkInv, Next, RInv'
    PROVE  WalkInv'
<1>0. Idle.op = "none"
  BY IdleFacts
<1>1. Setup => WalkInv'
  BY <1>0, NoWalk DEF Setup, Returning
<1>2. Starting \/ Stop \/ MeasureSpeed => WalkInv'
  <2> SUFFICES ASSUME Starting \/ Stop \/ MeasureSpeed PROVE WalkInv'
    OBVIOUS
  <2>1. call' \in {Calling("start", Unset, 0, 0, 0), Calling("stop", Unset, 0, 0, 0),
                   Calling("speed", Unset, 0, 2, 0)}
    BY DEF Starting, gostart, Stop, MeasureSpeed
  <2> QED
    BY <2>1, NoWalk DEF Calling
<1>3. GetPosCurr => WalkInv'
  <2> SUFFICES ASSUME GetPosCurr, Fits' PROVE WalkInv'
    BY DEF WalkInv
  <2>1. /\ UNCHANGED <<okStart, RPR, lag>> /\ okStart /\ OnTime /\ lag = 0
        /\ call'.op = "mark" /\ call'.pos = RPR
    BY CallFacts DEF GetPosCurr, CallOnly, dma, Calling, Fits
  <2>2. RPR \in Slots /\ Room(RPR, RPR) = BufSiz /\ BufSiz >= BufSiz - 0
    BY <2>1, OnTimeInRing, SlotIsPosition, Sizes
  <2> QED
    BY <2>1, <2>2 DEF WalkInv, Walks
<1>4. ASSUME NEW pin \in Pins, ReadAnalogPin(pin) PROVE WalkInv'
  BY <1>4, NoWalk DEF ReadAnalogPin, Calling
<1>5. ASSUME NEW nrMeas \in NrMeas, getMeasures(nrMeas) PROVE WalkInv'
  BY <1>5, NoWalk DEF getMeasures, Calling
<1>6. Started \/ Stopped => WalkInv'
  BY <1>0, NoWalk DEF Started, Stopped, Return
<1>7. ReadPointer \/ ReadEntry \/ SpeedInterrupt \/ MeasureEntry => WalkInv'
  <2> SUFFICES ASSUME ReadPointer \/ ReadEntry \/ SpeedInterrupt \/ MeasureEntry
               PROVE  WalkInv'
    OBVIOUS
  <2>1. call' = Idle \/ call'.op \in {"entry", "read", "speed", "measures"}
    BY DEF ReadPointer, ReadEntry, SpeedInterrupt, MeasureEntry, Return, RInv, CallOK, Calls
  <2> QED
    BY <1>0, <2>1, NoWalk
<1>8. adcHandler => WalkInv'
  <2> SUFFICES ASSUME adcHandler, Fits', call'.op \in {"mark", "find", "sum"} PROVE WalkInv'
    BY DEF WalkInv, Walks
  <2>1. UNCHANGED <<enabcha, NumChEn, okStart, Buffer, lag>> /\ okStart /\ Fits
    BY DEF adcHandler, pins, RInv, MachineInv, DmaInv, Fits, StrideFits
  <2>2. RPR' = RPR
    BY <2>1, OnTimeInRing DEF adcHandler, Fits
  <2>3. call' = call
    BY DEF adcHandler, RInv, CallOK, Calls
  <2> QED
    BY <2>1, <2>2, <2>3 DEF WalkInv, Steps, Behind, Rank, Channels
<1> QED
  BY <1>1, <1>2, <1>3, <1>4, <1>5, <1>6, <1>7, <1>8, WalkStored, WalkFound, WalkHeld, WalkLooks,
     RingCases

\* A walk misses its pin only where the ring was never filled: past the end of the ring and
\* with any number of channels, too, as long as the end-of-buffer interrupt is served within
\* a lap (DueAdcFast.cpp:464-475 and 513-547).
THEOREM WalksMeetTheirPin == Spec => []MissesOnlyUnfilled
<1>1. Init => RingInv /\ WalkInv
  BY IdleFacts DEF Init, RingInv, WalkInv, Walks
<1>2. RInv /\ RingInv /\ WalkInv /\ [Next]_vars /\ RInv' => RingInv' /\ WalkInv'
  <2> SUFFICES ASSUME RInv, RingInv, WalkInv, [Next]_vars, RInv' PROVE RingInv' /\ WalkInv'
    OBVIOUS
  <2>1. UNCHANGED vars => RingInv' /\ WalkInv'
    BY DEF vars, RingInv, RoundRobin, Lapped, Rank, Onward, Channels, WalkInv, Walks, Steps,
       Behind, Fits, StrideFits, pins, kept, dma, history
  <2> QED
    BY <2>1, RingStep, WalkStep
<1>3. RInv /\ RingInv /\ WalkInv => MissesOnlyUnfilled
  BY WalksMissUnfilled
<1> QED
  BY <1>1, <1>2, <1>3, RingInvariance, PTL DEF Spec


=============================================================================
