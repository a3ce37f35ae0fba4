----------------------------- MODULE DueAdcRing -----------------------------
(* DueAdcFast.cpp: the free-running converter of the receiver fills a ring of
   BufSiz measures by DMA while the sketch's calls walk backwards from the
   DMA's write pointer.  A ring entry is abstracted to the channel tag in its
   high bits (Unset for the 0xFFFF of a cleared entry): the values play no part
   in which entries a call takes.  Positions are entries from Buffer, 0..BufSiz.

   The converter (ADC) and its DMA channel (PDC) are external.  Three bounds on
   the environment are named: Lag, how many measures the DMA may store while a
   call walks the ring; Reach, how far back a call asks while the converter
   runs, which the library advises to be at most half of the ring
   (DueAdcFast.cpp:615); and Asked, how many measures getMeasures is asked for
   while it is stopped.  The library checks none of them. *)
EXTENDS Naturals, FiniteSets, FiniteSetsExt, Sequences

CONSTANTS BufSiz,     \* entries of the ring, at least 1024 in the code
          Pins,       \* analog pins the sketch may enable, in 0..11 for A0..A11
          Lag, Reach, Asked,
          OnTime      \* every end-of-buffer interrupt is served within a lap

ASSUME RingAssumption ==
    /\ BufSiz \in Nat \ {0} /\ Pins \subseteq 0..11
    /\ Lag \in Nat /\ Reach \in Nat /\ Lag + Reach <= BufSiz /\ Asked \in Nat
    /\ OnTime \in BOOLEAN
    /\ Cardinality(Pins) <= Reach

VARIABLES
    enablPin, enablDif,    \* pins enabled, pins enabled in differential mode
    enabcha, NumChEn,      \* channels enabled at the start, pins counted since
    okStart, okHandler,
    Buffer,                \* the tags in the ring
    RPR, RCR, RNCR, ENDRX, \* the PDC: pointer, counters, end of a buffer
    converted,             \* the channel converted last
    lastRPR, MeasRPR,      \* pointers kept by the library, Null for 0
    call,                  \* the call the sketch is in
    lag,                   \* measures stored since the call read its position
    taken,                 \* history: entries getMeasures has already returned
    read                   \* history: the entry ReadAnalogPin returned last

pins == <<enablPin, enablDif, enabcha, NumChEn>>
dma == <<Buffer, RPR, RCR, RNCR, ENDRX, converted>>
kept == <<lastRPR, MeasRPR>>
history == <<taken, read>>
vars == <<pins, okStart, okHandler, dma, kept, call, lag, history>>

Slots == 0..(BufSiz - 1)
Unset == 15            \* the tag of a cleared entry, 0xF
Null == BufSiz + 1     \* the null pointer

channel(pin) == IF pin <= 7 THEN 7 - pin ELSE pin + 2
Negative(pin) == IF pin <= 7 THEN pin - 1 ELSE pin + 1
Differential == {1, 3, 5, 7, 8, 10}

\* prpr--; if (prpr < Buffer) prpr = Buffer + BufSiz - 1
Before(pos) == IF pos = 0 THEN BufSiz - 1 ELSE pos - 1
BackFromLast(pos, n) == IF n <= pos THEN pos - n ELSE BufSiz - 1 - (n - pos)  \* a deviation
Back(pos, n) == (pos + BufSiz - n) % BufSiz

\* The call in progress: the tag it wants, where it is in the ring, and how many
\* entries or measures it has left.
Calling(op, want, pos, left, more) ==
    [op |-> op, want |-> want, pos |-> pos, left |-> left, more |-> more]
Idle == Calling("none", Unset, 0, 0, 0)
Returning == call = Idle
Return == call' = Idle /\ lag' = 0

Init ==
    /\ enablPin = {} /\ enablDif = {} /\ enabcha = {} /\ NumChEn = 0
    /\ okStart = FALSE /\ okHandler = FALSE
    /\ Buffer = [i \in Slots |-> Unset]
    /\ RPR = 0 /\ RCR = 0 /\ RNCR = 0 /\ ENDRX = FALSE /\ converted = Unset
    /\ lastRPR = Null /\ MeasRPR = Null
    /\ call = Idle /\ lag = 0
    /\ taken = {} /\ read = {}

-----------------------------------------------------------------------------
(* The pins.  They may be changed while the converter runs, which goes on with
   the channels of its start; the library only asks callers not to. *)

ChangePins == Returning
PinsOnly == UNCHANGED <<enabcha, NumChEn, okStart, okHandler, dma, kept, call,
                        lag, history>>

EnablePin(pin) ==
    /\ ChangePins /\ PinsOnly
    /\ enablPin' = enablPin \cup {pin}
    /\ UNCHANGED enablDif

EnableDif(pin) ==
    /\ ChangePins /\ PinsOnly
    /\ pin \in Differential
    /\ enablDif' = enablDif \cup {pin}
    /\ enablPin' = (enablPin \cup {pin}) \ {Negative(pin)}

DisEnabPin ==
    /\ ChangePins /\ PinsOnly
    /\ enablPin' = {} /\ enablDif' = {}

EnabledPins == enablPin   \* a deviation: pairs not masked
\* A pin that is the negative input of a differential pair is not sampled.
Sampled == enablPin \ {Negative(pin) : pin \in enablDif}

\* Start, Start1Mhz, Start(prescaler): all three are gostart.  On a running
\* converter it counts the pins again and leaves the channels as they are.
gostart ==
    /\ Returning
    /\ enablPin' = Sampled
    /\ NumChEn' = Cardinality(Sampled)
    /\ IF ~okStart /\ Sampled # {}
       THEN /\ Buffer' = [i \in Slots |-> Unset]
            /\ RPR' = 0 /\ RCR' = BufSiz /\ RNCR' = BufSiz
            /\ ENDRX' = FALSE /\ converted' = Unset
            /\ lastRPR' = 0 /\ MeasRPR' = Null
            /\ okHandler' = TRUE /\ okStart' = TRUE
            /\ enabcha' = {channel(pin) : pin \in Sampled}
            /\ call' = Calling("start", Unset, 0, 0, 0)
            /\ taken' = {} /\ read' = {}
       ELSE /\ call' = Idle
            /\ UNCHANGED <<dma, kept, okHandler, okStart, enabcha, history>>
    /\ UNCHANGED <<enablDif, lag>>

\* The wait for the first NumChEn measures.
Started ==
    /\ call.op = "start" /\ RCR <= BufSiz - NumChEn
    /\ Return
    /\ UNCHANGED <<pins, okStart, okHandler, dma, kept, history>>

\* Stop reads the pointer first and silences the DMA afterwards.
Stop ==
    /\ Returning /\ okStart
    /\ lastRPR' = RPR
    /\ call' = Calling("stop", Unset, 0, 0, 0)
    /\ UNCHANGED <<pins, okStart, okHandler, dma, MeasRPR, lag, history>>

Stopped ==
    /\ call.op = "stop"
    /\ okHandler' = FALSE /\ okStart' = FALSE
    /\ RPR' = 0 /\ RCR' = 0 /\ RNCR' = 0 /\ ENDRX' = FALSE /\ converted' = Unset
    /\ Return
    /\ read' = {}
    /\ UNCHANGED <<pins, Buffer, kept, taken>>

-----------------------------------------------------------------------------
(* The converter and its DMA channel. *)

\* Enabled channels are converted in ascending order, round and round.
NextChannel ==
    LET above == {ch \in enabcha : converted = Unset \/ ch > converted} IN
    Min(IF above # {} THEN above ELSE enabcha)

\* Calls that wait for the DMA are not limited by Lag, the walks are; a stop
\* lets at most the conversion under way end.
MayStore ==
    CASE call.op \in {"none", "start", "read", "entry", "speed"} -> TRUE
      [] call.op = "stop" -> lag < 1
      [] OTHER -> lag < Lag

Convert ==
    /\ okStart /\ MayStore
    /\ OnTime => RCR > 1 \/ RNCR > 0
    /\ converted' = NextChannel
    /\ IF RCR = 0
       THEN UNCHANGED <<Buffer, RPR, RCR, RNCR, ENDRX, history>>   \* measure lost
       ELSE /\ Buffer' = [Buffer EXCEPT ![RPR] = NextChannel]
            /\ taken' = taken \ {RPR} /\ read' = read \ {RPR}
            /\ IF RCR > 1
               THEN RPR' = RPR + 1 /\ RCR' = RCR - 1 /\ UNCHANGED <<RNCR, ENDRX>>
               ELSE /\ ENDRX' = TRUE
                    /\ RPR' = IF RNCR > 0 THEN 0 ELSE RPR + 1
                    /\ RCR' = RNCR /\ RNCR' = 0
    /\ lag' = IF Returning \/ call.op \in {"start", "read", "entry", "speed"}
              THEN 0 ELSE lag + 1
    /\ UNCHANGED <<pins, okStart, okHandler, kept, call>>

\* A deviation: a ring that ran dry goes on behind its end.
adcHandlerNoPointer ==
    /\ okHandler /\ ENDRX
    /\ ENDRX' = FALSE
    /\ IF RCR = 0 THEN RCR' = BufSiz /\ RNCR' = 0 ELSE RNCR' = BufSiz /\ UNCHANGED RCR
    /\ call' = IF call.op = "speed" THEN [call EXCEPT !.more = 1] ELSE call
    /\ UNCHANGED <<pins, okStart, okHandler, Buffer, RPR, converted, kept, lag,
                   history>>

\* ADC_Handler: the next buffer is the same ring; one that ran dry goes on.
\* countHand is modelled by whether it differs from the copy MeasureSpeed took.
adcHandler ==
    /\ okHandler /\ ENDRX
    /\ ENDRX' = FALSE
    /\ IF RCR = 0
       THEN RPR' = 0 /\ RCR' = BufSiz /\ RNCR' = 0
       ELSE RNCR' = BufSiz /\ UNCHANGED <<RPR, RCR>>
    /\ call' = IF call.op = "speed" THEN [call EXCEPT !.more = 1] ELSE call
    /\ UNCHANGED <<pins, okStart, okHandler, Buffer, converted, kept, lag,
                   history>>

-----------------------------------------------------------------------------
(* The calls that read.  A call on a pin that is not sampled, while stopped, or
   for a walk of no entries returns 0xFFFF at once and changes nothing. *)

Reads(pin) == Returning /\ okStart /\ channel(pin) \in enabcha
CallOnly == UNCHANGED <<pins, okStart, okHandler, dma>>

ReadAnalogPinByPin(pin) ==   \* a deviation: the pin's number taken for its channel
    /\ Reads(pin) /\ CallOnly
    /\ call' = Calling("read", pin, 0, 0, 0)
    /\ UNCHANGED <<lag, kept, history>>

ReadAnalogPin(pin) ==
    /\ Reads(pin) /\ CallOnly
    /\ call' = Calling("read", channel(pin), 0, 0, 0)
    /\ UNCHANGED <<lag, kept, history>>

\* A deviation: the pointer is not remembered.
ReadPointerForgets ==
    /\ call.op = "read" /\ RPR # lastRPR /\ CallOnly
    /\ call' = [call EXCEPT !.op = "entry", !.pos = Before(RPR)]
    /\ UNCHANGED <<lag, kept, history>>

\* Waits for the pointer to move, then looks at the entry before it.
ReadPointer ==
    /\ call.op = "read" /\ RPR # lastRPR /\ CallOnly
    /\ lastRPR' = RPR
    /\ call' = [call EXCEPT !.op = "entry", !.pos = Before(RPR)]
    /\ UNCHANGED <<lag, MeasRPR, history>>

ReadEntry ==
    /\ call.op = "entry" /\ CallOnly
    /\ IF Buffer[call.pos] = call.want
       THEN Return /\ read' = {call.pos}
       ELSE call' = [call EXCEPT !.op = "read"] /\ UNCHANGED <<lag, read>>
    /\ UNCHANGED <<kept, taken>>

\* FindValueForPin is FindAvgForPinPos at the current position, of one measure
\* with nothing skipped: the same walk over the last NumChEn entries.
FindValueForPin(pin) ==
    /\ Reads(pin) /\ NumChEn > 0 /\ CallOnly
    /\ call' = Calling("find", channel(pin), RPR, NumChEn, 0)
    /\ UNCHANGED <<lag, kept, history>>

\* The position is held for a later FindAvgForPinPos.
GetPosCurr ==
    /\ Returning /\ okStart /\ CallOnly
    /\ call' = Calling("mark", Unset, RPR, 0, 0)
    /\ UNCHANGED <<lag, kept, history>>

FindAvgForPinPos(pin, pSkip, nrM) ==
    /\ call.op = "mark" /\ channel(pin) \in enabcha /\ CallOnly
    /\ pSkip + NumChEn * nrM <= Reach
    /\ IF NumChEn = 0
       THEN Return
       ELSE /\ call' = Calling("find", channel(pin),
                               IF pSkip = 0 THEN call.pos ELSE Back(call.pos, pSkip),
                               NumChEn, nrM - 1)
            /\ UNCHANGED lag
    /\ UNCHANGED <<kept, history>>

\* The entry the walk looks at next, and the walk that ends without its pin: it
\* returns 0xFFFF.
Entry == IF call.op = "sum" THEN Back(call.pos, NumChEn) ELSE Before(call.pos)
Found == Buffer[Entry] = call.want
Misses == \/ call.op = "find" /\ ~Found /\ call.left = 1
          \/ call.op = "sum" /\ ~Found

\* The walk to the pin's last measure, and from there on to its earlier ones,
\* NumChEn entries apart.
FindEntry ==
    /\ call.op \in {"find", "sum"} /\ CallOnly
    /\ IF Misses \/ (Found /\ call.more = 0)
       THEN Return
       ELSE /\ call' = [call EXCEPT !.pos = Entry,
                                   !.op = IF Found THEN "sum" ELSE "find",
                                   !.left = IF Found THEN 0 ELSE @ - 1,
                                   !.more = IF Found THEN @ - 1 ELSE @]
            /\ UNCHANGED lag
    /\ UNCHANGED <<kept, history>>

\* The pointer the two functions on all measures start from.
curRPR == IF okStart THEN RPR ELSE lastRPR
lastTakenNoWrap ==   \* a deviation: the entry before the ring's start is not its last
    IF MeasRPR \in {Null, 0} THEN Null ELSE Before(MeasRPR)
lastTaken == IF MeasRPR = Null THEN Null ELSE Before(MeasRPR)

\* External: how many measures the sketch asks for.
NrMeas == 1..(IF okStart THEN Reach ELSE Asked)

getMeasures(nrMeas) ==
    /\ Returning /\ CallOnly
    /\ curRPR # Null /\ curRPR # MeasRPR
    /\ call' = Calling("measures", Unset, curRPR, nrMeas, lastTaken)
    /\ MeasRPR' = curRPR
    /\ UNCHANGED <<lag, lastRPR, history>>

\* Back to the newest entry returned before, or to one never filled.
MeasureEntry ==
    LET pos == Before(call.pos) IN
    /\ call.op = "measures" /\ CallOnly
    /\ IF pos = call.more \/ Buffer[pos] = Unset
       THEN Return /\ UNCHANGED taken
       ELSE /\ taken' = taken \cup {pos}
            /\ IF call.left = 1
               THEN Return
               ELSE call' = [call EXCEPT !.pos = pos, !.left = @ - 1] /\ UNCHANGED lag
    /\ UNCHANGED <<kept, read>>

\* A deviation: a pointer at the start of the ring is taken for a ring never filled.
isMeasuresNoLap ==
    curRPR # Null /\ IF MeasRPR = Null THEN curRPR # 0 ELSE MeasRPR # curRPR

isMeasures ==
    /\ curRPR # Null
    /\ IF MeasRPR = Null
       THEN curRPR = 0 => Buffer[BufSiz - 1] # Unset
       ELSE MeasRPR # curRPR

\* Waits for two changes of countHand.
MeasureSpeed ==
    /\ Returning /\ okStart /\ CallOnly
    /\ call' = Calling("speed", Unset, 0, 2, 0)
    /\ UNCHANGED <<lag, kept, history>>

SpeedInterrupt ==
    /\ call.op = "speed" /\ call.more = 1 /\ CallOnly
    /\ IF call.left = 1
       THEN Return
       ELSE call' = [call EXCEPT !.left = 1, !.more = 0] /\ UNCHANGED lag
    /\ UNCHANGED <<kept, history>>

-----------------------------------------------------------------------------
Configure == DisEnabPin \/ \E pin \in Pins : EnablePin(pin) \/ EnableDif(pin)

\* A step of the call the sketch is in.
Proceed == \/ Started \/ Stopped \/ ReadPointer \/ ReadEntry \/ FindEntry
           \/ MeasureEntry \/ SpeedInterrupt

NewCall ==
    \/ gostart \/ Stop \/ GetPosCurr \/ MeasureSpeed
    \/ \E pin \in Pins :
          \/ ReadAnalogPin(pin)
          \/ FindValueForPin(pin)
          \/ \E pSkip \in 0..Reach, nrM \in 1..Reach : FindAvgForPinPos(pin, pSkip, nrM)
    \/ \E nrMeas \in NrMeas : getMeasures(nrMeas)

Next == Configure \/ NewCall \/ Proceed \/ Convert \/ adcHandler

Spec == Init /\ [][Next]_vars

\* The converter never rests while started, interrupts are served, and the
\* sketch polls faster than the converter converts: a pointer or a counter that
\* keeps moving is seen moving.
Fairness == WF_vars(Convert) /\ WF_vars(adcHandler) /\ SF_vars(Proceed)

FairSpec == Spec /\ Fairness

-----------------------------------------------------------------------------
TypeOK ==
    /\ enablPin \subseteq Pins /\ enablDif \subseteq Pins
    /\ enabcha \subseteq {channel(pin) : pin \in Pins}
    /\ NumChEn \in 0..Cardinality(Pins)
    /\ okStart \in BOOLEAN /\ okHandler \in BOOLEAN
    /\ Buffer \in [Slots -> 0..15]
    /\ RPR \in 0..BufSiz /\ RCR \in 0..BufSiz /\ RNCR \in {0, BufSiz}
    /\ ENDRX \in BOOLEAN /\ converted \in 0..15
    /\ lastRPR \in 0..Null /\ MeasRPR \in 0..Null
    /\ lag \in 0..BufSiz
    /\ taken \subseteq Slots /\ read \subseteq Slots

\* A start samples a differential pair as one channel, the positive pin's,
\* whatever order its pins were enabled in and whatever was enabled when an
\* earlier start found the converter running; the walks' stride it leaves is the
\* number of channels really sampled (EnableDif, gostart).
PairsSampledOnce ==
    call.op = "start" =>
        /\ \A pin \in enablDif : channel(Negative(pin)) \notin enabcha
        /\ NumChEn = Cardinality(enabcha)

\* getMeasures never returns a measure twice, over any number of calls, laps of
\* the ring and a Stop in between (lines 617-663, "valore gia' restituito"), if
\* it is asked for no more than the ring holds.
MeasuresReturnedOnce ==
    LET pos == Before(call.pos) IN
    call.op = "measures" /\ pos # call.more /\ Buffer[pos] # Unset => pos \notin taken

\* ReadAnalogPin never returns the measure it returned before, however long it
\* waits and however many laps the DMA makes, as long as the end-of-buffer
\* interrupt keeps the DMA running (lines 433-444).
ReadsAreFresh ==
    OnTime /\ call.op = "entry" /\ Buffer[call.pos] = call.want
        => call.pos \notin read

\* isMeasures says whether getMeasures would return anything (the comment at
\* 666): the two keep different special cases for the null pointer.
IsMeasuresAgrees ==
    OnTime /\ Returning /\ curRPR # Null =>
        (isMeasures <=> /\ curRPR # MeasRPR
                        /\ Before(curRPR) # lastTaken
                        /\ Buffer[Before(curRPR)] # Unset)

\* The walks' stride is the number of channels sampled: no start has counted
\* other pins since the converter runs.
StrideFits == NumChEn = Cardinality(enabcha)

\* A walk misses its pin only on entries that were never filled: over the end
\* of the ring too, and when BufSiz is no multiple of NumChEn (lines 464-475
\* and 513-547).
MissesOnlyUnfilled == OnTime /\ StrideFits /\ Misses => Buffer[Entry] = Unset

\* A call that waits for the converter returns.  ReadAnalogPin is sure to only
\* when one channel is sampled, as in the receiver: of several it may meet
\* another channel's measure each time it looks.
CallsReturn ==
    (\/ call.op \in {"start", "stop", "speed"}
     \/ call.op \in {"read", "entry"} /\ Cardinality(enabcha) = 1) ~> Returning
=============================================================================
