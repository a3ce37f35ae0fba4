------------------------- MODULE TransmitterProofs -------------------------
(***************************************************************************)
(* Theorems about Transmitter, for every set of messages, every frame and  *)
(* every value of the build's constants: types, in every build, and then   *)
(* what construct_frame leaves behind for the timer handler, in builds     *)
(* with one activation of construct_frame at a time: an active schedule is *)
(* the frame of one message, whoever built it and whatever the handler did *)
(* meanwhile; gaps keep their length; messages are sent as often as they   *)
(* should; and a compare value is 0 nowhere but behind the end of a line   *)
(* longer than the first frame.  Last, what the light shows where the main *)
(* thread is the only caller: a frame comes whole, in either polarity; if  *)
(* the timer handler of an event runs before the SPIS handler it starts on *)
(* the right symbol and reads as the message, and the control core         *)
(* implements FrameSource.                                                 *)
(***************************************************************************)
EXTENDS Transmitter, InductionLemmas

-----------------------------------------------------------------------------
(* Type correctness, in every build, with a serial handler that may break in *)
(* on the main thread anywhere.  An index of construct_pauses stays in its   *)
(* array because the periods stored so far and the run being measured        *)
(* account for the bits read, and those are bounded by the frame.            *)

ScanBounded(c) ==
    /\ call[c].pc \in {"append", "scan"} => call[c].pos <= FrameSize(c)
    /\ call[c].pc = "scan" => call[c].periods + call[c].run <= call[c].pos

TypeInv == TypeOK /\ \A c \in Callers : ScanBounded(c)

LEMMA FrameSizeBound ==
    ASSUME NEW m \in Messages
    PROVE  /\ Len(FrameBits[m]) \in 1..Slots
           /\ FrameBits[m] \in Seq({0, 1})
           /\ \A i \in 0..(Len(FrameBits[m]) - 1) : FrameBits[m][i + 1] \in {0, 1}
BY MessagesAssumption

LEMMA PointsFact ==
    /\ Steps \subseteq Points
    /\ {"enter", "append", "scan", "setLength", "setIndex", "setStarted",
        "setPulse", "publish"} \subseteq Points
    /\ {"power", "wait", "idle", "unpause"} \subseteq Points
BY DEF Points, Steps

LEMMA TypeInit == Init => TypeInv
<1> SUFFICES ASSUME Init PROVE TypeInv
  OBVIOUS
<1> USE MessagesAssumption, BuildAssumption DEF Init
<1>1. call \in [Callers -> Activation]
  BY DEF Callers, Activation, Points, Steps
<1>2. TypeOK
  <2>1. air \in Seq([level: {0, 1}, run: 0..PeriodMax])
    OBVIOUS
  <2>2. /\ 0 \in 0..Slots /\ 0 \in 0..PeriodMax /\ 1 \in 0..PeriodMax
        /\ 0 \in 0..(CounterMod - 1) /\ 0 \in 0..NrPulses
        /\ 0 \in 0..(NrPulses + 1) /\ 0 \in 0..(NumberOfMessages + 1)
    BY DEF PeriodMax, GapPeriods
  <2> QED
    BY <1>1, <2>1, <2>2 DEF TypeOK, PeriodMax, GapPeriods
<1>3. \A c \in Callers : ScanBounded(c)
  BY DEF Callers, ScanBounded
<1> QED
  BY <1>2, <1>3 DEF TypeInv

\* The steps of construct_frame, by either caller.
LEMMA TypeConstruct ==
    ASSUME TypeInv, NEW c \in Callers, ConstructFrame(c)
    PROVE  TypeInv'
<1> DEFINE a == call[c]
<1> USE DEF TypeInv
<1>s. Slots \in Nat /\ NrPulses \in Nat /\ NumberOfMessages \in Nat /\ CounterMod \in Nat \ {0}
  BY MessagesAssumption, BuildAssumption
<1>z. 0 \in 0..Slots
  BY <1>s
<1>A. a \in Activation
  BY DEF TypeOK
<1>P. /\ "append" \in Points /\ "scan" \in Points /\ "setIndex" \in Points
      /\ "setStarted" \in Points /\ "setPulse" \in Points /\ "publish" \in Points
      /\ "power" \in Points /\ "wait" \in Points /\ "unpause" \in Points
  BY PointsFact
<1>a. /\ a \in Activation
      /\ a.msg \in Messages
      /\ FrameSize(c) \in 1..Slots
      /\ FrameBits[a.msg] \in Seq({0, 1})
      /\ \A i \in 0..(FrameSize(c) - 1) : FrameBits[a.msg][i + 1] \in {0, 1}
  BY <1>P, FrameSizeBound DEF TypeOK, Activation, FrameSize
<1>b. a.pos \in 0..Slots /\ a.run \in 0..Slots /\ a.periods \in 0..Slots
  BY <1>P, <1>a DEF Activation
<1>c. call \in [Callers -> Activation] /\ \A d \in Callers : ScanBounded(d)
  BY DEF TypeOK
<1>1. CASE Enter(c)
  <2>r. [a EXCEPT !.pc = "append", !.pos = 0] \in Activation
    BY <1>P, <1>s, <1>z, <1>A DEF Activation
  <2>1. call' \in [Callers -> Activation]
    BY <1>c, <1>1, <2>r DEF Enter
  <2>2. TypeOK'
    BY <1>s, <1>1, <2>1 DEF Enter, TypeOK, schedule, counters, pattern, timer, history
  <2>3. \A d \in Callers : ScanBounded(d)'
    BY <1>s, <1>c, <1>1, <1>a DEF Activation, Enter, ScanBounded, FrameSize
  <2> QED
    BY <2>2, <2>3
<1>2. CASE AppendBit(c)
  <2>0. /\ a.pos < FrameSize(c)
        /\ a.pos + 1 \in 0..Slots
        /\ FrameBits[a.msg][a.pos + 1] \in {0, 1}
    <3>1. a.pos < FrameSize(c)
      BY <1>2 DEF AppendBit
    <3>2. a.pos \in 0..(FrameSize(c) - 1) /\ a.pos + 1 \in 0..Slots
      BY <1>s, <1>a, <1>b, <3>1
    <3> QED
      BY <1>a, <3>1, <3>2
  <2>1. call' \in [Callers -> Activation]
    BY <1>c, <1>2, <2>0 DEF AppendBit, Activation
  <2>2. TypeOK'
    BY <1>s, <1>2, <2>0, <2>1 DEF AppendBit, TypeOK, schedule, counters, pattern, timer, history
  <2>3. \A d \in Callers : ScanBounded(d)'
    BY <1>s, <1>c, <1>2, <1>a, <1>b, <2>0 DEF Activation, AppendBit, At, ScanBounded, FrameSize
  <2> QED
    BY <2>2, <2>3
<1>3. CASE StartScan(c)
  <2>r. [a EXCEPT !.pc = "scan", !.pos = 0, !.run = 0, !.periods = 0] \in Activation
    BY <1>P, <1>s, <1>z, <1>A DEF Activation
  <2>1. call' \in [Callers -> Activation]
    BY <1>c, <1>3, <2>r DEF StartScan
  <2>2. TypeOK'
    BY <1>s, <1>3, <2>1 DEF StartScan, TypeOK, schedule, counters, pattern, timer, history
  <2>3. \A d \in Callers : ScanBounded(d)'
    BY <1>s, <1>c, <1>3, <1>a DEF Activation, StartScan, ScanBounded, FrameSize
  <2> QED
    BY <2>2, <2>3
<1>4. CASE CountBit(c)
  <2>a. a.pos < FrameSize(c) /\ a.periods + a.run <= a.pos
    BY <1>4, <1>c DEF CountBit, InRun, At, ScanBounded
  <2>b. frame \in [0..(Slots - 1) -> {0, 1}]
    BY DEF TypeOK
  <2>0. /\ a.pos < FrameSize(c)
        /\ a.periods + a.run <= a.pos
        /\ frame[a.pos] \in {0, 1}
        /\ a.pos + 1 \in 0..Slots
        /\ a.run + 1 \in 0..Slots
    <3>1. FrameSize(c) \in 1..Slots
      BY <1>a
    <3>2. a.pos \in 0..(Slots - 1) /\ a.pos + 1 \in 0..Slots /\ a.run + 1 \in 0..Slots
      BY <1>s, <1>b, <2>a, <3>1
    <3> QED
      BY <2>a, <2>b, <3>2
  <2>1. call' \in [Callers -> Activation]
    BY <1>P, <1>s, <1>z, <1>c, <1>4, <1>a, <1>b, <2>0 DEF CountBit, Activation
  <2>2. TypeOK'
    BY <1>s, <1>4, <2>1 DEF CountBit, TypeOK, schedule, counters, pattern, timer, history
  <2>3. \A d \in Callers : ScanBounded(d)'
    BY SMTT(30), <1>s, <1>c, <1>4, <1>a, <1>b, <2>0 DEF Activation, CountBit, At, ScanBounded, FrameSize
  <2> QED
    BY <2>2, <2>3
<1>5. CASE StorePeriod(c)
  <2>0. /\ a.run > 0
        /\ a.pos <= FrameSize(c)
        /\ a.periods + a.run <= a.pos
    BY <1>s, <1>5 DEF StorePeriod, At, ScanBounded
  <2>1. call' \in [Callers -> Activation]
    BY SMTT(30), <1>P, <1>s, <1>z, <1>c, <1>5, <1>a, <1>b, <2>0 DEF StorePeriod, Activation
  <2>2. factor_periods' \in [0..Slots -> 0..PeriodMax]
    <3>1. a.run \in 0..PeriodMax
      BY <1>s, <1>b DEF PeriodMax, GapPeriods
    <3>2. factor_periods \in [0..Slots -> 0..PeriodMax]
      BY DEF TypeOK
    <3> QED
      BY <1>5, <1>b, <3>1, <3>2 DEF StorePeriod
  <2>3. TypeOK'
    BY <1>s, <1>5, <2>1, <2>2 DEF StorePeriod, TypeOK, counters, pattern, timer, history
  <2>4. \A d \in Callers : ScanBounded(d)'
    BY <1>s, <1>c, <1>5, <1>a, <1>b, <2>0 DEF Activation, StorePeriod, At, ScanBounded, FrameSize
  <2> QED
    BY <2>3, <2>4
<1>6. CASE SetLength(c)
  <2>1. call' \in [Callers -> Activation]
    BY <1>P, <1>c, <1>6, <1>a DEF SetLength, Goto, Activation
  <2>2. TypeOK'
    BY <1>s, <1>6, <1>b, <2>1 DEF SetLength, TypeOK, counters, pattern, timer, history
  <2>3. \A d \in Callers : ScanBounded(d)'
    BY <1>s, <1>c, <1>6, <1>a DEF Activation, SetLength, Goto, ScanBounded, FrameSize
  <2> QED
    BY <2>2, <2>3
<1>7. CASE SetIndex(c)
  <2>1. call' \in [Callers -> Activation]
    BY <1>P, <1>c, <1>7, <1>a DEF SetIndex, Goto, Activation
  <2>2. TypeOK'
    BY <1>s, <1>7, <1>b, <2>1 DEF SetIndex, TypeOK, counters, pattern, timer, history
  <2>3. \A d \in Callers : ScanBounded(d)'
    BY <1>s, <1>c, <1>7, <1>a DEF Activation, SetIndex, Goto, ScanBounded, FrameSize
  <2> QED
    BY <2>2, <2>3
<1>8. CASE SetStarted(c)
  <2>1. call' \in [Callers -> Activation]
    BY <1>P, <1>c, <1>8, <1>a DEF SetStarted, Goto, Activation
  <2>2. TypeOK'
    BY <1>s, <1>8, <2>1 DEF SetStarted, TypeOK, schedule, pattern, timer, history
  <2>3. \A d \in Callers : ScanBounded(d)'
    BY <1>s, <1>c, <1>8, <1>a DEF Activation, SetStarted, Goto, ScanBounded, FrameSize
  <2> QED
    BY <2>2, <2>3
<1>9. CASE SetPulse(c)
  <2>1. call' \in [Callers -> Activation]
    BY <1>P, <1>c, <1>9, <1>a DEF SetPulse, Goto, Activation
  <2>2. TypeOK'
    BY <1>s, <1>9, <2>1 DEF SetPulse, TypeOK, counters, pattern, timer, history,
                      PeriodMax, GapPeriods
  <2>3. \A d \in Callers : ScanBounded(d)'
    BY <1>s, <1>c, <1>9, <1>a DEF Activation, SetPulse, Goto, ScanBounded, FrameSize
  <2> QED
    BY <2>2, <2>3
<1>10. CASE Publish(c)
  <2>0. AfterConstruct(c) \in {"unpause", "power", "wait"}
    BY DEF AfterConstruct, Callers
  <2>1. call' \in [Callers -> Activation]
    BY <1>P, <1>c, <1>10, <1>a, <2>0 DEF Publish, Goto, Activation
  <2>z. 0 \in 0..(NumberOfMessages + 1)
    BY <1>s
  <2>2. TypeOK'
    BY <1>s, <1>10, <2>1, <2>z DEF Publish, Unpause, TypeOK, schedule, counters, pattern, timer
  <2>3. \A d \in Callers : ScanBounded(d)'
    BY <1>s, <1>c, <1>10, <1>a, <2>0 DEF Activation, Publish, Goto, ScanBounded, FrameSize
  <2> QED
    BY <2>2, <2>3
<1> QED
  BY <1>1, <1>2, <1>3, <1>4, <1>5, <1>6, <1>7, <1>8, <1>9, <1>10 DEF ConstructFrame

\* The threads' other steps and the interrupts.
LEMMA TypeThreads ==
    ASSUME TypeInv, TurnOnDMD \/ NextColour \/ ReceiveLine \/ UartUnpause \/ ButtonPressed
    PROVE  TypeInv'
<1> USE DEF TypeInv
<1>s. /\ Slots \in Nat /\ NumberOfMessages \in Nat
      /\ RgbMessages \subseteq Messages /\ UartMessages \subseteq Messages
  BY MessagesAssumption, BuildAssumption
<1>z. 0 \in 0..(NumberOfMessages + 1) /\ 1 \in 0..PeriodMax
  BY <1>s DEF PeriodMax, GapPeriods
<1>P. /\ "enter" \in Points /\ "wait" \in Points /\ "idle" \in Points
      /\ "main" \in Callers /\ "uart" \in Callers
  BY PointsFact DEF Callers
<1>c. call \in [Callers -> Activation] /\ \A d \in Callers : ScanBounded(d)
  BY DEF TypeOK
<1>1. CASE TurnOnDMD
  <2>1. call' \in [Callers -> Activation]
    BY <1>1, <1>P, <1>c DEF TurnOnDMD, Goto, Activation
  <2>2. TypeOK'
    BY <1>1, <1>z, <2>1 DEF TurnOnDMD, TypeOK, schedule, counters, pattern, history
  <2>3. \A d \in Callers : ScanBounded(d)'
    BY <1>1, <1>P, <1>c DEF TurnOnDMD, Goto, Activation, ScanBounded, FrameSize
  <2> QED
    BY <2>2, <2>3
<1>2. CASE NextColour
  <2>1. PICK m \in Messages :
          call' = [call EXCEPT !["main"].pc = "enter", !["main"].msg = m]
    BY <1>2, <1>s DEF NextColour
  <2>2. call' \in [Callers -> Activation]
    BY <1>P, <1>c, <2>1 DEF Activation
  <2>3. TypeOK'
    BY <1>2, <2>2 DEF NextColour, TypeOK, schedule, counters, pattern, timer, history
  <2>4. \A d \in Callers : ScanBounded(d)'
    BY <1>P, <1>c, <2>1 DEF Activation, ScanBounded, FrameSize
  <2> QED
    BY <2>3, <2>4
<1>3. CASE ReceiveLine
  <2>1. PICK m \in Messages :
          call' = [call EXCEPT !["uart"].pc = "enter", !["uart"].msg = m]
    BY <1>3, <1>s DEF ReceiveLine
  <2>2. call' \in [Callers -> Activation]
    BY <1>P, <1>c, <2>1 DEF Activation
  <2>3. TypeOK'
    BY <1>3, <2>2 DEF ReceiveLine, TypeOK, schedule, counters, pattern, timer, history
  <2>4. \A d \in Callers : ScanBounded(d)'
    BY <1>P, <1>c, <2>1 DEF Activation, ScanBounded, FrameSize
  <2> QED
    BY <2>3, <2>4
<1>4. CASE UartUnpause
  <2>1. call' \in [Callers -> Activation]
    BY <1>4, <1>P, <1>c DEF UartUnpause, Goto, Activation
  <2>2. TypeOK'
    BY <1>4, <1>z, <2>1 DEF UartUnpause, Unpause, TypeOK, schedule, counters, pattern, timer
  <2>3. \A d \in Callers : ScanBounded(d)'
    BY <1>4, <1>P, <1>c DEF UartUnpause, Goto, Activation, ScanBounded, FrameSize
  <2> QED
    BY <2>2, <2>3
<1>5. CASE ButtonPressed
  <2>1. TypeOK'
    BY <1>5, <1>z DEF ButtonPressed, Unpause, TypeOK, schedule, counters, pattern,
                      timer, builder
  <2>2. \A d \in Callers : ScanBounded(d)'
    BY <1>5, <1>c DEF ButtonPressed, builder, ScanBounded, FrameSize
  <2> QED
    BY <2>1, <2>2
<1> QED
  BY <1>1, <1>2, <1>3, <1>4, <1>5

LEMMA BoundedFact ==
    ASSUME NEW n \in Nat, NEW b \in Nat
    PROVE  Bounded(n, b) \in 0..b /\ (n <= b => Bounded(n, b) = n)
BY DEF Bounded

LEMMA TypeInterrupts ==
    ASSUME TypeInv, CompareEvent \/ SpisHandler \/ TimerHandler
    PROVE  TypeInv'
<1> USE DEF TypeInv
<1>s. /\ Slots \in Nat /\ NumberOfMessages \in Nat
      /\ NrPulses \in Nat /\ NrPulses >= 2
      /\ CounterMod \in Nat \ {0}
  BY MessagesAssumption, BuildAssumption
<1>c. \A d \in Callers : ScanBounded(d)
  OBVIOUS
<1>1. CASE CompareEvent
  <2>1. TypeOK'
    BY <1>1 DEF CompareEvent, TypeOK, schedule, counters, pattern, builder
  <2>2. \A d \in Callers : ScanBounded(d)'
    BY <1>1, <1>c DEF CompareEvent, builder, ScanBounded, FrameSize
  <2> QED
    BY <2>1, <2>2
<1>2. CASE SpisHandler
  <2>1. TypeOK'
    BY <1>2 DEF SpisHandler, ToggleSentSignal, TypeOK, schedule, counters, builder,
                history
  <2>2. \A d \in Callers : ScanBounded(d)'
    BY <1>2, <1>c DEF SpisHandler, builder, ScanBounded, FrameSize
  <2> QED
    BY <2>1, <2>2
<1>3. CASE TimerHandler
  <2>1. /\ cc' \in 0..PeriodMax
        /\ factor_periods[current_period_index] \in 0..PeriodMax
    BY <1>3 DEF TimerHandler, TypeOK
  <2>2. air' \in Seq([level: {0, 1}, run: 0..PeriodMax])
    <3>1. /\ [level |-> level, run |-> factor_periods[current_period_index]]
               \in [level: {0, 1}, run: 0..PeriodMax]
          /\ air \in Seq([level: {0, 1}, run: 0..PeriodMax])
      BY <2>1 DEF TypeOK
    <3> DEFINE entry == [level |-> level, run |-> factor_periods[current_period_index]]
    <3>2. /\ <<entry>> \in Seq([level: {0, 1}, run: 0..PeriodMax])
          /\ Append(air, entry) \in Seq([level: {0, 1}, run: 0..PeriodMax])
      BY <3>1
    <3>3. air' \in {air, <<entry>>, Append(air, entry)}
      BY <1>3 DEF TimerHandler, Observe
    <3> QED
      BY <3>1, <3>2, <3>3
  <2>3. gap' \in 0..(NrPulses + 1) /\ shown' \in 0..(NumberOfMessages + 1)
    <3>1. gap + 1 \in Nat /\ shown + 1 \in Nat /\ NrPulses + 1 \in Nat
          /\ NumberOfMessages + 1 \in Nat
      BY <1>s DEF TypeOK
    <3>2. /\ Bounded(gap + 1, NrPulses + 1) \in 0..(NrPulses + 1)
          /\ Bounded(shown + 1, NumberOfMessages + 1) \in 0..(NumberOfMessages + 1)
      BY <3>1, BoundedFact
    <3>3. /\ gap' \in {0, Bounded(gap + 1, NrPulses + 1)}
          /\ shown' \in {shown, Bounded(shown + 1, NumberOfMessages + 1)}
      BY <1>3 DEF TimerHandler, Observe
    <3>4. 0 \in 0..(NrPulses + 1)
      BY <1>s
    <3> QED
      BY <3>2, <3>3, <3>4 DEF TypeOK
  <2>4. /\ current_period_index' \in 0..Slots
        /\ messages_send_started' \in 0..(CounterMod - 1)
        /\ count_down_to_next_msg' \in 0..NrPulses
        /\ messages_paused' \in BOOLEAN
        /\ end_of_message' \in BOOLEAN
    <3>1. toggle_dmd
      BY <1>3 DEF TimerHandler
    <3>2. CASE StayPaused
      BY <3>2 DEF StayPaused, TypeOK, counters
    <3>3. CASE InFrame
      <4>1. current_period_index + 1 \in 0..Slots
        BY <1>s, <3>3 DEF InFrame, TypeOK
      <4> QED
        BY <3>3, <4>1 DEF InFrame, TypeOK, counters
    <3>4. CASE PauseAfterLast
      BY <1>s, <3>4 DEF PauseAfterLast, TypeOK
    <3>5. CASE StartCountDown
      BY <1>s, <3>5 DEF StartCountDown, TypeOK
    <3>6. CASE CountDown
      <4>1. (messages_send_started + 1) % CounterMod \in 0..(CounterMod - 1)
        BY <1>s DEF TypeOK
      <4>2. count_down_to_next_msg' \in 0..NrPulses /\ 0 \in 0..Slots
        BY <1>s, <3>6 DEF CountDown, TypeOK
      <4> QED
        BY <3>6, <4>1, <4>2 DEF CountDown, TypeOK
    <3> QED
      BY <3>1, <3>2, <3>3, <3>4, <3>5, <3>6 DEF toggle_dmd
  <2>5. TypeOK'
    BY <1>3, <2>1, <2>2, <2>3, <2>4 DEF TimerHandler, TypeOK, pattern, builder
  <2>6. \A d \in Callers : ScanBounded(d)'
    BY <1>3, <1>c DEF TimerHandler, builder, ScanBounded, FrameSize
  <2> QED
    BY <2>5, <2>6
<1> QED
  BY <1>1, <1>2, <1>3

LEMMA TypeStep == TypeInv /\ [Next]_vars => TypeInv'
<1> SUFFICES ASSUME TypeInv, [Next]_vars PROVE TypeInv'
  OBVIOUS
<1>1. CASE Main
  BY <1>1, TypeConstruct, TypeThreads DEF Main, Callers
<1>2. CASE Uart
  BY <1>2, TypeConstruct, TypeThreads DEF Uart, Callers
<1>3. CASE ReceiveLine \/ ButtonPressed
  BY <1>3, TypeThreads
<1>4. CASE CompareEvent \/ SpisHandler \/ TimerHandler
  BY <1>4, TypeInterrupts
<1>5. CASE UNCHANGED vars
  BY <1>5 DEF vars, schedule, counters, pattern, timer, builder, history, TypeInv,
              TypeOK, ScanBounded, FrameSize
<1> QED
  BY <1>1, <1>2, <1>3, <1>4, <1>5 DEF Next

\* Every variable keeps its type, whatever build and whatever messages: no
\* index of the frame or of the schedule leaves its array.
THEOREM TypeCorrect == Spec => []TypeOK
<1>1. Spec => []TypeInv
  BY TypeInit, TypeStep, PTL DEF Spec
<1>2. TypeInv => TypeOK
  BY DEF TypeInv
<1> QED
  BY <1>1, <1>2, PTL

-----------------------------------------------------------------------------
(* One builder at a time. *)

\* A line is not received while main builds a frame, and nobody can unpause
\* a half-built schedule with the button (in an INFINITE build without serial
\* interface messages are never paused once the button works).
OneBuilder ==
    /\ UartMessages = {} \/ ~LineDuringBuild
    /\ ~Button \/ (Infinite /\ UartMessages = {})

pc(c) == call[c].pc
idx == current_period_index
len == factor_periods_length
cd == count_down_to_next_msg

\* A thread is inside from the moment it has paused the messages.
Inside == Steps \ {"enter"}
Quiet == pc("main") \notin Steps /\ pc("uart") \notin Inside

\* The threads: messages are paused while a schedule is built, and the main
\* thread starts the timer after its first frame.
ThreadInv ==
    /\ pc("main") \in Steps \cup {"power", "wait"}
    /\ pc("uart") \in Steps \cup {"idle", "unpause"}
    /\ pc("main") \in Steps => pc("uart") = "idle" /\ messages_paused
    /\ pc("uart") \in Inside => messages_paused
    /\ dmd_paused => pc("main") # "wait"
    /\ pc("main") = "power" => dmd_paused
    /\ UartMessages = {} => pc("uart") = "idle"
    /\ Infinite /\ UartMessages = {} /\ (pc("main") = "power" \/ ~dmd_paused)
         => ~messages_paused
    /\ timerIrq \/ spisIrq => ~dmd_paused
    /\ dmd_paused /\ pc("main") \in Steps => call["main"].msg = Hello

-----------------------------------------------------------------------------
(* The steps in the words of the invariants. *)

LEMMA Numbers ==
    ASSUME TypeInv
    PROVE  /\ idx \in Nat /\ len \in Nat /\ cd \in Nat /\ gap \in Nat /\ shown \in Nat
           /\ cd <= NrPulses /\ messages_send_started \in Nat
           /\ NrPulses \in Nat /\ NrPulses >= 2 /\ NrPulses % 2 = 0
           /\ NumberOfMessages \in Nat /\ NumberOfMessages > 0
           /\ CounterMod \in Nat /\ CounterMod > NumberOfMessages
           /\ messages_paused \in BOOLEAN /\ sending_0 \in BOOLEAN
           /\ timerIrq \in BOOLEAN /\ spisIrq \in BOOLEAN /\ dmd_paused \in BOOLEAN
           /\ tx_drc_b_buffer \in {0, 1} /\ level \in {0, 1}
BY BuildAssumption, MessagesAssumption DEF TypeInv, TypeOK, idx, len, cd

\* The disjuncts of toggle_dmd.
LEMMA TimerCases ==
    ASSUME TypeInv, TimerHandler
    PROVE  \/ messages_paused /\ StayPaused
           \/ ~messages_paused /\ idx < len /\ InFrame
           \/ ~messages_paused /\ idx >= len /\ (PauseAfterLast \/ StartCountDown \/ CountDown)
BY DEF TimerHandler, toggle_dmd, StayPaused, InFrame, PauseAfterLast, StartCountDown,
       CountDown, AtFrameEnd, idx, len

\* A step that takes caller c from one point to another and leaves the other
\* caller where it is.
Moves(c, p, q) ==
    /\ pc(c) = p /\ pc(c)' = q
    /\ call'[c].msg = call[c].msg
    /\ \A d \in Callers \ {c} : call'[d] = call[d]

LEMMA Activations ==
    ASSUME TypeInv, NEW c \in Callers
    PROVE  /\ call \in [Callers -> Activation] /\ call[c] \in Activation
           /\ call[c].msg \in Messages
           /\ call[c].pos \in Nat /\ call[c].run \in Nat /\ call[c].periods \in Nat
           /\ call[c].pos <= Slots /\ call[c].run <= Slots /\ call[c].periods <= Slots
           /\ call[c].bit \in {0, 1}
           /\ "main" \in Callers /\ "uart" \in Callers
<1>1. call \in [Callers -> Activation] /\ call[c] \in Activation
  BY DEF TypeInv, TypeOK
<1>2. \A n \in 0..Slots : n \in Nat /\ n <= Slots
  BY MessagesAssumption
<1> QED
  BY <1>1, <1>2 DEF Activation, Callers

LEMMA BuilderMoves ==
    ASSUME TypeInv, NEW c \in Callers
    PROVE  /\ Enter(c) => Moves(c, "enter", "append") /\ call'[c].pos = 0
           /\ AppendBit(c) => Moves(c, "append", "append") /\ call'[c].pos = call[c].pos + 1
           /\ StartScan(c) => /\ Moves(c, "append", "scan")
                              /\ call'[c].pos = 0 /\ call'[c].run = 0 /\ call'[c].periods = 0
           /\ CountBit(c) => /\ Moves(c, "scan", "scan")
                             /\ call'[c].pos = call[c].pos + 1
                             /\ call'[c].run = call[c].run + 1
                             /\ call'[c].periods = call[c].periods
                             /\ call'[c].bit = frame[call[c].pos]
           /\ StorePeriod(c) => /\ Moves(c, "scan", "scan")
                                /\ call'[c].pos = call[c].pos /\ call'[c].run = 0
                                /\ call'[c].periods = call[c].periods + 1
                                /\ call'[c].bit = call[c].bit
           /\ SetLength(c) => Moves(c, "scan", "setIndex") /\ call'[c].periods = call[c].periods
           /\ SetIndex(c) => Moves(c, "setIndex", "setStarted") /\ call'[c].periods = call[c].periods
           /\ SetStarted(c) => Moves(c, "setStarted", "setPulse") /\ call'[c].periods = call[c].periods
           /\ SetPulse(c) => Moves(c, "setPulse", "publish") /\ call'[c].periods = call[c].periods
           /\ Publish(c) => Moves(c, "publish", AfterConstruct(c))
<1> USE Activations DEF Activation, At, Goto, pc, Moves
<1>4. Enter(c) => Moves(c, "enter", "append") /\ call'[c].pos = 0
  BY DEF Enter
<1>5. AppendBit(c) => Moves(c, "append", "append") /\ call'[c].pos = call[c].pos + 1
  BY DEF AppendBit
<1>6. StartScan(c) => /\ Moves(c, "append", "scan")
                      /\ call'[c].pos = 0 /\ call'[c].run = 0 /\ call'[c].periods = 0
  BY DEF StartScan
<1>7. CountBit(c) => /\ Moves(c, "scan", "scan")
                     /\ call'[c].pos = call[c].pos + 1
                     /\ call'[c].run = call[c].run + 1
                     /\ call'[c].periods = call[c].periods
                     /\ call'[c].bit = frame[call[c].pos]
  BY DEF CountBit
<1>8. StorePeriod(c) => /\ Moves(c, "scan", "scan")
                        /\ call'[c].pos = call[c].pos /\ call'[c].run = 0
                        /\ call'[c].periods = call[c].periods + 1
                        /\ call'[c].bit = call[c].bit
  BY DEF StorePeriod
<1>9. SetLength(c) => Moves(c, "scan", "setIndex") /\ call'[c].periods = call[c].periods
  BY DEF SetLength
<1>10. SetIndex(c) => Moves(c, "setIndex", "setStarted") /\ call'[c].periods = call[c].periods
  BY DEF SetIndex
<1>11. SetStarted(c) => Moves(c, "setStarted", "setPulse") /\ call'[c].periods = call[c].periods
  BY DEF SetStarted
<1>12. SetPulse(c) => Moves(c, "setPulse", "publish") /\ call'[c].periods = call[c].periods
  BY DEF SetPulse
<1>13. Publish(c) => Moves(c, "publish", AfterConstruct(c))
  BY DEF Publish
<1> QED
  BY <1>4, <1>5, <1>6, <1>7, <1>8, <1>9, <1>10, <1>11, <1>12, <1>13

LEMMA ThreadMoves ==
    ASSUME TypeInv
    PROVE  /\ TurnOnDMD => Moves("main", "power", "wait")
           /\ UartUnpause => Moves("uart", "unpause", "idle")
           /\ NextColour => /\ pc("main") = "wait" /\ pc("main")' = "enter"
                            /\ call'["uart"] = call["uart"]
           /\ ReceiveLine => /\ pc("uart") = "idle" /\ pc("uart")' = "enter"
                             /\ call'["main"] = call["main"]
<1>1. /\ call \in [Callers -> Activation] /\ "main" \in Callers /\ "uart" \in Callers
      /\ Callers = {"main", "uart"}
  BY Activations DEF Callers
<1>2. call["main"] \in Activation /\ call["uart"] \in Activation
  BY <1>1
<1> USE <1>1, <1>2 DEF Activation, At, Goto, pc, Moves
<1>3. TurnOnDMD => Moves("main", "power", "wait")
  BY DEF TurnOnDMD
<1>4. UartUnpause => Moves("uart", "unpause", "idle")
  BY DEF UartUnpause
<1>5. NextColour => /\ pc("main") = "wait" /\ pc("main")' = "enter"
                    /\ call'["uart"] = call["uart"]
  BY DEF NextColour
<1>6. ReceiveLine => /\ pc("uart") = "idle" /\ pc("uart")' = "enter"
                     /\ call'["main"] = call["main"]
  BY DEF ReceiveLine
<1> QED
  BY <1>3, <1>4, <1>5, <1>6

\* Whatever construct_frame does, it leaves the light, the timer and the count
\* down alone, and it does it while the other caller is outside.
LEMMA BuilderEffects ==
    ASSUME TypeInv, ThreadInv, NEW c \in Callers, ConstructFrame(c)
    PROVE  /\ UNCHANGED <<cd, end_of_message, pattern, timer, level, air, gap>>
           /\ pc(c) \in Steps
           /\ call'[c].msg = call[c].msg
           /\ \A d \in Callers \ {c} : call'[d] = call[d] /\ pc(d) \notin Steps
           /\ ~Publish(c) => pc(c)' \in Inside /\ messages_paused' /\ UNCHANGED shown
           /\ Publish(c) =>
                /\ pc(c) = "publish" /\ pc(c)' = AfterConstruct(c)
                /\ messages_paused /\ ~messages_paused' /\ shown' = 0
                /\ UNCHANGED <<schedule, counters, frame>>
<1>1. \/ Enter(c) \/ AppendBit(c) \/ StartScan(c) \/ CountBit(c) \/ StorePeriod(c)
      \/ SetLength(c) \/ SetIndex(c) \/ SetStarted(c) \/ SetPulse(c) \/ Publish(c)
  BY DEF ConstructFrame
<1>2. UNCHANGED <<cd, end_of_message, pattern, timer, level, air, gap>>
  BY <1>1 DEF Enter, AppendBit, StartScan, CountBit, StorePeriod, SetLength, SetIndex,
              SetStarted, SetPulse, Publish, history, counters, cd
<1>3. \E p \in Steps, q \in Inside \cup {AfterConstruct(c)} :
        /\ Moves(c, p, q)
        /\ ~Publish(c) => q \in Inside
        /\ Publish(c) => p = "publish" /\ q = AfterConstruct(c)
        /\ Enter(c) \/ p \in Inside
  <2>1. /\ "enter" \in Steps /\ "append" \in Inside /\ "scan" \in Inside
        /\ "setIndex" \in Inside /\ "setStarted" \in Inside /\ "setPulse" \in Inside
        /\ "publish" \in Inside /\ Inside \subseteq Steps /\ "publish" \in Steps
    BY DEF Inside, Steps
  <2>2. CASE Publish(c)
    BY <2>1, <2>2, BuilderMoves
  <2>3. CASE ~Publish(c)
    <3>1. CASE Enter(c)
      BY <2>1, <2>3, <3>1, BuilderMoves
    <3>2. CASE ~Enter(c)
      BY <1>1, <2>1, <2>3, <3>2, BuilderMoves
    <3> QED
      BY <3>1, <3>2
  <2> QED
    BY <2>2, <2>3
<1>4. MayRun(c)
  BY <1>1 DEF At, Enter, AppendBit, StartScan, CountBit, StorePeriod, SetLength, SetIndex,
              SetStarted, SetPulse, Publish
<1>5. \A d \in Callers \ {c} : pc(d) \notin Steps
  <2>1. "idle" \notin Steps
    BY DEF Steps
  <2> QED
    BY <1>3, <1>4, <2>1 DEF Callers, MayRun, ThreadInv, pc, Moves
<1>6. ~Enter(c) => messages_paused
  BY <1>3 DEF ThreadInv, Callers, Moves, Inside
<1>7. ~Publish(c) => messages_paused' /\ UNCHANGED shown
  BY <1>1, <1>6 DEF Enter, AppendBit, StartScan, CountBit, StorePeriod, SetLength, SetIndex,
              SetStarted, SetPulse, history
<1>8. Publish(c) => messages_paused
  BY <1>6, BuilderMoves DEF Moves, ThreadInv, Inside, Steps, Callers
<1>9. Publish(c) => ~messages_paused' /\ shown' = 0 /\ UNCHANGED <<schedule, counters, frame>>
  BY <1>8 DEF Publish, Unpause
<1> QED
  BY <1>2, <1>3, <1>5, <1>7, <1>8, <1>9 DEF Moves

\* The other threads' steps and the interrupts leave the frame and the schedule
\* under construction alone.
LEMMA OtherEffects ==
    ASSUME TypeInv
    PROVE  /\ TurnOnDMD \/ NextColour \/ ReceiveLine =>
                UNCHANGED <<messages_paused, schedule, counters, pattern, timerIrq,
                            spisIrq, frame, history>>
           /\ NextColour \/ ReceiveLine => UNCHANGED <<dmd_paused, cc>>
           /\ UartUnpause \/ ButtonPressed =>
                /\ ~messages_paused' /\ shown' = IF messages_paused THEN 0 ELSE shown
                /\ UNCHANGED <<schedule, counters, pattern, timer, frame, level, air, gap>>
           /\ CompareEvent \/ SpisHandler =>
                UNCHANGED <<messages_paused, schedule, counters, dmd_paused, cc, builder,
                            air, gap, shown>>
           /\ ButtonPressed => Button /\ (~dmd_paused \/ pc("main") = "power") /\ UNCHANGED builder
           /\ TimerHandler => UNCHANGED <<factor_periods_length, factor_periods, pattern,
                                          dmd_paused, spisIrq, builder, level>>
<1>1. TurnOnDMD \/ NextColour \/ ReceiveLine =>
        UNCHANGED <<messages_paused, schedule, counters, pattern, timerIrq,
                    spisIrq, frame, history>>
  BY DEF TurnOnDMD, NextColour, ReceiveLine, timer
<1>2. NextColour \/ ReceiveLine => UNCHANGED <<dmd_paused, cc>>
  BY DEF NextColour, ReceiveLine, timer
<1>3. UartUnpause \/ ButtonPressed =>
        /\ ~messages_paused' /\ shown' = IF messages_paused THEN 0 ELSE shown
        /\ UNCHANGED <<schedule, counters, pattern, timer, frame, level, air, gap>>
  BY DEF UartUnpause, ButtonPressed, Unpause, builder
<1>4. CompareEvent \/ SpisHandler =>
        UNCHANGED <<messages_paused, schedule, counters, dmd_paused, cc, builder,
                    air, gap, shown>>
  BY DEF CompareEvent, SpisHandler, history
<1>5. ButtonPressed => Button /\ (~dmd_paused \/ pc("main") = "power") /\ UNCHANGED builder
  BY DEF ButtonPressed, pc
<1>6. TimerHandler => UNCHANGED <<factor_periods_length, factor_periods, pattern,
                                  dmd_paused, spisIrq, builder, level>>
  BY DEF TimerHandler
<1> QED
  BY <1>1, <1>2, <1>3, <1>4, <1>5, <1>6

LEMMA PointNames ==
    /\ Callers = {"main", "uart"}
    /\ Inside \subseteq Steps /\ "enter" \in Steps /\ "enter" \notin Inside
    /\ "power" \notin Steps /\ "wait" \notin Steps /\ "idle" \notin Steps
    /\ "unpause" \notin Steps
    /\ \A p \in Steps : p # "power" /\ p # "wait" /\ p # "idle" /\ p # "unpause"
    /\ {"append", "scan", "setIndex", "setStarted", "setPulse", "publish"} \subseteq Inside
BY DEF Callers, Inside, Steps

LEMMA ThreadInit == Init => ThreadInv
BY DEF Init, ThreadInv, Callers, pc, Steps, Inside

LEMMA ThreadStep ==
    ASSUME OneBuilder, TypeInv, ThreadInv, Next
    PROVE  ThreadInv'
<1> USE PointNames
<1>1. ASSUME NEW c \in Callers, ConstructFrame(c)
      PROVE  ThreadInv'
  <2>1. /\ UNCHANGED <<dmd_paused, timerIrq, spisIrq>>
        /\ pc(c) \in Steps /\ call'[c].msg = call[c].msg
        /\ \A d \in Callers \ {c} : call'[d] = call[d] /\ pc(d) \notin Steps
        /\ ~Publish(c) => pc(c)' \in Inside /\ messages_paused'
        /\ Publish(c) => pc(c)' = AfterConstruct(c) /\ ~messages_paused'
    BY <1>1, BuilderEffects DEF timer
  <2>2. CASE c = "main"
    <3>1. /\ pc("uart") = "idle" /\ pc("uart")' = pc("uart")
          /\ AfterConstruct("main") = (IF dmd_paused THEN "power" ELSE "wait")
      BY <2>1, <2>2 DEF ThreadInv, pc, AfterConstruct
    <3>2. ~dmd_paused => ~(Infinite /\ UartMessages = {})
      BY <2>1, <2>2 DEF ThreadInv
    <3> QED
      BY <2>1, <2>2, <3>1, <3>2 DEF ThreadInv
  <2>3. CASE c = "uart"
    <3>1. /\ pc("main") \notin Steps /\ pc("main")' = pc("main")
          /\ AfterConstruct("uart") = "unpause" /\ UartMessages # {}
      BY <2>1, <2>3 DEF ThreadInv, pc, AfterConstruct
    <3> QED
      BY <2>1, <2>3, <3>1 DEF ThreadInv
  <2> QED
    BY <2>2, <2>3
<1>2. CASE TurnOnDMD
  <2>1. /\ pc("main") = "power" /\ pc("main")' = "wait" /\ ~dmd_paused'
        /\ pc("uart")' = pc("uart")
        /\ messages_paused' = messages_paused
    BY <1>2, ThreadMoves, OtherEffects DEF TurnOnDMD, Moves, pc
  <2> QED
    BY <2>1 DEF ThreadInv
<1>3. CASE NextColour
  <2>1. /\ pc("main") = "wait" /\ pc("main")' = "enter" /\ pc("uart")' = pc("uart")
        /\ messages_paused /\ messages_paused' /\ pc("uart") = "idle"
        /\ UNCHANGED <<dmd_paused, timerIrq, spisIrq>>
    BY <1>3, ThreadMoves, OtherEffects DEF NextColour, At, MayRun, pc
  <2> QED
    BY <2>1 DEF ThreadInv
<1>4. CASE ReceiveLine
  <2>1. /\ pc("uart") = "idle" /\ pc("uart")' = "enter" /\ call'["main"] = call["main"]
        /\ UartMessages # {} /\ pc("main") \notin Steps
        /\ UNCHANGED <<messages_paused, dmd_paused, timerIrq, spisIrq>>
    BY <1>4, ThreadMoves, OtherEffects DEF ReceiveLine, OneBuilder, pc
  <2> QED
    BY <2>1 DEF ThreadInv, pc
<1>5. CASE UartUnpause
  <2>1. /\ pc("uart") = "unpause" /\ pc("uart")' = "idle" /\ call'["main"] = call["main"]
        /\ ~messages_paused' /\ UNCHANGED <<dmd_paused, timerIrq, spisIrq>>
    BY <1>5, ThreadMoves, OtherEffects DEF Moves, timer
  <2> QED
    BY <2>1 DEF ThreadInv, pc
<1>6. CASE ButtonPressed
  <2>1. /\ call' = call /\ ~messages_paused' /\ Infinite /\ UartMessages = {}
        /\ ~dmd_paused \/ pc("main") = "power"
        /\ UNCHANGED <<dmd_paused, timerIrq, spisIrq>>
    BY <1>6, OtherEffects DEF OneBuilder, builder, timer
  <2>2. ~messages_paused
    BY <2>1 DEF ThreadInv
  <2> QED
    BY <2>1, <2>2 DEF ThreadInv, pc
<1>7. CASE CompareEvent \/ SpisHandler
  <2>1. UNCHANGED <<call, messages_paused, dmd_paused>>
    BY <1>7, OtherEffects DEF builder
  <2>2. timerIrq' \/ spisIrq' => ~dmd_paused
    BY <1>7 DEF CompareEvent, SpisHandler, ThreadInv
  <2> QED
    BY <2>1, <2>2 DEF ThreadInv, pc
<1>8. CASE TimerHandler
  <2>1. UNCHANGED <<call, dmd_paused, spisIrq>> /\ timerIrq
    BY <1>8, OtherEffects DEF builder, TimerHandler
  <2>2. messages_paused => messages_paused'
    BY <1>8, TimerCases DEF StayPaused
  <2>3. ~messages_paused /\ messages_paused' => ~Infinite
    BY <1>8 DEF TimerHandler, toggle_dmd, StayPaused, InFrame, PauseAfterLast, SentAll,
       StartCountDown, CountDown
  <2> QED
    BY <2>1, <2>2, <2>3 DEF ThreadInv, pc
<1> QED
  BY <1>1, <1>2, <1>3, <1>4, <1>5, <1>6, <1>7, <1>8 DEF Next, Main, Uart

-----------------------------------------------------------------------------
(* What a list of run lengths spells. *)

LevelBits(runs) == [i \in DOMAIN runs |-> [k \in 1..runs[i] |-> (i - 1) % 2]]

LEMMA ConstantRun ==
    ASSUME NEW n \in Nat, NEW b \in {0, 1}
    PROVE  [k \in 1..n |-> b] \in Seq({0, 1}) /\ Len([k \in 1..n |-> b]) = n
OBVIOUS

LEMMA LevelBitsType ==
    ASSUME NEW r \in Seq(Nat)
    PROVE  LevelBits(r) \in Seq(Seq({0, 1})) /\ Len(LevelBits(r)) = Len(r)
<1>1. DOMAIN r = 1..Len(r) /\ Len(r) \in Nat
  OBVIOUS
<1>2. ASSUME NEW i \in 1..Len(r)
      PROVE  [k \in 1..r[i] |-> (i - 1) % 2] \in Seq({0, 1})
  <2>1. r[i] \in Nat /\ (i - 1) % 2 \in {0, 1}
    BY <1>1
  <2> QED
    BY <2>1, ConstantRun
<1> QED
  BY <1>1, <1>2 DEF LevelBits

LEMMA SpellType ==
    ASSUME NEW r \in Seq(Nat)
    PROVE  Spell(r) \in Seq({0, 1})
BY LevelBitsType, FlattenType DEF Spell, LevelBits

LEMMA SpellAppend ==
    ASSUME NEW r \in Seq(Nat), NEW n \in Nat
    PROVE  Spell(Append(r, n)) = Spell(r) \o [k \in 1..n |-> Len(r) % 2]
<1> DEFINE more == [k \in 1..n |-> Len(r) % 2]
<1>1. more \in Seq({0, 1})
  BY ConstantRun
<1>2. LevelBits(Append(r, n)) = Append(LevelBits(r), more)
  <2>1. /\ Append(r, n) \in Seq(Nat) /\ Len(Append(r, n)) = Len(r) + 1
        /\ Append(r, n)[Len(r) + 1] = n
        /\ \A i \in 1..Len(r) : Append(r, n)[i] = r[i]
    BY AppendProperties
  <2>2. /\ LevelBits(r) \in Seq(Seq({0, 1})) /\ Len(LevelBits(r)) = Len(r)
        /\ LevelBits(Append(r, n)) \in Seq(Seq({0, 1}))
        /\ Len(LevelBits(Append(r, n))) = Len(r) + 1
    BY <2>1, LevelBitsType
  <2>3. /\ Append(LevelBits(r), more) \in Seq(Seq({0, 1}))
        /\ Len(Append(LevelBits(r), more)) = Len(r) + 1
        /\ Append(LevelBits(r), more)[Len(r) + 1] = more
        /\ \A i \in 1..Len(r) : Append(LevelBits(r), more)[i] = LevelBits(r)[i]
    BY <1>1, <2>2, AppendProperties
  <2>4. ASSUME NEW i \in 1..(Len(r) + 1)
        PROVE  LevelBits(Append(r, n))[i] = Append(LevelBits(r), more)[i]
    <3>1. DOMAIN r = 1..Len(r) /\ DOMAIN Append(r, n) = 1..(Len(r) + 1) /\ Len(r) \in Nat
      BY <2>1
    <3>2. LevelBits(Append(r, n))[i] = [k \in 1..Append(r, n)[i] |-> (i - 1) % 2]
      BY <3>1 DEF LevelBits
    <3>3. CASE i = Len(r) + 1
      <4>1. Append(r, n)[i] = n /\ i - 1 = Len(r)
        BY <2>1, <3>1, <3>3
      <4>2. LevelBits(Append(r, n))[i] = more
        BY <3>2, <4>1
      <4> QED
        BY <2>3, <3>3, <4>2
    <3>4. CASE i # Len(r) + 1
      <4>1. i \in 1..Len(r)
        BY <3>1, <3>4
      <4>2. LevelBits(r)[i] = [k \in 1..r[i] |-> (i - 1) % 2]
        BY <3>1, <4>1 DEF LevelBits
      <4> QED
        BY <2>1, <2>3, <3>2, <4>1, <4>2
    <3> QED
      BY <3>3, <3>4
  <2> QED
    BY <2>2, <2>3, <2>4, SeqEqual
<1>3. LevelBits(r) \in Seq(Seq({0, 1}))
  BY LevelBitsType
<1>4. FlattenSeq(Append(LevelBits(r), more)) = FlattenSeq(LevelBits(r)) \o more
  BY <1>1, <1>3, FlattenAppend
<1> QED
  BY <1>2, <1>4 DEF Spell, LevelBits

LEMMA SpellNothing == Spell(<<>>) = <<>>
<1>1. LevelBits(<<>>) = <<>>
  BY DEF LevelBits
<1> QED
  BY <1>1, Len(<<>>) = 0 DEF Spell, LevelBits, FlattenSeq

-----------------------------------------------------------------------------
(* The schedule: while construct_pauses runs, the entries stored so far and *)
(* the run being measured spell the bits read so far.                       *)

Runs(fp, n) == [i \in 1..n |-> fp[i - 1]]
Positive(fp, n) == \A i \in 0..(n - 1) : fp[i] > 0

\* The first n entries are the levels of message m.
Stored(fp, m, n) == n > 0 /\ Positive(fp, n) /\ Spell(Runs(fp, n)) = FrameBits[m]

Bits(c) == FrameBits[call[c].msg]
Copied(c, n) == \A k \in 0..(n - 1) : frame[k] = Bits(c)[k + 1]

Scanned(c) ==
    LET a == call[c]
    IN  /\ Copied(c, FrameSize(c))
        /\ Positive(factor_periods, a.periods)
        /\ Spell(Runs(factor_periods, a.periods)) = SubSeq(Bits(c), 1, a.pos - a.run)
        /\ a.run > 0 =>
             /\ a.bit = a.periods % 2
             /\ \A k \in (a.pos - a.run)..(a.pos - 1) : frame[k] = a.bit
        /\ a.run = 0 =>
             /\ a.pos = 0 <=> a.periods = 0
             /\ a.pos > 0 => a.bit # a.periods % 2
             /\ a.pos > 0 /\ a.pos < FrameSize(c) => frame[a.pos] # a.bit

Building(c) ==
    /\ pc(c) = "append" => Copied(c, call[c].pos)
    /\ pc(c) = "scan" => Scanned(c)
    /\ pc(c) \in {"setIndex", "setStarted", "setPulse", "publish"} =>
         Stored(factor_periods, call[c].msg, call[c].periods) /\ len = call[c].periods
    /\ pc(c) \in {"setStarted", "setPulse", "publish"} => idx = len
    /\ pc(c) \in {"setPulse", "publish"} => messages_send_started = 0
    /\ pc(c) = "publish" => factor_periods[len] = GapPeriods

\* What the timer handler finds as long as nobody builds.
Loaded ==
    /\ idx <= len
    /\ factor_periods[len] = GapPeriods
    /\ \E m \in Messages : Stored(factor_periods, m, len)

ContentInv == (\A c \in Callers : Building(c)) /\ (Quiet => Loaded)

LEMMA RunsType ==
    ASSUME TypeInv, NEW n \in Nat, n <= Slots + 1
    PROVE  Runs(factor_periods, n) \in Seq(Nat) /\ Len(Runs(factor_periods, n)) = n
<1>1. factor_periods \in [0..Slots -> Nat] /\ Slots \in Nat
  BY MessagesAssumption DEF TypeInv, TypeOK, PeriodMax
<1>2. \A i \in 1..n : factor_periods[i - 1] \in Nat
  BY <1>1
<1> QED
  BY <1>2 DEF Runs

LEMMA RunsMore ==
    ASSUME NEW fp, NEW n \in Nat, Runs(fp, n) \in Seq(Nat), fp[n] \in Nat
    PROVE  Runs(fp, n + 1) = Append(Runs(fp, n), fp[n])
<1>1. Len(Runs(fp, n)) = n
  BY DEF Runs
<1>2. /\ Append(Runs(fp, n), fp[n]) \in Seq(Nat)
      /\ Len(Append(Runs(fp, n), fp[n])) = n + 1
      /\ Append(Runs(fp, n), fp[n])[n + 1] = fp[n]
      /\ \A i \in 1..n : Append(Runs(fp, n), fp[n])[i] = Runs(fp, n)[i]
  BY <1>1, AppendProperties
<1>3. \A i \in 1..n : fp[i - 1] \in Nat /\ Runs(fp, n)[i] = fp[i - 1]
  <2>1. \A i \in 1..n : Runs(fp, n)[i] \in Nat
    BY <1>1
  <2> QED
    BY <2>1 DEF Runs
<1>4. ASSUME NEW i \in 1..(n + 1)
      PROVE  fp[i - 1] \in Nat
  <2>1. CASE i = n + 1
    BY <2>1
  <2>2. CASE i # n + 1
    <3>1. i \in 1..n
      BY <2>2
    <3> QED
      BY <1>3, <3>1
  <2> QED
    BY <2>1, <2>2
<1>5. Runs(fp, n + 1) \in Seq(Nat) /\ Len(Runs(fp, n + 1)) = n + 1
  BY <1>4 DEF Runs
<1>6. ASSUME NEW i \in 1..(n + 1)
      PROVE  Runs(fp, n + 1)[i] = Append(Runs(fp, n), fp[n])[i]
  <2>1. Runs(fp, n + 1)[i] = fp[i - 1]
    BY DEF Runs
  <2>2. CASE i = n + 1
    BY <1>2, <2>1, <2>2
  <2>3. CASE i # n + 1
    <3>1. i \in 1..n
      BY <2>3
    <3> QED
      BY <1>2, <1>3, <2>1, <3>1
  <2> QED
    BY <2>2, <2>3
<1> QED
  BY <1>2, <1>5, <1>6, SeqEqual

\* Only the first n entries matter.
LEMMA RunsStable ==
    ASSUME NEW fp, NEW gp, NEW n \in Nat, \A i \in 0..(n - 1) : fp[i] = gp[i]
    PROVE  /\ Runs(fp, n) = Runs(gp, n)
           /\ Positive(fp, n) <=> Positive(gp, n)
           /\ \A m : Stored(fp, m, n) <=> Stored(gp, m, n)
<1>1. \A i \in 1..n : fp[i - 1] = gp[i - 1]
  OBVIOUS
<1>2. Runs(fp, n) = Runs(gp, n)
  BY <1>1 DEF Runs
<1>3. Positive(fp, n) <=> Positive(gp, n)
  BY DEF Positive
<1> QED
  BY <1>2, <1>3 DEF Stored

\* A prefix grows by a run of equal bits.
LEMMA ConstantTail ==
    ASSUME NEW s \in Seq({0, 1}), NEW p \in Nat, NEW q \in Nat, p <= q, q <= Len(s),
           NEW b \in {0, 1}, \A k \in (p + 1)..q : s[k] = b
    PROVE  SubSeq(s, 1, p) \o [k \in 1..(q - p) |-> b] = SubSeq(s, 1, q)
<1>0. Len(s) \in Nat
  OBVIOUS
<1>1. q - p \in Nat
  OBVIOUS
<1> DEFINE tail == [k \in 1..(q - p) |-> b]
<1>2. tail \in Seq({0, 1}) /\ Len(tail) = q - p /\ \A k \in 1..(q - p) : tail[k] = b
  BY <1>1
<1>3. /\ SubSeq(s, 1, p) \in Seq({0, 1}) /\ Len(SubSeq(s, 1, p)) = p
      /\ \A i \in 1..p : SubSeq(s, 1, p)[i] = s[i]
      /\ SubSeq(s, 1, q) \in Seq({0, 1}) /\ Len(SubSeq(s, 1, q)) = q
      /\ \A i \in 1..q : SubSeq(s, 1, q)[i] = s[i]
  BY <1>0
<1> HIDE DEF tail
<1>4. /\ SubSeq(s, 1, p) \o tail \in Seq({0, 1})
      /\ Len(SubSeq(s, 1, p) \o tail) = q
      /\ \A i \in 1..q : (SubSeq(s, 1, p) \o tail)[i] =
                             IF i <= p THEN SubSeq(s, 1, p)[i] ELSE tail[i - p]
  BY <1>2, <1>3, ConcatProperties
<1>5. ASSUME NEW i \in 1..q
      PROVE  (SubSeq(s, 1, p) \o tail)[i] = SubSeq(s, 1, q)[i]
  <2>1. CASE i <= p
    <3>1. i \in 1..p
      BY <2>1
    <3> QED
      BY <1>3, <1>4, <2>1, <3>1
  <2>2. CASE ~(i <= p)
    <3>1. i - p \in 1..(q - p) /\ i \in (p + 1)..q /\ ~(i <= p)
      BY <2>2
    <3>2. tail[i - p] = b /\ s[i] = b
      BY <1>2, <3>1
    <3>3. (SubSeq(s, 1, p) \o tail)[i] = tail[i - p]
      BY <1>4, <3>1
    <3>4. SubSeq(s, 1, q)[i] = s[i]
      BY <1>3
    <3> QED
      BY <3>2, <3>3, <3>4
  <2> QED
    BY <2>1, <2>2
<1> QED
  BY <1>3, <1>4, <1>5, SeqEqual DEF tail

LEMMA NoRuns ==
    ASSUME NEW fp, NEW s \in Seq({0, 1})
    PROVE  Spell(Runs(fp, 0)) = SubSeq(s, 1, 0) /\ Positive(fp, 0)
<1>1. Runs(fp, 0) = <<>>
  BY DEF Runs
<1>2. SubSeq(s, 1, 0) = <<>>
  OBVIOUS
<1>3. Positive(fp, 0)
  BY DEF Positive
<1> QED
  BY <1>1, <1>2, <1>3, SpellNothing

LEMMA BuildStep ==
    ASSUME TypeInv, ThreadInv, NEW c \in Callers, Building(c), ConstructFrame(c)
    PROVE  Building(c)'
<1> DEFINE a == call[c]
           s == FrameBits[call[c].msg]
<1>a. /\ a.pos \in Nat /\ a.run \in Nat /\ a.periods \in Nat /\ a.bit \in {0, 1}
      /\ a.pos <= Slots /\ a.run <= Slots /\ a.periods <= Slots
      /\ Slots \in Nat
  BY Activations, MessagesAssumption
<1>b. /\ s \in Seq({0, 1}) /\ FrameSize(c) = Len(s) /\ Len(s) \in 1..Slots /\ s[1] = 0
      /\ \A k \in 0..(FrameSize(c) - 1) : s[k + 1] \in {0, 1}
  BY Activations, FrameSizeBound, MessagesAssumption DEF FrameSize
<1>c. call'[c].msg = call[c].msg /\ Bits(c) = s /\ Bits(c)' = s /\ FrameSize(c)' = Len(s)
  BY <1>b, BuilderEffects DEF Bits, FrameSize
<1>d. /\ a.pos <= Len(s) \/ pc(c) \notin {"append", "scan"}
      /\ pc(c) = "scan" => a.periods + a.run <= a.pos
  BY <1>b DEF TypeInv, ScanBounded, pc
<1>e. frame \in [0..(Slots - 1) -> {0, 1}] /\ factor_periods \in [0..Slots -> 0..PeriodMax]
  BY DEF TypeInv, TypeOK
<1> HIDE DEF a, s
<1>1. CASE Enter(c)
  <2>1. pc(c)' = "append" /\ call'[c].pos = 0
    BY <1>1, BuilderMoves DEF Moves
  <2>2. Copied(c, 0)'
    BY DEF Copied
  <2> QED
    BY <2>1, <2>2 DEF Building
<1>2. CASE AppendBit(c)
  <2>1. /\ pc(c) = "append" /\ pc(c)' = "append" /\ call'[c].pos = a.pos + 1
        /\ a.pos < Len(s) /\ frame' = [frame EXCEPT ![a.pos] = s[a.pos + 1]]
    BY <1>2, <1>b, BuilderMoves DEF Moves, AppendBit, a, s
  <2>2. Copied(c, a.pos)
    BY <2>1 DEF Building, a
  <2>3. ASSUME NEW k \in 0..a.pos
        PROVE  frame'[k] = s[k + 1]
    <3>1. k \in 0..(Slots - 1) /\ a.pos \in 0..(Slots - 1)
      BY <1>a, <1>b, <2>1
    <3>2. CASE k = a.pos
      BY <1>e, <2>1, <3>1, <3>2
    <3>3. CASE k # a.pos
      <4>1. k \in 0..(a.pos - 1)
        BY <1>a, <3>3
      <4> QED
        BY <1>c, <1>e, <2>1, <2>2, <3>1, <3>3, <4>1 DEF Copied
    <3> QED
      BY <3>2, <3>3
  <2>4. \A k \in 0..((a.pos + 1) - 1) : frame'[k] = Bits(c)'[k + 1]
    BY <1>a, <1>c, <2>3
  <2> QED
    BY <2>1, <2>4 DEF Building, Copied
<1>3. CASE StartScan(c)
  <2>1. /\ pc(c) = "append" /\ pc(c)' = "scan" /\ a.pos = Len(s)
        /\ call'[c].pos = 0 /\ call'[c].run = 0 /\ call'[c].periods = 0
        /\ UNCHANGED frame
    BY <1>3, <1>b, BuilderMoves DEF Moves, StartScan, a, s
  <2>2. Copied(c, Len(s))
    BY <2>1 DEF Building, a
  <2>3. \A k \in 0..(Len(s) - 1) : frame'[k] = s[k + 1]
    BY <1>c, <2>1, <2>2 DEF Copied
  <2>4. Spell(Runs(factor_periods', 0)) = SubSeq(s, 1, 0) /\ Positive(factor_periods', 0)
    BY <1>b, NoRuns
  <2>5. Scanned(c)'
    BY <1>c, <2>1, <2>3, <2>4 DEF Scanned, Copied
  <2> QED
    BY <2>1, <2>5 DEF Building
<1>4. CASE CountBit(c)
  <2>1. /\ pc(c) = "scan" /\ pc(c)' = "scan" /\ InRun(c)
        /\ call'[c].pos = a.pos + 1 /\ call'[c].run = a.run + 1
        /\ call'[c].periods = a.periods /\ call'[c].bit = frame[a.pos]
        /\ UNCHANGED <<frame, factor_periods>>
    BY <1>4, BuilderMoves DEF Moves, CountBit, a, schedule
  <2>2. /\ a.pos < Len(s) /\ (a.run > 0 => frame[a.pos] = a.bit)
    BY <1>b, <2>1 DEF InRun, a
  <2>3. Scanned(c)
    BY <2>1 DEF Building
  <2>4. frame[a.pos] = s[a.pos + 1] /\ frame[a.pos] \in {0, 1}
    <3>1. a.pos \in 0..(Len(s) - 1)
      BY <1>a, <1>b, <2>2
    <3> QED
      BY <1>b, <1>c, <2>3, <3>1 DEF Scanned, Copied
  <2>5. frame[a.pos] = a.periods % 2
    <3>1. CASE a.run > 0
      BY <2>2, <2>3, <3>1 DEF Scanned, a
    <3>2. CASE a.run = 0 /\ a.pos = 0
      <4>1. a.periods = 0
        BY <2>3, <3>2 DEF Scanned, a
      <4> QED
        BY <1>b, <2>4, <3>2, <4>1
    <3>3. CASE a.run = 0 /\ a.pos > 0
      <4>1. a.bit # a.periods % 2 /\ frame[a.pos] # a.bit
        BY <1>b, <2>2, <2>3, <3>3 DEF Scanned, a
      <4>2. a.periods % 2 \in {0, 1}
        BY <1>a
      <4> QED
        BY <1>a, <2>4, <4>1, <4>2
    <3> QED
      BY <1>a, <3>1, <3>2, <3>3
  <2>6. ASSUME NEW k \in (a.pos - a.run)..a.pos
        PROVE  frame[k] = frame[a.pos]
    <3>1. CASE k = a.pos
      BY <3>1
    <3>2. CASE k # a.pos
      <4>1. k \in (a.pos - a.run)..(a.pos - 1) /\ a.run > 0
        BY <1>a, <3>2
      <4> QED
        BY <2>2, <2>3, <4>1 DEF Scanned, a
    <3> QED
      BY <3>1, <3>2
  <2>7. \A k \in 0..(Len(s) - 1) : frame'[k] = s[k + 1]
    BY <1>b, <1>c, <2>1, <2>3 DEF Scanned, Copied
  <2>8. /\ Spell(Runs(factor_periods', a.periods)) = SubSeq(s, 1, (a.pos + 1) - (a.run + 1))
        /\ Positive(factor_periods', a.periods)
    <3>1. (a.pos + 1) - (a.run + 1) = a.pos - a.run
      BY <1>a
    <3> QED
      BY <1>c, <2>1, <2>3, <3>1 DEF Scanned, a
  <2>9. \A k \in ((a.pos + 1) - (a.run + 1))..((a.pos + 1) - 1) : frame'[k] = frame[a.pos]
    <3>1. (a.pos + 1) - (a.run + 1) = a.pos - a.run /\ (a.pos + 1) - 1 = a.pos
      BY <1>a
    <3> QED
      BY <2>1, <2>6, <3>1
  <2>10. a.run + 1 > 0 /\ a.run + 1 # 0
    BY <1>a
  <2>11. Scanned(c)'
    BY <1>c, <2>1, <2>5, <2>7, <2>8, <2>9, <2>10 DEF Scanned, Copied
  <2> QED
    BY <2>1, <2>11 DEF Building
<1>5. CASE StorePeriod(c)
  <2>1. /\ pc(c) = "scan" /\ pc(c)' = "scan" /\ ~InRun(c) /\ a.run > 0
        /\ call'[c].pos = a.pos /\ call'[c].run = 0
        /\ call'[c].periods = a.periods + 1 /\ call'[c].bit = a.bit
        /\ frame' = frame /\ factor_periods' = [factor_periods EXCEPT ![a.periods] = a.run]
    BY <1>5, BuilderMoves DEF Moves, StorePeriod, a
  <2>2. a.pos < Len(s) => frame[a.pos] # a.bit
    BY <1>b, <2>1 DEF InRun, a
  <2>3. /\ Scanned(c)
        /\ a.bit = a.periods % 2
        /\ \A k \in (a.pos - a.run)..(a.pos - 1) : frame[k] = a.bit
        /\ Spell(Runs(factor_periods, a.periods)) = SubSeq(s, 1, a.pos - a.run)
        /\ Positive(factor_periods, a.periods)
        /\ Copied(c, Len(s))
    BY <1>b, <1>c, <2>1 DEF Building, Scanned, a
  <2>4. /\ factor_periods'[a.periods] = a.run
        /\ \A i \in 0..(a.periods - 1) : factor_periods'[i] = factor_periods[i]
    BY <1>a, <1>e, <2>1
  <2>5. Positive(factor_periods', a.periods + 1)
    BY <1>a, <2>1, <2>3, <2>4 DEF Positive
  <2>6. /\ Runs(factor_periods', a.periods) = Runs(factor_periods, a.periods)
        /\ Runs(factor_periods, a.periods) \in Seq(Nat)
        /\ Len(Runs(factor_periods, a.periods)) = a.periods
    <3>1. \A i \in 0..(a.periods - 1) : factor_periods[i] = factor_periods'[i]
      BY <2>4
    <3>2. Runs(factor_periods, a.periods) = Runs(factor_periods', a.periods)
      BY <1>a, <3>1, RunsStable
    <3> QED
      BY <1>a, <3>2, RunsType
  <2>7. Runs(factor_periods', a.periods + 1) = Append(Runs(factor_periods, a.periods), a.run)
    BY <1>a, <2>4, <2>6, RunsMore
  <2>8. Spell(Runs(factor_periods', a.periods + 1))
          = SubSeq(s, 1, a.pos - a.run) \o [k \in 1..a.run |-> a.periods % 2]
    BY <1>a, <2>3, <2>6, <2>7, SpellAppend
  <2>9. \A k \in ((a.pos - a.run) + 1)..a.pos : s[k] = a.bit
    <3> SUFFICES ASSUME NEW k \in ((a.pos - a.run) + 1)..a.pos PROVE s[k] = a.bit
      OBVIOUS
    <3>1. /\ k - 1 \in (a.pos - a.run)..(a.pos - 1) /\ k - 1 \in 0..(Len(s) - 1)
          /\ (k - 1) + 1 = k
      BY <1>a, <1>b, <1>d, <2>1
    <3>2. frame[k - 1] = s[(k - 1) + 1]
      BY <1>c, <2>3, <3>1 DEF Copied
    <3> QED
      BY <2>3, <3>1, <3>2
  <2>10. SubSeq(s, 1, a.pos - a.run) \o [k \in 1..a.run |-> a.periods % 2] = SubSeq(s, 1, a.pos)
    <3>1. /\ a.pos - a.run \in Nat /\ a.pos - a.run <= a.pos /\ a.pos <= Len(s)
          /\ a.pos - (a.pos - a.run) = a.run
      BY <1>a, <1>d, <2>1
    <3>2. SubSeq(s, 1, a.pos - a.run) \o [k \in 1..(a.pos - (a.pos - a.run)) |-> a.bit]
            = SubSeq(s, 1, a.pos)
      BY <1>a, <1>b, <2>9, <3>1, ConstantTail
    <3> QED
      BY <2>3, <3>1, <3>2
  <2>11. Spell(Runs(factor_periods', a.periods + 1)) = SubSeq(s, 1, a.pos - 0)
    <3>1. a.pos - 0 = a.pos
      BY <1>a
    <3> QED
      BY <2>8, <2>10, <3>1
  <2>12. a.bit # (a.periods + 1) % 2 /\ a.periods + 1 # 0 /\ a.pos # 0 /\ ~(0 > 0)
    <3>1. a.periods % 2 # (a.periods + 1) % 2 /\ a.periods + 1 # 0
      BY <1>a
    <3>2. a.pos # 0
      BY <1>a, <1>d, <2>1
    <3> QED
      BY <2>3, <3>1, <3>2
  <2>13. \A k \in 0..(Len(s) - 1) : frame'[k] = s[k + 1]
    BY <1>c, <2>1, <2>3 DEF Copied
  <2>14. Scanned(c)'
    BY <1>c, <2>1, <2>2, <2>5, <2>11, <2>12, <2>13 DEF Scanned, Copied
  <2> QED
    BY <2>1, <2>14 DEF Building
<1>6. CASE SetLength(c)
  <2>1. /\ pc(c) = "scan" /\ pc(c)' = "setIndex" /\ a.run = 0 /\ a.pos = Len(s)
        /\ call'[c].periods = a.periods /\ len' = a.periods
        /\ factor_periods' = factor_periods
    BY <1>6, <1>b, BuilderMoves DEF Moves, SetLength, a, len
  <2>2. /\ Spell(Runs(factor_periods, a.periods)) = SubSeq(s, 1, Len(s))
        /\ Positive(factor_periods, a.periods) /\ a.periods # 0
    <3>1. Len(s) - 0 = Len(s) /\ Len(s) # 0
      BY <1>b
    <3> QED
      BY <1>c, <2>1, <3>1 DEF Building, Scanned, a
  <2>3. SubSeq(s, 1, Len(s)) = s
    BY <1>b
  <2>4. Stored(factor_periods', call'[c].msg, call'[c].periods)
    BY <1>a, <1>c, <2>1, <2>2, <2>3 DEF Stored, s
  <2> QED
    BY <2>1, <2>4 DEF Building
<1>7. CASE SetIndex(c)
  <2>1. /\ pc(c) = "setIndex" /\ pc(c)' = "setStarted"
        /\ call'[c].periods = call[c].periods /\ len' = len
        /\ factor_periods' = factor_periods /\ idx' = call[c].periods
    BY <1>7, BuilderMoves DEF Moves, SetIndex, len, idx
  <2> QED
    BY <1>c, <2>1 DEF Building
<1>8. CASE SetStarted(c)
  <2>1. /\ pc(c) = "setStarted" /\ pc(c)' = "setPulse" /\ messages_send_started' = 0
        /\ call'[c].periods = call[c].periods /\ len' = len
        /\ factor_periods' = factor_periods /\ idx' = idx
    BY <1>8, BuilderMoves DEF Moves, SetStarted, len, idx, schedule
  <2> QED
    BY <1>c, <2>1 DEF Building
<1>9. CASE SetPulse(c)
  <2>1. /\ pc(c) = "setPulse" /\ pc(c)' = "publish"
        /\ call'[c].periods = call[c].periods /\ len' = len
        /\ factor_periods' = [factor_periods EXCEPT ![len] = GapPeriods] /\ idx' = idx
        /\ messages_send_started' = messages_send_started
    BY <1>9, BuilderMoves DEF Moves, SetPulse, len, idx, counters
  <2>2. Stored(factor_periods, call[c].msg, a.periods) /\ len = a.periods
    BY <2>1 DEF Building, a
  <2>3. /\ factor_periods'[len] = GapPeriods
        /\ \A i \in 0..(a.periods - 1) : factor_periods[i] = factor_periods'[i]
    BY <1>a, <1>e, <2>1, <2>2
  <2>4. Stored(factor_periods', call'[c].msg, call'[c].periods)
    BY <1>a, <1>c, <2>1, <2>2, <2>3, RunsStable DEF a
  <2> QED
    BY <2>1, <2>2, <2>3, <2>4 DEF Building, a
<1>10. CASE Publish(c)
  <2>1. pc(c)' \in {"unpause", "power", "wait"}
    BY <1>10, BuilderMoves DEF Moves, AfterConstruct, Callers
  <2> QED
    BY <2>1 DEF Building
<1> QED
  BY <1>1, <1>2, <1>3, <1>4, <1>5, <1>6, <1>7, <1>8, <1>9, <1>10 DEF ConstructFrame

\* The steps outside construct_frame.
Elsewhere ==
    \/ TurnOnDMD \/ NextColour \/ ReceiveLine \/ UartUnpause \/ ButtonPressed
    \/ CompareEvent \/ SpisHandler \/ TimerHandler

LEMMA NextCases ==
    ASSUME Next
    PROVE  (\E c \in Callers : ConstructFrame(c)) \/ Elsewhere
BY DEF Next, Main, Uart, Callers, Elsewhere

\* They leave what a builder has done so far alone, and start none.
LEMMA ElsewhereEffects ==
    ASSUME TypeInv, ThreadInv, Elsewhere
    PROVE  /\ UNCHANGED <<len, factor_periods, frame>>
           /\ \A c \in Callers : pc(c)' \in Inside => call'[c] = call[c] /\ pc(c) \in Inside
           /\ Quiet' => Quiet
           /\ ~TimerHandler => UNCHANGED <<idx, cd, messages_send_started, gap, air>>
           /\ ~TimerHandler /\ messages_paused' => messages_paused
           /\ messages_paused /\ TimerHandler => UNCHANGED <<idx, cd, messages_send_started>>
<1> USE PointNames
<1>1. UNCHANGED <<len, factor_periods, frame>>
  BY OtherEffects DEF Elsewhere, schedule, history, len, builder
<1>2. ~TimerHandler => UNCHANGED <<idx, cd, messages_send_started, gap, air>>
  BY OtherEffects DEF Elsewhere, schedule, counters, history, idx, cd
<1>3. ~TimerHandler /\ messages_paused' => messages_paused
  BY OtherEffects DEF Elsewhere
<1>4. messages_paused /\ TimerHandler => UNCHANGED <<idx, cd, messages_send_started>>
  BY TimerCases DEF StayPaused, idx, cd, counters
<1>5. /\ \A c \in Callers : pc(c)' \in Inside => call'[c] = call[c] /\ pc(c) \in Inside
      /\ Quiet' => Quiet
  <2>1. CASE TurnOnDMD
    BY <2>1, ThreadMoves DEF Moves, pc, Quiet
  <2>2. CASE NextColour
    BY <2>2, ThreadMoves DEF pc, Quiet
  <2>3. CASE ReceiveLine
    BY <2>3, ThreadMoves DEF pc, Quiet
  <2>4. CASE UartUnpause
    BY <2>4, ThreadMoves DEF Moves, pc, Quiet
  <2>5. CASE ButtonPressed \/ CompareEvent \/ SpisHandler \/ TimerHandler
    <3>1. call' = call
      BY <2>5, OtherEffects DEF builder
    <3> QED
      BY <3>1 DEF pc, Quiet
  <2> QED
    BY <2>1, <2>2, <2>3, <2>4, <2>5 DEF Elsewhere
<1> QED
  BY <1>1, <1>2, <1>3, <1>4, <1>5

\* Messages are unpaused only outside.
LEMMA UnpausedQuiet ==
    ASSUME ThreadInv, ~messages_paused
    PROVE  Quiet
BY DEF ThreadInv, Quiet

\* While a caller is inside nobody else is quiet, and when it leaves all are.
LEMMA QuietAfter ==
    ASSUME TypeInv, ThreadInv, NEW c \in Callers, ConstructFrame(c)
    PROVE  /\ ~Publish(c) => ~Quiet'
           /\ Publish(c) => ~Quiet
<1> USE PointNames
<1>1. pc(c) \in Steps /\ (~Publish(c) => pc(c)' \in Inside) /\ (Publish(c) => pc(c) = "publish")
  BY BuilderEffects
<1> QED
  BY <1>1 DEF Quiet

LEMMA ContentInit == Init => ContentInv
BY DEF Init, ContentInv, Building, Quiet, Callers, pc, Steps

LEMMA ContentStep ==
    ASSUME OneBuilder, TypeInv, ThreadInv, ContentInv, Next
    PROVE  ContentInv'
<1> USE PointNames
<1>1. ASSUME NEW c \in Callers, ConstructFrame(c)
      PROVE  ContentInv'
  <2>1. Building(c)'
    BY <1>1, BuildStep DEF ContentInv
  <2>2. ASSUME NEW d \in Callers \ {c}
        PROVE  Building(d)'
    <3>1. pc(d)' = pc(d) /\ pc(d) \notin Steps
      BY <1>1, BuilderEffects DEF pc
    <3>2. pc(d)' \notin Inside
      BY <3>1
    <3> QED
      BY <3>2 DEF Building
  <2>3. CASE Publish(c)
    <3>1. pc(c) = "publish" /\ UNCHANGED schedule
      BY <1>1, <2>3, BuilderEffects
    <3>2. Loaded
      <4>1. /\ Stored(factor_periods, call[c].msg, len) /\ idx = len
            /\ factor_periods[len] = GapPeriods
        BY <3>1 DEF ContentInv, Building
      <4> QED
        BY <4>1, Activations, Numbers DEF Loaded
    <3>3. Loaded'
      BY <3>1, <3>2 DEF Loaded, schedule, idx, len
    <3> QED
      BY <2>1, <2>2, <3>3 DEF ContentInv
  <2>4. CASE ~Publish(c)
    BY <1>1, <2>1, <2>2, <2>4, QuietAfter DEF ContentInv
  <2> QED
    BY <2>3, <2>4
<1>2. CASE Elsewhere
  <2>1. /\ UNCHANGED <<len, factor_periods, frame>>
        /\ \A c \in Callers : pc(c)' \in Inside => call'[c] = call[c] /\ pc(c) \in Inside
        /\ Quiet' => Quiet
        /\ ~TimerHandler \/ messages_paused => UNCHANGED <<idx, messages_send_started>>
    BY <1>2, ElsewhereEffects
  <2>2. ASSUME NEW c \in Callers
        PROVE  Building(c)'
    <3>1. CASE pc(c)' \in Inside
      <4>1. call'[c] = call[c] /\ pc(c)' = pc(c) /\ pc(c) \in Inside /\ messages_paused
        BY <2>1, <3>1 DEF pc, ThreadInv
      <4>2. UNCHANGED <<idx, messages_send_started>>
        BY <2>1, <4>1
      <4>3. Scanned(c) => Scanned(c)'
        BY <2>1, <4>1 DEF Scanned, Copied, Bits, FrameSize
      <4>4. \A n : Copied(c, n) => Copied(c, n)'
        BY <2>1, <4>1 DEF Copied, Bits
      <4>5. Building(c)
        BY DEF ContentInv
      <4>6. pc(c)' = "append" => Copied(c, call[c].pos)'
        BY <4>1, <4>4, <4>5 DEF Building, Copied, Bits
      <4> QED
        BY <2>1, <4>1, <4>2, <4>3, <4>5, <4>6 DEF Building
    <3>2. CASE pc(c)' \notin Inside
      BY <3>2 DEF Building
    <3> QED
      BY <3>1, <3>2
  <2>3. Quiet' => Loaded'
    <3> SUFFICES ASSUME Quiet, Loaded PROVE Loaded'
      BY <2>1 DEF ContentInv
    <3>1. idx' <= len
      <4>1. CASE ~TimerHandler \/ messages_paused
        BY <2>1, <4>1 DEF Loaded
      <4>2. CASE TimerHandler /\ ~messages_paused /\ idx < len /\ InFrame
        BY <4>2, Numbers DEF InFrame, idx
      <4>3. CASE TimerHandler /\ (PauseAfterLast \/ StartCountDown \/ CountDown)
        <5>1. idx' \in {0, idx, len}
          BY <4>3 DEF PauseAfterLast, StartCountDown, CountDown, idx, len
        <5> QED
          BY <5>1, Numbers DEF Loaded
      <4> QED
        BY <4>1, <4>2, <4>3, TimerCases
    <3> QED
      BY <2>1, <3>1 DEF Loaded
  <2> QED
    BY <2>2, <2>3 DEF ContentInv
<1> QED
  BY <1>1, <1>2, NextCases

-----------------------------------------------------------------------------
(* The gap: pulses shown and pulses still to count make up the whole gap,   *)
(* also when a new schedule has replaced the one the count down began with. *)

GapInv ==
    /\ cd > 0 => gap + cd >= NrPulses
    /\ Quiet /\ (cd > 0 \/ messages_paused) => idx = len
    /\ Quiet /\ idx = 0 => gap >= NrPulses
    /\ Quiet /\ 0 < idx /\ idx < len => gap = 0

LEMMA GapInit == Init => GapInv
BY DEF Init, GapInv, Quiet, cd, Callers, pc, Steps

\* The handler's effect on the gap.
LEMMA GapEffects ==
    ASSUME TypeInv, TimerHandler
    PROVE  /\ gap' \in Nat
           /\ ~messages_paused /\ idx < len => gap' = 0
           /\ messages_paused \/ idx >= len => gap' >= gap /\ (gap' = gap + 1 \/ gap' > NrPulses)
<1>1. gap' = IF ~messages_paused /\ idx < len THEN 0 ELSE Bounded(gap + 1, NrPulses + 1)
  BY DEF TimerHandler, Observe, idx, len
<1>2. gap <= NrPulses + 1
  BY Numbers DEF TypeInv, TypeOK
<1> QED
  BY <1>1, <1>2, Numbers DEF Bounded

LEMMA GapStep ==
    ASSUME OneBuilder, TypeInv, ThreadInv, ContentInv, GapInv, Next
    PROVE  GapInv'
<1> USE Numbers
<1>1. ASSUME NEW c \in Callers, ConstructFrame(c)
      PROVE  GapInv'
  <2>1. cd' = cd /\ gap' = gap
    BY <1>1, BuilderEffects
  <2>2. CASE Publish(c)
    <3>1. pc(c) = "publish" /\ UNCHANGED schedule
      BY <1>1, <2>2, BuilderEffects
    <3>2. idx = len /\ idx > 0 /\ idx' = idx /\ len' = len
      BY <3>1, Activations DEF ContentInv, Building, Stored, schedule, idx, len
    <3>3. idx' = len' /\ idx' # 0 /\ ~(idx' < len')
      BY <3>2
    <3> QED
      BY <2>1, <3>3 DEF GapInv
  <2>3. CASE ~Publish(c)
    BY <1>1, <2>1, <2>3, QuietAfter DEF GapInv
  <2> QED
    BY <2>2, <2>3
<1>2. CASE Elsewhere /\ ~TimerHandler
  BY <1>2, ElsewhereEffects DEF GapInv
<1>3. CASE TimerHandler /\ messages_paused
  <2>1. UNCHANGED <<idx, len, cd>> /\ (Quiet' => Quiet)
    BY <1>3, ElsewhereEffects DEF Elsewhere
  <2>2. gap' >= gap /\ gap' \in Nat
    BY <1>3, GapEffects
  <2>3. Quiet => Loaded
    BY DEF ContentInv
  <2> QED
    BY <1>3, <2>1, <2>2, <2>3 DEF GapInv, Loaded, Stored
<1>4. CASE TimerHandler /\ ~messages_paused
  <2>1. Quiet /\ Loaded /\ len' = len /\ len > 0 /\ idx <= len /\ gap' \in Nat
    BY <1>4, UnpausedQuiet, ElsewhereEffects, GapEffects DEF Elsewhere, ContentInv, Loaded, Stored
  <2>2. CASE idx < len /\ InFrame
    <3>1. gap' = 0 /\ cd' = cd /\ cd = 0 /\ ~messages_paused' /\ idx' = idx + 1
      BY <1>4, <2>1, <2>2, GapEffects DEF InFrame, counters, idx, len, cd, GapInv
    <3> QED
      BY <2>1, <3>1 DEF GapInv
  <2>3. CASE idx >= len /\ (PauseAfterLast \/ StartCountDown \/ CountDown)
    <3>1. gap' >= gap /\ (gap' = gap + 1 \/ gap' > NrPulses) /\ idx = len
      BY <1>4, <2>1, <2>3, GapEffects
    <3>3. CASE PauseAfterLast
      <4>1. cd' = cd /\ idx' = len
        BY <3>3 DEF PauseAfterLast, cd, idx, len
      <4>2. cd' > 0 => gap' + cd' >= NrPulses
        BY <2>1, <3>1, <4>1 DEF GapInv
      <4> QED
        BY <2>1, <4>1, <4>2 DEF GapInv
    <3>4. CASE StartCountDown
      <4>1. idx' = idx /\ cd' \in {NrPulses - 1, NrPulses}
        BY <3>4 DEF StartCountDown, idx, cd
      <4>2. gap' + cd' >= NrPulses
        BY <2>1, <3>1, <4>1
      <4> QED
        BY <2>1, <3>1, <4>1, <4>2 DEF GapInv
    <3>5. CASE CountDown
      <4>1. /\ cd > 0 /\ cd' = cd - 1 /\ ~messages_paused'
            /\ cd' = 0 => idx' = 0
            /\ cd' # 0 => idx' = idx
        BY <2>3, <3>5 DEF CountDown, AtFrameEnd, idx, cd
      <4>2. gap + cd >= NrPulses
        BY <4>1 DEF GapInv
      <4>3. gap' + cd' >= NrPulses
        BY <2>1, <3>1, <4>1, <4>2
      <4>4. CASE cd' = 0
        BY <2>1, <4>1, <4>3, <4>4 DEF GapInv
      <4>5. CASE cd' # 0
        BY <2>1, <3>1, <4>1, <4>3, <4>5 DEF GapInv
      <4> QED
        BY <4>4, <4>5
    <3> QED
      BY <2>3, <3>3, <3>4, <3>5
  <2> QED
    BY <1>4, <2>2, <2>3, TimerCases
<1> QED
  BY <1>1, <1>2, <1>3, <1>4, NextCases DEF Elsewhere

-----------------------------------------------------------------------------
(* The count: the frames shown since messages were unpaused are the frames *)
(* started, but for the one being sent.                                    *)

CountInv ==
    /\ Quiet /\ messages_paused => messages_send_started = 0
    /\ ~Infinite /\ ~messages_paused =>
         /\ messages_send_started <= NumberOfMessages
         /\ idx = len => shown = messages_send_started
         /\ idx < len => shown + 1 = messages_send_started

LEMMA CountInit == Init => CountInv
BY DEF Init, CountInv

LEMMA CountStep ==
    ASSUME OneBuilder, TypeInv, ThreadInv, ContentInv, GapInv, CountInv, Next
    PROVE  CountInv'
<1> USE Numbers
<1>1. ASSUME NEW c \in Callers, ConstructFrame(c)
      PROVE  CountInv'
  <2>1. CASE Publish(c)
    <3>1. pc(c) = "publish" /\ ~messages_paused' /\ shown' = 0 /\ UNCHANGED <<schedule, counters>>
      BY <1>1, <2>1, BuilderEffects
    <3>2. idx' = len' /\ messages_send_started' = 0
      BY <3>1 DEF ContentInv, Building, schedule, counters, idx, len
    <3>3. len' = len
      BY <3>1 DEF schedule, len
    <3> QED
      BY <3>1, <3>2, <3>3 DEF CountInv
  <2>2. CASE ~Publish(c)
    BY <1>1, <2>2, QuietAfter, BuilderEffects DEF CountInv
  <2> QED
    BY <2>1, <2>2
<1>2. CASE Elsewhere /\ ~TimerHandler
  <2>1. /\ UNCHANGED <<idx, len, messages_send_started>>
        /\ Quiet' => Quiet
        /\ messages_paused' => messages_paused
    BY <1>2, ElsewhereEffects
  <2>2. /\ (messages_paused <=> messages_paused') => shown' = shown
        /\ messages_paused /\ ~messages_paused' =>
             shown' = 0 /\ (UartUnpause \/ ButtonPressed)
    BY <1>2, OtherEffects DEF Elsewhere, history
  <2>3. CASE messages_paused /\ ~messages_paused'
    <3>1. Quiet
      <4>1. CASE UartUnpause
        BY <4>1, ThreadMoves, PointNames DEF Moves, ThreadInv, Quiet
      <4>2. CASE ButtonPressed
        BY <2>3, <4>2, OtherEffects DEF OneBuilder, ThreadInv
      <4> QED
        BY <2>2, <2>3, <4>1, <4>2
    <3>2. idx = len /\ messages_send_started = 0
      BY <2>3, <3>1 DEF GapInv, CountInv
    <3> QED
      BY <2>1, <2>2, <2>3, <3>2 DEF CountInv
  <2>4. CASE messages_paused <=> messages_paused'
    BY <2>1, <2>2, <2>4 DEF CountInv
  <2> QED
    BY <2>1, <2>3, <2>4
<1>3. CASE TimerHandler /\ messages_paused
  <2>1. UNCHANGED messages_send_started /\ (Quiet' => Quiet) /\ messages_paused'
    BY <1>3, ElsewhereEffects, TimerCases DEF Elsewhere, StayPaused
  <2> QED
    BY <1>3, <2>1 DEF CountInv
<1>4. CASE TimerHandler /\ ~messages_paused
  <2>1. Quiet /\ len' = len /\ len > 0 /\ idx <= len
    BY <1>4, UnpausedQuiet, ElsewhereEffects DEF Elsewhere, ContentInv, Loaded, Stored
  <2>2. ~(~messages_paused /\ idx + 1 = len) => shown' = shown
    BY <1>4 DEF TimerHandler, Observe, idx, len
  <2>3. CASE PauseAfterLast
    <3>1. messages_paused' /\ messages_send_started' = 0
      BY <2>3 DEF PauseAfterLast
    <3> QED
      BY <3>1 DEF CountInv
  <2>4. CASE ~PauseAfterLast
    <3>1. ~messages_paused'
      BY <1>4, <2>4, TimerCases DEF InFrame, StartCountDown, CountDown, AtFrameEnd
    <3> SUFFICES ASSUME ~Infinite
                 PROVE  /\ messages_send_started' <= NumberOfMessages
                        /\ idx' = len => shown' = messages_send_started'
                        /\ idx' < len => shown' + 1 = messages_send_started'
      BY <2>1, <3>1 DEF CountInv
    <3>2. /\ messages_send_started <= NumberOfMessages
          /\ idx = len => shown = messages_send_started
          /\ idx < len => shown + 1 = messages_send_started
      BY <1>4 DEF CountInv
    <3>3. CASE idx < len /\ InFrame
      <4>1. idx' = idx + 1 /\ messages_send_started' = messages_send_started
        BY <3>3 DEF InFrame, counters, idx
      <4>2. idx + 1 = len => shown' = shown + 1
        <5>1. idx + 1 = len => shown' = Bounded(shown + 1, NumberOfMessages + 1)
          BY <1>4 DEF TimerHandler, Observe, idx, len
        <5>2. shown + 1 <= NumberOfMessages + 1
          BY <3>2, <3>3
        <5> QED
          BY <5>1, <5>2 DEF Bounded
      <4> QED
        BY <1>4, <2>2, <3>2, <3>3, <4>1, <4>2
    <3>4. CASE idx >= len /\ StartCountDown
      <4>1. idx' = idx /\ messages_send_started' = messages_send_started
        BY <3>4 DEF StartCountDown, idx
      <4>2. shown' = shown
        BY <2>2, <3>4
      <4> QED
        BY <3>2, <4>1, <4>2
    <3>5. CASE idx >= len /\ CountDown
      <4>1. messages_send_started < NumberOfMessages
        BY <3>5 DEF CountDown, SentAll
      <4>2. (messages_send_started + 1) % CounterMod = messages_send_started + 1
        BY <4>1
      <4>3. shown' = shown /\ idx = len
        BY <2>1, <2>2, <3>5
      <4>4. CASE cd' = 0
        <5>1. idx' = 0 /\ messages_send_started' = messages_send_started + 1
          BY <3>5, <4>2, <4>4 DEF CountDown, idx, cd
        <5> QED
          BY <2>1, <3>2, <4>1, <4>3, <5>1
      <4>5. CASE cd' # 0
        <5>1. idx' = idx /\ messages_send_started' = messages_send_started
          BY <3>5, <4>5 DEF CountDown, idx, cd
        <5> QED
          BY <3>2, <4>3, <5>1
      <4> QED
        BY <4>4, <4>5
    <3> QED
      BY <1>4, <2>4, <3>3, <3>4, <3>5, TimerCases
  <2> QED
    BY <2>3, <2>4
<1> QED
  BY <1>1, <1>2, <1>3, <1>4, NextCases DEF Elsewhere

-----------------------------------------------------------------------------
(* The compare value.  The first schedule leaves no entry up to its pulse   *)
(* entry at 0, and an index that a schedule has left or is given later      *)
(* stays among entries stored, but for the end of a longer schedule before  *)
(* its pulse entry is stored.                                               *)

\* What is stored in one scan is as long as the frame has levels.
LevelInv(c) ==
    /\ pc(c) = "scan" /\ call[c].pos - call[c].run < FrameSize(c) =>
         call[c].periods = Cardinality(Changes(call[c].msg, call[c].pos - call[c].run))
    /\ pc(c) = "scan" /\ call[c].pos - call[c].run = FrameSize(c) =>
         call[c].periods = NrLevels(call[c].msg)
    /\ pc(c) \in {"setIndex", "setStarted", "setPulse", "publish"} =>
         call[c].periods = NrLevels(call[c].msg)

\* The serial handler has set the index to the end of a line longer than the first frame and
\* has not stored the line's pulse entry yet.
BehindLongLine ==
    /\ call["uart"].pc \in {"setStarted", "setPulse"}
    /\ NrLevels(call["uart"].msg) > NrLevels(Hello)

EntryInv ==
    /\ call["main"].msg \in RgbMessages \cup {Hello}
    /\ ~(dmd_paused /\ pc("main") \in Steps) =>
         /\ \A i \in 0..NrLevels(Hello) : factor_periods[i] > 0
         /\ factor_periods[idx] > 0 \/ BehindLongLine

LEMMA ChangesFacts ==
    ASSUME NEW m \in Messages, NEW n \in Nat
    PROVE  /\ IsFiniteSet(Changes(m, n)) /\ Cardinality(Changes(m, n)) \in Nat
           /\ Cardinality(Changes(m, n)) <= n
           /\ Changes(m, 0) = {}
<1>1. IsFiniteSet(1..n) /\ Cardinality(1..n) = n
  BY FS_Interval
<1>2. Changes(m, n) \subseteq 1..n /\ Changes(m, 0) = {}
  BY DEF Changes
<1> QED
  BY <1>1, <1>2, FS_Subset, FS_CardinalityType

LEMMA LevelBounds ==
    ASSUME NEW m \in Messages
    PROVE  NrLevels(m) \in 1..Slots
<1>1. Len(FrameBits[m]) \in 1..Slots /\ Slots \in Nat
  BY MessagesAssumption
<1>2. Len(FrameBits[m]) - 1 \in Nat
  BY <1>1
<1>3. /\ Cardinality(Changes(m, Len(FrameBits[m]) - 1)) \in Nat
      /\ Cardinality(Changes(m, Len(FrameBits[m]) - 1)) <= Len(FrameBits[m]) - 1
  BY <1>2, ChangesFacts
<1> QED
  BY <1>1, <1>3 DEF NrLevels

\* A run of equal bits adds one change at most, behind its last bit.
LEMMA ChangesMore ==
    ASSUME NEW m \in Messages, NEW p \in Nat, NEW q \in Nat, p < q,
           \A k \in (p + 1)..(q - 1) : FrameBits[m][k] = FrameBits[m][k + 1]
    PROVE  /\ Changes(m, q - 1) = Changes(m, p)
           /\ FrameBits[m][q] # FrameBits[m][q + 1] =>
                Cardinality(Changes(m, q)) = Cardinality(Changes(m, p)) + 1
<1>1. Changes(m, q - 1) = Changes(m, p)
  <2>1. \A k \in 1..(q - 1) : k \in 1..p \/ k \in (p + 1)..(q - 1)
    OBVIOUS
  <2>2. \A k \in 1..p : k \in 1..(q - 1)
    OBVIOUS
  <2> QED
    BY <2>1, <2>2 DEF Changes
<1>2. ASSUME FrameBits[m][q] # FrameBits[m][q + 1]
      PROVE  Cardinality(Changes(m, q)) = Cardinality(Changes(m, p)) + 1
  <2>1. Changes(m, q) = Changes(m, q - 1) \cup {q}
    <3>1. \A k \in 1..q : k \in 1..(q - 1) \/ k = q
      OBVIOUS
    <3>2. (\A k \in 1..(q - 1) : k \in 1..q) /\ q \in 1..q
      OBVIOUS
    <3> QED
      BY <1>2, <3>1, <3>2 DEF Changes
  <2>2. q \notin Changes(m, q - 1)
    BY DEF Changes
  <2>3. IsFiniteSet(Changes(m, p))
    BY ChangesFacts
  <2> QED
    BY <1>1, <2>1, <2>2, <2>3, FS_AddElement
<1> QED
  BY <1>1, <1>2

LEMMA LevelStep ==
    ASSUME TypeInv, ThreadInv, NEW c \in Callers, Building(c), LevelInv(c), ConstructFrame(c)
    PROVE  LevelInv(c)'
<1> DEFINE a == call[c]
           m == call[c].msg
           s == FrameBits[call[c].msg]
<1>a. /\ a.pos \in Nat /\ a.run \in Nat /\ a.periods \in Nat
      /\ m \in Messages /\ s \in Seq({0, 1}) /\ FrameSize(c) = Len(s) /\ Len(s) \in Nat /\ Len(s) > 0
  BY Activations, MessagesAssumption DEF FrameSize
<1>b. call'[c].msg = m /\ FrameSize(c)' = Len(s)
  BY <1>a, BuilderEffects DEF FrameSize
<1>c. /\ a.pos <= Len(s) \/ pc(c) \notin {"append", "scan"}
      /\ pc(c) = "scan" => a.periods + a.run <= a.pos
  BY <1>a DEF TypeInv, ScanBounded, pc
<1> HIDE DEF a, m, s
<1>1. CASE Enter(c) \/ AppendBit(c)
  <2>1. pc(c)' = "append"
    BY <1>1, BuilderMoves DEF Moves
  <2> QED
    BY <2>1 DEF LevelInv
<1>2. CASE StartScan(c)
  <2>1. pc(c)' = "scan" /\ call'[c].pos = 0 /\ call'[c].run = 0 /\ call'[c].periods = 0
    BY <1>2, BuilderMoves DEF Moves
  <2>2. 0 - 0 = 0 /\ 0 # Len(s) /\ Cardinality(Changes(m, 0)) = 0
    BY <1>a, ChangesFacts, FS_EmptySet
  <2> QED
    BY <1>b, <2>1, <2>2 DEF LevelInv
<1>3. CASE CountBit(c)
  <2>1. /\ pc(c) = "scan" /\ pc(c)' = "scan" /\ a.pos < Len(s)
        /\ call'[c].pos = a.pos + 1 /\ call'[c].run = a.run + 1
        /\ call'[c].periods = a.periods
    BY <1>3, <1>a, BuilderMoves DEF Moves, CountBit, InRun, a
  <2>2. (a.pos + 1) - (a.run + 1) = a.pos - a.run /\ a.pos - a.run < Len(s)
    BY <1>a, <2>1
  <2>3. a.pos - a.run # Len(s)
    BY <1>a, <2>2
  <2> QED
    BY <1>a, <1>b, <2>1, <2>2, <2>3 DEF LevelInv, a, m
<1>4. CASE StorePeriod(c)
  <2>1. /\ pc(c) = "scan" /\ pc(c)' = "scan" /\ ~InRun(c) /\ a.run > 0
        /\ call'[c].pos = a.pos /\ call'[c].run = 0
        /\ call'[c].periods = a.periods + 1
    BY <1>4, BuilderMoves DEF Moves, StorePeriod, a
  <2>2. /\ a.pos < Len(s) => frame[a.pos] # a.bit
        /\ \A k \in (a.pos - a.run)..(a.pos - 1) : frame[k] = a.bit
        /\ \A k \in 0..(Len(s) - 1) : frame[k] = s[k + 1]
    BY <1>a, <2>1 DEF InRun, Building, Scanned, Copied, Bits, a, s
  <2>3. a.pos - a.run \in Nat /\ a.pos - a.run < a.pos /\ a.pos <= Len(s)
    BY <1>a, <1>c, <2>1
  <2>4. \A k \in (a.pos - a.run)..(a.pos - 1) : s[k + 1] = a.bit
    <3>1. \A k \in (a.pos - a.run)..(a.pos - 1) : k \in 0..(Len(s) - 1)
      BY <1>a, <2>3
    <3> QED
      BY <2>2, <3>1
  <2>5. \A k \in ((a.pos - a.run) + 1)..(a.pos - 1) : s[k] = s[k + 1]
    <3> SUFFICES ASSUME NEW k \in ((a.pos - a.run) + 1)..(a.pos - 1) PROVE s[k] = s[k + 1]
      OBVIOUS
    <3>1. /\ k \in (a.pos - a.run)..(a.pos - 1) /\ k - 1 \in (a.pos - a.run)..(a.pos - 1)
          /\ (k - 1) + 1 = k
      BY <1>a
    <3>2. s[(k - 1) + 1] = a.bit
      BY <2>4, <3>1
    <3> QED
      BY <2>4, <3>1, <3>2
  <2>6. a.periods = Cardinality(Changes(m, a.pos - a.run))
    BY <1>a, <2>1, <2>3 DEF LevelInv, a, m
  <2>7. /\ Changes(m, a.pos - 1) = Changes(m, a.pos - a.run)
        /\ s[a.pos] # s[a.pos + 1] =>
             Cardinality(Changes(m, a.pos)) = Cardinality(Changes(m, a.pos - a.run)) + 1
    BY <1>a, <2>3, <2>5, ChangesMore DEF m, s
  <2>8. CASE a.pos < Len(s)
    <3>1. /\ a.pos - 1 \in (a.pos - a.run)..(a.pos - 1) /\ (a.pos - 1) + 1 = a.pos
          /\ a.pos \in 0..(Len(s) - 1)
      BY <1>a, <2>1, <2>3, <2>8
    <3>2. s[(a.pos - 1) + 1] = a.bit /\ s[a.pos + 1] # a.bit
      BY <2>2, <2>4, <2>8, <3>1
    <3>3. a.pos - 0 = a.pos /\ a.pos # Len(s)
      BY <1>a, <2>8
    <3> QED
      BY <1>b, <2>1, <2>6, <2>7, <3>1, <3>2, <3>3 DEF LevelInv
  <2>9. CASE a.pos = Len(s)
    <3>1. a.periods + 1 = NrLevels(m)
      BY <2>6, <2>7, <2>9 DEF NrLevels, m, s
    <3>2. a.pos - 0 = a.pos /\ ~(a.pos < Len(s))
      BY <1>a, <2>9
    <3> QED
      BY <1>b, <2>1, <3>1, <3>2 DEF LevelInv
  <2> QED
    BY <1>a, <2>3, <2>8, <2>9
<1>5. CASE SetLength(c)
  <2>1. /\ pc(c) = "scan" /\ pc(c)' = "setIndex" /\ a.run = 0 /\ a.pos = Len(s)
        /\ call'[c].periods = a.periods
    BY <1>5, <1>a, BuilderMoves DEF Moves, SetLength, a
  <2>2. a.pos - a.run = Len(s)
    BY <1>a, <2>1
  <2> QED
    BY <1>a, <1>b, <2>1, <2>2 DEF LevelInv, a, m
<1>6. CASE SetIndex(c) \/ SetStarted(c) \/ SetPulse(c)
  <2>1. /\ pc(c) \in {"setIndex", "setStarted", "setPulse"}
        /\ pc(c)' \in {"setStarted", "setPulse", "publish"}
        /\ call'[c].periods = call[c].periods
    BY <1>6, BuilderMoves DEF Moves
  <2> QED
    BY <1>b, <2>1 DEF LevelInv, m
<1>7. CASE Publish(c)
  <2>1. pc(c)' \in {"unpause", "power", "wait"}
    BY <1>7, BuilderMoves DEF Moves, AfterConstruct, Callers
  <2> QED
    BY <2>1 DEF LevelInv
<1> QED
  BY <1>1, <1>2, <1>3, <1>4, <1>5, <1>6, <1>7 DEF ConstructFrame

LengthInv == \A c \in Callers : LevelInv(c)

LEMMA LengthInit == Init => LengthInv
BY DEF Init, LengthInv, LevelInv, Callers, pc

LEMMA LengthStep ==
    ASSUME TypeInv, ThreadInv, ContentInv, LengthInv, Next
    PROVE  LengthInv'
<1> USE PointNames
<1>1. ASSUME NEW c \in Callers, ConstructFrame(c), NEW d \in Callers
      PROVE  LevelInv(d)'
  <2>1. CASE d = c
    BY <1>1, <2>1, LevelStep DEF ContentInv, LengthInv
  <2>2. CASE d # c
    <3>1. pc(d)' = pc(d) /\ pc(d) \notin Steps
      BY <1>1, <2>2, BuilderEffects DEF pc
    <3>2. pc(d)' \notin Inside
      BY <3>1
    <3> QED
      BY <3>2 DEF LevelInv
  <2> QED
    BY <2>1, <2>2
<1>2. ASSUME Elsewhere, NEW d \in Callers
      PROVE  LevelInv(d)'
  <2>1. pc(d)' \in Inside => call'[d] = call[d]
    BY <1>2, ElsewhereEffects
  <2>2. LevelInv(d)
    BY DEF LengthInv
  <2> QED
    BY <2>1, <2>2 DEF LevelInv, pc, FrameSize
<1> QED
  BY <1>1, <1>2, NextCases DEF LengthInv

LEMMA EntryInit == Init => EntryInv
BY PointNames DEF Init, EntryInv, pc

\* An index the handler moves to while messages are not paused is an entry of a message or its
\* pulse entry.
LEMMA LoadedPositive ==
    ASSUME TypeInv, Loaded, NEW i \in 0..len
    PROVE  factor_periods[i] > 0
<1>1. len \in Nat
  BY Numbers
<1>2. CASE i = len
  BY <1>2 DEF Loaded, GapPeriods
<1>3. CASE i # len
  <2>1. i \in 0..(len - 1)
    BY <1>1, <1>3
  <2> QED
    BY <2>1 DEF Loaded, Stored, Positive
<1> QED
  BY <1>2, <1>3

\* A step of construct_frame leaves the index at an entry that is not 0, or behind a long line.
LEMMA EntryBuilds ==
    ASSUME ColoursHaveNoMoreLevels, TypeInv, ThreadInv, ContentInv, LengthInv, EntryInv,
           NEW c \in Callers, ConstructFrame(c)
    PROVE  EntryInv'
<1> DEFINE N == NrLevels(Hello)
<1> USE PointNames
<1>a. N \in 1..Slots /\ Slots \in Nat /\ \A i \in 0..N : i \in 0..Slots
  BY LevelBounds, MessagesAssumption
<1>b. factor_periods \in [0..Slots -> 0..PeriodMax]
  BY DEF TypeInv, TypeOK
<1>1. /\ UNCHANGED dmd_paused
      /\ pc(c) \in Steps
      /\ ~Publish(c) => pc(c)' \in Inside
      /\ Publish(c) => pc(c) = "publish" /\ UNCHANGED schedule
      /\ call'[c].msg = call[c].msg
      /\ \A d \in Callers \ {c} : call'[d] = call[d] /\ pc(d)' = pc(d) /\ pc(d) \notin Steps
  BY BuilderEffects DEF timer, pc
<1>2. call'["main"].msg \in RgbMessages \cup {Hello} /\ call'["uart"].msg = call["uart"].msg
  BY <1>1 DEF EntryInv
<1> HIDE DEF N
<1>3. CASE dmd_paused /\ pc("main") \in Steps
  <2>1. c = "main"
    BY <1>1, <1>3
  <2>2. CASE Publish(c)
    <3>1. /\ call[c].msg = Hello /\ pc(c) = "publish"
          /\ Stored(factor_periods, Hello, len) /\ len = N /\ idx = N
          /\ factor_periods[N] = GapPeriods
      BY <1>1, <1>3, <2>1, <2>2 DEF ThreadInv, ContentInv, Building, LengthInv, LevelInv, N
    <3>2. ASSUME NEW i \in 0..N
          PROVE  factor_periods[i] > 0
      <4>1. CASE i = N
        BY <3>1, <4>1 DEF GapPeriods
      <4>2. CASE i # N
        <5>1. i \in 0..(N - 1)
          BY <1>a, <4>2
        <5> QED
          BY <3>1, <5>1 DEF Stored, Positive
      <4> QED
        BY <4>1, <4>2
    <3>3. UNCHANGED <<idx, factor_periods>> /\ N \in 0..N
      BY <1>1, <1>a, <2>2 DEF schedule, idx
    <3>4. factor_periods'[idx'] > 0
      BY <3>1, <3>2, <3>3
    <3> QED
      BY <1>2, <3>2, <3>3, <3>4 DEF EntryInv, N
  <2>3. CASE ~Publish(c)
    <3>1. dmd_paused' /\ pc("main")' \in Steps
      BY <1>1, <1>3, <2>1, <2>3
    <3> QED
      BY <1>2, <3>1 DEF EntryInv
  <2> QED
    BY <2>2, <2>3
<1>4. CASE ~(dmd_paused /\ pc("main") \in Steps)
  <2>1. /\ \A i \in 0..N : factor_periods[i] > 0
        /\ factor_periods[idx] > 0 \/ BehindLongLine
    BY <1>4 DEF EntryInv, N
  <2>2. idx \in 0..Slots
    BY DEF TypeInv, TypeOK, idx
  <2> SUFFICES /\ \A i \in 0..N : factor_periods'[i] > 0
               /\ factor_periods'[idx'] > 0 \/ BehindLongLine'
    BY <1>2 DEF EntryInv, N
  <2>3. CASE StorePeriod(c)
    <3>1. /\ pc(c) = "scan" /\ call[c].run > 0 /\ idx' = idx
          /\ factor_periods' = [factor_periods EXCEPT ![call[c].periods] = call[c].run]
      BY <2>3, BuilderMoves DEF Moves, StorePeriod, idx
    <3>2. ~BehindLongLine
      BY <1>1, <3>1 DEF BehindLongLine, pc
    <3> QED
      BY <1>a, <1>b, <2>1, <2>2, <3>1, <3>2
  <2>4. CASE SetIndex(c)
    <3>1. /\ pc(c) = "setIndex" /\ pc(c)' = "setStarted" /\ UNCHANGED factor_periods
          /\ idx' = call[c].periods /\ call[c].periods = NrLevels(call[c].msg)
          /\ call[c].msg \in Messages
      BY <2>4, BuilderMoves, Activations DEF Moves, SetIndex, idx, LengthInv, LevelInv
    <3>2. CASE NrLevels(call[c].msg) <= N
      <4>1. idx' \in 0..N
        BY <1>a, <3>1, <3>2, LevelBounds
      <4> QED
        BY <2>1, <3>1, <4>1
    <3>3. CASE ~(NrLevels(call[c].msg) <= N)
      <4>1. c = "uart"
        BY <1>a, <3>3 DEF EntryInv, ColoursHaveNoMoreLevels, N
      <4>2. NrLevels(call["uart"].msg) > N
        BY <1>a, <3>1, <3>3, <4>1, LevelBounds
      <4> QED
        BY <1>2, <2>1, <3>1, <4>1, <4>2 DEF BehindLongLine, pc, N
    <3> QED
      BY <3>2, <3>3
  <2>5. CASE SetStarted(c)
    <3>1. /\ UNCHANGED <<idx, factor_periods>> /\ pc(c) = "setStarted" /\ pc(c)' = "setPulse"
      BY <2>5, BuilderMoves DEF Moves, SetStarted, idx, schedule
    <3>2. BehindLongLine => BehindLongLine'
      BY <1>1, <1>2, <3>1 DEF BehindLongLine, pc
    <3> QED
      BY <2>1, <3>1, <3>2
  <2>6. CASE SetPulse(c)
    <3>1. /\ idx' = idx /\ pc(c) = "setPulse"
          /\ factor_periods' = [factor_periods EXCEPT ![len] = GapPeriods]
      BY <2>6, BuilderMoves DEF Moves, SetPulse, idx, len
    <3>2. idx = len
      BY <3>1 DEF ContentInv, Building
    <3> QED
      BY <1>a, <1>b, <2>1, <2>2, <3>1, <3>2 DEF GapPeriods
  <2>7. CASE Enter(c) \/ AppendBit(c) \/ StartScan(c) \/ CountBit(c) \/ SetLength(c) \/ Publish(c)
    <3>1. UNCHANGED <<idx, factor_periods>>
      BY <2>7 DEF Enter, AppendBit, StartScan, CountBit, SetLength, Publish, schedule, idx
    <3>2. pc(c) \in {"enter", "append", "scan", "publish"}
      BY <2>7, BuilderMoves DEF Moves
    <3>3. ~BehindLongLine
      BY <1>1, <3>2 DEF BehindLongLine, pc
    <3> QED
      BY <2>1, <3>1, <3>3
  <2> QED
    BY <2>3, <2>4, <2>5, <2>6, <2>7 DEF ConstructFrame
<1> QED
  BY <1>3, <1>4

\* So does every other step: the handler moves the index only within a whole schedule.
LEMMA EntryStep ==
    ASSUME ColoursHaveNoMoreLevels, TypeInv, ThreadInv, ContentInv, LengthInv, EntryInv, Next
    PROVE  EntryInv'
<1> USE PointNames
<1>1. CASE Elsewhere
  <2>1. UNCHANGED factor_periods
    BY <1>1, ElsewhereEffects
  <2>2. CASE ~TimerHandler
    <3>1. idx' = idx
      BY <1>1, <2>2, ElsewhereEffects
    <3>2. /\ dmd_paused /\ pc("main") \in Steps => dmd_paused' /\ pc("main")' \in Steps
          /\ call'["main"].msg \in RgbMessages \cup {Hello}
          /\ BehindLongLine => BehindLongLine'
      <4>1. CASE TurnOnDMD
        BY <4>1, ThreadMoves DEF Moves, EntryInv, BehindLongLine
      <4>2. CASE NextColour
        <5>1. call'["main"].msg \in RgbMessages
          BY <4>2, Activations DEF NextColour
        <5> QED
          BY <4>2, <5>1, ThreadMoves, OtherEffects DEF BehindLongLine
      <4>3. CASE ReceiveLine \/ UartUnpause
        BY <4>3, ThreadMoves, OtherEffects DEF Moves, pc, timer, EntryInv, BehindLongLine
      <4>4. CASE ButtonPressed \/ CompareEvent \/ SpisHandler
        BY <4>4, OtherEffects DEF builder, pc, timer, EntryInv, BehindLongLine
      <4> QED
        BY <1>1, <2>2, <4>1, <4>2, <4>3, <4>4 DEF Elsewhere
    <3> QED
      BY <2>1, <3>1, <3>2 DEF EntryInv
  <2>3. CASE TimerHandler
    <3>1. ~dmd_paused /\ UNCHANGED <<call, dmd_paused>>
      BY <2>3, OtherEffects DEF TimerHandler, ThreadInv, builder
    <3>2. CASE messages_paused
      <4>1. idx' = idx
        BY <1>1, <2>3, <3>2, ElsewhereEffects
      <4> QED
        BY <2>1, <3>1, <4>1 DEF EntryInv, BehindLongLine
    <3>3. CASE ~messages_paused
      <4>1. Loaded
        BY <3>3, UnpausedQuiet DEF ContentInv
      <4>2. idx \in Nat /\ len \in Nat /\ idx <= len
        BY <4>1, Numbers DEF Loaded
      <4>3. idx' \in 0..len
        <5>1. CASE idx < len /\ InFrame
          BY <4>2, <5>1 DEF InFrame, idx
        <5>2. CASE PauseAfterLast \/ StartCountDown \/ CountDown
          <6>1. idx' \in {0, idx, len}
            BY <5>2 DEF PauseAfterLast, StartCountDown, CountDown, idx, len
          <6> QED
            BY <4>2, <6>1
        <5> QED
          BY <2>3, <3>3, <5>1, <5>2, TimerCases
      <4>4. factor_periods[idx'] > 0
        BY <4>1, <4>3, LoadedPositive
      <4> QED
        BY <2>1, <3>1, <4>4 DEF EntryInv
    <3> QED
      BY <3>2, <3>3
  <2> QED
    BY <2>2, <2>3
<1> QED
  BY <1>1, NextCases, EntryBuilds

-----------------------------------------------------------------------------
(* The theorems. *)

IInv == TypeInv /\ ThreadInv /\ ContentInv /\ GapInv /\ CountInv /\ LengthInv

LEMMA InvInit == Init => IInv
BY TypeInit, ThreadInit, ContentInit, GapInit, CountInit, LengthInit DEF IInv

LEMMA InvStep ==
    ASSUME OneBuilder
    PROVE  IInv /\ [Next]_vars => IInv'
<1> SUFFICES ASSUME IInv, [Next]_vars PROVE IInv'
  OBVIOUS
<1>1. TypeInv'
  BY TypeStep DEF IInv
<1>2. CASE Next
  BY <1>1, <1>2, ThreadStep, ContentStep, GapStep, CountStep, LengthStep DEF IInv
<1>3. CASE UNCHANGED vars
  <2>1. UNCHANGED <<messages_paused, schedule, counters, pattern, timer, frame, call, gap, shown>>
    BY <1>3 DEF vars, builder, history
  <2>2. ThreadInv' /\ Quiet' = Quiet
    BY <2>1 DEF IInv, ThreadInv, Quiet, pc, timer
  <2>3. ContentInv'
    BY <2>1, <2>2 DEF IInv, ContentInv, Building, Scanned, Copied, Bits, FrameSize, Loaded,
       pc, idx, len, schedule, counters
  <2>4. GapInv' /\ CountInv' /\ LengthInv'
    BY <2>1, <2>2 DEF IInv, GapInv, CountInv, LengthInv, LevelInv, FrameSize, pc, idx, len, cd,
       schedule, counters
  <2> QED
    BY <1>1, <2>2, <2>3, <2>4 DEF IInv
<1> QED
  BY <1>2, <1>3

\* The schedule, its counters and the builder that is replacing it agree in every state
\* the handlers can meet them in (manchester.c:74-149), as long as one thread builds.
THEOREM Invariance ==
    ASSUME OneBuilder
    PROVE  Spec => []IInv
BY InvInit, InvStep, PTL DEF Spec

\* An active schedule is the run lengths of one message followed by the pulse
\* entry: construct_pauses (manchester.c) measured every run of the frame that
\* construct_frame had put together, and the handler and the callers meet no
\* other schedule, whatever the messages and the lengths of their frames.
THEOREM OneMessageAtATime ==
    ASSUME OneBuilder
    PROVE  Spec => []ScheduleIsOneMessage
<1>1. IInv => ScheduleIsOneMessage
  <2> SUFFICES ASSUME IInv, ~messages_paused
               PROVE  /\ \E m \in Messages : Spell(Schedule) = FrameBits[m]
                      /\ factor_periods[len] = GapPeriods
    BY DEF ScheduleIsOneMessage, len
  <2>1. Loaded
    BY UnpausedQuiet DEF IInv, ContentInv
  <2>2. Schedule = Runs(factor_periods, len)
    BY DEF Schedule, Runs, len
  <2> QED
    BY <2>1, <2>2 DEF Loaded, Stored
<1> QED
  BY <1>1, Invariance, PTL

\* Between two frames there are at least NrPulses pulses, also when a line from
\* the serial port replaces the schedule in the middle of a gap or of a frame
\* and the count down of the old schedule goes on with the new one
\* (manchester.c:99-103, 133-141).
THEOREM GapsAreLongEnough ==
    ASSUME OneBuilder
    PROVE  Spec => GapLongEnough
<1>1. IInv /\ [Next]_vars => [gap > 0 /\ gap' = 0 => gap >= NrPulses]_vars
  <2> SUFFICES ASSUME IInv, Next, gap > 0, gap' = 0 PROVE gap >= NrPulses
    BY DEF vars, history
  <2>1. TypeInv /\ ThreadInv
    BY DEF IInv
  <2>2. CASE TimerHandler
    <3>1. ~messages_paused /\ idx < len
      BY <2>1, <2>2, GapEffects, Numbers
    <3> QED
      BY <2>1, <3>1, UnpausedQuiet, Numbers DEF IInv, GapInv
  <2>3. CASE ~TimerHandler
    <3>1. gap' = gap
      BY <2>1, <2>3, NextCases, BuilderEffects, ElsewhereEffects
    <3> QED
      BY <2>1, <3>1, Numbers
  <2> QED
    BY <2>2, <2>3
<1> QED
  BY <1>1, Invariance, PTL DEF Spec, GapLongEnough

\* When the messages are paused, the frame was shown exactly
\* NUMBER_OF_MESSAGES_TO_SEND times (manchester.c:125 and 141): with nothing on
\* the serial port nobody but the handler pauses active messages.
THEOREM SentAsOftenAsConfigured ==
    ASSUME OneBuilder, UartMessages = {}
    PROVE  Spec => MessageSentNTimes
<1>1. IInv /\ [Next]_vars
        => [~messages_paused /\ messages_paused' => shown = NumberOfMessages]_vars
  <2> SUFFICES ASSUME IInv, Next, ~messages_paused, messages_paused'
               PROVE  shown = NumberOfMessages
    BY DEF vars
  <2>1. TypeInv /\ ThreadInv
    BY DEF IInv
  <2>2. CASE TimerHandler
    <3>1. PauseAfterLast
      BY <2>2 DEF TimerHandler, toggle_dmd, StayPaused, InFrame, StartCountDown, CountDown
    <3>2. ~Infinite /\ messages_send_started >= NumberOfMessages /\ idx >= len
      BY <3>1 DEF PauseAfterLast, AtFrameEnd, SentAll, idx, len
    <3>3. idx = len
      BY <2>1, <3>2, UnpausedQuiet, Numbers DEF IInv, ContentInv, Loaded
    <3> QED
      BY <2>1, <3>2, <3>3, Numbers DEF IInv, CountInv
  <2>3. CASE Elsewhere /\ ~TimerHandler
    BY <2>1, <2>3, ElsewhereEffects
  <2>4. ASSUME NEW c \in Callers, ConstructFrame(c)
        PROVE  FALSE
    <3>1. pc(c) \in Steps
      BY <2>1, <2>4, BuilderEffects
    <3> QED
      BY <2>1, <3>1, PointNames DEF ThreadInv
  <2> QED
    BY <2>2, <2>3, <2>4, NextCases
<1> QED
  BY <1>1, Invariance, PTL DEF Spec, MessageSentNTimes

\* A compare value of 0 is programmed nowhere but behind the end of a line longer than the first
\* frame, before its pulse entry is stored, in builds whose colours have no more levels than the
\* predefined message (manchester.c:99-102, main.c:122).
THEOREM ZeroOnlyBehindLongLine ==
    ASSUME OneBuilder, ColoursHaveNoMoreLevels
    PROVE  Spec => ZeroOnlyForLongerLine
<1>1. IInv /\ EntryInv /\ [Next]_vars => EntryInv'
  <2> SUFFICES ASSUME IInv, EntryInv, [Next]_vars PROVE EntryInv'
    OBVIOUS
  <2>1. CASE Next
    BY <2>1, EntryStep DEF IInv
  <2>2. CASE UNCHANGED vars
    BY <2>2 DEF vars, timer, builder, schedule, EntryInv, BehindLongLine, pc, idx
  <2> QED
    BY <2>1, <2>2
<1>2. IInv /\ EntryInv /\ [Next]_vars
        => [cc # 0 /\ cc' = 0 => /\ call["uart"].pc \in {"setStarted", "setPulse"}
                                /\ NrLevels(call["uart"].msg) > NrLevels(Hello)]_vars
  <2> SUFFICES ASSUME IInv, EntryInv, Next, cc # 0, cc' = 0
               PROVE  BehindLongLine
    BY DEF BehindLongLine, vars, timer
  <2>1. CASE \E c \in Callers : ConstructFrame(c)
    <3>1. cc' = cc
      BY <2>1, BuilderEffects DEF IInv, timer
    <3> QED
      BY <3>1
  <2>2. CASE Elsewhere /\ ~TimerHandler
    <3>1. cc' # 0
      BY <2>2, OtherEffects DEF Elsewhere, TurnOnDMD, IInv, timer
    <3> QED
      BY <3>1
  <2>3. CASE TimerHandler
    <3>1. ~dmd_paused /\ cc' = factor_periods[idx]
      BY <2>3 DEF TimerHandler, ThreadInv, IInv, idx
    <3> QED
      BY <3>1 DEF EntryInv
  <2> QED
    BY <2>1, <2>2, <2>3, NextCases
<1> QED
  BY <1>1, <1>2, EntryInit, Invariance, PTL DEF Spec, ZeroOnlyForLongerLine

\* No compare value is 0 where no message has more levels than the predefined one: the colours
\* have not, so in every build without serial lines (main.c:122).
THEOREM NoZeroCompare ==
    ASSUME OneBuilder, HelloHasMostLevels
    PROVE  Spec => []CompareNeverZero
<1>1. ColoursHaveNoMoreLevels
  BY MessagesAssumption DEF HelloHasMostLevels, ColoursHaveNoMoreLevels
<1>2. Spec => ZeroOnlyForLongerLine
  BY <1>1, ZeroOnlyBehindLongLine
<1>3. Init => CompareNeverZero
  BY DEF Init, CompareNeverZero
<1>4. /\ CompareNeverZero /\ TypeInv
      /\ [cc # 0 /\ cc' = 0 => /\ call["uart"].pc \in {"setStarted", "setPulse"}
                              /\ NrLevels(call["uart"].msg) > NrLevels(Hello)]_vars
      => CompareNeverZero'
  <2> SUFFICES ASSUME CompareNeverZero, TypeInv, UNCHANGED cc \/ cc' # 0 \/ BehindLongLine
               PROVE  CompareNeverZero'
    BY DEF CompareNeverZero, BehindLongLine, vars, timer
  <2>1. ~BehindLongLine
    <3>1. call["uart"].msg \in Messages
      BY Activations, PointNames
    <3>2. NrLevels(call["uart"].msg) <= NrLevels(Hello)
      BY <3>1 DEF HelloHasMostLevels
    <3>3. NrLevels(call["uart"].msg) \in Int /\ NrLevels(Hello) \in Int
      BY <3>1, LevelBounds, MessagesAssumption
    <3> QED
      BY <3>2, <3>3 DEF BehindLongLine
  <2> QED
    BY <2>1 DEF CompareNeverZero
<1>5. IInv => TypeInv
  BY DEF IInv
<1> QED
  BY <1>2, <1>3, <1>4, <1>5, Invariance, PTL DEF Spec, ZeroOnlyForLongerLine

-----------------------------------------------------------------------------
(* What the light shows, for builds whose only caller of construct_frame is  *)
(* the main thread.                                                          *)

\* No serial handler.
MainBuilds == OneBuilder /\ UartMessages = {}

-----------------------------------------------------------------------------
(* The steps, by what they do to what is seen. *)

\* Main builds behind the pause.
Builds ==
    /\ messages_paused /\ messages_paused'
    /\ UNCHANGED <<cd, pattern, timer, level, air, gap, shown>>

Publishes ==
    /\ messages_paused /\ ~messages_paused' /\ shown' = 0
    /\ UNCHANGED <<idx, len, factor_periods, cd, messages_send_started, pattern,
                   timerIrq, spisIrq, level, air, gap>>
    /\ idx = len /\ messages_send_started = 0 /\ Loaded

\* The DMD is turned on, the next colour chosen, the button pressed.
Idles ==
    /\ messages_paused' <=> messages_paused
    /\ UNCHANGED <<idx, len, factor_periods, cd, messages_send_started, pattern,
                   timerIrq, spisIrq, level, air, gap, shown>>

LEMMA MainCases ==
    ASSUME MainBuilds, IInv, Next
    PROVE  Builds \/ Publishes \/ Idles \/ CompareEvent \/ SpisHandler \/ TimerHandler
<1> USE PointNames DEF IInv, MainBuilds
<1>1. pc("uart") = "idle"
  BY DEF ThreadInv
<1>2. ASSUME NEW c \in Callers, ConstructFrame(c)
      PROVE  Builds \/ Publishes
  <2>1. /\ UNCHANGED <<cd, pattern, timer, level, air, gap>> /\ pc(c) \in Steps
        /\ ~Publish(c) => messages_paused' /\ UNCHANGED shown
        /\ Publish(c) => /\ pc(c) = "publish" /\ shown' = 0
                         /\ messages_paused /\ ~messages_paused'
                         /\ UNCHANGED <<schedule, counters>>
    BY <1>2, BuilderEffects
  <2>2. c = "main"
    BY <1>1, <2>1
  <2>3. messages_paused
    BY <2>1, <2>2 DEF ThreadInv
  <2>4. CASE Publish(c)
    <3>1. /\ idx = len /\ factor_periods[len] = GapPeriods /\ messages_send_started = 0
          /\ Stored(factor_periods, call[c].msg, len) /\ call[c].msg \in Messages
      BY <2>1, <2>4, Activations DEF ContentInv, Building
    <3>2. Loaded
      BY <3>1, Numbers DEF Loaded
    <3> QED
      BY <2>1, <2>4, <3>1, <3>2 DEF Publishes, schedule, counters, timer, idx, len, cd
  <2>5. CASE ~Publish(c)
    BY <2>1, <2>3, <2>5 DEF Builds
  <2> QED
    BY <2>4, <2>5
<1>3. CASE TurnOnDMD \/ NextColour
  BY <1>3, OtherEffects DEF Idles, schedule, counters, history, idx, len, cd
<1>4. ~ReceiveLine
  BY DEF ReceiveLine
<1>5. ~UartUnpause
  BY <1>1 DEF UartUnpause, At, pc
<1>6. CASE ButtonPressed
  <2>1. Button /\ (~dmd_paused \/ pc("main") = "power") /\ ~messages_paused'
    BY <1>6, OtherEffects
  <2>2. ~messages_paused
    BY <2>1 DEF OneBuilder, ThreadInv
  <2> QED
    BY <1>6, <2>1, <2>2, OtherEffects DEF Idles, schedule, counters, timer, idx, len, cd
<1> QED
  BY <1>2, <1>3, <1>4, <1>5, <1>6, NextCases DEF Elsewhere

\* What the timer handler shows, before it moves on.
LEMMA TimerShows ==
    ASSUME IInv, TimerHandler
    PROVE  /\ UNCHANGED <<len, factor_periods, sending_0, tx_drc_b_buffer, spisIrq, level>>
           /\ timerIrq /\ ~timerIrq'
           /\ ~messages_paused => idx <= len /\ len > 0 /\ len <= Slots /\ Loaded
           /\ messages_paused \/ idx >= len =>
                /\ air' = air /\ shown' = shown /\ gap' = Bounded(gap + 1, NrPulses + 1)
                /\ gap' > 0 /\ gap' \in Nat
           /\ ~messages_paused /\ idx < len =>
                /\ gap' = 0 /\ idx' = idx + 1 /\ cd' = cd /\ cd = 0 /\ ~messages_paused'
                /\ messages_send_started' = messages_send_started
                /\ air' = IF idx = 0 THEN <<[level |-> level, run |-> factor_periods[idx]]>>
                          ELSE IF Len(air) > Slots THEN air
                          ELSE Append(air, [level |-> level, run |-> factor_periods[idx]])
                /\ shown' = IF idx + 1 = len THEN Bounded(shown + 1, NumberOfMessages + 1) ELSE shown
<1> USE Numbers DEF IInv
<1>1. /\ UNCHANGED <<len, factor_periods, sending_0, tx_drc_b_buffer, spisIrq, level>>
      /\ timerIrq /\ ~timerIrq'
  BY DEF TimerHandler, pattern, len
<1>2. ~messages_paused => idx <= len /\ len > 0 /\ len <= Slots /\ Loaded
  <2>1. len <= Slots
    BY MessagesAssumption DEF TypeInv, TypeOK, len
  <2> QED
    BY <2>1, UnpausedQuiet DEF ContentInv, Loaded, Stored
<1>3. messages_paused \/ idx >= len =>
        /\ air' = air /\ shown' = shown /\ gap' = Bounded(gap + 1, NrPulses + 1)
        /\ gap' > 0 /\ gap' \in Nat
  <2>1. messages_paused \/ idx >= len =>
          air' = air /\ shown' = shown /\ gap' = Bounded(gap + 1, NrPulses + 1)
    BY DEF TimerHandler, Observe, idx, len
  <2>2. Bounded(gap + 1, NrPulses + 1) > 0 /\ Bounded(gap + 1, NrPulses + 1) \in Nat
    BY DEF Bounded
  <2> QED
    BY <2>1, <2>2
<1>4. ASSUME ~messages_paused, idx < len
      PROVE  /\ gap' = 0 /\ idx' = idx + 1 /\ cd' = cd /\ cd = 0 /\ ~messages_paused'
             /\ messages_send_started' = messages_send_started
             /\ air' = IF idx = 0 THEN <<[level |-> level, run |-> factor_periods[idx]]>>
                       ELSE IF Len(air) > Slots THEN air
                       ELSE Append(air, [level |-> level, run |-> factor_periods[idx]])
             /\ shown' = IF idx + 1 = len THEN Bounded(shown + 1, NumberOfMessages + 1) ELSE shown
  <2>1. InFrame
    BY <1>4, TimerCases
  <2>2. cd = 0
    BY <1>4, UnpausedQuiet DEF GapInv
  <2>3. idx' = idx + 1 /\ cd' = cd /\ ~messages_paused' /\ messages_send_started' = messages_send_started
    BY <2>1 DEF InFrame, counters, idx, cd
  <2> QED
    BY <1>4, <2>2, <2>3 DEF TimerHandler, Observe, idx, len
<1> QED
  BY <1>1, <1>2, <1>3, <1>4

-----------------------------------------------------------------------------
(* The pattern: from the second event of a count down on, the buffer and the *)
(* level shown are what sending_0 stands for.  Before the first SPIS         *)
(* interrupt they are not: the buffer holds pattern 0 although sending_0     *)
(* stands for pattern 1 (buffer.c:9, common.c:3).                            *)

Warm == tx_drc_b_buffer = IF sending_0 THEN 1 ELSE 0
Settled == Warm /\ (timerIrq => level = IF spisIrq THEN tx_drc_b_buffer ELSE 1 - tx_drc_b_buffer)

SettledInv ==
    /\ timerIrq /\ ~spisIrq => Warm
    /\ ~messages_paused /\ idx < len => Settled
    /\ cd > 0 => /\ ~messages_paused /\ ~SentAll
                 /\ Settled \/ (spisIrq /\ ~timerIrq)

LEMMA SettledInit == Init => SettledInv
BY DEF Init, SettledInv, cd, idx, len

LEMMA SettledStep ==
    ASSUME MainBuilds, IInv, SettledInv, Next
    PROVE  SettledInv'
<1> USE Numbers DEF IInv
<1>1. CASE Builds
  BY <1>1 DEF Builds, SettledInv, Settled, Warm, timer, pattern
<1>2. CASE Publishes
  BY <1>2 DEF Publishes, SettledInv, Settled, Warm, pattern
<1>3. CASE Idles
  BY <1>3 DEF Idles, SettledInv, Settled, Warm, pattern, SentAll
<1>4. CASE CompareEvent
  <2>1. /\ ~timerIrq /\ ~spisIrq /\ timerIrq' /\ spisIrq' /\ level' = tx_drc_b_buffer
        /\ UNCHANGED <<messages_paused, idx, len, cd, messages_send_started, sending_0,
                       tx_drc_b_buffer>>
    BY <1>4 DEF CompareEvent, schedule, counters, pattern, idx, len, cd
  <2> QED
    BY <2>1 DEF SettledInv, Settled, Warm, SentAll
<1>5. CASE SpisHandler
  <2>1. /\ spisIrq /\ ~spisIrq'
        /\ sending_0' = ~sending_0
        /\ tx_drc_b_buffer' = IF sending_0 THEN 0 ELSE 1
        /\ UNCHANGED <<messages_paused, idx, len, cd, messages_send_started, timerIrq, level>>
    BY <1>5 DEF SpisHandler, ToggleSentSignal, schedule, counters, history, idx, len, cd
  <2>2. Warm'
    BY <2>1 DEF Warm
  <2>3. Settled => Settled'
    BY <2>1, <2>2 DEF Settled, Warm
  <2>4. ~timerIrq => Settled'
    BY <2>1, <2>2 DEF Settled
  <2>5. SentAll' = SentAll
    BY <2>1 DEF SentAll
  <2> QED
    BY <2>1, <2>2, <2>3, <2>4, <2>5 DEF SettledInv
<1>6. CASE TimerHandler
  <2>1. /\ UNCHANGED <<len, sending_0, tx_drc_b_buffer, spisIrq, level>> /\ timerIrq /\ ~timerIrq'
        /\ ~messages_paused => idx <= len /\ len > 0
        /\ ~messages_paused /\ idx < len => cd' = cd /\ cd = 0
    BY <1>6, TimerShows
  <2>2. Warm' = Warm /\ (Warm => Settled') /\ (Settled => Settled')
    BY <2>1 DEF Settled, Warm
  <2>3. CASE messages_paused /\ StayPaused
    BY <2>1, <2>2, <2>3 DEF StayPaused, SettledInv, counters, idx, cd
  <2>4. CASE ~messages_paused /\ idx < len /\ InFrame
    BY <2>1, <2>2, <2>4 DEF SettledInv
  <2>5. CASE PauseAfterLast
    <3>1. cd' = cd /\ messages_paused' /\ SentAll
      BY <2>5 DEF PauseAfterLast, cd
    <3> QED
      BY <2>1, <3>1 DEF SettledInv
  <2>6. CASE ~messages_paused /\ idx >= len /\ StartCountDown
    <3>1. idx' = idx /\ ~SentAll' /\ ~messages_paused'
      BY <2>6 DEF StartCountDown, SentAll, idx
    <3>2. ~(idx' < len')
      BY <2>1, <2>6, <3>1
    <3>3. Settled' \/ (spisIrq' /\ ~timerIrq')
      BY <2>1, <2>2 DEF SettledInv
    <3> QED
      BY <2>1, <3>1, <3>2, <3>3 DEF SettledInv
  <2>7. CASE ~messages_paused /\ idx >= len /\ CountDown
    <3>1. /\ cd > 0 /\ cd' = cd - 1 /\ ~messages_paused'
          /\ cd' # 0 => messages_send_started' = messages_send_started
      BY <2>7 DEF CountDown, cd
    <3>2. Settled' /\ (cd' > 0 => ~SentAll')
      BY <2>1, <2>2, <2>7, <3>1 DEF SettledInv, CountDown, SentAll
    <3> QED
      BY <2>1, <3>1, <3>2 DEF SettledInv
  <2> QED
    BY <1>6, <2>3, <2>4, <2>5, <2>6, <2>7, TimerCases
<1> QED
  BY <1>1, <1>2, <1>3, <1>4, <1>5, <1>6, MainCases

-----------------------------------------------------------------------------
(* What is read off the light, level by level. *)

\* A bit, and a sequence of bits, as seen in a frame whose first level is
\* first: as they are if that is the level of a 0, inverted otherwise.
Polarity(first, bit) == IF first = 1 THEN bit ELSE 1 - bit
Seen(first, bits) == [i \in DOMAIN bits |-> Polarity(first, bits[i])]

Lights == [level: {0, 1}, run: 0..PeriodMax]
LightBits(lights) == [i \in DOMAIN lights |-> [k \in 1..lights[i].run |-> 1 - lights[i].level]]

LEMMA LightBitsType ==
    ASSUME NEW s \in Seq(Lights)
    PROVE  LightBits(s) \in Seq(Seq({0, 1})) /\ Len(LightBits(s)) = Len(s)
<1>1. DOMAIN s = 1..Len(s) /\ Len(s) \in Nat
  OBVIOUS
<1>2. ASSUME NEW i \in 1..Len(s)
      PROVE  [k \in 1..s[i].run |-> 1 - s[i].level] \in Seq({0, 1})
  <2>1. s[i] \in Lights
    BY <1>1
  <2>2. s[i].run \in Nat /\ 1 - s[i].level \in {0, 1}
    BY <2>1, MessagesAssumption DEF Lights, PeriodMax, GapPeriods
  <2> QED
    BY <2>2, ConstantRun
<1> QED
  BY <1>1, <1>2 DEF LightBits

LEMMA ReadOffAppend ==
    ASSUME NEW s \in Seq(Lights), NEW e \in Lights
    PROVE  ReadOff(Append(s, e)) = ReadOff(s) \o [k \in 1..e.run |-> 1 - e.level]
<1> DEFINE more == [k \in 1..e.run |-> 1 - e.level]
<1>1. e.run \in Nat /\ 1 - e.level \in {0, 1}
  BY MessagesAssumption DEF Lights, PeriodMax, GapPeriods
<1>2. more \in Seq({0, 1})
  BY <1>1, ConstantRun
<1>3. LightBits(Append(s, e)) = Append(LightBits(s), more)
  <2>1. /\ Append(s, e) \in Seq(Lights) /\ Len(Append(s, e)) = Len(s) + 1
        /\ Append(s, e)[Len(s) + 1] = e
        /\ \A i \in 1..Len(s) : Append(s, e)[i] = s[i]
    BY AppendProperties
  <2>2. /\ LightBits(s) \in Seq(Seq({0, 1})) /\ Len(LightBits(s)) = Len(s)
        /\ LightBits(Append(s, e)) \in Seq(Seq({0, 1}))
        /\ Len(LightBits(Append(s, e))) = Len(s) + 1
    BY <2>1, LightBitsType
  <2>3. /\ Append(LightBits(s), more) \in Seq(Seq({0, 1}))
        /\ Len(Append(LightBits(s), more)) = Len(s) + 1
        /\ Append(LightBits(s), more)[Len(s) + 1] = more
        /\ \A i \in 1..Len(s) : Append(LightBits(s), more)[i] = LightBits(s)[i]
    BY <1>2, <2>2, AppendProperties
  <2>4. ASSUME NEW i \in 1..(Len(s) + 1)
        PROVE  LightBits(Append(s, e))[i] = Append(LightBits(s), more)[i]
    <3>1. DOMAIN s = 1..Len(s) /\ DOMAIN Append(s, e) = 1..(Len(s) + 1) /\ Len(s) \in Nat
      BY <2>1
    <3>2. LightBits(Append(s, e))[i]
            = [k \in 1..Append(s, e)[i].run |-> 1 - Append(s, e)[i].level]
      BY <3>1 DEF LightBits
    <3>3. CASE i = Len(s) + 1
      BY <2>1, <2>3, <3>2, <3>3
    <3>4. CASE i # Len(s) + 1
      <4>1. i \in 1..Len(s)
        BY <3>1, <3>4
      <4>2. LightBits(s)[i] = [k \in 1..s[i].run |-> 1 - s[i].level]
        BY <3>1, <4>1 DEF LightBits
      <4> QED
        BY <2>1, <2>3, <3>2, <4>1, <4>2
    <3> QED
      BY <3>3, <3>4
  <2> QED
    BY <2>2, <2>3, <2>4, SeqEqual
<1>4. LightBits(s) \in Seq(Seq({0, 1}))
  BY LightBitsType
<1>5. FlattenSeq(Append(LightBits(s), more)) = FlattenSeq(LightBits(s)) \o more
  BY <1>2, <1>4, FlattenAppend
<1> QED
  BY <1>3, <1>5 DEF ReadOff, LightBits

LEMMA ReadOffNothing == ReadOff(<<>>) = <<>>
<1>1. LightBits(<<>>) = <<>>
  BY DEF LightBits
<1> QED
  BY <1>1, Len(<<>>) = 0 DEF ReadOff, LightBits, FlattenSeq

LEMMA ReadOffFirst ==
    ASSUME NEW e \in Lights
    PROVE  ReadOff(<<e>>) = [k \in 1..e.run |-> 1 - e.level]
<1> DEFINE more == [k \in 1..e.run |-> 1 - e.level]
<1>1. e.run \in Nat /\ 1 - e.level \in {0, 1}
  BY MessagesAssumption DEF Lights, PeriodMax, GapPeriods
<1>2. more \in Seq({0, 1})
  BY <1>1, ConstantRun
<1>3. <<>> \in Seq(Lights) /\ Append(<<>>, e) = <<e>>
  OBVIOUS
<1>4. ReadOff(Append(<<>>, e)) = ReadOff(<<>>) \o more
  BY <1>3, ReadOffAppend
<1> HIDE DEF more
<1>5. <<>> \o more = more
  BY <1>2, ConcatEmptySeq
<1> QED
  BY <1>3, <1>4, <1>5, ReadOffNothing DEF more

LEMMA SeenFacts ==
    ASSUME NEW first \in {0, 1}, NEW s \in Seq({0, 1})
    PROVE  /\ Seen(1, s) = s
           /\ Seen(first, s) \in Seq({0, 1}) /\ Len(Seen(first, s)) = Len(s)
           /\ \A i \in 1..Len(s) : Seen(first, s)[i] = Polarity(first, s[i])
<1>1. Len(s) \in Nat /\ DOMAIN s = 1..Len(s) /\ \A i \in 1..Len(s) : s[i] \in {0, 1}
  OBVIOUS
<1>2. Seen(1, s) = s
  BY DEF Seen, Polarity
<1>3. \A i \in 1..Len(s) : Polarity(first, s[i]) \in {0, 1}
  BY <1>1 DEF Polarity
<1> QED
  BY <1>1, <1>2, <1>3 DEF Seen

LEMMA SeenConcat ==
    ASSUME NEW first \in {0, 1}, NEW s \in Seq({0, 1}), NEW t \in Seq({0, 1})
    PROVE  Seen(first, s \o t) = Seen(first, s) \o Seen(first, t)
<1> DEFINE seen == Seen(first, s)
           seenTail == Seen(first, t)
<1>0. /\ Len(s) \in Nat /\ DOMAIN s = 1..Len(s) /\ \A i \in 1..Len(s) : s[i] \in {0, 1}
      /\ Len(t) \in Nat /\ DOMAIN t = 1..Len(t) /\ \A i \in 1..Len(t) : t[i] \in {0, 1}
  OBVIOUS
<1>3. /\ seen \in Seq({0, 1}) /\ Len(seen) = Len(s)
      /\ \A i \in 1..Len(s) : seen[i] = Polarity(first, s[i])
  BY SeenFacts
<1>4. /\ seenTail \in Seq({0, 1}) /\ Len(seenTail) = Len(t)
      /\ \A k \in 1..Len(t) : seenTail[k] = Polarity(first, t[k])
  BY SeenFacts
<1> HIDE DEF seen, seenTail
<1>5. /\ s \o t \in Seq({0, 1}) /\ Len(s \o t) = Len(s) + Len(t)
      /\ \A i \in 1..(Len(s) + Len(t)) : (s \o t)[i] = IF i <= Len(s) THEN s[i] ELSE t[i - Len(s)]
  BY ConcatProperties
<1>6. /\ seen \o seenTail \in Seq({0, 1})
      /\ Len(seen \o seenTail) = Len(s) + Len(t)
      /\ \A i \in 1..(Len(s) + Len(t)) :
           (seen \o seenTail)[i] =
              IF i <= Len(s) THEN seen[i] ELSE seenTail[i - Len(s)]
  <2>0. seen \in Seq({0, 1}) /\ seenTail \in Seq({0, 1})
    BY <1>3, <1>4
  <2>1. /\ seen \o seenTail \in Seq({0, 1})
        /\ Len(seen \o seenTail) = Len(seen) + Len(seenTail)
        /\ \A i \in 1..(Len(seen) + Len(seenTail)) :
             (seen \o seenTail)[i] =
                IF i <= Len(seen) THEN seen[i] ELSE seenTail[i - Len(seen)]
    BY <2>0, ConcatProperties
  <2>2. Len(seen) = Len(s) /\ Len(seenTail) = Len(t)
    BY <1>3, <1>4
  <2> QED
    BY <2>1, <2>2
<1> DEFINE N == Len(s) + Len(t)
<1>7. DOMAIN (s \o t) = 1..N /\ N \in Nat /\ \A i \in 1..N : (s \o t)[i] \in {0, 1}
  BY <1>0, <1>5
<1>8. /\ Seen(first, s \o t) \in Seq({0, 1}) /\ Len(Seen(first, s \o t)) = N
      /\ \A i \in 1..N : Seen(first, s \o t)[i] = Polarity(first, (s \o t)[i])
  <2> HIDE DEF N
  <2>1. \A i \in 1..N : Polarity(first, (s \o t)[i]) \in {0, 1}
    BY <1>7 DEF Polarity
  <2> QED
    BY <1>7, <2>1 DEF Seen
<1>9. ASSUME NEW i \in 1..N
      PROVE  Seen(first, s \o t)[i] = (seen \o seenTail)[i]
  <2>1. CASE i <= Len(s)
    <3>1. i \in 1..Len(s)
      BY <1>0, <2>1
    <3>2. (s \o t)[i] = s[i] /\ (seen \o seenTail)[i] = seen[i]
      BY <1>5, <1>6, <2>1
    <3> QED
      BY <1>3, <1>8, <3>1, <3>2
  <2>2. CASE ~(i <= Len(s))
    <3>1. i - Len(s) \in 1..Len(t)
      BY <1>0, <2>2
    <3>2. (s \o t)[i] = t[i - Len(s)] /\ (seen \o seenTail)[i] = Polarity(first, t[i - Len(s)])
      BY <1>4, <1>5, <1>6, <2>2, <3>1
    <3> QED
      BY <1>8, <3>2
  <2> QED
    BY <2>1, <2>2
<1>10. Seen(first, s \o t) = seen \o seenTail
  BY <1>6, <1>8, <1>9, SeqEqual
<1> QED
  BY <1>10 DEF seen, seenTail

LEMMA SeenRun ==
    ASSUME NEW first \in {0, 1}, NEW n \in Nat, NEW b \in {0, 1}
    PROVE  Seen(first, [k \in 1..n |-> b]) = [k \in 1..n |-> Polarity(first, b)]
BY DEF Seen

\* One more run.
LEMMA SpellMore ==
    ASSUME TypeInv, NEW n \in Nat, n <= Slots
    PROVE  /\ Spell(Runs(factor_periods, n)) \in Seq({0, 1})
           /\ factor_periods[n] \in Nat
           /\ Spell(Runs(factor_periods, n + 1))
                = Spell(Runs(factor_periods, n)) \o [k \in 1..factor_periods[n] |-> n % 2]
<1>1. Slots \in Nat
  BY MessagesAssumption
<1>2. Runs(factor_periods, n) \in Seq(Nat) /\ Len(Runs(factor_periods, n)) = n
  BY <1>1, RunsType
<1>3. factor_periods[n] \in Nat
  BY <1>1 DEF TypeInv, TypeOK, PeriodMax
<1>4. Runs(factor_periods, n + 1) = Append(Runs(factor_periods, n), factor_periods[n])
  BY <1>2, <1>3, RunsMore
<1> QED
  BY <1>2, <1>3, <1>4, SpellType, SpellAppend

-----------------------------------------------------------------------------
(* The frame on the light: its levels so far are the schedule's, in one     *)
(* polarity, and a frame that has ended was one message's.                  *)

\* The level that the next run of the timer handler will find.
NextLevel ==
    IF timerIrq THEN level ELSE IF spisIrq THEN (IF sending_0 THEN 0 ELSE 1) ELSE tx_drc_b_buffer

FrameInv ==
    /\ gap = 0 /\ air # <<>> =>
         /\ ~messages_paused /\ 0 < idx /\ Len(air) = idx
         /\ ReadOff(air) = Seen(air[1].level, Spell(Runs(factor_periods, idx)))
         /\ idx < len => 1 - NextLevel = Polarity(air[1].level, idx % 2)
    /\ gap > 0 /\ air # <<>> =>
         \E m \in Messages : ReadOff(air) = Seen(air[1].level, FrameBits[m])
    /\ ~messages_paused /\ 0 < idx /\ idx < len => air # <<>>
    /\ ~messages_paused /\ idx = len /\ (gap > 0 \/ air = <<>>) => ~SentAll

LEMMA FrameInit == Init => FrameInv
BY DEF Init, FrameInv, idx, len

LEMMA AppendFacts ==
    ASSUME NEW s \in Seq(Lights), s # <<>>, NEW e \in Lights
    PROVE  /\ Append(s, e) # <<>> /\ Len(Append(s, e)) = Len(s) + 1
           /\ Append(s, e)[1] = s[1] /\ s[1] \in Lights
OBVIOUS

LEMMA FrameInFrame ==
    ASSUME IInv, SettledInv, FrameInv, TimerHandler, ~messages_paused, idx < len
    PROVE  /\ FrameInv' /\ air' # <<>> /\ gap' = 0
           /\ ReadOff(air') = Seen(air'[1].level, Spell(Runs(factor_periods, idx + 1)))
           /\ idx = 0 => air'[1].level = level
           /\ idx > 0 => air'[1] = air[1]
<1> USE Numbers DEF IInv
<1> DEFINE e == [level |-> level, run |-> factor_periods[idx]]
           S(n) == Spell(Runs(factor_periods, n))
<1>1. /\ UNCHANGED <<len, factor_periods, sending_0, tx_drc_b_buffer, spisIrq, level>>
      /\ timerIrq /\ ~timerIrq'
      /\ gap' = 0 /\ idx' = idx + 1 /\ ~messages_paused'
      /\ air' = IF idx = 0 THEN <<e>> ELSE IF Len(air) > Slots THEN air ELSE Append(air, e)
      /\ idx <= Slots /\ len <= Slots /\ Slots \in Nat
  BY TimerShows, MessagesAssumption
<1>2. /\ e \in Lights /\ e.level = level /\ e.run = factor_periods[idx] /\ level \in {0, 1}
      /\ air \in Seq(Lights)
  BY <1>1, MessagesAssumption DEF TypeInv, TypeOK, Lights, idx
<1>3. /\ S(idx) \in Seq({0, 1}) /\ factor_periods[idx] \in Nat
      /\ S(idx + 1) = S(idx) \o [k \in 1..factor_periods[idx] |-> idx % 2]
  BY <1>1, SpellMore
<1>4. NextLevel' = 1 - level
  <2>1. Settled
    BY DEF SettledInv
  <2> QED
    BY <1>1, <2>1 DEF NextLevel, Settled, Warm
<1> HIDE DEF e, S
<1>5. CASE idx = 0
  <2>1. air' = <<e>> /\ air' # <<>> /\ Len(air') = 1 /\ air'[1].level = level
    BY <1>1, <1>2, <1>5
  <2>2. ReadOff(air') = [k \in 1..factor_periods[idx] |-> 1 - level]
    BY <1>2, <2>1, ReadOffFirst
  <2>3. S(0) = <<>>
    <3>1. <<>> \in Seq({0, 1}) /\ SubSeq(<<>>, 1, 0) = <<>>
      OBVIOUS
    <3> QED
      BY <3>1, NoRuns DEF S
  <2>4. S(idx + 1) = <<>> \o [k \in 1..factor_periods[idx] |-> 0]
    <3>1. S(idx) = <<>> /\ idx % 2 = 0
      BY <1>5, <2>3
    <3> QED
      BY <1>3, <3>1
  <2>5. Seen(level, S(idx + 1)) = Seen(level, <<>>) \o [k \in 1..factor_periods[idx] |-> Polarity(level, 0)]
    <3> DEFINE tail == [k \in 1..factor_periods[idx] |-> 0]
    <3>1. tail \in Seq({0, 1}) /\ <<>> \in Seq({0, 1})
      BY <1>3, ConstantRun
    <3>2. Seen(level, tail) = [k \in 1..factor_periods[idx] |-> Polarity(level, 0)]
      BY <1>2, <1>3, SeenRun
    <3>3. S(idx + 1) = <<>> \o tail
      BY <2>4
    <3> HIDE DEF tail
    <3>4. Seen(level, <<>> \o tail) = Seen(level, <<>>) \o Seen(level, tail)
      BY <1>2, <3>1, SeenConcat
    <3> QED
      BY <3>2, <3>3, <3>4
  <2>6. Seen(level, <<>>) = <<>>
    BY DEF Seen
  <2>7. Polarity(level, 0) = 1 - level /\ 1 - level \in {0, 1} /\ Polarity(level, 1) = level
    BY <1>2 DEF Polarity
  <2>8. Seen(level, S(idx + 1)) = [k \in 1..factor_periods[idx] |-> 1 - level]
    <3> DEFINE tail == [k \in 1..factor_periods[idx] |-> 1 - level]
    <3>1. tail \in Seq({0, 1})
      BY <1>3, <2>7, ConstantRun
    <3>2. Seen(level, S(idx + 1)) = <<>> \o tail
      BY <2>5, <2>6, <2>7
    <3> HIDE DEF tail
    <3>3. <<>> \o tail = tail
      BY <3>1, ConcatEmptySeq
    <3> QED
      BY <3>2, <3>3 DEF tail
  <2>9. 1 - NextLevel' = Polarity(level, 1 % 2)
    BY <1>2, <1>4, <2>7
  <2>10. ReadOff(air') = Seen(air'[1].level, Spell(Runs(factor_periods, idx + 1)))
    BY <2>1, <2>2, <2>8 DEF S
  <2>11. idx' = 1 /\ 0 < idx'
    BY <1>1, <1>5
  <2>12. FrameInv'
    BY <1>1, <1>5, <2>1, <2>9, <2>10, <2>11 DEF FrameInv
  <2> QED
    BY <1>1, <1>5, <2>1, <2>10, <2>12
<1>6. CASE idx > 0
  <2>1. gap = 0 /\ air # <<>>
    BY <1>6, UnpausedQuiet DEF GapInv, FrameInv
  <2>2. /\ Len(air) = idx /\ ReadOff(air) = Seen(air[1].level, S(idx))
        /\ 1 - level = Polarity(air[1].level, idx % 2)
    BY <1>1, <2>1 DEF FrameInv, NextLevel, S
  <2>3. air' = Append(air, e)
    BY <1>1, <1>6, <2>2
  <2>4. air' # <<>> /\ Len(air') = idx + 1 /\ air'[1] = air[1] /\ air[1].level \in {0, 1}
    BY <1>2, <2>1, <2>2, <2>3, AppendFacts DEF Lights
  <2>5. ReadOff(air') = ReadOff(air) \o [k \in 1..factor_periods[idx] |-> 1 - level]
    BY <1>2, <2>3, ReadOffAppend
  <2>6. idx % 2 \in {0, 1} /\ (idx + 1) % 2 = 1 - (idx % 2)
    OBVIOUS
  <2>7. Seen(air[1].level, S(idx + 1))
          = Seen(air[1].level, S(idx)) \o [k \in 1..factor_periods[idx] |-> Polarity(air[1].level, idx % 2)]
    <3> DEFINE tail == [k \in 1..factor_periods[idx] |-> idx % 2]
    <3>1. tail \in Seq({0, 1})
      BY <1>3, <2>6, ConstantRun
    <3>2. Seen(air[1].level, tail) = [k \in 1..factor_periods[idx] |-> Polarity(air[1].level, idx % 2)]
      BY <1>3, <2>4, <2>6, SeenRun
    <3>3. S(idx + 1) = S(idx) \o tail
      BY <1>3
    <3> HIDE DEF tail
    <3>4. Seen(air[1].level, S(idx) \o tail) = Seen(air[1].level, S(idx)) \o Seen(air[1].level, tail)
      BY <1>3, <2>4, <3>1, SeenConcat
    <3> QED
      BY <3>2, <3>3, <3>4
  <2>8. ReadOff(air') = Seen(air'[1].level, S(idx + 1))
    BY <2>2, <2>4, <2>5, <2>7
  <2>9. 1 - NextLevel' = Polarity(air'[1].level, (idx + 1) % 2)
    BY <1>2, <1>4, <2>2, <2>4, <2>6 DEF Polarity
  <2>10. FrameInv'
    <3>1. /\ idx' = idx + 1 /\ 0 < idx' /\ len' = len /\ factor_periods' = factor_periods
          /\ ReadOff(air)' = ReadOff(air') /\ gap' = 0
      BY <1>1, <1>6
    <3>2. ReadOff(air)' = Seen(air'[1].level, Spell(Runs(factor_periods', idx')))
      BY <2>8, <3>1 DEF S
    <3>3. 1 - NextLevel' = Polarity(air'[1].level, idx' % 2)
      BY <2>9, <3>1
    <3> QED
      BY SMTT(30), <1>1, <2>4, <3>1, <3>2, <3>3 DEF FrameInv
  <2> QED
    BY <1>1, <1>6, <2>4, <2>8, <2>10 DEF S
<1> QED
  BY <1>5, <1>6

LEMMA FrameStep ==
    ASSUME MainBuilds, IInv, SettledInv, FrameInv, Next
    PROVE  FrameInv'
<1> USE Numbers DEF IInv
<1>1. CASE Builds
  BY <1>1 DEF Builds, FrameInv
<1>2. CASE Publishes
  <2>1. ~SentAll'
    BY <1>2 DEF Publishes, SentAll
  <2> QED
    BY <1>2, <2>1 DEF Publishes, FrameInv
<1>3. CASE Idles
  BY <1>3 DEF Idles, FrameInv, NextLevel, pattern, SentAll
<1>4. CASE CompareEvent \/ SpisHandler
  <2>1. UNCHANGED <<messages_paused, idx, len, factor_periods, messages_send_started, air, gap>>
    BY <1>4, OtherEffects DEF schedule, counters, idx, len
  <2>2. NextLevel' = NextLevel
    BY <1>4 DEF NextLevel, CompareEvent, SpisHandler, ToggleSentSignal, pattern, history
  <2> QED
    BY <2>1, <2>2 DEF FrameInv, SentAll
<1>5. CASE TimerHandler /\ ~messages_paused /\ idx < len
  BY <1>5, FrameInFrame
<1>6. CASE TimerHandler /\ (messages_paused \/ idx >= len)
  <2>1. /\ UNCHANGED <<len, factor_periods>> /\ air' = air /\ gap' > 0 /\ gap' # 0
        /\ ~messages_paused => idx <= len /\ len > 0 /\ Loaded
    BY <1>6, TimerShows
  <2>2. air # <<>> => \E m \in Messages : ReadOff(air) = Seen(air[1].level, FrameBits[m])
    <3>1. CASE gap > 0
      BY <3>1 DEF FrameInv
    <3>2. CASE gap = 0 /\ air # <<>>
      <4>1. ~messages_paused /\ ReadOff(air) = Seen(air[1].level, Spell(Runs(factor_periods, idx)))
        BY <3>2 DEF FrameInv
      <4>2. idx = len
        BY <1>6, <2>1, <4>1
      <4> QED
        BY <2>1, <4>1, <4>2 DEF Loaded, Stored
    <3> QED
      BY <3>1, <3>2
  <2>3. ~messages_paused' => ~(0 < idx' /\ idx' < len') /\ (idx' = len' => ~SentAll')
    <3>1. CASE messages_paused
      BY <1>6, <3>1, TimerCases DEF StayPaused
    <3>2. CASE PauseAfterLast
      BY <3>2 DEF PauseAfterLast
    <3>3. CASE ~messages_paused /\ StartCountDown
      BY <1>6, <2>1, <3>3 DEF StartCountDown, SentAll, idx
    <3>4. CASE ~messages_paused /\ CountDown
      <4>1. \/ idx' = idx /\ messages_send_started' = messages_send_started
            \/ idx' = 0
        BY <3>4 DEF CountDown, idx
      <4>2. ~SentAll
        BY <3>4 DEF CountDown
      <4> QED
        BY <1>6, <2>1, <3>4, <4>1, <4>2 DEF SentAll
    <3> QED
      BY <1>6, <3>1, <3>2, <3>3, <3>4, TimerCases
  <2>4. \A m : (ReadOff(air) = Seen(air[1].level, FrameBits[m]))
                 => (ReadOff(air') = Seen(air'[1].level, FrameBits[m]))
    BY <2>1
  <2> QED
    BY <2>1, <2>2, <2>3, <2>4 DEF FrameInv
<1> QED
  BY <1>1, <1>2, <1>3, <1>4, <1>5, <1>6, MainCases

-----------------------------------------------------------------------------
(* Which symbol a frame starts on, if the timer handler of an event runs     *)
(* before the SPIS handler.                                                  *)

MainOnly == MainBuilds /\ TimerFirst

\* The pattern that the level shown after the next compare event stands for:
\* TRUE for pattern 1.
NextSending == IF spisIrq /\ ~timerIrq THEN ~sending_0 ELSE sending_0

\* In a count down the levels shown alternate towards a 1 for the first entry
\* of the frame, and from there on with the entries.
LightInv ==
    /\ timerIrq => spisIrq
    /\ cd > 0 => (NextSending <=> cd % 2 = 0)
    /\ ~messages_paused /\ idx < len => (NextSending <=> idx % 2 = 0)
    /\ FrameStartsOnRightSymbol

LEMMA LightInit == Init => LightInv
BY DEF Init, LightInv, FrameStartsOnRightSymbol, cd, idx, len

LEMMA Parity ==
    ASSUME NEW n \in Nat
    PROVE  /\ n % 2 \in {0, 1} /\ ((n + 1) % 2 = 0 <=> n % 2 # 0)
           /\ n > 0 => ((n - 1) % 2 = 0 <=> n % 2 # 0)
OBVIOUS

LEMMA LightStep ==
    ASSUME MainOnly, IInv, SettledInv, FrameInv, LightInv, Next
    PROVE  LightInv'
<1> USE Numbers DEF IInv, MainOnly
<1>0. MainBuilds
  OBVIOUS
<1>1. CASE Builds
  BY <1>1 DEF Builds, SettledInv, LightInv, NextSending, FrameStartsOnRightSymbol, timer, pattern
<1>2. CASE Publishes
  BY <1>2 DEF Publishes, SettledInv, LightInv, NextSending, FrameStartsOnRightSymbol, pattern
<1>3. CASE Idles
  BY <1>3 DEF Idles, LightInv, NextSending, FrameStartsOnRightSymbol, pattern
<1>4. CASE CompareEvent \/ SpisHandler
  <2>1. UNCHANGED <<messages_paused, idx, len, cd, air>>
    BY <1>4, OtherEffects DEF schedule, counters, idx, len, cd
  <2>2. (timerIrq' => spisIrq') /\ (NextSending' <=> NextSending)
    BY <1>4 DEF NextSending, CompareEvent, SpisHandler, ToggleSentSignal, pattern
  <2> QED
    BY <2>1, <2>2 DEF LightInv, FrameStartsOnRightSymbol
<1>5. CASE TimerHandler
  <2>1. /\ UNCHANGED <<len, sending_0, spisIrq, level>> /\ timerIrq /\ ~timerIrq' /\ spisIrq
        /\ ~messages_paused => idx <= len /\ len > 0
    BY <1>5, TimerShows DEF LightInv
  <2>2. (NextSending <=> sending_0) /\ (NextSending' <=> ~sending_0)
    BY <2>1 DEF NextSending
  <2>3. CASE messages_paused /\ StayPaused
    <3>1. cd' = cd /\ messages_paused' /\ air' = air /\ ~(cd > 0)
      BY <1>5, <2>3, TimerShows DEF StayPaused, SettledInv, counters, cd
    <3> QED
      BY <2>1, <3>1 DEF LightInv, FrameStartsOnRightSymbol
  <2>4. CASE ~messages_paused /\ idx < len /\ InFrame
    <3>1. /\ idx' = idx + 1 /\ cd' = cd /\ cd = 0 /\ air' # <<>>
          /\ idx = 0 => air'[1].level = level
          /\ idx > 0 => air'[1] = air[1]
      BY <1>5, <2>4, TimerShows, FrameInFrame
    <3>2. NextSending' <=> idx' % 2 = 0
      BY <2>2, <2>4, <3>1, Parity DEF LightInv
    <3>3. idx = 0 => level = 1
      <4>1. idx = 0 => idx % 2 = 0
        OBVIOUS
      <4> QED
        BY <2>1, <2>2, <2>4, <4>1 DEF LightInv, SettledInv, Settled, Warm
    <3>4. idx > 0 => air # <<>>
      BY <2>4 DEF FrameInv
    <3>5. air'[1].level = 1
      BY <2>4, <3>1, <3>3, <3>4 DEF LightInv, FrameStartsOnRightSymbol
    <3> QED
      BY <2>1, <3>1, <3>2, <3>5 DEF LightInv, FrameStartsOnRightSymbol
  <2>5. CASE PauseAfterLast
    <3>1. cd' = cd /\ messages_paused' /\ ~(cd > 0) /\ air' = air
      BY <1>5, <2>5, TimerShows DEF PauseAfterLast, AtFrameEnd, SettledInv, cd, idx, len
    <3> QED
      BY <2>1, <3>1 DEF LightInv, FrameStartsOnRightSymbol
  <2>6. CASE ~messages_paused /\ idx >= len /\ StartCountDown
    <3>1. idx' = idx /\ air' = air /\ cd' = IF sending_0 THEN NrPulses - 1 ELSE NrPulses
      BY <1>5, <2>6, TimerShows DEF StartCountDown, idx, cd
    <3>2. NextSending' <=> cd' % 2 = 0
      BY <2>2, <3>1, Parity
    <3> QED
      BY <2>1, <2>6, <3>1, <3>2 DEF LightInv, FrameStartsOnRightSymbol
  <2>7. CASE ~messages_paused /\ idx >= len /\ CountDown
    <3>1. cd > 0 /\ cd' = cd - 1 /\ idx' = (IF cd' = 0 THEN 0 ELSE idx) /\ air' = air
      BY <1>5, <2>7, TimerShows DEF CountDown, cd, idx
    <3>2. NextSending' <=> cd' % 2 = 0
      BY <2>2, <3>1, Parity DEF LightInv
    <3>3. idx' < len' => (NextSending' <=> idx' % 2 = 0)
      <4>1. CASE cd' = 0
        <5>1. idx' % 2 = cd' % 2
          BY <3>1, <4>1
        <5> QED
          BY <3>2, <5>1
      <4>2. CASE cd' # 0
        BY <2>1, <2>7, <3>1, <4>2
      <4> QED
        BY <4>1, <4>2
    <3>4. FrameStartsOnRightSymbol'
      BY <3>1 DEF LightInv, FrameStartsOnRightSymbol
    <3> QED
      BY <2>1, <3>2, <3>3, <3>4 DEF LightInv
  <2> QED
    BY <1>5, <2>3, <2>4, <2>5, <2>6, <2>7, TimerCases
<1> QED
  BY <1>0, <1>1, <1>2, <1>3, <1>4, <1>5, MainCases

-----------------------------------------------------------------------------
(* The theorems. *)

SInv == IInv /\ SettledInv /\ FrameInv

LEMMA SInvInit == Init => SInv
BY InvInit, SettledInit, FrameInit DEF SInv

LEMMA SInvStep ==
    ASSUME MainBuilds
    PROVE  SInv /\ [Next]_vars => SInv'
<1> SUFFICES ASSUME SInv, [Next]_vars PROVE SInv'
  OBVIOUS
<1>1. IInv'
  BY InvStep DEF SInv, MainBuilds
<1>2. CASE Next
  BY <1>1, <1>2, SettledStep, FrameStep DEF SInv
<1>3. CASE UNCHANGED vars
  BY <1>1, <1>3 DEF vars, schedule, counters, pattern, timer, history, SInv, SettledInv, Settled,
     Warm, SentAll, FrameInv, NextLevel, idx, len, cd
<1> QED
  BY <1>2, <1>3

LEMMA LightKept ==
    ASSUME MainOnly
    PROVE  SInv /\ LightInv /\ [Next]_vars => LightInv'
<1> SUFFICES ASSUME SInv, LightInv, [Next]_vars PROVE LightInv'
  OBVIOUS
<1>1. CASE Next
  BY <1>1, LightStep DEF SInv
<1>2. CASE UNCHANGED vars
  BY <1>2 DEF vars, schedule, counters, pattern, timer, history, LightInv, NextSending,
     FrameStartsOnRightSymbol, idx, len, cd
<1> QED
  BY <1>1, <1>2

\* The light alternates in step with the schedule: the pattern sent next is told by the
\* parity of the count down in a gap and by that of the index within a frame
\* (manchester.c:98-149), and what was shown of the frame is what its entries say.
THEOREM LightInvariance ==
    ASSUME MainOnly
    PROVE  Spec => [](SInv /\ LightInv)
<1>1. MainBuilds
  BY DEF MainOnly
<1>2. Init => SInv /\ LightInv
  BY SInvInit, LightInit
<1>3. SInv /\ LightInv /\ [Next]_vars => (SInv /\ LightInv)'
  BY <1>1, SInvStep, LightKept
<1> QED
  BY <1>2, <1>3, PTL DEF Spec

\* "To make sure it starts with the right symbol" (manchester.c:98): whatever
\* the number of pulses, of messages and of levels, and whichever pattern was
\* in the buffer when the gap began, every frame starts on the level of a 0.
THEOREM StartsOnRightSymbol ==
    ASSUME MainOnly
    PROVE  Spec => []FrameStartsOnRightSymbol
<1>1. SInv /\ LightInv => FrameStartsOnRightSymbol
  BY DEF LightInv
<1> QED
  BY <1>1, LightInvariance, PTL

\* Whichever handler of an event runs first, a frame that has ended was one
\* message's, every level and every period of it, or the same with every level
\* inverted (toggle_dmd, toggle_sent_signal).
THEOREM FramesWhole ==
    ASSUME MainBuilds
    PROVE  Spec => []FramesWholeInEitherPolarity
<1>1. SInv => FramesWholeInEitherPolarity
  <2> SUFFICES ASSUME SInv, gap > 0, air # <<>>
               PROVE  \E m \in Messages :
                         \/ ReadOff(air) = FrameBits[m]
                         \/ ReadOff(air) = [i \in DOMAIN FrameBits[m] |-> 1 - FrameBits[m][i]]
    BY DEF FramesWholeInEitherPolarity
  <2>1. PICK m \in Messages : ReadOff(air) = Seen(air[1].level, FrameBits[m])
    BY DEF SInv, FrameInv
  <2>2. FrameBits[m] \in Seq({0, 1})
    BY MessagesAssumption
  <2>3. CASE air[1].level = 1
    BY <2>1, <2>2, <2>3, SeenFacts
  <2>4. CASE air[1].level # 1
    BY <2>1, <2>4 DEF Seen, Polarity
  <2> QED
    BY <2>3, <2>4
<1> QED
  BY <1>1, SInvInit, SInvStep, PTL DEF Spec

\* A frame that has ended on the light reads, level by level and period by
\* period, as the frame of one message (construct_pauses, toggle_dmd and
\* toggle_sent_signal together).
THEOREM FramesSpell ==
    ASSUME MainOnly
    PROVE  Spec => []FramesSpellMessages
<1>1. SInv /\ LightInv => FramesSpellMessages
  <2> SUFFICES ASSUME SInv, LightInv, gap > 0, air # <<>>
               PROVE  \E m \in Messages : ReadOff(air) = FrameBits[m]
    BY DEF FramesSpellMessages
  <2>1. PICK m \in Messages : ReadOff(air) = Seen(air[1].level, FrameBits[m])
    BY DEF SInv, FrameInv
  <2>2. FrameBits[m] \in Seq({0, 1}) /\ air[1].level = 1
    BY MessagesAssumption DEF LightInv, FrameStartsOnRightSymbol
  <2> QED
    BY <2>1, <2>2, SeenFacts
<1> QED
  BY <1>1, LightInvariance, PTL

-----------------------------------------------------------------------------
(* FrameSource.  The bits shown of a frame are always a prefix of it, and    *)
(* the next entry of the schedule is its longest run from there on.          *)

Levels(n) == Spell(Runs(factor_periods, n))

LEMMA LevelsMore ==
    ASSUME TypeInv, NEW n \in Nat, n <= Slots
    PROVE  /\ Levels(n) \in Seq({0, 1}) /\ Levels(n + 1) \in Seq({0, 1})
           /\ factor_periods[n] \in Nat
           /\ Len(Levels(n + 1)) = Len(Levels(n)) + factor_periods[n]
           /\ \A i \in 1..Len(Levels(n)) : Levels(n + 1)[i] = Levels(n)[i]
           /\ \A i \in (Len(Levels(n)) + 1)..Len(Levels(n + 1)) : Levels(n + 1)[i] = n % 2
<1> DEFINE tail == [k \in 1..factor_periods[n] |-> n % 2]
           s == Levels(n)
           t == Levels(n + 1)
<1>1. s \in Seq({0, 1}) /\ factor_periods[n] \in Nat /\ t = s \o tail
  BY SpellMore DEF Levels
<1>2. /\ tail \in Seq({0, 1}) /\ Len(tail) = factor_periods[n]
      /\ \A k \in 1..factor_periods[n] : tail[k] = n % 2
  <2>1. n % 2 \in {0, 1}
    OBVIOUS
  <2> QED
    BY <1>1, <2>1, ConstantRun
<1> HIDE DEF tail, s, t
<1>3. /\ t \in Seq({0, 1}) /\ Len(t) = Len(s) + factor_periods[n]
      /\ \A i \in 1..(Len(s) + factor_periods[n]) :
           t[i] = IF i <= Len(s) THEN s[i] ELSE tail[i - Len(s)]
  <2>1. tail \in Seq({0, 1}) /\ Len(tail) = factor_periods[n]
    BY <1>2
  <2>2. /\ s \o tail \in Seq({0, 1}) /\ Len(s \o tail) = Len(s) + Len(tail)
        /\ \A i \in 1..(Len(s) + Len(tail)) :
             (s \o tail)[i] = IF i <= Len(s) THEN s[i] ELSE tail[i - Len(s)]
    BY <1>1, <2>1, ConcatProperties
  <2> QED
    BY <1>1, <2>1, <2>2
<1>4. Len(s) \in Nat
  BY <1>1
<1>5. ASSUME NEW i \in 1..Len(s)
      PROVE  t[i] = s[i]
  BY <1>1, <1>3, <1>4
<1>6. ASSUME NEW i \in (Len(s) + 1)..Len(t)
      PROVE  t[i] = n % 2
  <2>1. /\ i \in 1..(Len(s) + factor_periods[n]) /\ ~(i <= Len(s))
        /\ i - Len(s) \in 1..factor_periods[n]
    BY <1>1, <1>3, <1>4
  <2> QED
    BY <1>2, <1>3, <2>1
<1> QED
  BY <1>1, <1>3, <1>5, <1>6 DEF s, t

LEMMA LevelsPrefix ==
    ASSUME TypeInv, NEW m \in Nat, m <= Slots + 1, NEW n \in Nat, n <= m
    PROVE  /\ Levels(n) \in Seq({0, 1}) /\ Levels(m) \in Seq({0, 1})
           /\ Len(Levels(n)) <= Len(Levels(m))
           /\ \A i \in 1..Len(Levels(n)) : Levels(m)[i] = Levels(n)[i]
<1> DEFINE Good == {d \in Nat : n + d <= m =>
                      /\ Levels(n + d) \in Seq({0, 1}) /\ Len(Levels(n)) <= Len(Levels(n + d))
                      /\ \A i \in 1..Len(Levels(n)) : Levels(n + d)[i] = Levels(n)[i]}
<1>0. Slots \in Nat
  BY MessagesAssumption
<1>1. Levels(n) \in Seq({0, 1}) /\ Len(Levels(n)) \in Nat
  <2>1. Levels(n) \in Seq({0, 1})
    BY <1>0, RunsType, SpellType DEF Levels
  <2> QED
    BY <2>1
<1>2. 0 \in Good
  BY <1>1
<1>3. ASSUME NEW d \in Nat, d \in Good
      PROVE  d + 1 \in Good
  <2> SUFFICES ASSUME n + (d + 1) <= m
               PROVE  /\ Levels(n + (d + 1)) \in Seq({0, 1})
                      /\ Len(Levels(n)) <= Len(Levels(n + (d + 1)))
                      /\ \A i \in 1..Len(Levels(n)) : Levels(n + (d + 1))[i] = Levels(n)[i]
    OBVIOUS
  <2>1. n + d \in Nat /\ n + d <= Slots /\ n + d <= m /\ n + (d + 1) = (n + d) + 1
    BY <1>0
  <2>2. /\ Levels(n + d) \in Seq({0, 1}) /\ Len(Levels(n)) <= Len(Levels(n + d))
        /\ \A i \in 1..Len(Levels(n)) : Levels(n + d)[i] = Levels(n)[i]
    BY <1>3, <2>1
  <2> HIDE DEF Good
  <2> DEFINE s == Levels(n)
             t == Levels(n + d)
             u == Levels((n + d) + 1)
  <2>3. /\ u \in Seq({0, 1}) /\ Len(u) = Len(t) + factor_periods[n + d]
        /\ factor_periods[n + d] \in Nat
        /\ \A i \in 1..Len(t) : u[i] = t[i]
    BY <2>1, LevelsMore
  <2>4. Len(s) \in Nat /\ Len(t) \in Nat
    BY <1>1, <2>2
  <2> HIDE DEF s, t, u
  <2>5. Len(s) <= Len(u) /\ \A i \in 1..Len(s) : u[i] = s[i]
    BY <2>2, <2>3, <2>4 DEF s, t
  <2> QED
    BY <2>1, <2>3, <2>5 DEF s, u
<1> HIDE DEF Good
<1>4. Nat \subseteq Good
  BY <1>2, <1>3, SetInduction
<1>5. m - n \in Nat /\ n + (m - n) = m
  OBVIOUS
<1>6. m - n \in Good
  BY <1>4, <1>5
<1> QED
  BY <1>1, <1>5, <1>6 DEF Good

\* The next entry of a frame of len entries.
LEMMA NextRun ==
    ASSUME TypeInv, NEW m \in Nat, m <= Slots, Positive(factor_periods, m),
           NEW n \in Nat, n < m
    PROVE  LET from == Len(Levels(n)) + 1
               to   == Len(Levels(n + 1))
           IN  /\ to \in from..Len(Levels(m))
               /\ \A k \in from..to : Levels(m)[k] = Levels(m)[from]
               /\ to < Len(Levels(m)) => Levels(m)[to + 1] # Levels(m)[to]
               /\ Levels(n + 1) = SubSeq(Levels(m), 1, to)
               /\ Levels(n) = SubSeq(Levels(m), 1, Len(Levels(n)))
               /\ to = Len(Levels(m)) <=> n + 1 = m
               /\ Len(Levels(n)) < Len(Levels(m))
<1> DEFINE s == Levels(n)
           t == Levels(n + 1)
           u == Levels(n + 2)
           f == Levels(m)
<1>0. Slots \in Nat /\ n \in 0..(m - 1) /\ n <= Slots /\ n + 1 <= m
  BY MessagesAssumption
<1>1. /\ s \in Seq({0, 1}) /\ t \in Seq({0, 1}) /\ f \in Seq({0, 1})
      /\ Len(s) \in Nat /\ Len(t) \in Nat /\ Len(f) \in Nat
  <2>1. s \in Seq({0, 1}) /\ t \in Seq({0, 1}) /\ f \in Seq({0, 1})
    BY <1>0, LevelsPrefix
  <2> QED
    BY <2>1
<1>2. /\ Len(t) > Len(s)
      /\ \A i \in (Len(s) + 1)..Len(t) : t[i] = n % 2
  <2>1. factor_periods[n] > 0
    BY <1>0 DEF Positive
  <2>2. /\ Len(t) = Len(s) + factor_periods[n] /\ factor_periods[n] \in Nat
        /\ \A i \in (Len(s) + 1)..Len(t) : t[i] = n % 2
    BY <1>0, LevelsMore
  <2> HIDE DEF s, t
  <2> QED
    BY <1>1, <2>1, <2>2
<1>3. /\ Len(s) <= Len(f) /\ Len(t) <= Len(f)
      /\ \A i \in 1..Len(s) : f[i] = s[i]
      /\ \A i \in 1..Len(t) : f[i] = t[i]
  BY <1>0, LevelsPrefix
<1>4. ASSUME n + 1 < m
      PROVE  /\ Len(t) < Len(f)
             /\ f[Len(t) + 1] = (n + 1) % 2
  <2>1. n + 1 \in 0..(m - 1) /\ n + 1 \in Nat /\ n + 1 <= Slots /\ (n + 1) + 1 = n + 2
    BY <1>0, <1>4
  <2>2. factor_periods[n + 1] > 0
    BY <2>1 DEF Positive
  <2>3. /\ u \in Seq({0, 1}) /\ Len(u) = Len(t) + factor_periods[n + 1]
        /\ factor_periods[n + 1] \in Nat
        /\ \A i \in (Len(t) + 1)..Len(u) : u[i] = (n + 1) % 2
    BY <2>1, LevelsMore
  <2>4. Len(u) <= Len(f) /\ \A i \in 1..Len(u) : f[i] = u[i]
    <3>1. n + 2 \in Nat /\ n + 2 <= m
      BY <1>4
    <3> QED
      BY <1>0, <3>1, LevelsPrefix
  <2> HIDE DEF t, u, f
  <2>5. Len(t) + 1 \in 1..Len(u) /\ Len(t) + 1 \in (Len(t) + 1)..Len(u)
    BY <1>1, <2>2, <2>3
  <2> QED
    BY <1>1, <2>2, <2>3, <2>4, <2>5
<1>5. n + 1 = m => t = f
  OBVIOUS
<1> HIDE DEF s, t, u, f
<1>6. Len(t) \in (Len(s) + 1)..Len(f) /\ Len(s) < Len(f)
  BY <1>1, <1>2, <1>3
<1>7. ASSUME NEW k \in (Len(s) + 1)..Len(t)
      PROVE  f[k] = n % 2
  <2>1. k \in 1..Len(t)
    BY <1>1
  <2> QED
    BY <1>2, <1>3, <2>1
<1>8. \A k \in (Len(s) + 1)..Len(t) : f[k] = f[Len(s) + 1]
  <2>1. Len(s) + 1 \in (Len(s) + 1)..Len(t)
    BY <1>1, <1>2
  <2> QED
    BY <1>7, <2>1
<1>9. Len(t) < Len(f) => f[Len(t) + 1] # f[Len(t)]
  <2>1. Len(t) \in (Len(s) + 1)..Len(t)
    BY <1>1, <1>2
  <2>2. (n + 1) % 2 # n % 2
    OBVIOUS
  <2>3. Len(t) < Len(f) => n + 1 < m
    BY <1>0, <1>5
  <2> QED
    BY <1>4, <1>7, <2>1, <2>2, <2>3
<1>10. t = SubSeq(f, 1, Len(t)) /\ s = SubSeq(f, 1, Len(s))
  BY <1>1, <1>3
<1>11. Len(t) = Len(f) <=> n + 1 = m
  BY <1>0, <1>1, <1>4, <1>5
<1> QED
  BY <1>6, <1>8, <1>9, <1>10, <1>11 DEF s, t, f

\* What Source instantiates FrameSource with.
SourceFrame == IF messages_paused THEN <<>> ELSE Levels(len)
BitFrames == {FrameBits[m] : m \in Messages}

\* At the end of a frame its bits are all on the light; otherwise those of the
\* levels up to the index are.
LEMMA SentSoFar ==
    ASSUME SInv, LightInv
    PROVE  /\ gap > 0 => ReadOff(air) \in BitFrames \cup {<<>>}
           /\ messages_paused => ReadOff(air) \in BitFrames \cup {<<>>}
           /\ gap = 0 /\ air # <<>> => ReadOff(air) = Levels(idx)
           /\ ~messages_paused => Levels(len) \in BitFrames
           /\ ~messages_paused /\ idx = len => ReadOff(air) \in BitFrames \cup {<<>>}
<1> USE Numbers DEF SInv, IInv
<1>1. air # <<>> => air[1].level = 1
  BY DEF LightInv, FrameStartsOnRightSymbol
<1>2. gap > 0 /\ air # <<>> => ReadOff(air) \in BitFrames
  <2> SUFFICES ASSUME gap > 0, air # <<>> PROVE ReadOff(air) \in BitFrames
    OBVIOUS
  <2>1. PICK m \in Messages : ReadOff(air) = Seen(air[1].level, FrameBits[m])
    BY DEF FrameInv
  <2>2. FrameBits[m] \in Seq({0, 1})
    BY MessagesAssumption
  <2> QED
    BY <1>1, <2>1, <2>2, SeenFacts DEF BitFrames
<1>3. gap = 0 /\ air # <<>> => ~messages_paused /\ ReadOff(air) = Levels(idx)
  <2> SUFFICES ASSUME gap = 0, air # <<>> PROVE ~messages_paused /\ ReadOff(air) = Levels(idx)
    OBVIOUS
  <2>1. ~messages_paused /\ ReadOff(air) = Seen(1, Levels(idx))
    BY <1>1 DEF FrameInv, Levels
  <2>2. Levels(idx) \in Seq({0, 1})
    <3>1. idx <= Slots
      BY MessagesAssumption DEF TypeInv, TypeOK, idx
    <3> QED
      BY <3>1, LevelsMore
  <2> QED
    BY <2>1, <2>2, SeenFacts
<1>4. ~messages_paused => Levels(len) \in BitFrames
  BY UnpausedQuiet DEF ContentInv, Loaded, Stored, Levels, BitFrames
<1>5. air = <<>> => ReadOff(air) = <<>>
  BY ReadOffNothing
<1> QED
  BY <1>2, <1>3, <1>4, <1>5

\* The level the timer handler shows is the next run of the frame.
LEMMA SourceRun ==
    ASSUME SInv, LightInv, TimerHandler, ~messages_paused, idx < len
    PROVE  Source!Start \/ Source!Continue
<1> USE Numbers DEF SInv, IInv
<1> DEFINE s == Levels(idx)
           t == Levels(idx + 1)
           f == Levels(len)
<1>1. /\ UNCHANGED <<len, factor_periods>> /\ ~messages_paused' /\ gap' = 0
      /\ len <= Slots /\ Loaded
      /\ shown' = IF idx + 1 = len THEN Bounded(shown + 1, NumberOfMessages + 1) ELSE shown
  BY TimerShows
<1>2. ReadOff(air') = t
  <2>1. /\ air' # <<>> /\ ReadOff(air') = Seen(air'[1].level, Levels(idx + 1))
        /\ idx = 0 => air'[1].level = level
        /\ idx > 0 => air'[1] = air[1]
    BY FrameInFrame DEF Levels
  <2>2. air'[1].level = 1
    <3>1. CASE idx = 0
      <4>1. timerIrq /\ spisIrq
        BY TimerShows DEF LightInv
      <4>2. NextSending
        BY <3>1 DEF LightInv
      <4> QED
        BY <2>1, <3>1, <4>1, <4>2 DEF NextSending, SettledInv, Settled, Warm
    <3>2. CASE idx > 0
      <4>1. air # <<>>
        BY <3>2 DEF FrameInv
      <4> QED
        BY <2>1, <3>2, <4>1 DEF LightInv, FrameStartsOnRightSymbol
    <3> QED
      BY <3>1, <3>2
  <2>3. Levels(idx + 1) \in Seq({0, 1})
    BY SMTT(30), <1>1, LevelsMore, MessagesAssumption
  <2> QED
    BY <2>1, <2>2, <2>3, SeenFacts
<1>3. /\ Len(t) \in (Len(s) + 1)..Len(f)
      /\ \A k \in (Len(s) + 1)..Len(t) : f[k] = f[Len(s) + 1]
      /\ Len(t) < Len(f) => f[Len(t) + 1] # f[Len(t)]
      /\ t = SubSeq(f, 1, Len(t)) /\ s = SubSeq(f, 1, Len(s))
      /\ Len(t) = Len(f) <=> idx + 1 = len
      /\ Len(s) < Len(f)
  <2>1. Positive(factor_periods, len)
    BY <1>1 DEF Loaded, Stored
  <2>2. TypeInv /\ idx \in Nat /\ len \in Nat /\ len <= Slots /\ idx < len
    BY <1>1
  <2> HIDE DEF s, t, f
  <2>3. LET from == Len(Levels(idx)) + 1
            to   == Len(Levels(idx + 1))
        IN  /\ to \in from..Len(Levels(len))
            /\ \A k \in from..to : Levels(len)[k] = Levels(len)[from]
            /\ to < Len(Levels(len)) => Levels(len)[to + 1] # Levels(len)[to]
            /\ Levels(idx + 1) = SubSeq(Levels(len), 1, to)
            /\ Levels(idx) = SubSeq(Levels(len), 1, Len(Levels(idx)))
            /\ to = Len(Levels(len)) <=> idx + 1 = len
            /\ Len(Levels(idx)) < Len(Levels(len))
    BY <2>1, <2>2, NextRun
  <2> QED
    BY <2>3 DEF s, t, f
<1>4. shown' = IF Len(t) = Len(f) /\ shown <= NumberOfMessages THEN shown + 1 ELSE shown
  <2>1. shown <= NumberOfMessages + 1
    BY DEF TypeInv, TypeOK
  <2> QED
    BY <1>1, <1>3, <2>1 DEF Bounded
<1>5. SourceFrame = f /\ SourceFrame' = f
  BY <1>1 DEF SourceFrame, Levels
<1> HIDE DEF s, t, f
<1>6. Source!ShowFrom(Len(s) + 1)
  <2>1. /\ (IF messages_paused THEN <<>> ELSE Spell(Schedule)) = f
        /\ (IF messages_paused THEN <<>> ELSE Spell(Schedule))' = f
    BY <1>5 DEF SourceFrame, Levels, Runs, Schedule, len
  <2> QED
    BY <1>1, <1>2, <1>3, <1>4, <2>1 DEF Source!ShowFrom
<1>7. (IF messages_paused THEN <<>> ELSE Spell(Schedule)) = f
  BY <1>5 DEF SourceFrame, Levels, Runs, Schedule, len
<1>8. CASE idx = 0
  <2>1. gap >= NrPulses
    BY <1>8, UnpausedQuiet DEF GapInv
  <2>2. ReadOff(air) \in BitFrames \cup {<<>>}
    BY <2>1, SentSoFar
  <2>3. s = <<>>
    <3>1. <<>> \in Seq({0, 1}) /\ SubSeq(<<>>, 1, 0) = <<>>
      OBVIOUS
    <3> QED
      BY <1>8, <3>1, NoRuns DEF Levels, s
  <2>4. Source!ShowFrom(1)
    BY <1>6, <2>3, Len(<<>>) = 0
  <2> QED
    BY <2>1, <2>2, <2>4 DEF Source!Start, Source!Between, BitFrames
<1>9. CASE idx > 0
  <2>1. gap = 0 /\ air # <<>>
    BY <1>9, UnpausedQuiet DEF GapInv, FrameInv
  <2>2. ReadOff(air) = s
    BY <2>1, SentSoFar DEF s
  <2> QED
    BY <1>3, <1>6, <1>7, <2>2 DEF Source!Continue
<1> QED
  BY <1>8, <1>9

LEMMA SourceStep ==
    ASSUME MainOnly, SInv, LightInv, Next
    PROVE  Source!Next \/ UNCHANGED Source!vars
<1> USE Numbers DEF SInv, IInv, MainOnly
<1>0. MainBuilds
  OBVIOUS
<1> DEFINE framed == IF messages_paused THEN <<>> ELSE Spell(Schedule)
<1>a. framed = SourceFrame /\ framed' = SourceFrame'
  BY DEF SourceFrame, Levels, Runs, Schedule, len
<1> HIDE DEF framed
<1>1. ASSUME SourceFrame' = SourceFrame, air' = air, gap' = gap, shown' = shown
      PROVE  UNCHANGED Source!vars
  BY <1>1, <1>a DEF Source!vars, framed
<1>2. ASSUME SourceFrame' = SourceFrame, air' = air, gap' = Bounded(gap + 1, NrPulses + 1),
             shown' = shown, ReadOff(air) \in BitFrames \cup {<<>>}
      PROVE  Source!Pulse \/ UNCHANGED Source!vars
  <2>1. gap <= NrPulses + 1
    BY DEF TypeInv, TypeOK
  <2>2. CASE gap <= NrPulses
    <3>1. gap' = gap + 1
      BY <1>2, <2>2 DEF Bounded
    <3> QED
      BY <1>2, <1>a, <2>2, <3>1 DEF Source!Pulse, Source!Between, BitFrames, framed
  <2>3. CASE ~(gap <= NrPulses)
    BY <1>1, <1>2, <2>1, <2>3 DEF Bounded
  <2> QED
    BY <2>2, <2>3
<1>3. CASE Builds
  BY <1>1, <1>3 DEF Builds, SourceFrame
<1>4. CASE Publishes
  <2>1. SourceFrame = <<>> /\ SourceFrame' \in BitFrames
    BY <1>4 DEF Publishes, SourceFrame, Levels, Loaded, Stored, BitFrames
  <2>2. air' = air /\ gap' = gap /\ shown' = 0
    BY <1>4 DEF Publishes
  <2> QED
    BY <1>a, <2>1, <2>2 DEF Source!Next, Source!Load, BitFrames, framed
<1>5. CASE Idles
  <2>1. SourceFrame' = SourceFrame
    BY <1>5 DEF Idles, SourceFrame, Levels
  <2> QED
    BY <1>1, <1>5, <2>1 DEF Idles
<1>6. CASE CompareEvent \/ SpisHandler
  <2>1. UNCHANGED <<messages_paused, len, factor_periods, air, gap, shown>>
    BY <1>6, OtherEffects DEF schedule, len
  <2>2. SourceFrame' = SourceFrame
    BY <2>1 DEF SourceFrame, Levels
  <2> QED
    BY <1>1, <2>1, <2>2
<1>7. CASE TimerHandler /\ ~messages_paused /\ idx < len
  BY <1>7, SourceRun DEF Source!Next
<1>8. CASE TimerHandler /\ (messages_paused \/ idx >= len)
  <2>1. /\ UNCHANGED <<len, factor_periods>> /\ air' = air /\ shown' = shown
        /\ gap' = Bounded(gap + 1, NrPulses + 1)
        /\ ~messages_paused => idx = len
    BY <1>8, TimerShows
  <2>2. ReadOff(air) \in BitFrames \cup {<<>>}
    BY <2>1, SentSoFar
  <2>3. CASE messages_paused' <=> messages_paused
    <3>1. SourceFrame' = SourceFrame
      BY <2>1, <2>3 DEF SourceFrame, Levels
    <3> QED
      BY <1>2, <2>1, <2>2, <3>1 DEF Source!Next
  <2>4. CASE PauseAfterLast
    <3>1. /\ SentAll /\ ~messages_paused /\ messages_paused' /\ idx = len
          /\ ~Infinite /\ messages_send_started >= NumberOfMessages
      BY <2>1, <2>4 DEF PauseAfterLast, AtFrameEnd, SentAll
    <3>2. shown = NumberOfMessages
      BY <3>1 DEF CountInv
    <3>3. gap = 0 /\ air # <<>>
      BY <3>1 DEF FrameInv
    <3>4. ReadOff(air) = Levels(len)
      BY <3>1, <3>3, SentSoFar
    <3>5. SourceFrame = Levels(len) /\ SourceFrame' = <<>>
      BY <3>1 DEF SourceFrame
    <3>6. gap' = gap + 1
      BY <2>1, <3>3 DEF Bounded
    <3> QED
      BY <1>a, <2>1, <3>1, <3>2, <3>4, <3>5, <3>6 DEF Source!Next, Source!Unload, framed
  <2>5. (messages_paused' <=> messages_paused) \/ PauseAfterLast
    <3>1. ~(~messages_paused /\ idx < len)
      BY <1>8
    <3>2. (messages_paused /\ StayPaused) \/ PauseAfterLast \/ StartCountDown \/ CountDown
      BY <1>8, <3>1, TimerCases
    <3>3. StayPaused \/ StartCountDown \/ CountDown => messages_paused' = messages_paused
      BY DEF StayPaused, StartCountDown, CountDown
    <3> QED
      BY <3>2, <3>3
  <2> QED
    BY <2>3, <2>4, <2>5
<1> QED
  BY <1>0, <1>3, <1>4, <1>5, <1>6, <1>7, <1>8, MainCases DEF Source!Next

\* The control core implements FrameSource: no interleaving of the interrupts,
\* the main thread and the builder shows more or less than whole frames, run by
\* run, with NrPulses pulses before each, and unless INFINITE is defined each is
\* unloaded after it was shown NUMBER_OF_MESSAGES_TO_SEND times.
THEOREM ImplementsSource ==
    ASSUME MainOnly
    PROVE  Spec => ImplementsFrameSource
<1>1. Init => Source!Init
  <2> SUFFICES ASSUME Init PROVE Source!Init
    OBVIOUS
  <2>1. messages_paused /\ air = <<>> /\ shown = 0 /\ gap = 0
    BY DEF Init
  <2> QED
    BY <2>1, ReadOffNothing DEF Source!Init
<1>2. SInv /\ LightInv /\ [Next]_vars => [Source!Next]_(Source!vars)
  <2> SUFFICES ASSUME SInv, LightInv, [Next]_vars
               PROVE  Source!Next \/ UNCHANGED Source!vars
    OBVIOUS
  <2>1. CASE Next
    BY <2>1, SourceStep
  <2>2. CASE UNCHANGED vars
    BY <2>2 DEF vars, schedule, history, Source!vars, Schedule
  <2> QED
    BY <2>1, <2>2
<1> QED
  BY <1>1, <1>2, LightInvariance, PTL DEF Spec, ImplementsFrameSource, Source!Spec
=============================================================================
