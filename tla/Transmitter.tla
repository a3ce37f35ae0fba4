---------------------------- MODULE Transmitter ----------------------------
(***************************************************************************)
(* The transmitter's control core: the two interrupt handlers that flip    *)
(* the DMD and pace the flips (main.c: spis_handler, timer_handler), the   *)
(* schedule they consume (manchester.c: toggle_dmd), and the code that     *)
(* builds a schedule while they keep running (manchester.c:                *)
(* construct_frame, construct_pauses), called by the main thread and, in   *)
(* USER_INTERFACE builds, by the USB serial handler (uarte_controller.c).  *)
(*                                                                         *)
(* A message is a constant and FrameBits gives the bits its frame holds;   *)
(* module Framing computes such frames from payload bytes.  Periods are    *)
(* counted in units of US_BETWEEN_BITS.                                    *)
(***************************************************************************)
EXTENDS Integers, Sequences, SequencesExt

CONSTANTS
    Messages,         \* what a caller can hand to construct_frame
    FrameBits,        \* message |-> bits of the frame built for it
    Hello,            \* the predefined message of main.c:23
    RgbMessages,      \* the colour messages of main's loop
    UartMessages,     \* what may arrive on the serial port; {} without USER_INTERFACE
    NumberOfMessages, \* NUMBER_OF_MESSAGES_TO_SEND
    Infinite,         \* whether INFINITE is defined
    NrPulses,         \* NR_PULSES_BETWEEN_CONSECUTIVE_MESSAGES
    LineDuringBuild,  \* whether a line may arrive while main builds a frame
    Button,           \* whether somebody may press the button
    TimerFirst,       \* the timer interrupt of an event is served before the SPIS one
    Slots,            \* bound: the longest frame, in bits
    CounterMod        \* width of messages_send_started, 2^32 in the code

ASSUME MessagesAssumption ==
    /\ Hello \in Messages
    /\ RgbMessages \subseteq Messages
    /\ UartMessages \subseteq Messages
    /\ Slots \in Nat \ {0}
    /\ FrameBits \in [Messages -> Seq({0, 1})]
    /\ \A m \in Messages :
         /\ Len(FrameBits[m]) \in 1..Slots
         /\ FrameBits[m][1] = 0           \* the preamble 0x71 starts with a 0

ASSUME BuildAssumption ==
    /\ NumberOfMessages \in Nat \ {0}
    /\ CounterMod \in Nat /\ CounterMod > NumberOfMessages
    /\ NrPulses \in Nat /\ NrPulses >= 2
    /\ NrPulses % 2 = 0                   \* common.h:28 "Needs to be even"
    /\ Infinite \in BOOLEAN
    /\ LineDuringBuild \in BOOLEAN
    /\ Button \in BOOLEAN
    /\ TimerFirst \in BOOLEAN

VARIABLES
    messages_paused,        \* no schedule may be consumed
    current_period_index,   \* next entry of factor_periods to load
    factor_periods_length,  \* entries of the current frame
    factor_periods,         \* how long each level of the frame lasts
    messages_send_started,
    count_down_to_next_msg, \* pulses left before the frame repeats
    end_of_message,
    sending_0,              \* main.c's idea of the pattern in the buffer
    tx_drc_b_buffer,        \* the pattern the next event sends to the DMD
    dmd_paused,             \* the timer does not run yet
    cc,                     \* compare value of the timer
    timerIrq, spisIrq,      \* pending interrupts of the last compare event
    frame,                  \* bits of the frame under construction
    call,                   \* caller |-> its activation of construct_frame
    level,                  \* history: the pattern the DMD shows
    air,                    \* history: levels of the last frame, with their periods
    gap,                    \* history: pulses since the last level of a frame
    shown                   \* history: whole frames since messages were unpaused

schedule == <<current_period_index, factor_periods_length, factor_periods>>
counters == <<messages_send_started, count_down_to_next_msg>>
pattern  == <<sending_0, tx_drc_b_buffer>>
timer    == <<dmd_paused, cc, timerIrq, spisIrq>>
builder  == <<frame, call>>
history  == <<level, air, gap, shown>>
vars     == <<messages_paused, schedule, counters, end_of_message, pattern,
              timer, builder, history>>

Callers == {"main", "uart"}
Steps == {"enter", "append", "scan", "setLength", "setIndex", "setStarted",
          "setPulse", "publish"}
GapPeriods == 2             \* US_PULSES_BETWEEN_CONSECUTIVE_MESSAGES
PeriodMax  == Slots + GapPeriods

Bounded(n, bound) == IF n > bound THEN bound ELSE n

Init ==
    /\ messages_paused = TRUE
    /\ current_period_index = 0
    /\ factor_periods_length = 0
    /\ factor_periods = [i \in 0..Slots |-> 0]
    /\ messages_send_started = 0
    /\ count_down_to_next_msg = 0
    /\ end_of_message = FALSE
    /\ sending_0 = TRUE
    /\ tx_drc_b_buffer = 0
    /\ dmd_paused = TRUE
    /\ cc = 1
    /\ timerIrq = FALSE
    /\ spisIrq = FALSE
    /\ frame = [i \in 0..(Slots - 1) |-> 0]
    /\ call = [c \in Callers |->
                 [pc |-> IF c = "main" THEN "enter" ELSE "idle", msg |-> Hello,
                  pos |-> 0, run |-> 0, bit |-> 0, periods |-> 0]]
    /\ level = 0
    /\ air = <<>>
    /\ gap = 0
    /\ shown = 0

-----------------------------------------------------------------------------
(* construct_frame and construct_pauses, by whichever thread runs them.      *)
(* Interrupts come between any two steps.                                    *)

\* External: Zephyr calls the serial handler from a cooperative work queue, so
\* that while it is inside the preemptible main thread does not move.
MayRun(c) == c = "main" => call["uart"].pc = "idle"
At(c, step) == MayRun(c) /\ call[c].pc = step
Goto(c, step) == call' = [call EXCEPT ![c].pc = step]
FrameSize(c) == Len(FrameBits[call[c].msg])

\* (Definitions named like the one after them but for a suffix are deviations
\* used to show that the properties can fail; no action uses them.)
EnterNoPause(c) ==
    /\ At(c, "enter")
    /\ frame' = [i \in 0..(Slots - 1) |-> 0]
    /\ messages_paused' = messages_paused
    /\ call' = [call EXCEPT ![c].pc = "append", ![c].pos = 0]
    /\ UNCHANGED <<schedule, counters, end_of_message, pattern, timer, history>>

Enter(c) ==
    /\ At(c, "enter")
    /\ frame' = [i \in 0..(Slots - 1) |-> 0]
    /\ messages_paused' = TRUE
    /\ call' = [call EXCEPT ![c].pc = "append", ![c].pos = 0]
    /\ UNCHANGED <<schedule, counters, end_of_message, pattern, timer, history>>

\* The next bit of preamble, length, payload or parity goes into the frame.
AppendBit(c) ==
    /\ At(c, "append")
    /\ call[c].pos < FrameSize(c)
    /\ frame' = [frame EXCEPT ![call[c].pos] = FrameBits[call[c].msg][call[c].pos + 1]]
    /\ call' = [call EXCEPT ![c].pos = @ + 1]
    /\ UNCHANGED <<messages_paused, schedule, counters, end_of_message, pattern,
                   timer, history>>

StartScan(c) ==
    /\ At(c, "append")
    /\ call[c].pos = FrameSize(c)
    /\ call' = [call EXCEPT ![c].pc = "scan", ![c].pos = 0, ![c].run = 0,
                            ![c].periods = 0]
    /\ UNCHANGED <<messages_paused, schedule, counters, end_of_message, pattern,
                   timer, frame, history>>

\* One more bit equal to the first bit of the run that is being measured.
InRun(c) ==
    /\ call[c].pos < FrameSize(c)
    /\ call[c].run > 0 => frame[call[c].pos] = call[c].bit

CountBit(c) ==
    /\ At(c, "scan")
    /\ InRun(c)
    /\ call' = [call EXCEPT ![c].bit = frame[call[c].pos], ![c].pos = @ + 1,
                            ![c].run = @ + 1]
    /\ UNCHANGED <<messages_paused, schedule, counters, end_of_message, pattern,
                   timer, frame, history>>

StorePeriodKeepsCounter(c) ==
    /\ At(c, "scan")
    /\ call[c].run > 0
    /\ ~InRun(c)
    /\ factor_periods' = [factor_periods EXCEPT ![call[c].periods] = call[c].run]
    /\ call' = [call EXCEPT ![c].periods = @ + 1, ![c].run = 1]
    /\ UNCHANGED <<messages_paused, current_period_index, factor_periods_length,
                   counters, end_of_message, pattern, timer, frame, history>>

StorePeriod(c) ==
    /\ At(c, "scan")
    /\ call[c].run > 0
    /\ ~InRun(c)
    /\ factor_periods' = [factor_periods EXCEPT ![call[c].periods] = call[c].run]
    /\ call' = [call EXCEPT ![c].periods = @ + 1, ![c].run = 0]
    /\ UNCHANGED <<messages_paused, current_period_index, factor_periods_length,
                   counters, end_of_message, pattern, timer, frame, history>>

SetLengthOneShort(c) ==
    /\ At(c, "scan")
    /\ call[c].run = 0
    /\ call[c].pos = FrameSize(c)
    /\ factor_periods_length' = call[c].periods - 1
    /\ Goto(c, "setIndex")
    /\ UNCHANGED <<messages_paused, current_period_index, factor_periods, counters,
                   end_of_message, pattern, timer, frame, history>>

SetLength(c) ==
    /\ At(c, "scan")
    /\ call[c].run = 0
    /\ call[c].pos = FrameSize(c)
    /\ factor_periods_length' = call[c].periods
    /\ Goto(c, "setIndex")
    /\ UNCHANGED <<messages_paused, current_period_index, factor_periods, counters,
                   end_of_message, pattern, timer, frame, history>>

SetIndexToStart(c) ==
    /\ At(c, "setIndex")
    /\ current_period_index' = 0
    /\ Goto(c, "setStarted")
    /\ UNCHANGED <<messages_paused, factor_periods_length, factor_periods, counters,
                   end_of_message, pattern, timer, frame, history>>

SetIndex(c) ==
    /\ At(c, "setIndex")
    /\ current_period_index' = call[c].periods
    /\ Goto(c, "setStarted")
    /\ UNCHANGED <<messages_paused, factor_periods_length, factor_periods, counters,
                   end_of_message, pattern, timer, frame, history>>

SetStarted(c) ==
    /\ At(c, "setStarted")
    /\ messages_send_started' = 0
    /\ Goto(c, "setPulse")
    /\ UNCHANGED <<messages_paused, schedule, count_down_to_next_msg, end_of_message,
                   pattern, timer, frame, history>>

SetPulse(c) ==
    /\ At(c, "setPulse")
    /\ factor_periods' = [factor_periods EXCEPT ![factor_periods_length] = GapPeriods]
    /\ Goto(c, "publish")
    /\ UNCHANGED <<messages_paused, current_period_index, factor_periods_length,
                   counters, end_of_message, pattern, timer, frame, history>>

\* The frames sent are counted from the moment messages are unpaused.
Unpause ==
    /\ messages_paused' = FALSE
    /\ shown' = IF messages_paused THEN 0 ELSE shown

AfterConstruct(c) ==
    CASE c = "uart"               -> "unpause"
      [] c = "main" /\ dmd_paused -> "power"
      [] OTHER                    -> "wait"

Publish(c) ==
    /\ At(c, "publish")
    /\ Unpause
    /\ Goto(c, AfterConstruct(c))
    /\ UNCHANGED <<schedule, counters, end_of_message, pattern, timer, frame,
                   level, air, gap>>

ConstructFrame(c) ==
    \/ Enter(c)
    \/ AppendBit(c)
    \/ StartScan(c)
    \/ CountBit(c)
    \/ StorePeriod(c)
    \/ SetLength(c)
    \/ SetIndex(c)
    \/ SetStarted(c)
    \/ SetPulse(c)
    \/ Publish(c)

-----------------------------------------------------------------------------
(* The rest of main: start the timer, then wait for the interrupt handler to *)
(* pause the messages and build the next colour.                             *)

TurnOnDMD ==
    /\ At("main", "power")
    /\ dmd_paused' = FALSE
    /\ cc' = 1
    /\ Goto("main", "wait")
    /\ UNCHANGED <<messages_paused, schedule, counters, end_of_message, pattern,
                   timerIrq, spisIrq, frame, history>>

NextColourAtOnce ==
    /\ At("main", "wait")
    /\ \E m \in RgbMessages :
         call' = [call EXCEPT !["main"].pc = "enter", !["main"].msg = m]
    /\ UNCHANGED <<messages_paused, schedule, counters, end_of_message, pattern,
                   timer, frame, history>>

NextColour ==
    /\ At("main", "wait")
    /\ messages_paused
    /\ \E m \in RgbMessages :
         call' = [call EXCEPT !["main"].pc = "enter", !["main"].msg = m]
    /\ UNCHANGED <<messages_paused, schedule, counters, end_of_message, pattern,
                   timer, frame, history>>

Main == ConstructFrame("main") \/ TurnOnDMD \/ NextColour

(* The serial handler: a line arrives at any time after start_uarte. *)

ReceiveLine ==
    /\ call["uart"].pc = "idle"
    /\ LineDuringBuild \/ call["main"].pc \notin Steps
    /\ \E m \in UartMessages :
         call' = [call EXCEPT !["uart"].pc = "enter", !["uart"].msg = m]
    /\ UNCHANGED <<messages_paused, schedule, counters, end_of_message, pattern,
                   timer, frame, history>>

UartUnpause ==
    /\ At("uart", "unpause")
    /\ Unpause
    /\ Goto("uart", "idle")
    /\ UNCHANGED <<schedule, counters, end_of_message, pattern, timer, frame,
                   level, air, gap>>

Uart == ConstructFrame("uart") \/ UartUnpause

ButtonPressed ==
    /\ Button
    /\ ~dmd_paused \/ call["main"].pc = "power"    \* set up behind the first frame
    /\ Unpause
    /\ UNCHANGED <<schedule, counters, end_of_message, pattern, timer, builder,
                   level, air, gap>>

-----------------------------------------------------------------------------
(* The timer reaches cc: DPPI starts the SPI transfer that makes the DMD     *)
(* show the buffer, and both interrupts become pending.  Both handlers run   *)
(* at one priority, to completion, before the next compare event.            *)

CompareEvent ==
    /\ ~dmd_paused
    /\ ~timerIrq /\ ~spisIrq
    /\ level' = tx_drc_b_buffer
    /\ timerIrq' = TRUE
    /\ spisIrq' = TRUE
    /\ UNCHANGED <<messages_paused, schedule, counters, end_of_message, pattern,
                   dmd_paused, cc, builder, air, gap, shown>>

\* toggle_sent_signal: the other pattern goes into the buffer.
ToggleSentSignal ==
    /\ sending_0' = ~sending_0
    /\ tx_drc_b_buffer' = IF sending_0 THEN 0 ELSE 1

SpisHandler ==
    /\ spisIrq
    /\ TimerFirst => ~timerIrq
    /\ spisIrq' = FALSE
    /\ ToggleSentSignal
    /\ UNCHANGED <<messages_paused, schedule, counters, end_of_message,
                   dmd_paused, cc, timerIrq, builder, history>>

\* What the light shows from the event on: a level of the frame or a pulse.
Observe ==
    LET period == factor_periods[current_period_index]
        inFrame == ~messages_paused /\ current_period_index < factor_periods_length
        entry == [level |-> level, run |-> period]
    IN  /\ air' = IF ~inFrame THEN air
                  ELSE IF current_period_index = 0 THEN <<entry>>
                  ELSE IF Len(air) > Slots THEN air   \* bound on the history
                  ELSE Append(air, entry)
        /\ gap' = IF inFrame THEN 0 ELSE Bounded(gap + 1, NrPulses + 1)
        /\ shown' = IF inFrame /\ current_period_index + 1 = factor_periods_length
                    THEN Bounded(shown + 1, NumberOfMessages + 1) ELSE shown

StayPaused ==
    /\ messages_paused
    /\ end_of_message' = TRUE
    /\ UNCHANGED <<messages_paused, current_period_index, counters>>

InFrameOneMore ==
    /\ ~messages_paused
    /\ current_period_index <= factor_periods_length
    /\ current_period_index' = current_period_index + 1
    /\ end_of_message' = FALSE
    /\ UNCHANGED <<messages_paused, counters>>

InFrame ==
    /\ ~messages_paused
    /\ current_period_index < factor_periods_length
    /\ current_period_index' = current_period_index + 1
    /\ end_of_message' = FALSE
    /\ UNCHANGED <<messages_paused, counters>>

AtFrameEnd == ~messages_paused /\ current_period_index >= factor_periods_length
SentOneFewer == ~Infinite /\ messages_send_started + 1 >= NumberOfMessages
SentAll == ~Infinite /\ messages_send_started >= NumberOfMessages

PauseAfterLast ==
    /\ AtFrameEnd
    /\ SentAll
    /\ messages_send_started' = 0
    /\ messages_paused' = TRUE
    /\ current_period_index' = factor_periods_length
    /\ end_of_message' = TRUE
    /\ UNCHANGED count_down_to_next_msg

StartCountDownEven ==
    /\ AtFrameEnd
    /\ ~SentAll
    /\ count_down_to_next_msg = 0
    /\ count_down_to_next_msg' = NrPulses
    /\ end_of_message' = TRUE
    /\ UNCHANGED <<messages_paused, current_period_index, messages_send_started>>

StartCountDown ==
    /\ AtFrameEnd
    /\ ~SentAll
    /\ count_down_to_next_msg = 0
    /\ count_down_to_next_msg' = IF sending_0 THEN NrPulses - 1 ELSE NrPulses
    /\ end_of_message' = TRUE
    /\ UNCHANGED <<messages_paused, current_period_index, messages_send_started>>

CountDownEarly ==
    /\ AtFrameEnd
    /\ ~SentAll
    /\ count_down_to_next_msg > 0
    /\ count_down_to_next_msg' = IF count_down_to_next_msg = 2 THEN 0
                                 ELSE count_down_to_next_msg - 1
    /\ IF count_down_to_next_msg' = 0
         THEN /\ current_period_index' = 0
              /\ messages_send_started' = (messages_send_started + 1) % CounterMod
         ELSE UNCHANGED <<current_period_index, messages_send_started>>
    /\ end_of_message' = FALSE
    /\ UNCHANGED messages_paused

CountDownWithoutRestart ==
    /\ AtFrameEnd
    /\ ~SentAll
    /\ count_down_to_next_msg > 0
    /\ count_down_to_next_msg' = count_down_to_next_msg - 1
    /\ end_of_message' = FALSE
    /\ UNCHANGED <<messages_paused, current_period_index, messages_send_started>>

CountDown ==
    /\ AtFrameEnd
    /\ ~SentAll
    /\ count_down_to_next_msg > 0
    /\ count_down_to_next_msg' = count_down_to_next_msg - 1
    /\ IF count_down_to_next_msg' = 0
         THEN /\ current_period_index' = 0
              /\ messages_send_started' = (messages_send_started + 1) % CounterMod
         ELSE UNCHANGED <<current_period_index, messages_send_started>>
    /\ end_of_message' = FALSE
    /\ UNCHANGED messages_paused

toggle_dmd == StayPaused \/ InFrame \/ PauseAfterLast \/ StartCountDown \/ CountDown

TimerHandler ==
    /\ timerIrq
    /\ timerIrq' = FALSE
    /\ cc' = factor_periods[current_period_index]
    /\ Observe
    /\ toggle_dmd
    /\ UNCHANGED <<factor_periods_length, factor_periods, pattern, dmd_paused,
                   spisIrq, builder, level>>

-----------------------------------------------------------------------------
Next ==
    \/ Main
    \/ ReceiveLine
    \/ Uart
    \/ ButtonPressed
    \/ CompareEvent
    \/ SpisHandler
    \/ TimerHandler

\* The timer counts, pending interrupts are served and both threads get the
\* processor; nobody has to press the button or type a line.
Fairness ==
    /\ WF_vars(CompareEvent)
    /\ WF_vars(SpisHandler)
    /\ WF_vars(TimerHandler)
    /\ WF_vars(Main)
    /\ WF_vars(Uart)

Spec == Init /\ [][Next]_vars /\ Fairness

-----------------------------------------------------------------------------
Points == Steps \cup {"power", "wait", "idle", "unpause"}
Activation == [pc: Points,
               msg: Messages, pos: 0..Slots, run: 0..Slots, bit: {0, 1},
               periods: 0..Slots]

\* Every variable keeps to its values; every index stays inside its array.
TypeOK ==
    /\ messages_paused \in BOOLEAN
    /\ current_period_index \in 0..Slots
    /\ factor_periods_length \in 0..Slots
    /\ factor_periods \in [0..Slots -> 0..PeriodMax]
    /\ messages_send_started \in 0..(CounterMod - 1)
    /\ count_down_to_next_msg \in 0..NrPulses
    /\ end_of_message \in BOOLEAN
    /\ sending_0 \in BOOLEAN
    /\ tx_drc_b_buffer \in {0, 1}
    /\ dmd_paused \in BOOLEAN
    /\ cc \in 0..PeriodMax
    /\ timerIrq \in BOOLEAN
    /\ spisIrq \in BOOLEAN
    /\ frame \in [0..(Slots - 1) -> {0, 1}]
    /\ call \in [Callers -> Activation]
    /\ level \in {0, 1}
    /\ air \in Seq([level: {0, 1}, run: 0..PeriodMax])
    /\ gap \in 0..(NrPulses + 1)
    /\ shown \in 0..(NumberOfMessages + 1)

\* The bits a sequence of run lengths stands for, the first run being of zeros.
Spell(runs) ==
    FlattenSeq([i \in DOMAIN runs |-> [k \in 1..runs[i] |-> (i - 1) % 2]])

\* The bits a receiver reads off the light: pattern 1 stands for a 0.
ReadOff(lights) ==
    FlattenSeq([i \in DOMAIN lights |-> [k \in 1..lights[i].run |-> 1 - lights[i].level]])

Schedule == [i \in 1..factor_periods_length |-> factor_periods[i - 1]]

\* Whatever the handlers made of the schedule, and whatever was built behind
\* their back, a frame that has ended on the light reads, level by level and
\* period by period, as the frame of one message (construct_pauses, toggle_dmd
\* and toggle_sent_signal together).
FramesSpellMessages ==
    gap > 0 /\ air # <<>> => \E m \in Messages : ReadOff(air) = FrameBits[m]

\* "To make sure it starts with the right symbol" (manchester.c:98): each frame
\* starts at the pattern that stands for the preamble's first 0, although the
\* light keeps toggling through the gap, whose length is chosen at its start.
FrameStartsOnRightSymbol == air # <<>> => air[1].level = 1

\* The same without regard to polarity: whichever handler of an event is
\* served first, a frame stays whole and at most all its levels are inverted.
FramesWholeInEitherPolarity ==
    gap > 0 /\ air # <<>> =>
        \E m \in Messages :
            \/ ReadOff(air) = FrameBits[m]
            \/ ReadOff(air) = [i \in DOMAIN FrameBits[m] |-> 1 - FrameBits[m][i]]

\* An active schedule is the run lengths of one message followed by the pulse
\* entry: no reader meets two messages mixed or a half-built one
\* (manchester.c:36 and 103 bracket the building).
ScheduleIsOneMessage ==
    ~messages_paused =>
        /\ \E m \in Messages : Spell(Schedule) = FrameBits[m]
        /\ factor_periods[factor_periods_length] = GapPeriods

\* How many levels a frame has: one more than its changes from bit to bit.
Changes(m, n) == {i \in 1..n : FrameBits[m][i] # FrameBits[m][i + 1]}
NrLevels(m) == Cardinality(Changes(m, Len(FrameBits[m]) - 1)) + 1
HelloHasMostLevels == \A m \in Messages : NrLevels(m) <= NrLevels(Hello)
ColoursHaveNoMoreLevels == \A m \in RgbMessages : NrLevels(m) <= NrLevels(Hello)

\* The handler never programs a compare value of 0, which the 32-bit counter
\* would meet only after wrapping around: the entries it reads while a new
\* schedule is being stored are the ones of an earlier schedule (main.c:122).
CompareNeverZero == cc # 0

\* Where it does program one, it interrupts the serial handler between the
\* stores of index and pulse entry (manchester.c:100 and 102), and the line has
\* more levels than the first frame had: nowhere else does the index leave the
\* entries stored so far.
ZeroOnlyForLongerLine ==
    [][cc # 0 /\ cc' = 0 => /\ call["uart"].pc \in {"setStarted", "setPulse"}
                           /\ NrLevels(call["uart"].msg) > NrLevels(Hello)]_vars

\* Between two frames there are at least NrPulses pulses, also when a new
\* schedule replaces the old one in the middle of a gap or of a frame.
GapLongEnough == [][gap > 0 /\ gap' = 0 => gap >= NrPulses]_vars

\* The handler pauses the messages only when the frame was shown exactly
\* NUMBER_OF_MESSAGES_TO_SEND times since messages were unpaused
\* (manchester.c:125, counted at the start of a frame, tested at its end).
MessageSentNTimes ==
    [][~messages_paused /\ messages_paused' => shown = NumberOfMessages]_vars

\* Frames keep coming, with gaps between them.
KeepsSending == []<>(gap = 0) /\ []<>(gap > 0)

\* A message whose schedule is ready goes over the air as often as it should.
MessagesReachTheAir ==
    \A m \in Messages :
        (call["main"].pc = "publish" /\ call["main"].msg = m)
          ~> (shown = NumberOfMessages /\ air # <<>> /\ ReadOff(air) = FrameBits[m])

\* The control core implements FrameSource: the frame loaded is what the active
\* schedule spells, the bits sent are the ones read off the light, and no
\* interleaving of interrupts, main and the builder shows more or less than
\* whole frames, as often as configured, with a gap before each.
Source ==
    INSTANCE FrameSource WITH
        Frames <- {FrameBits[m] : m \in Messages},
        frame  <- IF messages_paused THEN <<>> ELSE Spell(Schedule),
        sent   <- ReadOff(air),
        pulses <- gap

ImplementsFrameSource == Source!Spec
=============================================================================
