# Verification of DMD_nrf

TLA+ models of the visible-light link in this repository: a Nordic nRF5340 that
modulates light with a DMD (digital micromirror device), and an Arduino Due
that receives it. TLC checks the models on small instances; TLAPS proves the
theorems listed below for every value of the constants.

Paths are relative to the repository; `manchester.c` is `src/manchester.c`,
`main.c` is `src/main.c`, and so on.

## The system

| Component | State | Operations | Interacts with |
|---|---|---|---|
| Frame construction (`manchester.c: construct_frame`, `ook_to_manchester`) | `frame` | build preamble, length, payload and parity in Manchester code | called by main and by the serial handler; calls the Reed-Solomon encoder and `construct_pauses` |
| Schedule (`manchester.c: construct_pauses`, `toggle_dmd`) | `factor_periods`, its length, `current_period_index`, `messages_send_started`, `messages_paused`, the static `count_down_to_next_msg` | turn frame bits into run lengths and publish them; choose the next entry at each timer event | written by threads, consumed by the timer interrupt |
| Interrupt handlers (`main.c: timer_handler`, `spis_handler`; `common.c: toggle_sent_signal`) | timer compare value, `sending_0`, `tx_drc_b_buffer`, `end_of_message` | load the next period; put the other pattern into the SPI buffer | both pending after each compare event, one priority |
| Main thread (`main.c: main`) | `rgb_c`, `dmd_paused` | first frame, start of the timer, wait for a pause, next colour | reads `messages_paused` |
| Button (`main.c: button_pressed`) | none | clears `messages_paused` | interrupt |
| Serial interface (`uarte_controller.c`, USER_INTERFACE builds) | `buffer` | read a line, build its frame, unpause | handler in a cooperative work queue, above main |
| DMD power and trigger wiring (`main.c: turn_on_DMD`, `turn_off_DMD`, `turn_DMD_fully_off`; `dppi_controller.c`) | DPPI channels, enabled peripherals | connect timer, SPI transfer and pin | nrfx |
| Light detection (`lpcomp_controller.c`, `adc_controller.c`) | `dmd_on` | comparator toggles it | never configured in this commit |
| Receiver (`fast_receiver.ino`) | running average, edge times, `decoded`, `length` | find the preamble, decode symbols, check the parity, report | samples the light through DueAdcFast |
| Payload log (`fast_receiver.ino`, builds without DEBUG) | `payloads`, `payloads_head` | append, count errors, report and clear | filled by `loop`, emptied by `read_preamble` |
| Reed-Solomon codec (libcorrect, vendored twice) | field tables, generator, decoder scratch | encode, decode with and without erasures | `construct_frame` encodes; the receiver encodes its reference message |
| DueAdcFast (vendored) | DMA ring, `lastRPR`, `MeasRPR` | enable pins, start, stop, seven readers, interrupt handler | DMA controller; the receiver calls `ReadAnalogPin` |

What is hard about it: the timer interrupt consumes a schedule that threads
rebuild in place, without a lock; the two handlers of an event share
`sending_0`; the polarity of every frame depends on how many toggles happened
before it; the serial handler can re-enter code that main is running; frames
are counted at one end and limited at the other; the end of the parity is not
marked; the receiver does nothing else while it prints. PROJECT.json lists
these hazards at their lines, with the properties that cover them.

What makes each component right:

- *Schedule and handlers*: what the light shows between two gaps is one whole
  frame in the right polarity; gaps are long enough; a frame is sent as often
  as configured; whoever reads the schedule meets one message's; the compare
  value is never 0, or with serial lines only in a known case; frames keep coming.
- *Frame construction*: the start of a frame can be recognised from anywhere
  in the stream; the frame can be read back.
- *Receiver and link*: reading starts only behind a preamble; a whole frame is
  decoded as it was sent; whatever the light does, no bit is written outside
  the buffer and the next search starts clean; a cut frame, a disturbed sample
  or a start in the middle costs a known number of frames.
- *Payload log*: there is room for every message being read, no heap block is
  lost or freed twice, the errors counted are the wrong bits.
- *Codec*: what is sent is a codeword; up to half as many wrong bytes as parity
  bytes are put right; success means a codeword; the locator, delayed or not, stays within the
  coefficients allocated for it.
- *DMA ring*: no measure is returned twice or taken for another channel's, over
  laps, stops and interrupts in between, if no more are asked for than the ring
  holds; a call that waits returns.

## Modules

| Module | Models | Checked by | Proofs |
|---|---|---|---|
| `FrameSource` | what the transmitter promises: whole frames, gaps, so many times | (implemented by `Transmitter`) | |
| `Transmitter` | the schedule, both interrupt handlers, main, button, serial handler | `MCTransmitter` | `TransmitterProofs` |
| `Manchester` | the symbols of a byte, the preamble (extended by the next two) | | |
| `Framing` | a read of the serial line and the contents of a frame | `MCFraming` | `FramingProofs` |
| `Receiver` | preamble search, symbol decoding, main loop of the receiver, under any light | `MCPayloadLog` | `ReceiverProofs` |
| `PayloadLog` | `Receiver` with the log of a build without DEBUG | `MCPayloadLog` | `ReceiverProofs` |
| `Link` | `Receiver` composed with the transmitter's frames and gaps | `MCLink` | `LinkProofs` |
| `GaloisField`, `Polynomial` | field.h and polynomial.c (extended by the next) | | `FieldProofs` |
| `ReedSolomon` | encoder, channel, decoder | `MCReedSolomon` | `ReedSolomonProofs` |
| `DueAdcRing` | the converter's DMA ring, its interrupt handler, its readers | `MCDueAdcRing` | `DueAdcRingProofs` |
| `InductionLemmas` | nothing: induction, sums, joined sequences and division for the proofs | | itself |

Definitions that no specification uses, named like a neighbour but for a suffix
or commented as a deviation, are what the code would be with a plausible mistake in
it; PROJECT.json ("mutants") pairs each with a property it breaks.

### Transmitter

One action per step that another context can observe. `construct_frame` and
`construct_pauses` are split into `Enter` (clear the frame, pause the
messages), `AppendBit`, `StartScan`, `CountBit`, `StorePeriod`, and then one
action per assignment of manchester.c:99-103 (`SetLength`, `SetIndex`,
`SetStarted`, `SetPulse`, `Publish`), because each of those writes a variable
the timer handler reads. `call[c]` is the activation of caller `c`: its program
counter, message, position and the local variables of the scan. Main is the
caller `"main"`, the serial handler `"uart"`; while the latter is inside, main
does not move (`MayRun`), since the work queue it runs in is cooperative and
main is preemptible. Interrupts come between any two steps of either.

`CompareEvent` is the hardware: the timer matches, DPPI starts the SPI
transfer, the DMD shows the pattern in the buffer, both interrupts become
pending. `SpisHandler` and `TimerHandler` are the two handlers, each atomic
(same priority, no preemption of one by the other, no thread runs meanwhile).
The next compare event waits for both: a symbol lasts 0.5 s in the checked-in
configuration and milliseconds in the fastest one, a handler microseconds.
`TimerFirst` says that the timer's handler is served first, as the SPI
transfer has to end before the SPIS interrupt occurs; `tx_default` drops
that assumption.

A period is counted in units of US_BETWEEN_BITS. A message is a constant and
`FrameBits` gives the bits of its frame; the only thing assumed of them is that
the first one is 0, as in the preamble. `level`, `air`, `gap` and `shown` are
history variables: what the light shows, the levels and periods of the last
frame, the pulses since it, and the whole frames since messages were unpaused.
The code does not have them and no guard reads them.

What the constants select: `Infinite` (INFINITE), `UartMessages` (empty without
USER_INTERFACE), `Button`, `LineDuringBuild` (whether a line may arrive while
main builds its first frame), `NumberOfMessages`, `NrPulses`. `Slots` bounds
frame lengths and history, `CounterMod` stands for the 2^32 of
`messages_send_started`.

`Transmitter` implements `FrameSource`, which knows nothing of schedules,
interrupts and threads: a frame is loaded, shown run by run and whole, with at
least `NrPulses` pulses in front of each showing, and unloaded after exactly
`NumberOfMessages` of them. The mapping (`Source`, at the end of `Transmitter`)
takes as the loaded frame what the active schedule spells, and as the bits
shown what a receiver reads off `air`; the steps of the builder are stutters.

### Framing

`construct_frame` as a sequential program over bytes of `ByteBits` bits: what
the caller passes, what the encoder computes, and the loop that appends
Manchester code until the loop bound or the first zero byte behind the message.
`Parities` gives the parities the encoder may compute. In `MCFraming` it is
every parity a Reed-Solomon code could have: all zero for an all-zero message,
otherwise more non-zero bytes in message and parity together than the code has
roots (`ReedSolomon!SentIsCodeword`). The encoder's return values, the block
length or -1, are those of encode.c.

The caller is main (`Call`) or the serial interrupt handler. `ReadFifo` reads
whatever has arrived, possibly nothing; `Strip` takes one line end off; what lies
below the buffer, which the loop reads when nothing is left of the chunk, is a
choice (`UnderBuffer`), at most `Below` times; `CallWithLine` passes the length
on as a `uint8_t`, so that longer reads are cut and a length of -1 sends a row
of zeros. A typed line that a terminal delivers in several reads becomes several
messages.

### Receiver

The code samples the light about once per microsecond and acts at edges. One
step of the model is one symbol period: `See(lit)` is what the receiver makes of
a period of light or darkness, and its disjuncts are the ways through the code:

| Action | Code |
|---|---|
| `SearchOn`, `AnyEdge` | iterations of `read_preamble` without an edge, with one |
| `StartReading` | the edge completes the preamble, the sample behind it agrees with `last_sample`, `fast_samples` goes on to read the length |
| `SearchAgain` | it does not agree, and `read_preamble` calls itself (the 0 periods since the edge never lie between 0.5 and 2.5) |
| `ReadOn`, `ReadMore` | `read_incoming` without an edge, with one |
| `LengthComplete`, `PayloadComplete` | the edge that takes the last read off, and what `fast_samples` does behind it |
| `Printing`, `Loop` | `process_result`, during which nothing is sampled; the resets of `loop` |

Time is kept in ticks, `Ticks` to a PERIOD, and a run of light is measured up to
`Jitter` ticks too long or too short before it is rounded (ino:255) or compared
with 1.5 and 2.5 periods (ino:326, 334). `since` stops growing at `MaxPeriods`;
`Wrap` is the size of the `uint8_t` that holds a run's periods.

The running average is not computed. It is cleared before every search and
fills in PREAMBLE_LENGTH samples, three periods at one sample per microsecond,
so for `Filling` periods (the one it starts in and three more) darkness may still
be taken for light: `blind` counts them down, and an edge seen meanwhile may come
`late` within its period. After that the comparison with the average is taken to
be right. The exception is the one sample behind a preamble (ino:279), which may
be disturbed `MaxGlitches` times.

`decoded` is the sequence of bits registered since it was last reset, so its
length stands for `decoded_head` and `bit_count` together.

### PayloadLog

The build without DEBUG. `loop` copies each message to the heap and logs it;
`reboot_record` counts, frees and empties the log when it is full, on "end" and
after a while without messages, but only from within the preamble search
(`Sampling` may not go on searching while the log is full). What is counted for a
message is `process_result`, a function of its bytes: it is checked in the state
before the message is copied, and the log itself is two numbers, its entries and
the blocks on the heap. `DecodedByte` is what `loop` and `register_bit` make of the
bits; `count_errors` stops at the first zero byte, as the strings of the code do.

### Link

`Link` sends frames, made up as `Framing` makes them, each followed by the pulses
of `toggle_dmd`, symbol by symbol into `See`. `at` is the next symbol. A frame
may lack parity bytes (`sent`), as those do whose parity has a zero byte. `heard`
and `missed` are history: whether the frame on the air is being read, and how
many in a row were not. `Setups` are the frames, gaps, printing times and disturbances
tried together; a behaviour keeps to one. Both sides are assumed to use one period (as checked in,
common.h:26 and ino:25 disagree by a factor of 500: they have to be set
together), and drift is within `Jitter`, measured from edge to edge as the code
does.

### GaloisField, Polynomial, ReedSolomon

The code's tables and functions as TLA+ functions over a field of `Width` bits:
`exp` and `log` with their wrap-around and their entry for 0, polynomials as functions on
0..order. Recursion is in recursive functions, over coefficients. One behaviour of
`ReedSolomon` encodes a message (`encode`), lets a channel add to some bytes and the
caller name erasures (`Damage`), and decodes (`Refuse`, `FindSyndromes`, a round of the
Berlekamp-Massey loop per `NoDiscrepancy`, `LengthenLocator` or `AdjustLocator`,
`factorize_error_locator`, `Correct`). Decoding without erasures is the same with an
`erasure_length` of 0. A row of `element_exp` is one power too short for a
locator of order `min_distance`; what the code then reads behind the row is a choice
(`PossibleRoots`).

### DueAdcRing

The ring's entries are channel tags; the values play no part in which entries a
call takes. `Convert` is the converter and the DMA controller with its pointer and
two counters, `adcHandler` the end-of-buffer interrupt, which hands the DMA the same
ring again. A call is in `call` until it returns, and takes one action per entry it
looks at, so the DMA moves between any two of them. `taken` and `read` are history:
the entries already returned. The constant `OnTime` says whether the interrupt is always
served before the ring runs dry. Late, the DMA stops behind the ring, loses
measures and is restarted at its beginning; only `TypeOK`, `PairsSampledOnce`,
`MeasuresReturnedOnce` and `CallsReturn` are then claimed. Pins may be changed at any
time: nothing in the code prevents it, though the library asks for it to be done while
stopped (its README.md:145). A start on a running converter then counts pins that are not
sampled, and the walks have the wrong stride; `StrideFits` says that it has not happened.
How many measures the sketch asks `getMeasures` for is `NrMeas`, the environment's
choice: up to `Reach` while running, up to `Asked` while stopped, which may be more than
the ring has. `getMeasures` itself checks neither.

## Runs

| Run | Question |
|---|---|
| `tx_default` | The checked-in build (INFINITE) with the button, and the handlers of an event in either order: is every frame on the light whole, do frames keep coming? |
| `tx_finite` | A build without INFINITE: is everything right while main rebuilds the schedule after each `NumberOfMessages` frames, does each message reach the air, and does all this implement `FrameSource`? |
| `tx_uart` | A USER_INTERFACE build: what survives lines, short and long, arriving at any time after the first frame? The schedule is one message's, gaps are long enough, and a compare value of 0 needs a line longer than the first frame. |
| `tx_uart_polarity` | Does a frame still start on the right symbol when lines arrive? It does not (finding). |
| `tx_uart_boot` | Is the schedule one message's when a line arrives while main builds the first frame? It is not (finding). |
| `frame_build` | Is the preamble unique in the frame, what does a frame hold, and what becomes of text typed on the serial line? |
| `frame_parity` | Does it hold the whole parity? Not if the parity has a zero byte (finding). |
| `rx_any` | Under any light, with a log that fills: do types and `uint8_t` hold, do bits stay in the array, does every search start clean, does the log fit, are the errors counted the wrong bits, as far as no zero byte ends the comparison? |
| `link` | Whole frames and printing that fits the gap, with a disturbed sample or none, or cut parities and a receiver switched on at any moment: is every frame read, from its preamble on and as it was sent? All but two per disturbed sample, and one behind a cut frame or to get in step. |
| `rs_codec` | Is what is sent a codeword, is damage within the code's reach undone, is success always a codeword, does the locator stay within its coefficients? |
| `adc_ring` | Over laps of the ring, starts, stops and changes of pins: are measures returned once, fresh and from the right channel? |
| `adc_late` | The pins of a differential pair, and interrupts so late that the DMA stops: is the pair one channel, do pointers stay in the ring, is a measure returned once, do calls return? |

Bounds. Frames of five to seven bits, with three or four levels and runs of one
to three periods: enough for an even and an odd number of levels (which is what
polarity depends on), for an old schedule longer than, as long as and shorter
than the new one, and for an interrupt between any two stores. The serial runs have a line of
five levels besides, more than the first frame's four. `NrPulses = 4`
is the smallest even number that leaves an interior of the gap for both parities;
two frames per message are the smallest number that separates first, middle and
last. `Framing` uses bytes of two bits, two parity bytes and messages of zero to
three bytes, one more than the code encodes: every byte value, zero bytes
inside messages and in each position of the parity occur.

The receiver's runs use bytes of two bits. `rx_any` has `Wrap = 6` and runs of up
to ten periods, so that run lengths wrap around and pass for shorter ones, and
one parity byte; the log has two entries, the wanted message two bytes. `link`
measures to a quarter of a period with an error of
one quarter; with an error of two, `LocksOnPreamble` fails. In its first two setups the
gap is that of the code, six pulses or twelve symbols, and printing takes up to
eight, which is all the gap leaves after the four periods of a climbing average:
with nine, `MissesFew` fails without a disturbed sample. The receiver is switched on early
in a gap in the first, anywhere in the others. In the third
the gap is two pulses, shorter than the parity that may be missing in front of it,
as the code's gap of 12 to 14 symbols is shorter than one parity byte's 16. The
fourth has cut frames, the code's gap and a disturbed sample. The
payloads have no, one and two bytes, end on either symbol and hold every byte
value.

Serial reads are every sequence of up to six bytes over two text bytes and a line end:
longer than a two-bit length can say, empty, of line ends alone, with up to two
line ends below the buffer. `rs_codec` is the code over GF(8): blocks of seven
bytes, four of them parity as on the boards; a full, a short and an over-long message,
up to four damaged bytes and five erasures, so that errors within, at and beyond the
code's reach and too many erasures occur. `adc_ring` has five entries for one or two
channels (no multiple of two, so that the walks' stride and the ring's end do not
agree), one measure stored during a walk (`Lag`), walks over the other four (`Reach`)
and requests for up to all five of a stopped ring (`Asked`);
the library advises against asking for more than half of its 1024 or more
entries while it runs (DueAdcFast.cpp:615). `adc_late` has three entries and two pins that
are two channels or a pair, which is enough for the DMA to stop behind the ring with a
call in progress; it also checks liveness, for which the larger ring has too many states.

Fairness (`Transmitter!Fairness`): the timer keeps matching, both pending
handlers are served, and each thread gets the processor when it can run. The
hardware timer, the interrupt controller and Zephyr's scheduler give exactly
this; there is none on lines, the button or the choice of a colour. In `Link` the
transmitter keeps sending (which `tx_default`'s `KeepsSending` shows of it) and
the receiver's loop goes on once printing is over. In `DueAdcRing` the
converter never rests while started, interrupts are served, and `Proceed` is strongly fair:
a call that polls a pointer or a counter that changes at the converter's pace, one
microsecond, is executed many times meanwhile and sees it changed. Even so
`ReadAnalogPin` is only sure to return with one channel, the receiver's case.

## Proofs

`TransmitterProofs!TypeCorrect` proves `Spec => []TypeOK` for every build: any
messages, both settings of every option, serial lines and button included.
`TypeOK` is not inductive. `TypeInv` adds that activations of
`construct_frame` have stored no more periods than they have read bits, that a
published index is within the length and that the activation's message is one
its caller can have; with two activations interleaved over shared variables this
has to be kept for each of them on its own.

The rest of `TransmitterProofs` is about the thread that builds a schedule, the handlers and the button
around it, under the hypothesis `OneBuilder`: no line arrives while main builds its first
frame (the hypothesis that `tx_uart_boot` shows to be needed), and there is a button only
where pressing it cannot unpause a half-built schedule (the checked-in build, where
messages are never paused once the button works). Lines that arrive later are
included. Its invariant `IInv` adds to the types what each program counter says about pause
flag, index and length (`ThreadInv`); what the schedule holds (`ContentInv`); the pulses
seen so far against the count down (`GapInv`); the frames shown against
`messages_send_started` (`CountInv`); and the levels found so far (`LengthInv`).
`ContentInv` is the one with the most content: while an activation scans a frame, the
periods stored so far spell the bits already read, so that the published ones spell
the frame; while nobody builds, the schedule spells one message. It rests on facts
about `Spell`, a recursive reading of a sequence, which `InductionLemmas` proves by
induction. The theorems:

- `OneMessageAtATime`: `Spec => []ScheduleIsOneMessage`,
- `GapsAreLongEnough`: `Spec => GapLongEnough`,
- `SentAsOftenAsConfigured`: `Spec => MessageSentNTimes`, without serial lines,
- `ZeroOnlyBehindLongLine`: `Spec => ZeroOnlyForLongerLine`, if no colour's frame has more
  levels than the predefined message's (`ColoursHaveNoMoreLevels`),
- `NoZeroCompare`: `Spec => []CompareNeverZero`, if no frame at all has
  (`HelloHasMostLevels`).

The last two hypotheses are about the messages, not about the interleaving: between
`SetIndex` and `SetPulse` the index points behind the new schedule at an entry nobody has
stored for it. It holds an entry of an earlier schedule if one was at least as long, as that of
the first frame is compared with the colour frames: none of main's 381 has more levels, and TLC
evaluates the hypothesis for the instance's colours (`MCColoursHaveNoMoreLevels`). The entry is still 0 if the
new schedule is the longest so far, which a typed line's can be. A compare event in that window
then does program 0, which the timer's 32-bit counter meets only after wrapping around, 71
minutes later at 1 MHz: `CompareNeverZero` fails with the lines of `tx_uart`, and
`ZeroOnlyForLongerLine` says that this window and such a line are the only way
(`EntryInv`: whatever the index can reach has been stored, but for it).

The last part of `TransmitterProofs` is what is seen of it, in builds without serial lines
(`MainBuilds`) and, where the polarity matters, with the timer's handler first
(`MainOnly`). `FrameInv` says what was shown of a frame: the light reads as the runs up to
the index, or as these with every level inverted. `SettledInv` says where buffer, level
and pending interrupts agree: from the first frame on, though not before the first SPIS
interrupt, when the buffer holds pattern 0 and `sending_0` stands for pattern 1. `LightInv` relates `sending_0`, the pending interrupts and the
parity of the count down or of the index. The theorems:

- `FramesWhole`: `Spec => []FramesWholeInEitherPolarity`, whichever handler is first,
- `StartsOnRightSymbol`: `Spec => []FrameStartsOnRightSymbol`,
- `FramesSpell`: `Spec => []FramesSpellMessages`,
- `ImplementsSource`: `Spec => ImplementsFrameSource`, for builds with and without INFINITE.

The refinement is proved handler by handler: a level of a frame is a `Start` or a
`Continue` of `FrameSource` (`SourceRun`), a pulse a `Pulse`, main's publication a load,
the pause an unload, and everything else a stutter. `FrameSource` counts the
showings of a frame only until there is one too many, as the mapped counter does not go
on either. `MainOnly` is needed: `tx_uart_polarity` shows the right symbol lost with serial lines.

`FramingProofs` holds for every byte width, message, parity and line:

- `SelfDelimiting` (`OnlyPreambleHasRunsOfThree`): only the preamble holds runs of
  three, from the invariant that a frame is the preamble followed by pairs of
  different bits.
- `ReadsBack` (`FrameReadsBack`) and `HoldsTypedText` (`FrameHoldsTypedText`), from
  `ContentInv`: `BytesInv` says that the frame so far is the code of the bytes
  put in so far, `LineInv` that the message is a line's text up to its end. That a byte
  can be had back from its pairs is a sum over its bits (`Powers`, the lemmas on
  halves), and that pieces of equal length can be found again in what they were
  joined to is `FlattenUniform` of `InductionLemmas`. The parity enters only as bytes of the
  right number, for every message a length byte can tell.

`PowersAssumption` (`Manchester`) is there because the provers know nothing of powers: TLC
evaluates it with each run's byte width.

`ReceiverProofs` is about `ReceiverSpec`, any light at all, for all widths, periods
and jitters: `TypeCorrect` (`ReceiverTypeOK`, in which the wrapped run lengths are
the part with content), `BitsStayInside` (`DecodedFits`) and `SearchesStartClean`
(`SearchStartsClean`). `DecodedFits` is not inductive. Its strengthening,
`BudgetInv`, is a budget: twice the bits registered, plus the reads left, plus one
while the current run began in the middle of a bit. A run of one symbol takes one
read and either registers a bit at the end of a bit or moves into the middle of
one; a run of two takes two reads and registers one bit; a longer one takes three
and registers none. So the budget never grows (`RunKeepsBudget`), and the edge
behind the last read adds at most one bit. For the sizes in the code a message
stays within 259 bytes and one bit of an array of 1000.

Of the log it shows that `LogFits` is inductive as it stands
(`LogNeverOverflows`), and that a step of the receiver with its log is a step or a
stutter of the receiver (`LogIsReceiver`), so that what holds of the receiver holds
with its log: `LoggedBitsStayInside` is one such theorem. `CountsTheWrongBits`
(`CountsWrongBits`) compares two ways to count: `process_result` adds the bits of
the differences byte by byte, the property takes all differing bits as one set, which is a
disjoint union over the bytes (`DisjointUnion`, and `SumFunctionOnSet` of
`InductionLemmas` for the sum). `WantedAssumption` is needed: `count_errors` looks at as many
bytes of the parity as the wanted message has, 12 in the code, of 4.

`LinkProofs` puts the receiver in front of the transmitter: any frames, whole or cut,
any even number of pulses, any printing times, switched on anywhere. Its theorems
assume `ClearRuns`: a run is measured to less than half a symbol, as with an error of
two quarters `LocksOnPreamble` fails in TLC, and `MaxPeriods`, the model's bound on
runs, does not reach into a preamble's. The `link` run's constants meet it.

- `LocksOnlyOnPreamble` (`LocksOnPreamble`). `StreamShape` says what is on the air: behind
  the preamble pairs of different symbols, in the gap runs of two, and the last run of the
  gap is light. So three dark symbols and a lit one are the end of a preamble
  (`ThreeDark`). `SearchInv` relates the search to the light: when the last edge was a
  falling one, the time since is no longer than the darkness in front of the current
  position.
- `ReadsFramesAsSent` (`ReadsWhatWasSent`). `Span` relates the decoder to the position in
  the frame: the current run has one symbol, or two if it ends in the middle of a pair, `uneven` says
  whether it began in the middle of one, the reads left are those to the end of the part being read,
  and the bits registered are the second symbols of the pairs passed. An edge
  keeps it (`SpanEdge`), and so does a symbol without one (`SpanGrows`). The length is
  complete at the first or the second symbol of its last pair, and the payload is counted from
  there: `ReadInv` says `Span` with the end of the frame or one symbol before it.
  `BitsAreSent` turns the second symbols into the bytes sent.
- `MissesOnlyDisturbed` (`MissesFew`, for links that meet `FitsGap`: frames are whole, and
  printing leaves the threshold its four periods in the gap). `OnTime` accounts for every
  symbol from the end of one message to the next preamble: reading ends with the frame,
  printing and the climbing threshold before the gap does, and with the preamble the search
  is in `Rhythm`, which fixes `last_state`, `since` and the last run at each of its eight symbols,
  so that at the eighth the pattern is complete. There the receiver reads on or pays: `Paid`
  charges a frame that is lost, and one more that will be when `last_sample` is set, to the
  disturbed samples. A receiver switched on anywhere may not be in step before the
  second preamble it meets (`Fresh`), and misses one frame more at most (`Slack`). The
  assumption is needed: a receiver that prints for as long as a frame and its gap, or reads
  a missing parity out of the following frames, misses more; what the `link` run shows of
  such links holds for their numbers.

`ReedSolomonProofs!LocatorBounds` proves `LocatorFits` for every field, every number
of roots and every list of syndromes. The invariant behind it relates the two locators
by the number of taps: the current order is at most the taps, these at most the rounds
done, and the last locator's order plus its delay at most the taps that would follow,
`i + 1 - numerrors`. `ErrorsLieInBlock` proves `LocationsInBlock`: the locator keeps its
constant term 1, so that no root is 0; the powers of the generating element go round
all elements, which takes a counting argument (as many places as elements); so the search for a
root's place, which would return 0 or run off the block otherwise, always ends inside.

`FieldProofs` shows that the tables of field.h are those of a field, from the code that
fills them: `field_add` is exclusive or bit by bit (`AddBits`), so it is a group's
addition; multiplication by alpha moves the bits up and adds the polynomial on overflow,
so it distributes (`DoubledAdd`); every element but 0 is a power of alpha, so
multiplication does too, and commutes and associates (`MulDistributes`, `MulCommutes`,
`MulAssociates`), and division undoes it (`MulDivided`). On this stand what sums do when
they are added, scaled or delayed (`SumToAdd`, `SumToScale`, `SumToDelayed`); that the
evaluations by logarithms compute the value (`EvalIsValue`); that long division leaves the
values at the divisor's roots alone (`ModKeepsValues`); and that the polynomial made from
roots has them (`CreatedHasRoots`).

- `SendsCodewords` (`SentIsCodeword`): the message on its place and the remainder have the
  same value at every root of the generator, and their sum is what is sent.
- `LocatorDescribes` (`LocatorDescribesSyndromes`), from `SumsInv`: the locator makes 0 of
  all syndromes read, and the last locator of those before the round that put it aside, and
  of the one read then the last discrepancy. So the last locator, delayed by the rounds
  since and scaled, cancels the discrepancy and nothing before it (`FeedbackCorrected`). `TapsInv`
  adds that the order, the taps, and the last order with its delay fit together.
- `SuccessMeansCodeword` (`SuccessIsCodeword`), from `DecodedInv`: at `pc = "correct"` the roots
  are as many different roots of the locator as its order (`Located`; `FactorizeLocates` has this
  from the register's description). A polynomial with that many roots divides by each
  (`DividedExists`), its derivative at a root is the quotient there (`DerivativeIsQuotient`), and a
  combination of powers of the roots' reciprocals that meets the register's first terms is the
  register's (`FeedbackDetermines`); so Forney's values are the weights whose powers make the
  syndromes (`Forney`). A root's place is that power's (`PlaceOfRoot`), and adding the values at
  their places cancels each syndrome (`ContributionsCancel`). That a polynomial has no more roots
  than its order (`RootCount`) excludes a locator whose leading coefficients vanish.

- `RecoversWithinReach` (`RecoversMessage`), from `ReachInv`: what was sent is the message with
  its parity, and what the decoder holds are its syndromes. These are sums of powers, one power
  for each byte that is wrong or erased, weighed with what is wrong there (`SyndromesSpan`); the
  erasure locator is a register that filters out the erased ones and no other (`ErrorsSpan`).
  `ReachInv` says that within reach the taps never outnumber the errors left: a polynomial with
  the errors as roots describes the syndromes, and two registers of which one fails at `i` have
  together more than `i` taps (`LengthBound`; `TapsWithin`). At the end the register has described
  twice as many sums as there are errors, and since different powers are independent
  (`Independent`) every error is a root of it (`DescribesRoots`), and it has no others
  (`RegisterComplete`). So the search hands over all places (`SearchPlaces`: `FoundAll`, which
  also shows that no row of `element_exp` is read behind its end), the whole locator has
  their roots (`WholeSplits`), Forney's values are what is wrong (`ValuesAreWrong`), and adding
  them gives back what was sent (`CorrectRestores`). If the syndromes are all 0, nothing is
  wrong (`NothingWrong`).

`FieldAssumption` says that alpha generates the field, and what powers of two are, of which the
provers know nothing; `GapAssumption` that every element has a place with the code's root
gap. TLC evaluates both for GF(8).

`DueAdcRingProofs` covers the sampling ring for any pins, any ring that holds a walk and the
measures stored meanwhile (`RingAssumption`), any laps, starts and stops:

- `OneChannelPerPair` (`PairsSampledOnce`), from `PinInv`, which says what every start leaves of
  the enabled pins and how many it counts, from the fact that no two pins have one channel, and
  from a bijection between pins and channels.
- `RingTypes` (`TypeOK`). The DMA's pointer keeps its range because pointer and counter
  together cover the ring (`DmaInv`), and a call's position because the call is in one of
  its own program points (`CallInv`); this is `RInv`, which the others build on.
- `ReturnedOnce` (`MeasuresReturnedOnce`), for requests of at most the ring's size
  (`Asked <= BufSiz`), from `TakenInv`: no measure taken lies between the
  pointer of the last call and the DMA's, and during a call the walk stays ahead of the
  converter and has between itself and the last pointer no entry it took before.
- `FreshReads` (`ReadsAreFresh`), from `ReadInv`: what was read is not among the entries
  stored since the pointer remembered.
- `MeasuresPromised` (`IsMeasuresAgrees`), from `FilledInv`: once an entry is filled
  it stays so until the next start, and the entries in front of the pointer are filled
  from the start of the ring on.
- `WalksMeetTheirPin` (`MissesOnlyUnfilled`), from `RingInv` and `WalkInv`: two measures
  as many places apart as channels are sampled are of the same channel and fewer apart of
  different ones, over the end of the ring, too (`RoundRobin`), and a walk with that stride
  (`StrideFits`) has passed one round at most.

The last three speak of the converter with the end-of-buffer interrupt in time, as their
properties do (`OnTime`). All the invariants were checked by TLC, for two and three channels, before they were
proved.

Induction. The library's induction theorems take a predicate as a parameter, which the
provers here cannot instantiate. `InductionLemmas` states induction for sets of numbers
(`SetInduction`), from the well-foundedness of the numbers, and with it what `FlattenSeq`
is for a sequence with one more element (`FlattenAppend`) and for pieces of one length
(`FlattenUniform`), what a sum over a set is with one more member, and quotients.
The readings of schedules and of light in `Transmitter` are built from `FlattenSeq`, so that
they can be reasoned about for frames of any length.

Only model-checked: `MissesFew` for links with cut frames or printing beyond the gap, whose
bound depends on their numbers, and all liveness (fairness and ENABLED are beyond the
prover).

## Findings

PROJECT.json has each with its lines: a stale count down inverts frames after a
serial line (`tx_uart_polarity`); a line during start-up mixes two schedules
(`tx_uart_boot`); a parity with a zero byte is cut off (`frame_parity`).

The models show more that no run is about:

- A line with more levels than every frame before it leaves the index at an entry that is
  still 0 between manchester.c:100 and 102, and a compare event there programs 0 (see
  `ZeroOnlyBehindLongLine`).
- The button sends the predefined message for the predefined number of times, README.md:6
  says. `rgb_case` is initialised to true and never cleared (manchester.c:10), so that without
  INFINITE main's loop has built colours by the time the button is pressed (main.c:318-337),
  and it unpauses these; pressed while main builds one, it makes a half-built schedule active.
- `count_errors` "Counts the bit differences in two char*" (fast_receiver.ino:490), but ends at
  the first zero byte of either; the differences behind it are not counted.
- `getMeasures` returns "zero if there are no new measures to return" (README.md:179 of
  DueAdcFast), but also if the DMA has made exactly one lap since the last call and the whole
  ring is new.
- `getMeasures` "puo essere minore di nrMeas se non disponibili" (returns fewer if there are no
  more, DueAdcFast.cpp:608), but asked for more than a full ring holds before any were returned, it
  goes round again and returns the newest measures twice.

## Not modelled

The serial start-up handshake;
`construct_frame`'s parsing of `#` lines (guarded by `!rgb_case`, which is never
true); the pin configuration of the power-up sequence; `turn_off_DMD` and
`turn_DMD_fully_off`, which nothing calls (both hand `disable_dppi` a channel that
it frees as a bit mask, dppi_controller.c:23); nrfx wrappers that only
pass arguments; the values of the colours main walks through; the report the
receiver prints when no message came for five
seconds in a DEBUG build, the statistics it prints and stores in flash from the counted
errors; noise other than on the sample behind a preamble in `Link`; light
detection, which nothing enables; of libcorrect, allocation and the debugging
interface, and the receiver's copy, which differs from the transmitter's in include
paths; of DueAdcFast, gains, clock settings, the values of measures, the saving of
registers for the original `analogRead`, and the examples; logging.

Three disagreements between libcorrect and its own words are noted here rather than
run, since nothing on the boards depends on them: the encoder returns the block length,
not the bytes written (encode.c:33, correct.h:215); rows of `element_exp` are one entry
short (decode.c:291 and 131-133); an erasure may coincide with a root of the error
locator (decode.c:141-145).

## Plan

Done: all modules above, in the order `Transmitter`, `Framing`, `Receiver`, `Link`,
`ReedSolomon`, `DueAdcRing`, `FrameSource`, `PayloadLog`, and their proofs.
