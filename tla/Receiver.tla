------------------------------ MODULE Receiver ------------------------------
(***************************************************************************)
(* The receiver (fast_receiver.ino): read_preamble, read_incoming,         *)
(* fast_samples and loop.  One step is one symbol period of light; within  *)
(* it the loops of the code sample many times and act at most at one edge. *)
(* Time is kept in ticks, a fraction of PERIOD, so that a run of light can *)
(* be measured too long or too short.                                      *)
(*                                                                         *)
(* After every restart of the running average the threshold climbs from    *)
(* zero: darkness looks like light until some moment within Filling        *)
(* periods.  The comparison with the full average is taken to be right,    *)
(* but for the one sample behind a preamble, which may be disturbed.       *)
(***************************************************************************)
EXTENDS Manchester

CONSTANTS
    BYTES_RS,    \* parity bytes of a frame, 4 in the code
    Wrap,        \* values of a uint8_t, 256 in the code
    Ticks,       \* ticks in a PERIOD
    Jitter,      \* error in the length of a run, in ticks
    MaxPeriods,  \* bound: periods without an edge told apart
    BusyMax,     \* bound: periods process_result takes
    MaxGlitches  \* bound: disturbed samples

ASSUME ReceiverAssumption ==
    /\ BYTES_RS \in Nat \ {0}
    /\ Wrap \in Nat /\ Wrap > 3
    /\ Ticks \in Nat \ {0}
    /\ Jitter \in Nat
    /\ MaxPeriods \in Nat \ {0}
    /\ BusyMax \in Nat
    /\ MaxGlitches \in Nat

VARIABLES
    mode,            \* which loop samples the light, or "print"
    blind,           \* periods darkness may still go unnoticed
    last_state,      \* whether the last sample of the search was dark
    pattern_detect,  \* the last two runs, in periods
    last_sample,     \* the comparison made behind the last preamble
    since,           \* ticks since last_time, the last edge
    is_high,         \* the level whose end read_incoming waits for
    uneven,          \* the current run began in the middle of a bit
    incoming_reads,  \* symbols still to read
    decoded,         \* the bits registered
    length,
    busy,            \* periods process_result will still take
    glitches         \* history: samples disturbed so far

decoder == <<is_high, uneven, incoming_reads, decoded, length>>
search  == <<blind, last_state, pattern_detect, last_sample, glitches>>
receiver == <<mode, since, busy, search, decoder>>

PREAMBLE_PATTERN == <<3, 3>>           \* the inner runs of 0 111 000 1
MANCHESTER_BITS_LENGTH == 2 * ByteBits
Filling == 4                           \* PREAMBLE_LENGTH, and the period it starts in

ReceiverInit ==
    /\ mode = "preamble"
    /\ blind = Filling
    /\ last_state = FALSE
    /\ pattern_detect = <<0, 0>>
    /\ last_sample = FALSE
    /\ since = 0
    /\ is_high = TRUE
    /\ uneven = TRUE
    /\ incoming_reads = 0
    /\ decoded = <<>>
    /\ length = 0
    /\ busy = 0
    /\ glitches = 0

-----------------------------------------------------------------------------
(* What is made of a run of light or darkness.  (Definitions named like one  *)
(* after them but for a suffix are deviations used to show that the          *)
(* properties can fail; no action uses them.)                                *)

NrPeriodsRoundedUp(took) == ((took + Ticks - 1) \div Ticks) % Wrap

NrPeriodsUnlimited(took) == (2 * took + Ticks) \div (2 * Ticks)

NrPeriods(took) == ((2 * took + Ticks) \div (2 * Ticks)) % Wrap

OneSymbol(took)  == 2 * took < 3 * Ticks
TwoSymbols(took) == 3 * Ticks <= 2 * took /\ 2 * took < 5 * Ticks

Measured(t) == {took \in (t - Jitter)..(t + Jitter) : took > 0}

Longer == IF since + Ticks > MaxPeriods * Ticks THEN since ELSE since + Ticks

\* The byte whose bits were registered; missing bits are zero.
IsByteOf(byte, bits) ==
    \A j \in 1..ByteBits :
        SetBit(byte, ByteBits - j) <=> (j <= Len(bits) /\ bits[j])

-----------------------------------------------------------------------------
(* read_preamble *)

SearchOn(lit) ==
    /\ mode = "preamble"
    /\ blind > 0 \/ lit = ~last_state
    /\ blind' = IF blind > 0 THEN blind - 1 ELSE 0
    /\ since' = Longer
    /\ UNCHANGED <<mode, busy, last_state, pattern_detect, last_sample, glitches,
                   decoder>>

\* An edge, late when the threshold has only just come up.
SearchEdge(lit, late) ==
    /\ mode = "preamble"
    /\ lit = last_state
    /\ late > 0 => blind > 0
    /\ last_state' = ~lit
    /\ since' = Ticks - late

NotePeriods(took) ==
    pattern_detect' = <<pattern_detect[2], NrPeriods(took)>>

AnyEdge(lit, late) ==
    /\ SearchEdge(lit, late)
    /\ \E took \in Measured(since + late) : NotePeriods(took)
    /\ ~(lit /\ pattern_detect' = PREAMBLE_PATTERN)
    /\ blind' = 0
    /\ UNCHANGED <<mode, busy, last_sample, glitches, decoder>>

\* The preamble is complete.  One more sample is compared with what the same
\* sample behind the preamble before it was; if they differ, the search starts again.
Found(lit, late, took, dark) ==
    /\ SearchEdge(lit, late)
    /\ NotePeriods(took)
    /\ lit /\ pattern_detect' = PREAMBLE_PATTERN
    /\ glitches' = IF dark THEN glitches + 1 ELSE glitches
    /\ glitches' <= MaxGlitches

StartReadingOneFewer(lit, late) ==
    \E took \in Measured(since + late), dark \in BOOLEAN :
        /\ Found(lit, late, took, dark)
        /\ dark = last_sample
        /\ mode' = "length"
        /\ blind' = 0
        /\ uneven' = ~TwoSymbols(took)
        /\ incoming_reads' = MANCHESTER_BITS_LENGTH - 2
        /\ UNCHANGED <<busy, last_sample, is_high, decoded, length>>

StartReading(lit, late) ==
    \E took \in Measured(since + late), dark \in BOOLEAN :
        /\ Found(lit, late, took, dark)
        /\ dark = last_sample
        /\ mode' = "length"
        /\ blind' = 0
        /\ uneven' = ~TwoSymbols(took)
        /\ incoming_reads' = MANCHESTER_BITS_LENGTH - 1
        /\ UNCHANGED <<busy, last_sample, is_high, decoded, length>>

SearchAgainSticks(lit, late) ==
    \E took \in Measured(since + late), dark \in BOOLEAN :
        /\ Found(lit, late, took, dark)
        /\ dark # last_sample
        /\ last_sample' = TRUE
        /\ blind' = Filling
        /\ UNCHANGED <<mode, busy, decoder>>

SearchAgain(lit, late) ==
    \E took \in Measured(since + late), dark \in BOOLEAN :
        /\ Found(lit, late, took, dark)
        /\ dark # last_sample
        /\ last_sample' = dark
        /\ blind' = Filling
        /\ UNCHANGED <<mode, busy, decoder>>

-----------------------------------------------------------------------------
(* read_incoming *)

ReadOn(lit) ==
    /\ mode \in {"length", "payload"}
    /\ lit = is_high
    /\ since' = Longer
    /\ UNCHANGED <<mode, busy, search, decoder>>

\* What a run of this length adds to decoded and takes off the reads.
RegisteredAlways(took) ==
    CASE OneSymbol(took)  -> Append(decoded, is_high)
      [] TwoSymbols(took) -> Append(decoded, ~is_high)
      [] OTHER            -> decoded

Registered(took) ==
    CASE OneSymbol(took)  -> IF uneven THEN Append(decoded, is_high) ELSE decoded
      [] TwoSymbols(took) -> Append(decoded, ~is_high)
      [] OTHER            -> decoded

ReadsLeft(took) ==
    CASE OneSymbol(took)  -> incoming_reads - 1
      [] TwoSymbols(took) -> incoming_reads - 2
      [] OTHER            -> incoming_reads - 3

ReadEdge(lit, took) ==
    /\ mode \in {"length", "payload"}
    /\ lit # is_high
    /\ is_high' = ~is_high
    /\ uneven' = IF OneSymbol(took) THEN ~uneven ELSE uneven
    /\ since' = Ticks

ReadMore(lit) ==
    \E took \in Measured(since) :
        /\ ReadEdge(lit, took)
        /\ ReadsLeft(took) > 0
        /\ incoming_reads' = ReadsLeft(took)
        /\ decoded' = Registered(took)
        /\ UNCHANGED <<mode, busy, search, length>>

\* The first byte is the length; the payload goes to the start of decoded.
LengthComplete(lit) ==
    \E took \in Measured(since) :
        /\ ReadEdge(lit, took)
        /\ mode = "length"
        /\ ReadsLeft(took) <= 0
        /\ length' \in {byte \in Byte : IsByteOf(byte, Registered(took))}
        /\ decoded' = <<>>
        /\ incoming_reads' = (length' + BYTES_RS) * 2 * ByteBits
        /\ mode' = "payload"
        /\ UNCHANGED <<busy, search>>

PayloadComplete(lit) ==
    \E took \in Measured(since) :
        /\ ReadEdge(lit, took)
        /\ mode = "payload"
        /\ ReadsLeft(took) <= 0
        /\ decoded' = Registered(took)
        /\ incoming_reads' = ReadsLeft(took)
        /\ busy' \in 0..BusyMax
        /\ mode' = "print"
        /\ UNCHANGED <<search, length>>

-----------------------------------------------------------------------------
(* loop: nobody looks at the light while the result is printed. *)

Printing ==
    /\ mode = "print"
    /\ busy > 0
    /\ busy' = busy - 1
    /\ since' = Longer
    /\ UNCHANGED <<mode, search, decoder>>

LoopKeepsLevel ==
    /\ mode = "print"
    /\ busy = 0
    /\ mode' = "preamble"
    /\ blind' = Filling
    /\ length' = 0
    /\ decoded' = <<>>
    /\ UNCHANGED <<since, busy, last_state, pattern_detect, last_sample, glitches,
                   is_high, uneven, incoming_reads>>

Loop ==
    /\ mode = "print"
    /\ busy = 0
    /\ mode' = "preamble"
    /\ blind' = Filling
    /\ length' = 0
    /\ decoded' = <<>>
    /\ is_high' = TRUE
    /\ UNCHANGED <<since, busy, last_state, pattern_detect, last_sample, glitches,
                   uneven, incoming_reads>>

\* A symbol of light, or of darkness.
See(lit) ==
    \/ SearchOn(lit)
    \/ \E late \in 0..(Ticks - 1) :
         \/ AnyEdge(lit, late)
         \/ StartReading(lit, late)
         \/ SearchAgain(lit, late)
    \/ ReadOn(lit)
    \/ ReadMore(lit)
    \/ LengthComplete(lit)
    \/ PayloadComplete(lit)
    \/ Printing

ReceiverNext == Loop \/ \E lit \in BOOLEAN : See(lit)

ReceiverSpec == ReceiverInit /\ [][ReceiverNext]_receiver

-----------------------------------------------------------------------------
ReceiverTypeOK ==
    /\ mode \in {"preamble", "length", "payload", "print"}
    /\ blind \in 0..Filling
    /\ last_state \in BOOLEAN
    /\ pattern_detect \in (0..(Wrap - 1)) \X (0..(Wrap - 1))
    /\ last_sample \in BOOLEAN
    /\ since \in 0..(MaxPeriods * Ticks)
    /\ is_high \in BOOLEAN
    /\ uneven \in BOOLEAN
    /\ incoming_reads \in Int
    /\ decoded \in Seq(BOOLEAN)
    /\ length \in Byte
    /\ busy \in 0..BusyMax
    /\ glitches \in 0..MaxGlitches

\* However the light behaves, the length has no more bits than a byte, and a
\* message at most one bit more than the bytes waited for: decoded_head stays
\* far inside decoded (register_bit checks no bound).
DecodedFits ==
    /\ mode = "length" => Len(decoded) <= ByteBits
    /\ mode \in {"payload", "print"} => Len(decoded) <= (length + BYTES_RS) * ByteBits + 1

\* Whatever a message did to the decoder, the next search starts as the first
\* one did: expecting the end of the preamble's last symbol, with nothing left
\* of the message before (the resets spread over fast_samples and loop).
SearchStartsClean ==
    mode = "preamble" =>
        /\ is_high
        /\ decoded = <<>> /\ length = 0
        /\ blind > 0 => ~last_state
=============================================================================
