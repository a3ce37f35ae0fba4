-------------------------------- MODULE Link --------------------------------
(***************************************************************************)
(* Transmitter and receiver joined by light.  The transmitter sends frames *)
(* (manchester.c: construct_frame) with gaps of pulses between them        *)
(* (toggle_dmd), symbol by symbol; the receiver of module Receiver sees    *)
(* each symbol unless it is printing.  Both run at the same PERIOD up to   *)
(* the receiver's Jitter.                                                  *)
(***************************************************************************)
EXTENDS Receiver, SequencesExt

CONSTANTS
    Setups,     \* the links considered, each a record of
                \*   frames: [payload, parity, sent], sent parity bytes being in the frame
                \*   pulses: NR_PULSES_BETWEEN_CONSECUTIVE_MESSAGES
                \*   anywhere: the receiver is switched on at any moment, not early in a gap
                \*   busy, glitches: bounds within BusyMax and MaxGlitches
    MissedMax   \* bound on the history missed

ASSUME LinkAssumption ==
    /\ MissedMax \in Nat
    /\ \A u \in Setups :
         /\ u.pulses \in Nat \ {0} /\ u.pulses % 2 = 0
         /\ u.anywhere \in BOOLEAN
         /\ u.busy \in 0..BusyMax /\ u.glitches \in 0..MaxGlitches
         /\ \A f \in u.frames :
              /\ f.payload \in Seq(Byte) /\ Len(f.payload) \in Byte
              /\ f.parity \in [1..BYTES_RS -> Byte]
              /\ f.sent \in 0..BYTES_RS

VARIABLES
    setup,    \* the link, chosen once
    sending,  \* the frame on the air, or in front of the gap that is
    at,       \* position of the next symbol in the frame and its gap
    heard,    \* history: the receiver reads or has read this frame
    missed    \* history: frames in a row that the receiver did not read

linkVars == <<receiver, setup, sending, at, heard, missed>>

Bytes(f) == <<Len(f.payload)>> \o f.payload \o SubSeq(f.parity, 1, f.sent)

FrameSymbols(f) ==
    Preamble \o FlattenSeq([b \in DOMAIN Bytes(f) |-> ook_to_manchester(Bytes(f)[b])])

\* Pulses of two periods each, one more when the frame ends on a 0, so that the
\* last of them is a 1 and the next frame starts with an edge.
Pulses(f) == setup.pulses + 1 - Last(FrameSymbols(f))

GapShortOfPulse(f) == [k \in 1..(2 * Pulses(f) - 2) |->
                         (Last(FrameSymbols(f)) + (k + 1) \div 2) % 2]

GapSymbols(f) == [k \in 1..(2 * Pulses(f)) |->
                    (Last(FrameSymbols(f)) + (k + 1) \div 2) % 2]

Stream(f) == FrameSymbols(f) \o GapSymbols(f)

Init ==
    /\ ReceiverInit
    /\ setup \in Setups
    /\ sending \in setup.frames
    /\ at \in IF setup.anywhere THEN DOMAIN Stream(sending)
                                ELSE {Len(FrameSymbols(sending)) + 1}
    /\ heard = TRUE           \* of what is on the air now nothing is expected
    /\ missed = 0

Locks == mode = "preamble" /\ mode' = "length"

Light ==
    /\ See(Stream(sending)[at] = 1)
    /\ busy' <= setup.busy /\ glitches' <= setup.glitches
    /\ UNCHANGED setup

Symbol ==
    /\ Light
    /\ at < Len(Stream(sending))
    /\ at' = at + 1
    /\ heard' = (heard \/ Locks)
    /\ UNCHANGED <<sending, missed>>

LastSymbol ==
    /\ Light
    /\ at = Len(Stream(sending))
    /\ at' = 1
    /\ sending' \in setup.frames
    /\ heard' = FALSE
    /\ missed' = IF heard \/ Locks THEN 0
                 ELSE IF missed = MissedMax THEN missed ELSE missed + 1

Send == Symbol \/ LastSymbol

Receive == Loop /\ UNCHANGED <<setup, sending, at, heard, missed>>

Next == Send \/ Receive

\* The transmitter keeps sending, and printing comes to an end.
Spec == Init /\ [][Next]_linkVars /\ WF_linkVars(Send) /\ WF_linkVars(Receive)

-----------------------------------------------------------------------------
Bits(byte) == [j \in 1..ByteBits |-> SetBit(byte, ByteBits - j)]

Whole(f) == f.sent = BYTES_RS

\* The receiver starts to read only at the last symbol of a preamble, wherever it
\* was switched on and whatever it read or missed before (read_preamble's pattern
\* against the runs of frames and gaps).
LocksOnPreamble == [][Locks => at = Len(Preamble)]_linkVars

\* A whole frame is read as it was sent, and read to its last bit but not beyond
\* the frame, although the reads are counted from the middle of a bit
\* (fast_samples: 15 symbols, then 16 for each byte, and uneven in between).
Completes == mode = "payload" /\ mode' = "print"

ReadsWhatWasSent ==
    [][Completes /\ Whole(sending) /\ heard =>
         /\ length' = Len(sending.payload)
         /\ decoded' = FlattenSeq([b \in 1..(Len(sending.payload) + BYTES_RS) |->
                                     Bits((sending.payload \o sending.parity)[b])])
         /\ at \in (Len(FrameSymbols(sending)) - 1)..Len(FrameSymbols(sending))]_linkVars

\* When frames are whole and printing fits the gap with the periods the threshold
\* needs, no frame is missed but for a disturbed sample behind a preamble, and that
\* costs its frame and the next, since last_sample is compared before it is brought
\* up to date (common.h:28, fast_receiver.ino:280, 383).  Otherwise, however long
\* the receiver reads on behind a cut parity and wherever it is switched on, it
\* misses one frame more at most (manchester.c:62, fast_receiver.ino:365).
Undisturbed ==
    /\ \A f \in setup.frames : Whole(f)
    /\ setup.busy + Filling <= 2 * setup.pulses
    /\ ~setup.anywhere

MissesFew == missed <= 2 * glitches + (IF Undisturbed THEN 0 ELSE 1)

\* Messages keep coming out of the receiver.
KeepsReceiving == []<>(mode = "print")
=============================================================================
