------------------------------ MODULE Framing ------------------------------
(***************************************************************************)
(* What construct_frame (manchester.c) puts into a frame: preamble, length *)
(* and the bytes of message and parity in Manchester code.  The message is *)
(* the program's own or what a read of the serial line brought             *)
(* (uarte_controller.c), without the line ends behind it.  The parity that *)
(* correct_reed_solomon_encode leaves behind the message is a parameter.   *)
(***************************************************************************)
EXTENDS Manchester, FiniteSetsExt, Functions, SequencesExt

CONSTANTS
    ParityBytes,  \* roots of the Reed-Solomon code, 4 in the code
    MaxPayload,   \* longest message the code encodes, 251 in the code
    BlockLength,  \* what the encoder returns, 255 in the code
    Payloads,     \* bound: the messages handed to construct_frame
    Parities(_),  \* what the encoder may compute for a message
    LineEnds,     \* the bytes '\n' and '\r'
    Chunks,       \* bound: what one read of the serial line may bring
    Below         \* bound: line ends in the memory below the serial buffer

\* Constants as the code has them, or smaller.
ASSUME FramingAssumption ==
    /\ ParityBytes \in Nat
    /\ MaxPayload \in Byte
    /\ BlockLength \in Nat /\ BlockLength >= ParityBytes
    /\ Payloads \subseteq Seq(Byte)
    /\ \A m \in Payloads : Len(m) \in Byte        \* len is a uint8_t
    /\ \A n \in Byte : \A m \in [1..n -> Byte] : Parities(m) \subseteq [1..ParityBytes -> Byte]
    /\ LineEnds \subseteq Byte
    /\ Chunks \subseteq Seq(Byte)
    /\ Below \in Nat

VARIABLES
    pc,
    buffer,      \* the chunk read from the serial line; zero from rx_len on
    rx_len,
    msg,         \* the message and its length, the arguments
    parity,      \* what the encoder computes for it
    message_RS,  \* zeros, but for the message and its parity
    rs_bytes,
    i,           \* loop counter
    frame        \* the bits written so far

vars == <<pc, buffer, rx_len, msg, parity, message_RS, rs_bytes, i, frame>>

RsAt(j) == IF j < Len(message_RS) THEN message_RS[j + 1] ELSE 0

Init ==
    /\ pc = "idle"
    /\ buffer = <<>>
    /\ rx_len = 0
    /\ msg = <<>>
    /\ parity = <<>>
    /\ message_RS = <<>>
    /\ rs_bytes = 0
    /\ i = 0
    /\ frame = <<>>

\* The serial interrupt handler reads what has arrived, perhaps nothing.
ReadFifo ==
    /\ pc \in {"idle", "done"}
    /\ buffer' \in Chunks
    /\ rx_len' = Len(buffer')
    /\ pc' = "strip"
    /\ UNCHANGED <<msg, parity, message_RS, rs_bytes, i, frame>>

\* buffer[rx_len - 1] is a line end; below the buffer it is whatever lies there.
EndsBeforeLast == rx_len > 1 /\ buffer[rx_len - 1] \in LineEnds

EndsLine == rx_len > 0 /\ buffer[rx_len] \in LineEnds

UnderBuffer == rx_len <= 0

Strip ==
    /\ pc = "strip"
    /\ EndsLine \/ (UnderBuffer /\ rx_len > -Below)
    /\ rx_len' = rx_len - 1
    /\ UNCHANGED <<pc, buffer, msg, parity, message_RS, rs_bytes, i, frame>>

\* The arguments of construct_frame; what is left of the last frame is cleared.
Begin(m) ==
    /\ msg' = m
    /\ frame' = Preamble \o ook_to_manchester(Len(m))
    /\ pc' = "encode"
    /\ UNCHANGED <<parity, message_RS, rs_bytes, i>>

\* Its length parameter is a uint8_t.
Handed ==
    [k \in 1..(rx_len % 2^ByteBits) |-> IF k <= rx_len THEN buffer[k] ELSE 0]

CallWithLine ==
    /\ pc = "strip"
    /\ ~EndsLine
    /\ Begin(Handed)
    /\ UNCHANGED <<buffer, rx_len>>

\* main's own message.
Call ==
    /\ pc \in {"idle", "done"}
    /\ \E m \in Payloads : Begin(m)
    /\ buffer' = <<>>
    /\ rx_len' = 0

\* The encoder returns the block length, or -1 and no parity when the message
\* is too long.
Encode ==
    /\ pc = "encode"
    /\ IF Len(msg) > MaxPayload
         THEN /\ parity' = <<>>
              /\ rs_bytes' = -1
         ELSE /\ parity' \in Parities(msg)
              /\ rs_bytes' = BlockLength
    /\ message_RS' = msg \o parity'
    /\ i' = 0
    /\ pc' = "append"
    /\ UNCHANGED <<buffer, rx_len, msg, frame>>

\* Behind the message the first zero byte ends the frame.
AtAnyZero == RsAt(i) = 0

AtZero == i >= Len(msg) /\ RsAt(i) = 0

AppendByte ==
    /\ pc = "append"
    /\ i < Len(msg) + rs_bytes
    /\ ~AtZero
    /\ frame' = frame \o ook_to_manchester(RsAt(i))
    /\ i' = i + 1
    /\ UNCHANGED <<pc, buffer, rx_len, msg, parity, message_RS, rs_bytes>>

StopAtZero ==
    /\ pc = "append"
    /\ i < Len(msg) + rs_bytes
    /\ AtZero
    /\ rs_bytes' = i - Len(msg)
    /\ pc' = "done"
    /\ UNCHANGED <<buffer, rx_len, msg, parity, message_RS, i, frame>>

StopAtEnd ==
    /\ pc = "append"
    /\ i >= Len(msg) + rs_bytes
    /\ pc' = "done"
    /\ UNCHANGED <<buffer, rx_len, msg, parity, message_RS, rs_bytes, i, frame>>

Next ==
    \/ ReadFifo \/ Strip \/ CallWithLine \/ Call
    \/ Encode \/ AppendByte \/ StopAtZero \/ StopAtEnd

Spec == Init /\ [][Next]_vars

-----------------------------------------------------------------------------
\* After the preamble no three bits are alike, so the two runs of three in the preamble
\* are the only ones and a receiver finds the start of a frame from anywhere
\* (manchester.c:41 and ook_to_manchester).
ThreeAlike(k) == frame[k] = frame[k + 1] /\ frame[k + 1] = frame[k + 2]

OnlyPreambleHasRunsOfThree ==
    \A k \in 1..(Len(frame) - 2) : ThreeAlike(k) <=> k \in {2, 5}

\* The bytes a frame holds behind the preamble, the first being the length.
FrameBytes ==
    LET count == (Len(frame) - 8) \div (2 * ByteBits)
        bit(b, j) == frame[8 + 2 * ByteBits * (b - 1) + 2 * j]
        value(b) == FoldFunction(+, 0, [j \in 1..ByteBits |-> bit(b, j) * 2^(ByteBits - j)])
    IN  [b \in 1..count |-> value(b)]

\* Reading the frame back gives the length, the whole message and the parity
\* up to its first zero byte, for messages the code can encode; of a longer
\* one the last byte is missing (manchester.c:58-69).
UpToZero(s) ==
    LET zeros == {k \in DOMAIN s : s[k] = 0}
    IN  IF zeros = {} THEN s ELSE SubSeq(s, 1, Min(zeros) - 1)

FrameReadsBack ==
    pc = "done" =>
        FrameBytes = <<Len(msg)>> \o
            (IF Len(msg) > MaxPayload THEN SubSeq(msg, 1, Len(msg) - 1)
                                      ELSE msg \o UpToZero(parity))

\* What was typed: the chunk without the line ends behind it.
Typed(chunk) ==
    SubSeq(chunk, 1, Max({0} \cup {k \in DOMAIN chunk : chunk[k] \notin LineEnds}))

\* Text typed on the serial line gets into the frame whole when the code can encode
\* it, and never followed by anything the line did not hold: a longer text loses its
\* end, and only a line of nothing but line ends may send bytes nobody typed
\* (uarte_controller.c:15-22, construct_frame's uint8_t len).
FrameHoldsTypedText ==
    (pc = "done" /\ Typed(buffer) # <<>>) =>
        /\ IsPrefix(msg, Typed(buffer))
        /\ Len(Typed(buffer)) <= MaxPayload =>
             IsPrefix(<<Len(Typed(buffer))>> \o Typed(buffer), FrameBytes)

\* "Add message and reed-solomon to frame" (manchester.c:60): the whole of both.
FrameHoldsMessageAndParity ==
    pc = "done" => FrameBytes = <<Len(msg)>> \o msg \o parity
=============================================================================
