----------------------------- MODULE PayloadLog -----------------------------
(* The receiver of a build without DEBUG (fast_receiver.ino): every message is
   copied to the heap and logged instead of printed, and the log is counted,
   freed and emptied (reboot_record) when it is full, when "end" comes in on the
   serial line, or after a while without messages; only the preamble search
   looks for these three.  What is counted for a message (process_result) needs
   its bytes only, so the log is modelled by how long it is. *)
EXTENDS Receiver, FiniteSetsExt

CONSTANTS
    PAYLOAD_COUNTS,  \* entries of the log
    WANTED_PAYLOAD,  \* the message every transmission is compared with
    WantedParity     \* its parity bytes

ASSUME LogAssumption ==
    /\ PAYLOAD_COUNTS \in Nat \ {0}
    /\ WANTED_PAYLOAD \in Seq(Byte) /\ Len(WANTED_PAYLOAD) \in Byte
    /\ WantedParity \in [1..BYTES_RS -> Byte]

\* count_errors looks at no more bytes of any string than the wanted message has: of a
\* parity longer than that it would miss the end.  The wanted message has 12 bytes, its
\* parity 4.
ASSUME WantedAssumption == BYTES_RS <= Len(WANTED_PAYLOAD)

VARIABLES
    payloads_head,  \* entries logged
    blocks          \* buffers on the heap

log == <<payloads_head, blocks>>
logVars == <<receiver, log>>

LogInit == ReceiverInit /\ payloads_head = 0 /\ blocks = 0

-----------------------------------------------------------------------------
(* What process_result makes of a message. *)

WANTED_LENGTH == Len(WANTED_PAYLOAD)
ByteAt(s, i) == IF i \in DOMAIN s THEN s[i] ELSE 0

\* The bytes the registered bits make up, zero behind the last of them.
DecodedByte(k) ==
    LET bits == SubSeq(decoded, (k - 1) * ByteBits + 1, Min({k * ByteBits, Len(decoded)}))
    IN CHOOSE byte \in Byte : IsByteOf(byte, bits)

print_message == [k \in 1..length |-> DecodedByte(k)]
print_rs == [k \in 1..BYTES_RS |-> DecodedByte(length + k)]

\* setup copies the parity up to its first zero byte.
WANTED_RS ==
    [k \in 1..BYTES_RS |-> IF \E j \in 1..k : WantedParity[j] = 0 THEN 0
                                                                  ELSE WantedParity[k]]

popcount(a, b) == Cardinality({j \in 0..(ByteBits - 1) : SetBit(a, j) # SetBit(b, j)})

count_errorsPastEnd(m1, m2) ==   \* a deviation: no string ends
    MapThenSumSet(LAMBDA i : popcount(ByteAt(m1, i), ByteAt(m2, i)), 1..WANTED_LENGTH)

\* The strings are compared up to the first zero byte of either.
count_errors(m1, m2) ==
    LET before == {i \in 1..WANTED_LENGTH :
                     \A j \in 1..i : ByteAt(m1, j) # 0 /\ ByteAt(m2, j) # 0}
    IN MapThenSumSet(LAMBDA i : popcount(ByteAt(m1, i), ByteAt(m2, i)), before)

process_result ==
    popcount(WANTED_LENGTH, length)
      + count_errors(WANTED_PAYLOAD, print_message)
      + count_errors(WANTED_RS, print_rs)
      + (IF length < WANTED_LENGTH THEN (WANTED_LENGTH - length) * ByteBits ELSE 0)

-----------------------------------------------------------------------------
LogLoop ==
    /\ Loop
    /\ payloads_head' = payloads_head + 1
    /\ blocks' = blocks + 1

\* A report at a full log comes before the next sample is taken.
Sampling(lit) ==
    /\ See(lit)
    /\ mode = "preamble" => payloads_head # PAYLOAD_COUNTS
    /\ UNCHANGED log

reboot_recordKeepsBlock ==   \* a deviation: the last block is not freed
    /\ mode = "preamble"
    /\ payloads_head > 0
    /\ blocks' = blocks - (payloads_head - 1)
    /\ payloads_head' = 0
    /\ UNCHANGED receiver

\* Full, "end", or nothing for a while.  The time it takes is time the search
\* sees no change, which is SearchOn.
reboot_record ==
    /\ mode = "preamble"
    /\ payloads_head > 0
    /\ blocks' = blocks - payloads_head
    /\ payloads_head' = 0
    /\ UNCHANGED receiver

LogNext == LogLoop \/ reboot_record \/ \E lit \in BOOLEAN : Sampling(lit)

LogSpec == LogInit /\ [][LogNext]_logVars

-----------------------------------------------------------------------------
\* The log has room for every message that is being read, although it is looked
\* at only while searching, and each block on the heap belongs to an entry: none
\* is lost and none freed twice (lines 212, 390 and 517-524).
LogFits ==
    /\ payloads_head \in 0..PAYLOAD_COUNTS
    /\ mode # "preamble" => payloads_head < PAYLOAD_COUNTS
    /\ blocks = payloads_head

\* The bits of a message that differ from the wanted ones or never came.
WrongBits(wanted, got, came) ==
    {ij \in (DOMAIN wanted) \X (0..(ByteBits - 1)) :
        ij[1] > came \/ SetBit(wanted[ij[1]], ij[2]) # SetBit(got[ij[1]], ij[2])}

AllWrongBits ==
    popcount(WANTED_LENGTH, length)
      + Cardinality(WrongBits(WANTED_PAYLOAD, print_message, length))
      + Cardinality(WrongBits(WANTED_RS, print_rs, BYTES_RS))

NoZero(s) == \A i \in DOMAIN s : s[i] # 0

\* The errors counted for a message are the wrong bits of header, payload and
\* parity, unless a zero byte ends a comparison early: then they are fewer, never
\* more (lines 433-439, 492-499).
CountsWrongBits ==
    mode = "print" =>
        /\ process_result <= AllWrongBits
        /\ NoZero(WANTED_PAYLOAD \o WANTED_RS \o print_message \o print_rs)
             => process_result = AllWrongBits
=============================================================================
