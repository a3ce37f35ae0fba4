----------------------------- MODULE Manchester -----------------------------
(* The symbols a byte becomes (manchester.c: ook_to_manchester) and the      *)
(* preamble in front of every frame.                                         *)
EXTENDS Integers, Sequences

CONSTANT ByteBits             \* width of a byte, 8 in the code

ASSUME ByteAssumption ==
    /\ ByteBits \in Nat \ {0}
    /\ 2^ByteBits \in Nat \ {0}

\* Powers up to a byte's, as the proofs know them.
ASSUME PowersAssumption == 2^0 = 1 /\ \A n \in 0..(ByteBits - 1) : 2^(n + 1) = 2 * 2^n

Byte == 0..(2^ByteBits - 1)

Preamble == <<0, 1, 1, 1, 0, 0, 0, 1>>            \* 0x71

\* A set bit becomes 01, a clear one 10, most significant bit first.
SetBit(ook, j) == (ook \div 2^j) % 2 = 1

ook_to_manchesterPlain(ook) ==
    [k \in 1..(2 * ByteBits) |->
        IF SetBit(ook, ByteBits - (k + 1) \div 2) THEN 1 ELSE 0]

ook_to_manchester(ook) ==
    [k \in 1..(2 * ByteBits) |->
        IF SetBit(ook, ByteBits - (k + 1) \div 2) <=> k % 2 = 0 THEN 1 ELSE 0]
=============================================================================
