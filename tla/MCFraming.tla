----------------------------- MODULE MCFraming -----------------------------
(* Instances of Framing for TLC: bytes of two bits, a code with two parity   *)
(* bytes, messages up to the longest one the code encodes and one more, and  *)
(* serial input longer than the range of a length.                           *)
EXTENDS Framing

Encodable  == UNION {[1..n -> 0..3] : n \in 0..2}
MCPayloads == Encodable \cup {<<1, 2, 3>>, <<3, 0, 0>>}
\* Reads of the serial line: texts of up to five bytes (a length has two bits), line
\* ends inside and behind them, line ends alone, and nothing.
MCChunks == UNION {[1..n -> {0, 1, 3}] : n \in 0..6}

NoZeros    == [1..2 -> 1..3]

\* A word of a Reed-Solomon code is all zero or has more non-zero bytes than there
\* are roots; beyond that the parity of a message is anything.
Weight(s) == Cardinality({k \in DOMAIN s : s[k] # 0})

AnyParity(m) ==
    {p \in [1..2 -> 0..3] : IF Weight(m) = 0 THEN Weight(p) = 0
                                             ELSE Weight(m) + Weight(p) > 2}
=============================================================================
