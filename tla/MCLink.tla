------------------------------- MODULE MCLink -------------------------------
(* Instances of Link for TLC: bytes of two bits, two parity bytes, payloads  *)
(* of none, one and two bytes that between them end on either symbol and     *)
(* hold every byte.                                                          *)
EXTENDS Link

Frame(payload, parity, sent) == [payload |-> payload, parity |-> parity, sent |-> sent]

WholeFrames == {Frame(<<>>, <<0, 0>>, 2), Frame(<<1>>, <<3, 2>>, 2),
                Frame(<<2>>, <<1, 3>>, 2), Frame(<<0, 3>>, <<2, 1>>, 2)}

CutFrames == {Frame(<<>>, <<0, 0>>, 0), Frame(<<1, 2>>, <<3, 0>>, 1),
              Frame(<<3, 1>>, <<0, 2>>, 0), Frame(<<0, 3>>, <<2, 1>>, 2)}

\* Frames that fit, with the receiver switched on early in a gap and anywhere, frames that do
\* not, and cut frames with a disturbed sample.
MCSetups ==
    {[frames |-> WholeFrames, pulses |-> 6, anywhere |-> FALSE, busy |-> 8, glitches |-> 1],
     [frames |-> WholeFrames, pulses |-> 6, anywhere |-> TRUE, busy |-> 8, glitches |-> 1],
     [frames |-> CutFrames, pulses |-> 2, anywhere |-> TRUE, busy |-> 6, glitches |-> 0],
     [frames |-> CutFrames, pulses |-> 6, anywhere |-> TRUE, busy |-> 8, glitches |-> 1]}
=============================================================================
