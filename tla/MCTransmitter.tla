--------------------------- MODULE MCTransmitter ---------------------------
(* Instances of Transmitter for TLC: short frames with odd and even numbers  *)
(* of levels, runs of one to three periods, the first level a 0.             *)
EXTENDS Transmitter

MCMessages == {"hello", "red", "green"}

\* Four, three and four levels.
MCFrameBits ==
    [hello |-> <<0, 1, 1, 1, 0, 0, 1>>,
     red   |-> <<0, 1, 1, 1, 0>>,
     green |-> <<0, 0, 1, 0, 1>>]

MCColours == {"red", "green"}
NoMessages == {}

\* None of the 381 colour frames has more levels than "Hello World!".
ASSUME MCColoursHaveNoMoreLevels == ColoursHaveNoMoreLevels

\* With what somebody may type: a line with more levels than hello has, and
\* lines with fewer or as many.
MCWithLines == MCMessages \cup {"long"}
MCLines == {"long", "red", "green"}

MCLineFrameBits ==
    [m \in MCWithLines |-> IF m = "long" THEN <<0, 1, 0, 1, 1, 0>> ELSE MCFrameBits[m]]
=============================================================================
