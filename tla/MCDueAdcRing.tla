---------------------------- MODULE MCDueAdcRing ----------------------------
EXTENDS DueAdcRing

\* Two single-ended pins, and the two pins of a differential pair.
MCPins == {0, 2}
MCPair == {0, 1}
=============================================================================
