--------------------------- MODULE MCReedSolomon ---------------------------
(* An instance of ReedSolomon for TLC: blocks of seven symbols of three bits, *)
(* four of them parity, as the code has it; a full, a short and a too long    *)
(* message.                                                                   *)
EXTENDS ReedSolomon

MCMessages == {<<1, 0, 6>>, <<5>>, <<1, 2, 3, 4>>}
=============================================================================
