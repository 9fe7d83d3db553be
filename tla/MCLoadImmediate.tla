-------------------------- MODULE MCLoadImmediate --------------------------
(***************************************************************************)
(* Constants with either half, both or none, on words of 8 bits.           *)
(***************************************************************************)
EXTENDS LoadImmediate

BW == INSTANCE Bitwise

MCBitAnd(a, b) == BW!&(a, b)

MCRegs      == {Zero, V0, A0, T, SP, RA}
MCConstants == {0, 1, 6, 15, 16, 18, 96, 240, 255}
MCStray     == {}
=============================================================================
