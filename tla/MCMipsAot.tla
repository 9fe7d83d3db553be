----------------------------- MODULE MCMipsAot -----------------------------
(***************************************************************************)
(* Programs of three instructions each pass would change or leave alone,   *)
(* ended by break.                                                         *)
(***************************************************************************)
EXTENDS MipsAot

BW == INSTANCE Bitwise

MCBitAnd(a, b) == BW!&(a, b)

T0 == 8
T1 == 9
MCRegs == {Zero, V0, A0, T0, T1, SP, RA}

Instr(op, s, t, n) ==
  [op |-> op, rs |-> s, rt |-> t, rd |-> Zero, shamt |-> 0, imm |-> n]

Nop   == Instr("sll", Zero, Zero, 0)
Stop  == Instr("break", Zero, Zero, 0)

Body ==
  {Nop, Instr("addiu", Zero, T0, 3), Instr("addiu", T0, T1, 1), Instr("ori", T0, T0, 4),
   Instr("beq", Zero, Zero, 0)}

MCPrograms == {<<a, b, c, Stop>> : a \in Body, b \in Body, c \in Body}
MCInstrs   == Body \union {Stop} \union {Instr("j", Zero, Zero, n) : n \in 0 .. 4}
MCStray    == {}
=============================================================================
