------------------------------ MODULE MCMipsVM ------------------------------
(***************************************************************************)
(* Instances of MipsVM for TLC: the sets of programs each run loads.  A run*)
(* picks one of them as Programs; each explores every program of the set,  *)
(* so that the machine itself needs no nondeterminism.                     *)
(***************************************************************************)
EXTENDS MipsVM, FiniteSets

BW == INSTANCE Bitwise

MCBitAnd(a, b) == BW!&(a, b)

T0 == 8
T1 == 9
MCRegs == {Zero, V0, A0, T0, T1, SP, RA}

I(op, rs, rt, rd, shamt, imm) ==
  [op |-> op, rs |-> rs, rt |-> rt, rd |-> rd, shamt |-> shamt, imm |-> imm]

(* Assembly-like constructors: destination first.                          *)
Li(r, n)          == I("addiu", Zero, r, Zero, 0, n)
Reg3(op, d, s, t) == I(op, s, t, d, 0, 0)
Imm(op, t, s, n)  == I(op, s, t, Zero, 0, n)
Bare(op)          == I(op, Zero, Zero, Zero, 0, 0)
Nop               == I("sll", Zero, Zero, Zero, 0, 0)

MCStray          == {Nop, Bare("break"), Bare("opcode?")}

-----------------------------------------------------------------------------
(* Memory: two stores of any width through $sp or $zero, then a load.      *)
MemStores ==
  {Imm(op, T0, Zero, n) : op \in StoreOps, n \in {0, 1, 2, 6}}
  \union {Imm(op, T1, SP, n) : op \in StoreOps, n \in {-8, -6, -5}}
MemLoads ==
  {Imm(op, A0, Zero, n) : op \in LoadOps, n \in {0, 1, 2, 3}}
  \union {Imm("lw", Zero, SP, -4)}

(* T0 and T1 are given four different lanes each: 3201 and 0123.           *)
MemSetup ==
  <<Imm("lui", T0, Zero, -2), Imm("ori", T0, T0, 1),
    Imm("lui", T1, Zero, 1), Imm("ori", T1, T1, -5)>>

MemInstrs == {MemSetup[k] : k \in 1 .. 4} \union MemStores \union MemLoads

MemPrograms ==
  {MemSetup \o <<s1, s2, l>> : s1 \in MemStores, s2 \in MemStores, l \in MemLoads}

-----------------------------------------------------------------------------
(* Arithmetic: two registers set to boundary words, then one instruction   *)
(* of every kind that only computes.                                       *)
Boundary == {0, 1, 3, 7, 16, 127, 128, 129, 254, 255}

(* The halves of w as the signed immediates of lui and ori.                *)
Const(r, w) ==
  <<Imm("lui", r, Zero, SignExtend(w \div HalfBase, HalfBase)),
    Imm("ori", r, r, SignExtend(w % HalfBase, HalfBase))>>

ArithInstr ==
  {Reg3(op, A0, T0, T1) : op \in (RegOps \ {"sll", "srl", "sra"}) \union MoveOps
                                  \union MulDivOps \union TrapOps}
  \union {I(op, Zero, T1, A0, 3, 0) : op \in {"sll", "srl", "sra"}}
  \union {Imm(op, A0, T0, n) : op \in ImmOps, n \in {-8, -1, 7}}
  \union {Reg3("add", Zero, T0, T1), Bare("special?")}

ArithPrograms ==
  {Const(T0, a) \o Const(T1, b) \o <<i, Reg3("mfhi", V0, Zero, Zero)>> :
      a \in Boundary, b \in Boundary, i \in ArithInstr}

ConstInstrs(r) == {Const(r, w)[k] : w \in Word, k \in {1, 2}}

ArithInstrs ==
  ConstInstrs(T0) \union ConstInstrs(T1) \union ArithInstr
  \union {Reg3("mfhi", V0, Zero, Zero)}

-----------------------------------------------------------------------------
(* System calls: every number once, and sbrk three times with arguments of *)
(* both signs.                                                             *)
Syscall == Bare("syscall")

SbrkArgs == {0, 1, 8, 9, 127, 128, 248, 255}

SbrkOf(n) == Const(A0, n) \o Const(V0, SbrkCall) \o <<Syscall>>

SysPrograms ==
  {SbrkOf(a) \o SbrkOf(b) \o SbrkOf(c) : a \in SbrkArgs, b \in SbrkArgs, c \in SbrkArgs}
  \union {Const(V0, n) \o <<Syscall, Li(T0, 1)>> : n \in 0 .. 10 \union {255}}

SysInstrs == ConstInstrs(A0) \union ConstInstrs(V0) \union {Syscall, Li(T0, 1)}

-----------------------------------------------------------------------------
(* Control: every program of three instructions over transfers whose static*)
(* targets lie inside it, with the link register as only jump register.    *)
Targets(k) == {n \in -4 .. 3 : k + n \in 0 .. 3}

ControlAt(k) ==
  {Imm("bne", Zero, T0, n) : n \in Targets(k)}
  \union {I("bltzal", T0, Zero, Zero, 0, n) : n \in Targets(k)}
  \union {I(op, Zero, Zero, Zero, 0, n) : op \in {"j", "jal"}, n \in 0 .. 3}
  \union {I("jr", RA, Zero, Zero, 0, 0), I("jalr", RA, Zero, T1, 0, 0),
          Imm("addiu", T0, T0, -1), Bare("break")}

ControlInstrs == UNION {ControlAt(k) : k \in 1 .. 3}

ControlPrograms ==
  {<<a, b, c>> : a \in ControlAt(1), b \in ControlAt(2), c \in ControlAt(3)}

VmPrograms == MemPrograms \union ArithPrograms \union SysPrograms \union ControlPrograms
VmInstrs   == MCStray \union MemInstrs \union ArithInstrs \union SysInstrs \union ControlInstrs

=============================================================================
