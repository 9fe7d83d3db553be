---------------------------- MODULE MCMipsHosts ----------------------------
(***************************************************************************)
(* Instances of MipsHosts for TLC: programs that stop in every way under   *)
(* every host, debugging sessions, and ELF files of up to two segments.    *)
(***************************************************************************)
EXTENDS MipsHosts, MCMipsVM

-----------------------------------------------------------------------------
(* Forward transfers only, all conditions on a zero and on a negative      *)
(* register, and every way to stop.                                        *)
ForwardAt(k) ==
  {I(op, T0, T1, Zero, 0, n) :
     op \in BranchOps \union LinkBranchOps \union {"regimm?"},
     n \in {0, 1} \intersect Targets(k)}
  \union {I("j", Zero, Zero, Zero, 0, 3), Li(T0, -1)}
  \union {Bare(op) : op \in {"opcode?", "break", "syscall", "special?"}}

ForwardInstrs == UNION {ForwardAt(k) : k \in 1 .. 3}

ForwardPrograms ==
  {<<a, b, c>> : a \in {Li(T0, -1), Nop}, b \in ForwardAt(2), c \in ForwardAt(3)}

-----------------------------------------------------------------------------
(* Host: binaries that stop in every way there is, are refused, jump to a  *)
(* misaligned address or leave the binary, loaded and run more than once.  *)
HostBodies ==
  {<<Bare(op)>> : op \in {"opcode?", "special?", "break"}}
  \union {<<Imm("sw", T0, SP, n), Imm("lh", T1, Zero, n)>> : n \in {0, -4, -5}}
  \union {<<Li(V0, n), Syscall>> : n \in {7, 9}}
  \union {<<Li(T1, 6), I("jr", T1, Zero, Zero, 0, 0), Nop>>,
          <<Reg3("div", Zero, T0, T1)>>,
          <<Reg3("teq", Zero, T1, T1)>>,
          <<Imm("beq", Zero, Zero, -3)>>}

HostPrograms ==
  {<<Li(T0, 3)>> \o p \o <<Li(T1, 1)>> : p \in HostBodies}
  \union {<< >>, [k \in 1 .. 1 + CodeMax \div 4 |-> Nop]}

StopPrograms == HostPrograms \union ForwardPrograms
StopInstrs ==
  MCStray \union UNION {{p[k] : k \in 1 .. Len(p)} : p \in HostPrograms} \union ForwardInstrs

-----------------------------------------------------------------------------
(* Sessions: loops through address 0 and around it, a loop of one          *)
(* instruction, a fault, a fall off the end and a refused binary.          *)
MCBreakAddrs == {0, 4, 8}
MCStepCounts == {-1, 0, 1, 2, 3}

Loop == I("j", Zero, Zero, Zero, 0, 0)

MCDebugPrograms ==
  {<< >>, <<Nop, Nop, Loop>>,
   <<Nop, Imm("beq", Zero, Zero, -1)>>,
   <<Li(T0, -1), I("bltz", T0, Zero, Zero, 0, 1), Bare("break"), Bare("special?")>>,
   <<Li(T0, 3), Nop, Imm("bne", Zero, T0, -2), Bare("opcode?")>>}

-----------------------------------------------------------------------------
(* ELF files: two segments that lie apart, meet, overlap, are truncated,   *)
(* zero-filled, empty, end behind the buffer of six cells or wrap to its   *)
(* beginning, with entry points inside, behind and between instructions.   *)
Sizes == {[filesz |-> 2, have |-> 2, memsz |-> 2], [filesz |-> 2, have |-> 2, memsz |-> 4],
          [filesz |-> 3, have |-> 1, memsz |-> 4], [filesz |-> 2, have |-> 2, memsz |-> 0],
          [filesz |-> 0, have |-> 0, memsz |-> 3]}

SegmentsOf(c) ==
  {[load |-> TRUE, vaddr |-> v, filesz |-> z.filesz, memsz |-> z.memsz,
    contents |-> SubSeq(c, 1, z.have)] : v \in {0, 1, 3, 5, 63}, z \in Sizes}

First  == SegmentsOf(<<Li(T0, 3), Li(T1, 1)>>)
Second == SegmentsOf(<<Bare("break"), Li(T0, -1)>>)

Ignored == [load |-> FALSE, vaddr |-> 0, filesz |-> 1, memsz |-> 1, contents |-> <<Nop>>]

File(ok, e, s) == [valid |-> ok, entry |-> e, segments |-> s]

MCElfFiles ==
  {File(TRUE, 0, <<a, b>>) : a \in First, b \in Second}
  \union {File(TRUE, e, <<Ignored, a>>) : e \in {4, 6, 20, 253}, a \in First}
  \union {File(TRUE, 0, << >>), File(FALSE, 0, << >>)}

HostsInstrs == StopInstrs \union UNION {{p[k] : k \in 1 .. Len(p)} : p \in MCDebugPrograms}
               \union {Li(T0, 3), Li(T1, 1), Bare("break"), Li(T0, -1)}
HostsPrograms == StopPrograms \union MCDebugPrograms
=============================================================================
