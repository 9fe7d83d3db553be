---------------------------- MODULE MCToolchain ----------------------------
(***************************************************************************)
(* Every command.  The own assembler is given the sources of MCMipsAsm.    *)
(* Words: all opcodes and functions, with fields and immediates at their   *)
(* edges.  Lines: all mnemonics with up to three operands, good and bad.   *)
(***************************************************************************)
EXTENDS Toolchain, MCMipsAsm

MCGenerated ==
  { << >>, <<Statement("word", 0)>>, <<Statement("unknown", 0)>>,
    <<Line("B", "plain", 0, NoName), To("branch", "B")>> }

Fields == {<<0, 0, 0, 0>>, <<0, 31, 8, 17>>, <<9, 0, 0, 0>>, <<8, 9, 10, 0>>,
           <<31, 31, 31, 31>>, <<4, 0, 31, 0>>, <<0, 0, 2, 0>>, <<29, 30, 0, 0>>}

Immediates == {0, 1, 8, 32767, 32768, 65535}

MCWords ==
  {EncodeFields(op, fn, f[1], f[2], f[3], f[4]) :
     op \in {SPECIAL, SPECIAL2}, fn \in 0 .. 63, f \in Fields}
  \union {EncodeI(REGIMM, rs, rt, imm) : rs \in {0, 31}, rt \in 0 .. 31, imm \in Immediates}
  \union {EncodeI(op, f[1], f[2], imm) :
            op \in 2 .. 63 \ {SPECIAL2}, f \in Fields, imm \in Immediates}

Mnemonics ==
  DOMAIN SpecialFn \union DOMAIN RegimmRt \union DOMAIN Opcode \union DOMAIN Pseudo
    \union {"mul", "unknown"}

SomeOperands == {Reg(0), Reg(31), Num(-1), HexNum(65535), Based(-4, 29), Based(0, -1),
                 Target(16)}

MCTexts ==
  {Text(mn, args) : mn \in Mnemonics, args \in UNION {[1 .. n -> SomeOperands] : n \in 0 .. 3}}

MCAddrs == {0, 8, 262144}
=============================================================================
