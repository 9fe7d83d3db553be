---------------------------- MODULE MCMipsLines ----------------------------
(***************************************************************************)
(* Instances of MipsLines for TLC: the programs of MCMipsVM, and one for   *)
(* each line, behind a store, with two registers set to boundary words.    *)
(***************************************************************************)
EXTENDS MipsLines, MCMipsVM

MCLineAddr == 20
MCLabels   == {0, 8, 24}

Reg(r)  == E!Reg(r)
Away(a) == E!Target(a)

Memory(n, r) == E!Based(n, r)

MCSourceLines ==
  {E!Text(mn, <<Reg(A0), Reg(T0), Reg(T1)>>) : mn \in E!ThreeRegs \union {"mul"}}
  \union {E!Text(mn, <<Reg(A0), Reg(T1), E!Num(3)>>) : mn \in E!Shifts}
  \union {E!Text(mn, <<Reg(A0), Reg(T0), E!Num(n)>>) : mn \in E!Ariths, n \in {-8, 7}}
  \union {E!Text("lui", <<Reg(A0), E!HexNum(7)>>), E!Text("jalr", <<Reg(A0), Reg(RA)>>)}
  \union {E!Text(mn, <<Reg(A0), Reg(T0)>>) : mn \in {"move", "not", "neg"}}
  \union {E!Text(mn, <<Reg(T0), Reg(T1)>>) : mn \in E!MulDivs}
  \union {E!Text(mn, <<Reg(A0), Memory(-4, SP)>>) : mn \in LoadOps}
  \union {E!Text(mn, <<Reg(T0), Memory(-8, SP)>>) : mn \in StoreOps}
  \union {E!Text("lb", <<Reg(A0), Memory(1, T1)>>), E!Text("sb", <<Reg(T0), Memory(1, T1)>>)}
  \union {E!Text(mn, <<Reg(T0), Reg(T1), Away(l)>>) : mn \in {"beq", "bne"}, l \in MCLabels}
  \union {E!Text(mn, <<Reg(T0), Away(l)>>) :
            mn \in {"blez", "bgtz", "bltz", "bgez"}, l \in MCLabels}
  \union {E!Text(mn, <<Away(l)>>) : mn \in {"b", "j", "jal"}, l \in MCLabels}
  \union {E!Text("jr", <<Reg(RA)>>)}

LineValues == {0, 3, 7, 127, 128, 255}

MCLinePrograms ==
  {Const(T0, a) \o Const(T1, b) \o <<Imm("sw", T0, SP, -4), i>> :
      a \in LineValues, b \in LineValues, i \in LineInstrs}

MCPrograms == VmPrograms \union MCLinePrograms
MCInstrs   == VmInstrs \union LineInstrs \union {Imm("sw", T0, SP, -4)}
=============================================================================
