----------------------------- MODULE MipsEncode -----------------------------
(***************************************************************************)
(* Instruction words, src/src/c/mips_encode.c: the decoder, the encoders   *)
(* and the disassembler, and the other direction from text to words, the   *)
(* operands of mips_asm_assemble_line (src/src/c/mips_asm.c).              *)
(*                                                                         *)
(* A word is its two halves.  A line of assembly text is its mnemonic and  *)
(* its operands; spacing, commas and the spelling of registers are left    *)
(* out.  Addresses are integers: the wrap of a printed branch target at    *)
(* 2^32 is left out.                                                       *)
(***************************************************************************)
EXTENDS Integers, Sequences

Half      == 65536
Halves    == 0 .. Half - 1
InstrWord == [hi : Halves, lo : Halves]

(* The codes of src/src/c/sagemips.h.                                      *)
SPECIAL  == 0
REGIMM   == 1
SPECIAL2 == 28
MUL      == 2

SpecialFn ==
  [sll |-> 0, srl |-> 2, sra |-> 3, sllv |-> 4, srlv |-> 6, srav |-> 7, jr |-> 8, jalr |-> 9,
   movz |-> 10, movn |-> 11, syscall |-> 12, break |-> 13,
   mfhi |-> 16, mthi |-> 17, mflo |-> 18, mtlo |-> 19,
   mult |-> 24, multu |-> 25, div |-> 26, divu |-> 27,
   add |-> 32, addu |-> 33, sub |-> 34, subu |-> 35, and |-> 36, or |-> 37, xor |-> 38, nor |-> 39,
   slt |-> 42, sltu |-> 43,
   tge |-> 48, tgeu |-> 49, tlt |-> 50, tltu |-> 51, teq |-> 52, tne |-> 54]

RegimmRt == [bltz |-> 0, bgez |-> 1, bltzl |-> 2, bgezl |-> 3, bltzal |-> 16, bgezal |-> 17]

Opcode ==
  [j |-> 2, jal |-> 3, beq |-> 4, bne |-> 5, blez |-> 6, bgtz |-> 7,
   addi |-> 8, addiu |-> 9, slti |-> 10, sltiu |-> 11, andi |-> 12, ori |-> 13, xori |-> 14,
   lui |-> 15, lb |-> 32, lh |-> 33, lw |-> 35, lbu |-> 36, lhu |-> 37,
   sb |-> 40, sh |-> 41, sw |-> 43]

Shifts    == {"sll", "srl", "sra"}
MulDivs   == {"mult", "multu", "div", "divu"}
Traps     == {"tge", "tgeu", "tlt", "tltu", "teq", "tne"}
ThreeRegs == {"add", "addu", "sub", "subu", "and", "or", "xor", "nor", "slt", "sltu",
              "sllv", "srlv", "srav"}
Ariths    == {"addi", "addiu", "slti", "sltiu", "andi", "ori", "xori"}
LoadStore == {"lw", "sw", "lb", "lbu", "lh", "lhu", "sb", "sh"}

-----------------------------------------------------------------------------
(* mips_decode.                                                            *)
SignedHalf(n) == IF n >= Half \div 2 THEN n - Half ELSE n

Decode(w) ==
  [opcode |-> w.hi \div 1024, rs |-> (w.hi \div 32) % 32, rt |-> w.hi % 32,
   rd |-> w.lo \div 2048, shamt |-> (w.lo \div 64) % 32, funct |-> w.lo % 64,
   uimm |-> w.lo, imm |-> SignedHalf(w.lo), target |-> (w.hi % 1024) * Half + w.lo]

(* The encoders mask every argument to its field.                          *)
Upper(op, rs, rt) == (op % 64) * 1024 + (rs % 32) * 32 + (rt % 32)

EncodeFields(op, fn, rs, rt, rd, shamt) ==
  [hi |-> Upper(op, rs, rt), lo |-> (rd % 32) * 2048 + (shamt % 32) * 64 + (fn % 64)]

EncodeR(fn, rs, rt, rd, shamt) == EncodeFields(SPECIAL, fn, rs, rt, rd, shamt)
EncodeSpecial2(fn, rs, rt, rd) == EncodeFields(SPECIAL2, fn, rs, rt, rd, 0)

EncodeI(op, rs, rt, imm) == [hi |-> Upper(op, rs, rt), lo |-> imm % Half]

EncodeJ(op, target) ==
  [hi |-> (op % 64) * 1024 + ((target \div Half) % 1024), lo |-> target % Half]

EncodeRegimm(rt, rs, imm) == EncodeI(REGIMM, rs, rt, imm)

-----------------------------------------------------------------------------
(* Text.  An operand is a register, a decimal or hexadecimal number, an    *)
(* offset with a base register, or the hexadecimal address of a transfer.  *)
Operand(kind, n, base) == [kind |-> kind, n |-> n, base |-> base]

Reg(r)       == Operand("reg", r, 0)
Num(n)       == Operand("num", n, 0)
HexNum(n)    == Operand("hex", n, 0)
Based(n, r)  == Operand("mem", n, r)
Target(a)    == Operand("addr", a, 0)
Absent       == Operand("none", 0, 0)

Operands == [kind : {"reg", "num", "hex", "mem", "addr", "none"}, n : Int, base : Int]

Text(mn, args) == [mn |-> mn, args |-> args]

Unknown == "???"

(* get_r_mnemonic, get_i_mnemonic and the cases of mips_disasm.            *)
Named(table, names, c) ==
  IF \E n \in names : table[n] = c THEN CHOOSE n \in names : table[n] = c ELSE Unknown

(* Mutant of SpecialNames: a case is missing.                              *)
SpecialNamesFewer == DOMAIN SpecialFn \ {"movn"}

SpecialNames == DOMAIN SpecialFn
RegimmNames  == DOMAIN RegimmRt
OpcodeNames  == DOMAIN Opcode

ShowSpecial(i) ==
  LET mn == Named(SpecialFn, SpecialNames, i.funct)
  IN  Text(mn,
        CASE mn = Unknown              -> << >>
          [] mn \in Shifts             -> <<Reg(i.rd), Reg(i.rt), Num(i.shamt)>>
          [] mn \in {"jr", "mthi", "mtlo"} -> <<Reg(i.rs)>>
          [] mn \in {"mfhi", "mflo"}   -> <<Reg(i.rd)>>
          [] mn = "jalr"               -> <<IF i.rd = 31 THEN Absent ELSE Reg(i.rd), Reg(i.rs)>>
          [] mn \in MulDivs \union Traps -> <<Reg(i.rs), Reg(i.rt)>>
          [] mn \in {"syscall", "break"} -> << >>
          [] OTHER                     -> <<Reg(i.rd), Reg(i.rs), Reg(i.rt)>>)

ShowSpecial2(i) ==
  IF i.funct = MUL THEN Text("mul", <<Reg(i.rd), Reg(i.rs), Reg(i.rt)>>) ELSE Text(Unknown, << >>)

BranchTo(i, addr) == Target(addr + 4 + 4 * i.imm)

(* The region bits of addr are 0: a binary is shorter than 2^28.           *)
JumpTo(i) == Target(4 * i.target)

ShowOpcode(i, addr) ==
  LET mn == Named(Opcode, OpcodeNames, i.opcode)
  IN  Text(mn,
        CASE mn = Unknown         -> << >>
          [] mn \in {"j", "jal"}  -> <<JumpTo(i)>>
          [] mn \in {"beq", "bne"}   -> <<Reg(i.rs), Reg(i.rt), BranchTo(i, addr)>>
          [] mn \in {"blez", "bgtz"} -> <<Reg(i.rs), BranchTo(i, addr)>>
          [] mn = "lui"           -> <<Reg(i.rt), HexNum(i.uimm)>>
          [] mn \in LoadStore     -> <<Reg(i.rt), Based(i.imm, i.rs)>>
          [] mn \in Ariths        -> <<Reg(i.rt), Reg(i.rs), Num(i.imm)>>)

Disasm(w, addr) ==
  LET i == Decode(w)
  IN  CASE i.opcode = SPECIAL  -> ShowSpecial(i)
        [] i.opcode = SPECIAL2 -> ShowSpecial2(i)
        [] i.opcode = REGIMM   -> Text(Named(RegimmRt, RegimmNames, i.rt),
                                       <<Reg(i.rs), BranchTo(i, addr)>>)
        [] OTHER               -> ShowOpcode(i, addr)

(* What mips_vm_step has a case for; an unknown REGIMM condition, which has*)
(* none, is never taken.                                                   *)
Executes(w) ==
  LET i == Decode(w)
  IN  CASE i.opcode = SPECIAL  ->
             i.funct \in {SpecialFn[n] : n \in Shifts \union ThreeRegs \union MulDivs \union Traps
                             \union {"jr", "jalr", "mfhi", "mthi", "mflo", "mtlo", "movz", "movn",
                                     "syscall", "break"}}
        [] i.opcode = SPECIAL2 -> i.funct = MUL
        [] i.opcode = REGIMM   -> i.rt \in {RegimmRt[n] : n \in RegimmNames}
        [] OTHER               ->
             i.opcode \in {Opcode[n] : n \in Ariths \union LoadStore
                             \union {"lui", "j", "jal", "beq", "bne", "blez", "bgtz"}}

-----------------------------------------------------------------------------
(* mips_asm_assemble_line in pass 1, for an instruction: three tokens, and *)
(* for each mnemonic what it makes of them.  An operand that is no register*)
(* has number -1; a number alone is one.                                   *)
RegOf(o) ==
  CASE o.kind = "reg" -> o.n
    [] o.kind = "num" /\ o.n \in 0 .. 31 -> o.n
    [] OTHER -> -1

(* parse_int_str reads the number a token begins with.                     *)
IsInt(o) == o.kind \in {"num", "hex", "mem", "addr"}

Refused == [hi |-> -1, lo |-> -1]

If(cond, w) == IF cond THEN w ELSE Refused

Token(t, k) == IF k <= Len(t.args) THEN t.args[k] ELSE Absent

ReadJalr(a, b) ==
  LET rd == IF a.kind = "none" THEN 31 ELSE RegOf(a)
      rs == RegOf(IF b.kind = "none" THEN a ELSE b)
  IN  If(rs >= 0, EncodeR(SpecialFn.jalr, rs, 0, IF rd < 0 THEN 31 ELSE rd, 0))

(* Without parentheses the base is the third operand, and without that     *)
(* the address is 0($zero), whatever the second one is.                    *)
ReadMemory(mn, a, b, c) ==
  LET rt == RegOf(a)
  IN  CASE b.kind = "mem" -> If(rt >= 0 /\ b.base >= 0, EncodeI(Opcode[mn], b.base, rt, b.n))
        [] b.kind # "mem" /\ c.kind # "none" ->
             If(rt >= 0 /\ IsInt(b) /\ RegOf(c) >= 0, EncodeI(Opcode[mn], RegOf(c), rt, b.n))
        [] OTHER -> If(rt >= 0, EncodeI(Opcode[mn], 0, rt, 0))

(* A transfer's operand is a label: here, one that names an address of     *)
(* labels.                                                                 *)
Resolves(o, labels) == o.kind = "addr" /\ o.n \in labels

Away(o, here) == (o.n - (here + 4)) \div 4


ReadThreeRegs(mn, a, b, c) ==
  If(RegOf(a) >= 0 /\ RegOf(b) >= 0 /\ RegOf(c) >= 0,
     EncodeR(SpecialFn[mn], RegOf(b), RegOf(c), RegOf(a), 0))

(* mul takes its operands unchecked: a bad one is masked to $ra.           *)
ReadMul(a, b, c) == EncodeSpecial2(MUL, RegOf(b), RegOf(c), RegOf(a))

ReadShift(mn, a, b, c) ==
  If(RegOf(a) >= 0 /\ RegOf(b) >= 0 /\ IsInt(c),
     EncodeR(SpecialFn[mn], 0, RegOf(b), RegOf(a), c.n))

ReadMulDiv(mn, a, b) ==
  If(RegOf(a) >= 0 /\ RegOf(b) >= 0, EncodeR(SpecialFn[mn], RegOf(a), RegOf(b), 0, 0))

ReadFrom(mn, a) == If(RegOf(a) >= 0, EncodeR(SpecialFn[mn], 0, 0, RegOf(a), 0))
ReadTo(mn, a)   == If(RegOf(a) >= 0, EncodeR(SpecialFn[mn], RegOf(a), 0, 0, 0))

ReadArith(mn, a, b, c) ==
  If(RegOf(a) >= 0 /\ RegOf(b) >= 0 /\ IsInt(c), EncodeI(Opcode[mn], RegOf(b), RegOf(a), c.n))

ReadLui(a, b) == If(RegOf(a) >= 0 /\ IsInt(b), EncodeI(Opcode.lui, 0, RegOf(a), b.n))

ReadCompare(mn, a, b, c, here, labels) ==
  If(RegOf(a) >= 0 /\ RegOf(b) >= 0 /\ Resolves(c, labels),
     EncodeI(Opcode[mn], RegOf(a), RegOf(b), Away(c, here)))

ReadZero(mn, a, b, here, labels) ==
  If(RegOf(a) >= 0 /\ Resolves(b, labels), EncodeI(Opcode[mn], RegOf(a), 0, Away(b, here)))

ReadSign(mn, a, b, here, labels) ==
  If(RegOf(a) >= 0 /\ Resolves(b, labels), EncodeRegimm(RegimmRt[mn], RegOf(a), Away(b, here)))

ReadJump(mn, a, labels) == If(Resolves(a, labels), EncodeJ(Opcode[mn], a.n \div 4))

AssembleText(t, here, labels) ==
  LET a  == Token(t, 1)
      b  == Token(t, 2)
      c  == Token(t, 3)
      mn == t.mn
  IN  CASE mn \in ThreeRegs              -> ReadThreeRegs(mn, a, b, c)
        [] mn = "mul"                    -> ReadMul(a, b, c)
        [] mn \in Shifts                 -> ReadShift(mn, a, b, c)
        [] mn \in MulDivs                -> ReadMulDiv(mn, a, b)
        [] mn \in {"mfhi", "mflo"}       -> ReadFrom(mn, a)
        [] mn \in {"mthi", "mtlo", "jr"} -> ReadTo(mn, a)
        [] mn = "jalr"                   -> ReadJalr(a, b)
        [] mn = "syscall"                -> EncodeR(SpecialFn.syscall, 0, 0, 0, 0)
        [] mn \in Ariths                 -> ReadArith(mn, a, b, c)
        [] mn = "lui"                    -> ReadLui(a, b)
        [] mn \in LoadStore              -> ReadMemory(mn, a, b, c)
        [] mn \in {"beq", "bne"}         -> ReadCompare(mn, a, b, c, here, labels)
        [] mn \in {"blez", "bgtz"}       -> ReadZero(mn, a, b, here, labels)
        [] mn \in {"bltz", "bgez"}       -> ReadSign(mn, a, b, here, labels)
        [] mn \in {"j", "jal"}           -> ReadJump(mn, a, labels)
        [] OTHER                         -> Refused

(* Pseudo-instructions of one word, and the instruction each becomes; li   *)
(* and la have one or two words (MipsAsm).                                 *)
Pseudo == [nop |-> "sll", move |-> "addu", not |-> "nor", neg |-> "sub", b |-> "beq"]

AssemblePseudo(t, here, labels) ==
  LET x == RegOf(Token(t, 1))
      y == RegOf(Token(t, 2))
  IN  CASE t.mn = "nop"  -> EncodeR(SpecialFn.sll, 0, 0, 0, 0)
        [] t.mn = "move" -> If(x >= 0 /\ y >= 0, EncodeR(SpecialFn.addu, y, 0, x, 0))
        [] t.mn = "not"  -> If(x >= 0 /\ y >= 0, EncodeR(SpecialFn.nor, y, 0, x, 0))
        [] t.mn = "neg"  -> If(x >= 0 /\ y >= 0, EncodeR(SpecialFn.sub, 0, y, x, 0))
        [] t.mn = "b"    -> If(Resolves(Token(t, 1), labels),
                               EncodeI(Opcode.beq, 0, 0, Away(Token(t, 1), here)))
        [] OTHER -> Refused

AssembleInstruction(t, here, labels) ==
  IF t.mn \in DOMAIN Pseudo THEN AssemblePseudo(t, here, labels) ELSE AssembleText(t, here, labels)

-----------------------------------------------------------------------------
(* Mnemonics the machine executes and the assembler has no case for.       *)
NotAssembled == Traps \union {"break", "movz", "movn", "bltzl", "bgezl", "bltzal", "bgezal"}

(* Where a line transfers to has a label.                                  *)
Reachable(t, labels) ==
  \A k \in DOMAIN t.args : t.args[k].kind = "addr" => t.args[k].n \in labels

(* The fields an instruction does not use are 0.                           *)
Canonical(w) ==
  LET i  == Decode(w)
      mn == Disasm(w, 0).mn
  IN  CASE mn \in Shifts -> i.rs = 0
        [] mn \in {"mfhi", "mflo"} -> i.rs = 0 /\ i.rt = 0 /\ i.shamt = 0
        [] mn \in {"mthi", "mtlo", "jr"} -> i.rt = 0 /\ i.rd = 0 /\ i.shamt = 0
        [] mn = "jalr" -> i.rt = 0 /\ i.shamt = 0
        [] mn = "syscall" -> w.hi = 0 /\ w.lo = SpecialFn.syscall
        [] mn \in MulDivs -> i.rd = 0 /\ i.shamt = 0
        [] mn \in ThreeRegs \union {"mul"} -> i.shamt = 0
        [] mn = "lui" -> i.rs = 0
        [] mn \in {"blez", "bgtz"} -> i.rt = 0
        [] OTHER -> TRUE
=============================================================================
