------------------------- MODULE MipsEncode_proofs -------------------------
(***************************************************************************)
(* What a listing says of a word, for every one of the 2^32 words.         *)
(***************************************************************************)
EXTENDS MipsEncode, TLAPS

LEMMA WordHalves ==
  ASSUME NEW w \in InstrWord
  PROVE  /\ w.hi \in Halves /\ w.lo \in Halves
         /\ w = [hi |-> w.hi, lo |-> w.lo]
BY DEF InstrWord

LEMMA HalfIsInt ==
  ASSUME NEW n \in Halves
  PROVE  n \in Int /\ 0 <= n /\ n < 65536 /\ n % 65536 = n
<1>1. n \in Int /\ 0 <= n /\ n < 65536
  BY SMTT(30) DEF Halves, Half
<1> QED
  BY <1>1

(* The fields of the two halves.                                           *)
LEMMA UpperFields ==
  ASSUME NEW n \in Int, 0 <= n, n < 65536
  PROVE  /\ n \div 1024 \in Int /\ 0 <= n \div 1024 /\ n \div 1024 < 64
         /\ n \div 1024 \in 0 .. 63
         /\ (n \div 32) % 32 \in 0 .. 31 /\ n % 32 \in 0 .. 31
         /\ n = (n \div 1024) * 1024 + ((n \div 32) % 32) * 32 + (n % 32)
         /\ n = (n \div 1024) * 1024 + (n % 1024)
<1>1. /\ n \div 1024 \in Int /\ 0 <= n \div 1024 /\ n \div 1024 < 64
      /\ n = (n \div 1024) * 1024 + (n % 1024)
  OBVIOUS
<1>2. (n \div 32) % 32 \in 0 .. 31 /\ n % 32 \in 0 .. 31
  OBVIOUS
<1>3. n = (n \div 1024) * 1024 + ((n \div 32) % 32) * 32 + (n % 32)
  BY SMTT(30)
<1> QED
  BY <1>1, <1>2, <1>3

LEMMA LowerFields ==
  ASSUME NEW n \in Int, 0 <= n, n < 65536
  PROVE  /\ n \div 2048 \in 0 .. 31 /\ (n \div 64) % 32 \in 0 .. 31 /\ n % 64 \in 0 .. 63
         /\ n = (n \div 2048) * 2048 + ((n \div 64) % 32) * 64 + (n % 64)
OBVIOUS

LEMMA InField5 == ASSUME NEW n \in 0 .. 31 PROVE n % 32 = n
OBVIOUS

LEMMA InField6 == ASSUME NEW n \in 0 .. 63 PROVE n % 64 = n
OBVIOUS

LEMMA SignedHalfBack ==
  ASSUME NEW n \in Int, 0 <= n, n < 65536
  PROVE  SignedHalf(n) \in Int /\ SignedHalf(n) % 65536 = n
BY DEF SignedHalf, Half

(* The decoder's fields are in range, and each format put together again   *)
(* gives the word.                                                         *)
LEMMA DecodedFields ==
  ASSUME NEW w \in InstrWord
  PROVE  LET i == Decode(w)
         IN  /\ i.opcode \in 0 .. 63 /\ i.rs \in 0 .. 31 /\ i.rt \in 0 .. 31
             /\ i.rd \in 0 .. 31 /\ i.shamt \in 0 .. 31 /\ i.funct \in 0 .. 63
             /\ i.imm \in Int /\ i.uimm \in Int /\ i.target \in Nat
<1>1. w.hi \in Int /\ 0 <= w.hi /\ w.hi < 65536 /\ w.lo \in Int /\ 0 <= w.lo /\ w.lo < 65536
  BY WordHalves, HalfIsInt
<1>2. (w.hi % 1024) * Half + w.lo \in Nat
  BY <1>1 DEF Half
<1> QED
  BY <1>1, <1>2, UpperFields, LowerFields, SignedHalfBack DEF Decode

LEMMA EncodedFields ==
  ASSUME NEW w \in InstrWord
  PROVE  LET i == Decode(w)
         IN  /\ EncodeFields(i.opcode, i.funct, i.rs, i.rt, i.rd, i.shamt) = w
             /\ EncodeI(i.opcode, i.rs, i.rt, i.imm) = w
             /\ EncodeI(i.opcode, i.rs, i.rt, i.uimm) = w
             /\ EncodeJ(i.opcode, i.target) = w
<1> DEFINE i == Decode(w)
<1>1. w.hi \in Int /\ 0 <= w.hi /\ w.hi < 65536 /\ w.lo \in Int /\ 0 <= w.lo /\ w.lo < 65536
  BY WordHalves, HalfIsInt
<1>2. Upper(i.opcode, i.rs, i.rt) = w.hi
  <2>1. /\ (w.hi \div 1024) % 64 = w.hi \div 1024
        /\ ((w.hi \div 32) % 32) % 32 = (w.hi \div 32) % 32 /\ (w.hi % 32) % 32 = w.hi % 32
    BY <1>1, UpperFields, InField5, InField6
  <2> QED
    BY <1>1, <2>1, UpperFields DEF Upper, Decode
<1>3. (i.rd % 32) * 2048 + (i.shamt % 32) * 64 + (i.funct % 64) = w.lo
  <2>1. /\ (w.lo \div 2048) % 32 = w.lo \div 2048
        /\ ((w.lo \div 64) % 32) % 32 = (w.lo \div 64) % 32 /\ (w.lo % 64) % 64 = w.lo % 64
    BY <1>1, LowerFields, InField5, InField6
  <2> QED
    BY <1>1, <2>1, LowerFields DEF Decode
<1>4. i.imm % Half = w.lo /\ i.uimm % Half = w.lo
  BY <1>1, SignedHalfBack DEF Decode, Half
<1>5. (i.opcode % 64) * 1024 + ((i.target \div Half) % 1024) = w.hi /\ i.target % Half = w.lo
  <2> DEFINE u == w.hi % 1024
  <2>1. u \in Int /\ 0 <= u /\ u < 1024
    BY <1>1
  <2>2. (u * 65536 + w.lo) \div 65536 = u /\ (u * 65536 + w.lo) % 65536 = w.lo /\ u % 1024 = u
    <3> HIDE DEF u
    <3> QED BY <1>1, <2>1
  <2>3. (w.hi \div 1024) % 64 = w.hi \div 1024
    BY <1>1, UpperFields, InField6
  <2>4. i.target = u * 65536 + w.lo /\ i.opcode = w.hi \div 1024
    BY DEF Decode, Half
  <2>5. w.hi = (w.hi \div 1024) * 1024 + u
    BY <1>1, UpperFields
  <2> HIDE DEF i, u
  <2> QED
    BY <2>2, <2>3, <2>4, <2>5 DEF Half
<1> HIDE DEF i
<1>6. w = [hi |-> w.hi, lo |-> w.lo]
  BY WordHalves
<1>7. EncodeFields(i.opcode, i.funct, i.rs, i.rt, i.rd, i.shamt) = w
  BY <1>2, <1>3, <1>6 DEF EncodeFields
<1>8. EncodeI(i.opcode, i.rs, i.rt, i.imm) = w /\ EncodeI(i.opcode, i.rs, i.rt, i.uimm) = w
  BY <1>2, <1>4, <1>6 DEF EncodeI
<1>9. EncodeJ(i.opcode, i.target) = w
  BY <1>5, <1>6 DEF EncodeJ
<1> QED
  BY <1>7, <1>8, <1>9 DEF i

-----------------------------------------------------------------------------
(* Names.                                                                  *)
LEMMA NamedFound ==
  ASSUME NEW table, NEW names, NEW c
  PROVE  /\ Named(table, names, c) # Unknown =>
              Named(table, names, c) \in names /\ table[Named(table, names, c)] = c
         /\ (\E n \in names : table[n] = c) /\ Unknown \notin names =>
              Named(table, names, c) # Unknown
BY DEF Named

Singles == {"jr", "jalr", "mfhi", "mthi", "mflo", "mtlo", "movz", "movn", "syscall", "break"}

LEMMA SpecialNamesAre ==
  SpecialNames = Shifts \union ThreeRegs \union MulDivs \union Traps \union Singles
BY DEF SpecialNames, SpecialFn, Shifts, ThreeRegs, MulDivs, Traps, Singles

LEMMA OpcodeNamesAre ==
  OpcodeNames = Ariths \union LoadStore \union {"lui", "j", "jal", "beq", "bne", "blez", "bgtz"}
BY DEF OpcodeNames, Opcode, Ariths, LoadStore

LEMMA RegimmNamesAre ==
  RegimmNames = {"bltz", "bgez", "bltzl", "bgezl", "bltzal", "bgezal"}
BY DEF RegimmNames, RegimmRt

LEMMA UnknownIsNoName ==
  Unknown \notin SpecialNames /\ Unknown \notin OpcodeNames /\ Unknown \notin RegimmNames
BY SpecialNamesAre, OpcodeNamesAre, RegimmNamesAre
   DEF Unknown, Shifts, ThreeRegs, MulDivs, Traps, Singles, Ariths, LoadStore

LEMMA OperandFields ==
  ASSUME NEW mn, NEW a, NEW r, NEW base
  PROVE  /\ Text(mn, a).mn = mn /\ Text(mn, a).args = a
         /\ Reg(r).kind = "reg" /\ Reg(r).n = r /\ RegOf(Reg(r)) = r
         /\ Num(r).kind = "num" /\ Num(r).n = r /\ IsInt(Num(r))
         /\ HexNum(r).kind = "hex" /\ HexNum(r).n = r /\ IsInt(HexNum(r))
         /\ Based(r, base).kind = "mem" /\ Based(r, base).n = r /\ Based(r, base).base = base
         /\ Target(r).kind = "addr" /\ Target(r).n = r
         /\ Absent.kind = "none"
BY DEF Text, Reg, Num, HexNum, Based, Target, Absent, Operand, RegOf, IsInt

LEMMA Tokens ==
  ASSUME NEW t
  PROVE  /\ \A a : t.args = <<a>> => Token(t, 1) = a /\ Token(t, 2) = Absent
         /\ \A a, b : t.args = <<a, b>> =>
              Token(t, 1) = a /\ Token(t, 2) = b /\ Token(t, 3) = Absent
         /\ \A a, b, c : t.args = <<a, b, c>> =>
              Token(t, 1) = a /\ Token(t, 2) = b /\ Token(t, 3) = c
<1>1. ASSUME NEW a, t.args = <<a>> PROVE Token(t, 1) = a /\ Token(t, 2) = Absent
  <2>1. Len(t.args) = 1 /\ t.args[1] = a
    BY <1>1
  <2> QED
    BY <2>1 DEF Token
<1>2. ASSUME NEW a, NEW b, t.args = <<a, b>>
      PROVE  Token(t, 1) = a /\ Token(t, 2) = b /\ Token(t, 3) = Absent
  <2>1. Len(t.args) = 2 /\ t.args[1] = a /\ t.args[2] = b
    BY <1>2
  <2> QED
    BY <2>1 DEF Token
<1>3. ASSUME NEW a, NEW b, NEW c, t.args = <<a, b, c>>
      PROVE  Token(t, 1) = a /\ Token(t, 2) = b /\ Token(t, 3) = c
  <2>1. Len(t.args) = 3 /\ t.args[1] = a /\ t.args[2] = b /\ t.args[3] = c
    BY <1>3
  <2> QED
    BY <2>1 DEF Token
<1> QED
  BY <1>1, <1>2, <1>3

(* The groups of mnemonics the assembler tells apart.                      *)
LEMMA Dispatched ==
  ASSUME NEW t, NEW here, NEW labels
  PROVE  LET word == AssembleInstruction(t, here, labels)
         IN
         /\ t.mn \in ThreeRegs => word = ReadThreeRegs(t.mn, Token(t, 1), Token(t, 2), Token(t, 3))
         /\ t.mn \in {"mul"} => word = ReadMul(Token(t, 1), Token(t, 2), Token(t, 3))
         /\ t.mn \in Shifts => word = ReadShift(t.mn, Token(t, 1), Token(t, 2), Token(t, 3))
         /\ t.mn \in MulDivs => word = ReadMulDiv(t.mn, Token(t, 1), Token(t, 2))
         /\ t.mn \in {"mfhi", "mflo"} => word = ReadFrom(t.mn, Token(t, 1))
         /\ t.mn \in {"mthi", "mtlo", "jr"} => word = ReadTo(t.mn, Token(t, 1))
         /\ t.mn \in {"jalr"} => word = ReadJalr(Token(t, 1), Token(t, 2))
         /\ t.mn \in {"syscall"} => word = EncodeR(SpecialFn.syscall, 0, 0, 0, 0)
         /\ t.mn \in Ariths => word = ReadArith(t.mn, Token(t, 1), Token(t, 2), Token(t, 3))
         /\ t.mn \in {"lui"} => word = ReadLui(Token(t, 1), Token(t, 2))
         /\ t.mn \in LoadStore => word = ReadMemory(t.mn, Token(t, 1), Token(t, 2), Token(t, 3))
         /\ t.mn \in {"beq", "bne"} => word = ReadCompare(t.mn, Token(t, 1), Token(t, 2), Token(t, 3), here, labels)
         /\ t.mn \in {"blez", "bgtz"} => word = ReadZero(t.mn, Token(t, 1), Token(t, 2), here, labels)
         /\ t.mn \in {"bltz", "bgez"} => word = ReadSign(t.mn, Token(t, 1), Token(t, 2), here, labels)
         /\ t.mn \in {"j", "jal"} => word = ReadJump(t.mn, Token(t, 1), labels)
         /\ t.mn \in NotAssembled => word = Refused
<1> USE DEF ThreeRegs, Shifts, MulDivs, Ariths, LoadStore, NotAssembled, Traps
<1>1. ASSUME t.mn \in ThreeRegs
      PROVE  AssembleInstruction(t, here, labels) = ReadThreeRegs(t.mn, Token(t, 1), Token(t, 2), Token(t, 3))
  <2>1. t.mn \notin UNION {{"mul"}, Shifts, MulDivs, {"mfhi", "mflo"}, {"mthi", "mtlo", "jr"}, {"jalr"}, {"syscall"}, Ariths, {"lui"}, LoadStore, {"beq", "bne"}, {"blez", "bgtz"}, {"bltz", "bgez"}, {"j", "jal"}, NotAssembled, DOMAIN Pseudo}
    BY <1>1 DEF Pseudo
  <2> QED
    BY <1>1, <2>1 DEF AssembleInstruction, AssembleText
<1>2. ASSUME t.mn \in {"mul"}
      PROVE  AssembleInstruction(t, here, labels) = ReadMul(Token(t, 1), Token(t, 2), Token(t, 3))
  <2>1. t.mn \notin UNION {ThreeRegs, Shifts, MulDivs, {"mfhi", "mflo"}, {"mthi", "mtlo", "jr"}, {"jalr"}, {"syscall"}, Ariths, {"lui"}, LoadStore, {"beq", "bne"}, {"blez", "bgtz"}, {"bltz", "bgez"}, {"j", "jal"}, NotAssembled, DOMAIN Pseudo}
    BY <1>2 DEF Pseudo
  <2> QED
    BY <1>2, <2>1 DEF AssembleInstruction, AssembleText
<1>3. ASSUME t.mn \in Shifts
      PROVE  AssembleInstruction(t, here, labels) = ReadShift(t.mn, Token(t, 1), Token(t, 2), Token(t, 3))
  <2>1. t.mn \notin UNION {ThreeRegs, {"mul"}, MulDivs, {"mfhi", "mflo"}, {"mthi", "mtlo", "jr"}, {"jalr"}, {"syscall"}, Ariths, {"lui"}, LoadStore, {"beq", "bne"}, {"blez", "bgtz"}, {"bltz", "bgez"}, {"j", "jal"}, NotAssembled, DOMAIN Pseudo}
    BY <1>3 DEF Pseudo
  <2> QED
    BY <1>3, <2>1 DEF AssembleInstruction, AssembleText
<1>4. ASSUME t.mn \in MulDivs
      PROVE  AssembleInstruction(t, here, labels) = ReadMulDiv(t.mn, Token(t, 1), Token(t, 2))
  <2>1. t.mn \notin UNION {ThreeRegs, {"mul"}, Shifts, {"mfhi", "mflo"}, {"mthi", "mtlo", "jr"}, {"jalr"}, {"syscall"}, Ariths, {"lui"}, LoadStore, {"beq", "bne"}, {"blez", "bgtz"}, {"bltz", "bgez"}, {"j", "jal"}, NotAssembled, DOMAIN Pseudo}
    BY <1>4 DEF Pseudo
  <2> QED
    BY <1>4, <2>1 DEF AssembleInstruction, AssembleText
<1>5. ASSUME t.mn \in {"mfhi", "mflo"}
      PROVE  AssembleInstruction(t, here, labels) = ReadFrom(t.mn, Token(t, 1))
  <2>1. t.mn \notin UNION {ThreeRegs, {"mul"}, Shifts, MulDivs, {"mthi", "mtlo", "jr"}, {"jalr"}, {"syscall"}, Ariths, {"lui"}, LoadStore, {"beq", "bne"}, {"blez", "bgtz"}, {"bltz", "bgez"}, {"j", "jal"}, NotAssembled, DOMAIN Pseudo}
    BY <1>5 DEF Pseudo
  <2> QED
    BY <1>5, <2>1 DEF AssembleInstruction, AssembleText
<1>6. ASSUME t.mn \in {"mthi", "mtlo", "jr"}
      PROVE  AssembleInstruction(t, here, labels) = ReadTo(t.mn, Token(t, 1))
  <2>1. t.mn \notin UNION {ThreeRegs, {"mul"}, Shifts, MulDivs, {"mfhi", "mflo"}, {"jalr"}, {"syscall"}, Ariths, {"lui"}, LoadStore, {"beq", "bne"}, {"blez", "bgtz"}, {"bltz", "bgez"}, {"j", "jal"}, NotAssembled, DOMAIN Pseudo}
    BY <1>6 DEF Pseudo
  <2> QED
    BY <1>6, <2>1 DEF AssembleInstruction, AssembleText
<1>7. ASSUME t.mn \in {"jalr"}
      PROVE  AssembleInstruction(t, here, labels) = ReadJalr(Token(t, 1), Token(t, 2))
  <2>1. t.mn \notin UNION {ThreeRegs, {"mul"}, Shifts, MulDivs, {"mfhi", "mflo"}, {"mthi", "mtlo", "jr"}, {"syscall"}, Ariths, {"lui"}, LoadStore, {"beq", "bne"}, {"blez", "bgtz"}, {"bltz", "bgez"}, {"j", "jal"}, NotAssembled, DOMAIN Pseudo}
    BY <1>7 DEF Pseudo
  <2> QED
    BY <1>7, <2>1 DEF AssembleInstruction, AssembleText
<1>8. ASSUME t.mn \in {"syscall"}
      PROVE  AssembleInstruction(t, here, labels) = EncodeR(SpecialFn.syscall, 0, 0, 0, 0)
  <2>1. t.mn \notin UNION {ThreeRegs, {"mul"}, Shifts, MulDivs, {"mfhi", "mflo"}, {"mthi", "mtlo", "jr"}, {"jalr"}, Ariths, {"lui"}, LoadStore, {"beq", "bne"}, {"blez", "bgtz"}, {"bltz", "bgez"}, {"j", "jal"}, NotAssembled, DOMAIN Pseudo}
    BY <1>8 DEF Pseudo
  <2> QED
    BY <1>8, <2>1 DEF AssembleInstruction, AssembleText
<1>9. ASSUME t.mn \in Ariths
      PROVE  AssembleInstruction(t, here, labels) = ReadArith(t.mn, Token(t, 1), Token(t, 2), Token(t, 3))
  <2>1. t.mn \notin UNION {ThreeRegs, {"mul"}, Shifts, MulDivs, {"mfhi", "mflo"}, {"mthi", "mtlo", "jr"}, {"jalr"}, {"syscall"}, {"lui"}, LoadStore, {"beq", "bne"}, {"blez", "bgtz"}, {"bltz", "bgez"}, {"j", "jal"}, NotAssembled, DOMAIN Pseudo}
    BY <1>9 DEF Pseudo
  <2> QED
    BY <1>9, <2>1 DEF AssembleInstruction, AssembleText
<1>10. ASSUME t.mn \in {"lui"}
      PROVE  AssembleInstruction(t, here, labels) = ReadLui(Token(t, 1), Token(t, 2))
  <2>1. t.mn \notin UNION {ThreeRegs, {"mul"}, Shifts, MulDivs, {"mfhi", "mflo"}, {"mthi", "mtlo", "jr"}, {"jalr"}, {"syscall"}, Ariths, LoadStore, {"beq", "bne"}, {"blez", "bgtz"}, {"bltz", "bgez"}, {"j", "jal"}, NotAssembled, DOMAIN Pseudo}
    BY <1>10 DEF Pseudo
  <2> QED
    BY <1>10, <2>1 DEF AssembleInstruction, AssembleText
<1>11. ASSUME t.mn \in LoadStore
      PROVE  AssembleInstruction(t, here, labels) = ReadMemory(t.mn, Token(t, 1), Token(t, 2), Token(t, 3))
  <2>1. t.mn \notin UNION {ThreeRegs, {"mul"}, Shifts, MulDivs, {"mfhi", "mflo"}, {"mthi", "mtlo", "jr"}, {"jalr"}, {"syscall"}, Ariths, {"lui"}, {"beq", "bne"}, {"blez", "bgtz"}, {"bltz", "bgez"}, {"j", "jal"}, NotAssembled, DOMAIN Pseudo}
    BY <1>11 DEF Pseudo
  <2> QED
    BY <1>11, <2>1 DEF AssembleInstruction, AssembleText
<1>12. ASSUME t.mn \in {"beq", "bne"}
      PROVE  AssembleInstruction(t, here, labels) = ReadCompare(t.mn, Token(t, 1), Token(t, 2), Token(t, 3), here, labels)
  <2>1. t.mn \notin UNION {ThreeRegs, {"mul"}, Shifts, MulDivs, {"mfhi", "mflo"}, {"mthi", "mtlo", "jr"}, {"jalr"}, {"syscall"}, Ariths, {"lui"}, LoadStore, {"blez", "bgtz"}, {"bltz", "bgez"}, {"j", "jal"}, NotAssembled, DOMAIN Pseudo}
    BY <1>12 DEF Pseudo
  <2> QED
    BY <1>12, <2>1 DEF AssembleInstruction, AssembleText
<1>13. ASSUME t.mn \in {"blez", "bgtz"}
      PROVE  AssembleInstruction(t, here, labels) = ReadZero(t.mn, Token(t, 1), Token(t, 2), here, labels)
  <2>1. t.mn \notin UNION {ThreeRegs, {"mul"}, Shifts, MulDivs, {"mfhi", "mflo"}, {"mthi", "mtlo", "jr"}, {"jalr"}, {"syscall"}, Ariths, {"lui"}, LoadStore, {"beq", "bne"}, {"bltz", "bgez"}, {"j", "jal"}, NotAssembled, DOMAIN Pseudo}
    BY <1>13 DEF Pseudo
  <2> QED
    BY <1>13, <2>1 DEF AssembleInstruction, AssembleText
<1>14. ASSUME t.mn \in {"bltz", "bgez"}
      PROVE  AssembleInstruction(t, here, labels) = ReadSign(t.mn, Token(t, 1), Token(t, 2), here, labels)
  <2>1. t.mn \notin UNION {ThreeRegs, {"mul"}, Shifts, MulDivs, {"mfhi", "mflo"}, {"mthi", "mtlo", "jr"}, {"jalr"}, {"syscall"}, Ariths, {"lui"}, LoadStore, {"beq", "bne"}, {"blez", "bgtz"}, {"j", "jal"}, NotAssembled, DOMAIN Pseudo}
    BY <1>14 DEF Pseudo
  <2> QED
    BY <1>14, <2>1 DEF AssembleInstruction, AssembleText
<1>15. ASSUME t.mn \in {"j", "jal"}
      PROVE  AssembleInstruction(t, here, labels) = ReadJump(t.mn, Token(t, 1), labels)
  <2>1. t.mn \notin UNION {ThreeRegs, {"mul"}, Shifts, MulDivs, {"mfhi", "mflo"}, {"mthi", "mtlo", "jr"}, {"jalr"}, {"syscall"}, Ariths, {"lui"}, LoadStore, {"beq", "bne"}, {"blez", "bgtz"}, {"bltz", "bgez"}, NotAssembled, DOMAIN Pseudo}
    BY <1>15 DEF Pseudo
  <2> QED
    BY <1>15, <2>1 DEF AssembleInstruction, AssembleText
<1>16. ASSUME t.mn \in NotAssembled
      PROVE  AssembleInstruction(t, here, labels) = Refused
  <2>1. t.mn \notin UNION {ThreeRegs, {"mul"}, Shifts, MulDivs, {"mfhi", "mflo"}, {"mthi", "mtlo", "jr"}, {"jalr"}, {"syscall"}, Ariths, {"lui"}, LoadStore, {"beq", "bne"}, {"blez", "bgtz"}, {"bltz", "bgez"}, {"j", "jal"}, DOMAIN Pseudo}
    BY <1>16 DEF Pseudo
  <2> QED
    BY <1>16, <2>1 DEF AssembleInstruction, AssembleText
<1> QED
  BY <1>1, <1>2, <1>3, <1>4, <1>5, <1>6, <1>7, <1>8, <1>9, <1>10, <1>11, <1>12, <1>13, <1>14, <1>15, <1>16

-----------------------------------------------------------------------------
(* What is listed: the name of the word's function or opcode, and the      *)
(* operands the name calls for.                                            *)
LEMMA SpecialListed ==
  ASSUME NEW i
  PROVE  LET t == ShowSpecial(i)
         IN  /\ t.mn # Unknown => t.mn \in SpecialNames /\ SpecialFn[t.mn] = i.funct
             /\ (\E n \in SpecialNames : SpecialFn[n] = i.funct) => t.mn # Unknown
             /\ t.mn \in ThreeRegs => t.args = <<Reg(i.rd), Reg(i.rs), Reg(i.rt)>>
             /\ t.mn \in Shifts => t.args = <<Reg(i.rd), Reg(i.rt), Num(i.shamt)>>
             /\ t.mn \in MulDivs \union Traps => t.args = <<Reg(i.rs), Reg(i.rt)>>
             /\ t.mn \in {"mfhi", "mflo"} => t.args = <<Reg(i.rd)>>
             /\ t.mn \in {"jr", "mthi", "mtlo"} => t.args = <<Reg(i.rs)>>
             /\ t.mn = "jalr" => t.args = <<IF i.rd = 31 THEN Absent ELSE Reg(i.rd), Reg(i.rs)>>
             /\ t.mn \in {"syscall", "break"} => t.args = << >>
             /\ t.mn \in {"movz", "movn"} => t.args = <<Reg(i.rd), Reg(i.rs), Reg(i.rt)>>
<1> DEFINE mn == Named(SpecialFn, SpecialNames, i.funct)
           t  == ShowSpecial(i)
<1>1. t.mn = mn
  BY OperandFields DEF ShowSpecial
<1>2. /\ mn # Unknown => mn \in SpecialNames /\ SpecialFn[mn] = i.funct
      /\ (\E n \in SpecialNames : SpecialFn[n] = i.funct) => mn # Unknown
  BY NamedFound, UnknownIsNoName
<1> USE DEF Unknown, ThreeRegs, Shifts, MulDivs, Traps
<1>3. mn \in ThreeRegs \union {"movz", "movn"} =>
        t.args = <<Reg(i.rd), Reg(i.rs), Reg(i.rt)>>
  <2> SUFFICES ASSUME mn \in ThreeRegs \union {"movz", "movn"}
               PROVE  t.args = <<Reg(i.rd), Reg(i.rs), Reg(i.rt)>>
    OBVIOUS
  <2>1. /\ mn # Unknown /\ mn \notin Shifts \union MulDivs \union Traps
        /\ mn \notin {"jr", "mthi", "mtlo", "mfhi", "mflo", "jalr", "syscall", "break"}
    OBVIOUS
  <2> HIDE DEF mn, Unknown, ThreeRegs, Shifts, MulDivs, Traps
  <2>2. ShowSpecial(i) = Text(mn, <<Reg(i.rd), Reg(i.rs), Reg(i.rt)>>)
    BY <2>1 DEF ShowSpecial, mn
  <2> QED
    BY <2>2, OperandFields
<1>4. mn \in Shifts => t.args = <<Reg(i.rd), Reg(i.rt), Num(i.shamt)>>
  BY OperandFields DEF ShowSpecial
<1>5. mn \in MulDivs \union Traps => t.args = <<Reg(i.rs), Reg(i.rt)>>
  BY OperandFields DEF ShowSpecial
<1>6. mn \in {"mfhi", "mflo"} => t.args = <<Reg(i.rd)>>
  BY OperandFields DEF ShowSpecial
<1>7. mn \in {"jr", "mthi", "mtlo"} => t.args = <<Reg(i.rs)>>
  BY OperandFields DEF ShowSpecial
<1>8. mn = "jalr" => t.args = <<IF i.rd = 31 THEN Absent ELSE Reg(i.rd), Reg(i.rs)>>
  BY OperandFields DEF ShowSpecial
<1>9. mn \in {"syscall", "break"} => t.args = << >>
  BY OperandFields DEF ShowSpecial
<1> QED
  BY <1>1, <1>2, <1>3, <1>4, <1>5, <1>6, <1>7, <1>8, <1>9

LEMMA OpcodeListed ==
  ASSUME NEW i, NEW addr
  PROVE  LET t == ShowOpcode(i, addr)
         IN  /\ t.mn # Unknown => t.mn \in OpcodeNames /\ Opcode[t.mn] = i.opcode
             /\ (\E n \in OpcodeNames : Opcode[n] = i.opcode) => t.mn # Unknown
             /\ t.mn \in Ariths => t.args = <<Reg(i.rt), Reg(i.rs), Num(i.imm)>>
             /\ t.mn \in LoadStore => t.args = <<Reg(i.rt), Based(i.imm, i.rs)>>
             /\ t.mn = "lui" => t.args = <<Reg(i.rt), HexNum(i.uimm)>>
             /\ t.mn \in {"j", "jal"} => t.args = <<JumpTo(i)>>
             /\ t.mn \in {"beq", "bne"} => t.args = <<Reg(i.rs), Reg(i.rt), BranchTo(i, addr)>>
             /\ t.mn \in {"blez", "bgtz"} => t.args = <<Reg(i.rs), BranchTo(i, addr)>>
<1> DEFINE mn == Named(Opcode, OpcodeNames, i.opcode)
           t  == ShowOpcode(i, addr)
<1>1. t.mn = mn
  BY OperandFields DEF ShowOpcode
<1>2. /\ mn # Unknown => mn \in OpcodeNames /\ Opcode[mn] = i.opcode
      /\ (\E n \in OpcodeNames : Opcode[n] = i.opcode) => mn # Unknown
  BY NamedFound, UnknownIsNoName
<1> USE DEF Unknown, Ariths, LoadStore
<1>3. mn \in Ariths => t.args = <<Reg(i.rt), Reg(i.rs), Num(i.imm)>>
  BY OperandFields DEF ShowOpcode
<1>4. mn \in LoadStore => t.args = <<Reg(i.rt), Based(i.imm, i.rs)>>
  BY OperandFields DEF ShowOpcode
<1>5. mn = "lui" => t.args = <<Reg(i.rt), HexNum(i.uimm)>>
  BY OperandFields DEF ShowOpcode
<1>6. mn \in {"j", "jal"} => t.args = <<JumpTo(i)>>
  BY OperandFields DEF ShowOpcode
<1>7. mn \in {"beq", "bne"} => t.args = <<Reg(i.rs), Reg(i.rt), BranchTo(i, addr)>>
  BY OperandFields DEF ShowOpcode
<1>8. mn \in {"blez", "bgtz"} => t.args = <<Reg(i.rs), BranchTo(i, addr)>>
  BY OperandFields DEF ShowOpcode
<1> QED
  BY <1>1, <1>2, <1>3, <1>4, <1>5, <1>6, <1>7, <1>8

LEMMA RegimmListed ==
  ASSUME NEW c
  PROVE  LET mn == Named(RegimmRt, RegimmNames, c)
         IN  /\ mn # Unknown => mn \in RegimmNames /\ RegimmRt[mn] = c
             /\ (\E n \in RegimmNames : RegimmRt[n] = c) => mn # Unknown
BY NamedFound, UnknownIsNoName

(* Which part of the disassembler lists a word.                            *)
LEMMA ListedBy ==
  ASSUME NEW w, NEW addr
  PROVE  LET i == Decode(w)
         IN  /\ i.opcode = SPECIAL => Disasm(w, addr) = ShowSpecial(i)
             /\ i.opcode = SPECIAL2 => Disasm(w, addr) = ShowSpecial2(i)
             /\ i.opcode = REGIMM =>
                  Disasm(w, addr) = Text(Named(RegimmRt, RegimmNames, i.rt),
                                         <<Reg(i.rs), BranchTo(i, addr)>>)
             /\ i.opcode \notin {SPECIAL, SPECIAL2, REGIMM} =>
                  Disasm(w, addr) = ShowOpcode(i, addr)
BY DEF Disasm, SPECIAL, SPECIAL2, REGIMM

(* The name of a word does not depend on where it stands.                  *)
LEMMA SameName ==
  ASSUME NEW w, NEW a1, NEW a2
  PROVE  Disasm(w, a1).mn = Disasm(w, a2).mn
<1> DEFINE i == Decode(w)
<1>1. CASE i.opcode \in {SPECIAL, SPECIAL2}
  BY <1>1, ListedBy
<1>2. CASE i.opcode = REGIMM
  <2>1. /\ Disasm(w, a1) = Text(Named(RegimmRt, RegimmNames, i.rt), <<Reg(i.rs), BranchTo(i, a1)>>)
        /\ Disasm(w, a2) = Text(Named(RegimmRt, RegimmNames, i.rt), <<Reg(i.rs), BranchTo(i, a2)>>)
    BY <1>2, ListedBy
  <2> QED
    BY <2>1, OperandFields
<1>3. CASE i.opcode \notin {SPECIAL, SPECIAL2, REGIMM}
  <2>1. ShowOpcode(i, a1).mn = ShowOpcode(i, a2).mn
    BY OperandFields DEF ShowOpcode
  <2> QED
    BY <1>3, <2>1, ListedBy
<1> QED
  BY <1>1, <1>2, <1>3

(* The disassembler has a name for exactly the words the machine executes. *)
THEOREM NamesExecuted ==
  ASSUME NEW w \in InstrWord, NEW addr
  PROVE  Disasm(w, addr).mn = Unknown <=> ~Executes(w)
<1> DEFINE i == Decode(w)
           t == Disasm(w, addr)
<1>1. CASE i.opcode = SPECIAL
  <2>1. Executes(w) <=> \E n \in SpecialNames : SpecialFn[n] = i.funct
    BY <1>1, SpecialNamesAre DEF Executes, SPECIAL, SPECIAL2, REGIMM, Singles
  <2>2. t = ShowSpecial(i)
    BY <1>1, ListedBy
  <2>3. ShowSpecial(i).mn # Unknown <=> \E n \in SpecialNames : SpecialFn[n] = i.funct
    BY SpecialListed
  <2> QED
    BY <2>1, <2>2, <2>3
<1>2. CASE i.opcode = SPECIAL2
  <2>1. Executes(w) <=> i.funct = MUL
    BY <1>2 DEF Executes, SPECIAL, SPECIAL2, REGIMM
  <2>2. t.mn = Unknown <=> i.funct # MUL
    <3>1. t = ShowSpecial2(i)
      BY <1>2, ListedBy
    <3>2. ShowSpecial2(i).mn = IF i.funct = MUL THEN "mul" ELSE Unknown
      BY OperandFields DEF ShowSpecial2
    <3> QED
      BY <3>1, <3>2 DEF Unknown
  <2> QED
    BY <2>1, <2>2
<1>3. CASE i.opcode = REGIMM
  <2>1. Executes(w) <=> \E n \in RegimmNames : RegimmRt[n] = i.rt
    BY <1>3 DEF Executes, SPECIAL, SPECIAL2, REGIMM
  <2>2. t.mn = Named(RegimmRt, RegimmNames, i.rt)
    <3>1. t = Text(Named(RegimmRt, RegimmNames, i.rt), <<Reg(i.rs), BranchTo(i, addr)>>)
      BY <1>3, ListedBy
    <3> QED
      BY <3>1, OperandFields
  <2> QED
    BY <2>1, <2>2, RegimmListed
<1>4. CASE i.opcode \notin {SPECIAL, SPECIAL2, REGIMM}
  <2>1. Executes(w) <=> \E n \in OpcodeNames : Opcode[n] = i.opcode
    BY <1>4, OpcodeNamesAre DEF Executes
  <2>2. t = ShowOpcode(i, addr)
    BY <1>4, ListedBy
  <2>3. ShowOpcode(i, addr).mn # Unknown <=> \E n \in OpcodeNames : Opcode[n] = i.opcode
    BY OpcodeListed
  <2> QED
    BY <2>1, <2>2, <2>3
<1> QED
  BY <1>1, <1>2, <1>3, <1>4

-----------------------------------------------------------------------------
(* Back from the line to the word.                                         *)
LEMMA CanonicalFields ==
  ASSUME NEW w, Canonical(w), NEW addr
  PROVE  LET i  == Decode(w)
             mn == Disasm(w, addr).mn
         IN  /\ mn \in Shifts => i.rs = 0
             /\ mn \in {"mfhi", "mflo"} => i.rs = 0 /\ i.rt = 0 /\ i.shamt = 0
             /\ mn \in {"mthi", "mtlo", "jr"} => i.rt = 0 /\ i.rd = 0 /\ i.shamt = 0
             /\ mn = "jalr" => i.rt = 0 /\ i.shamt = 0
             /\ mn = "syscall" => w.hi = 0 /\ w.lo = SpecialFn.syscall
             /\ mn \in MulDivs => i.rd = 0 /\ i.shamt = 0
             /\ mn \in ThreeRegs \union {"mul"} => i.shamt = 0
             /\ mn = "lui" => i.rs = 0
             /\ mn \in {"blez", "bgtz"} => i.rt = 0
<1> DEFINE i  == Decode(w)
           mn == Disasm(w, 0).mn
<1>1. Disasm(w, addr).mn = mn
  BY SameName
<1> USE DEF Shifts, MulDivs, ThreeRegs
<1>2. mn \in Shifts => i.rs = 0
  BY DEF Canonical
<1>3. mn \in {"mfhi", "mflo"} => i.rs = 0 /\ i.rt = 0 /\ i.shamt = 0
  BY DEF Canonical
<1>4. mn \in {"mthi", "mtlo", "jr"} => i.rt = 0 /\ i.rd = 0 /\ i.shamt = 0
  BY DEF Canonical
<1>5. mn = "jalr" => i.rt = 0 /\ i.shamt = 0
  BY DEF Canonical
<1>6. mn = "syscall" => w.hi = 0 /\ w.lo = SpecialFn.syscall
  BY DEF Canonical
<1>7. mn \in MulDivs => i.rd = 0 /\ i.shamt = 0
  BY DEF Canonical
<1>8. mn \in ThreeRegs \union {"mul"} => i.shamt = 0
  BY DEF Canonical
<1>9. mn = "lui" => i.rs = 0
  BY DEF Canonical
<1>10. mn \in {"blez", "bgtz"} => i.rt = 0
  BY DEF Canonical
<1> QED
  BY <1>1, <1>2, <1>3, <1>4, <1>5, <1>6, <1>7, <1>8, <1>9, <1>10

LEMMA Transfers ==
  ASSUME NEW t, NEW labels
  PROVE  /\ t.args = << >> => Reachable(t, labels)
         /\ \A a : t.args = <<a>> =>
              (Reachable(t, labels) <=> (a.kind = "addr" => a.n \in labels))
         /\ \A a, b : t.args = <<a, b>> =>
              (Reachable(t, labels) <=> /\ a.kind = "addr" => a.n \in labels
                                        /\ b.kind = "addr" => b.n \in labels)
         /\ \A a, b, c : t.args = <<a, b, c>> =>
              (Reachable(t, labels) <=> /\ a.kind = "addr" => a.n \in labels
                                        /\ b.kind = "addr" => b.n \in labels
                                        /\ c.kind = "addr" => c.n \in labels)
<1>1. ASSUME t.args = << >> PROVE Reachable(t, labels)
  <2>1. DOMAIN t.args = {}
    BY <1>1
  <2> QED
    BY <2>1 DEF Reachable
<1>2. ASSUME NEW a, t.args = <<a>>
      PROVE  Reachable(t, labels) <=> (a.kind = "addr" => a.n \in labels)
  <2>1. DOMAIN t.args = {1} /\ t.args[1] = a
    BY <1>2
  <2> QED
    BY <2>1 DEF Reachable
<1>3. ASSUME NEW a, NEW b, t.args = <<a, b>>
      PROVE  Reachable(t, labels) <=> /\ a.kind = "addr" => a.n \in labels
                                      /\ b.kind = "addr" => b.n \in labels
  <2>1. DOMAIN t.args = {1, 2} /\ t.args[1] = a /\ t.args[2] = b
    BY <1>3
  <2> QED
    BY <2>1 DEF Reachable
<1>4. ASSUME NEW a, NEW b, NEW c, t.args = <<a, b, c>>
      PROVE  Reachable(t, labels) <=> /\ a.kind = "addr" => a.n \in labels
                                      /\ b.kind = "addr" => b.n \in labels
                                      /\ c.kind = "addr" => c.n \in labels
  <2>1. DOMAIN t.args = {1, 2, 3} /\ t.args[1] = a /\ t.args[2] = b /\ t.args[3] = c
    BY <1>4
  <2> QED
    BY <2>1 DEF Reachable
<1> QED
  BY <1>1, <1>2, <1>3, <1>4

LEMMA SpecialReadsBack ==
  ASSUME NEW w \in InstrWord, Decode(w).opcode = SPECIAL, Canonical(w), NEW addr, NEW labels,
         Disasm(w, addr).mn # Unknown
  PROVE  AssembleInstruction(Disasm(w, addr), addr, labels) =
           IF Disasm(w, addr).mn \in NotAssembled \/ ~Reachable(Disasm(w, addr), labels)
           THEN Refused ELSE w
<1>0. SUFFICES ASSUME NEW i, i = Decode(w), NEW t, t = Disasm(w, addr)
               PROVE  AssembleInstruction(t, addr, labels) =
                        IF t.mn \in NotAssembled \/ ~Reachable(t, labels) THEN Refused ELSE w
  OBVIOUS
<1>1. t = ShowSpecial(i)
  BY <1>0, ListedBy
<1>2. t.mn \in SpecialNames /\ SpecialFn[t.mn] = i.funct
  BY <1>0, <1>1, SpecialListed
<1>3. i.rs >= 0 /\ i.rt >= 0 /\ i.rd >= 0 /\ i.shamt >= 0
  BY <1>0, DecodedFields
<1>4. EncodeR(i.funct, i.rs, i.rt, i.rd, i.shamt) = w
  BY <1>0, EncodedFields DEF EncodeR
<1>5. t.mn \notin NotAssembled <=>
        t.mn \in ThreeRegs \union Shifts \union MulDivs
                   \union {"mfhi", "mflo", "mthi", "mtlo", "jr", "jalr", "syscall"}
  BY <1>2, SpecialNamesAre DEF NotAssembled, ThreeRegs, Shifts, MulDivs, Traps, Singles
<1>6. CASE t.mn \in ThreeRegs
  <2>1. t.args = <<Reg(i.rd), Reg(i.rs), Reg(i.rt)>>
    BY <1>1, <1>6, SpecialListed
  <2>2. Token(t, 1) = Reg(i.rd) /\ Token(t, 2) = Reg(i.rs) /\ Token(t, 3) = Reg(i.rt)
    BY <2>1, Tokens
  <2>3. AssembleInstruction(t, addr, labels) = ReadThreeRegs(t.mn, Token(t, 1), Token(t, 2), Token(t, 3))
    BY <1>6, Dispatched
  <2>4. i.shamt = 0
    BY <1>0, <1>6, CanonicalFields
  <2>5. AssembleInstruction(t, addr, labels) = EncodeR(i.funct, i.rs, i.rt, i.rd, i.shamt)
    BY <1>2, <1>3, <2>2, <2>3, <2>4, OperandFields DEF ReadThreeRegs, If
  <2>6. Reachable(t, labels)
    <3>1. Reg(i.rd).kind # "addr" /\ Reg(i.rs).kind # "addr" /\ Reg(i.rt).kind # "addr"
      BY OperandFields
    <3> QED
      BY <2>1, <3>1, Transfers
  <2> QED
    BY <1>6, <1>4, <1>5, <2>5, <2>6
<1>7. CASE t.mn \in Shifts
  <2>1. t.args = <<Reg(i.rd), Reg(i.rt), Num(i.shamt)>>
    BY <1>1, <1>7, SpecialListed
  <2>2. Token(t, 1) = Reg(i.rd) /\ Token(t, 2) = Reg(i.rt) /\ Token(t, 3) = Num(i.shamt)
    BY <2>1, Tokens
  <2>3. AssembleInstruction(t, addr, labels) = ReadShift(t.mn, Token(t, 1), Token(t, 2), Token(t, 3))
    BY <1>7, Dispatched
  <2>4. i.rs = 0
    BY <1>0, <1>7, CanonicalFields
  <2>5. AssembleInstruction(t, addr, labels) = EncodeR(i.funct, i.rs, i.rt, i.rd, i.shamt)
    BY <1>2, <1>3, <2>2, <2>3, <2>4, OperandFields DEF ReadShift, If
  <2>6. Reachable(t, labels)
    <3>1. Reg(i.rd).kind # "addr" /\ Reg(i.rt).kind # "addr" /\ Num(i.shamt).kind # "addr"
      BY OperandFields
    <3> QED
      BY <2>1, <3>1, Transfers
  <2> QED
    BY <1>7, <1>4, <1>5, <2>5, <2>6
<1>8. CASE t.mn \in MulDivs
  <2>1. t.args = <<Reg(i.rs), Reg(i.rt)>>
    BY <1>1, <1>8, SpecialListed
  <2>2. Token(t, 1) = Reg(i.rs) /\ Token(t, 2) = Reg(i.rt)
    BY <2>1, Tokens
  <2>3. AssembleInstruction(t, addr, labels) = ReadMulDiv(t.mn, Token(t, 1), Token(t, 2))
    BY <1>8, Dispatched
  <2>4. i.rd = 0 /\ i.shamt = 0
    BY <1>0, <1>8, CanonicalFields
  <2>5. AssembleInstruction(t, addr, labels) = EncodeR(i.funct, i.rs, i.rt, i.rd, i.shamt)
    BY <1>2, <1>3, <2>2, <2>3, <2>4, OperandFields DEF ReadMulDiv, If
  <2>6. Reachable(t, labels)
    <3>1. Reg(i.rs).kind # "addr" /\ Reg(i.rt).kind # "addr"
      BY OperandFields
    <3> QED
      BY <2>1, <3>1, Transfers
  <2> QED
    BY <1>8, <1>4, <1>5, <2>5, <2>6
<1>9. CASE t.mn \in {"mfhi", "mflo"}
  <2>1. t.args = <<Reg(i.rd)>>
    BY <1>1, <1>9, SpecialListed
  <2>2. Token(t, 1) = Reg(i.rd)
    BY <2>1, Tokens
  <2>3. AssembleInstruction(t, addr, labels) = ReadFrom(t.mn, Token(t, 1))
    BY <1>9, Dispatched
  <2>4. i.rs = 0 /\ i.rt = 0 /\ i.shamt = 0
    BY <1>0, <1>9, CanonicalFields
  <2>5. AssembleInstruction(t, addr, labels) = EncodeR(i.funct, i.rs, i.rt, i.rd, i.shamt)
    BY <1>2, <1>3, <2>2, <2>3, <2>4, OperandFields DEF ReadFrom, If
  <2>6. Reachable(t, labels)
    <3>1. Reg(i.rd).kind # "addr"
      BY OperandFields
    <3> QED
      BY <2>1, <3>1, Transfers
  <2> QED
    BY <1>9, <1>4, <1>5, <2>5, <2>6
<1>10. CASE t.mn \in {"mthi", "mtlo", "jr"}
  <2>1. t.args = <<Reg(i.rs)>>
    BY <1>1, <1>10, SpecialListed
  <2>2. Token(t, 1) = Reg(i.rs)
    BY <2>1, Tokens
  <2>3. AssembleInstruction(t, addr, labels) = ReadTo(t.mn, Token(t, 1))
    BY <1>10, Dispatched
  <2>4. i.rt = 0 /\ i.rd = 0 /\ i.shamt = 0
    BY <1>0, <1>10, CanonicalFields
  <2>5. AssembleInstruction(t, addr, labels) = EncodeR(i.funct, i.rs, i.rt, i.rd, i.shamt)
    BY <1>2, <1>3, <2>2, <2>3, <2>4, OperandFields DEF ReadTo, If
  <2>6. Reachable(t, labels)
    <3>1. Reg(i.rs).kind # "addr"
      BY OperandFields
    <3> QED
      BY <2>1, <3>1, Transfers
  <2> QED
    BY <1>10, <1>4, <1>5, <2>5, <2>6
<1>11. CASE t.mn = "jalr"
  <2>1. t.args = <<IF i.rd = 31 THEN Absent ELSE Reg(i.rd), Reg(i.rs)>>
    BY <1>1, <1>11, SpecialListed
  <2>2. Token(t, 1) = (IF i.rd = 31 THEN Absent ELSE Reg(i.rd)) /\ Token(t, 2) = Reg(i.rs)
    BY <2>1, Tokens
  <2>3. AssembleInstruction(t, addr, labels) = ReadJalr(Token(t, 1), Token(t, 2))
    BY <1>11, Dispatched
  <2>4. i.rt = 0 /\ i.shamt = 0
    BY <1>0, <1>11, CanonicalFields
  <2>5. ReadJalr(Token(t, 1), Reg(i.rs)) =
          If(i.rs >= 0, EncodeR(SpecialFn.jalr, i.rs, 0, i.rd, 0))
    <3>1. CASE i.rd = 31
      BY <2>2, <3>1, OperandFields DEF ReadJalr
    <3>2. CASE i.rd # 31
      <4>1. Token(t, 1) = Reg(i.rd)
        BY <2>2, <3>2
      <4>2. ~(i.rd < 0)
        BY <1>0, DecodedFields
      <4> QED
        BY <4>1, <4>2, OperandFields DEF ReadJalr
    <3> QED
      BY <3>1, <3>2
  <2>6. AssembleInstruction(t, addr, labels) = EncodeR(i.funct, i.rs, i.rt, i.rd, i.shamt)
    BY <1>2, <1>3, <1>11, <2>2, <2>3, <2>4, <2>5 DEF If
  <2>7. Reachable(t, labels)
    <3>1. Absent.kind # "addr" /\ Reg(i.rd).kind # "addr" /\ Reg(i.rs).kind # "addr"
      BY OperandFields
    <3>2. CASE i.rd = 31
      BY <2>1, <3>1, <3>2, Transfers
    <3>3. CASE i.rd # 31
      BY <2>1, <3>1, <3>3, Transfers
    <3> QED
      BY <3>2, <3>3
  <2> QED
    BY <1>4, <1>5, <1>11, <2>6, <2>7
<1>12. CASE t.mn = "syscall"
  <2>1. AssembleInstruction(t, addr, labels) = EncodeR(SpecialFn.syscall, 0, 0, 0, 0)
    BY <1>12, Dispatched
  <2>2. w.hi = 0 /\ w.lo = SpecialFn.syscall
    BY <1>0, <1>12, CanonicalFields
  <2>3. w = [hi |-> 0, lo |-> 12]
    BY <2>2, WordHalves DEF SpecialFn
  <2>4. EncodeR(SpecialFn.syscall, 0, 0, 0, 0) = [hi |-> 0, lo |-> 12]
    BY DEF EncodeR, EncodeFields, Upper, SPECIAL, SpecialFn
  <2>5. Reachable(t, labels)
    BY <1>1, <1>12, SpecialListed, Transfers
  <2> QED
    BY <1>5, <1>12, <2>1, <2>3, <2>4, <2>5
<1>13. CASE t.mn \in NotAssembled
  BY <1>13, Dispatched
<1> QED
  BY <1>5, <1>6, <1>7, <1>8, <1>9, <1>10, <1>11, <1>12, <1>13

(* The operand of a transfer gives the field it was made from.             *)
LEMMA TransferBack ==
  ASSUME NEW i, i.imm \in Int, i.target \in Int, NEW addr \in Int
  PROVE  /\ BranchTo(i, addr).kind = "addr" /\ Away(BranchTo(i, addr), addr) = i.imm
         /\ JumpTo(i).kind = "addr" /\ JumpTo(i).n \div 4 = i.target
<1>1. BranchTo(i, addr).n = addr + 4 + 4 * i.imm /\ JumpTo(i).n = 4 * i.target
  BY OperandFields DEF BranchTo, JumpTo
<1>2. (addr + 4 + 4 * i.imm - (addr + 4)) \div 4 = i.imm /\ (4 * i.target) \div 4 = i.target
  OBVIOUS
<1>3. BranchTo(i, addr).kind = "addr" /\ JumpTo(i).kind = "addr"
  BY OperandFields DEF BranchTo, JumpTo
<1> QED
  BY <1>1, <1>2, <1>3 DEF Away

LEMMA Special2ReadsBack ==
  ASSUME NEW w \in InstrWord, Decode(w).opcode = SPECIAL2, Canonical(w), NEW addr \in Int, NEW labels,
         Disasm(w, addr).mn # Unknown
  PROVE  AssembleInstruction(Disasm(w, addr), addr, labels) =
           IF Disasm(w, addr).mn \in NotAssembled \/ ~Reachable(Disasm(w, addr), labels)
           THEN Refused ELSE w
<1>0. SUFFICES ASSUME NEW i, i = Decode(w), NEW t, t = Disasm(w, addr)
               PROVE  AssembleInstruction(t, addr, labels) =
                        IF t.mn \in NotAssembled \/ ~Reachable(t, labels) THEN Refused ELSE w
  OBVIOUS
<1>1. t = ShowSpecial2(i)
  BY <1>0, ListedBy
<1>2. i.funct = MUL
  BY <1>0, <1>1, OperandFields DEF ShowSpecial2
<1>3. t.mn = "mul" /\ t.args = <<Reg(i.rd), Reg(i.rs), Reg(i.rt)>>
  BY <1>1, <1>2, OperandFields DEF ShowSpecial2
<1>4. Token(t, 1) = Reg(i.rd) /\ Token(t, 2) = Reg(i.rs) /\ Token(t, 3) = Reg(i.rt)
  BY <1>3, Tokens
<1>5. AssembleInstruction(t, addr, labels) = ReadMul(Token(t, 1), Token(t, 2), Token(t, 3))
  BY <1>3, Dispatched
<1>6. i.shamt = 0
  BY <1>0, <1>3, CanonicalFields
<1>7. AssembleInstruction(t, addr, labels) =
        EncodeFields(i.opcode, i.funct, i.rs, i.rt, i.rd, i.shamt)
  BY <1>0, <1>2, <1>4, <1>5, <1>6, OperandFields DEF ReadMul, EncodeSpecial2
<1>8. AssembleInstruction(t, addr, labels) = w
  BY <1>0, <1>7, EncodedFields
<1>9. t.mn \notin NotAssembled
  BY <1>3 DEF NotAssembled, Traps
<1>10. Reachable(t, labels)
  <2>1. Reg(i.rd).kind # "addr" /\ Reg(i.rs).kind # "addr" /\ Reg(i.rt).kind # "addr"
    BY OperandFields
  <2> QED
    BY <1>3, <2>1, Transfers
<1> QED
  BY <1>8, <1>9, <1>10

LEMMA RegimmReadsBack ==
  ASSUME NEW w \in InstrWord, Decode(w).opcode = REGIMM, Canonical(w), NEW addr \in Int, NEW labels,
         Disasm(w, addr).mn # Unknown
  PROVE  AssembleInstruction(Disasm(w, addr), addr, labels) =
           IF Disasm(w, addr).mn \in NotAssembled \/ ~Reachable(Disasm(w, addr), labels)
           THEN Refused ELSE w
<1>0. SUFFICES ASSUME NEW i, i = Decode(w), NEW t, t = Disasm(w, addr)
               PROVE  AssembleInstruction(t, addr, labels) =
                        IF t.mn \in NotAssembled \/ ~Reachable(t, labels) THEN Refused ELSE w
  OBVIOUS
<1>1. t = Text(Named(RegimmRt, RegimmNames, i.rt), <<Reg(i.rs), BranchTo(i, addr)>>)
  BY <1>0, ListedBy
<1>2. t.mn = Named(RegimmRt, RegimmNames, i.rt) /\ t.args = <<Reg(i.rs), BranchTo(i, addr)>>
  BY <1>1, OperandFields
<1>3. t.mn \in RegimmNames /\ RegimmRt[t.mn] = i.rt
  BY <1>0, <1>2, RegimmListed
<1>4. CASE t.mn \in {"bltz", "bgez"}
  <2>1. Token(t, 1) = Reg(i.rs) /\ Token(t, 2) = BranchTo(i, addr)
    BY <1>2, Tokens
  <2>2. AssembleInstruction(t, addr, labels) = ReadSign(t.mn, Token(t, 1), Token(t, 2), addr, labels)
    BY <1>4, Dispatched
  <2>3. i.rs >= 0 /\ i.imm \in Int /\ i.target \in Int
    BY <1>0, DecodedFields
  <2>4. BranchTo(i, addr).kind = "addr" /\ Away(BranchTo(i, addr), addr) = i.imm
    BY <2>3, TransferBack
  <2>5. Reachable(t, labels) <=> BranchTo(i, addr).n \in labels
    <3>1. Reg(i.rs).kind # "addr"
      BY OperandFields
    <3> QED
      BY <1>2, <2>4, <3>1, Transfers
  <2>6. EncodeRegimm(i.rt, i.rs, i.imm) = w
    BY <1>0, EncodedFields DEF EncodeRegimm
  <2>7. t.mn \notin NotAssembled
    BY <1>4 DEF NotAssembled, Traps
  <2>8. AssembleInstruction(t, addr, labels) =
          IF BranchTo(i, addr).n \in labels THEN w ELSE Refused
    BY <1>3, <2>1, <2>2, <2>3, <2>4, <2>6, OperandFields DEF ReadSign, If, Resolves
  <2> QED
    BY <2>5, <2>7, <2>8
<1>5. CASE t.mn \in NotAssembled
  BY <1>5, Dispatched
<1> QED
  BY <1>3, <1>4, <1>5, RegimmNamesAre DEF NotAssembled

LEMMA OpcodeReadsBack ==
  ASSUME NEW w \in InstrWord, Decode(w).opcode \notin {SPECIAL, SPECIAL2, REGIMM}, Canonical(w), NEW addr \in Int, NEW labels,
         Disasm(w, addr).mn # Unknown
  PROVE  AssembleInstruction(Disasm(w, addr), addr, labels) =
           IF Disasm(w, addr).mn \in NotAssembled \/ ~Reachable(Disasm(w, addr), labels)
           THEN Refused ELSE w
<1>0. SUFFICES ASSUME NEW i, i = Decode(w), NEW t, t = Disasm(w, addr)
               PROVE  AssembleInstruction(t, addr, labels) =
                        IF t.mn \in NotAssembled \/ ~Reachable(t, labels) THEN Refused ELSE w
  OBVIOUS
<1>1. t = ShowOpcode(i, addr)
  BY <1>0, ListedBy
<1>2. t.mn \in OpcodeNames /\ Opcode[t.mn] = i.opcode
  BY <1>0, <1>1, OpcodeListed
<1>3. i.rs >= 0 /\ i.rt >= 0 /\ i.imm \in Int /\ i.uimm \in Int /\ i.target \in Int
  BY <1>0, DecodedFields
<1>4. /\ EncodeI(Opcode[t.mn], i.rs, i.rt, i.imm) = w
      /\ EncodeI(Opcode[t.mn], i.rs, i.rt, i.uimm) = w
      /\ EncodeJ(Opcode[t.mn], i.target) = w
  BY <1>0, <1>2, EncodedFields
<1>5. /\ BranchTo(i, addr).kind = "addr" /\ Away(BranchTo(i, addr), addr) = i.imm
      /\ JumpTo(i).kind = "addr" /\ JumpTo(i).n \div 4 = i.target
  BY <1>3, TransferBack
<1>6. t.mn \notin NotAssembled
  BY <1>2, OpcodeNamesAre DEF NotAssembled, Traps, Ariths, LoadStore
<1>7. CASE t.mn \in Ariths
  <2>1. t.args = <<Reg(i.rt), Reg(i.rs), Num(i.imm)>>
    BY <1>1, <1>7, OpcodeListed
  <2>2. Token(t, 1) = Reg(i.rt) /\ Token(t, 2) = Reg(i.rs) /\ Token(t, 3) = Num(i.imm)
    BY <2>1, Tokens
  <2>3. AssembleInstruction(t, addr, labels) = ReadArith(t.mn, Token(t, 1), Token(t, 2), Token(t, 3))
    BY <1>7, Dispatched
  <2>5. AssembleInstruction(t, addr, labels) = w
    BY <1>3, <1>4, <1>7, <2>2, <2>3, OperandFields DEF ReadArith, If
  <2>6. Reachable(t, labels)
    <3>1. Reg(i.rt).kind # "addr" /\ Reg(i.rs).kind # "addr" /\ Num(i.imm).kind # "addr"
      BY OperandFields
    <3> QED
      BY <1>5, <2>1, <3>1, Transfers
  <2> QED
    BY <1>6, <2>5, <2>6
<1>8. CASE t.mn \in LoadStore
  <2>1. t.args = <<Reg(i.rt), Based(i.imm, i.rs)>>
    BY <1>1, <1>8, OpcodeListed
  <2>2. Token(t, 1) = Reg(i.rt) /\ Token(t, 2) = Based(i.imm, i.rs)
    BY <2>1, Tokens
  <2>3. AssembleInstruction(t, addr, labels) = ReadMemory(t.mn, Token(t, 1), Token(t, 2), Token(t, 3))
    BY <1>8, Dispatched
  <2>5. AssembleInstruction(t, addr, labels) = w
    BY <1>3, <1>4, <1>8, <2>2, <2>3, OperandFields DEF ReadMemory, If
  <2>6. Reachable(t, labels)
    <3>1. Reg(i.rt).kind # "addr" /\ Based(i.imm, i.rs).kind # "addr"
      BY OperandFields
    <3> QED
      BY <1>5, <2>1, <3>1, Transfers
  <2> QED
    BY <1>6, <2>5, <2>6
<1>9. CASE t.mn = "lui"
  <2>1. t.args = <<Reg(i.rt), HexNum(i.uimm)>>
    BY <1>1, <1>9, OpcodeListed
  <2>2. Token(t, 1) = Reg(i.rt) /\ Token(t, 2) = HexNum(i.uimm)
    BY <2>1, Tokens
  <2>3. AssembleInstruction(t, addr, labels) = ReadLui(Token(t, 1), Token(t, 2))
    BY <1>9, Dispatched
  <2>4. i.rs = 0
    BY <1>0, <1>9, CanonicalFields
  <2>5. AssembleInstruction(t, addr, labels) = w
    BY <1>3, <1>4, <1>9, <2>2, <2>3, <2>4, OperandFields DEF ReadLui, If
  <2>6. Reachable(t, labels)
    <3>1. Reg(i.rt).kind # "addr" /\ HexNum(i.uimm).kind # "addr"
      BY OperandFields
    <3> QED
      BY <1>5, <2>1, <3>1, Transfers
  <2> QED
    BY <1>6, <2>5, <2>6
<1>10. CASE t.mn \in {"j", "jal"}
  <2>1. t.args = <<JumpTo(i)>>
    BY <1>1, <1>10, OpcodeListed
  <2>2. Token(t, 1) = JumpTo(i)
    BY <2>1, Tokens
  <2>3. AssembleInstruction(t, addr, labels) = ReadJump(t.mn, Token(t, 1), labels)
    BY <1>10, Dispatched
  <2>5. AssembleInstruction(t, addr, labels) = IF JumpTo(i).n \in labels THEN w ELSE Refused
    BY <1>3, <1>4, <1>5, <2>2, <2>3, OperandFields DEF ReadJump, If, Resolves
  <2>6. Reachable(t, labels) <=> JumpTo(i).n \in labels
    BY <1>5, <2>1, Transfers
  <2> QED
    BY <1>6, <2>5, <2>6
<1>11. CASE t.mn \in {"beq", "bne"}
  <2>1. t.args = <<Reg(i.rs), Reg(i.rt), BranchTo(i, addr)>>
    BY <1>1, <1>11, OpcodeListed
  <2>2. Token(t, 1) = Reg(i.rs) /\ Token(t, 2) = Reg(i.rt) /\ Token(t, 3) = BranchTo(i, addr)
    BY <2>1, Tokens
  <2>3. AssembleInstruction(t, addr, labels) = ReadCompare(t.mn, Token(t, 1), Token(t, 2), Token(t, 3), addr, labels)
    BY <1>11, Dispatched
  <2>5. AssembleInstruction(t, addr, labels) = IF BranchTo(i, addr).n \in labels THEN w ELSE Refused
    BY <1>3, <1>4, <1>5, <2>2, <2>3, OperandFields DEF ReadCompare, If, Resolves
  <2>6. Reachable(t, labels) <=> BranchTo(i, addr).n \in labels
    <3>1. Reg(i.rs).kind # "addr" /\ Reg(i.rt).kind # "addr"
      BY OperandFields
    <3> QED
      BY <1>5, <2>1, <3>1, Transfers
  <2> QED
    BY <1>6, <2>5, <2>6
<1>12. CASE t.mn \in {"blez", "bgtz"}
  <2>1. t.args = <<Reg(i.rs), BranchTo(i, addr)>>
    BY <1>1, <1>12, OpcodeListed
  <2>2. Token(t, 1) = Reg(i.rs) /\ Token(t, 2) = BranchTo(i, addr)
    BY <2>1, Tokens
  <2>3. AssembleInstruction(t, addr, labels) = ReadZero(t.mn, Token(t, 1), Token(t, 2), addr, labels)
    BY <1>12, Dispatched
  <2>4. i.rt = 0
    BY <1>0, <1>12, CanonicalFields
  <2>5. AssembleInstruction(t, addr, labels) = IF BranchTo(i, addr).n \in labels THEN w ELSE Refused
    BY <1>3, <1>4, <1>5, <2>2, <2>3, <2>4, OperandFields DEF ReadZero, If, Resolves
  <2>6. Reachable(t, labels) <=> BranchTo(i, addr).n \in labels
    <3>1. Reg(i.rs).kind # "addr"
      BY OperandFields
    <3> QED
      BY <1>5, <2>1, <3>1, Transfers
  <2> QED
    BY <1>6, <2>5, <2>6
<1> QED
  BY <1>2, <1>7, <1>8, <1>9, <1>10, <1>11, <1>12, OpcodeNamesAre

(* A line of a listing says all of its word: assembled where it stands,    *)
(* with a label at every address of labels, it gives the word, unless the  *)
(* assembler has no case for the mnemonic or the transfer has no label.    *)
THEOREM ListingReadsBack ==
  ASSUME NEW w \in InstrWord, Executes(w), Canonical(w), NEW addr \in Int, NEW labels
  PROVE  AssembleInstruction(Disasm(w, addr), addr, labels) =
           IF Disasm(w, addr).mn \in NotAssembled \/ ~Reachable(Disasm(w, addr), labels)
           THEN Refused ELSE w
<1>1. Disasm(w, addr).mn # Unknown
  BY NamesExecuted
<1> QED
  BY <1>1, SpecialReadsBack, Special2ReadsBack, RegimmReadsBack, OpcodeReadsBack

-----------------------------------------------------------------------------
(* From a written line to the listing: what an encoder's word decodes to.  *)
Sixes == 0 .. 63

LEMMA SixIs ==
  ASSUME NEW n \in Sixes
  PROVE  n \in Int /\ 0 <= n /\ n <= 63 /\ n % 64 = n
BY DEF Sixes

LEMMA UpperDecodes ==
  ASSUME NEW op \in Sixes, NEW rs \in Int, NEW rt \in Int
  PROVE  /\ Upper(op, rs, rt) \in Int
         /\ 0 <= Upper(op, rs, rt) /\ Upper(op, rs, rt) < 65536
         /\ Upper(op, rs, rt) \div 1024 = op /\ Upper(op, rs, rt) % 32 = rt % 32
<1> DEFINE a == rs % 32
           b == rt % 32
<1>1. a \in 0 .. 31 /\ b \in 0 .. 31
  OBVIOUS
<1>2. Upper(op, rs, rt) = op * 1024 + a * 32 + b
  BY SixIs DEF Upper
<1> HIDE DEF a
<1>3. b = rt % 32
  OBVIOUS
<1> HIDE DEF b
<1> QED
  BY <1>1, <1>2, <1>3, SixIs

LEMMA IntIsHalf ==
  ASSUME NEW n \in Int, 0 <= n, n < 65536
  PROVE  n \in Halves
<1>1. Half - 1 = 65535
  BY DEF Half
<1>2. Half - 1 \in Int /\ n <= Half - 1
  BY <1>1
<1>3. n \in 0 .. Half - 1
  BY <1>2
<1> QED
  BY <1>3 DEF Halves

LEMMA FieldsDecode ==
  ASSUME NEW op \in Sixes, NEW fn \in Sixes,
         NEW rs \in Int, NEW rt \in Int, NEW rd \in Int, NEW shamt \in Int
  PROVE  LET w == EncodeFields(op, fn, rs, rt, rd, shamt)
         IN  w \in InstrWord /\ Decode(w).opcode = op /\ Decode(w).funct = fn
<1> DEFINE w == EncodeFields(op, fn, rs, rt, rd, shamt)
           a == rd % 32
           b == shamt % 32
<1>1. a \in 0 .. 31 /\ b \in 0 .. 31
  OBVIOUS
<1>2. w.hi = Upper(op, rs, rt) /\ w.lo = a * 2048 + b * 64 + fn
  BY SixIs DEF EncodeFields
<1>3. w = [hi |-> w.hi, lo |-> w.lo]
  BY DEF EncodeFields
<1> HIDE DEF a, b
<1>4. w.lo \in Int /\ 0 <= w.lo /\ w.lo < 65536 /\ w.lo % 64 = fn
  BY <1>1, <1>2, SixIs
<1> HIDE DEF w
<1>5. w.hi \in Int /\ 0 <= w.hi /\ w.hi < 65536 /\ w.hi \div 1024 = op
  <2>1. LET u == Upper(op, rs, rt)
        IN  u \in Int /\ 0 <= u /\ u < 65536 /\ u \div 1024 = op
    BY UpperDecodes
  <2> QED
    BY <1>2, <2>1
<1>6. w \in InstrWord
  BY <1>3, <1>4, <1>5, IntIsHalf DEF InstrWord
<1>7. Decode(w).opcode = op /\ Decode(w).funct = fn
  BY <1>4, <1>5 DEF Decode
<1> QED
  BY <1>6, <1>7 DEF w

LEMMA ImmediateDecodes ==
  ASSUME NEW op \in Sixes, NEW rs \in Int, NEW rt \in Int, NEW imm \in Int
  PROVE  LET w == EncodeI(op, rs, rt, imm)
         IN  w \in InstrWord /\ Decode(w).opcode = op /\ Decode(w).rt = rt % 32
<1> DEFINE w == EncodeI(op, rs, rt, imm)
<1>1. w.hi = Upper(op, rs, rt) /\ w.lo = imm % 65536 /\ w = [hi |-> w.hi, lo |-> w.lo]
  BY DEF EncodeI, Half
<1>2. w.lo \in Int /\ 0 <= w.lo /\ w.lo < 65536
  BY <1>1
<1>3. w.hi \in Int /\ 0 <= w.hi /\ w.hi < 65536 /\ w.hi \div 1024 = op /\ w.hi % 32 = rt % 32
  BY <1>1, UpperDecodes
<1> HIDE DEF w
<1>4. w \in InstrWord
  BY <1>1, <1>2, <1>3, IntIsHalf DEF InstrWord
<1>5. Decode(w).opcode = op /\ Decode(w).rt = rt % 32
  BY <1>3 DEF Decode
<1> QED
  BY <1>4, <1>5 DEF w

LEMMA JumpDecodes ==
  ASSUME NEW op \in Sixes, NEW target \in Int
  PROVE  LET w == EncodeJ(op, target)
         IN  w \in InstrWord /\ Decode(w).opcode = op
<1> DEFINE w == EncodeJ(op, target)
           u == (target \div Half) % 1024
<1>1. u \in 0 .. 1023
  <2> DEFINE v == target \div Half
  <2>1. v \in Int
    BY DEF Half
  <2> HIDE DEF v
  <2>2. v % 1024 \in 0 .. 1023
    BY <2>1
  <2> QED
    BY <2>2 DEF v
<1>2. w.hi = op * 1024 + u /\ w.lo = target % 65536 /\ w = [hi |-> w.hi, lo |-> w.lo]
  BY SixIs DEF EncodeJ, Half
<1> HIDE DEF u
<1>3. w.lo \in Int /\ 0 <= w.lo /\ w.lo < 65536
  BY <1>2
<1> HIDE DEF w
<1>4. w.hi \in Int /\ 0 <= w.hi /\ w.hi < 65536 /\ w.hi \div 1024 = op
  <2>1. LET v == op * 1024 + u
        IN  v \in Int /\ 0 <= v /\ v < 65536 /\ v \div 1024 = op
    BY <1>1, SixIs
  <2> QED
    BY <1>2, <2>1
<1> QED
  BY <1>2, <1>3, <1>4, IntIsHalf DEF InstrWord, Decode, w

(* A code belongs to one name.                                             *)
LEMMA OneSpecialName ==
  ASSUME NEW m \in SpecialNames, NEW n \in SpecialNames, SpecialFn[m] = SpecialFn[n]
  PROVE  m = n
BY DEF SpecialNames, SpecialFn

LEMMA OneOpcodeName ==
  ASSUME NEW m \in OpcodeNames, NEW n \in OpcodeNames, Opcode[m] = Opcode[n]
  PROVE  m = n
BY DEF OpcodeNames, Opcode

LEMMA OneRegimmName ==
  ASSUME NEW m \in RegimmNames, NEW n \in RegimmNames, RegimmRt[m] = RegimmRt[n]
  PROVE  m = n
BY DEF RegimmNames, RegimmRt

LEMMA Codes ==
  /\ \A n \in SpecialNames : SpecialFn[n] \in Sixes
  /\ \A n \in OpcodeNames : Opcode[n] \in Sixes \ {SPECIAL, SPECIAL2, REGIMM}
  /\ \A n \in RegimmNames : RegimmRt[n] \in 0 .. 31
BY DEF SpecialNames, SpecialFn, OpcodeNames, Opcode, RegimmNames, RegimmRt,
       SPECIAL, SPECIAL2, REGIMM, Sixes

(* So a word with the code of a name is listed under the name.             *)
LEMMA SpecialWord ==
  ASSUME NEW mn \in SpecialNames, NEW addr,
         NEW w, \E rs, rt, rd, shamt \in Int : w = EncodeR(SpecialFn[mn], rs, rt, rd, shamt)
  PROVE  w \in InstrWord /\ Disasm(w, addr).mn = mn
<1>0. PICK rs \in Int, rt \in Int, rd \in Int, shamt \in Int : w = EncodeR(SpecialFn[mn], rs, rt, rd, shamt)
  OBVIOUS
<1>1. SPECIAL \in Sixes /\ SpecialFn[mn] \in Sixes
  BY Codes DEF SPECIAL, Sixes
<1>2. w \in InstrWord /\ Decode(w).opcode = SPECIAL /\ Decode(w).funct = SpecialFn[mn]
  <2>1. w = EncodeFields(SPECIAL, SpecialFn[mn], rs, rt, rd, shamt)
    BY <1>0 DEF EncodeR
  <2> DEFINE fn == SpecialFn[mn]
  <2>2. fn \in Sixes
    BY <1>1
  <2> HIDE DEF fn
  <2>3. w = EncodeFields(SPECIAL, fn, rs, rt, rd, shamt)
    BY <2>1 DEF fn
  <2>4. w \in InstrWord /\ Decode(w).opcode = SPECIAL /\ Decode(w).funct = fn
    BY <1>1, <2>2, <2>3, FieldsDecode
  <2> QED
    BY <2>4 DEF fn
<1>3. Disasm(w, addr) = ShowSpecial(Decode(w))
  BY <1>2, ListedBy
<1>4. LET name == ShowSpecial(Decode(w)).mn
      IN  name \in SpecialNames /\ SpecialFn[name] = SpecialFn[mn]
  BY <1>2, SpecialListed
<1> QED
  BY <1>2, <1>3, <1>4, OneSpecialName

LEMMA MulWord ==
  ASSUME NEW addr,
         NEW w, \E rs, rt, rd \in Int : w = EncodeSpecial2(MUL, rs, rt, rd)
  PROVE  w \in InstrWord /\ Disasm(w, addr).mn = "mul"
<1>0. PICK rs \in Int, rt \in Int, rd \in Int : w = EncodeSpecial2(MUL, rs, rt, rd)
  OBVIOUS
<1>1. SPECIAL2 \in Sixes /\ MUL \in Sixes
  BY DEF SPECIAL2, MUL, Sixes
<1>2. w \in InstrWord /\ Decode(w).opcode = SPECIAL2 /\ Decode(w).funct = MUL
  <2>1. w = EncodeFields(SPECIAL2, MUL, rs, rt, rd, 0)
    BY <1>0 DEF EncodeSpecial2
  <2>2. /\ EncodeFields(SPECIAL2, MUL, rs, rt, rd, 0) \in InstrWord
        /\ Decode(EncodeFields(SPECIAL2, MUL, rs, rt, rd, 0)).opcode = SPECIAL2
        /\ Decode(EncodeFields(SPECIAL2, MUL, rs, rt, rd, 0)).funct = MUL
    BY <1>1, FieldsDecode
  <2> QED
    BY <2>1, <2>2
<1>3. Disasm(w, addr) = ShowSpecial2(Decode(w))
  BY <1>2, ListedBy
<1> QED
  BY <1>2, <1>3, OperandFields DEF ShowSpecial2

LEMMA OpcodeWord ==
  ASSUME NEW mn \in OpcodeNames, NEW addr, NEW w \in InstrWord, Decode(w).opcode = Opcode[mn]
  PROVE  Disasm(w, addr).mn = mn
<1>1. Decode(w).opcode \notin {SPECIAL, SPECIAL2, REGIMM}
  BY Codes
<1>2. Disasm(w, addr) = ShowOpcode(Decode(w), addr)
  BY <1>1, ListedBy
<1>3. LET name == ShowOpcode(Decode(w), addr).mn
      IN  name \in OpcodeNames /\ Opcode[name] = Opcode[mn]
  BY OpcodeListed
<1> QED
  BY <1>2, <1>3, OneOpcodeName

LEMMA ImmediateWord ==
  ASSUME NEW mn \in OpcodeNames, NEW addr,
         NEW w, \E rs, rt, imm \in Int : w = EncodeI(Opcode[mn], rs, rt, imm)
  PROVE  w \in InstrWord /\ Disasm(w, addr).mn = mn
<1>0. PICK rs \in Int, rt \in Int, imm \in Int : w = EncodeI(Opcode[mn], rs, rt, imm)
  OBVIOUS
<1>1. Opcode[mn] \in Sixes
  BY Codes
<1> QED
  BY <1>0, <1>1, ImmediateDecodes, OpcodeWord

LEMMA JumpWord ==
  ASSUME NEW mn \in OpcodeNames, NEW addr,
         NEW w, \E target \in Int : w = EncodeJ(Opcode[mn], target)
  PROVE  w \in InstrWord /\ Disasm(w, addr).mn = mn
<1>0. PICK target \in Int : w = EncodeJ(Opcode[mn], target)
  OBVIOUS
<1>1. Opcode[mn] \in Sixes
  BY Codes
<1> QED
  BY <1>0, <1>1, JumpDecodes, OpcodeWord

LEMMA RegimmWord ==
  ASSUME NEW mn \in RegimmNames, NEW addr,
         NEW w, \E rs, imm \in Int : w = EncodeRegimm(RegimmRt[mn], rs, imm)
  PROVE  w \in InstrWord /\ Disasm(w, addr).mn = mn
<1>0. PICK rs \in Int, imm \in Int : w = EncodeRegimm(RegimmRt[mn], rs, imm)
  OBVIOUS
<1>1. REGIMM \in Sixes /\ RegimmRt[mn] \in 0 .. 31 /\ RegimmRt[mn] \in Int
  BY Codes DEF REGIMM, Sixes
<1>2. w \in InstrWord /\ Decode(w).opcode = REGIMM /\ Decode(w).rt = RegimmRt[mn]
  <2>1. RegimmRt[mn] % 32 = RegimmRt[mn]
    BY <1>1, InField5
  <2> QED
    BY <1>0, <1>1, <2>1, ImmediateDecodes DEF EncodeRegimm
<1>3. Disasm(w, addr).mn = Named(RegimmRt, RegimmNames, RegimmRt[mn])
  <2>1. Disasm(w, addr) = Text(Named(RegimmRt, RegimmNames, RegimmRt[mn]),
                               <<Reg(Decode(w).rs), BranchTo(Decode(w), addr)>>)
    BY <1>2, ListedBy
  <2> QED
    BY <2>1, OperandFields
<1>4. LET name == Named(RegimmRt, RegimmNames, RegimmRt[mn])
      IN  name \in RegimmNames /\ RegimmRt[name] = RegimmRt[mn]
  BY RegimmListed
<1> QED
  BY <1>2, <1>3, <1>4, OneRegimmName

(* The numbers the assembler reads are integers.                           *)
LEMMA TokenNumbers ==
  ASSUME NEW t, t.args \in Seq(Operands), NEW k \in {1, 2, 3}
  PROVE  Token(t, k).n \in Int /\ Token(t, k).base \in Int /\ RegOf(Token(t, k)) \in Int
<1>1. Absent \in Operands
  BY DEF Absent, Operand, Operands
<1>2. Token(t, k) \in Operands
  BY <1>1 DEF Token
<1>3. Token(t, k).n \in Int /\ Token(t, k).base \in Int
  BY <1>2 DEF Operands
<1> QED
  BY <1>3 DEF RegOf

(* What is not refused is in one of the groups.                            *)
LEMMA OnlyGroups ==
  ASSUME NEW t, NEW here, NEW labels, AssembleText(t, here, labels) # Refused
  PROVE  t.mn \in UNION {ThreeRegs, {"mul"}, Shifts, MulDivs, {"mfhi", "mflo"},
                         {"mthi", "mtlo", "jr"}, {"jalr"}, {"syscall"}, Ariths, {"lui"},
                         LoadStore, {"beq", "bne"}, {"blez", "bgtz"}, {"bltz", "bgez"},
                         {"j", "jal"}}
BY DEF AssembleText

LEMMA AwayIsInt ==
  ASSUME NEW n \in Int, NEW here \in Int, NEW o, o.n = n
  PROVE  Away(o, here) \in Int /\ n \div 4 \in Int
BY DEF Away

(* A written instruction that is not refused is listed under its own name. *)
LEMMA TextIsListed ==
  ASSUME NEW t, t.args \in Seq(Operands), t.mn \notin DOMAIN Pseudo,
         NEW here \in Int, NEW labels, NEW addr,
         AssembleInstruction(t, here, labels) # Refused
  PROVE  LET w == AssembleInstruction(t, here, labels)
         IN  w \in InstrWord /\ Disasm(w, addr).mn = t.mn
<1>0. SUFFICES ASSUME NEW w, w = AssembleInstruction(t, here, labels), w # Refused,
                      NEW a, a = Token(t, 1), NEW b, b = Token(t, 2), NEW c, c = Token(t, 3)
               PROVE  w \in InstrWord /\ Disasm(w, addr).mn = t.mn
  OBVIOUS
<1>1. /\ RegOf(a) \in Int /\ RegOf(b) \in Int /\ RegOf(c) \in Int
      /\ a.n \in Int /\ b.n \in Int /\ c.n \in Int /\ b.base \in Int
  BY <1>0, TokenNumbers
<1>2. /\ Away(a, here) \in Int /\ Away(b, here) \in Int /\ Away(c, here) \in Int
      /\ a.n \div 4 \in Int
  BY <1>1, AwayIsInt
<1>3. /\ ThreeRegs \union Shifts \union MulDivs \subseteq SpecialNames
      /\ {"mfhi", "mflo", "mthi", "mtlo", "jr", "jalr", "syscall"} \subseteq SpecialNames
  BY SpecialNamesAre DEF Singles
<1>4. Ariths \union LoadStore \union {"lui", "j", "jal", "beq", "bne", "blez", "bgtz"}
        \subseteq OpcodeNames
  BY OpcodeNamesAre
<1>5. {"bltz", "bgez"} \subseteq RegimmNames
  BY RegimmNamesAre
<1>6. CASE t.mn \in ThreeRegs
  <2>1. w = ReadThreeRegs(t.mn, a, b, c)
    BY <1>0, <1>6, Dispatched
  <2>2. t.mn \in SpecialNames
    BY <1>3, <1>6
  <2>3. w = EncodeR(SpecialFn[t.mn], RegOf(b), RegOf(c), RegOf(a), 0)
    BY <1>0, <2>1 DEF ReadThreeRegs, If
  <2>4. \E rs, rt, rd, shamt \in Int : w = EncodeR(SpecialFn[t.mn], rs, rt, rd, shamt)
    BY <1>1, <2>3
  <2> QED
    BY <2>2, <2>4, SpecialWord
<1>7. CASE t.mn \in {"mul"}
  <2>1. w = ReadMul(a, b, c)
    BY <1>0, <1>7, Dispatched
  <2>3. w = EncodeSpecial2(MUL, RegOf(b), RegOf(c), RegOf(a))
    BY <1>0, <2>1 DEF ReadMul, If
  <2>4. \E rs, rt, rd \in Int : w = EncodeSpecial2(MUL, rs, rt, rd)
    BY <1>1, <2>3
  <2> QED
    BY <1>7, <2>4, MulWord
<1>8. CASE t.mn \in Shifts
  <2>1. w = ReadShift(t.mn, a, b, c)
    BY <1>0, <1>8, Dispatched
  <2>2. t.mn \in SpecialNames
    BY <1>3, <1>8
  <2>3. w = EncodeR(SpecialFn[t.mn], 0, RegOf(b), RegOf(a), c.n)
    BY <1>0, <2>1 DEF ReadShift, If
  <2>4. \E rs, rt, rd, shamt \in Int : w = EncodeR(SpecialFn[t.mn], rs, rt, rd, shamt)
    BY <1>1, <2>3
  <2> QED
    BY <2>2, <2>4, SpecialWord
<1>9. CASE t.mn \in MulDivs
  <2>1. w = ReadMulDiv(t.mn, a, b)
    BY <1>0, <1>9, Dispatched
  <2>2. t.mn \in SpecialNames
    BY <1>3, <1>9
  <2>3. w = EncodeR(SpecialFn[t.mn], RegOf(a), RegOf(b), 0, 0)
    BY <1>0, <2>1 DEF ReadMulDiv, If
  <2>4. \E rs, rt, rd, shamt \in Int : w = EncodeR(SpecialFn[t.mn], rs, rt, rd, shamt)
    BY <1>1, <2>3
  <2> QED
    BY <2>2, <2>4, SpecialWord
<1>10. CASE t.mn \in {"mfhi", "mflo"}
  <2>1. w = ReadFrom(t.mn, a)
    BY <1>0, <1>10, Dispatched
  <2>2. t.mn \in SpecialNames
    BY <1>3, <1>10
  <2>3. w = EncodeR(SpecialFn[t.mn], 0, 0, RegOf(a), 0)
    BY <1>0, <2>1 DEF ReadFrom, If
  <2>4. \E rs, rt, rd, shamt \in Int : w = EncodeR(SpecialFn[t.mn], rs, rt, rd, shamt)
    BY <1>1, <2>3
  <2> QED
    BY <2>2, <2>4, SpecialWord
<1>11. CASE t.mn \in {"mthi", "mtlo", "jr"}
  <2>1. w = ReadTo(t.mn, a)
    BY <1>0, <1>11, Dispatched
  <2>2. t.mn \in SpecialNames
    BY <1>3, <1>11
  <2>3. w = EncodeR(SpecialFn[t.mn], RegOf(a), 0, 0, 0)
    BY <1>0, <2>1 DEF ReadTo, If
  <2>4. \E rs, rt, rd, shamt \in Int : w = EncodeR(SpecialFn[t.mn], rs, rt, rd, shamt)
    BY <1>1, <2>3
  <2> QED
    BY <2>2, <2>4, SpecialWord
<1>12. CASE t.mn \in {"jalr"}
  <2>1. w = ReadJalr(a, b)
    BY <1>0, <1>12, Dispatched
  <2>2. t.mn \in SpecialNames
    BY <1>3, <1>12
  <2>3. \E rs, rt, rd, shamt \in Int : w = EncodeR(SpecialFn[t.mn], rs, rt, rd, shamt)
    <3> DEFINE rd == IF a.kind = "none" THEN 31 ELSE RegOf(a)
               rs == RegOf(IF b.kind = "none" THEN a ELSE b)
               to == IF rd < 0 THEN 31 ELSE rd
    <3>1. rs \in Int /\ to \in Int
      BY <1>1
    <3>2. w = EncodeR(SpecialFn.jalr, rs, 0, to, 0)
      BY <1>0, <2>1 DEF ReadJalr, If
    <3> QED
      BY <1>12, <3>1, <3>2
  <2> QED
    BY <2>2, <2>3, SpecialWord
<1>13. CASE t.mn \in {"syscall"}
  <2>1. w = EncodeR(SpecialFn.syscall, 0, 0, 0, 0)
    BY <1>0, <1>13, Dispatched
  <2>2. t.mn \in SpecialNames
    BY <1>3, <1>13
  <2>3. w = EncodeR(SpecialFn[t.mn], 0, 0, 0, 0)
    BY <1>0, <2>1, <1>13 DEF If
  <2>4. \E rs, rt, rd, shamt \in Int : w = EncodeR(SpecialFn[t.mn], rs, rt, rd, shamt)
    BY <1>1, <2>3
  <2> QED
    BY <2>2, <2>4, SpecialWord
<1>14. CASE t.mn \in Ariths
  <2>1. w = ReadArith(t.mn, a, b, c)
    BY <1>0, <1>14, Dispatched
  <2>2. t.mn \in OpcodeNames
    BY <1>4, <1>14
  <2>3. w = EncodeI(Opcode[t.mn], RegOf(b), RegOf(a), c.n)
    BY <1>0, <2>1 DEF ReadArith, If
  <2>4. \E rs, rt, imm \in Int : w = EncodeI(Opcode[t.mn], rs, rt, imm)
    BY <1>1, <2>3
  <2> QED
    BY <2>2, <2>4, ImmediateWord
<1>15. CASE t.mn \in {"lui"}
  <2>1. w = ReadLui(a, b)
    BY <1>0, <1>15, Dispatched
  <2>2. t.mn \in OpcodeNames
    BY <1>4, <1>15
  <2>3. w = EncodeI(Opcode[t.mn], 0, RegOf(a), b.n)
    BY <1>0, <2>1, <1>15 DEF ReadLui, If
  <2>4. \E rs, rt, imm \in Int : w = EncodeI(Opcode[t.mn], rs, rt, imm)
    BY <1>1, <2>3
  <2> QED
    BY <2>2, <2>4, ImmediateWord
<1>16. CASE t.mn \in LoadStore
  <2>1. w = ReadMemory(t.mn, a, b, c)
    BY <1>0, <1>16, Dispatched
  <2>2. t.mn \in OpcodeNames
    BY <1>4, <1>16
  <2>3. \E rs, rt, imm \in Int : w = EncodeI(Opcode[t.mn], rs, rt, imm)
    <3>1. CASE b.kind = "mem"
      BY <1>0, <1>1, <2>1, <3>1 DEF ReadMemory, If
    <3>2. CASE b.kind # "mem" /\ c.kind # "none"
      BY <1>0, <1>1, <2>1, <3>2 DEF ReadMemory, If
    <3>3. CASE b.kind # "mem" /\ c.kind = "none"
      <4>1. w = EncodeI(Opcode[t.mn], 0, RegOf(a), 0)
        BY <1>0, <2>1, <3>3 DEF ReadMemory, If
      <4> QED
        BY <1>1, <4>1
    <3> QED
      BY <3>1, <3>2, <3>3
  <2> QED
    BY <2>2, <2>3, ImmediateWord
<1>17. CASE t.mn \in {"beq", "bne"}
  <2>1. w = ReadCompare(t.mn, a, b, c, here, labels)
    BY <1>0, <1>17, Dispatched
  <2>2. t.mn \in OpcodeNames
    BY <1>4, <1>17
  <2>3. w = EncodeI(Opcode[t.mn], RegOf(a), RegOf(b), Away(c, here))
    BY <1>0, <2>1 DEF ReadCompare, If
  <2>4. \E rs, rt, imm \in Int : w = EncodeI(Opcode[t.mn], rs, rt, imm)
    BY <1>1, <1>2, <2>3
  <2> QED
    BY <2>2, <2>4, ImmediateWord
<1>18. CASE t.mn \in {"blez", "bgtz"}
  <2>1. w = ReadZero(t.mn, a, b, here, labels)
    BY <1>0, <1>18, Dispatched
  <2>2. t.mn \in OpcodeNames
    BY <1>4, <1>18
  <2>3. w = EncodeI(Opcode[t.mn], RegOf(a), 0, Away(b, here))
    BY <1>0, <2>1 DEF ReadZero, If
  <2>4. \E rs, rt, imm \in Int : w = EncodeI(Opcode[t.mn], rs, rt, imm)
    BY <1>1, <1>2, <2>3
  <2> QED
    BY <2>2, <2>4, ImmediateWord
<1>19. CASE t.mn \in {"bltz", "bgez"}
  <2>1. w = ReadSign(t.mn, a, b, here, labels)
    BY <1>0, <1>19, Dispatched
  <2>2. t.mn \in RegimmNames
    BY <1>5, <1>19
  <2>3. w = EncodeRegimm(RegimmRt[t.mn], RegOf(a), Away(b, here))
    BY <1>0, <2>1 DEF ReadSign, If
  <2>4. \E rs, imm \in Int : w = EncodeRegimm(RegimmRt[t.mn], rs, imm)
    BY <1>1, <1>2, <2>3
  <2> QED
    BY <2>2, <2>4, RegimmWord
<1>20. CASE t.mn \in {"j", "jal"}
  <2>1. w = ReadJump(t.mn, a, labels)
    BY <1>0, <1>20, Dispatched
  <2>2. t.mn \in OpcodeNames
    BY <1>4, <1>20
  <2>3. w = EncodeJ(Opcode[t.mn], a.n \div 4)
    BY <1>0, <2>1 DEF ReadJump, If
  <2>4. \E target \in Int : w = EncodeJ(Opcode[t.mn], target)
    BY <1>1, <1>2, <2>3
  <2> QED
    BY <2>2, <2>4, JumpWord
<1> QED
  <2>1. AssembleInstruction(t, here, labels) = AssembleText(t, here, labels)
    BY DEF AssembleInstruction
  <2> QED
    BY <2>1, OnlyGroups, <1>6, <1>7, <1>8, <1>9, <1>10, <1>11, <1>12, <1>13, <1>14, <1>15, <1>16, <1>17, <1>18, <1>19, <1>20

LEMMA PseudoIsListed ==
  ASSUME NEW t, t.args \in Seq(Operands), t.mn \in DOMAIN Pseudo,
         NEW here \in Int, NEW labels, NEW addr,
         AssembleInstruction(t, here, labels) # Refused
  PROVE  LET w == AssembleInstruction(t, here, labels)
         IN  w \in InstrWord /\ Disasm(w, addr).mn = Pseudo[t.mn]
<1>0. SUFFICES ASSUME NEW w, w = AssemblePseudo(t, here, labels), w # Refused
               PROVE  w \in InstrWord /\ Disasm(w, addr).mn = Pseudo[t.mn]
  BY DEF AssembleInstruction
<1> DEFINE x    == RegOf(Token(t, 1))
           y    == RegOf(Token(t, 2))
           away == Away(Token(t, 1), here)
<1>1. x \in Int /\ y \in Int /\ away \in Int
  BY TokenNumbers, AwayIsInt
<1>2. {"sll", "addu", "nor", "sub"} \subseteq SpecialNames /\ "beq" \in OpcodeNames
  BY SpecialNamesAre, OpcodeNamesAre DEF Shifts, ThreeRegs
<1>3. DOMAIN Pseudo = {"nop", "move", "not", "neg", "b"}
  BY DEF Pseudo
<1>4. CASE t.mn = "nop"
  <2>1. w = EncodeR(SpecialFn["sll"], 0, 0, 0, 0)
    BY <1>0, <1>4 DEF AssemblePseudo
  <2>2. \E rs, rt, rd, shamt \in Int : w = EncodeR(SpecialFn["sll"], rs, rt, rd, shamt)
    BY <2>1
  <2> QED
    BY <1>2, <1>4, <2>2, SpecialWord DEF Pseudo
<1>5. CASE t.mn = "move"
  <2>1. w = EncodeR(SpecialFn["addu"], y, 0, x, 0)
    BY <1>0, <1>5 DEF AssemblePseudo, If
  <2>2. \E rs, rt, rd, shamt \in Int : w = EncodeR(SpecialFn["addu"], rs, rt, rd, shamt)
    BY <1>1, <2>1
  <2> QED
    BY <1>2, <1>5, <2>2, SpecialWord DEF Pseudo
<1>6. CASE t.mn = "not"
  <2>1. w = EncodeR(SpecialFn["nor"], y, 0, x, 0)
    BY <1>0, <1>6 DEF AssemblePseudo, If
  <2>2. \E rs, rt, rd, shamt \in Int : w = EncodeR(SpecialFn["nor"], rs, rt, rd, shamt)
    BY <1>1, <2>1
  <2> QED
    BY <1>2, <1>6, <2>2, SpecialWord DEF Pseudo
<1>7. CASE t.mn = "neg"
  <2>1. w = EncodeR(SpecialFn["sub"], 0, y, x, 0)
    BY <1>0, <1>7 DEF AssemblePseudo, If
  <2>2. \E rs, rt, rd, shamt \in Int : w = EncodeR(SpecialFn["sub"], rs, rt, rd, shamt)
    BY <1>1, <2>1
  <2> QED
    BY <1>2, <1>7, <2>2, SpecialWord DEF Pseudo
<1>8. CASE t.mn = "b"
  <2>1. w = EncodeI(Opcode["beq"], 0, 0, away)
    BY <1>0, <1>8 DEF AssemblePseudo, If
  <2>2. \E rs, rt, imm \in Int : w = EncodeI(Opcode["beq"], rs, rt, imm)
    BY <1>1, <2>1
  <2> QED
    BY <1>2, <1>8, <2>2, ImmediateWord DEF Pseudo
<1> QED
  BY <1>3, <1>4, <1>5, <1>6, <1>7, <1>8

(* A word the assembler makes of a line is one the machine executes, and   *)
(* is listed under the name it was written with, or that of the            *)
(* instruction a pseudo-instruction stands for.                            *)
THEOREM AssembledIsListed ==
  ASSUME NEW t, t.args \in Seq(Operands), NEW here \in Int, NEW labels, NEW addr,
         AssembleInstruction(t, here, labels) # Refused
  PROVE  LET w == AssembleInstruction(t, here, labels)
         IN  /\ Executes(w)
             /\ Disasm(w, addr).mn = IF t.mn \in DOMAIN Pseudo THEN Pseudo[t.mn] ELSE t.mn
<1> DEFINE w == AssembleInstruction(t, here, labels)
           name == IF t.mn \in DOMAIN Pseudo THEN Pseudo[t.mn] ELSE t.mn
<1>1. w \in InstrWord /\ Disasm(w, addr).mn = name
  <2>1. CASE t.mn \in DOMAIN Pseudo
    BY <2>1, PseudoIsListed
  <2>2. CASE t.mn \notin DOMAIN Pseudo
    BY <2>2, TextIsListed
  <2> QED
    BY <2>1, <2>2
<1>2. name # Unknown
  <2>1. CASE t.mn \in DOMAIN Pseudo
    BY <2>1 DEF Pseudo, Unknown
  <2>2. CASE t.mn \notin DOMAIN Pseudo
    <3>1. AssembleText(t, here, labels) # Refused
      BY <2>2 DEF AssembleInstruction
    <3>2. t.mn # Unknown
      BY <3>1, OnlyGroups DEF Unknown, ThreeRegs, Shifts, MulDivs, Ariths, LoadStore
    <3> QED
      BY <2>2, <3>2
  <2> QED
    BY <2>1, <2>2
<1>3. Executes(w)
  BY <1>1, <1>2, NamesExecuted
<1> QED
  BY <1>1, <1>3
=============================================================================
