------------------------------ MODULE MipsLines ------------------------------
(***************************************************************************)
(* Lines of assembly in the machine: the word that the assembler makes of a*)
(* line (MipsEncode) is decoded and executed (MipsVM).  The three tables of*)
(* operands, the assembler's, the disassembler's and the interpreter's, are*)
(* compared with what the documents say that a line does.                  *)
(***************************************************************************)
EXTENDS MipsVM

CONSTANTS
  SourceLines,    \* bound: lines that are assembled, as MipsEncode has them
  Labels,         \* the addresses that have a label
  LineAddr        \* where a line stands in its program

E == INSTANCE MipsEncode

Assembled(t) == E!AssembleInstruction(t, LineAddr, Labels)

Listed(t) == E!Disasm(Assembled(t), LineAddr)

(* The case of mips_vm_step that a word takes, and the fields it reads.    *)
Case(table, c) == CHOOSE n \in DOMAIN table : table[n] = c

Executed(w) ==
  LET i == E!Decode(w)
      Reads(op, rd, shamt, imm) ==
        [op |-> op, rs |-> i.rs, rt |-> i.rt, rd |-> rd, shamt |-> shamt, imm |-> imm]
  IN  CASE i.opcode = E!SPECIAL  -> Reads(Case(E!SpecialFn, i.funct), i.rd, i.shamt, 0)
        [] i.opcode = E!SPECIAL2 -> Reads("mul", i.rd, i.shamt, 0)
        [] i.opcode = E!REGIMM   -> [Reads(Case(E!RegimmRt, i.rt), Zero, 0, i.imm)
                                       EXCEPT !.rt = Zero]
        [] i.opcode \in {E!Opcode.j, E!Opcode.jal} ->
             [op |-> Case(E!Opcode, i.opcode), rs |-> Zero, rt |-> Zero, rd |-> Zero,
              shamt |-> 0, imm |-> i.target]
        [] OTHER                 -> Reads(Case(E!Opcode, i.opcode), Zero, 0, i.imm)

LineInstrs == {Executed(Assembled(t)) : t \in SourceLines}

(* An instruction's lines: those written for it, and their listings.       *)
LinesOf ==
  [i \in LineInstrs |->
     LET written == {t \in SourceLines : Executed(Assembled(t)) = i}
     IN  written \union {Listed(t) : t \in written}]

-----------------------------------------------------------------------------
(* An operand as the documents' "rs" and "urs", "imm" and "uimm".          *)
S(o) == IF o.kind = "reg" THEN Signed(R(o.n)) ELSE o.n
U(o) == IF o.kind = "reg" THEN R(o.n) ELSE o.n % HalfBase

(* docs/VM_ISA.md:9-62 and docs/ASSEMBLER.md:95-101: what is computed of   *)
(* the second and third operand.  The shifts by a register take the amount *)
(* first, not as docs/ASSEMBLER.md:80 has it.                              *)
Computed(mn, b, c) ==
  CASE mn \in {"add", "addu", "addi", "addiu"} -> S(b) + S(c)
    [] mn \in {"sub", "subu"}   -> S(b) - S(c)
    [] mn = "mul"               -> S(b) * S(c)
    [] mn \in {"and", "andi"}   -> BitAnd(U(b), U(c))
    [] mn \in {"or", "ori"}     -> BitOr(U(b), U(c))
    [] mn \in {"xor", "xori"}   -> BitXor(U(b), U(c))
    [] mn = "nor"               -> BitNor(U(b), U(c))
    [] mn \in {"slt", "slti"}   -> Truth(S(b) < S(c))
    [] mn \in {"sltu", "sltiu"} -> Truth(U(b) < U(c))
    [] mn = "sll"               -> U(b) * 2 ^ c.n
    [] mn = "srl"               -> U(b) \div 2 ^ c.n
    [] mn = "sra"               -> S(b) \div 2 ^ c.n
    [] mn = "sllv"              -> U(c) * 2 ^ (U(b) % WordBits)
    [] mn = "srlv"              -> U(c) \div 2 ^ (U(b) % WordBits)
    [] mn = "srav"              -> S(c) \div 2 ^ (U(b) % WordBits)
    [] mn = "lui"               -> U(b) * HalfBase
    [] mn = "move"              -> S(b)
    [] mn = "not"               -> -1 - S(b)
    [] mn = "neg"               -> -S(b)
    [] mn = "jalr"              -> pc + 8

Computing == E!ThreeRegs \union E!Shifts \union E!Ariths
             \union {"mul", "lui", "move", "not", "neg", "jalr"}

(* docs/VM_ISA.md:63-83: when a transfer is taken; its last operand says   *)
(* where to.                                                               *)
Taken(mn, a, b) ==
  CASE mn = "beq"  -> U(a) = U(b)
    [] mn = "bne"  -> U(a) # U(b)
    [] mn = "blez" -> S(a) <= 0
    [] mn = "bgtz" -> S(a) > 0
    [] mn = "bltz" -> S(a) < 0
    [] mn = "bgez" -> S(a) >= 0
    [] mn \in {"b", "j", "jal", "jr", "jalr"} -> TRUE
    [] OTHER -> FALSE

Destined(o) == IF o.kind = "reg" THEN U(o) ELSE o.n

(* The first byte that offset($base) names, of a whole word.               *)
Place(mn, o) ==
  LET a == ToWord(R(o.base) + o.n)
  IN  IF mn \in {"lw", "sw"} THEN a - (a % 4) ELSE a

(* The registers a line may write.                                         *)
Writes(mn, a) ==
  CASE mn \in Computing \union LoadOps -> {a.n}
    [] mn = "jal"                      -> {RA}
    [] OTHER                           -> {}

Does(t) ==
  LET mn == t.mn
      a  == E!Token(t, 1)
      b  == E!Token(t, 2)
      c  == E!Token(t, 3)
  IN  /\ mn \in Computing => regs'[a.n] = ToWord(Computed(mn, b, c))
      /\ mn \in LoadOps   => regs'[a.n] % ByteBase = Bytes[Place(mn, b)]
      /\ mn \in StoreOps  => Bytes'[Place(mn, b)] = U(a) % ByteBase
      /\ mn = "mult"      => Signed(hi') * W + lo' = S(a) * S(b)
      /\ mn = "multu"     => hi' * W + lo' = U(a) * U(b)
      /\ mn = "div"       => lo' = ToWord(Quotient(S(a), S(b)))
      /\ mn = "divu"      => lo' = U(a) \div U(b)
      /\ pc' = IF Taken(mn, a, b) THEN Destined(t.args[Len(t.args)]) ELSE pc + 4
      /\ \A r \in Regs \ Writes(mn, a) : regs'[r] = regs[r]

=============================================================================
