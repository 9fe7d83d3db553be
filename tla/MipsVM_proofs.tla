--------------------------- MODULE MipsVM_proofs ---------------------------
(***************************************************************************)
(* Theorems about the interpreter, for every word size, stack, heap and    *)
(* program set: the type invariant, $zero, precise faults, exactness of    *)
(* sbrk, confinement of the fetch, and, from lemmas on the bytes a word is *)
(* made of, the refinement of the flat byte memory, exactness of loads, of *)
(* stores and of the HI / LO pair; last, that forward code goes forward.   *)
(***************************************************************************)
EXTENDS MipsVM, TLAPS

-----------------------------------------------------------------------------
(* Facts about words.                                                      *)

(* A word has at least sixteen values, and every lane size is positive.    *)
LEMMA WordSizes ==
  /\ ByteBase \in Nat \ {0, 1}
  /\ HalfBase \in Nat \ {0, 1}
  /\ W \in Nat \ {0, 1}
  /\ \A k \in 0 .. 4 : LaneBase(k) \in Nat \ {0}
<1>1. ByteBase \in Nat /\ ByteBase >= 2
  BY WordsAssumption
<1>2. HalfBase \in Nat /\ HalfBase >= 2
  <2>1. \A b \in Nat : b >= 2 => b * b \in Nat /\ b * b >= 2
    OBVIOUS
  <2> QED
    BY <1>1, <2>1 DEF HalfBase
<1>3. W \in Nat /\ W >= 2
  <2>1. \A b \in Nat : b >= 2 => b * b \in Nat /\ b * b >= 2
    OBVIOUS
  <2> QED
    BY <1>2, <2>1 DEF W
<1>4. HalfBase * ByteBase \in Nat \ {0}
  <2>1. \A a, b \in Nat : a >= 2 /\ b >= 2 => a * b \in Nat /\ a * b # 0
    OBVIOUS
  <2> QED
    BY <1>1, <1>2, <2>1
<1>5. ASSUME NEW k \in 0 .. 4
      PROVE  LaneBase(k) \in Nat \ {0}
  BY <1>1, <1>2, <1>3, <1>4 DEF LaneBase
<1> QED
  BY <1>1, <1>2, <1>3, <1>5

(* Truncation always yields a word.                                        *)
LEMMA ToWordIsWord == \A n \in Int : ToWord(n) \in Word
<1>1. \A w \in Nat \ {0}, n \in Int : n % w \in 0 .. w - 1
  OBVIOUS
<1> QED
  BY <1>1, WordSizes DEF ToWord, Word

(* The numbers a word is read as.                                          *)
LEMMA WordViews ==
  /\ \A w \in Word : w \in Int /\ Signed(w) \in Int
  /\ \A b : Truth(b) \in {0, 1}
  /\ 0 \in Word
BY WordSizes DEF Word, Signed, SignExtend, Truth

(* Bitwise operators stay within the integers.                             *)
LEMMA BitsAreInts ==
  ASSUME NEW a \in Word, NEW b \in Word
  PROVE  /\ BitAnd(a, b) \in Int
         /\ BitOr(a, b) \in Int /\ BitXor(a, b) \in Int /\ BitNor(a, b) \in Int
<1>1. BitAnd(a, b) \in Int
  BY WordsAssumption, WordSizes DEF Word
<1> QED
  BY <1>1, WordSizes DEF Word, BitOr, BitXor, BitNor

(* The lanes of a word, and a word with some lanes replaced, are integers. *)
LEMMA LanesAreInts ==
  ASSUME NEW w \in Word, NEW k \in 0 .. 3, NEW n \in 1 .. 4, NEW v \in Int
  PROVE  GetLanes(w, k, n) \in Int /\ PutLanes(w, k, n, v) \in Int
<1>1. LaneBase(k) \in Nat \ {0} /\ LaneBase(n) \in Nat \ {0}
  BY WordSizes
<1>2. w \in Int
  BY WordViews
<1>3. w \div LaneBase(k) \in Int
  BY <1>1, <1>2
<1>4. GetLanes(w, k, n) \in Int /\ v % LaneBase(n) \in Int
  BY <1>1, <1>3 DEF GetLanes
<1> QED
  BY <1>1, <1>2, <1>4 DEF PutLanes

(* C's division by a non-zero number is an integer.                        *)
LEMMA QuotientIsInt ==
  ASSUME NEW a \in Int, NEW b \in Int, b # 0
  PROVE  Quotient(a, b) \in Int /\ Remainder(a, b) \in Int
<1>1. Magnitude(a) \in Int /\ Magnitude(b) \in Nat \ {0}
  BY DEF Magnitude
<1>2. Magnitude(a) \div Magnitude(b) \in Int
  BY <1>1
<1> QED
  BY <1>2 DEF Quotient, Remainder

-----------------------------------------------------------------------------
(* Facts about the operators the instructions are built from.              *)

(* Set keeps the register file a register file and $zero 0.                *)
LEMMA SetRegister ==
  ASSUME regs \in [Regs -> Word], NEW r \in Regs, NEW v \in Int, Set(r, v)
  PROVE  regs' \in [Regs -> Word] /\ regs'[Zero] = 0
<1>1. ToWord(v) \in Word /\ 0 \in Word
  BY ToWordIsWord, WordViews
<1> QED
  BY <1>1, MipsVMAssumption DEF Set

(* Reading a register.                                                     *)
LEMMA ReadRegister ==
  ASSUME regs \in [Regs -> Word], NEW r \in Regs
  PROVE  R(r) \in Word /\ R(r) \in Int /\ Signed(R(r)) \in Int
<1>1. R(r) \in Word
  BY WordViews DEF R
<1> QED
  BY <1>1, WordViews

(* Shift amounts give positive powers of two.                              *)
LEMMA ShiftPowers ==
  ASSUME NEW a \in Int, NEW k \in 0 .. WordBits - 1
  PROVE  2 ^ k \in Nat \ {0} /\ 2 ^ (a % WordBits) \in Nat \ {0}
<1>1. WordBits \in Nat \ {0}
  BY WordsAssumption DEF WordBits
<1>2. a % WordBits \in 0 .. WordBits - 1
  BY <1>1
<1> QED
  BY <1>2, WordsAssumption

(* What the register-register instructions compute is an integer.          *)
LEMMA RegResultIsInt ==
  ASSUME NEW i \in Instruction, i.op \in RegOps, NEW a \in Word, NEW b \in Word
  PROVE  RegResult(i, a, b) \in Int
<1>1. a \in Int /\ b \in Int /\ Signed(a) \in Int /\ Signed(b) \in Int
  BY WordViews
<1>2. i.shamt \in 0 .. WordBits - 1
  BY DEF Instruction
<1> DEFINE p == 2 ^ i.shamt
           q == 2 ^ (a % WordBits)
<1>3. p \in Nat \ {0} /\ q \in Nat \ {0}
  BY <1>1, <1>2, ShiftPowers
<1>4. /\ b * p \in Int /\ b * q \in Int
      /\ b \div p \in Int /\ b \div q \in Int
      /\ Signed(b) \div p \in Int /\ Signed(b) \div q \in Int
      /\ Signed(a) * Signed(b) \in Int
  <2> HIDE DEF p, q
  <2> QED
    BY <1>1, <1>3
<1>5. /\ BitAnd(a, b) \in Int /\ BitOr(a, b) \in Int
      /\ BitXor(a, b) \in Int /\ BitNor(a, b) \in Int
  BY BitsAreInts
<1>6. /\ Truth(Signed(a) < Signed(b)) \in Int /\ Truth(a < b) \in Int
      /\ a + b \in Int /\ a - b \in Int
  BY <1>1 DEF Truth
<1> QED
  BY <1>4, <1>5, <1>6 DEF RegResult, RegOps

(* What the immediate instructions compute is an integer.                  *)
LEMMA ImmResultIsInt ==
  ASSUME NEW i \in Instruction, i.op \in ImmOps, NEW a \in Word
  PROVE  ImmResult(i, a) \in Int
<1>1. a \in Int /\ Signed(a) \in Int /\ i.imm \in Int
  BY WordViews DEF Instruction
<1>2. UImm(i) \in Word
  <2>1. UImm(i) \in 0 .. HalfBase - 1
    BY <1>1, WordSizes DEF UImm
  <2>2. \A h \in Nat \ {0, 1} : h <= h * h
    OBVIOUS
  <2>3. HalfBase <= W
    BY <2>2, WordSizes DEF W
  <2> QED
    BY <2>1, <2>3, WordSizes DEF Word
<1>3. /\ BitAnd(a, UImm(i)) \in Int /\ BitOr(a, UImm(i)) \in Int
      /\ BitXor(a, UImm(i)) \in Int
  BY <1>2, BitsAreInts
<1>4. /\ Truth(Signed(a) < i.imm) \in Int /\ Truth(a < UImm(i)) \in Int
      /\ a + i.imm \in Int /\ i.imm * HalfBase \in Int
  BY <1>1, WordSizes DEF Truth
<1> QED
  BY <1>3, <1>4 DEF ImmResult, ImmOps

(* A jump target is a word: it lies in the region of the jump.             *)
LEMMA JumpTargetIsWord ==
  ASSUME NEW i \in Instruction, pc \in Word
  PROVE  JumpTarget(i) \in Word
<1> DEFINE G == RegionSize
           q == pc \div G
           Q == W \div G
           m == (4 * i.imm) % G
<1>1. G \in Nat /\ G > 0 /\ W \in Nat /\ pc \in Int /\ pc >= 0 /\ pc < W /\ i.imm \in Int
  BY MipsVMAssumption, WordSizes DEF Word, Instruction
<1>2. m \in 0 .. G - 1
  <2>1. \A n \in Int : n % G \in 0 .. G - 1
    BY <1>1
  <2> QED
    BY <1>1, <2>1
<1>3. q \in Int /\ q >= 0 /\ pc = G * q + (pc % G) /\ pc % G >= 0
  BY <1>1
<1>4. Q \in Int /\ W = G * Q
  <2>1. W % G = 0
    BY MipsVMAssumption
  <2>2. W = G * Q + (W % G)
    BY <1>1
  <2> QED
    BY <1>1, <2>1, <2>2
<1>5. q + 1 <= Q
  <2>1. \A a, b, g \in Int : g > 0 /\ g * a < g * b => a + 1 <= b
    OBVIOUS
  <2>2. G * q < G * Q
    BY <1>1, <1>3, <1>4
  <2> QED
    BY <1>1, <1>3, <1>4, <2>1, <2>2
<1>6. G * q + G <= W
  <2>1. \A a, b, g \in Int : g > 0 /\ a + 1 <= b => g * a + g <= g * b
    OBVIOUS
  <2> QED
    BY <1>1, <1>3, <1>4, <1>5, <2>1
<1>7. JumpTarget(i) = G * q + m
  BY <1>1, <1>3 DEF JumpTarget
<1>8. G * q >= 0 /\ G * q \in Int
  BY <1>1, <1>3
<1> HIDE DEF q, m
<1> QED
  BY <1>1, <1>2, <1>6, <1>7, <1>8 DEF Word

(* Where control goes after an instruction is a word.                      *)
LEMMA TargetsAreWords ==
  ASSUME NEW i \in Instruction, pc \in Word
  PROVE  Next4 \in Word /\ Link \in Word /\ BranchTarget(i) \in Word
<1>1. pc \in Int /\ i.imm \in Int
  BY WordViews DEF Instruction
<1> QED
  BY <1>1, ToWordIsWord DEF Next4, Link, BranchTarget

(* An access the checks let through falls on an existing word and lane.    *)
LEMMA AccessInStack ==
  ASSUME regs \in [Regs -> Word],
         NEW i \in Instruction, i.op \in LoadOps \union StoreOps, Accessible(i)
  PROVE  /\ Address(i) \in Nat
         /\ WordIndex(i) \in 0 .. StackWords - 1
         /\ FirstLane(i) \in 0 .. 3
         /\ Width(i) \in {1, 2, 4}
<1>1. Width(i) \in {1, 2, 4}
  BY DEF Width, LoadOps, StoreOps
<1>2. Address(i) \in Int
  <2>1. R(i.rs) \in Int /\ i.imm \in Int
    BY ReadRegister DEF Instruction
  <2>2. ToWord(R(i.rs) + i.imm) \in Word
    BY <2>1, ToWordIsWord
  <2> QED
    BY <2>2, WordViews DEF Address
<1>3. Address(i) >= 0 /\ Address(i) + Width(i) <= 4 * StackWords
  BY DEF Accessible, StackBytes
<1> QED
  BY <1>1, <1>2, <1>3, MipsVMAssumption DEF WordIndex, FirstLane

(* What a load reads and what a store leaves are integers.                 *)
LEMMA LoadedIsInt ==
  ASSUME regs \in [Regs -> Word], stack \in [0 .. StackWords - 1 -> Word],
         NEW i \in Instruction, i.op \in LoadOps \union StoreOps, Accessible(i)
  PROVE  /\ i.op \in LoadOps => LoadValue(i) \in Int
         /\ PutLanes(stack[WordIndex(i)], FirstLane(i), Width(i), R(i.rt)) \in Int
<1>1. /\ stack[WordIndex(i)] \in Word
      /\ FirstLane(i) \in 0 .. 3 /\ Width(i) \in 1 .. 4
  BY AccessInStack
<1>2. R(i.rt) \in Int
  BY ReadRegister DEF Instruction
<1>3. LaneBase(Width(i)) \in Int
  BY <1>1, WordSizes
<1>4. /\ GetLanes(stack[WordIndex(i)], FirstLane(i), Width(i)) \in Int
      /\ PutLanes(stack[WordIndex(i)], FirstLane(i), Width(i), R(i.rt)) \in Int
  BY <1>1, <1>2, LanesAreInts
<1> QED
  BY <1>3, <1>4 DEF LoadValue, SignExtend

-----------------------------------------------------------------------------
(* The type invariant and $zero, together: most instructions clear $zero   *)
(* on their way, and the proof of one needs the other.                     *)
Typed == TypeOK /\ ZeroIsZero

(* The stack pointer the machine starts with is a word, and not $zero.     *)
LEMMA StackTopIsWord ==
  /\ StackBytes \in Word
  /\ SP \in Regs /\ Zero \in Regs /\ RA \in Regs /\ V0 \in Regs /\ A0 \in Regs
BY MipsVMAssumption, WordSizes DEF Word, StackBytes

(* A fetch that is not past the end yields an instruction.                 *)
LEMMA FetchedAreInstructions ==
  ASSUME TypeOK, ~PastEnd, NEW i \in Fetched
  PROVE  i \in Instruction
<1>1. CASE AtInstruction
  <2>1. code \in Seq(Instrs) /\ Len(code) \in Nat /\ pc \in Nat
    BY WordSizes DEF TypeOK, Word
  <2>2. pc \div 4 + 1 \in 1 .. Len(code)
    BY <1>1, <2>1 DEF AtInstruction, InBinary, CodeBytes
  <2>3. i = code[pc \div 4 + 1]
    BY <1>1 DEF Fetched, Current
  <2>4. i \in Instrs
    BY <2>1, <2>2, <2>3
  <2> QED
    BY <2>4, MipsVMAssumption
<1>2. CASE ~AtInstruction
  BY <1>2, MipsVMAssumption DEF Fetched
<1> QED
  BY <1>1, <1>2

(* Every instruction keeps the type invariant and $zero.                   *)
LEMMA ExecuteKeepsTyped ==
  ASSUME Typed, NEW i \in Instruction, Execute(i)
  PROVE  Typed'
<1> USE DEF Typed, ZeroIsZero
<1>1. /\ i.rs \in Regs /\ i.rt \in Regs /\ i.rd \in Regs /\ i.imm \in Int
      /\ Zero \in Regs /\ RA \in Regs /\ V0 \in Regs /\ A0 \in Regs
  BY StackTopIsWord DEF Instruction
<1>2. regs \in [Regs -> Word] /\ pc \in Word /\ hi \in Word /\ lo \in Word
  BY DEF TypeOK
<1>3. \A r \in Regs : R(r) \in Word /\ R(r) \in Int /\ Signed(R(r)) \in Int
  BY <1>2, ReadRegister
<1>4. \A r \in Regs, v \in Int :
        Set(r, v) => regs' \in [Regs -> Word] /\ regs'[Zero] = 0
  BY <1>2, SetRegister
<1>5. Next4 \in Word /\ Link \in Word /\ BranchTarget(i) \in Word /\ JumpTarget(i) \in Word
  BY <1>2, TargetsAreWords, JumpTargetIsWord
<1>6. Set(Zero, 0) => regs' \in [Regs -> Word] /\ regs'[Zero] = 0
  BY <1>1, <1>4
<1>7. Link \in Int
  BY <1>5, WordViews
<1>8. Fault => Typed'
  BY <1>5, <1>6 DEF Fault, host, TypeOK
<1>9. Skip => Typed'
  BY <1>5, <1>6 DEF Skip, flags, host, TypeOK
<1>10. CASE RegAlu(i)
  <2>1. RegResult(i, R(i.rs), R(i.rt)) \in Int
    BY <1>1, <1>3, <1>10, RegResultIsInt DEF RegAlu
  <2>2. regs' \in [Regs -> Word] /\ regs'[Zero] = 0
    BY <1>1, <1>4, <1>10, <2>1 DEF RegAlu
  <2> QED
    BY <1>5, <1>10, <2>2 DEF RegAlu, flags, host, TypeOK
<1>11. CASE ImmAlu(i)
  <2>1. ImmResult(i, R(i.rs)) \in Int
    BY <1>1, <1>3, <1>11, ImmResultIsInt DEF ImmAlu
  <2>2. regs' \in [Regs -> Word] /\ regs'[Zero] = 0
    BY <1>1, <1>4, <1>11, <2>1 DEF ImmAlu
  <2> QED
    BY <1>5, <1>11, <2>2 DEF ImmAlu, flags, host, TypeOK
<1>12. CASE Move(i)
  <2>1. hi \in Int /\ lo \in Int
    BY <1>2, WordViews
  <2>2. \/ Set(i.rd, hi) \/ Set(i.rd, lo) \/ Set(i.rd, R(i.rs)) \/ Set(Zero, 0)
    BY <1>12 DEF Move
  <2>3. regs' \in [Regs -> Word] /\ regs'[Zero] = 0
    BY <1>1, <1>3, <1>4, <1>6, <2>1, <2>2
  <2>4. hi' \in Word /\ lo' \in Word
    BY <1>1, <1>2, <1>3, <1>12 DEF Move
  <2> QED
    BY <1>5, <1>12, <2>3, <2>4 DEF Move, flags, host, TypeOK
<1>13. CASE Multiply(i)
  <2>1. \A a, b \in Int : ToWord((a * b) \div W) \in Word /\ ToWord(a * b) \in Word
    <3>1. \A a, b \in Int : a * b \in Int
      OBVIOUS
    <3>2. \A n \in Int : n \div W \in Int
      BY WordSizes
    <3> QED
      BY <3>1, <3>2, ToWordIsWord
  <2>2. hi' \in Word /\ lo' \in Word
    BY <1>1, <1>3, <1>13, <2>1 DEF Multiply
  <2> QED
    BY <1>5, <1>6, <1>13, <2>2 DEF Multiply, flags, host, TypeOK
<1>14. CASE DivideByZero(i)
  BY <1>8, <1>14 DEF DivideByZero
<1>15. CASE Divide(i)
  <2>1. \A a, b \in Int : b # 0 =>
          ToWord(Quotient(a, b)) \in Word /\ ToWord(Remainder(a, b)) \in Word
    BY QuotientIsInt, ToWordIsWord
  <2>2. R(i.rt) # 0 /\ Signed(R(i.rt)) # 0
    BY <1>1, <1>3, <1>15, WordSizes DEF Divide, Signed, SignExtend, Word
  <2>3. hi' \in Word /\ lo' \in Word
    BY <1>1, <1>3, <1>15, <2>1, <2>2 DEF Divide
  <2> QED
    BY <1>5, <1>6, <1>15, <2>3 DEF Divide, flags, host, TypeOK
<1>16. CASE DivideKills(i)
  BY <1>16 DEF DivideKills, data, flags, TypeOK
<1>17. CASE Trap(i)
  BY <1>8, <1>9, <1>17 DEF Trap
<1>18. CASE UnknownSpecial(i)
  BY <1>8, <1>18 DEF UnknownSpecial
<1>19. CASE UnknownOpcode(i)
  <2>1. regs' \in [Regs -> Word] /\ regs'[Zero] = 0
    BY <1>1, <1>2, <1>19, WordViews DEF UnknownOpcode
  <2> QED
    BY <1>19, <2>1 DEF UnknownOpcode, host, TypeOK
<1>20. CASE Break(i)
  BY <1>5, <1>6, <1>20 DEF Break, host, TypeOK
<1>21. CASE Branch(i)
  <2>1. regs' \in [Regs -> Word] /\ regs'[Zero] = 0
    BY <1>1, <1>4, <1>6, <1>7, <1>21 DEF Branch
  <2> QED
    BY <1>5, <1>21, <2>1 DEF Branch, flags, host, TypeOK
<1>22. CASE Jump(i)
  <2>1. regs' \in [Regs -> Word] /\ regs'[Zero] = 0
    BY <1>1, <1>4, <1>6, <1>7, <1>22 DEF Jump
  <2> QED
    BY <1>5, <1>22, <2>1 DEF Jump, flags, host, TypeOK
<1>23. CASE JumpRegister(i)
  <2>1. regs' \in [Regs -> Word] /\ regs'[Zero] = 0
    BY <1>1, <1>4, <1>6, <1>7, <1>23 DEF JumpRegister
  <2>2. pc' \in Word
    BY <1>1, <1>3, <1>5, <1>23 DEF JumpRegister
  <2> QED
    BY <1>23, <2>1, <2>2 DEF JumpRegister, flags, host, TypeOK
<1>24. CASE LoadMem(i)
  <2>1. LoadValue(i) \in Int
    BY <1>24, LoadedIsInt DEF LoadMem, TypeOK
  <2>2. regs' \in [Regs -> Word] /\ regs'[Zero] = 0
    BY <1>1, <1>4, <1>24, <2>1 DEF LoadMem
  <2> QED
    BY <1>5, <1>24, <2>2 DEF LoadMem, flags, host, TypeOK
<1>25. CASE StoreMem(i)
  <2>1. ToWord(PutLanes(stack[WordIndex(i)], FirstLane(i), Width(i), R(i.rt))) \in Word
    BY <1>25, LoadedIsInt, ToWordIsWord DEF StoreMem, TypeOK
  <2>2. stack' \in [0 .. StackWords - 1 -> Word]
    BY <1>25, <2>1 DEF StoreMem, TypeOK
  <2>3. /\ regs' \in [Regs -> Word] /\ regs'[Zero] = 0 /\ pc' \in Word
        /\ UNCHANGED <<hi, lo, heap_used, flags, host>>
    BY <1>5, <1>6, <1>25 DEF StoreMem
  <2> QED
    BY <2>2, <2>3 DEF flags, host, TypeOK
<1>26. CASE AccessViolation(i)
  BY <1>8, <1>26 DEF AccessViolation
<1>27. CASE SysExit(i)
  <2>1. regs' \in [Regs -> Word] /\ regs'[Zero] = 0
    BY <1>1, <1>4, <1>27 DEF SysExit
  <2> QED
    BY <1>5, <1>27, <2>1 DEF SysExit, host, TypeOK
<1>28. CASE SysOutput(i)
  BY <1>9, <1>28 DEF SysOutput
<1>29. CASE SysStub(i)
  <2>1. regs' \in [Regs -> Word] /\ regs'[Zero] = 0
    BY <1>1, <1>4, <1>29 DEF SysStub
  <2> QED
    BY <1>5, <1>29, <2>1 DEF SysStub, flags, host, TypeOK
<1>30. CASE SysSbrk(i)
  <2>1. heap_used \in Int /\ -1 \in Int
    BY MipsVMAssumption DEF TypeOK
  <2>2. NewBreak \in Word
    BY <1>1, <1>3, <2>1, ToWordIsWord DEF NewBreak
  <2>3. heap_used' \in 0 .. HeapSize
    BY <1>30, <2>2, MipsVMAssumption, WordSizes, SMTT(30) DEF SysSbrk, TypeOK, Word
  <2>4. regs' \in [Regs -> Word] /\ regs'[Zero] = 0
    BY <1>1, <1>4, <1>30, <2>1 DEF SysSbrk
  <2> QED
    BY <1>5, <1>30, <2>3, <2>4 DEF SysSbrk, flags, host, TypeOK
<1>31. CASE SysUnknown(i)
  BY <1>5, <1>6, <1>31 DEF SysUnknown, host, TypeOK
<1> QED
  BY <1>10, <1>11, <1>12, <1>13, <1>14, <1>15, <1>16, <1>17, <1>18, <1>19, <1>20,
     <1>21, <1>22, <1>23, <1>24, <1>25, <1>26, <1>27, <1>28, <1>29, <1>30, <1>31
  DEF Execute

(* The initial states and every step of the machine and its host.          *)
LEMMA InitTyped == Init => Typed
<1> SUFFICES ASSUME Init PROVE Typed
  OBVIOUS
<1>1. StackBytes \in Word /\ 0 \in Word /\ SP # Zero
  BY StackTopIsWord, WordViews DEF SP, Zero
<1>2. code \in Seq(Instrs) /\ heap_used \in 0 .. HeapSize
  BY MipsVMAssumption DEF Init
<1>3. regs \in [Regs -> Word] /\ regs[Zero] = 0
  BY <1>1, StackTopIsWord DEF Init
<1>4. stack \in [0 .. StackWords - 1 -> Word]
  BY <1>1 DEF Init
<1>5. /\ hi \in Word /\ lo \in Word /\ pc \in Word
      /\ running \in BOOLEAN /\ halted \in BOOLEAN /\ error \in BOOLEAN /\ alive \in BOOLEAN
  BY <1>1 DEF Init
<1>6. loads \in 0 .. MaxLoads /\ calls \in 0 .. MaxCalls
  BY MipsVMAssumption DEF Init
<1> QED
  BY <1>2, <1>3, <1>4, <1>5, <1>6 DEF Typed, TypeOK, ZeroIsZero

LEMMA NextKeepsTyped == Typed /\ [Next]_vars => Typed'
<1> SUFFICES ASSUME Typed, [Next]_vars PROVE Typed'
  OBVIOUS
<1>1. /\ StackBytes \in Word /\ 0 \in Word /\ SP # Zero
      /\ SP \in Regs /\ Zero \in Regs
  BY StackTopIsWord, WordViews DEF SP, Zero
<1>2. CASE Step
  BY <1>2, FetchedAreInstructions, ExecuteKeepsTyped DEF Step, Typed
<1>3. CASE FallOff
  BY <1>3 DEF FallOff, data, host, Typed, TypeOK, ZeroIsZero
<1>4. CASE WildFetch
  BY <1>4 DEF WildFetch, data, flags, Typed, TypeOK, ZeroIsZero
<1>5. CASE Load
  <2>1. code' \in Seq(Instrs) /\ pc' \in Word /\ loads' \in 0 .. MaxLoads
    BY <1>1, <1>5, MipsVMAssumption DEF Load, Typed, TypeOK
  <2> QED
    BY <1>5, <2>1 DEF Load, data, flags, Typed, TypeOK, ZeroIsZero
<1>6. CASE Run
  <2>1. calls' \in 0 .. MaxCalls /\ regs' \in [Regs -> Word] /\ regs'[Zero] = 0
    BY <1>1, <1>6, MipsVMAssumption DEF Run, Typed, TypeOK, ZeroIsZero
  <2> QED
    BY <1>6, <2>1 DEF Run, Typed, TypeOK, ZeroIsZero
<1>7. CASE VmInit
  <2>1. calls' \in 0 .. MaxCalls /\ regs' \in [Regs -> Word] /\ regs'[Zero] = 0
    BY <1>1, <1>7, MipsVMAssumption DEF VmInit, Typed, TypeOK
  <2>2. code' \in Seq(Instrs) /\ heap_used' \in 0 .. HeapSize
    BY <1>7, MipsVMAssumption DEF VmInit
  <2>3. stack' \in [0 .. StackWords - 1 -> Word]
    BY <1>1, <1>7 DEF VmInit
  <2>4. /\ hi' \in Word /\ lo' \in Word /\ pc' \in Word
        /\ running' \in BOOLEAN /\ halted' \in BOOLEAN /\ error' \in BOOLEAN
        /\ alive' = alive /\ loads' = loads
    BY <1>1, <1>7 DEF VmInit
  <2> QED
    BY <2>1, <2>2, <2>3, <2>4 DEF Typed, TypeOK, ZeroIsZero
<1>8. CASE UNCHANGED vars
  BY <1>8 DEF vars, data, flags, host, Typed, TypeOK, ZeroIsZero
<1> QED
  BY <1>2, <1>3, <1>4, <1>5, <1>6, <1>7, <1>8 DEF Next, LeaveCode

LEMMA TypedAlways == Spec => []Typed
BY InitTyped, NextKeepsTyped, PTL DEF Spec

(* The machine's state is well-typed in every reachable state.             *)
THEOREM TypeCorrect == Spec => []TypeOK
<1>1. Typed => TypeOK
  BY DEF Typed
<1> QED
  BY <1>1, TypedAlways, PTL

(* $zero is 0 between any two instructions.                                *)
THEOREM ZeroStaysZero == Spec => []ZeroIsZero
<1>1. Typed => ZeroIsZero
  BY DEF Typed
<1> QED
  BY <1>1, TypedAlways, PTL

-----------------------------------------------------------------------------
(* A fault leaves registers, memory, HI/LO and the break as they were.     *)
LEMMA FaultStep == Typed /\ [Next]_vars => [FaultChangesNothing]_vars
<1> SUFFICES ASSUME Typed, Next, error', ~error
             PROVE  UNCHANGED <<regs, hi, lo, stack, heap_used>>
  BY DEF FaultChangesNothing
<1>1. ASSUME Set(Zero, 0) \/ regs' = [regs EXCEPT ![Zero] = 0]
      PROVE  regs' = regs
  <2>1. regs \in [Regs -> Word] /\ regs[Zero] = 0 /\ Zero \in Regs
    BY StackTopIsWord DEF Typed, TypeOK, ZeroIsZero
  <2>2. ToWord(0) = 0
    BY WordSizes DEF ToWord
  <2> QED
    BY <1>1, <2>1, <2>2 DEF Set
<1>2. Step
  BY DEF Next, LeaveCode, FallOff, WildFetch, Load, Run, VmInit, flags
<1>3. PICK i \in Fetched : Execute(i)
  BY <1>2 DEF Step
<1>4. \/ DivideByZero(i) \/ Trap(i) \/ UnknownSpecial(i) \/ UnknownOpcode(i)
      \/ AccessViolation(i) \/ SysUnknown(i)
  BY <1>3 DEF Execute, RegAlu, ImmAlu, Move, Multiply, Divide, DivideKills, Break, Branch,
              Jump, JumpRegister, LoadMem, StoreMem, SysExit, SysOutput, Skip, SysStub,
              SysSbrk, flags
<1> QED
  BY <1>1, <1>4 DEF DivideByZero, Trap, UnknownSpecial, UnknownOpcode, AccessViolation,
                    SysUnknown, Fault, Skip, flags

THEOREM FaultsArePrecise == Spec => PreciseFaults
BY TypedAlways, FaultStep, PTL DEF Spec, PreciseFaults

-----------------------------------------------------------------------------
(* The wrapped comparison of sbrk refuses exactly the sums outside the     *)
(* heap, because a heap is less than half of the word range.               *)
LEMMA WrappedSum ==
  ASSUME NEW u \in 0 .. HeapSize, NEW a \in Word
  PROVE  LET sum == u + Signed(a)
             new == ToWord(u + a)
         IN  /\ new > HeapSize <=> sum \notin 0 .. HeapSize
             /\ sum \in 0 .. HeapSize => new = sum
<1>1. /\ HeapSize \in Nat /\ W \in Nat /\ 2 * HeapSize < W /\ W > 0
      /\ u \in Int /\ u >= 0 /\ u <= HeapSize /\ a \in Int /\ a >= 0 /\ a < W
  BY MipsVMAssumption, WordSizes DEF Word
<1>2. \A n \in Int : /\ 0 <= n /\ n < W => n % W = n
                     /\ W <= n /\ n < 2 * W => n % W = n - W
  BY <1>1
<1>3. \/ u + a < W /\ ToWord(u + a) = u + a
      \/ u + a >= W /\ ToWord(u + a) = u + a - W
  BY <1>1, <1>2 DEF ToWord
<1>4. \/ 2 * a < W /\ Signed(a) = a
      \/ 2 * a >= W /\ Signed(a) = a - W
  BY <1>1 DEF Signed, SignExtend
<1> QED
  BY <1>1, <1>3, <1>4

LEMMA SbrkStep == Typed /\ [Next]_vars => [SbrkMovesExactly]_vars
<1> SUFFICES ASSUME Typed, Step, AtInstruction, Current.op = "syscall", R(V0) = SbrkCall
             PROVE  LET sum == heap_used + Signed(R(A0))
                    IN  IF sum \in 0 .. HeapSize
                        THEN heap_used' = sum /\ regs'[V0] = heap_used
                        ELSE heap_used' = heap_used /\ regs'[V0] = W - 1
  BY DEF SbrkMovesExactly
<1>1. PICK i \in Fetched : Execute(i)
  BY DEF Step
<1>2. i.op = "syscall"
  BY <1>1 DEF Fetched
<1>3. SysSbrk(i)
  <2>1. \/ SysExit(i) \/ SysOutput(i) \/ SysStub(i) \/ SysSbrk(i) \/ SysUnknown(i)
    BY <1>1, <1>2
    DEF Execute, RegAlu, ImmAlu, Move, Multiply, DivideByZero, Divide, DivideKills, Overflows,
        Trap, UnknownSpecial, UnknownOpcode, Break, Branch, Jump, JumpRegister, LoadMem,
        StoreMem, AccessViolation, RegOps, ImmOps, MoveOps, TrapOps, BranchOps,
        LinkBranchOps, LoadOps, StoreOps
  <2> QED
    BY <2>1 DEF SysExit, SysOutput, SysStub, SysUnknown, ExitCalls, OutputCalls, StubCalls,
                SbrkCall
<1>4. /\ regs \in [Regs -> Word] /\ heap_used \in 0 .. HeapSize
      /\ V0 \in Regs /\ A0 \in Regs /\ V0 # Zero /\ R(A0) \in Word
  BY StackTopIsWord, ReadRegister DEF Typed, TypeOK, V0, Zero
<1>5. \A v : Set(V0, v) => regs'[V0] = ToWord(v)
  BY <1>4 DEF Set
<1>6. ToWord(-1) = W - 1 /\ \A n \in 0 .. HeapSize : ToWord(n) = n
  BY WordSizes, MipsVMAssumption, SMTT(30) DEF ToWord
<1> DEFINE sum == heap_used + Signed(R(A0))
<1>7. /\ NewBreak > HeapSize <=> sum \notin 0 .. HeapSize
      /\ sum \in 0 .. HeapSize => NewBreak = sum
  BY <1>4, WrappedSum DEF NewBreak
<1> HIDE DEF sum
<1>8. CASE sum \in 0 .. HeapSize
  <2>1. Set(V0, heap_used) /\ heap_used' = sum
    BY <1>3, <1>7, <1>8 DEF SysSbrk
  <2> QED
    BY <1>4, <1>5, <1>6, <1>8, <2>1 DEF sum
<1>9. CASE sum \notin 0 .. HeapSize
  <2>1. Set(V0, -1) /\ heap_used' = heap_used
    BY <1>3, <1>7, <1>9 DEF SysSbrk
  <2> QED
    BY <1>5, <1>6, <1>9, <2>1 DEF sum
<1> QED
  BY <1>8, <1>9

(* sbrk is exact for every heap below half the word range.                 *)
THEOREM SbrkIsExact == Spec => SbrkExact
BY TypedAlways, SbrkStep, PTL DEF Spec, SbrkExact

-----------------------------------------------------------------------------
(* Contained binaries.  Not inductive on its own: the link register and the*)
(* loaded program have to stay within bounds too.                          *)
InCode(n) == n \in Nat /\ n % 4 = 0 /\ n <= CodeMax + 4

Confined ==
  /\ InCode(pc) /\ InCode(regs[RA])
  /\ 4 * Len(code) <= CodeMax
  /\ Contained(code)

(* Code addresses and the eight bytes behind them are below the region     *)
(* size or at least below the word range, so that no sum wraps.            *)
LEMMA CodeIsLow ==
  /\ CodeMax \in Nat /\ RegionSize \in Nat
  /\ CodeMax < RegionSize /\ CodeMax + 8 < W
  /\ \A n \in Int : 0 <= n /\ n <= CodeMax + 8 => ToWord(n) = n
<1>1. /\ CodeMax \in Nat /\ RegionSize \in Nat /\ RegionSize > 8 /\ CodeMax < RegionSize
      /\ W \in Nat /\ RegionSize < W /\ W % RegionSize = 0
  BY MipsVMAssumption, WordSizes
<1>2. 2 * RegionSize <= W
  <2>1. W = RegionSize * (W \div RegionSize) /\ W \div RegionSize \in Int
    BY <1>1
  <2>2. \A g, q \in Int : g > 0 /\ g < g * q => q >= 2
    OBVIOUS
  <2>3. W \div RegionSize >= 2
    BY <1>1, <2>1, <2>2
  <2>4. \A g, q \in Int : g > 0 /\ q >= 2 => 2 * g <= g * q
    OBVIOUS
  <2> QED
    BY <1>1, <2>1, <2>3, <2>4
<1>3. \A n \in Int : 0 <= n /\ n < W => n % W = n
  BY <1>1
<1> QED
  BY <1>1, <1>2, <1>3 DEF ToWord

(* Confined, the loop is past the end or at an instruction of the binary.  *)
LEMMA ConfinedFetch ==
  ASSUME Typed, Confined
  PROVE  PastEnd \/ AtInstruction
<1>1. pc \in Nat /\ pc % 4 = 0 /\ pc <= CodeMax + 4
  BY DEF Confined, InCode
<1>2. ToWord(pc + 4) = pc + 4
  BY <1>1, CodeIsLow
<1> QED
  BY <1>1, <1>2 DEF PastEnd, AtInstruction, InBinary, CodeBytes, Typed, TypeOK

(* Instructions of a contained binary write the link only by linking, and  *)
(* transfer control to its instructions, its end, or the link.             *)
LEMMA ExecuteConfined ==
  ASSUME Typed, Confined, ~PastEnd, NEW i \in Fetched, Execute(i)
  PROVE  InCode(pc') /\ InCode(regs'[RA])
<1> DEFINE k == pc \div 4 + 1
<1>1. /\ AtInstruction /\ i = code[k]
      /\ pc \in Nat /\ pc % 4 = 0 /\ pc = 4 * (k - 1)
      /\ code \in Seq(Instrs) /\ Len(code) \in Nat
      /\ k \in 1 .. Len(code) /\ 4 * Len(code) <= CodeMax
  <2>1. AtInstruction
    BY ConfinedFetch
  <2>2. i = code[k]
    BY <2>1 DEF Fetched, Current
  <2> QED
    BY <2>1, <2>2 DEF Typed, TypeOK, Confined, InCode, AtInstruction, InBinary, CodeBytes
<1> DEFINE L == Len(code)
<1>20. \A n \in 0 .. L : 4 * n \in Nat /\ 4 * n <= CodeMax
  <2>1. L \in Nat /\ 4 * L <= CodeMax /\ CodeMax \in Nat
    BY <1>1, CodeIsLow
  <2> HIDE DEF L
  <2> QED
    BY <2>1
<1>21. pc \in 0 .. CodeMax
  <2>1. k - 1 \in 0 .. L /\ pc = 4 * (k - 1)
    BY <1>1
  <2> QED
    BY <1>20, <2>1, CodeIsLow
<1>2. /\ Destination(i) # RA
      /\ i.op \in BranchOps \union LinkBranchOps => k + i.imm \in 0 .. Len(code)
      /\ i.op \in {"j", "jal"} => i.imm \in 0 .. Len(code)
      /\ i.op \in {"jr", "jalr"} => i.rs = RA
  BY <1>1 DEF Confined, Contained
<1>3. i \in Instruction
  BY FetchedAreInstructions DEF Typed
<1>4. /\ regs \in [Regs -> Word] /\ InCode(regs[RA])
      /\ RA \in Regs /\ RA # Zero /\ RA # V0
      /\ i.imm \in Int
  BY <1>3, StackTopIsWord DEF Typed, TypeOK, Confined, RA, Zero, V0, Instruction
<1> HIDE DEF k
<1>5. /\ Next4 = pc + 4 /\ InCode(Next4)
      /\ Link = pc + 8 /\ InCode(Link) /\ ToWord(Link) = Link
  BY <1>1, CodeIsLow DEF Next4, Link, InCode
<1>6. \A r, v : r # RA /\ Set(r, v) => InCode(regs'[RA])
  BY <1>4 DEF Set
<1>7. \A r : Set(r, Link) => InCode(regs'[RA])
  BY <1>4, <1>5 DEF Set
<1>8. Set(Zero, 0) => InCode(regs'[RA])
  BY <1>4, <1>6
<1>9. \A v : Set(V0, v) => InCode(regs'[RA])
  BY <1>4, <1>6
<1>10. Fault \/ Skip => InCode(pc') /\ InCode(regs'[RA])
  BY <1>5, <1>8 DEF Fault, Skip
<1>11. CASE RegAlu(i) \/ ImmAlu(i) \/ LoadMem(i)
  <2>1. CASE RegAlu(i)
    <3>1. Destination(i) = i.rd
      BY <2>1 DEF RegAlu, Destination, RegOps, ImmOps, LoadOps
    <3> QED
      BY <1>2, <1>5, <1>6, <2>1, <3>1 DEF RegAlu
  <2>2. CASE ImmAlu(i)
    BY <1>2, <1>5, <1>6, <2>2 DEF ImmAlu, Destination, RegOps, ImmOps
  <2>3. CASE LoadMem(i)
    BY <1>2, <1>5, <1>6, <2>3 DEF LoadMem, Destination, RegOps, LoadOps
  <2> QED
    BY <1>11, <2>1, <2>2, <2>3
<1>12. CASE Move(i)
  <2>1. CASE i.op \in {"movz", "movn", "mfhi", "mflo"}
    <3>1. i.rd # RA
      BY <1>2, <2>1 DEF Destination, RegOps, ImmOps, LoadOps
    <3> QED
      BY <1>5, <1>6, <1>8, <1>12, <3>1 DEF Move
  <2>2. CASE i.op \notin {"movz", "movn", "mfhi", "mflo"}
    BY <1>5, <1>8, <1>12, <2>2 DEF Move
  <2> QED
    BY <2>1, <2>2
<1>13. CASE Multiply(i) \/ Divide(i) \/ Break(i) \/ StoreMem(i) \/ SysUnknown(i)
  BY <1>5, <1>8, <1>13 DEF Multiply, Divide, Break, StoreMem, SysUnknown
<1>14. CASE SysExit(i) \/ SysStub(i) \/ SysSbrk(i)
  BY <1>5, <1>9, <1>14 DEF SysExit, SysStub, SysSbrk
<1>15. CASE DivideByZero(i) \/ Trap(i) \/ UnknownSpecial(i) \/ AccessViolation(i) \/ SysOutput(i)
  BY <1>10, <1>15 DEF DivideByZero, Trap, UnknownSpecial, AccessViolation, SysOutput
<1>16. CASE DivideKills(i) \/ UnknownOpcode(i)
  BY <1>4, <1>16 DEF DivideKills, UnknownOpcode, data, Confined
<1>17. CASE Branch(i)
  <2>1. CASE BranchTaken(i)
    <3>1. i.op \in BranchOps \union LinkBranchOps
      BY <2>1 DEF BranchTaken, BranchOps, LinkBranchOps
    <3>2. pc + 4 + 4 * i.imm = 4 * (k + i.imm) /\ k + i.imm \in 0 .. Len(code)
      BY <1>1, <1>2, <1>4, <3>1
    <3>3. InCode(BranchTarget(i))
      <4> DEFINE t == k + i.imm
      <4> HIDE DEF t
      <4>1. t \in Nat /\ 4 * t <= CodeMax
        <5>1. t \in 0 .. Len(code)
          BY <3>2 DEF t
        <5> QED
          BY <1>20, <5>1
      <4>2. InCode(4 * t) /\ ToWord(4 * t) = 4 * t
        BY <4>1, CodeIsLow DEF InCode
      <4> QED
        BY <3>2, <4>2 DEF BranchTarget, t
    <3> QED
      BY <1>7, <1>8, <1>17, <2>1, <3>3 DEF Branch
  <2>2. CASE ~BranchTaken(i)
    BY <1>5, <1>8, <1>17, <2>2 DEF Branch
  <2> QED
    BY <2>1, <2>2
<1>18. CASE Jump(i)
  <2>1. i.imm \in 0 .. Len(code)
    BY <1>2, <1>18 DEF Jump
  <2>2. \A n \in Int : 0 <= n /\ n < RegionSize => n % RegionSize = n
    BY CodeIsLow
  <2>3. (4 * i.imm) % RegionSize = 4 * i.imm /\ pc % RegionSize = pc
    <3>1. 4 * i.imm \in Int /\ 0 <= 4 * i.imm /\ 4 * i.imm <= CodeMax
      BY <1>20, <2>1
    <3>2. pc \in Int /\ 0 <= pc /\ pc <= CodeMax
      BY <1>21, CodeIsLow
    <3> QED
      BY <2>2, <3>1, <3>2, CodeIsLow
  <2>4. JumpTarget(i) = 4 * i.imm
    BY <1>1, <2>1, <2>3 DEF JumpTarget
  <2>5. InCode(JumpTarget(i))
    BY <1>1, <2>1, <2>4, CodeIsLow DEF InCode
  <2> QED
    BY <1>7, <1>8, <1>18, <2>5 DEF Jump
<1>19. CASE JumpRegister(i)
  <2>1. R(i.rs) = regs[RA]
    BY <1>2, <1>4, <1>19 DEF JumpRegister, R
  <2> QED
    BY <1>4, <1>5, <1>7, <1>8, <1>19, <2>1 DEF JumpRegister
<1> QED
  BY <1>11, <1>12, <1>13, <1>14, <1>15, <1>16, <1>17, <1>18, <1>19 DEF Execute

(* Confinement is inductive, over reloads, reruns and resets as well.      *)
LEMMA NextConfined ==
  ASSUME AllContained, Typed, Confined, [Next]_vars
  PROVE  Confined'
<1>1. /\ InCode(0) /\ Len(<< >>) = 0 /\ Contained(<< >>) /\ 4 * 0 <= CodeMax
      /\ SP # RA /\ RA # Zero /\ RA \in Regs
  BY CodeIsLow, StackTopIsWord DEF InCode, Contained, SP, RA, Zero
<1>2. CASE Step
  <2>1. PICK i \in Fetched : Execute(i)
    BY <1>2 DEF Step
  <2>2. InCode(pc') /\ InCode(regs'[RA])
    BY <1>2, <2>1, ExecuteConfined DEF Step
  <2>3. code' = code
    BY <2>1 DEF Execute, RegAlu, ImmAlu, Move, Multiply, DivideByZero, Fault, Divide,
                DivideKills, Trap, Skip, UnknownSpecial, UnknownOpcode, Break, Branch, Jump,
                JumpRegister, LoadMem, StoreMem, AccessViolation, SysExit, SysOutput,
                SysStub, SysSbrk, SysUnknown, host
  <2> QED
    BY <2>2, <2>3 DEF Confined
<1>3. CASE FallOff \/ WildFetch \/ UNCHANGED vars
  BY <1>3 DEF FallOff, WildFetch, vars, data, host, Confined
<1>4. CASE Load
  <2>1. PICK p \in Programs :
          IF Accepted(p) THEN code' = p /\ pc' = 0 ELSE UNCHANGED <<code, pc>>
    BY <1>4 DEF Load
  <2>2. regs' = regs
    BY <1>4 DEF Load, data
  <2> QED
    BY <1>1, <2>1, <2>2 DEF Confined, Accepted, AllContained
<1>5. CASE Run
  <2>1. regs'[RA] = regs[RA] /\ pc' = pc /\ code' = code
    BY <1>1, <1>5 DEF Run, Typed, TypeOK
  <2> QED
    BY <2>1 DEF Confined
<1>6. CASE VmInit
  <2>1. regs'[RA] = 0 /\ pc' = 0 /\ code' = << >>
    BY <1>1, <1>6 DEF VmInit
  <2> QED
    BY <1>1, <2>1 DEF Confined
<1> QED
  BY <1>2, <1>3, <1>4, <1>5, <1>6 DEF Next, LeaveCode

(* Contained binaries never make the loop fetch outside the binary or      *)
(* between two instructions.                                               *)
THEOREM FetchConfined == Spec => []FetchStaysInBinary
<1>1. AllContained /\ Init => Confined
  <2> SUFFICES ASSUME Init PROVE Confined
    OBVIOUS
  <2>1. pc = 0 /\ regs[RA] = 0 /\ code = << >>
    BY StackTopIsWord DEF Init, SP, RA
  <2> QED
    BY <2>1, CodeIsLow DEF Confined, InCode, Contained
<1> DEFINE IInv == Typed /\ (AllContained => Confined)
<1>2. Init => IInv
  BY <1>1, InitTyped
<1>3. IInv /\ [Next]_vars => IInv'
  <2>1. AllContained' <=> AllContained
    BY DEF AllContained, Contained
  <2> QED
    BY <2>1, NextKeepsTyped, NextConfined
<1>4. IInv => FetchStaysInBinary
  BY ConfinedFetch DEF FetchStaysInBinary
<1> QED
  BY <1>2, <1>3, <1>4, PTL DEF Spec

-----------------------------------------------------------------------------
(* Words as four bytes.                                                    *)

(* Quotient and remainder are determined by what they add up to.           *)
LEMMA DivMod ==
  ASSUME NEW b \in Nat \ {0}, NEW q \in Int, NEW r \in 0 .. b - 1
  PROVE  (b * q + r) \div b = q /\ (b * q + r) % b = r
<1> DEFINE n == b * q + r
           p == n \div b
           s == n % b
<1>1. n \in Int
  OBVIOUS
<1>2. p \in Int /\ s \in 0 .. b - 1 /\ n = b * p + s
  <2> HIDE DEF n
  <2> QED
    BY <1>1
<1>3. b * (p - q) = r - s
  <2> HIDE DEF p, s
  <2> QED
    BY <1>2 DEF n
<1>4. p - q = 0
  <2> DEFINE d == p - q
  <2>1. d \in Int /\ b * d < b /\ b * d > -b
    BY <1>2, <1>3
  <2>2. \A x \in Int : b * x < b /\ b * x > -b => x = 0
    OBVIOUS
  <2> HIDE DEF d
  <2> QED
    BY <2>1, <2>2 DEF d
<1> HIDE DEF n, p, s
<1>5. p = q /\ s = r
  BY <1>2, <1>3, <1>4
<1> QED
  BY <1>5 DEF n, p, s

(* A number written with bytes x0 to x3, the lowest first.                 *)
OfBytes(x0, x1, x2, x3) == x0 + ByteBase * (x1 + ByteBase * (x2 + ByteBase * x3))

(* What a byte is.                                                         *)
LEMMA BytesAre ==
  /\ ByteBase \in Nat \ {0, 1} /\ ByteBase >= 2
  /\ \A x : x \in Byte <=> x \in Nat /\ x < ByteBase
BY WordSizes DEF Byte

(* Two bytes make a half.                                                  *)
LEMMA TwoBytes ==
  ASSUME NEW x0 \in Byte, NEW x1 \in Byte
  PROVE  x0 + ByteBase * x1 \in 0 .. HalfBase - 1
<1>1. ByteBase \in Nat /\ x0 \in Nat /\ x1 \in Nat /\ x0 <= ByteBase - 1 /\ x1 <= ByteBase - 1
  BY BytesAre
<1>2. ByteBase * x1 <= ByteBase * (ByteBase - 1)
  BY <1>1
<1>3. ByteBase * (ByteBase - 1) = ByteBase * ByteBase - ByteBase
  BY <1>1
<1> QED
  BY <1>1, <1>2, <1>3 DEF HalfBase

(* Two halves make a word.                                                 *)
LEMMA TwoHalves ==
  ASSUME NEW y0 \in 0 .. HalfBase - 1, NEW y1 \in 0 .. HalfBase - 1
  PROVE  y0 + HalfBase * y1 \in 0 .. W - 1
<1>1. HalfBase \in Nat
  BY WordSizes
<1>2. HalfBase * y1 <= HalfBase * (HalfBase - 1)
  BY <1>1
<1>3. HalfBase * (HalfBase - 1) = HalfBase * HalfBase - HalfBase
  BY <1>1
<1> QED
  BY <1>1, <1>2, <1>3 DEF W

(* Four bytes are two halves, and a word.                                  *)
LEMMA AsHalves ==
  ASSUME NEW x0 \in Byte, NEW x1 \in Byte, NEW x2 \in Byte, NEW x3 \in Byte
  PROVE  /\ OfBytes(x0, x1, x2, x3) = (x0 + ByteBase * x1) + HalfBase * (x2 + ByteBase * x3)
         /\ OfBytes(x0, x1, x2, x3) \in Word
<1>1. ByteBase \in Int /\ x0 \in Int /\ x1 \in Int /\ x2 \in Int /\ x3 \in Int
  BY BytesAre
<1>2. \A b, p0, p1, p2 \in Int : p0 + b * (p1 + b * p2) = (p0 + b * p1) + (b * b) * p2
  OBVIOUS
<1>3. x2 + ByteBase * x3 \in Int
  BY <1>1
<1>4. OfBytes(x0, x1, x2, x3) = (x0 + ByteBase * x1) + HalfBase * (x2 + ByteBase * x3)
  BY <1>1, <1>2, <1>3 DEF OfBytes, HalfBase
<1> QED
  BY <1>4, TwoBytes, TwoHalves DEF Word

(* Its lanes are these bytes.                                              *)
LEMMA LanesOfBytes ==
  ASSUME NEW x0 \in Byte, NEW x1 \in Byte, NEW x2 \in Byte, NEW x3 \in Byte,
         NEW w, w = OfBytes(x0, x1, x2, x3)
  PROVE  /\ GetLanes(w, 0, 1) = x0 /\ GetLanes(w, 1, 1) = x1
         /\ GetLanes(w, 2, 1) = x2 /\ GetLanes(w, 3, 1) = x3
         /\ GetLanes(w, 0, 2) = x0 + ByteBase * x1
         /\ GetLanes(w, 2, 2) = x2 + ByteBase * x3
         /\ GetLanes(w, 0, 4) = w
         /\ w % ByteBase = x0 /\ w % HalfBase = x0 + ByteBase * x1
<1> DEFINE B == ByteBase
           H == HalfBase
           w1 == x1 + B * (x2 + B * x3)
           w2 == x2 + B * x3
           y0 == x0 + B * x1
<1>1. /\ B \in Nat \ {0} /\ H \in Nat \ {0} /\ H * B \in Nat \ {0} /\ W \in Nat \ {0}
      /\ x0 \in 0 .. B - 1 /\ x1 \in 0 .. B - 1 /\ x2 \in 0 .. B - 1 /\ x3 \in 0 .. B - 1
      /\ x0 \in Int /\ x1 \in Int /\ x2 \in Int /\ x3 \in Int
  <2>1. HalfBase * ByteBase \in Nat \ {0}
    <3>1. LaneBase(3) \in Nat \ {0}
      BY WordSizes
    <3> QED
      BY <3>1 DEF LaneBase
  <2> QED
    BY <2>1, BytesAre, WordSizes DEF Byte
<1>2. w1 \in Int /\ w2 \in Int /\ y0 \in 0 .. H - 1 /\ w2 \in 0 .. H - 1 /\ w \in 0 .. W - 1
  <2>1. y0 \in 0 .. H - 1 /\ w2 \in 0 .. H - 1 /\ w \in Word
    BY TwoBytes, AsHalves
  <2> QED
    BY <1>1, <2>1 DEF Word
<1>3. w = B * w1 + x0 /\ w1 = B * w2 + x1 /\ w2 = B * x3 + x2
  <2> HIDE DEF B
  <2> QED
    BY <1>1 DEF OfBytes, B
<1>4. w = H * w2 + y0
  <2>1. w = y0 + H * w2
    BY AsHalves
  <2> HIDE DEF w2, y0, H
  <2> QED
    BY <1>1, <1>2, <2>1
<1>5. w = (H * B) * x3 + (H * x2 + y0) /\ H * x2 + y0 \in 0 .. H * B - 1
  <2>1. \A h, b, p, q, r \in Int : h * (b * p + q) + r = (h * b) * p + (h * q + r)
    OBVIOUS
  <2>2. w = (H * B) * x3 + (H * x2 + y0)
    <3>1. w = H * (B * x3 + x2) + y0
      BY <1>3, <1>4
    <3>2. B \in Int /\ H \in Int /\ y0 \in Int
      BY <1>1, <1>2
    <3> HIDE DEF B, H, w1, w2, y0
    <3> QED
      BY <1>1, <2>1, <3>1, <3>2
  <2>3. H * x2 <= H * (B - 1)
    <3>1. \A h, p, q \in Nat : p <= q => h * p <= h * q
      OBVIOUS
    <3> HIDE DEF B, H
    <3>2. H \in Nat /\ x2 \in Nat /\ B - 1 \in Nat /\ x2 <= B - 1
      BY <1>1
    <3> QED
      BY <3>1, <3>2
  <2>4. H * (B - 1) = H * B - H
    <3> HIDE DEF B, H
    <3> QED
      BY <1>1
  <2>5. H * x2 \in Nat
    <3> HIDE DEF B, H
    <3> QED
      BY <1>1
  <2> DEFINE hb == H * B
             hx == H * x2
             hy == H * (B - 1)
  <2>6. hb \in Nat
    BY <1>1
  <2> HIDE DEF hb, hx, hy
  <2>7. hx + y0 \in 0 .. hb - 1
    <3>1. hx \in Nat /\ hx <= hy /\ hy = hb - H
      BY <2>3, <2>4, <2>5 DEF hx, hy, hb
    <3> HIDE DEF H, y0
    <3> QED
      BY <1>1, <1>2, <2>6, <3>1
  <2> QED
    BY <2>2, <2>7 DEF hb, hx
<1> HIDE DEF B, H, w1, w2, y0
<1>6. w \div B = w1 /\ w % B = x0
  <2>1. (B * w1 + x0) \div B = w1 /\ (B * w1 + x0) % B = x0
    BY <1>1, <1>2, DivMod, Zenon
  <2> QED
    BY <2>1, <1>3
<1>7. w1 % B = x1
  <2>1. (B * w2 + x1) \div B = w2 /\ (B * w2 + x1) % B = x1
    BY <1>1, <1>2, DivMod, Zenon
  <2> QED
    BY <2>1, <1>3
<1>8. w \div H = w2 /\ w % H = y0
  <2>1. (H * w2 + y0) \div H = w2 /\ (H * w2 + y0) % H = y0
    BY <1>1, <1>2, DivMod, Zenon
  <2> QED
    BY <2>1, <1>4
<1>9. w2 % B = x2
  <2>1. (B * x3 + x2) \div B = x3 /\ (B * x3 + x2) % B = x2
    BY <1>1, <1>2, DivMod, Zenon
  <2> QED
    BY <2>1, <1>3
<1>10. w \div (H * B) = x3
  <2> DEFINE hb == H * B
             rest == H * x2 + y0
  <2>1. hb \in Nat \ {0} /\ x3 \in Int /\ rest \in 0 .. hb - 1 /\ w = hb * x3 + rest
    BY <1>1, <1>5
  <2> HIDE DEF hb, rest
  <2>2. (hb * x3 + rest) \div hb = x3
    BY <2>1, DivMod, Zenon
  <2> QED
    BY <2>1, <2>2 DEF hb
<1>11. x3 % B = x3 /\ x0 % B = x0 /\ w2 % H = w2 /\ w % W = w
  <2>1. \A m \in Nat \ {0} : \A x \in 0 .. m - 1 : x % m = x
    OBVIOUS
  <2> QED
    BY <1>1, <1>2, <2>1
<1>12. w \div 1 = w
  BY <1>2
<1>13. /\ LaneBase(0) = 1 /\ LaneBase(1) = B /\ LaneBase(2) = H /\ LaneBase(3) = H * B
       /\ LaneBase(4) = W
  BY DEF LaneBase, B, H
<1>14. /\ GetLanes(w, 0, 1) = x0 /\ GetLanes(w, 1, 1) = x1
       /\ GetLanes(w, 2, 1) = x2 /\ GetLanes(w, 3, 1) = x3
  BY <1>6, <1>7, <1>8, <1>9, <1>10, <1>11, <1>12, <1>13 DEF GetLanes
<1>15. GetLanes(w, 0, 2) = y0 /\ GetLanes(w, 2, 2) = w2 /\ GetLanes(w, 0, 4) = w
  BY <1>8, <1>11, <1>12, <1>13 DEF GetLanes
<1> QED
  BY <1>6, <1>8, <1>14, <1>15 DEF B, H, w2, y0

(* Every word is written so.                                               *)
LEMMA WordOfBytes ==
  ASSUME NEW w \in Word
  PROVE  \E x0, x1, x2, x3 \in Byte : w = OfBytes(x0, x1, x2, x3)
<1> DEFINE B  == ByteBase
           w1 == w \div B
           w2 == w1 \div B
           x3 == w2 \div B
           x0 == w % B
           x1 == w1 % B
           x2 == w2 % B
<1>1. B \in Nat \ {0, 1} /\ w \in Nat
  BY BytesAre, WordSizes DEF Word
<1>2. \A n \in Nat : /\ n \div B \in Nat /\ n % B \in 0 .. B - 1
                     /\ n = (n % B) + B * (n \div B)
  <2> HIDE DEF B
  <2> QED
    BY <1>1
<1>3. w1 \in Nat /\ w2 \in Nat /\ x3 \in Nat
  <2> HIDE DEF B
  <2> QED
    BY <1>1, <1>2
<1>4. x0 \in 0 .. B - 1 /\ x1 \in 0 .. B - 1 /\ x2 \in 0 .. B - 1
  BY <1>1, <1>2, <1>3
<1>5. w = x0 + B * w1 /\ w1 = x1 + B * w2 /\ w2 = x2 + B * x3
  BY <1>1, <1>2, <1>3
<1> HIDE DEF w1, w2, x0, x1, x2, x3
<1>6. w = OfBytes(x0, x1, x2, x3)
  BY <1>5 DEF OfBytes
<1>7. x3 < B
  <2>1. W = B * (B * (B * B))
    <3>1. \A b \in Int : (b * b) * (b * b) = b * (b * (b * b))
      OBVIOUS
    <3> QED
      BY <1>1, <3>1 DEF W, HalfBase
  <2>2. ASSUME NEW m \in Nat, NEW n \in Nat, B * m < B * n PROVE m < n
    <3> HIDE DEF B
    <3> QED
      BY <1>1, <2>2
  <2> DEFINE B2 == B * B
             B3 == B * B2
  <2>3. B2 \in Nat /\ B3 \in Nat
    <3> HIDE DEF B
    <3> QED
      BY <1>1
  <2>4. w < B * B3
    BY <2>1 DEF Word
  <2> HIDE DEF B, B2, B3
  <2>5. B * w1 <= w /\ B * w2 <= w1 /\ B * x3 <= w2
    BY <1>1, <1>3, <1>4, <1>5
  <2>6. B * w1 \in Nat /\ B * w2 \in Nat /\ B * x3 \in Nat /\ B * B3 \in Nat
    BY <1>1, <1>3, <2>3
  <2>7. w1 < B3
    <3>1. B * w1 < B * B3
      BY <1>1, <2>4, <2>5, <2>6
    <3> QED
      BY <1>3, <2>2, <2>3, <3>1
  <2>8. w2 < B2
    <3>1. B * w2 < B * B2
      BY <1>3, <2>3, <2>5, <2>6, <2>7 DEF B3
    <3> QED
      BY <1>3, <2>2, <2>3, <3>1
  <2>9. B * x3 < B * B
    BY <1>3, <2>3, <2>5, <2>6, <2>8 DEF B2
  <2> QED
    BY <1>1, <1>3, <2>2, <2>9
<1>8. x0 \in Byte /\ x1 \in Byte /\ x2 \in Byte /\ x3 \in Byte
  BY <1>1, <1>3, <1>4, <1>7 DEF Byte, B
<1> QED
  BY <1>6, <1>8

-----------------------------------------------------------------------------
(* Stores into a word.                                                     *)

(* The same number as a sum of lanes.                                      *)
LEMMA SumOfBytes ==
  ASSUME NEW x0 \in Byte, NEW x1 \in Byte, NEW x2 \in Byte, NEW x3 \in Byte
  PROVE  OfBytes(x0, x1, x2, x3) =
           x0 + x1 * LaneBase(1) + x2 * LaneBase(2) + x3 * LaneBase(3)
<1>1. ByteBase \in Int /\ x0 \in Int /\ x1 \in Int /\ x2 \in Int /\ x3 \in Int
  BY BytesAre
<1>2. \A b, p0, p1, p2, p3 \in Int :
        p0 + b * (p1 + b * (p2 + b * p3)) = p0 + p1 * b + p2 * (b * b) + p3 * ((b * b) * b)
  OBVIOUS
<1> QED
  BY <1>1, <1>2 DEF OfBytes, LaneBase, HalfBase

(* The accesses there are: bytes, halves at even lanes, words.             *)
Access(k, n) == (n = 1 /\ k \in 0 .. 3) \/ (n = 2 /\ k \in {0, 2}) \/ (n = 4 /\ k = 0)

(* d is w with the n bytes from lane k on replaced by the low bytes of v.  *)
BytesPut(d, w, k, n, v) ==
  /\ d \in Word
  /\ \A j \in 0 .. 3 :
       GetLanes(d, j, 1) =
         IF j \in k .. k + n - 1 THEN GetLanes(v, j - k, 1) ELSE GetLanes(w, j, 1)

(* PutLanes replaces the n bytes from lane k on by the low bytes of v, and *)
(* no other: no borrow or carry reaches a neighbour.                       *)
LEMMA PutLanesBytes ==
  ASSUME NEW w \in Word, NEW v \in Word, NEW k, NEW n, Access(k, n)
  PROVE  BytesPut(PutLanes(w, k, n, v), w, k, n, v)
<1>1. PICK x0, x1, x2, x3 \in Byte : w = OfBytes(x0, x1, x2, x3)
  BY WordOfBytes
<1>2. PICK y0, y1, y2, y3 \in Byte : v = OfBytes(y0, y1, y2, y3)
  BY WordOfBytes
<1> DEFINE z0 == IF k = 0 THEN y0 ELSE x0
           z1 == IF k = 1 THEN y0 ELSE IF k = 0 /\ n # 1 THEN y1 ELSE x1
           z2 == IF k = 2 THEN y0 ELSE IF n = 4 THEN y2 ELSE x2
           z3 == IF k = 3 THEN y0 ELSE IF k = 2 /\ n = 2 THEN y1 ELSE IF n = 4 THEN y3 ELSE x3
           d  == PutLanes(w, k, n, v)
           L(j) == LaneBase(j)
<1>3. z0 \in Byte /\ z1 \in Byte /\ z2 \in Byte /\ z3 \in Byte
  BY <1>1, <1>2
<1>4. /\ w = x0 + x1 * L(1) + x2 * L(2) + x3 * L(3)
      /\ v = y0 + y1 * L(1) + y2 * L(2) + y3 * L(3)
      /\ OfBytes(z0, z1, z2, z3) = z0 + z1 * L(1) + z2 * L(2) + z3 * L(3)
  <2> HIDE DEF z0, z1, z2, z3
  <2> QED
    BY <1>1, <1>2, <1>3, SumOfBytes
<1>5. /\ x0 \in Int /\ x1 \in Int /\ x2 \in Int /\ x3 \in Int
      /\ y0 \in Int /\ y1 \in Int /\ y2 \in Int /\ y3 \in Int
      /\ L(1) \in Int /\ L(2) \in Int /\ L(3) \in Int
      /\ w \in Int /\ v \in Int
  BY <1>1, <1>2, BytesAre, WordSizes, WordViews
<1>6. /\ L(0) = 1 /\ ByteBase = L(1) /\ HalfBase = L(2) /\ L(1) * L(2) = L(3) /\ L(4) = W
      /\ v % L(1) = y0 /\ v % L(2) = y0 + y1 * L(1) /\ v % L(4) = v
  <2>1. v % ByteBase = y0 /\ v % HalfBase = y0 + ByteBase * y1
    BY <1>2, LanesOfBytes
  <2>2. v % W = v
    <3>1. \A m \in Nat \ {0} : \A x \in 0 .. m - 1 : x % m = x
      OBVIOUS
    <3> QED
      BY <3>1, WordSizes DEF Word
  <2> QED
    BY <1>5, <2>1, <2>2, WordSizes DEF LaneBase
<1>7. /\ GetLanes(w, 0, 1) = x0 /\ GetLanes(w, 1, 1) = x1
      /\ GetLanes(w, 2, 1) = x2 /\ GetLanes(w, 3, 1) = x3
      /\ GetLanes(w, 0, 2) = x0 + x1 * L(1) /\ GetLanes(w, 2, 2) = x2 + x3 * L(1)
      /\ GetLanes(w, 0, 4) = w
  <2>1. /\ GetLanes(w, 0, 1) = x0 /\ GetLanes(w, 1, 1) = x1
        /\ GetLanes(w, 2, 1) = x2 /\ GetLanes(w, 3, 1) = x3
        /\ GetLanes(w, 0, 2) = x0 + ByteBase * x1 /\ GetLanes(w, 2, 2) = x2 + ByteBase * x3
        /\ GetLanes(w, 0, 4) = w
    BY <1>1, LanesOfBytes
  <2> QED
    BY <1>5, <1>6, <2>1
<1>8. d = w - GetLanes(w, k, n) * L(k) + (v % L(n)) * L(k)
  BY DEF PutLanes
<1> HIDE DEF L, d
<1>9. d = OfBytes(z0, z1, z2, z3)
  <2>1. CASE n = 1
    <3>1. d = w - GetLanes(w, k, 1) * L(k) + y0 * L(k)
      BY <1>6, <1>8, <2>1
    <3>2. CASE k = 0
      BY <1>4, <1>5, <1>6, <1>7, <2>1, <3>1, <3>2
    <3>3. CASE k = 1
      BY <1>4, <1>5, <1>7, <2>1, <3>1, <3>3
    <3>4. CASE k = 2
      BY <1>4, <1>5, <1>7, <2>1, <3>1, <3>4
    <3>5. CASE k = 3
      BY <1>4, <1>5, <1>7, <2>1, <3>1, <3>5
    <3> QED
      BY <2>1, <3>2, <3>3, <3>4, <3>5 DEF Access
  <2>2. CASE n = 2
    <3>1. \A p, q, b, l \in Int : (p + q * b) * l = p * l + q * (b * l)
      OBVIOUS
    <3>2. CASE k = 0
      <4>1. d = w - (x0 + x1 * L(1)) + (y0 + y1 * L(1))
        BY <1>5, <1>6, <1>7, <1>8, <2>2, <3>2
      <4> QED
        BY <1>4, <1>5, <2>2, <3>2, <4>1
    <3>3. CASE k = 2
      <4>1. d = w - (x2 + x3 * L(1)) * L(2) + (y0 + y1 * L(1)) * L(2)
        BY <1>6, <1>7, <1>8, <2>2, <3>3
      <4>2. d = w - (x2 * L(2) + x3 * L(3)) + (y0 * L(2) + y1 * L(3))
        BY <1>5, <1>6, <3>1, <4>1
      <4> QED
        BY <1>4, <1>5, <2>2, <3>3, <4>2
    <3> QED
      BY <2>2, <3>2, <3>3 DEF Access
  <2>3. CASE n = 4
    <3>1. k = 0 /\ d = w - w + v
      BY <1>5, <1>6, <1>7, <1>8, <2>3 DEF Access
    <3> QED
      BY <1>4, <1>5, <2>3, <3>1
  <2> QED
    BY <2>1, <2>2, <2>3 DEF Access
<1>10. /\ d \in Word
       /\ GetLanes(d, 0, 1) = z0 /\ GetLanes(d, 1, 1) = z1
       /\ GetLanes(d, 2, 1) = z2 /\ GetLanes(d, 3, 1) = z3
  <2> HIDE DEF z0, z1, z2, z3
  <2> QED
    BY <1>3, <1>9, AsHalves, LanesOfBytes
<1>11. /\ GetLanes(v, 0, 1) = y0 /\ GetLanes(v, 1, 1) = y1
       /\ GetLanes(v, 2, 1) = y2 /\ GetLanes(v, 3, 1) = y3
  BY <1>2, LanesOfBytes
<1>12. ASSUME NEW j \in 0 .. 3
       PROVE  GetLanes(d, j, 1) =
                IF j \in k .. k + n - 1 THEN GetLanes(v, j - k, 1) ELSE GetLanes(w, j, 1)
  <2>1. CASE n = 1
    <3>1. k \in 0 .. 3 /\ (j \in k .. k + n - 1 <=> j = k)
      BY <2>1 DEF Access
    <3>2. j = k => j - k = 0
      BY <3>1
    <3> QED
      BY <1>7, <1>10, <1>11, <2>1, <3>1, <3>2
  <2>2. CASE n = 2
    <3>1. k \in {0, 2} /\ (j \in k .. k + n - 1 <=> j = k \/ j = k + 1)
      BY <2>2 DEF Access
    <3> QED
      BY <1>7, <1>10, <1>11, <2>2, <3>1
  <2>3. CASE n = 4
    <3>1. k = 0 /\ j \in k .. k + n - 1 /\ j - k = j
      BY <2>3 DEF Access
    <3> QED
      BY <1>7, <1>10, <1>11, <2>3, <3>1
  <2> QED
    BY <2>1, <2>2, <2>3 DEF Access
<1> QED
  BY <1>10, <1>12 DEF d, BytesPut

-----------------------------------------------------------------------------
(* Reads of the byte memory.                                               *)

(* A sum of up to four terms, as the recursive function computes it.       *)
Totals(f, t, n) == f = [k \in 0 .. n |-> IF k = 0 THEN 0 ELSE f[k - 1] + t[k]]

(* Such a function exists: CHOOSE finds it.                                *)
LEMMA FourTerms ==
  ASSUME NEW n \in {1, 2, 4}, NEW t
  PROVE  \E f : Totals(f, t, n)
<1> DEFINE s1 == 0 + t[1]
           s2 == s1 + t[2]
           s3 == s2 + t[3]
           s4 == s3 + t[4]
           f  == [k \in 0 .. n |-> IF k = 0 THEN 0 ELSE IF k = 1 THEN s1 ELSE IF k = 2 THEN s2
                                   ELSE IF k = 3 THEN s3 ELSE s4]
<1>1. ASSUME NEW k \in 0 .. n
      PROVE  f[k] = IF k = 0 THEN 0 ELSE f[k - 1] + t[k]
  <2>1. k \in 0 .. 4 /\ (k # 0 => k - 1 \in 0 .. n)
    OBVIOUS
  <2>2. CASE k = 0
    BY <2>2
  <2>3. CASE k = 1
    BY <2>1, <2>3
  <2>4. CASE k = 2
    BY <2>1, <2>4
  <2>5. CASE k = 3
    BY <2>1, <2>5
  <2>6. CASE k = 4
    BY <2>1, <2>6
  <2> QED
    BY <2>1, <2>2, <2>3, <2>4, <2>5, <2>6
<1>2. Totals(f, t, n)
  BY <1>1 DEF Totals
<1> HIDE DEF f
<1> QED
  BY <1>2

(* Division by four.                                                       *)
LEMMA ByFour ==
  \A m \in Nat : m = 4 * (m \div 4) + (m % 4) /\ m % 4 \in 0 .. 3 /\ m \div 4 \in Nat
<1> SUFFICES ASSUME NEW m \in Nat
             PROVE  m = 4 * (m \div 4) + (m % 4) /\ m % 4 \in 0 .. 3 /\ m \div 4 \in Nat
  OBVIOUS
<1>1. m \div 4 \in Int /\ m % 4 \in 0 .. 3
  OBVIOUS
<1>2. m = 4 * (m \div 4) + (m % 4)
  OBVIOUS
<1> QED
  BY <1>1, <1>2

(* The bytes of one aligned access lie in one word.                        *)
LEMMA AlignedBytes ==
  ASSUME NEW a \in Nat, NEW n \in {1, 2, 4}, a % n = 0, NEW k \in 0 .. n - 1
  PROVE  /\ (a + k) \div 4 = a \div 4 /\ (a + k) % 4 = (a % 4) + k
         /\ Access(a % 4, n) /\ (a % 4) + k \in 0 .. 3
<1>1. a = 4 * (a \div 4) + (a % 4) /\ a % 4 \in 0 .. 3 /\ a \div 4 \in Nat
  BY ByFour, Zenon
<1>2. Access(a % 4, n)
  <2>1. CASE n = 1
    BY <1>1, <2>1 DEF Access
  <2>2. CASE n = 2
    BY <1>1, <2>2 DEF Access
  <2>3. CASE n = 4
    BY <1>1, <2>3 DEF Access
  <2> QED
    BY <2>1, <2>2, <2>3
<1>3. (a % 4) + k \in 0 .. 3
  BY <1>1, <1>2 DEF Access
<1>4. a + k = 4 * (a \div 4) + ((a % 4) + k)
  BY <1>1
<1>5. (a + k) \div 4 = a \div 4 /\ (a + k) % 4 = (a % 4) + k
  BY <1>1, <1>3, <1>4
<1> QED
  BY <1>2, <1>3, <1>5

(* What the byte memory reads is what the lanes of a word hold.            *)
LEMMA ValueIsLanes ==
  ASSUME stack \in [0 .. StackWords - 1 -> Word], NEW a \in 0 .. StackBytes - 1,
         NEW n \in {1, 2, 4}, a % n = 0
  PROVE  Flat!Value(a, n) = GetLanes(stack[a \div 4], a % 4, n)
<1> DEFINE w == stack[a \div 4]
           j == a % 4
           t == [k \in 1 .. 4 |-> Bytes[a + k - 1] * ByteBase ^ (k - 1)]
           S == CHOOSE f : f = [k \in 0 .. n |->
                  IF k = 0 THEN 0 ELSE f[k - 1] + Bytes[a + k - 1] * ByteBase ^ (k - 1)]
<1>1. a \in Nat /\ StackWords \in Nat /\ StackBytes = 4 * StackWords
  BY MipsVMAssumption DEF StackBytes
<1>2. w \in Word /\ Access(j, n) /\ j \in 0 .. 3
  <2>1. a \div 4 \in 0 .. StackWords - 1
    BY <1>1
  <2>2. 0 \in 0 .. n - 1
    OBVIOUS
  <2> QED
    BY <1>1, <2>1, <2>2, AlignedBytes
<1>3. ASSUME NEW k \in 1 .. n
      PROVE  t[k] = GetLanes(w, j + k - 1, 1) * LaneBase(k - 1)
  <2>1. k \in 1 .. 4 /\ k - 1 \in 0 .. n - 1 /\ k - 1 \in 0 .. 4 /\ a + k - 1 = a + (k - 1)
        /\ j + k - 1 = j + (k - 1)
    BY <1>1, <1>2
  <2>2. (a + (k - 1)) \div 4 = a \div 4 /\ (a + (k - 1)) % 4 = j + (k - 1)
    BY <1>1, <2>1, AlignedBytes
  <2>3. a + (k - 1) \in 0 .. StackBytes - 1
    <3>1. a \div 4 < StackWords
      BY <1>1
    <3>2. (a + (k - 1)) \div 4 < StackWords
      BY <2>2, <3>1
    <3> QED
      BY <1>1, <2>1, <3>2
  <2>4. Bytes[a + (k - 1)] = GetLanes(w, j + (k - 1), 1)
    BY <2>2, <2>3 DEF Bytes
  <2>5. ByteBase ^ (k - 1) = LaneBase(k - 1)
    BY <2>1, PowersAssumption
  <2>6. t[k] = Bytes[a + k - 1] * ByteBase ^ (k - 1)
    BY <2>1
  <2> QED
    BY <2>1, <2>4, <2>5, <2>6
<1>4. Flat!Value(a, n) = S[n]
  BY DEF Flat!Value
<1>5. S = [k \in 0 .. n |-> IF k = 0 THEN 0 ELSE S[k - 1] + t[k]]
  <2>1. PICK f : Totals(f, t, n)
    BY FourTerms
  <2>2. \A k \in 0 .. n : k # 0 => t[k] = Bytes[a + k - 1] * ByteBase ^ (k - 1)
    OBVIOUS
  <2>3. ASSUME NEW g
        PROVE  [k \in 0 .. n |-> IF k = 0 THEN 0 ELSE g[k - 1] + t[k]] =
               [k \in 0 .. n |->
                  IF k = 0 THEN 0 ELSE g[k - 1] + Bytes[a + k - 1] * ByteBase ^ (k - 1)]
    <3> HIDE DEF t
    <3> QED
      BY <2>2
  <2>4. \E g : g = [k \in 0 .. n |->
                  IF k = 0 THEN 0 ELSE g[k - 1] + Bytes[a + k - 1] * ByteBase ^ (k - 1)]
    <3>1. f = [k \in 0 .. n |->
                  IF k = 0 THEN 0 ELSE f[k - 1] + Bytes[a + k - 1] * ByteBase ^ (k - 1)]
      <4> HIDE DEF t
      <4> QED
        BY <2>1, <2>3 DEF Totals
    <3> QED
      BY <3>1
  <2>5. S = [k \in 0 .. n |->
                  IF k = 0 THEN 0 ELSE S[k - 1] + Bytes[a + k - 1] * ByteBase ^ (k - 1)]
    BY <2>4, Zenon
  <2> HIDE DEF t, S
  <2> QED
    BY <2>3, <2>5
<1> HIDE DEF S, t
<1>6. PICK x0, x1, x2, x3 \in Byte : w = OfBytes(x0, x1, x2, x3)
  BY <1>2, WordOfBytes
<1>7. /\ GetLanes(w, 0, 1) = x0 /\ GetLanes(w, 1, 1) = x1
      /\ GetLanes(w, 2, 1) = x2 /\ GetLanes(w, 3, 1) = x3
      /\ GetLanes(w, 0, 2) = x0 + ByteBase * x1 /\ GetLanes(w, 2, 2) = x2 + ByteBase * x3
      /\ GetLanes(w, 0, 4) = x0 + x1 * LaneBase(1) + x2 * LaneBase(2) + x3 * LaneBase(3)
  <2> HIDE DEF w
  <2> QED
    BY <1>2, <1>6, LanesOfBytes, SumOfBytes
<1>8. /\ LaneBase(0) = 1 /\ LaneBase(1) = ByteBase /\ ByteBase \in Int /\ LaneBase(2) \in Int
      /\ LaneBase(3) \in Int
      /\ x0 \in Int /\ x1 \in Int /\ x2 \in Int /\ x3 \in Int
  BY <1>6, BytesAre, WordSizes DEF LaneBase
<1> HIDE DEF w, j
<1>9. CASE n = 1
  <2>1. S[1] = S[0] + t[1] /\ S[0] = 0 /\ t[1] = GetLanes(w, j, 1) * 1
    <3>1. j + 1 - 1 = j
      BY <1>2
    <3> QED
      BY <1>3, <1>5, <1>8, <1>9, <3>1
  <2>2. GetLanes(w, j, 1) \in Int
    <3>1. j = 0 \/ j = 1 \/ j = 2 \/ j = 3
      BY <1>2
    <3> QED
      BY <1>7, <1>8, <3>1
  <2>3. S[n] = GetLanes(w, j, 1)
    BY <1>9, <2>1, <2>2
  <2> QED
    BY <1>4, <1>9, <2>3 DEF w, j
<1>10. CASE n = 2
  <2>1. /\ S[0] = 0 /\ S[1] = S[0] + t[1] /\ S[2] = S[1] + t[2]
        /\ t[1] = GetLanes(w, j, 1) * 1 /\ t[2] = GetLanes(w, j + 1, 1) * ByteBase
    <3>1. j + 1 - 1 = j /\ j + 2 - 1 = j + 1
      BY <1>2
    <3> QED
      BY <1>3, <1>5, <1>8, <1>10, <3>1
  <2>2. S[2] = GetLanes(w, j, 2)
    <3>1. CASE j = 0
      BY <1>7, <1>8, <2>1, <3>1
    <3>2. CASE j = 2
      BY <1>7, <1>8, <2>1, <3>2
    <3> QED
      BY <1>2, <1>10, <3>1, <3>2 DEF Access
  <2> QED
    BY <1>4, <1>10, <2>2 DEF w, j
<1>11. CASE n = 4
  <2>1. j = 0
    BY <1>2, <1>11 DEF Access
  <2>2. /\ S[0] = 0 /\ S[1] = S[0] + t[1] /\ S[2] = S[1] + t[2]
        /\ S[3] = S[2] + t[3] /\ S[4] = S[3] + t[4]
    BY <1>5, <1>11
  <2>3. /\ t[1] = x0 * 1 /\ t[2] = x1 * LaneBase(1) /\ t[3] = x2 * LaneBase(2)
        /\ t[4] = x3 * LaneBase(3)
    BY <1>3, <1>7, <1>8, <1>11, <2>1
  <2>4. S[4] = GetLanes(w, 0, 4)
    BY <1>7, <1>8, <2>2, <2>3
  <2> QED
    BY <1>4, <1>11, <2>1, <2>4 DEF w, j
<1> QED
  BY <1>9, <1>10, <1>11

-----------------------------------------------------------------------------
(* The stack memory is a flat little-endian byte memory.                   *)

(* Where an access goes: the word the address falls into, or the address.  *)
Reached(i) == IF Width(i) = 4 THEN Address(i) - (Address(i) % 4) ELSE Address(i)

(* An access that passes the bounds test is aligned and lies in one word.  *)
LEMMA AccessAligned ==
  ASSUME regs \in [Regs -> Word],
         NEW i \in Instruction, i.op \in LoadOps \union StoreOps, Accessible(i)
  PROVE  /\ Reached(i) \in 0 .. StackBytes - 1 /\ Reached(i) % Width(i) = 0
         /\ Reached(i) \div 4 = WordIndex(i) /\ Reached(i) % 4 = FirstLane(i)
         /\ Width(i) \in {1, 2, 4} /\ Access(FirstLane(i), Width(i))
         /\ WordIndex(i) \in 0 .. StackWords - 1
<1> DEFINE addr == Address(i)
<1>1. /\ addr \in Nat /\ Width(i) \in {1, 2, 4} /\ addr + Width(i) <= StackBytes
      /\ Width(i) = 2 => addr % 2 = 0
      /\ StackBytes = 4 * StackWords /\ StackWords \in Nat
      /\ WordIndex(i) = addr \div 4 /\ FirstLane(i) = IF Width(i) = 4 THEN 0 ELSE addr % 4
      /\ WordIndex(i) \in 0 .. StackWords - 1
  BY AccessInStack, MipsVMAssumption DEF Accessible, StackBytes, WordIndex, FirstLane
<1>2. addr = 4 * (addr \div 4) + (addr % 4) /\ addr % 4 \in 0 .. 3 /\ addr \div 4 \in Nat
  BY <1>1, ByFour, Zenon
<1>3. CASE Width(i) = 4
  <2>1. Reached(i) = 4 * (addr \div 4)
    BY <1>1, <1>2, <1>3 DEF Reached
  <2> HIDE DEF addr
  <2>2. (4 * (addr \div 4)) % 4 = 0 /\ (4 * (addr \div 4)) \div 4 = addr \div 4
    BY <1>2
  <2>3. 4 * (addr \div 4) \in 0 .. StackBytes - 1
    BY <1>1, <1>2, <1>3
  <2> QED
    BY <1>1, <1>3, <2>1, <2>2, <2>3 DEF Access
<1>4. CASE Width(i) = 2
  <2>1. Reached(i) = addr /\ FirstLane(i) = addr % 4
    BY <1>1, <1>4 DEF Reached
  <2> HIDE DEF addr
  <2>2. addr % 4 \in {0, 2}
    BY <1>1, <1>2, <1>4
  <2> QED
    BY <1>1, <1>4, <2>1, <2>2 DEF Access
<1>5. CASE Width(i) = 1
  <2>1. Reached(i) = addr /\ FirstLane(i) = addr % 4
    BY <1>1, <1>5 DEF Reached
  <2> HIDE DEF addr
  <2> QED
    BY <1>1, <1>2, <1>5, <2>1 DEF Access
<1> QED
  BY <1>1, <1>3, <1>4, <1>5

(* A byte of the stack memory lies in a lane of a word.                    *)
LEMMA ByteLane ==
  ASSUME NEW x \in 0 .. StackBytes - 1
  PROVE  /\ x \div 4 \in 0 .. StackWords - 1 /\ x % 4 \in 0 .. 3
         /\ x = 4 * (x \div 4) + (x % 4)
<1>1. StackBytes = 4 * StackWords /\ StackWords \in Nat /\ x \in Nat
  BY MipsVMAssumption DEF StackBytes
<1>2. x = 4 * (x \div 4) + (x % 4) /\ x % 4 \in 0 .. 3 /\ x \div 4 \in Nat
  BY <1>1, ByFour, Zenon
<1> QED
  BY <1>1, <1>2

(* A store is a store of the byte memory.                                  *)
LEMMA StoreIsFlat ==
  ASSUME Typed, NEW i \in Instruction, StoreMem(i)
  PROVE  Flat!Next
<1> DEFINE a == Reached(i)
           n == Width(i)
           v == R(i.rt)
           d == WordIndex(i)
           k == FirstLane(i)
           new == PutLanes(stack[d], k, n, v)
<1>1. /\ a \in 0 .. StackBytes - 1 /\ a % n = 0 /\ a \div 4 = d /\ a % 4 = k
      /\ n \in {1, 2, 4} /\ Access(k, n) /\ d \in 0 .. StackWords - 1
  BY AccessAligned DEF StoreMem, Typed, TypeOK
<1>2. /\ i.rt \in Regs /\ v = regs[i.rt] /\ v \in Word /\ stack \in [0 .. StackWords - 1 -> Word]
  <2>1. i.rt \in Regs /\ regs \in [Regs -> Word] /\ stack \in [0 .. StackWords - 1 -> Word]
    BY DEF Instruction, Typed, TypeOK
  <2> QED
    BY <2>1, ReadRegister DEF R, Typed, ZeroIsZero
<1>3. stack' = [stack EXCEPT ![d] = ToWord(new)]
  BY DEF StoreMem
<1> HIDE DEF a, n, v, d, k
<1>4. stack[d] \in Word
  BY <1>1, <1>2
<1>5. /\ new \in Word
      /\ \A j \in 0 .. 3 : GetLanes(new, j, 1) =
           IF j \in k .. k + n - 1 THEN GetLanes(v, j - k, 1) ELSE GetLanes(stack[d], j, 1)
  <2>1. v \in Word /\ Access(k, n)
    BY <1>1, <1>2
  <2>2. BytesPut(new, stack[d], k, n, v)
    BY <1>4, <2>1, PutLanesBytes, Zenon
  <2> QED
    BY <2>2 DEF BytesPut
<1> HIDE DEF new
<1>6. stack' = [stack EXCEPT ![d] = new]
  <2>1. \A x \in 0 .. W - 1 : x % W = x
    BY WordSizes
  <2>2. ToWord(new) = new
    BY <1>5, <2>1 DEF ToWord, Word
  <2> QED
    BY <1>3, <2>2
<1>7. Flat!Store(i.rt, a, n)
  <2>1. ASSUME NEW x \in 0 .. StackBytes - 1
        PROVE  Bytes'[x] = IF x \in a .. a + n - 1 THEN Flat!ByteOf(regs[i.rt], x - a) ELSE Bytes[x]
    <3> DEFINE e == x \div 4
               j == x % 4
    <3>1. e \in 0 .. StackWords - 1 /\ j \in 0 .. 3 /\ x = 4 * e + j
      BY ByteLane
    <3>2. Bytes[x] = GetLanes(stack[e], j, 1) /\ Bytes'[x] = GetLanes(stack'[e], j, 1)
      BY DEF Bytes
    <3>3. a = 4 * d + k /\ k \in 0 .. 3 /\ k + n - 1 <= 3
      <4>1. a = 4 * (a \div 4) + (a % 4)
        <5>1. a \in Nat
          BY <1>1, MipsVMAssumption DEF StackBytes
        <5> QED
          BY <5>1, ByFour, Zenon
      <4>2. k \in 0 .. 3 /\ k + n - 1 <= 3
        BY <1>1 DEF Access
      <4> QED
        BY <1>1, <4>1, <4>2
    <3> HIDE DEF e, j
    <3>4. x \in a .. a + n - 1 <=> e = d /\ j \in k .. k + n - 1
      BY <1>1, <3>1, <3>3
    <3>5. e = d => x - a = j - k
      BY <1>1, <3>1, <3>3
    <3>6. CASE e = d /\ j \in k .. k + n - 1
      <4>1. Bytes'[x] = GetLanes(v, j - k, 1)
        BY <1>1, <1>2, <1>5, <1>6, <3>1, <3>2, <3>6
      <4>2. j - k \in 0 .. 4 /\ x - a = j - k
        BY <3>1, <3>3, <3>5, <3>6
      <4>3. Flat!ByteOf(v, j - k) = GetLanes(v, j - k, 1)
        <5>1. ByteBase ^ (j - k) = LaneBase(j - k)
          BY <4>2, PowersAssumption
        <5>2. LaneBase(1) = ByteBase
          BY DEF LaneBase
        <5> QED
          BY <5>1, <5>2 DEF Flat!ByteOf, GetLanes
      <4> QED
        BY <1>2, <3>4, <3>6, <4>1, <4>2, <4>3
    <3>7. CASE ~(e = d /\ j \in k .. k + n - 1)
      <4>1. Bytes'[x] = Bytes[x]
        <5>1. CASE e = d
          BY <1>1, <1>2, <1>5, <1>6, <3>1, <3>2, <3>7, <5>1
        <5>2. CASE e # d
          BY <1>1, <1>2, <1>6, <3>1, <3>2, <5>2
        <5> QED
          BY <5>1, <5>2
      <4> QED
        BY <3>4, <3>7, <4>1
    <3> QED
      BY <3>6, <3>7
  <2>2. Bytes' = [x \in 0 .. StackBytes - 1 |-> Bytes'[x]]
    BY DEF Bytes
  <2>3. Bytes' = [x \in 0 .. StackBytes - 1 |->
                    IF x \in a .. a + n - 1 THEN Flat!ByteOf(regs[i.rt], x - a) ELSE Bytes[x]]
    BY <2>1, <2>2
  <2> QED
    BY <1>1, <2>3 DEF Flat!Store, Flat!Addresses
<1> QED
  BY <1>1, <1>2, <1>7 DEF Flat!Next, Flat!Addresses

(* A cleared word has cleared bytes.                                       *)
LEMMA ZeroBytes == ASSUME NEW j \in 0 .. 3 PROVE GetLanes(0, j, 1) = 0
<1>1. LaneBase(j) \in Nat \ {0} /\ LaneBase(1) \in Nat \ {0}
  BY WordSizes
<1>2. \A m \in Nat \ {0} : 0 \div m = 0 /\ 0 % m = 0
  OBVIOUS
<1> QED
  BY <1>1, <1>2 DEF GetLanes

(* A fresh machine has cleared memory.                                     *)
LEMMA FlatStart == Init => Flat!Init
<1> SUFFICES ASSUME Init PROVE Flat!Init
  OBVIOUS
<1>1. \A x \in 0 .. StackBytes - 1 : stack[x \div 4] = 0 /\ x % 4 \in 0 .. 3
  BY ByteLane DEF Init
<1>2. \A x \in 0 .. StackBytes - 1 : GetLanes(stack[x \div 4], x % 4, 1) = 0
  BY <1>1, ZeroBytes
<1> QED
  BY <1>2 DEF Bytes, Flat!Init, Flat!Addresses

(* Every step of the interpreter is a step of the byte memory or leaves    *)
(* it.                                                                     *)
LEMMA FlatStep == Typed /\ [Next]_vars => [Flat!Next]_Bytes
<1> SUFFICES ASSUME Typed, [Next]_vars PROVE Flat!Next \/ UNCHANGED Bytes
  OBVIOUS
<1>1. stack' = stack => UNCHANGED Bytes
  BY DEF Bytes
<1>2. CASE Step
  <2>1. PICK i \in Fetched : Execute(i) /\ ~PastEnd
    BY <1>2 DEF Step
  <2>2. i \in Instruction
    BY <2>1, FetchedAreInstructions DEF Typed
  <2>3. StoreMem(i) \/ stack' = stack
    BY <2>1 DEF Execute, RegAlu, ImmAlu, Move, Multiply, DivideByZero, Divide, DivideKills, Trap,
       UnknownSpecial, UnknownOpcode, Break, Branch, Jump, JumpRegister, LoadMem, AccessViolation,
       SysExit, SysOutput, SysStub, SysSbrk, SysUnknown, Fault, Skip, data
  <2> QED
    BY <1>1, <2>2, <2>3, StoreIsFlat
<1>3. CASE FallOff \/ WildFetch \/ Load \/ Run \/ UNCHANGED vars
  BY <1>1, <1>3 DEF FallOff, WildFetch, Load, Run, vars, data
<1>4. CASE VmInit
  <2>1. \A x \in 0 .. StackBytes - 1 : stack'[x \div 4] = 0 /\ x % 4 \in 0 .. 3
    BY <1>4, ByteLane DEF VmInit
  <2>2. \A x \in 0 .. StackBytes - 1 : GetLanes(stack'[x \div 4], x % 4, 1) = 0
    BY <2>1, ZeroBytes
  <2>3. Flat!Clear
    BY <2>2 DEF Bytes, Flat!Clear, Flat!Addresses
  <2> QED
    BY <2>3 DEF Flat!Next
<1> QED
  BY <1>2, <1>3, <1>4 DEF Next, LeaveCode

(* The stack memory, words the code shifts and masks, implements a flat    *)
(* little-endian byte memory: whatever mixture of byte, half and word      *)
(* stores a program makes, each changes exactly its own bytes.             *)
THEOREM StackIsFlat == Spec => FlatMemory
<1> QED
  BY FlatStart, FlatStep, TypedAlways, PTL DEF Spec, FlatMemory, Flat!Spec

-----------------------------------------------------------------------------
(* What a load leaves in its register.                                     *)
LEMMA LoadReads ==
  ASSUME Typed, NEW i \in Instruction, LoadMem(i), i.rt # Zero
  PROVE  LET n == Width(i)
             v == Flat!Value(Reached(i), n)
         IN  regs'[i.rt] = IF i.op \in {"lb", "lh"} THEN ToWord(SignExtend(v, ByteBase ^ n)) ELSE v
<1> DEFINE n == Width(i)
           v == Flat!Value(Reached(i), n)
           w == stack[WordIndex(i)]
<1>1. /\ Reached(i) \in 0 .. StackBytes - 1 /\ Reached(i) % n = 0
      /\ Reached(i) \div 4 = WordIndex(i) /\ Reached(i) % 4 = FirstLane(i)
      /\ n \in {1, 2, 4} /\ Access(FirstLane(i), n) /\ WordIndex(i) \in 0 .. StackWords - 1
  BY AccessAligned DEF LoadMem, Typed, TypeOK
<1>2. i.rt \in Regs /\ regs \in [Regs -> Word] /\ stack \in [0 .. StackWords - 1 -> Word]
  BY DEF Instruction, Typed, TypeOK
<1>3. v = GetLanes(w, FirstLane(i), n)
  <2> HIDE DEF n
  <2> QED
    BY <1>1, <1>2, ValueIsLanes
<1>4. regs'[i.rt] = ToWord(LoadValue(i))
  BY <1>2 DEF LoadMem, Set
<1>5. LoadValue(i) = IF i.op \in {"lb", "lh"} THEN SignExtend(v, LaneBase(n)) ELSE v
  BY <1>3 DEF LoadValue
<1>6. LaneBase(n) = ByteBase ^ n
  BY <1>1, PowersAssumption
<1>7. ToWord(v) = v
  <2>1. w \in Word /\ FirstLane(i) \in 0 .. 3
    BY <1>1, <1>2 DEF Access
  <2> HIDE DEF w, n, v
  <2>2. PICK x0, x1, x2, x3 \in Byte : w = OfBytes(x0, x1, x2, x3)
    BY <2>1, WordOfBytes
  <2>3. v \in 0 .. LaneBase(n) - 1
    <3>1. LaneBase(FirstLane(i)) \in Nat \ {0} /\ LaneBase(n) \in Nat \ {0} /\ w \in Int
      BY <1>1, <2>1, WordSizes, WordViews
    <3>2. w \div LaneBase(FirstLane(i)) \in Int
      BY <3>1
    <3>3. \A m \in Nat \ {0} : \A x \in Int : x % m \in 0 .. m - 1
      OBVIOUS
    <3> QED
      BY <1>3, <3>1, <3>2, <3>3 DEF GetLanes
  <2>4. LaneBase(n) <= W
    <3>1. \A b \in Nat \ {0} : b <= b * b
      OBVIOUS
    <3>2. ByteBase <= HalfBase /\ HalfBase <= W /\ W \in Int /\ ByteBase \in Int /\ HalfBase \in Int
      BY <3>1, WordSizes DEF HalfBase, W
    <3> QED
      BY <1>1, <3>2 DEF LaneBase
  <2>5. v \in 0 .. W - 1
    <3>1. LaneBase(n) \in Int /\ W \in Int
      BY <1>1, WordSizes
    <3> QED
      BY <2>3, <2>4, <3>1
  <2>6. \A x \in 0 .. W - 1 : x % W = x
    BY WordSizes
  <2> QED
    BY <2>5, <2>6 DEF ToWord
<1> HIDE DEF n, v
<1>8. regs'[i.rt] = IF i.op \in {"lb", "lh"} THEN ToWord(SignExtend(v, ByteBase ^ n)) ELSE v
  BY <1>4, <1>5, <1>6, <1>7
<1> QED
  BY <1>8 DEF n, v

(* What LoadsReadBytes says of one step.                                   *)
LoadReadsBytes ==
  Step /\ AtInstruction /\ Current.op \in LoadOps /\ ~error' /\ Current.rt # Zero =>
    LET n == Width(Current)
        a == IF n = 4 THEN Address(Current) - (Address(Current) % 4) ELSE Address(Current)
        v == Flat!Value(a, n)
    IN  regs'[Current.rt] =
          IF Current.op \in {"lb", "lh"} THEN ToWord(SignExtend(v, ByteBase ^ n)) ELSE v

(* Every load that is executed is one.                                     *)
LEMMA LoadStep == Typed /\ [Next]_vars => [LoadReadsBytes]_vars
<1> SUFFICES ASSUME Typed, Step, AtInstruction, Current.op \in LoadOps, ~error', Current.rt # Zero
             PROVE  LoadReadsBytes
  BY DEF LoadReadsBytes
<1> DEFINE i == Current
<1>1. Execute(i) /\ i \in Instruction
  BY FetchedAreInstructions DEF Step, Fetched, Typed
<1>2. LoadMem(i)
  <2>1. ~AccessViolation(i)
    BY DEF AccessViolation, Fault
  <2> QED
    BY <1>1, <2>1 DEF Execute, LoadOps, RegAlu, ImmAlu, Move, Multiply, DivideByZero, Divide,
       DivideKills, Overflows, Trap, UnknownSpecial, UnknownOpcode, Break, Branch, Jump, JumpRegister,
       StoreMem, SysExit, SysOutput, SysStub, SysSbrk, SysUnknown, RegOps, ImmOps, MoveOps,
       TrapOps, BranchOps, LinkBranchOps, StoreOps
<1> QED
  BY <1>1, <1>2, LoadReads DEF LoadReadsBytes, Reached

(* Every load returns the bytes last stored at its address, extended as    *)
(* its opcode says (MIPS_OP_LW to MIPS_OP_LHU).                            *)
THEOREM LoadsAreExact == Spec => LoadsReadBytes
<1> QED
  BY LoadStep, TypedAlways, PTL DEF Spec, LoadsReadBytes, LoadReadsBytes

-----------------------------------------------------------------------------
(* Products and quotients in HI and LO.                                    *)

(* The numbers a word stands for.                                          *)
LEMMA SignedRange ==
  /\ W \in Nat /\ W >= 4
  /\ \A w \in Word :
       /\ w \in Nat /\ w < W
       /\ Signed(w) \in Int /\ -W <= 2 * Signed(w) /\ 2 * Signed(w) < W
       /\ Signed(w) = w \/ Signed(w) = w - W
<1>1. W \in Nat /\ W >= 4
  <2>1. HalfBase \in Nat /\ HalfBase >= 2
    BY WordSizes
  <2>2. \A h \in Nat : h >= 2 => h * h \in Nat /\ h * h >= 4
    OBVIOUS
  <2> QED
    BY <2>1, <2>2 DEF W
<1> QED
  BY <1>1 DEF Word, Signed, SignExtend

(* A number that fits survives the truncation to a word.                   *)
LEMMA Fits ==
  ASSUME NEW n \in Int
  PROVE  /\ -W <= 2 * n /\ 2 * n < W => Signed(ToWord(n)) = n
         /\ 0 <= n /\ n < W => ToWord(n) = n
<1>1. W \in Nat \ {0}
  BY WordSizes
<1>2. 0 <= n /\ n < W => n % W = n
  BY <1>1
<1>3. ASSUME n < 0, -W <= 2 * n PROVE n % W = n + W
  <2>1. n + W \in 0 .. W - 1
    BY <1>1, <1>3
  <2>2. (W * (-1) + (n + W)) % W = n + W
    <3>1. -1 \in Int
      OBVIOUS
    <3> QED
      BY <1>1, <2>1, <3>1, DivMod, Zenon
  <2>3. W * (-1) + (n + W) = n
    BY <1>1
  <2> QED
    BY <2>2, <2>3
<1> QED
  BY <1>1, <1>2, <1>3 DEF ToWord, Signed, SignExtend

(* The two words of a product.                                             *)
LEMMA SignedProduct ==
  ASSUME NEW a \in Int, NEW b \in Int, -W <= 2 * a, 2 * a < W, -W <= 2 * b, 2 * b < W
  PROVE  Signed(ToWord((a * b) \div W)) * W + ToWord(a * b) = a * b
<1> DEFINE p == a * b
           q == p \div W
           r == p % W
           ww == W * W
           wq == W * q
<1>1. W \in Nat \ {0} /\ W >= 4
  BY SignedRange
<1>2. p \in Int /\ ww \in Int
  BY <1>1
<1>3. q \in Int /\ r \in 0 .. W - 1 /\ p = wq + r
  <2> HIDE DEF p
  <2> QED
    BY <1>1, <1>2
<1>4. 4 * p <= ww /\ -ww <= 4 * p
  <2>1. \A m, n \in Nat : \A x, y \in Int :
          /\ -m <= x /\ x <= m /\ -m <= y /\ y <= m => x * y <= m * m /\ -(m * m) <= x * y
    <3> SUFFICES ASSUME NEW m \in Nat, NEW x \in Int, NEW y \in Int,
                        -m <= x, x <= m, -m <= y, y <= m
                 PROVE  x * y <= m * m /\ -(m * m) <= x * y
      OBVIOUS
    <3>1. (m - x) * (m + y) >= 0 /\ (m + x) * (m - y) >= 0
      <4>1. \A u, v \in Nat : u * v >= 0
        OBVIOUS
      <4>2. m - x \in Nat /\ m + y \in Nat /\ m + x \in Nat /\ m - y \in Nat
        OBVIOUS
      <4> QED
        BY <4>1, <4>2
    <3>2. (m - x) * (m - y) >= 0 /\ (m + x) * (m + y) >= 0
      <4>1. \A u, v \in Nat : u * v >= 0
        OBVIOUS
      <4>2. m - x \in Nat /\ m + y \in Nat /\ m + x \in Nat /\ m - y \in Nat
        OBVIOUS
      <4> QED
        BY <4>1, <4>2
    <3>3. /\ (m - x) * (m + y) = m * m + m * y - m * x - x * y
          /\ (m + x) * (m - y) = m * m - m * y + m * x - x * y
          /\ (m - x) * (m - y) = m * m - m * y - m * x + x * y
          /\ (m + x) * (m + y) = m * m + m * y + m * x + x * y
      OBVIOUS
    <3>4. m * m \in Int /\ m * x \in Int /\ m * y \in Int /\ x * y \in Int
      OBVIOUS
    <3> QED
      BY <3>1, <3>2, <3>3, <3>4
  <2>2. (2 * a) * (2 * b) <= ww /\ -ww <= (2 * a) * (2 * b)
    <3>1. 2 * a \in Int /\ 2 * b \in Int /\ 2 * a <= W /\ 2 * b <= W /\ W \in Nat
      BY <1>1
    <3> QED
      BY <2>1, <3>1
  <2>3. (2 * a) * (2 * b) = 4 * p
    OBVIOUS
  <2> QED
    BY <2>2, <2>3
<1> HIDE DEF p, q, r
<1>5. -W <= 2 * q /\ 2 * q < W
  <2>1. W * (4 * q) = 4 * wq /\ W * W = ww /\ W * (-W - 4) = -ww - 4 * W
        /\ 4 * q \in Int /\ wq \in Int
    BY <1>1, <1>3
  <2>2. 4 * wq <= ww /\ 4 * wq > -ww - 4 * W
    <3> HIDE DEF ww, wq
    <3> QED
      BY <1>1, <1>2, <1>3, <1>4, <2>1
  <2>3. \A x, y \in Int : /\ W * x <= W * y => x <= y
                          /\ W * x < W * y => x < y
    BY <1>1
  <2>4. 4 * q <= W
    BY <1>1, <2>1, <2>2, <2>3
  <2>5. -W - 4 < 4 * q
    <3>1. -W - 4 \in Int /\ W * (-W - 4) < W * (4 * q)
      <4> HIDE DEF ww, wq
      <4> QED
        BY <1>1, <1>2, <2>1, <2>2
    <3> QED
      BY <2>1, <2>3, <3>1
  <2> QED
    BY <1>1, <1>3, <2>4, <2>5
<1>6. Signed(ToWord(q)) = q
  BY <1>3, <1>5, Fits
<1>7. q * W + r = p
  BY <1>1, <1>3
<1> QED
  BY <1>6, <1>7 DEF p, q, r, ToWord

(* ... and of an unsigned one.                                             *)
LEMMA UnsignedProduct ==
  ASSUME NEW a \in Word, NEW b \in Word
  PROVE  ToWord((a * b) \div W) * W + ToWord(a * b) = a * b
<1> DEFINE p == a * b
           q == p \div W
           r == p % W
<1>1. W \in Nat \ {0} /\ a \in Nat /\ b \in Nat /\ a < W /\ b < W
  BY SignedRange
<1>2. p \in Nat /\ p < W * W
  <2>1. \A m, n, u, v \in Nat : m < u /\ n < v => m * n < u * v
    <3> SUFFICES ASSUME NEW m \in Nat, NEW n \in Nat, NEW u \in Nat, NEW v \in Nat, m < u, n < v
                 PROVE  m * n < u * v
      OBVIOUS
    <3>1. m * n <= m * v /\ m * v < u * v
      <4>1. \A k \in Nat : m * k >= 0 /\ (k > 0 => k * v >= v)
        OBVIOUS
      <4>2. v - n \in Nat /\ u - m \in Nat /\ u - m > 0 /\ v > 0
        OBVIOUS
      <4>3. m * (v - n) = m * v - m * n /\ (u - m) * v = u * v - m * v
        OBVIOUS
      <4>4. m * v \in Int /\ m * n \in Int /\ u * v \in Int
        OBVIOUS
      <4>5. m * (v - n) >= 0 /\ (u - m) * v >= v
        BY <4>1, <4>2
      <4> QED
        BY <4>2, <4>3, <4>4, <4>5
    <3> QED
      BY <3>1
  <2> QED
    BY <1>1, <2>1
<1>3. q \in Int /\ r \in 0 .. W - 1 /\ p = W * q + r
  <2> HIDE DEF p
  <2> QED
    BY <1>1, <1>2
<1> HIDE DEF p, q, r
<1>4. q \in 0 .. W - 1
  <2>1. \A x, y \in Int : W * x < W * y => x < y
    BY <1>1
  <2>2. W * q < W * W
    BY <1>1, <1>2, <1>3
  <2>3. W * (-1) < W * q
    BY <1>1, <1>2, <1>3
  <2>4. -1 \in Int
    OBVIOUS
  <2>5. q < W /\ -1 < q
    BY <1>1, <1>3, <2>1, <2>2, <2>3, <2>4
  <2> QED
    BY <1>1, <1>3, <2>5
<1>5. ToWord(q) = q
  BY <1>1, <1>4, Fits
<1>6. q * W + r = p
  BY <1>1, <1>3
<1> QED
  BY <1>5, <1>6 DEF p, q, r, ToWord

(* Truncating division.                                                    *)
LEMMA Truncating ==
  ASSUME NEW a \in Int, NEW b \in Int, b # 0
  PROVE  LET q == Quotient(a, b)
             r == Remainder(a, b)
         IN  /\ q \in Int /\ r \in Int
             /\ q * b + r = a
             /\ Magnitude(r) < Magnitude(b)
             /\ r # 0 => (r < 0 <=> a < 0)
             /\ Magnitude(q) <= Magnitude(a)
             /\ q > 0 => (a < 0 <=> b < 0)
             /\ q = Magnitude(a) /\ q # 0 => Magnitude(b) = 1
<1> DEFINE x == Magnitude(a)
           y == Magnitude(b)
           m == x \div y
           s == x % y
           q == Quotient(a, b)
           r == Remainder(a, b)
<1>1. x \in Nat /\ y \in Nat \ {0}
  BY DEF Magnitude
<1>2. m \in Nat /\ s \in 0 .. y - 1 /\ x = y * m + s
  <2> HIDE DEF x, y
  <2> QED
    BY <1>1
<1>3. q = m \/ q = -m
  BY DEF Quotient
<1>4. q = m <=> (a < 0 <=> b < 0) \/ m = 0
  <2>1. q = IF (a < 0) = (b < 0) THEN m ELSE -m
    BY DEF Quotient
  <2>2. CASE a < 0 <=> b < 0
    <3>1. (a < 0) = (b < 0)
      BY <2>2
    <3> QED
      BY <2>1, <2>2, <3>1
  <2>3. CASE ~(a < 0 <=> b < 0)
    <3>1. (a < 0) # (b < 0)
      BY <2>3
    <3>2. q = -m
      BY <2>1, <3>1
    <3> HIDE DEF m, q
    <3> QED
      BY <1>2, <2>3, <3>2
  <2> QED
    BY <2>2, <2>3
<1>5. r = a - b * q
  BY DEF Remainder
<1>6. (a < 0 => a = -x) /\ (a >= 0 => a = x) /\ (b < 0 => b = -y) /\ (b >= 0 => b = y)
  BY DEF Magnitude
<1> HIDE DEF x, y, m, s, q, r
<1>7. b * q = IF a < 0 THEN -(y * m) ELSE y * m
  <2>1. CASE q = m
    BY <1>1, <1>2, <1>4, <1>6, <2>1
  <2>2. CASE q = -m
    <3>1. CASE a < 0
      <4>1. b = y \/ m = 0
        BY <1>1, <1>2, <1>3, <1>4, <1>6, <2>2, <3>1
      <4> QED
        BY <1>1, <1>2, <2>2, <3>1, <4>1
    <3>2. CASE a >= 0
      <4>1. b = -y \/ m = 0
        BY <1>1, <1>2, <1>3, <1>4, <1>6, <2>2, <3>2
      <4> QED
        BY <1>1, <1>2, <2>2, <3>2, <4>1
    <3> QED
      BY <3>1, <3>2
  <2> QED
    BY <1>3, <2>1, <2>2
<1>8. y * m \in Int /\ q \in Int
  BY <1>1, <1>2, <1>3
<1>9. r = IF a < 0 THEN -s ELSE s
  BY <1>2, <1>5, <1>6, <1>7, <1>8
<1>10. q * b = b * q
  BY <1>8
<1>11. m <= x
  <2>1. \A k, n \in Nat : k # 0 => n <= k * n
    OBVIOUS
  <2>2. m <= y * m
    BY <1>1, <1>2, <2>1
  <2> QED
    BY <1>1, <1>2, <1>8, <2>2
<1>12. ASSUME q = x, q # 0 PROVE y = 1
  <2>1. m = x
    BY <1>1, <1>2, <1>3, <1>12
  <2>2. y * m <= m
    BY <1>1, <1>2, <1>8, <2>1
  <2>3. \A k, n \in Nat : k # 0 /\ n # 0 /\ k * n <= n => k = 1
    <3> SUFFICES ASSUME NEW k \in Nat, NEW n \in Nat, k # 0, n # 0, k * n <= n, k # 1
                 PROVE  FALSE
      OBVIOUS
    <3>1. (k - 1) * n = k * n - n /\ k - 1 \in Nat /\ k - 1 >= 1 /\ k * n \in Int
      OBVIOUS
    <3>2. \A u, v \in Nat : u >= 1 => u * v >= v
      OBVIOUS
    <3>3. (k - 1) * n >= n
      BY <3>1, <3>2
    <3> QED
      BY <3>1, <3>3
  <2>4. m # 0
    BY <1>12, <2>1
  <2> QED
    BY <1>1, <1>2, <2>2, <2>3, <2>4
<1>13. q > 0 => (a < 0 <=> b < 0)
  BY <1>2, <1>3, <1>4
<1>14. q * b + r = a /\ r \in Int
  BY <1>2, <1>5, <1>8, <1>9, <1>10, <1>6, <1>7
<1>15. Magnitude(r) = s /\ Magnitude(q) = m
  BY <1>2, <1>3, <1>9 DEF Magnitude
<1>16. r # 0 => (r < 0 <=> a < 0)
  BY <1>2, <1>9
<1>17. s < y
  BY <1>1, <1>2
<1>18. /\ q \in Int /\ r \in Int /\ q * b + r = a
       /\ Magnitude(r) < y
       /\ r # 0 => (r < 0 <=> a < 0)
       /\ Magnitude(q) <= x
       /\ q > 0 => (a < 0 <=> b < 0)
       /\ q = x /\ q # 0 => y = 1
  BY <1>8, <1>11, <1>12, <1>13, <1>14, <1>15, <1>16, <1>17
<1> QED
  BY <1>18 DEF x, y, q, r

(* Quotient and remainder of words, but for the one quotient that is none. *)
LEMMA SignedDivision ==
  ASSUME NEW a \in Int, NEW b \in Int, b # 0, -W <= 2 * a, 2 * a < W, -W <= 2 * b, 2 * b < W,
         ~(2 * a = -W /\ b = -1)
  PROVE  LET q == Signed(ToWord(Quotient(a, b)))
             r == Signed(ToWord(Remainder(a, b)))
         IN  q * b + r = a /\ Magnitude(r) < Magnitude(b) /\ (r # 0 => ((r < 0) = (a < 0)))
<1> DEFINE q == Quotient(a, b)
           r == Remainder(a, b)
           x == Magnitude(a)
           y == Magnitude(b)
<1>1. /\ q \in Int /\ r \in Int
      /\ q * b + r = a
      /\ Magnitude(r) < y
      /\ r # 0 => (r < 0 <=> a < 0)
      /\ Magnitude(q) <= x
      /\ q > 0 => (a < 0 <=> b < 0)
      /\ q = x /\ q # 0 => y = 1
  BY Truncating
<1>2. W \in Nat /\ W >= 4
  BY SignedRange
<1>3. /\ x \in Nat /\ 2 * x <= W /\ y \in Nat /\ 2 * y <= W
      /\ (y = 1 => b = 1 \/ b = -1) /\ (2 * x = W => 2 * a = -W /\ a < 0)
  BY <1>2 DEF Magnitude
<1> HIDE DEF q, r, x, y
<1>4. -W <= 2 * r /\ 2 * r < W
  BY <1>1, <1>2, <1>3 DEF Magnitude
<1>5. -W <= 2 * q /\ 2 * q < W
  <2>1. -W <= 2 * q /\ 2 * q <= W
    BY <1>1, <1>2, <1>3 DEF Magnitude
  <2>2. 2 * q # W
    <3> SUFFICES ASSUME 2 * q = W PROVE FALSE
      OBVIOUS
    <3>1. q > 0 /\ q = x /\ q # 0
      BY <1>1, <1>2, <1>3 DEF Magnitude
    <3>2. y = 1 /\ 2 * a = -W /\ a < 0 /\ b < 0
      BY <1>1, <1>3, <3>1
    <3> QED
      BY <1>3, <3>2
  <2> QED
    BY <1>1, <1>2, <2>1, <2>2
<1>6. Signed(ToWord(q)) = q /\ Signed(ToWord(r)) = r
  BY <1>1, <1>4, <1>5, Fits
<1>7. r # 0 => ((r < 0) = (a < 0))
  <2>1. CASE r < 0
    BY <1>1, <2>1
  <2>2. CASE ~(r < 0)
    BY <1>1, <2>2
  <2> QED
    BY <2>1, <2>2
<1> QED
  BY <1>1, <1>6, <1>7 DEF q, r, y

(* ... and of unsigned words.                                              *)
LEMMA UnsignedDivision ==
  ASSUME NEW a \in Word, NEW b \in Word, b # 0
  PROVE  LET q == ToWord(Quotient(a, b))
             r == ToWord(Remainder(a, b))
         IN  q * b + r = a /\ r < b
<1> DEFINE q == Quotient(a, b)
           r == Remainder(a, b)
<1>1. a \in Nat /\ b \in Nat /\ a < W /\ b < W /\ W \in Nat
  BY SignedRange
<1>2. /\ q \in Int /\ r \in Int /\ q * b + r = a
      /\ Magnitude(r) < b /\ (r # 0 => (r < 0 <=> a < 0)) /\ Magnitude(q) <= a
  <2>1. Magnitude(a) = a /\ Magnitude(b) = b
    BY <1>1 DEF Magnitude
  <2> QED
    BY <1>1, <2>1, Truncating
<1> HIDE DEF q, r
<1>3. r \in 0 .. b - 1 /\ -a <= q /\ q <= a
  BY <1>1, <1>2 DEF Magnitude
<1>4. q >= 0
  <2> SUFFICES ASSUME q < 0 PROVE FALSE
    BY <1>2
  <2>1. \A m, n \in Nat : m >= 1 => m * n >= n
    OBVIOUS
  <2>2. -q \in Nat /\ -q >= 1 /\ (-q) * b = -(q * b) /\ q * b \in Int
    BY <1>1, <1>2
  <2>3. (-q) * b >= b
    BY <1>1, <2>1, <2>2
  <2> QED
    BY <1>1, <1>2, <1>3, <2>2, <2>3
<1>5. ToWord(q) = q /\ ToWord(r) = r
  BY <1>1, <1>2, <1>3, <1>4, Fits
<1>6. ToWord(q) * b + ToWord(r) = a /\ ToWord(r) < b
  BY <1>1, <1>2, <1>3, <1>5
<1> QED
  BY <1>6 DEF q, r

(* What multiplications and divisions leave in HI and LO.                  *)
ExactStep == Step /\ AtInstruction => ExactPair(Current)

(* Every multiplication and division that is executed is exact.            *)
LEMMA ExactlyStep == Typed /\ [Next]_vars => [ExactStep]_vars
<1> SUFFICES ASSUME Typed, Step, AtInstruction PROVE ExactPair(Current)
  BY DEF ExactStep
<1> DEFINE i == Current
           a == R(i.rs)
           b == R(i.rt)
<1>1. Execute(i) /\ i \in Instruction
  BY FetchedAreInstructions DEF Step, Fetched, Typed
<1>2. a \in Word /\ b \in Word
  <2>1. i.rs \in Regs /\ i.rt \in Regs /\ regs \in [Regs -> Word]
    BY <1>1 DEF Instruction, Typed, TypeOK
  <2> QED
    BY <2>1, ReadRegister DEF Typed, ZeroIsZero
<1> HIDE DEF i
<1>3. ASSUME i.op \in {"mult", "multu"} PROVE Multiply(i)
  BY <1>1, <1>3 DEF Execute, RegAlu, ImmAlu, Move, DivideByZero, Divide,
     DivideKills, Overflows, Trap, UnknownSpecial, UnknownOpcode, Break, Branch, Jump, JumpRegister,
     LoadMem, StoreMem, AccessViolation, SysExit, SysOutput, SysStub, SysSbrk, SysUnknown,
     RegOps, ImmOps, MoveOps, TrapOps, BranchOps, LinkBranchOps, LoadOps, StoreOps
<1>4. ASSUME i.op \in {"div", "divu"}, b # 0, ~Overflows(i) PROVE Divide(i)
  BY <1>1, <1>4 DEF Execute, RegAlu, ImmAlu, Move, Multiply, DivideByZero,
     DivideKills, Trap, UnknownSpecial, UnknownOpcode, Break, Branch, Jump, JumpRegister,
     LoadMem, StoreMem, AccessViolation, SysExit, SysOutput, SysStub, SysSbrk, SysUnknown,
     RegOps, ImmOps, MoveOps, TrapOps, BranchOps, LinkBranchOps, LoadOps, StoreOps
<1>5. /\ Signed(a) \in Int /\ -W <= 2 * Signed(a) /\ 2 * Signed(a) < W
      /\ Signed(b) \in Int /\ -W <= 2 * Signed(b) /\ 2 * Signed(b) < W
  BY <1>2, SignedRange
<1>6. CASE i.op = "mult"
  <2>1. hi' = ToWord((Signed(a) * Signed(b)) \div W) /\ lo' = ToWord(Signed(a) * Signed(b))
    BY <1>3, <1>6 DEF Multiply
  <2> HIDE DEF a, b
  <2>2. Signed(hi') * W + lo' = Signed(a) * Signed(b)
    BY <1>5, <2>1, SignedProduct
  <2> QED
    BY <1>6, <2>2 DEF ExactPair, a, b, i
<1>7. CASE i.op = "multu"
  <2>1. hi' = ToWord((a * b) \div W) /\ lo' = ToWord(a * b)
    BY <1>3, <1>7 DEF Multiply
  <2> HIDE DEF a, b
  <2>2. hi' * W + lo' = a * b
    BY <1>2, <2>1, UnsignedProduct
  <2> QED
    BY <1>7, <2>2 DEF ExactPair, a, b, i
<1>8. CASE i.op = "divu" /\ b # 0
  <2>1. lo' = ToWord(Quotient(a, b)) /\ hi' = ToWord(Remainder(a, b))
    BY <1>4, <1>8 DEF Divide, Overflows
  <2> HIDE DEF a, b
  <2>2. lo' * b + hi' = a /\ hi' < b
    BY <1>2, <1>8, <2>1, UnsignedDivision
  <2> QED
    BY <1>8, <2>2 DEF ExactPair, a, b, i
<1>9. CASE i.op = "div" /\ b # 0 /\ ~Overflows(i)
  <2>1. lo' = ToWord(Quotient(Signed(a), Signed(b))) /\ hi' = ToWord(Remainder(Signed(a), Signed(b)))
    BY <1>4, <1>9 DEF Divide
  <2>2. Signed(b) # 0 /\ ~(2 * Signed(a) = -W /\ Signed(b) = -1)
    <3>1. ~(2 * a = W /\ b = W - 1)
      BY <1>9 DEF Overflows
    <3> HIDE DEF a, b
    <3> QED
      BY <1>2, <1>9, <3>1, SignedRange DEF Signed, SignExtend
  <2> HIDE DEF a, b
  <2>3. /\ Signed(lo') * Signed(b) + Signed(hi') = Signed(a)
        /\ Magnitude(Signed(hi')) < Magnitude(Signed(b))
        /\ Signed(hi') # 0 => ((Signed(hi') < 0) = (Signed(a) < 0))
    BY <1>5, <2>1, <2>2, SignedDivision
  <2> QED
    BY <1>9, <2>3 DEF ExactPair, a, b, i
<1>10. CASE /\ i.op # "mult" /\ i.op # "multu" /\ ~(i.op = "divu" /\ b # 0)
            /\ ~(i.op = "div" /\ b # 0 /\ ~Overflows(i))
  BY <1>10 DEF ExactPair, i
<1> QED
  BY <1>6, <1>7, <1>8, <1>9, <1>10

(* HI and LO together hold the exact product, and quotient and remainder   *)
(* the exact truncating division, but for the division that overflows and  *)
(* the one by zero (MIPS_FN_MULT to MIPS_FN_DIVU).                         *)
THEOREM HiLoIsExact == Spec => HiLoExact
<1> QED
  BY ExactlyStep, TypedAlways, PTL DEF Spec, HiLoExact, ExactStep

-----------------------------------------------------------------------------
(* What is stored is there to be loaded.                                   *)

(* What was put is what is got.                                            *)
LEMMA PutThenGet ==
  ASSUME NEW w \in Word, NEW v \in Word, NEW k, NEW n, Access(k, n)
  PROVE  GetLanes(PutLanes(w, k, n, v), k, n) = v % LaneBase(n)
<1> DEFINE d == PutLanes(w, k, n, v)
<1>1. BytesPut(d, w, k, n, v)
  BY PutLanesBytes, Zenon
<1> HIDE DEF d
<1>2. PICK z0, z1, z2, z3 \in Byte : d = OfBytes(z0, z1, z2, z3)
  BY <1>1, WordOfBytes DEF BytesPut
<1>3. PICK y0, y1, y2, y3 \in Byte : v = OfBytes(y0, y1, y2, y3)
  BY WordOfBytes
<1>4. /\ GetLanes(d, 0, 1) = z0 /\ GetLanes(d, 1, 1) = z1
      /\ GetLanes(d, 2, 1) = z2 /\ GetLanes(d, 3, 1) = z3
      /\ GetLanes(d, 0, 2) = z0 + ByteBase * z1 /\ GetLanes(d, 2, 2) = z2 + ByteBase * z3
      /\ GetLanes(d, 0, 4) = d
  BY <1>2, LanesOfBytes
<1>5. /\ GetLanes(v, 0, 1) = y0 /\ GetLanes(v, 1, 1) = y1
      /\ GetLanes(v, 2, 1) = y2 /\ GetLanes(v, 3, 1) = y3
      /\ v % ByteBase = y0 /\ v % HalfBase = y0 + ByteBase * y1
  BY <1>3, LanesOfBytes
<1>6. LaneBase(1) = ByteBase /\ LaneBase(2) = HalfBase /\ LaneBase(4) = W
  BY DEF LaneBase
<1>7. \A j \in 0 .. 3 : GetLanes(d, j, 1) =
        IF j \in k .. k + n - 1 THEN GetLanes(v, j - k, 1) ELSE GetLanes(w, j, 1)
  BY <1>1 DEF BytesPut
<1>8. CASE n = 1
  <2>1. k \in 0 .. 3 /\ k \in k .. k + n - 1 /\ k - k = 0
    BY <1>8 DEF Access
  <2>2. GetLanes(d, k, 1) = y0
    BY <1>5, <1>7, <2>1
  <2> QED
    BY <1>5, <1>6, <1>8, <2>2 DEF d
<1>9. CASE n = 2
  <2>1. k \in {0, 2}
    BY <1>9 DEF Access
  <2>2. CASE k = 0
    <3>1. GetLanes(d, 0, 1) = GetLanes(v, 0, 1) /\ GetLanes(d, 1, 1) = GetLanes(v, 1, 1)
      BY <1>7, <1>9, <2>2
    <3> QED
      BY <1>4, <1>5, <1>6, <1>9, <2>2, <3>1 DEF d
  <2>3. CASE k = 2
    <3>1. GetLanes(d, 2, 1) = GetLanes(v, 0, 1) /\ GetLanes(d, 3, 1) = GetLanes(v, 1, 1)
      BY <1>7, <1>9, <2>3
    <3> QED
      BY <1>4, <1>5, <1>6, <1>9, <2>3, <3>1 DEF d
  <2> QED
    BY <2>1, <2>2, <2>3
<1>10. CASE n = 4
  <2>1. k = 0
    BY <1>10 DEF Access
  <2>2. /\ GetLanes(d, 0, 1) = GetLanes(v, 0, 1) /\ GetLanes(d, 1, 1) = GetLanes(v, 1, 1)
        /\ GetLanes(d, 2, 1) = GetLanes(v, 2, 1) /\ GetLanes(d, 3, 1) = GetLanes(v, 3, 1)
    BY <1>7, <1>10, <2>1
  <2>3. d = v
    BY <1>2, <1>3, <1>4, <1>5, <2>2
  <2>4. v % W = v
    <3>1. \A m \in Nat \ {0} : \A x \in 0 .. m - 1 : x % m = x
      OBVIOUS
    <3> QED
      BY <3>1, WordSizes DEF Word
  <2> QED
    BY <1>4, <1>6, <1>10, <2>1, <2>3, <2>4 DEF d
<1> QED
  BY <1>8, <1>9, <1>10 DEF Access

(* The byte memory is read off the lanes, at any time.                     *)
ReadsLanes ==
  \A a \in 0 .. StackBytes - 1, n \in {1, 2, 4} :
    a % n = 0 => Flat!Value(a, n) = GetLanes(stack[a \div 4], a % 4, n)

(* The lanes and the byte memory agree in every typed state.               *)
LEMMA LanesRead == Typed => ReadsLanes
BY ValueIsLanes DEF ReadsLanes, Typed, TypeOK

(* What a store leaves in the byte memory.                                 *)
StoreReadsBack ==
  Step /\ AtInstruction /\ Current.op \in StoreOps /\ ~error' =>
    \A a \in 0 .. StackBytes - 1, n \in {1, 2, 4} :
      a = Reached(Current) /\ n = Width(Current) =>
        Flat!Value(a, n)' = R(Current.rt) % ByteBase ^ n

(* The lanes a store puts are the lanes the byte memory then reads.        *)
LEMMA StoreStep == Typed /\ ReadsLanes' /\ [Next]_vars => [StoreReadsBack]_vars
<1> SUFFICES ASSUME Typed, ReadsLanes', Step, AtInstruction, Current.op \in StoreOps, ~error',
                    NEW a \in 0 .. StackBytes - 1, NEW n \in {1, 2, 4},
                    a = Reached(Current), n = Width(Current)
             PROVE  Flat!Value(a, n)' = R(Current.rt) % ByteBase ^ n
  BY DEF StoreReadsBack
<1> DEFINE i == Current
           w == stack[WordIndex(i)]
           v == R(i.rt)
           k == FirstLane(i)
<1>1. Execute(i) /\ i \in Instruction
  BY FetchedAreInstructions DEF Step, Fetched, Typed
<1>2. StoreMem(i)
  <2>1. ~AccessViolation(i)
    BY DEF AccessViolation, Fault
  <2> QED
    BY <1>1, <2>1 DEF Execute, StoreOps, RegAlu, ImmAlu, Move, Multiply, DivideByZero, Divide,
       DivideKills, Overflows, Trap, UnknownSpecial, UnknownOpcode, Break, Branch, Jump, JumpRegister,
       LoadMem, SysExit, SysOutput, SysStub, SysSbrk, SysUnknown, RegOps, ImmOps, MoveOps,
       TrapOps, BranchOps, LinkBranchOps, LoadOps
<1>3. /\ a % n = 0 /\ a \div 4 = WordIndex(i) /\ a % 4 = k
      /\ Access(k, n) /\ WordIndex(i) \in 0 .. StackWords - 1
  BY <1>1, <1>2, AccessAligned DEF StoreMem, Typed, TypeOK
<1>4. v \in Word /\ stack \in [0 .. StackWords - 1 -> Word]
  <2>1. i.rt \in Regs /\ regs \in [Regs -> Word] /\ stack \in [0 .. StackWords - 1 -> Word]
    BY <1>1 DEF Instruction, Typed, TypeOK
  <2> QED
    BY <2>1, ReadRegister DEF Typed, ZeroIsZero
<1>5. stack' = [stack EXCEPT ![WordIndex(i)] = ToWord(PutLanes(w, k, n, v))]
  BY <1>2 DEF StoreMem
<1> HIDE DEF i, v, k
<1>6. w \in Word
  BY <1>3, <1>4
<1> HIDE DEF w
<1> DEFINE new == PutLanes(w, k, n, v)
<1>7. BytesPut(new, w, k, n, v)
  BY <1>3, <1>4, <1>6, PutLanesBytes, Zenon
<1>8. GetLanes(new, k, n) = v % LaneBase(n)
  <2>1. w \in Word /\ v \in Word /\ Access(k, n)
    BY <1>3, <1>4, <1>6
  <2> QED
    BY <2>1, PutThenGet
<1> HIDE DEF new
<1>9. ToWord(new) = new
  <2>1. \A x \in 0 .. W - 1 : x % W = x
    BY WordSizes
  <2> QED
    BY <1>7, <2>1 DEF BytesPut, ToWord, Word
<1>10. stack'[WordIndex(i)] = new
  BY <1>3, <1>4, <1>5, <1>9 DEF new
<1>11. Flat!Value(a, n)' = GetLanes(stack'[a \div 4], a % 4, n)
  BY <1>3 DEF ReadsLanes
<1>12. LaneBase(n) = ByteBase ^ n
  BY PowersAssumption
<1> QED
  BY <1>3, <1>8, <1>10, <1>11, <1>12 DEF v, i

(* What is stored is there to be loaded: after a store (MIPS_OP_SW,        *)
(* MIPS_OP_SH, MIPS_OP_SB) the bytes it reached hold the low bytes of its  *)
(* register.                                                               *)
THEOREM StoresReadBack == Spec => [][StoreReadsBack]_vars
<1> QED
  BY LanesRead, StoreStep, TypedAlways, PTL DEF Spec

-----------------------------------------------------------------------------
(* Forward code goes forward.                                              *)

(* Immediate fields are far smaller than the range of addresses: 16 bits   *)
(* of branch offset, 26 bits of jump target.                               *)
FieldsFit ==
  \A k \in 1 .. Len(code) :
    /\ code[k].op \in BranchOps \union LinkBranchOps => CodeMax + 4 * code[k].imm + 4 < W
    /\ code[k].op \in {"j", "jal"} => 4 * code[k].imm < RegionSize

CodeFits == 4 * Len(code) <= CodeMax

(* One round of the loop in forward code goes on behind the instruction, at*)
(* an instruction or past the end, or is the last.                         *)
MovesOn ==
  Looping /\ ForwardCode /\ FieldsFit /\ AtInstruction =>
    \/ ~Looping'
    \/ code' = code /\ pc' > pc /\ (PastEnd' \/ AtInstruction')

(* The loader takes no binary larger than CodeMax.                         *)
LEMMA CodeStaysFit == Typed /\ CodeFits /\ [Next]_vars => CodeFits'
<1> SUFFICES ASSUME Typed, CodeFits, [Next]_vars PROVE CodeFits'
  OBVIOUS
<1>1. code' = code => CodeFits'
  BY DEF CodeFits
<1>2. CASE Step
  BY <1>1, <1>2 DEF Step, Execute, RegAlu, ImmAlu, Move, Multiply, DivideByZero, Fault, Divide,
     DivideKills, Trap, Skip, UnknownSpecial, UnknownOpcode, Break, Branch, Jump,
     JumpRegister, LoadMem, StoreMem, AccessViolation, SysExit, SysOutput,
     SysStub, SysSbrk, SysUnknown, host
<1>3. CASE LeaveCode \/ Run \/ UNCHANGED vars
  BY <1>1, <1>3 DEF LeaveCode, FallOff, WildFetch, Run, vars, host
<1>4. CASE Load
  BY <1>1, <1>4 DEF Load, Accepted, CodeFits
<1>5. CASE VmInit
  <2>1. Len(<< >>) = 0 /\ CodeMax \in Nat
    BY CodeIsLow
  <2> QED
    BY <1>5, <2>1 DEF VmInit, CodeFits
<1> QED
  BY <1>2, <1>3, <1>4, <1>5 DEF Next

(* Where one instruction of forward code leads.                            *)
LEMMA ForwardTarget ==
  ASSUME Typed, CodeFits, ForwardCode, FieldsFit, AtInstruction, ~PastEnd,
         Execute(Current)
  PROVE  \/ error' \/ halted' \/ ~alive'
         \/ /\ pc' \in Int /\ pc' > pc
            /\ pc' % 4 = 0 /\ pc' + 4 < W
<1> DEFINE i == Current
           k == pc \div 4 + 1
<1>1. /\ pc \in Nat /\ pc = 4 * (k - 1) /\ pc % 4 = 0 /\ k \in Nat
      /\ k \in 1 .. Len(code) /\ code \in Seq(Instrs) /\ Len(code) \in Nat
      /\ pc + 4 <= CodeMax
  <2>1. pc \in Nat /\ pc % 4 = 0 /\ code \in Seq(Instrs)
    BY WordSizes DEF Typed, TypeOK, AtInstruction, Word
  <2>2. pc + 4 <= 4 * Len(code) /\ 4 * Len(code) <= CodeMax /\ Len(code) \in Nat /\ CodeMax \in Nat
    BY <2>1, CodeIsLow DEF CodeFits, AtInstruction, InBinary, CodeBytes
  <2>3. pc = 4 * (pc \div 4) + (pc % 4) /\ pc \div 4 \in Nat
    BY <2>1, ByFour, Zenon
  <2> DEFINE j == pc \div 4
  <2>4. k = j + 1
    OBVIOUS
  <2> HIDE DEF k, j
  <2>5. j \in Nat /\ pc = 4 * j
    BY <2>1, <2>3 DEF j
  <2> QED
    BY <2>1, <2>2, <2>4, <2>5
<1>2. /\ i = code[k] /\ i \in Instruction /\ i.imm \in Int
  <2>1. i \in Instruction
    BY FetchedAreInstructions DEF Typed, Fetched
  <2> QED
    BY <2>1 DEF Current, Instruction
<1>3. /\ CodeMax \in Nat /\ RegionSize \in Nat \ {0} /\ CodeMax < RegionSize /\ CodeMax + 8 < W
      /\ W \in Nat /\ RegionSize < W
  BY CodeIsLow, MipsVMAssumption, WordSizes
<1>4. /\ i.op \in BranchOps \union LinkBranchOps => i.imm >= 0 /\ CodeMax + 4 * i.imm + 4 < W
      /\ i.op \in {"j", "jal"} => i.imm >= k /\ 4 * i.imm < RegionSize
      /\ i.op \notin {"jr", "jalr"}
  <2>1. Forward(k)
    BY <1>1 DEF ForwardCode
  <2> HIDE DEF k
  <2> QED
    BY <1>1, <1>2, <2>1 DEF FieldsFit, Forward, BranchOps, LinkBranchOps
<1> HIDE DEF i, k
<1>5. \A n \in Int : 0 <= n /\ n < W => ToWord(n) = n
  BY WordSizes, Fits
<1> DEFINE Further(p) == p \in Int /\ p > pc /\ p % 4 = 0 /\ p + 4 < W
<1> DEFINE Fours == \A n \in Nat : (4 * n) % 4 = 0
<1>20. Fours
  OBVIOUS
<1> HIDE DEF Fours
<1>6. Further(Next4)
  <2>1. Next4 = 4 * k /\ pc = 4 * (k - 1) /\ k \in Nat
    <3>1. 0 <= pc + 4 /\ pc + 4 < W /\ pc + 4 \in Int /\ pc + 4 = 4 * k
      BY <1>1, <1>3
    <3> QED
      BY <1>1, <1>5, <3>1 DEF Next4
  <2>2. (4 * k) % 4 = 0
    BY <1>20, <2>1 DEF Fours
  <2>3. 4 * k \in Int /\ 4 * k > pc /\ 4 * k + 4 < W
    BY <1>1, <1>3
  <2> QED
    BY <2>1, <2>2, <2>3
<1>7. ASSUME i.op \in BranchOps \union LinkBranchOps PROVE Further(BranchTarget(i))
  <2>1. i.imm \in Nat /\ 4 * i.imm + CodeMax + 4 < W
    BY <1>2, <1>3, <1>4, <1>7
  <2>2. BranchTarget(i) = pc + 4 + 4 * i.imm
    BY <1>1, <1>3, <1>5, <2>1 DEF BranchTarget
  <2>3. pc + 4 + 4 * i.imm = 4 * (k + i.imm) /\ k + i.imm \in Nat
    BY <1>1, <2>1
  <2>4. (4 * (k + i.imm)) % 4 = 0
    BY <1>20, <2>3 DEF Fours
  <2>5. pc + 4 + 4 * i.imm \in Int /\ pc + 4 + 4 * i.imm > pc /\ pc + 4 + 4 * i.imm + 4 < W
    <3>1. pc \in Nat /\ pc + 4 <= CodeMax /\ CodeMax \in Nat /\ 4 * i.imm \in Nat /\ W \in Nat
      BY <1>1, <1>3, <2>1
    <3> DEFINE f == 4 * i.imm
    <3>2. f + CodeMax + 4 < W
      BY <2>1
    <3> HIDE DEF f
    <3>3. pc + 4 + f \in Int /\ pc + 4 + f > pc /\ pc + 4 + f + 4 < W
      BY <3>1, <3>2 DEF f
    <3> QED
      BY <3>3 DEF f
  <2> QED
    BY <2>2, <2>3, <2>4, <2>5
<1>8. ASSUME i.op \in {"j", "jal"} PROVE Further(JumpTarget(i))
  <2>1. i.imm \in Nat /\ i.imm >= k /\ 4 * i.imm < RegionSize
    BY <1>1, <1>2, <1>4, <1>8
  <2>2. \A n \in 0 .. RegionSize - 1 : n % RegionSize = n
    BY <1>3
  <2>3. pc % RegionSize = pc /\ (4 * i.imm) % RegionSize = 4 * i.imm
    <3>1. pc \in 0 .. RegionSize - 1 /\ 4 * i.imm \in 0 .. RegionSize - 1
      BY <1>1, <1>3, <2>1
    <3> QED
      BY <2>2, <3>1
  <2>4. JumpTarget(i) = 4 * i.imm
    BY <1>1, <2>1, <2>3 DEF JumpTarget
  <2>5. (4 * i.imm) % 4 = 0
    BY <1>20, <2>1 DEF Fours
  <2>6. 4 * i.imm + 4 < W
    <3>1. RegionSize + 4 < W
      <4>1. W % RegionSize = 0 /\ RegionSize > 8
        BY MipsVMAssumption
      <4>2. W = RegionSize * (W \div RegionSize) /\ W \div RegionSize \in Int
        BY <1>3, <4>1
      <4>3. \A g, q \in Int : g > 0 /\ g < g * q => q >= 2
        OBVIOUS
      <4>4. \A g, q \in Int : g > 0 /\ q >= 2 => 2 * g <= g * q
        OBVIOUS
      <4>5. W \div RegionSize >= 2
        BY <1>3, <4>2, <4>3
      <4> QED
        BY <1>3, <4>1, <4>2, <4>4, <4>5
    <3> QED
      BY <1>3, <2>1, <3>1
  <2> QED
    BY <1>1, <2>1, <2>4, <2>5, <2>6
<1> HIDE DEF Further
<1>9. pc' = Next4 => Further(pc')
  BY <1>6
<1>10. CASE Branch(i)
  <2>1. i.op \in {"regimm?"} => ~BranchTaken(i)
    BY DEF BranchTaken
  <2>2. (pc' = BranchTarget(i) /\ i.op \in BranchOps \union LinkBranchOps) \/ pc' = Next4
    BY <1>10, <2>1 DEF Branch
  <2> QED
    BY <1>7, <1>9, <2>2 DEF Further
<1>11. CASE Jump(i)
  BY <1>8, <1>11 DEF Jump, Further
<1>12. CASE JumpRegister(i)
  BY <1>4, <1>12 DEF JumpRegister
<1>13. CASE UnknownOpcode(i) \/ DivideKills(i)
  BY <1>13 DEF UnknownOpcode, DivideKills
<1>14. CASE pc' = Next4
  BY <1>9, <1>14 DEF Further
<1> QED
  BY <1>10, <1>11, <1>12, <1>13, <1>14 DEF Execute, i, RegAlu, ImmAlu, Move, Multiply, DivideByZero,
     Fault, Divide, Trap, Skip, UnknownSpecial, Break, LoadMem, StoreMem, AccessViolation,
     SysExit, SysOutput, SysStub, SysSbrk, SysUnknown

(* The step in which the loop goes on is the execution of one instruction. *)
LEMMA MovesOnStep == Typed /\ CodeFits /\ Typed' /\ [Next]_vars => [MovesOn]_vars
<1> SUFFICES ASSUME Typed, Typed', CodeFits, Next,
                    Looping, ForwardCode, FieldsFit, AtInstruction, Looping'
             PROVE  code' = code /\ pc' > pc /\ (PastEnd' \/ AtInstruction')
  BY DEF MovesOn
<1>1. ~PastEnd
  <2>1. pc + 4 \in Int /\ 0 <= pc + 4 /\ pc + 4 <= CodeBytes /\ CodeBytes <= CodeMax
    <3>1. pc \in Nat
      BY WordSizes DEF Typed, TypeOK, Word
    <3> QED
      BY <3>1 DEF CodeFits, AtInstruction, InBinary, CodeBytes
  <2>3. CodeBytes \in Int
    BY DEF CodeBytes, Typed, TypeOK
  <2>2. ToWord(pc + 4) = pc + 4
    BY <2>1, <2>3, CodeIsLow
  <2> QED
    BY <2>1, <2>2, <2>3 DEF PastEnd
<1>2. Step
  <2>1. ~LeaveCode
    BY <1>1 DEF LeaveCode, WildFetch, AtInstruction
  <2> QED
    BY <2>1 DEF Next, Load, Run, VmInit
<1>3. Execute(Current)
  BY <1>2 DEF Step, Fetched
<1>4. code' = code
  BY <1>3 DEF Execute, RegAlu, ImmAlu, Move, Multiply, DivideByZero, Fault, Divide,
     DivideKills, Trap, Skip, UnknownSpecial, UnknownOpcode, Break, Branch, Jump,
     JumpRegister, LoadMem, StoreMem, AccessViolation, SysExit, SysOutput,
     SysStub, SysSbrk, SysUnknown, host
<1>5. pc' \in Int /\ pc' > pc /\ pc' % 4 = 0 /\ pc' + 4 < W
  BY <1>1, <1>3, ForwardTarget DEF Looping
<1>8. pc' \in Int /\ pc' > pc /\ pc' + 4 < W
  BY <1>5
<1>6. ToWord(pc' + 4) = pc' + 4
  <2>1. pc \in Nat
    BY WordSizes DEF Typed, TypeOK, Word
  <2>2. \A p \in Nat, q \in Int : q > p => q + 4 \in Int /\ 0 <= q + 4
    OBVIOUS
  <2>3. pc' + 4 \in Int /\ 0 <= pc' + 4 /\ pc' + 4 < W
    BY <1>8, <2>1, <2>2, Zenon
  <2> QED
    BY <2>3, Fits
<1>7. PastEnd' \/ AtInstruction'
  <2>1. PastEnd' <=> pc' + 4 > CodeBytes'
    BY <1>6 DEF PastEnd, ToWord
  <2>2. AtInstruction' <=> pc' + 4 <= CodeBytes' /\ pc' % 4 = 0
    BY DEF AtInstruction, InBinary
  <2>3. CodeBytes' \in Int
    BY DEF CodeBytes, Typed, TypeOK
  <2>4. pc' + 4 \in Int
    BY <1>8
  <2>5. pc' + 4 > CodeBytes' \/ pc' + 4 <= CodeBytes'
    BY <2>3, <2>4
  <2> QED
    BY <1>5, <2>1, <2>2, <2>5, Zenon
<1> QED
  BY <1>4, <1>7, <1>8

(* What ForwardRunsEnd rests on: in code whose transfers go forward every  *)
(* round of mips_vm_run goes on further down the binary, never into the    *)
(* middle of an instruction, or is the last.                               *)
THEOREM ForwardMovesOn == Spec => [][MovesOn]_vars
<1>1. Init => CodeFits
  <2>1. Len(<< >>) = 0 /\ CodeMax \in Nat
    BY CodeIsLow
  <2> QED
    BY <2>1 DEF Init, CodeFits
<1> QED
  BY <1>1, CodeStaysFit, MovesOnStep, TypedAlways, PTL DEF Spec
=============================================================================
