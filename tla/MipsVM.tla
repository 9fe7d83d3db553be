------------------------------- MODULE MipsVM -------------------------------
(***************************************************************************)
(* The C interpreter, src/src/c/mips_vm.c: the host loads a flat binary    *)
(* (mips_vm_load), enters the run loop (mips_vm_run), and the loop executes*)
(* one instruction per iteration (mips_vm_step) until the machine halts or *)
(* faults.  Instructions are the records mips_decode builds; one action    *)
(* stands for the cases of the step function's switch that have the same   *)
(* control.                                                                *)
(*                                                                         *)
(* Left out: the text printed by the output system calls, the trace        *)
(* listing, and the fields nothing reads back (sp, csp, call_stack, the    *)
(* string pool; vm_push and vm_pop have no caller).                        *)
(***************************************************************************)
EXTENDS Words, Sequences

CONSTANTS
  StackWords,   \* MIPS_STACK_SIZE
  HeapSize,     \* MIPS_HEAP_SIZE
  CodeMax,      \* MIPS_CODE_MAX, in bytes
  RegionSize,   \* what a 26-bit jump target spans: 2^28 in the code
  Regs,         \* the registers the programs name: 0 .. 31 in the code
  Instrs,       \* the decoded instructions a program is made of
  StrayInstrs,  \* bound: what a fetch that hits no instruction may decode to
  Programs,     \* the binaries the host may try to load
  MaxLoads,     \* bound: calls of mips_vm_load per behaviour
  MaxCalls      \* bound: calls of mips_vm_run and mips_vm_init per behaviour

Zero == 0
V0   == 2
A0   == 4
SP   == 29
RA   == 31

RegOps == {"add", "addu", "sub", "subu", "and", "or", "xor", "nor", "slt",
           "sltu", "sll", "srl", "sra", "sllv", "srlv", "srav", "mul"}
ImmOps == {"addi", "addiu", "slti", "sltiu", "andi", "ori", "xori", "lui"}
MoveOps == {"movz", "movn", "mfhi", "mflo", "mthi", "mtlo"}
MulDivOps == {"mult", "multu", "div", "divu"}
TrapOps == {"tge", "tgeu", "tlt", "tltu", "teq", "tne"}
BranchOps == {"beq", "bne", "blez", "bgtz", "bltz", "bgez", "bltzl", "bgezl"}
LinkBranchOps == {"bltzal", "bgezal"}
JumpOps == {"j", "jal", "jr", "jalr"}
LoadOps == {"lw", "lb", "lbu", "lh", "lhu"}
StoreOps == {"sw", "sb", "sh"}

(* "special?" is an unknown SPECIAL or SPECIAL2 function code, "regimm?"   *)
(* an unknown REGIMM condition and "opcode?" an opcode without a case.     *)
Ops == RegOps \union ImmOps \union MoveOps \union MulDivOps \union TrapOps
       \union BranchOps \union LinkBranchOps \union JumpOps \union LoadOps
       \union StoreOps
       \union {"syscall", "break", "special?", "regimm?", "opcode?"}

Instruction ==
  [op : Ops, rs : Regs, rt : Regs, rd : Regs, shamt : 0 .. WordBits - 1, imm : Int]

StackBytes == 4 * StackWords

ASSUME MipsVMAssumption ==
  /\ StackWords \in Nat \ {0}
  /\ 2 * (StackBytes + 4) <= W
  /\ HeapSize \in Nat
  /\ 2 * HeapSize < W
  /\ CodeMax \in Nat
  /\ RegionSize \in Nat /\ RegionSize > 8
  /\ W % RegionSize = 0
  /\ CodeMax < RegionSize /\ RegionSize < W
  /\ Regs \subseteq 0 .. 31
  /\ {Zero, V0, A0, SP, RA} \subseteq Regs
  /\ Instrs \subseteq Instruction
  /\ StrayInstrs \subseteq Instrs
  /\ Programs \subseteq Seq(Instrs)
  /\ MaxLoads \in Nat /\ MaxCalls \in Nat

VARIABLES
  regs, hi, lo,               \* register file and the HI / LO pair
  stack,                      \* stack memory, by word
  heap_used,                  \* the program break
  pc, code,                   \* program counter (bytes), loaded program
  running, halted, error,     \* status flags
  alive,                      \* FALSE once the host process was killed by a signal
  loads, calls                \* host calls made so far

data   == <<regs, hi, lo, stack, heap_used>>
flags  == <<running, halted, error>>
host   == <<code, alive, loads, calls>>
vars   == <<data, pc, flags, host>>

-----------------------------------------------------------------------------
(* vm_create allocates the pools and calls mips_vm_init.                  *)
Init ==
  /\ regs = [r \in Regs |-> IF r = SP THEN StackBytes ELSE 0]
  /\ hi = 0 /\ lo = 0
  /\ stack = [w \in 0 .. StackWords - 1 |-> 0]
  /\ heap_used = 0
  /\ pc = 0
  /\ code = << >>
  /\ running = FALSE /\ halted = FALSE /\ error = FALSE
  /\ alive = TRUE
  /\ loads = 0 /\ calls = 0

(* The condition of the run loop.                                          *)
Looping == alive /\ running /\ ~halted /\ ~error

VmInit ==
  /\ alive /\ ~Looping
  /\ calls < MaxCalls /\ calls' = calls + 1
  /\ regs' = [r \in Regs |-> IF r = SP THEN StackBytes ELSE 0]
  /\ hi' = 0 /\ lo' = 0
  /\ stack' = [w \in 0 .. StackWords - 1 |-> 0]
  /\ heap_used' = 0
  /\ pc' = 0
  /\ code' = << >>
  /\ running' = FALSE /\ halted' = FALSE /\ error' = FALSE
  /\ UNCHANGED <<alive, loads>>

(* Empty and oversized binaries are refused and change nothing; loading    *)
(* neither clears the status flags nor touches memory.                     *)
Accepted(p) == p # << >> /\ 4 * Len(p) <= CodeMax

Load ==
  /\ alive /\ ~Looping
  /\ loads < MaxLoads /\ loads' = loads + 1
  /\ \E p \in Programs :
       IF Accepted(p) THEN code' = p /\ pc' = 0 ELSE UNCHANGED <<code, pc>>
  /\ UNCHANGED <<data, flags, alive, calls>>

(* Entering mips_vm_run: the flags and $sp are reset, pc is not.           *)
Run ==
  /\ alive /\ ~Looping
  /\ calls < MaxCalls /\ calls' = calls + 1
  /\ running' = TRUE /\ halted' = FALSE /\ error' = FALSE
  /\ regs' = [regs EXCEPT ![SP] = StackBytes]
  /\ UNCHANGED <<hi, lo, stack, heap_used, pc, code, alive, loads>>

-----------------------------------------------------------------------------
(* Fetch.  The bounds test is made on a 32-bit sum: pc + 4 wraps to a small*)
(* number for the last four values of pc, and the bytes read then lie      *)
(* outside the binary.  A misaligned pc reads a word made of two           *)
(* neighbouring instructions: any member of StrayInstrs.                   *)
CodeBytes == 4 * Len(code)

PastEnd  == ToWord(pc + 4) > CodeBytes
InBinary == pc + 4 <= CodeBytes

AtInstruction == InBinary /\ pc % 4 = 0

Current == code[pc \div 4 + 1]

Fetched == IF AtInstruction THEN {Current} ELSE StrayInstrs

FallOff ==
  /\ Looping
  /\ PastEnd
  /\ halted' = TRUE /\ running' = FALSE
  /\ UNCHANGED <<data, pc, error, host>>

(* Reading outside the binary may hit an unmapped page.                    *)
WildFetch ==
  /\ Looping
  /\ ~PastEnd /\ ~InBinary
  /\ alive' = FALSE
  /\ UNCHANGED <<data, pc, flags, code, loads, calls>>

LeaveCode == IF PastEnd THEN FallOff ELSE WildFetch

-----------------------------------------------------------------------------
(* $zero is forced to 0 before the switch and again after it.              *)
R(r) == IF r = Zero THEN 0 ELSE regs[r]

Set(r, v) == regs' = [regs EXCEPT ![r] = ToWord(v), ![Zero] = 0]

Next4 == ToWord(pc + 4)
Link  == ToWord(pc + 8)

(* Mutant of BranchTarget: relative to the branch, not to its successor.   *)
BranchTargetFromBranch(i) == ToWord(pc + 4 * i.imm)

BranchTarget(i) == ToWord(pc + 4 + 4 * i.imm)

(* The jump target replaces all but the top four bits of pc.               *)
JumpTarget(i) == pc - (pc % RegionSize) + ((4 * i.imm) % RegionSize)

UImm(i) == i.imm % HalfBase

RegResult(i, a, b) ==
  CASE i.op \in {"add", "addu"} -> a + b
    [] i.op \in {"sub", "subu"} -> a - b
    [] i.op = "and"  -> BitAnd(a, b)
    [] i.op = "or"   -> BitOr(a, b)
    [] i.op = "xor"  -> BitXor(a, b)
    [] i.op = "nor"  -> BitNor(a, b)
    [] i.op = "slt"  -> Truth(Signed(a) < Signed(b))
    [] i.op = "sltu" -> Truth(a < b)
    [] i.op = "sll"  -> b * 2 ^ i.shamt
    [] i.op = "srl"  -> b \div 2 ^ i.shamt
    [] i.op = "sra"  -> Signed(b) \div 2 ^ i.shamt
    [] i.op = "sllv" -> b * 2 ^ (a % WordBits)
    [] i.op = "srlv" -> b \div 2 ^ (a % WordBits)
    [] i.op = "srav" -> Signed(b) \div 2 ^ (a % WordBits)
    [] i.op = "mul"  -> Signed(a) * Signed(b)

ImmResult(i, a) ==
  CASE i.op \in {"addi", "addiu"} -> a + i.imm
    [] i.op = "slti"  -> Truth(Signed(a) < i.imm)
    [] i.op = "sltiu" -> Truth(a < UImm(i))
    [] i.op = "andi"  -> BitAnd(a, UImm(i))
    [] i.op = "ori"   -> BitOr(a, UImm(i))
    [] i.op = "xori"  -> BitXor(a, UImm(i))
    [] i.op = "lui"   -> i.imm * HalfBase

RegAlu(i) ==
  /\ i.op \in RegOps
  /\ Set(i.rd, RegResult(i, R(i.rs), R(i.rt)))
  /\ pc' = Next4
  /\ UNCHANGED <<hi, lo, stack, heap_used, flags, host>>

ImmAlu(i) ==
  /\ i.op \in ImmOps
  /\ Set(i.rt, ImmResult(i, R(i.rs)))
  /\ pc' = Next4
  /\ UNCHANGED <<hi, lo, stack, heap_used, flags, host>>

MoveTaken(i) ==
  CASE i.op = "movz" -> R(i.rt) = 0
    [] i.op = "movn" -> R(i.rt) # 0
    [] OTHER         -> TRUE

Move(i) ==
  /\ i.op \in MoveOps
  /\ hi' = IF i.op = "mthi" THEN R(i.rs) ELSE hi
  /\ lo' = IF i.op = "mtlo" THEN R(i.rs) ELSE lo
  /\ CASE i.op = "mfhi" -> Set(i.rd, hi)
       [] i.op = "mflo" -> Set(i.rd, lo)
       [] i.op \in {"movz", "movn"} /\ MoveTaken(i) -> Set(i.rd, R(i.rs))
       [] OTHER -> Set(Zero, 0)
  /\ pc' = Next4
  /\ UNCHANGED <<stack, heap_used, flags, host>>

-----------------------------------------------------------------------------
(* An error raised inside an instruction stops the loop through error      *)
(* alone: running keeps its value and pc moves past the instruction.       *)
Fault ==
  /\ error' = TRUE
  /\ Set(Zero, 0)
  /\ pc' = Next4
  /\ UNCHANGED <<hi, lo, stack, heap_used, running, halted, host>>

(* Mutant of Multiply: the product is computed in 32 bits.                 *)
MultiplyTruncated(i) ==
  /\ i.op \in {"mult", "multu"}
  /\ hi' = 0
  /\ lo' = ToWord(R(i.rs) * R(i.rt))
  /\ Set(Zero, 0)
  /\ pc' = Next4
  /\ UNCHANGED <<stack, heap_used, flags, host>>

Multiply(i) ==
  /\ i.op \in {"mult", "multu"}
  /\ LET a == IF i.op = "mult" THEN Signed(R(i.rs)) ELSE R(i.rs)
         b == IF i.op = "mult" THEN Signed(R(i.rt)) ELSE R(i.rt)
     IN  /\ hi' = ToWord((a * b) \div W)
         /\ lo' = ToWord(a * b)
  /\ Set(Zero, 0)
  /\ pc' = Next4
  /\ UNCHANGED <<stack, heap_used, flags, host>>

(* The one signed quotient that does not fit a word.                       *)
Overflows(i) ==
  /\ i.op = "div"
  /\ 2 * R(i.rs) = W
  /\ R(i.rt) = W - 1

DivideByZero(i) ==
  /\ i.op \in {"div", "divu"}
  /\ R(i.rt) = 0
  /\ Fault

Divide(i) ==
  /\ i.op \in {"div", "divu"}
  /\ R(i.rt) # 0
  /\ LET a == IF i.op = "div" THEN Signed(R(i.rs)) ELSE R(i.rs)
         b == IF i.op = "div" THEN Signed(R(i.rt)) ELSE R(i.rt)
     IN  /\ lo' = ToWord(Quotient(a, b))
         /\ hi' = ToWord(Remainder(a, b))
  /\ Set(Zero, 0)
  /\ pc' = Next4
  /\ UNCHANGED <<stack, heap_used, flags, host>>

(* Undefined in C: the overflowing division wraps, as above, or raises     *)
(* SIGFPE on machines whose divide instruction traps.                      *)
DivideKills(i) ==
  /\ Overflows(i)
  /\ alive' = FALSE
  /\ UNCHANGED <<data, pc, flags, code, loads, calls>>

TrapTaken(i) ==
  LET a == R(i.rs)
      b == R(i.rt)
  IN  CASE i.op = "tge"  -> Signed(a) >= Signed(b)
        [] i.op = "tgeu" -> a >= b
        [] i.op = "tlt"  -> Signed(a) < Signed(b)
        [] i.op = "tltu" -> a < b
        [] i.op = "teq"  -> a = b
        [] i.op = "tne"  -> a # b

(* An instruction whose only effect is to move on.                         *)
Skip ==
  /\ Set(Zero, 0)
  /\ pc' = Next4
  /\ UNCHANGED <<hi, lo, stack, heap_used, flags, host>>

Trap(i) ==
  /\ i.op \in TrapOps
  /\ IF TrapTaken(i) THEN Fault ELSE Skip

UnknownSpecial(i) ==
  /\ i.op = "special?"
  /\ Fault

(* Mutant of UnknownOpcode: the early return without the flags.            *)
UnknownOpcodeIgnored(i) == i.op = "opcode?" /\ UNCHANGED vars

(* The switch's default returns early: pc stays on the instruction.        *)
UnknownOpcode(i) ==
  /\ i.op = "opcode?"
  /\ error' = TRUE /\ running' = FALSE
  /\ regs' = [regs EXCEPT ![Zero] = 0]
  /\ UNCHANGED <<hi, lo, stack, heap_used, pc, halted, host>>

Break(i) ==
  /\ i.op = "break"
  /\ halted' = TRUE /\ running' = FALSE
  /\ Set(Zero, 0)
  /\ pc' = Next4
  /\ UNCHANGED <<hi, lo, stack, heap_used, error, host>>

-----------------------------------------------------------------------------
(* Control transfers take effect at once.                                  *)
BranchTaken(i) ==
  LET a == Signed(R(i.rs))
  IN  CASE i.op = "beq"  -> R(i.rs) = R(i.rt)
        [] i.op = "bne"  -> R(i.rs) # R(i.rt)
        [] i.op = "blez" -> a <= 0
        [] i.op = "bgtz" -> a > 0
        [] i.op \in {"bltz", "bltzl", "bltzal"} -> a < 0
        [] i.op \in {"bgez", "bgezl", "bgezal"} -> a >= 0
        [] OTHER -> FALSE

Branch(i) ==
  /\ i.op \in BranchOps \union LinkBranchOps \union {"regimm?"}
  /\ pc' = IF BranchTaken(i) THEN BranchTarget(i) ELSE Next4
  /\ IF i.op \in LinkBranchOps /\ BranchTaken(i) THEN Set(RA, Link) ELSE Set(Zero, 0)
  /\ UNCHANGED <<hi, lo, stack, heap_used, flags, host>>

Jump(i) ==
  /\ i.op \in {"j", "jal"}
  /\ pc' = JumpTarget(i)
  /\ IF i.op = "jal" THEN Set(RA, Link) ELSE Set(Zero, 0)
  /\ UNCHANGED <<hi, lo, stack, heap_used, flags, host>>

(* JALR writes the link before it reads the target register.               *)
JumpRegister(i) ==
  /\ i.op \in {"jr", "jalr"}
  /\ pc' = IF i.op = "jalr" /\ i.rd = i.rs THEN Link ELSE R(i.rs)
  /\ IF i.op = "jalr" THEN Set(i.rd, Link) ELSE Set(Zero, 0)
  /\ UNCHANGED <<hi, lo, stack, heap_used, flags, host>>

-----------------------------------------------------------------------------
(* Loads and stores reach the stack memory only.  Words are accessed at the*)
(* word the address falls into, halves must be even, bytes are free.       *)
Address(i) == Signed(ToWord(R(i.rs) + i.imm))

Width(i) ==
  CASE i.op \in {"lw", "sw"} -> 4
    [] i.op \in {"lh", "lhu", "sh"} -> 2
    [] i.op \in {"lb", "lbu", "sb"} -> 1

Accessible(i) ==
  /\ Address(i) >= 0
  /\ Address(i) + Width(i) <= StackBytes
  /\ Width(i) = 2 => Address(i) % 2 = 0

WordIndex(i) == Address(i) \div 4
FirstLane(i) == IF Width(i) = 4 THEN 0 ELSE Address(i) % 4

(* Mutant of LoadValue: only bytes are sign-extended.                      *)
LoadValueHalfUnsigned(i) ==
  LET v == GetLanes(stack[WordIndex(i)], FirstLane(i), Width(i))
  IN  IF i.op = "lb" THEN SignExtend(v, LaneBase(1)) ELSE v

LoadValue(i) ==
  LET v == GetLanes(stack[WordIndex(i)], FirstLane(i), Width(i))
  IN  IF i.op \in {"lb", "lh"} THEN SignExtend(v, LaneBase(Width(i))) ELSE v

LoadMem(i) ==
  /\ i.op \in LoadOps
  /\ Accessible(i)
  /\ Set(i.rt, LoadValue(i))
  /\ pc' = Next4
  /\ UNCHANGED <<hi, lo, stack, heap_used, flags, host>>

StoreMem(i) ==
  /\ i.op \in StoreOps
  /\ Accessible(i)
  /\ stack' = [stack EXCEPT ![WordIndex(i)] =
                 ToWord(PutLanes(@, FirstLane(i), Width(i), R(i.rt)))]
  /\ Set(Zero, 0)
  /\ pc' = Next4
  /\ UNCHANGED <<hi, lo, heap_used, flags, host>>

(* Mutant of AccessViolation: a refused access reads as 0.                 *)
AccessViolationClears(i) ==
  /\ i.op \in LoadOps \union StoreOps
  /\ ~Accessible(i)
  /\ error' = TRUE
  /\ Set(i.rt, 0)
  /\ pc' = Next4
  /\ UNCHANGED <<hi, lo, stack, heap_used, running, halted, host>>

AccessViolation(i) ==
  /\ i.op \in LoadOps \union StoreOps
  /\ ~Accessible(i)
  /\ Fault

-----------------------------------------------------------------------------
(* System calls, numbered by $v0.                                          *)
ExitCalls   == {0, 9}
OutputCalls == {1, 2, 6}
StubCalls   == {3, 4, 8}
SbrkCall    == 5

SysExit(i) ==
  /\ i.op = "syscall"
  /\ R(V0) \in ExitCalls
  /\ halted' = TRUE /\ running' = FALSE
  /\ Set(V0, 0)
  /\ pc' = Next4
  /\ UNCHANGED <<hi, lo, stack, heap_used, error, host>>

SysOutput(i) ==
  /\ i.op = "syscall"
  /\ R(V0) \in OutputCalls
  /\ Skip

SysStub(i) ==
  /\ i.op = "syscall"
  /\ R(V0) \in StubCalls
  /\ Set(V0, 0)
  /\ pc' = Next4
  /\ UNCHANGED <<hi, lo, stack, heap_used, flags, host>>

(* heap_used + a0 is unsigned: a negative a0 that would take the break     *)
(* below zero wraps to a number above any heap.                            *)
NewBreak == ToWord(heap_used + R(A0))

(* Mutants of SysSbrk: a signed comparison, and a heap that cannot be full.*)
SysSbrkSigned(i) ==
  /\ i.op = "syscall"
  /\ R(V0) = SbrkCall
  /\ IF heap_used + Signed(R(A0)) > HeapSize
     THEN Set(V0, -1) /\ UNCHANGED heap_used
     ELSE Set(V0, heap_used) /\ heap_used' = heap_used + Signed(R(A0))
  /\ pc' = Next4
  /\ UNCHANGED <<hi, lo, stack, flags, host>>

SysSbrkNeverFull(i) ==
  /\ i.op = "syscall"
  /\ R(V0) = SbrkCall
  /\ IF NewBreak >= HeapSize
     THEN Set(V0, -1) /\ UNCHANGED heap_used
     ELSE Set(V0, heap_used) /\ heap_used' = NewBreak
  /\ pc' = Next4
  /\ UNCHANGED <<hi, lo, stack, flags, host>>

SysSbrk(i) ==
  /\ i.op = "syscall"
  /\ R(V0) = SbrkCall
  /\ IF NewBreak > HeapSize
     THEN Set(V0, -1) /\ UNCHANGED heap_used
     ELSE Set(V0, heap_used) /\ heap_used' = NewBreak
  /\ pc' = Next4
  /\ UNCHANGED <<hi, lo, stack, flags, host>>

SysUnknown(i) ==
  /\ i.op = "syscall"
  /\ R(V0) \notin ExitCalls \union OutputCalls \union StubCalls \union {SbrkCall}
  /\ error' = TRUE /\ running' = FALSE
  /\ Set(Zero, 0)
  /\ pc' = Next4
  /\ UNCHANGED <<hi, lo, stack, heap_used, halted, host>>

-----------------------------------------------------------------------------
Execute(i) ==
  \/ RegAlu(i)
  \/ ImmAlu(i)
  \/ Move(i)
  \/ Multiply(i)
  \/ DivideByZero(i)
  \/ Divide(i)
  \/ DivideKills(i)
  \/ Trap(i)
  \/ UnknownSpecial(i)
  \/ UnknownOpcode(i)
  \/ Break(i)
  \/ Branch(i)
  \/ Jump(i)
  \/ JumpRegister(i)
  \/ LoadMem(i)
  \/ StoreMem(i)
  \/ AccessViolation(i)
  \/ SysExit(i)
  \/ SysOutput(i)
  \/ SysStub(i)
  \/ SysSbrk(i)
  \/ SysUnknown(i)

Step == Looping /\ ~PastEnd /\ \E i \in Fetched : Execute(i)

Next ==
  \/ Step
  \/ LeaveCode
  \/ Load
  \/ Run
  \/ VmInit

Spec == Init /\ [][Next]_vars

-----------------------------------------------------------------------------
(* The machine's registers, memory and program counter are words, the break*)
(* lies in the heap and a loaded program is one mips_vm_load accepts.      *)
TypeOK ==
  /\ regs \in [Regs -> Word]
  /\ hi \in Word /\ lo \in Word
  /\ stack \in [0 .. StackWords - 1 -> Word]
  /\ heap_used \in 0 .. HeapSize
  /\ pc \in Word
  /\ code \in Seq(Instrs)
  /\ running \in BOOLEAN /\ halted \in BOOLEAN /\ error \in BOOLEAN
  /\ alive \in BOOLEAN
  /\ loads \in 0 .. MaxLoads /\ calls \in 0 .. MaxCalls

(* $zero reads as 0 between any two instructions, whatever instruction was *)
(* last asked to write it.                                                 *)
ZeroIsZero == regs[Zero] = 0

(* A faulting instruction has no effect on registers, memory, HI/LO or the *)
(* break: whatever a program finds after a fault is what it left there.    *)
FaultChangesNothing ==
  error' /\ ~error => UNCHANGED <<regs, hi, lo, stack, heap_used>>

PreciseFaults == [][FaultChangesNothing]_vars

(* Stack memory, kept and masked by word, is a flat little-endian byte      *)
(* memory: whatever mixture of byte, half and word stores a program makes, *)
(* each changes exactly its own bytes.                                     *)
Bytes == [a \in 0 .. StackBytes - 1 |-> GetLanes(stack[a \div 4], a % 4, 1)]

Flat == INSTANCE ByteMemory
          WITH Size <- StackBytes, Base <- ByteBase, mem <- Bytes

FlatMemory == Flat!Spec

(* ... and every load returns the bytes last stored at its address, sign- or*)
(* zero-extended as its opcode says; a word access drops the low two bits  *)
(* of its address.                                                         *)
LoadsReadBytes ==
  [][ Step /\ AtInstruction /\ Current.op \in LoadOps /\ ~error' /\ Current.rt # Zero =>
        LET n == Width(Current)
            a == IF n = 4 THEN Address(Current) - (Address(Current) % 4)
                          ELSE Address(Current)
            v == Flat!Value(a, n)
        IN  regs'[Current.rt] =
              IF Current.op \in {"lb", "lh"} THEN ToWord(SignExtend(v, ByteBase ^ n))
                                            ELSE v ]_vars

(* sbrk moves the break by exactly $a0 and returns the old one, or returns *)
(* -1 and moves nothing; it refuses exactly the requests whose true sum    *)
(* leaves the heap, although the code compares a wrapped sum.              *)
SbrkMovesExactly ==
  Step /\ AtInstruction /\ Current.op = "syscall" /\ R(V0) = SbrkCall =>
    LET sum == heap_used + Signed(R(A0))
    IN  IF sum \in 0 .. HeapSize
        THEN heap_used' = sum /\ regs'[V0] = heap_used
        ELSE heap_used' = heap_used /\ regs'[V0] = W - 1

SbrkExact == [][SbrkMovesExactly]_vars

(* HI and LO together hold the exact double-word product, and quotient and *)
(* remainder the exact truncating division: they multiply back to the      *)
(* dividend, the remainder is smaller than the divisor and takes the sign  *)
(* of the dividend.  The overflowing division is the one exception.        *)
ExactPair(i) ==
  LET a  == R(i.rs)
      b  == R(i.rt)
      sa == Signed(a)
      sb == Signed(b)
  IN  CASE i.op = "mult"  -> Signed(hi') * W + lo' = sa * sb
        [] i.op = "multu" -> hi' * W + lo' = a * b
        [] i.op = "divu" /\ b # 0 -> lo' * b + hi' = a /\ hi' < b
        [] i.op = "div" /\ b # 0 /\ ~Overflows(i) ->
             /\ Signed(lo') * sb + Signed(hi') = sa
             /\ Magnitude(Signed(hi')) < Magnitude(sb)
             /\ Signed(hi') # 0 => ((Signed(hi') < 0) = (sa < 0))
        [] OTHER -> TRUE

HiLoExact == [][Step /\ AtInstruction => ExactPair(Current)]_vars

(* When every binary keeps its static targets inside itself, jumps through *)
(* no register but the link and writes the link only by linking, the loop  *)
(* never reads outside the binary, nor between two instructions: not after *)
(* a reload over a shorter binary, which leaves registers and link as they *)
(* were, nor after a call in the last instruction, whose link lies behind  *)
(* the end.                                                                *)
Destination(i) ==
  CASE i.op \in RegOps \union {"movz", "movn", "mfhi", "mflo"} -> i.rd
    [] i.op \in ImmOps \union LoadOps -> i.rt
    [] OTHER -> Zero

Contained(p) ==
  \A k \in 1 .. Len(p) :
    /\ Destination(p[k]) # RA
    /\ p[k].op \in BranchOps \union LinkBranchOps => k + p[k].imm \in 0 .. Len(p)
    /\ p[k].op \in {"j", "jal"} => p[k].imm \in 0 .. Len(p)
    /\ p[k].op \in {"jr", "jalr"} => p[k].rs = RA

AllContained == \A p \in Programs : Contained(p)

FetchStaysInBinary == AllContained /\ Looping => PastEnd \/ AtInstruction

(* Code whose transfers all go forward: every instruction moves on or stops*)
(* the loop.                                                               *)
Forward(k) ==
  CASE code[k].op \in BranchOps \union LinkBranchOps -> code[k].imm >= 0
    [] code[k].op \in {"j", "jal"} -> code[k].imm >= k
    [] code[k].op \in {"jr", "jalr"} -> FALSE
    [] OTHER -> TRUE

ForwardCode == \A k \in 1 .. Len(code) : Forward(k)
=============================================================================
