--------------------------- MODULE LoadImmediate ---------------------------
(***************************************************************************)
(* The assembler's li and la meet the machine: the instructions the        *)
(* pseudo-instruction stands for (mips_asm.c), run by the interpreter.     *)
(***************************************************************************)
EXTENDS MipsVM

CONSTANTS
  T,          \* the register loaded, not $zero
  Constants   \* the words a program loads

(* Halves of a word, as the signed immediate fields of the encodings.      *)
Upper(v) == SignExtend(v \div HalfBase, HalfBase)
Lower(v) == SignExtend(v % HalfBase, HalfBase)

Immediate(op, s, n) ==
  [op |-> op, rs |-> s, rt |-> T, rd |-> Zero, shamt |-> 0, imm |-> n]

(* An upper half of zero is not loaded, and ori reads the register itself. *)
LiExpansion(v) ==
  (IF Upper(v) # 0 THEN <<Immediate("lui", Zero, Upper(v))>> ELSE << >>)
  \o (IF Lower(v) # 0 \/ Upper(v) = 0 THEN <<Immediate("ori", T, Lower(v))>> ELSE << >>)

(* li $t, a; li $t, b                                                      *)
LoadTwice(a, b) == LiExpansion(a) \o LiExpansion(b)

LoadPrograms == {LoadTwice(a, b) : a \in Constants, b \in Constants}
LoadInstrs   == UNION {{LiExpansion(v)[k] : k \in DOMAIN LiExpansion(v)} : v \in Constants}

-----------------------------------------------------------------------------
(* docs/ASSEMBLER.md lists li as "Load immediate (32-bit)": once both      *)
(* pseudo-instructions have run, the register holds the second constant,   *)
(* whatever the first one left there.                                      *)
LoadsConstant ==
  \A a, b \in Constants :
    code = LoadTwice(a, b) /\ pc = CodeBytes => regs[T] = b
=============================================================================
