------------------------------ MODULE MipsAsm ------------------------------
(***************************************************************************)
(* The two-pass assembler of src/src/c/mips_asm.c.  mips_asm_assemble goes *)
(* over the source twice, calling mips_asm_assemble_line for every line:   *)
(* pass 0 counts bytes and collects labels, pass 1 emits code and enters   *)
(* the labels again, at the place they then have.                          *)
(*                                                                         *)
(* A line is what its text parses to: the label it defines, if any, and a  *)
(* statement.  Mnemonics with the same size, operands and errors share one *)
(* op.  Parsing, register names and encodings are left out, except for the *)
(* fields a label or a constant is put into.                               *)
(***************************************************************************)
EXTENDS Integers, Sequences, FiniteSets

CONSTANTS
  CodeMax,      \* MIPS_CODE_MAX, in bytes
  LabelsMax,    \* MIPS_LABELS_MAX
  HalfBase,     \* 2^16: the range of an immediate
  Origin,       \* the argument of mips_asm_init: 0 in the command line
  Names,        \* label names
  Lines,        \* the lines sources are made of
  Sources       \* the source files

NoName == "no name"

Ops == {"blank",                \* a label alone, or a directive without effect
        "word", "byte",         \* .word, .byte
        "string", "space",      \* .ascii and .asciiz, .space, of num bytes
        "plain",                \* an instruction without label or constant
        "li",                   \* li of num, or la of ref
        "branch", "jump",       \* to ref
        "unknown",              \* an unknown mnemonic or bad operand
        "bad_number"}           \* a .word, .byte or .space of no number

ASSUME AsmAssumption ==
  /\ CodeMax \in Nat /\ LabelsMax \in Nat /\ Origin \in Nat
  /\ HalfBase \in Nat \ {0} /\ HalfBase % 2 = 0
  /\ NoName \notin Names
  /\ Lines \subseteq [def : Names \union {NoName}, op : Ops, num : Nat,
                      ref : Names \union {NoName}]
  /\ \A l \in Lines : l.op \in {"branch", "jump"} => l.ref # NoName
  /\ Sources \subseteq Seq(Lines)

VARIABLES
  source,       \* the argument of mips_asm_assemble
  pass,         \* st->pass
  next,         \* the line to be read
  labels,       \* st->labels: name -> addr
  code_len,     \* st->code_len
  code,         \* st->code, byte by byte
  result        \* what mips_asm_assemble returns: "none" while it runs

vars == <<source, pass, next, labels, code_len, code, result>>

(* A byte of the output: the first of an instruction carries its op and the*)
(* value put into its field, and each remembers line and label it is from. *)
Cell(l, op, v) == [line |-> next, op |-> op, val |-> v, ref |-> l.ref]
Byte(l)       == Cell(l, "byte", 0)

-----------------------------------------------------------------------------
Init ==
  /\ source \in Sources
  /\ pass = 0
  /\ next = 1
  /\ labels = << >>
  /\ code_len = 0
  /\ code = << >>
  /\ result = "none"

Here == code_len + Origin

(* Mutant of AddLabel: a label that is there keeps its address.            *)
AddLabelOnce(n) ==
  IF n \notin DOMAIN labels /\ Cardinality(DOMAIN labels) < LabelsMax
  THEN [m \in DOMAIN labels \union {n} |-> IF m = n THEN Here ELSE labels[m]]
  ELSE labels

AddLabel(n) ==
  IF n \in DOMAIN labels \/ Cardinality(DOMAIN labels) < LabelsMax
  THEN [m \in DOMAIN labels \union {n} |-> IF m = n THEN Here ELSE labels[m]]
  ELSE labels

(* The table a line's own statement sees.                                  *)
Labelled(l) == IF l.def = NoName THEN labels ELSE AddLabel(l.def)

Reading(p) == result = "none" /\ pass = p /\ next <= Len(source)

Advance == next' = next + 1 /\ UNCHANGED <<source, pass, result>>

Fail == result' = "error" /\ UNCHANGED <<source, pass, next, code_len, code>>

(* Mutant of Counted: li and la reserve the space of two instructions.     *)
CountedForTwo(l) ==
  CASE l.op \in {"blank", "byte"}   -> 0
    [] l.op \in {"string", "space"} -> l.num
    [] l.op = "li"                  -> 8
    [] OTHER                        -> 4

(* What pass 0 counts: nothing for .byte, and 4 for any instruction, since *)
(* its shortcut for pass 0 comes before the case of li and la.             *)
Counted(l) ==
  CASE l.op \in {"blank", "byte"}   -> 0
    [] l.op \in {"string", "space"} -> l.num
    [] OTHER                        -> 4

CountLine ==
  /\ Reading(0)
  /\ LET l == source[next]
     IN  /\ labels' = Labelled(l)
         /\ IF l.op = "bad_number"
            THEN Fail
            ELSE /\ code_len' = code_len + Counted(l)
                 /\ Advance
                 /\ UNCHANGED code

SecondPass ==
  /\ result = "none" /\ pass = 0 /\ next > Len(source)
  /\ pass' = 1 /\ next' = 1 /\ code_len' = 0
  /\ UNCHANGED <<source, labels, code, result>>

-----------------------------------------------------------------------------
(* Mutant of Put4: the end of the buffer is not checked.                   *)
Put4Unchecked(c, l, op, v) == c \o <<Cell(l, op, v), Byte(l), Byte(l), Byte(l)>>

(* emit4 drops what does not fit, and so do the loops that emit bytes.     *)
Put4(c, l, op, v) ==
  IF Len(c) + 4 <= CodeMax
  THEN c \o <<Cell(l, op, v), Byte(l), Byte(l), Byte(l)>>
  ELSE c

PutBytes(c, l, n) ==
  LET room == CodeMax - Len(c)
  IN  c \o [k \in 1 .. (IF n <= room THEN n ELSE room) |-> Byte(l)]

(* lui of the upper half unless it is 0, ori of the lower unless only the  *)
(* upper is there.                                                         *)
PutHalves(c, l, v) ==
  LET upper == (v \div HalfBase) % HalfBase
      lower == v % HalfBase
      c1    == IF upper # 0 THEN Put4(c, l, "lui", upper) ELSE c
  IN  IF lower # 0 \/ upper = 0 THEN Put4(c1, l, "ori", lower) ELSE c1

(* An offset is cut to the 16 bits of its field.                           *)
ToImmediate(n) ==
  LET u == n % HalfBase IN IF 2 * u >= HalfBase THEN u - HalfBase ELSE u

Offset(addr) == ToImmediate((addr - (Here + 4)) \div 4)

Emitted(l, table) ==
  CASE l.op = "blank"               -> code
    [] l.op = "byte"                -> PutBytes(code, l, 1)
    [] l.op \in {"string", "space"} -> PutBytes(code, l, l.num)
    [] l.op \in {"word", "plain"}   -> Put4(code, l, l.op, 0)
    [] l.op = "li"                  -> PutHalves(code, l, IF l.ref = NoName THEN l.num
                                                          ELSE table[l.ref])
    [] l.op = "branch"              -> Put4(code, l, "branch", Offset(table[l.ref]))
    [] l.op = "jump"                -> Put4(code, l, "jump", table[l.ref] \div 4)

(* Mutant of Missing: a label at address 0 counts as missing.              *)
MissingAtZero(l, table) ==
  l.ref # NoName /\ (l.ref \notin DOMAIN table \/ table[l.ref] = 0)

Missing(l, table) == l.ref # NoName /\ l.ref \notin DOMAIN table

(* Mutant of EmitLine: a line that emits nothing is read again.            *)
EmitLineStays ==
  /\ Reading(1)
  /\ LET l == source[next]
     IN  /\ labels' = Labelled(l)
         /\ IF l.op \in {"unknown", "bad_number"} \/ Missing(l, Labelled(l))
            THEN Fail
            ELSE /\ code' = Emitted(l, Labelled(l))
                 /\ code_len' = Len(code')
                 /\ IF l.op = "blank" THEN UNCHANGED <<source, pass, result, next>> ELSE Advance

EmitLine ==
  /\ Reading(1)
  /\ LET l == source[next]
     IN  /\ labels' = Labelled(l)
         /\ IF l.op \in {"unknown", "bad_number"} \/ Missing(l, Labelled(l))
            THEN Fail
            ELSE /\ code' = Emitted(l, Labelled(l))
                 /\ code_len' = Len(code')
                 /\ Advance

Return ==
  /\ result = "none" /\ pass = 1 /\ next > Len(source)
  /\ result' = "ok"
  /\ UNCHANGED <<source, pass, next, labels, code_len, code>>

Next ==
  \/ CountLine
  \/ SecondPass
  \/ EmitLine
  \/ Return

(* The assembler is a loop in the caller's thread.                         *)
Spec == Init /\ [][Next]_vars /\ WF_vars(Next)

-----------------------------------------------------------------------------
(* The output stays in its buffer, the table in its size, and in pass 1    *)
(* code_len is the length of what was emitted.                             *)
TypeOK ==
  /\ source \in Seq(Lines)
  /\ pass \in {0, 1}
  /\ next \in 1 .. Len(source) + 1
  /\ DOMAIN labels \subseteq Names /\ Cardinality(DOMAIN labels) <= LabelsMax
  /\ \A n \in DOMAIN labels : labels[n] \in Nat
  /\ code_len \in Nat
  /\ IF pass = 0 THEN code = << >> ELSE code_len = Len(code) /\ code_len <= CodeMax
  /\ result \in {"none", "ok", "error"}

Defines(k, n) == source[k].def = n

Unique ==
  \A j, k \in 1 .. Len(source) : source[j].def = source[k].def /\ j # k => source[j].def = NoName

(* Where the output of line k begins.                                      *)
Place(k) == Origin + Cardinality({a \in DOMAIN code : code[a].line < k})

DefinedAt(n) == CHOOSE k \in 1 .. Len(source) : Defines(k, n)

(* The reference in the instruction at a reaches the line of its label: for*)
(* lui and ori, the half is one of that address.  References no field can  *)
(* hold, to misaligned or distant places, are left out.                    *)
Reaches(a) ==
  LET cell == code[a]
      dest == Place(DefinedAt(cell.ref))
      away == dest - (Origin + a - 1 + 4)
  IN  CASE cell.op = "branch" ->
             away % 4 = 0 /\ ToImmediate(away \div 4) = away \div 4 => 4 * cell.val = away
        [] cell.op = "jump" -> dest % 4 = 0 => 4 * cell.val = dest
        [] cell.op = "lui"  -> cell.val = (dest \div HalfBase) % HalfBase
        [] cell.op = "ori"  -> cell.val = dest % HalfBase
        [] OTHER -> TRUE

References == {a \in DOMAIN code : code[a].ref # NoName}

(* A reference to a label that is already defined is right, whatever the   *)
(* passes disagree about: pass 1 enters every label again.                 *)
BackwardResolved ==
  Unique => \A a \in References : code[a].line >= DefinedAt(code[a].ref) => Reaches(a)

(* The passes agree about a line when it is not a .byte, nor a li or la of *)
(* a value with two halves.                                                *)
Start ==
  LET at[k \in 1 .. Len(source) + 1] ==
        IF k = 1 THEN Origin ELSE at[k - 1] + Counted(source[k - 1])
  IN  at

Constant(l) == IF l.ref = NoName THEN l.num ELSE Start[DefinedAt(l.ref)]

OneHalf(v) == (v \div HalfBase) % HalfBase = 0 \/ v % HalfBase = 0

Steady ==
  /\ Unique
  /\ Start[Len(source) + 1] - Origin <= CodeMax
  /\ \A k \in 1 .. Len(source) :
       LET l == source[k]
       IN  l.op # "byte" /\ (l.op = "li" => OneHalf(Constant(l)))

(* When they agree about every line and the output fits, every reference,  *)
(* forward or backward, is right.                                          *)
SteadyResolved == result = "ok" /\ Steady => \A a \in References : Reaches(a)

(* A source is refused exactly when a line of it is bad or refers to a     *)
(* label that is nowhere defined, or not among the first LabelsMax.        *)
Known ==
  {n \in Names :
     \E k \in 1 .. Len(source) :
       /\ Defines(k, n)
       /\ Cardinality({m \in Names \ {n} : \E j \in 1 .. k - 1 : Defines(j, m)} ) < LabelsMax }

BadLine(l) == l.op \in {"unknown", "bad_number"} \/ l.ref \notin Known \union {NoName}

RefusedExactly ==
  result # "none" =>
    (result = "error") = \E k \in 1 .. Len(source) : BadLine(source[k])

=============================================================================
