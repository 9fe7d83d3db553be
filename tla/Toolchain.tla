----------------------------- MODULE Toolchain -----------------------------
(***************************************************************************)
(* The commands of src/src/c/cli.c that build and list binaries.  emit,    *)
(* compile and cc call external tools through system(), one after the      *)
(* other, with other tools where one fails; compile falls back to the      *)
(* assembler of MipsAsm, which is all of the command asm.  dis lists a     *)
(* binary word by word; here each line is then assembled again, with a     *)
(* label at every address.                                                 *)
(*                                                                         *)
(* A file is what became of the input in it.  A tool may fail at any time  *)
(* and then leaves its output alone, removes it or leaves a part of it.    *)
(***************************************************************************)
EXTENDS MipsAsm, MipsEncode

CONSTANTS
  Written,      \* the sources the command asm is given
  Generated,    \* the sources the external compiler writes
  SampleWords,  \* the words of listed binaries
  SampleTexts,  \* instruction lines
  SampleAddrs,  \* where they are
  LastLabel     \* labels stand at 0 .. LastLabel

Builds == {"emit", "compile", "cc", "cc --save-asm", "asm"}

Paths    == {"input", "asm", "obj", "elf", "bin"}
Contents == {"none", "stale", "fresh", "damaged"}

NoText == Text("", << >>)

ASSUME ToolchainAssumption ==
  /\ Written \subseteq Sources /\ Generated \subseteq Sources /\ << >> \in Sources
  /\ SampleWords \subseteq InstrWord
  /\ \A t \in SampleTexts : t.args \in Seq(Operands)
  /\ SampleAddrs \subseteq Nat /\ LastLabel \in Nat

VARIABLES
  command,      \* argv[1], and --save-asm of cc
  doing,        \* "tools", "read", "assemble", "show", "read back", "done"
  pos,          \* of the tool to be called: stage, attempt, tool
  files,        \* path -> what it holds
  short,        \* fwrite wrote a part of the binary
  exit,         \* the exit code: "none" while the command runs
  word,         \* dis: raw
  at,           \* dis: addr
  text,         \* dis: the line in buf
  back          \* what the assembler makes of text

build_vars == <<command, doing, pos, files, short, exit>>
dis_vars   == <<word, at, text, back>>
tool_vars  == <<vars, build_vars, dis_vars>>

-----------------------------------------------------------------------------
(* The tools of a command: stages, each of attempts, each of calls that    *)
(* are joined by &&.  A stage is over with the first attempt that succeeds.*)
Call(from, to) == [from |-> from, to |-> to]

Assembled == <<Call("asm", "obj"), Call("obj", "bin")>>
Linked    == <<Call("asm", "obj"), Call("obj", "elf"), Call("elf", "bin")>>

Prefixes(call) == << <<call>>, <<call>>, <<call>>, <<call>> >>

Sage == << <<Call("input", "asm")>> >>

Stages ==
  [c \in Builds |->
     CASE c = "emit"          -> <<Sage>>
       [] c = "compile"       -> <<Sage, <<Assembled, Linked, Assembled>> >>
       [] c = "cc"            -> <<Prefixes(Call("input", "bin"))>>
       [] c = "cc --save-asm" -> <<Prefixes(Call("input", "asm")), Prefixes(Call("asm", "bin"))>>
       [] c = "asm"           -> << >>]

Position(s, a, t) == [stage |-> s, attempt |-> a, tool |-> t]

Stage   == Stages[command][pos.stage]
Attempt == Stage[pos.attempt]
Current == Attempt[pos.tool]

(* The file that is announced, and the one the own assembler reads.        *)
Output    == IF command = "emit" THEN "asm" ELSE "bin"
AsmSource == IF command = "asm" THEN "input" ELSE "asm"

-----------------------------------------------------------------------------
(* cmd_assemble, cmd_compile_sage, cmd_compile_c or cmd_disassemble is     *)
(* entered.  Other paths than the input may hold files of an earlier build.*)
Left(c) ==
  IF c = "asm"
  THEN {[p \in Paths |-> IF p = "input" THEN "fresh" ELSE "stale"]}
  ELSE {f \in [Paths -> {"none", "stale", "fresh"}] :
          \A p \in Paths : f[p] # (IF p = "input" THEN "stale" ELSE "fresh")}

StartBuild ==
  /\ command \in Builds
  /\ doing = (IF command = "asm" THEN "read" ELSE "tools")
  /\ source \in (CASE command = "asm" -> Written
                   [] command = "compile" -> Generated
                   [] OTHER -> {<< >>})
  /\ files \in Left(command)
  /\ word = Refused /\ at = 0 /\ text = NoText

StartListing ==
  /\ \/ /\ command = "dis" /\ doing = "show"
        /\ word \in SampleWords /\ text = NoText
     \/ /\ command = "line" /\ doing = "read back"
        /\ text \in SampleTexts /\ word = Refused
  /\ at \in SampleAddrs
  /\ source = << >>
  /\ files = [p \in Paths |-> "none"]

ToolchainInit ==
  /\ StartBuild \/ StartListing
  /\ pos = Position(1, 1, 1)
  /\ short = FALSE
  /\ exit = "none"
  /\ back = Refused
  /\ pass = 0 /\ next = 1 /\ labels = << >> /\ code_len = 0 /\ code = << >> /\ result = "none"

-----------------------------------------------------------------------------
Exit(status) == exit' = status /\ doing' = "done"

ToolSucceeds ==
  /\ doing = "tools" /\ files[Current.from] # "none"
  /\ files' = [files EXCEPT ![Current.to] = files[Current.from]]
  /\ \/ /\ pos.tool < Len(Attempt)
        /\ pos' = [pos EXCEPT !.tool = @ + 1]
        /\ UNCHANGED <<doing, exit>>
     \/ /\ pos.tool = Len(Attempt) /\ pos.stage < Len(Stages[command])
        /\ pos' = Position(pos.stage + 1, 1, 1)
        /\ UNCHANGED <<doing, exit>>
     \/ /\ pos.tool = Len(Attempt) /\ pos.stage = Len(Stages[command])
        /\ Exit("0")
        /\ UNCHANGED pos
  /\ UNCHANGED <<vars, command, short, dis_vars>>

(* Mutant of NextAttempt: the calls of an attempt are joined by ; .        *)
NextAttemptGoesOn ==
  IF pos.tool < Len(Attempt) THEN [pos EXCEPT !.tool = @ + 1]
  ELSE Position(pos.stage, pos.attempt + 1, 1)

NextAttempt == Position(pos.stage, pos.attempt + 1, 1)

(* compile has the own assembler as its last attempt.                      *)
ToolFails ==
  /\ doing = "tools"
  /\ \E left \in {files[Current.to], "none", "damaged"} :
       files' = [files EXCEPT ![Current.to] = left]
  /\ \/ /\ pos.attempt < Len(Stage)
        /\ pos' = NextAttempt
        /\ UNCHANGED <<doing, exit>>
     \/ /\ pos.attempt = Len(Stage) /\ command = "compile" /\ pos.stage = 2
        /\ doing' = "read"
        /\ UNCHANGED <<pos, exit>>
     \/ /\ pos.attempt = Len(Stage) /\ ~(command = "compile" /\ pos.stage = 2)
        /\ Exit("1")
        /\ UNCHANGED pos
  /\ UNCHANGED <<vars, command, short, dis_vars>>

(* cmd_assemble.  A file that cannot be read, or is empty, is an error.    *)
ReadSource ==
  /\ doing = "read"
  /\ \/ files[AsmSource] # "none" /\ doing' = "assemble" /\ UNCHANGED exit
     \/ Exit("1")
  /\ UNCHANGED <<vars, command, pos, files, short, dis_vars>>

AssembleStep ==
  /\ doing = "assemble"
  /\ Next
  /\ UNCHANGED <<build_vars, dis_vars>>

Rejected ==
  /\ doing = "assemble" /\ result = "error"
  /\ Exit("1")
  /\ UNCHANGED <<vars, command, pos, files, short, dis_vars>>

(* write_file looks at the result of fopen only.                           *)
WriteBinary ==
  /\ doing = "assemble" /\ result = "ok"
  /\ \/ Exit("1") /\ UNCHANGED <<files, short>>
     \/ /\ Exit("0")
        /\ \/ files' = [files EXCEPT !["bin"] = files[AsmSource]] /\ UNCHANGED short
           \/ files' = [files EXCEPT !["bin"] = "damaged"] /\ short' = TRUE
  /\ UNCHANGED <<vars, command, pos, dis_vars>>

-----------------------------------------------------------------------------
(* mips_disasm returns without ending the string for an unknown function of*)
(* SPECIAL: what is left in buf from the line before may follow.           *)
ListedAs(w, addr) ==
  {Disasm(w, addr)} \union
    (IF Decode(w).opcode = SPECIAL /\ Disasm(w, addr).mn = Unknown
     THEN {Text(Unknown, <<Operand("leftover", 0, 0)>>)} ELSE {})

(* One round of cmd_disassemble.                                           *)
Show ==
  /\ doing = "show"
  /\ text' \in ListedAs(word, at)
  /\ doing' = "read back"
  /\ UNCHANGED <<vars, command, pos, files, short, exit, word, at, back>>

(* mips_asm_assemble_line of the line, in pass 1.                          *)
ReadBack ==
  /\ doing = "read back"
  /\ back' = AssembleInstruction(text, at, 0 .. LastLabel)
  /\ Exit("0")
  /\ UNCHANGED <<vars, command, pos, files, short, word, at, text>>

ToolchainNext ==
  \/ ToolSucceeds
  \/ ToolFails
  \/ ReadSource
  \/ AssembleStep
  \/ Rejected
  \/ WriteBinary
  \/ Show
  \/ ReadBack

(* The command is the only thread of its process, and system() returns.    *)
ToolchainSpec == ToolchainInit /\ [][ToolchainNext]_tool_vars /\ WF_tool_vars(ToolchainNext)

-----------------------------------------------------------------------------
(* Every command comes to an end.                                          *)
CommandsEnd == <>(exit # "none")

(* What a command that exits with 0 announces is made from the present     *)
(* input, whatever failed on the way and whatever earlier builds left; it  *)
(* is whole unless the own assembler ran out of room, which it ignores.    *)
FreshBinary ==
  exit = "0" /\ command \in Builds =>
    files[Output] = (IF short THEN "damaged" ELSE "fresh")

(* A line of a listing says all of its word: assembled again, it gives the *)
(* word.  The assembler refuses the mnemonics it has no case for, and      *)
(* transfers out of the range of labels.                                   *)
ReadsBack ==
  command = "dis" /\ doing = "done" /\ Executes(word) /\ Canonical(word) =>
    back = (IF text.mn \in NotAssembled \/ ~Reachable(text, 0 .. LastLabel)
            THEN Refused ELSE word)

(* The disassembler has a name for exactly the words the machine executes, *)
(* and the assembler's words are executed and listed under the name they   *)
(* were written with, or that of the instruction a pseudo-instruction is.  *)
NamesAgree ==
  /\ command = "dis" /\ doing # "show" => (text.mn = Unknown <=> ~Executes(word))
  /\ command = "line" /\ back # Refused =>
       /\ Executes(back)
       /\ Disasm(back, at).mn =
            (IF text.mn \in DOMAIN Pseudo THEN Pseudo[text.mn] ELSE text.mn)
=============================================================================
