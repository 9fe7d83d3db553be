-------------------------- MODULE Toolchain_proofs --------------------------
(***************************************************************************)
(* The safety properties of Toolchain: what a listing says of a word, that *)
(* a build which exits with 0 has made its output from the present input,  *)
(* and that the theorems about the assembler hold in every command; and    *)
(* that no command goes on for ever.                                       *)
(***************************************************************************)
EXTENDS Toolchain, MipsEncode_proofs, MipsAsm_proofs

-----------------------------------------------------------------------------
(* Listing and reading back.  The line that is read back is that of the    *)
(* word, except behind "???".                                              *)
ListInv ==
  /\ command \in Builds \union {"dis", "line"}
  /\ command \in Builds => doing \notin {"show", "read back"}
  /\ command = "dis" =>
       /\ word \in InstrWord /\ at \in Nat
       /\ doing \in {"show", "read back", "done"}
       /\ doing # "show" =>
            /\ text.mn = Disasm(word, at).mn
            /\ Executes(word) => text = Disasm(word, at)
       /\ doing = "done" => back = AssembleInstruction(text, at, 0 .. LastLabel)
  /\ command = "line" =>
       /\ text.args \in Seq(Operands) /\ at \in Nat
       /\ doing \in {"read back", "done"}
       /\ back # Refused => back = AssembleInstruction(text, at, 0 .. LastLabel)

LEMMA ListInit == ToolchainInit => ListInv
<1> SUFFICES ASSUME ToolchainInit PROVE ListInv
  OBVIOUS
<1>1. CASE StartBuild
  BY <1>1 DEF StartBuild, ListInv, Builds
<1>2. CASE StartListing
  <2>1. back = Refused /\ at \in Nat /\ command \notin Builds /\ command \in {"dis", "line"}
    BY <1>2, ToolchainAssumption DEF ToolchainInit, StartListing, Builds
  <2>2. command = "dis" => doing = "show" /\ word \in InstrWord
    BY <1>2, ToolchainAssumption DEF StartListing
  <2>3. command = "line" => doing = "read back" /\ text.args \in Seq(Operands)
    BY <1>2, ToolchainAssumption DEF StartListing
  <2> QED
    BY <2>1, <2>2, <2>3 DEF ListInv
<1> QED
  BY <1>1, <1>2 DEF ToolchainInit

LEMMA ListedLine ==
  ASSUME NEW w \in InstrWord, NEW addr, NEW t \in ListedAs(w, addr)
  PROVE  t.mn = Disasm(w, addr).mn /\ (Executes(w) => t = Disasm(w, addr))
<1>1. CASE t = Disasm(w, addr)
  BY <1>1
<1>2. CASE t # Disasm(w, addr)
  <2>1. Disasm(w, addr).mn = Unknown /\ t = Text(Unknown, <<Operand("leftover", 0, 0)>>)
    BY <1>2 DEF ListedAs
  <2>2. t.mn = Unknown /\ ~Executes(w)
    BY <2>1, OperandFields, NamesExecuted
  <2> QED
    BY <2>1, <2>2
<1> QED
  BY <1>1, <1>2

LEMMA ListNext == ListInv /\ [ToolchainNext]_tool_vars => ListInv'
<1> SUFFICES ASSUME ListInv, [ToolchainNext]_tool_vars PROVE ListInv'
  OBVIOUS
<1>1. CASE ToolSucceeds
  BY <1>1 DEF ListInv, ToolSucceeds, Exit, dis_vars, Builds
<1>2. CASE ToolFails
  BY <1>2 DEF ListInv, ToolFails, Exit, dis_vars, Builds
<1>3. CASE ReadSource
  BY <1>3 DEF ListInv, ReadSource, Exit, dis_vars, Builds
<1>4. CASE AssembleStep
  BY <1>4 DEF ListInv, AssembleStep, build_vars, dis_vars
<1>5. CASE Rejected
  BY <1>5 DEF ListInv, Rejected, Exit, dis_vars, Builds
<1>6. CASE WriteBinary
  BY <1>6 DEF ListInv, WriteBinary, Exit, dis_vars, Builds
<1>7. CASE Show
  BY <1>7, ListedLine DEF ListInv, Show, Builds
<1>8. CASE ReadBack
  BY <1>8 DEF ListInv, ReadBack, Exit, Builds
<1>9. CASE UNCHANGED tool_vars
  BY <1>9 DEF ListInv, tool_vars, build_vars, dis_vars
<1> QED
  BY <1>1, <1>2, <1>3, <1>4, <1>5, <1>6, <1>7, <1>8, <1>9 DEF ToolchainNext

THEOREM ListInvariant == ToolchainSpec => []ListInv
  BY ListInit, ListNext, PTL DEF ToolchainSpec

(* A line of a listing, assembled again, gives its word.                   *)
THEOREM ListingsReadBack == ToolchainSpec => []ReadsBack
<1>1. ListInv => ReadsBack
  <2> SUFFICES ASSUME ListInv, command = "dis", doing = "done", Executes(word), Canonical(word)
               PROVE  back = (IF text.mn \in NotAssembled \/ ~Reachable(text, 0 .. LastLabel)
                              THEN Refused ELSE word)
    BY DEF ReadsBack
  <2>1. text = Disasm(word, at) /\ word \in InstrWord /\ at \in Int
    BY DEF ListInv
  <2>2. back = AssembleInstruction(text, at, 0 .. LastLabel)
    BY DEF ListInv
  <2> QED
    BY <2>1, <2>2, ListingReadsBack
<1> QED
  BY <1>1, ListInvariant, PTL

(* The words that have a name are those the machine executes, and what the *)
(* assembler makes of a line is listed under the name it was written with. *)
THEOREM ListingsNameWords == ToolchainSpec => []NamesAgree
<1>1. ListInv => NamesAgree
  <2>1. ASSUME ListInv, command = "dis", doing # "show"
        PROVE  text.mn = Unknown <=> ~Executes(word)
    BY <2>1, NamesExecuted DEF ListInv
  <2>2. ASSUME ListInv, command = "line", back # Refused
        PROVE  /\ Executes(back)
               /\ Disasm(back, at).mn =
                    (IF text.mn \in DOMAIN Pseudo THEN Pseudo[text.mn] ELSE text.mn)
    <3>1. text.args \in Seq(Operands) /\ at \in Nat
      BY <2>2 DEF ListInv
    <3>2. at \in Int
      BY <3>1
    <3>3. back = AssembleInstruction(text, at, 0 .. LastLabel)
      BY <2>2 DEF ListInv
    <3> QED
      BY <2>2, <3>1, <3>2, <3>3, AssembledIsListed
  <2> QED
    BY <2>1, <2>2 DEF NamesAgree
<1> QED
  BY <1>1, ListInvariant, PTL

-----------------------------------------------------------------------------
(* The tables of tools.  A stage starts from the file the stage before it  *)
(* made, a tool from the file of the tool before it, and none of them      *)
(* writes the file its stage starts from.                                  *)
AtTool(c, p) ==
  /\ p \in [stage : Nat, attempt : Nat, tool : Nat]
  /\ p.stage \in 1 .. Len(Stages[c])
  /\ p.attempt \in 1 .. Len(Stages[c][p.stage])
  /\ p.tool \in 1 .. Len(Stages[c][p.stage][p.attempt])

StageSource(s) == IF s = 1 THEN "input" ELSE "asm"
StageOutput(c, s) == IF s = Len(Stages[c]) /\ c # "emit" THEN "bin" ELSE "asm"

(* The calls of an attempt lead from one file to another.                  *)
Leads(attempt, from, to) ==
  /\ Len(attempt) \in Nat \ {0}
  /\ attempt[1].from = from /\ attempt[Len(attempt)].to = to
  /\ \A k \in 1 .. Len(attempt) :
       /\ attempt[k].from \in Paths /\ attempt[k].to \in Paths \ {"input", from}
       /\ k < Len(attempt) => attempt[k + 1].from = attempt[k].to

LEMMA OneCall ==
  ASSUME NEW from \in Paths, NEW to \in Paths, to \notin {"input", from}
  PROVE  Leads(<<Call(from, to)>>, from, to)
<1>1. Len(<<Call(from, to)>>) = 1 /\ <<Call(from, to)>>[1] = Call(from, to)
  OBVIOUS
<1>2. Call(from, to).from = from /\ Call(from, to).to = to
  BY DEF Call
<1> QED
  BY <1>1, <1>2 DEF Leads

LEMMA AssembledLeads == Leads(Assembled, "asm", "bin") /\ Leads(Linked, "asm", "bin")
<1> USE DEF Paths, Call
<1>1. /\ Len(Assembled) = 2
      /\ Assembled[1] = Call("asm", "obj") /\ Assembled[2] = Call("obj", "bin")
  BY DEF Assembled
<1>2. /\ Len(Linked) = 3
      /\ Linked[1] = Call("asm", "obj") /\ Linked[2] = Call("obj", "elf")
      /\ Linked[3] = Call("elf", "bin")
  BY DEF Linked
<1>3. Leads(Assembled, "asm", "bin")
  <2>1. \A k \in 1 .. Len(Assembled) : k = 1 \/ k = 2
    BY <1>1
  <2> QED
    BY <1>1, <2>1 DEF Leads
<1>4. Leads(Linked, "asm", "bin")
  <2>1. \A k \in 1 .. Len(Linked) : k = 1 \/ k = 2 \/ k = 3
    BY <1>2
  <2> QED
    BY <1>2, <2>1 DEF Leads
<1> QED
  BY <1>3, <1>4

LEMMA PrefixesLead ==
  ASSUME NEW from \in Paths, NEW to \in Paths, to \notin {"input", from}
  PROVE  LET stage == Prefixes(Call(from, to))
         IN  Len(stage) = 4 /\ \A a \in 1 .. Len(stage) : Leads(stage[a], from, to)
<1> DEFINE attempt == <<Call(from, to)>>
           stage   == << attempt, attempt, attempt, attempt >>
<1>1. Leads(attempt, from, to)
  BY OneCall
<1> HIDE DEF attempt
<1>2. Len(stage) = 4 /\ \A a \in 1 .. Len(stage) : stage[a] = attempt
  OBVIOUS
<1>3. Prefixes(Call(from, to)) = stage
  BY DEF Prefixes, attempt
<1> QED
  BY <1>1, <1>2, <1>3

LEMMA Single == ASSUME NEW a PROVE Len(<<a>>) = 1 /\ <<a>>[1] = a
OBVIOUS

LEMMA Pair ==
  ASSUME NEW a, NEW b
  PROVE  Len(<<a, b>>) = 2 /\ <<a, b>>[1] = a /\ <<a, b>>[2] = b
OBVIOUS

LEMMA Triple ==
  ASSUME NEW a, NEW b, NEW c
  PROVE  /\ Len(<<a, b, c>>) = 3
         /\ <<a, b, c>>[1] = a /\ <<a, b, c>>[2] = b /\ <<a, b, c>>[3] = c
OBVIOUS

LEMMA UpTo3 ==
  /\ 1 .. 0 = {} /\ 1 .. 1 = {1} /\ 1 .. 2 = {1, 2} /\ 1 .. 3 = {1, 2, 3}
  /\ \A k \in {1, 2, 3} : k \in Nat \ {0}
  /\ 0 \in Nat
OBVIOUS

LEMMA StageTables ==
  /\ Stages["emit"] = <<Sage>>
  /\ Stages["compile"] = <<Sage, <<Assembled, Linked, Assembled>> >>
  /\ Stages["cc"] = <<Prefixes(Call("input", "bin"))>>
  /\ Stages["cc --save-asm"] =
       <<Prefixes(Call("input", "asm")), Prefixes(Call("asm", "bin"))>>
  /\ Stages["asm"] = << >>
BY DEF Stages, Builds

(* Every attempt of every stage leads from what the stage before it made   *)
(* to the file the next one starts from, the last one to the output.       *)
LEMMA ToolTables ==
  ASSUME NEW c \in Builds
  PROVE  /\ c = "asm" <=> Len(Stages[c]) = 0
         /\ Len(Stages[c]) \in Nat
         /\ \A s \in 1 .. Len(Stages[c]) :
              /\ s \in {1, 2}
              /\ Len(Stages[c][s]) \in Nat \ {0}
              /\ \A a \in 1 .. Len(Stages[c][s]) :
                   Leads(Stages[c][s][a], StageSource(s), StageOutput(c, s))
<1>0. StageSource(1) = "input" /\ StageSource(2) = "asm"
  BY DEF StageSource
<1>1. Len(Sage) = 1 /\ Leads(Sage[1], "input", "asm")
  <2>1. Leads(<<Call("input", "asm")>>, "input", "asm")
    BY OneCall DEF Paths
  <2> QED
    BY <2>1, Single DEF Sage
<1>2. CASE c = "emit"
  <2>1. Len(Stages[c]) = 1 /\ Stages[c][1] = Sage
    BY <1>2, StageTables, Single
  <2>2. StageOutput(c, 1) = "asm"
    BY <1>2 DEF StageOutput
  <2> QED
    BY <1>0, <1>1, <1>2, <2>1, <2>2, UpTo3
<1>3. CASE c = "compile"
  <2> DEFINE stage == <<Assembled, Linked, Assembled>>
  <2>1. Len(Stages[c]) = 2 /\ Stages[c][1] = Sage /\ Stages[c][2] = stage
    <3>1. Stages[c] = <<Sage, stage>>
      BY <1>3, StageTables
    <3> HIDE DEF stage
    <3> QED
      BY <3>1, Pair
  <2>2. Len(stage) = 3 /\ \A a \in {1, 2, 3} : Leads(stage[a], "asm", "bin")
    BY AssembledLeads, Triple
  <2>3. StageOutput(c, 1) = "asm" /\ StageOutput(c, 2) = "bin"
    BY <1>3, <2>1 DEF StageOutput
  <2> HIDE DEF stage
  <2> QED
    BY <1>0, <1>1, <1>3, <2>1, <2>2, <2>3, UpTo3
<1>4. CASE c = "cc"
  <2> DEFINE stage == Prefixes(Call("input", "bin"))
  <2>1. Len(stage) = 4 /\ \A a \in 1 .. Len(stage) : Leads(stage[a], "input", "bin")
    BY PrefixesLead DEF Paths
  <2> HIDE DEF stage
  <2>2. Len(Stages[c]) = 1 /\ Stages[c][1] = stage
    BY <1>4, StageTables, Single DEF stage
  <2>3. StageOutput(c, 1) = "bin"
    BY <1>4, <2>2 DEF StageOutput
  <2> QED
    BY <1>0, <1>4, <2>1, <2>2, <2>3, UpTo3
<1>5. CASE c = "cc --save-asm"
  <2> DEFINE first  == Prefixes(Call("input", "asm"))
             second == Prefixes(Call("asm", "bin"))
  <2>1. /\ Len(first) = 4 /\ \A a \in 1 .. Len(first) : Leads(first[a], "input", "asm")
        /\ Len(second) = 4 /\ \A a \in 1 .. Len(second) : Leads(second[a], "asm", "bin")
    BY PrefixesLead DEF Paths
  <2> HIDE DEF first, second
  <2>2. Len(Stages[c]) = 2 /\ Stages[c][1] = first /\ Stages[c][2] = second
    <3>1. Stages[c] = <<first, second>>
      BY <1>5, StageTables DEF first, second
    <3> QED
      BY <3>1, Pair
  <2>3. StageOutput(c, 1) = "asm" /\ StageOutput(c, 2) = "bin"
    <3>1. c # "emit" /\ Len(Stages[c]) = 2
      BY <1>5, <2>2
    <3> QED
      BY <3>1 DEF StageOutput
  <2>4. Len(first) \in Nat \ {0} /\ Len(second) \in Nat \ {0} /\ Len(Stages[c]) \in Nat
    BY <2>1, <2>2
  <2>5. \A s \in 1 .. Len(Stages[c]) : s \in {1, 2}
    BY <2>2
  <2> QED
    BY <1>0, <1>5, <2>1, <2>2, <2>3, <2>4, <2>5
<1>6. CASE c = "asm"
  <2>1. Len(Stages[c]) = 0
    BY <1>6, StageTables
  <2> QED
    BY <1>6, <2>1, UpTo3
<1> QED
  BY <1>2, <1>3, <1>4, <1>5, <1>6 DEF Builds

-----------------------------------------------------------------------------
(* Fresh output.  What an attempt reads is the present input, or was made  *)
(* from it: by the stage before, or by the tool before it in the attempt.  *)
BuildInv ==
  command \in Builds =>
    /\ files \in [Paths -> Contents]
    /\ files["input"] \in {"fresh", "none"}
    /\ doing \in {"tools", "read", "assemble", "done"}
    /\ doing # "done" => exit = "none" /\ short = FALSE
    /\ doing = "tools" =>
         /\ AtTool(command, pos)
         /\ pos.stage = 2 => files["asm"] = "fresh"
         /\ pos.tool > 1 => files[Current.from] = "fresh"
    /\ doing \in {"read", "assemble"} =>
         command \in {"compile", "asm"} /\ files[AsmSource] \in {"fresh", "none"}
    /\ doing = "assemble" => files[AsmSource] = "fresh"
    /\ exit = "0" => files[Output] = (IF short THEN "damaged" ELSE "fresh")

LEMMA FirstTool ==
  ASSUME NEW c \in Builds, NEW s \in 1 .. Len(Stages[c]), NEW a \in 1 .. Len(Stages[c][s])
  PROVE  AtTool(c, Position(s, a, 1))
<1>1. /\ Position(s, a, 1) \in [stage : Nat, attempt : Nat, tool : Nat]
      /\ Position(s, a, 1).stage = s /\ Position(s, a, 1).attempt = a
      /\ Position(s, a, 1).tool = 1
  <2>1. s \in Nat /\ a \in Nat
    BY ToolTables
  <2> QED
    BY <2>1 DEF Position
<1>2. Len(Stages[c][s][a]) \in Nat \ {0}
  BY ToolTables DEF Leads
<1>3. 1 \in 1 .. Len(Stages[c][s][a])
  BY <1>2
<1> QED
  BY <1>1, <1>3 DEF AtTool

LEMMA BuildInit == ToolchainInit => BuildInv
<1> SUFFICES ASSUME ToolchainInit, command \in Builds PROVE BuildInv
  BY DEF BuildInv
<1>1. StartBuild
  BY DEF ToolchainInit, StartListing, Builds
<1>2. files \in [Paths -> Contents] /\ files["input"] \in {"fresh", "none"}
  <2>1. files \in Left(command)
    BY <1>1 DEF StartBuild
  <2> QED
    BY <2>1 DEF Left, Paths, Contents
<1>3. doing = "tools" => AtTool(command, pos) /\ pos.stage = 1 /\ pos.tool = 1
  <2> SUFFICES ASSUME doing = "tools"
               PROVE  AtTool(command, pos) /\ pos.stage = 1 /\ pos.tool = 1
    OBVIOUS
  <2>1. command # "asm"
    BY <1>1 DEF StartBuild
  <2>2. 1 \in 1 .. Len(Stages[command])
    BY <2>1, ToolTables
  <2>3. 1 \in 1 .. Len(Stages[command][1])
    BY <2>2, ToolTables
  <2>4. pos = Position(1, 1, 1)
    BY DEF ToolchainInit
  <2> QED
    BY <2>2, <2>3, <2>4, FirstTool DEF Position
<1>4. doing = "read" => command = "asm" /\ AsmSource = "input"
  BY <1>1 DEF StartBuild, AsmSource
<1>5. doing \in {"tools", "read"} /\ exit = "none" /\ short = FALSE
  BY <1>1 DEF ToolchainInit, StartBuild
<1> QED
  BY <1>2, <1>3, <1>4, <1>5 DEF BuildInv

LEMMA ToolReadsFresh ==
  ASSUME BuildInv, command \in Builds, doing = "tools", files[Current.from] # "none"
  PROVE  files[Current.from] = "fresh"
<1>1. AtTool(command, pos)
  BY DEF BuildInv
<1>2. Leads(Attempt, StageSource(pos.stage), StageOutput(command, pos.stage)) /\ pos.stage \in {1, 2}
  BY <1>1, ToolTables DEF AtTool, Attempt, Stage
<1>3. CASE pos.tool = 1
  <2>1. Current.from = StageSource(pos.stage)
    BY <1>2, <1>3 DEF Leads, Current
  <2> QED
    BY <1>2, <2>1 DEF BuildInv, StageSource
<1>4. CASE pos.tool > 1
  BY <1>4 DEF BuildInv
<1>5. pos.tool \in Nat \ {0}
  BY <1>1 DEF AtTool
<1> QED
  BY <1>3, <1>4, <1>5

LEMMA CurrentTool ==
  ASSUME AtTool(command, pos), command \in Builds
  PROVE  /\ pos.stage \in {1, 2}
         /\ Current.to \in Paths \ {"input", StageSource(pos.stage)}
         /\ pos.tool < Len(Attempt) => Attempt[pos.tool + 1].from = Current.to
         /\ pos.tool = Len(Attempt) => Current.to = StageOutput(command, pos.stage)
<1>1. /\ pos.stage \in {1, 2} /\ pos.tool \in 1 .. Len(Attempt)
      /\ Leads(Attempt, StageSource(pos.stage), StageOutput(command, pos.stage))
  BY ToolTables DEF AtTool, Attempt, Stage
<1> QED
  BY <1>1 DEF Leads, Current

LEMMA BuildToolSucceeds == BuildInv /\ command \in Builds /\ ToolSucceeds => BuildInv'
<1> SUFFICES ASSUME BuildInv, command \in Builds, ToolSucceeds PROVE BuildInv'
  OBVIOUS
<1>1. doing = "tools" /\ command' = command /\ AtTool(command, pos)
  BY DEF ToolSucceeds, BuildInv
<1>2. files' = [files EXCEPT ![Current.to] = "fresh"]
  BY <1>1, ToolReadsFresh DEF ToolSucceeds
<1>3. /\ pos.stage \in {1, 2}
      /\ Current.to \in Paths \ {"input", StageSource(pos.stage)}
      /\ pos.tool < Len(Attempt) => Attempt[pos.tool + 1].from = Current.to
      /\ pos.tool = Len(Attempt) => Current.to = StageOutput(command, pos.stage)
  BY <1>1, CurrentTool
<1>4. /\ files' \in [Paths -> Contents] /\ files'["input"] \in {"fresh", "none"}
      /\ files'[Current.to] = "fresh" /\ short' = FALSE
  <2>1. files \in [Paths -> Contents] /\ files["input"] \in {"fresh", "none"} /\ short = FALSE
    BY <1>1 DEF BuildInv
  <2> QED
    BY <1>2, <1>3, <2>1 DEF ToolSucceeds, Contents, Paths
<1>5. pos.stage = 2 => files'["asm"] = "fresh"
  BY <1>1, <1>2, <1>3 DEF BuildInv, StageSource
<1>6. CASE pos.tool < Len(Attempt) /\ pos' = [pos EXCEPT !.tool = @ + 1] /\ UNCHANGED <<doing, exit>>
  <2>1. /\ pos'.stage = pos.stage /\ pos'.attempt = pos.attempt /\ pos'.tool = pos.tool + 1
        /\ pos' \in [stage : Nat, attempt : Nat, tool : Nat]
    BY <1>1, <1>6 DEF AtTool
  <2>2. pos.tool \in Nat /\ Len(Attempt) \in Nat
    <3>1. Leads(Attempt, StageSource(pos.stage), StageOutput(command, pos.stage))
      BY <1>1, ToolTables DEF AtTool, Attempt, Stage
    <3> QED
      BY <1>1, <3>1 DEF AtTool, Leads
  <2>3. pos.tool + 1 \in 1 .. Len(Attempt)
    BY <1>6, <2>2
  <2>4. AtTool(command, pos')
    BY <1>1, <2>1, <2>3 DEF AtTool, Attempt, Stage
  <2>5. Current'.from = Current.to
    BY <1>1, <1>3, <1>6, <2>1 DEF Current, Attempt, Stage
  <2>6. doing' = "tools" /\ exit' = "none"
    BY <1>1, <1>6 DEF BuildInv
  <2> QED
    BY <1>1, <1>4, <1>5, <2>1, <2>4, <2>5, <2>6 DEF BuildInv
<1>7. CASE /\ pos.tool = Len(Attempt) /\ pos.stage < Len(Stages[command])
           /\ pos' = Position(pos.stage + 1, 1, 1) /\ UNCHANGED <<doing, exit>>
  <2>1. Current.to = "asm"
    BY <1>3, <1>7 DEF StageOutput
  <2>2. pos.stage + 1 \in 1 .. Len(Stages[command])
    BY <1>1, <1>3, <1>7, ToolTables
  <2>3. 1 \in 1 .. Len(Stages[command][pos.stage + 1])
    BY <2>2, ToolTables
  <2>4. AtTool(command, pos')
    BY <1>7, <2>2, <2>3, FirstTool
  <2>5. pos'.tool = 1
    BY <1>7 DEF Position
  <2>6. doing' = "tools" /\ exit' = "none"
    BY <1>1, <1>7 DEF BuildInv
  <2> QED
    BY <1>1, <1>4, <2>1, <2>4, <2>5, <2>6 DEF BuildInv
<1>8. CASE pos.tool = Len(Attempt) /\ pos.stage = Len(Stages[command]) /\ Exit("0")
  <2>1. Current.to = Output'
    BY <1>1, <1>3, <1>8, ToolTables, StageTables, Single DEF StageOutput, Output
  <2>2. doing' = "done" /\ exit' = "0"
    BY <1>8 DEF Exit
  <2> QED
    BY <1>1, <1>4, <2>1, <2>2 DEF BuildInv
<1> QED
  BY <1>6, <1>7, <1>8 DEF ToolSucceeds

LEMMA BuildToolFails == BuildInv /\ command \in Builds /\ ToolFails => BuildInv'
<1> SUFFICES ASSUME BuildInv, command \in Builds, ToolFails PROVE BuildInv'
  OBVIOUS
<1>1. doing = "tools" /\ command' = command /\ AtTool(command, pos) /\ short' = FALSE
  BY DEF ToolFails, BuildInv
<1>2. PICK left \in {files[Current.to], "none", "damaged"} :
        files' = [files EXCEPT ![Current.to] = left]
  BY DEF ToolFails
<1>3. pos.stage \in {1, 2} /\ Current.to \in Paths \ {"input", StageSource(pos.stage)}
  BY <1>1, CurrentTool
<1>4. files' \in [Paths -> Contents] /\ files'["input"] \in {"fresh", "none"}
  <2>1. files \in [Paths -> Contents] /\ files["input"] \in {"fresh", "none"}
    BY DEF BuildInv
  <2>2. left \in Contents
    BY <1>3, <2>1 DEF Contents
  <2> QED
    BY <1>2, <1>3, <2>1, <2>2 DEF Paths
<1>5. pos.stage = 2 => files'["asm"] = "fresh"
  BY <1>1, <1>2, <1>3 DEF BuildInv, StageSource
<1>6. CASE pos.attempt < Len(Stage) /\ pos' = NextAttempt /\ UNCHANGED <<doing, exit>>
  <2>1. pos.stage \in 1 .. Len(Stages[command]) /\ Stage = Stages[command][pos.stage]
    BY <1>1 DEF AtTool, Stage
  <2>2. pos.attempt \in Nat \ {0} /\ Len(Stage) \in Nat
    BY <1>1, <2>1, ToolTables DEF AtTool
  <2>3. pos.attempt + 1 \in 1 .. Len(Stages[command][pos.stage])
    BY <1>6, <2>1, <2>2
  <2>4. AtTool(command, pos') /\ pos'.stage = pos.stage /\ pos'.tool = 1
    BY <1>6, <2>1, <2>3, FirstTool DEF NextAttempt, Position
  <2>5. doing' = "tools" /\ exit' = "none"
    BY <1>1, <1>6 DEF BuildInv
  <2> QED
    BY <1>1, <1>4, <1>5, <2>4, <2>5 DEF BuildInv
<1>7. CASE command = "compile" /\ pos.stage = 2 /\ doing' = "read" /\ UNCHANGED <<pos, exit>>
  <2>1. exit' = "none" /\ AsmSource' = "asm"
    BY <1>1, <1>7 DEF BuildInv, AsmSource
  <2> QED
    BY <1>1, <1>4, <1>5, <1>7, <2>1 DEF BuildInv
<1>8. CASE Exit("1")
  <2>1. doing' = "done" /\ exit' = "1"
    BY <1>8 DEF Exit
  <2> QED
    BY <1>1, <1>4, <2>1 DEF BuildInv
<1> QED
  BY <1>6, <1>7, <1>8 DEF ToolFails

LEMMA BuildWrites == BuildInv /\ command \in Builds /\ WriteBinary => BuildInv'
<1> SUFFICES ASSUME BuildInv, command \in Builds, WriteBinary PROVE BuildInv'
  OBVIOUS
<1>1. /\ command \in {"compile", "asm"} /\ command' = command
      /\ files[AsmSource] = "fresh" /\ short = FALSE
      /\ files \in [Paths -> Contents] /\ files["input"] \in {"fresh", "none"}
  BY DEF BuildInv, WriteBinary
<1>2. Output' = "bin"
  BY <1>1 DEF Output
<1>3. CASE Exit("1") /\ UNCHANGED <<files, short>>
  BY <1>1, <1>3 DEF BuildInv, Exit
<1>4. CASE Exit("0") /\ files' = [files EXCEPT !["bin"] = files[AsmSource]] /\ UNCHANGED short
  <2>1. files' \in [Paths -> Contents] /\ files'["input"] = files["input"] /\ files'["bin"] = "fresh"
    BY <1>1, <1>4 DEF Paths, Contents
  <2> QED
    BY <1>1, <1>2, <1>4, <2>1 DEF BuildInv, Exit
<1>5. CASE Exit("0") /\ files' = [files EXCEPT !["bin"] = "damaged"] /\ short' = TRUE
  <2>1. files' \in [Paths -> Contents] /\ files'["input"] = files["input"] /\ files'["bin"] = "damaged"
    BY <1>1, <1>5 DEF Paths, Contents
  <2> QED
    BY <1>1, <1>2, <1>5, <2>1 DEF BuildInv, Exit
<1> QED
  BY <1>3, <1>4, <1>5 DEF WriteBinary

LEMMA BuildNext == BuildInv /\ [ToolchainNext]_tool_vars => BuildInv'
<1> SUFFICES ASSUME BuildInv, [ToolchainNext]_tool_vars, command' \in Builds PROVE BuildInv'
  BY DEF BuildInv
<1>1. command' = command /\ command \in Builds
  BY DEF ToolchainNext, tool_vars, build_vars, ToolSucceeds, ToolFails, ReadSource, AssembleStep,
         Rejected, WriteBinary, Show, ReadBack
<1>2. CASE ToolSucceeds
  BY <1>1, <1>2, BuildToolSucceeds
<1>3. CASE ToolFails
  BY <1>1, <1>3, BuildToolFails
<1>4. CASE ReadSource
  <2>1. UNCHANGED <<pos, files, short, command>> /\ doing = "read"
    BY <1>4 DEF ReadSource
  <2>2. CASE files[AsmSource] # "none" /\ doing' = "assemble" /\ UNCHANGED exit
    BY <1>1, <2>1, <2>2 DEF BuildInv, AsmSource
  <2>3. CASE Exit("1")
    BY <1>1, <2>1, <2>3 DEF BuildInv, Exit
  <2> QED
    BY <1>4, <2>2, <2>3 DEF ReadSource
<1>5. CASE AssembleStep
  <2>1. UNCHANGED <<pos, files, short, command, doing, exit>>
    BY <1>5 DEF AssembleStep, build_vars
  <2> QED
    BY <2>1 DEF BuildInv, Current, Attempt, Stage, AsmSource, Output
<1>6. CASE Rejected
  <2>1. UNCHANGED <<pos, files, short, command>> /\ doing' = "done" /\ exit' = "1"
    BY <1>6 DEF Rejected, Exit
  <2> QED
    BY <1>1, <2>1 DEF BuildInv
<1>7. CASE WriteBinary
  BY <1>1, <1>7, BuildWrites
<1>8. CASE Show \/ ReadBack
  BY <1>1, <1>8 DEF BuildInv, Show, ReadBack
<1>9. CASE UNCHANGED tool_vars
  <2>1. UNCHANGED <<pos, files, short, command, doing, exit>>
    BY <1>9 DEF tool_vars, build_vars
  <2> QED
    BY <2>1 DEF BuildInv, Current, Attempt, Stage, AsmSource, Output
<1> QED
  BY <1>2, <1>3, <1>4, <1>5, <1>6, <1>7, <1>8, <1>9 DEF ToolchainNext

(* Whatever a command announces when it exits with 0 is made from the      *)
(* present input.                                                          *)
THEOREM BuildsAreFresh == ToolchainSpec => []FreshBinary
<1>1. BuildInv => FreshBinary
  BY DEF BuildInv, FreshBinary
<1> QED
  BY <1>1, BuildInit, BuildNext, PTL DEF ToolchainSpec

-----------------------------------------------------------------------------
(* The assembler in a command.  Its source is one MipsAsm allows, and the  *)
(* command changes its state by its steps only.                            *)
LEMMA AssemblerStarts == ToolchainInit => Init
<1> SUFFICES ASSUME ToolchainInit PROVE Init
  OBVIOUS
<1>1. source \in Sources
  <2>1. CASE StartBuild
    <3>1. source \in Written \/ source \in Generated \/ source = << >>
      BY <2>1 DEF StartBuild
    <3> QED
      BY <3>1, ToolchainAssumption
  <2>2. CASE StartListing
    BY <2>2, ToolchainAssumption DEF StartListing
  <2> QED
    BY <2>1, <2>2 DEF ToolchainInit
<1> QED
  BY <1>1 DEF ToolchainInit, Init

LEMMA AssemblerRuns == [ToolchainNext]_tool_vars => [Next]_vars
<1> SUFFICES ASSUME [ToolchainNext]_tool_vars PROVE Next \/ UNCHANGED vars
  OBVIOUS
<1>1. CASE AssembleStep
  BY <1>1 DEF AssembleStep
<1>2. CASE UNCHANGED tool_vars
  BY <1>2 DEF tool_vars
<1>3. CASE ~AssembleStep /\ ToolchainNext
  BY <1>3 DEF ToolchainNext, ToolSucceeds, ToolFails, ReadSource, Rejected, WriteBinary, Show,
              ReadBack
<1> QED
  BY <1>1, <1>2, <1>3

(* Every command, whatever its tools do, runs the assembler of MipsAsm.    *)
THEOREM CommandsAssemble == ToolchainSpec => Init /\ [][Next]_vars
BY AssemblerStarts, AssemblerRuns, PTL DEF ToolchainSpec

LEMMA AssemblerInvariant == ToolchainSpec => [](AsmInv /\ SteadyInv)
<1>1. Init => AsmInv /\ SteadyInv
  BY AsmStart, SteadyStart
<1>2. AsmInv /\ SteadyInv /\ [Next]_vars => (AsmInv /\ SteadyInv)'
  BY AsmNext, SteadyNext
<1> QED
  BY <1>1, <1>2, CommandsAssemble, PTL

(* What is written by asm, or by compile where no other tool assembles,    *)
(* has its references resolved as MipsAsm says; and a source is refused    *)
(* for the reasons given there, and for no other.                          *)
THEOREM CommandsResolve ==
  ToolchainSpec => [](TypeOK /\ BackwardResolved /\ SteadyResolved /\ RefusedExactly)
<1>1. AsmInv => TypeOK /\ BackwardResolved /\ RefusedExactly
  BY AsmRefuses DEF AsmInv, Shape
<1> QED
  BY <1>1, SteadyResolves, AssemblerInvariant, PTL

-----------------------------------------------------------------------------
(* The end of a command.  What is left of it: phases; while tools are      *)
(* called, stages, attempts of the stage and calls of the attempt; and in  *)
(* the assembler lines to be read, in this pass and the next, and the step *)
(* behind the last line of a pass.                                         *)
PhasesLeft ==
  IF doing = "tools" THEN 3
  ELSE IF doing \in {"read", "show"} THEN 2
  ELSE IF doing \in {"assemble", "read back"} THEN 1 ELSE 0

StagesLeft   == IF doing = "tools" THEN Len(Stages[command]) - pos.stage ELSE 0
AttemptsLeft == IF doing = "tools" THEN Len(Stage) - pos.attempt ELSE 0
CallsLeft    == IF doing = "tools" THEN Len(Attempt) - pos.tool ELSE 0

LinesLeft ==
  IF result # "none" THEN 0
  ELSE (IF pass = 0 THEN Len(source) + 2 ELSE 0) + Len(source) + 2 - next

(* One of them goes down, and those before it do not go up.                *)
LessLeft ==
  \/ PhasesLeft' < PhasesLeft
  \/ /\ PhasesLeft' = PhasesLeft
     /\ \/ StagesLeft' < StagesLeft
        \/ StagesLeft' = StagesLeft /\ AttemptsLeft' < AttemptsLeft
        \/ /\ StagesLeft' = StagesLeft /\ AttemptsLeft' = AttemptsLeft
           /\ CallsLeft' < CallsLeft \/ (CallsLeft' = CallsLeft /\ LinesLeft' < LinesLeft)

LeftCounted ==
  /\ PhasesLeft \in Nat /\ StagesLeft \in Nat /\ AttemptsLeft \in Nat
  /\ CallsLeft \in Nat /\ LinesLeft \in Nat

StepTaken == LeftCounted /\ LeftCounted' /\ LessLeft

LEMMA ToolsCounted ==
  ASSUME NEW c \in Builds, NEW p, AtTool(c, p)
  PROVE  LET stage   == Stages[c][p.stage]
             attempt == stage[p.attempt]
         IN  /\ p.stage \in Nat /\ Len(Stages[c]) \in Nat /\ p.stage <= Len(Stages[c])
             /\ p.attempt \in Nat /\ Len(stage) \in Nat /\ p.attempt <= Len(stage)
             /\ p.tool \in Nat /\ Len(attempt) \in Nat /\ p.tool <= Len(attempt)
<1>1. /\ p.stage \in Nat /\ p.attempt \in Nat /\ p.tool \in Nat
      /\ p.stage \in 1 .. Len(Stages[c])
      /\ p.attempt \in 1 .. Len(Stages[c][p.stage])
      /\ p.tool \in 1 .. Len(Stages[c][p.stage][p.attempt])
  BY DEF AtTool
<1>2. Len(Stages[c]) \in Nat /\ Len(Stages[c][p.stage]) \in Nat
  BY <1>1, ToolTables
<1>3. Len(Stages[c][p.stage][p.attempt]) \in Nat
  BY <1>1, ToolTables DEF Leads
<1> QED
  BY <1>1, <1>2, <1>3

LEMMA CountsOfCommand == ListInv /\ BuildInv /\ AsmInv => LeftCounted
<1> SUFFICES ASSUME ListInv, BuildInv, AsmInv PROVE LeftCounted
  OBVIOUS
<1>1. PhasesLeft \in Nat
  BY DEF PhasesLeft
<1>2. LinesLeft \in Nat
  <2>1. Len(source) \in Nat /\ next \in Nat /\ next <= Len(source) + 1
    BY SourceLines DEF AsmInv
  <2> QED
    BY <2>1 DEF LinesLeft
<1>3. StagesLeft \in Nat /\ AttemptsLeft \in Nat /\ CallsLeft \in Nat
  <2>1. CASE doing = "tools"
    <3>1. command \in Builds /\ AtTool(command, pos)
      BY <2>1 DEF ListInv, BuildInv
    <3>2. /\ pos.stage \in Nat /\ Len(Stages[command]) \in Nat /\ pos.stage <= Len(Stages[command])
          /\ pos.attempt \in Nat /\ Len(Stage) \in Nat /\ pos.attempt <= Len(Stage)
          /\ pos.tool \in Nat /\ Len(Attempt) \in Nat /\ pos.tool <= Len(Attempt)
      BY <3>1, ToolsCounted DEF Stage, Attempt
    <3> QED
      BY <2>1, <3>2 DEF StagesLeft, AttemptsLeft, CallsLeft
  <2>2. CASE doing # "tools"
    BY <2>2 DEF StagesLeft, AttemptsLeft, CallsLeft
  <2> QED
    BY <2>1, <2>2
<1> QED
  BY <1>1, <1>2, <1>3 DEF LeftCounted

LEMMA AssemblerAdvances == AsmInv /\ AsmInv' /\ Next => LinesLeft' < LinesLeft
<1> SUFFICES ASSUME AsmInv, AsmInv', Next PROVE LinesLeft' < LinesLeft
  OBVIOUS
<1>1. /\ Len(source) \in Nat /\ next \in Nat /\ next <= Len(source) + 1
      /\ pass \in {0, 1} /\ result = "none" /\ source' = source
  <2>1. Shape /\ pass \in {0, 1}
    BY DEF AsmInv, Shape, TypeOK
  <2>2. result = "none" /\ source' = source
    BY DEF Next, CountLine, SecondPass, EmitLine, Return, Reading, Fail, Advance
  <2> QED
    BY <2>1, <2>2, SourceLines
<1>2. LinesLeft = (IF pass = 0 THEN Len(source) + 2 ELSE 0) + Len(source) + 2 - next
  BY <1>1 DEF LinesLeft
<1>3. LinesLeft' = IF result' # "none" THEN 0
                   ELSE (IF pass' = 0 THEN Len(source) + 2 ELSE 0) + Len(source) + 2 - next'
  BY <1>1 DEF LinesLeft
<1>4. \/ result' # "none"
      \/ result' = "none" /\ pass' = pass /\ next' = next + 1
      \/ result' = "none" /\ pass = 0 /\ pass' = 1 /\ next' = 1
  <2>1. CASE CountLine \/ EmitLine
    BY <1>1, <2>1 DEF CountLine, EmitLine, Fail, Advance
  <2>2. CASE SecondPass
    BY <1>1, <2>2 DEF SecondPass
  <2>3. CASE Return
    BY <2>3 DEF Return
  <2> QED
    BY <2>1, <2>2, <2>3 DEF Next
<1> QED
  BY <1>1, <1>2, <1>3, <1>4

LEMMA ToolsAdvance ==
  ListInv /\ BuildInv /\ (ToolSucceeds \/ ToolFails) /\ LeftCounted => LessLeft
<1> SUFFICES ASSUME ListInv, BuildInv, ToolSucceeds \/ ToolFails, LeftCounted PROVE LessLeft
  OBVIOUS
<1>1. doing = "tools" /\ command' = command /\ PhasesLeft = 3
  BY DEF ToolSucceeds, ToolFails, PhasesLeft
<1>2. command \in Builds /\ AtTool(command, pos)
  BY <1>1 DEF ListInv, BuildInv
<1>3. /\ pos \in [stage : Nat, attempt : Nat, tool : Nat] /\ Len(Stages[command]) \in Nat
      /\ Len(Stage) \in Nat /\ Len(Attempt) \in Nat
  BY <1>2, ToolsCounted DEF AtTool, Stage, Attempt
<1>4. /\ StagesLeft = Len(Stages[command]) - pos.stage
      /\ AttemptsLeft = Len(Stage) - pos.attempt
      /\ CallsLeft = Len(Attempt) - pos.tool
  BY <1>1 DEF StagesLeft, AttemptsLeft, CallsLeft
<1>5. CASE doing' \in {"done", "read"}
  BY <1>1, <1>5 DEF LessLeft, PhasesLeft
<1>6. ASSUME doing' = "tools"
      PROVE  /\ PhasesLeft' = PhasesLeft
             /\ StagesLeft' = Len(Stages[command]) - pos'.stage
             /\ AttemptsLeft' = Len(Stages[command][pos'.stage]) - pos'.attempt
             /\ CallsLeft' = Len(Stages[command][pos'.stage][pos'.attempt]) - pos'.tool
  BY <1>1, <1>6 DEF PhasesLeft, StagesLeft, AttemptsLeft, CallsLeft, Stage, Attempt
<1>7. CASE doing' = doing /\ pos' = [pos EXCEPT !.tool = @ + 1]
  <2>1. pos'.stage = pos.stage /\ pos'.attempt = pos.attempt /\ pos'.tool = pos.tool + 1
    BY <1>3, <1>7
  <2>2. /\ StagesLeft' = StagesLeft /\ AttemptsLeft' = AttemptsLeft
        /\ CallsLeft' = Len(Attempt) - (pos.tool + 1)
    BY <1>1, <1>4, <1>6, <1>7, <2>1 DEF Stage, Attempt
  <2>3. \A n, k \in Int : n - (k + 1) < n - k
    OBVIOUS
  <2>4. Len(Attempt) \in Int /\ pos.tool \in Int
    BY <1>3
  <2>5. CallsLeft' < CallsLeft
    BY <1>4, <2>2, <2>3, <2>4, Zenon
  <2> QED
    BY <1>1, <1>6, <1>7, <2>2, <2>5 DEF LessLeft
<1>8. CASE doing' = doing /\ pos' = Position(pos.stage + 1, 1, 1)
  <2>1. pos'.stage = pos.stage + 1
    BY <1>8 DEF Position
  <2>2. StagesLeft' < StagesLeft
    BY <1>1, <1>3, <1>4, <1>6, <1>8, <2>1
  <2> QED
    BY <1>1, <1>6, <1>8, <2>2 DEF LessLeft
<1>9. CASE doing' = doing /\ pos' = NextAttempt
  <2>1. pos'.stage = pos.stage /\ pos'.attempt = pos.attempt + 1
    BY <1>9 DEF NextAttempt, Position
  <2>2. StagesLeft' = StagesLeft /\ AttemptsLeft' = Len(Stage) - (pos.attempt + 1)
    BY <1>1, <1>4, <1>6, <1>9, <2>1 DEF Stage
  <2>3. \A n, k \in Int : n - (k + 1) < n - k
    OBVIOUS
  <2>4. Len(Stage) \in Int /\ pos.attempt \in Int
    BY <1>3
  <2>5. AttemptsLeft' < AttemptsLeft
    BY <1>4, <2>2, <2>3, <2>4, Zenon
  <2> QED
    BY <1>1, <1>6, <1>9, <2>2, <2>5 DEF LessLeft
<1> QED
  BY <1>5, <1>7, <1>8, <1>9 DEF ToolSucceeds, ToolFails, Exit

LEMMA CommandAdvances ==
  ASSUME ListInv, BuildInv, AsmInv, AsmInv', LeftCounted, ToolchainNext
  PROVE  LessLeft
<1>1. CASE ToolSucceeds \/ ToolFails
  BY <1>1, ToolsAdvance
<1>2. CASE AssembleStep
  <2>1. doing = "assemble" /\ doing' = doing /\ Next
    BY <1>2 DEF AssembleStep, build_vars
  <2>2. /\ PhasesLeft' = PhasesLeft /\ StagesLeft' = StagesLeft
        /\ AttemptsLeft' = AttemptsLeft /\ CallsLeft' = CallsLeft
    BY <2>1 DEF PhasesLeft, StagesLeft, AttemptsLeft, CallsLeft
  <2>3. LinesLeft' < LinesLeft
    BY <2>1, AssemblerAdvances
  <2> QED
    BY <2>2, <2>3 DEF LessLeft
<1>3. CASE ReadSource \/ Rejected \/ WriteBinary \/ Show \/ ReadBack
  <2>1. \/ doing = "read" /\ doing' \in {"assemble", "done"}
        \/ doing = "assemble" /\ doing' = "done"
        \/ doing = "show" /\ doing' = "read back"
        \/ doing = "read back" /\ doing' = "done"
    BY <1>3 DEF ReadSource, Rejected, WriteBinary, Show, ReadBack, Exit
  <2>2. /\ doing \in {"read", "show"} => PhasesLeft = 2
        /\ doing \in {"assemble", "read back"} => PhasesLeft = 1
    BY DEF PhasesLeft
  <2>3. /\ doing' \in {"assemble", "read back"} => PhasesLeft' = 1
        /\ doing' = "done" => PhasesLeft' = 0
    BY DEF PhasesLeft
  <2>4. PhasesLeft' < PhasesLeft
    <3>1. \/ PhasesLeft = 2 /\ PhasesLeft' = 1
          \/ PhasesLeft = 2 /\ PhasesLeft' = 0
          \/ PhasesLeft = 1 /\ PhasesLeft' = 0
      BY <2>1, <2>2, <2>3, Zenon
    <3> QED
      BY <3>1
  <2> QED
    BY <2>4 DEF LessLeft
<1> QED
  BY <1>1, <1>2, <1>3 DEF ToolchainNext

(* What CommandsEnd rests on: every step of a command brings it nearer its *)
(* end, whichever tools fail, in whatever order, and whatever the source.  *)
THEOREM CommandsProgress == ToolchainSpec => [][StepTaken]_tool_vars
<1>1. ListInv /\ BuildInv /\ AsmInv /\ AsmInv' /\ LeftCounted /\ LeftCounted'
        /\ [ToolchainNext]_tool_vars => [StepTaken]_tool_vars
  BY CommandAdvances DEF StepTaken
<1>2. ToolchainSpec => []ListInv
  BY ListInvariant
<1>3. ToolchainSpec => []BuildInv
  BY BuildInit, BuildNext, PTL DEF ToolchainSpec
<1>4. ToolchainSpec => []AsmInv
  BY AssemblerInvariant, PTL
<1> QED
  BY <1>1, <1>2, <1>3, <1>4, CountsOfCommand, PTL DEF ToolchainSpec
=============================================================================
