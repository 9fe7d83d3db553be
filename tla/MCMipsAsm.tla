----------------------------- MODULE MCMipsAsm -----------------------------
(***************************************************************************)
(* Every source of up to four lines, over lines that define and use three  *)
(* labels with room for two, and statements of every size: the passes      *)
(* agree and disagree, tables and buffer overflow, addresses have one half *)
(* and two.                                                                *)
(***************************************************************************)
EXTENDS MipsAsm

Line(def, op, num, ref) == [def |-> def, op |-> op, num |-> num, ref |-> ref]
Statement(op, num)      == Line(NoName, op, num, NoName)
To(op, ref)             == Line(NoName, op, 0, ref)

MCNames == {"A", "B", "C"}

MCLines ==
  { Line("A", "blank", 0, NoName), Line("B", "plain", 0, NoName),
    Line("C", "branch", 0, "A"),
    To("branch", "B"), To("jump", "A"), To("li", "B"), To("branch", "C"),
    Statement("li", 9), Statement("li", 8), Statement("byte", 0), Statement("string", 3),
    Statement("space", 4), Statement("word", 0), Statement("unknown", 0),
    Statement("bad_number", 0) }

MCSources == UNION {[1 .. n -> MCLines] : n \in 0 .. 4}

(* For the forward references: a branch to A, then up to three lines, one  *)
(* of which may define A, and constants of two halves.                     *)
ForwardLines == {To("branch", "A"), Statement("li", 9), Line("A", "plain", 0, NoName)}

ForwardSources == {<<To("branch", "A")>> \o s : s \in UNION {[1 .. n -> ForwardLines] : n \in 0 .. 3}}
=============================================================================
