----------------------------- MODULE MCMipsJit -----------------------------
(***************************************************************************)
(* Binaries of up to five instructions over a plain one, a register jump   *)
(* and transfers backward, forward, to themselves and outside, with a cache*)
(* of four slots, two probes and a table of three blocks.                  *)
(***************************************************************************)
EXTENDS MipsJit

Decode(kind, imm, target) == [kind |-> kind, imm |-> imm, target |-> target]

(* The lower half of a jump is the lower half of its target, and that of   *)
(* jr is its function code.                                                *)
MCInstructions ==
  {Decode("plain", 0, 0), Decode("register jump", 2, 0)}
  \union {Decode("branch", n, 0) : n \in {-3, -2, -1, 1}}
  \union {Decode("jump", n, n) : n \in {0, 2, 5}}

MCBinaries ==
  UNION {[1 .. n -> MCInstructions] : n \in 0 .. 4}
  \union {<<a, b, c, d, Decode("branch", -3, 0)>> :
            a \in {Decode("plain", 0, 0)}, b, c, d \in MCInstructions}
=============================================================================
