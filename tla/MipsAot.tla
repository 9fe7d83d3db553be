------------------------------ MODULE MipsAot ------------------------------
(***************************************************************************)
(* The optimiser of --aot, src/src/c/mips_aot.c, as functions from binaries*)
(* to binaries, and the run command that uses it: the machine of MipsVM    *)
(* gets the optimised binary, a second one (plain) the original, and both  *)
(* run on their own.                                                       *)
(***************************************************************************)
EXTENDS MipsVM

VARIABLES
  p_regs, p_hi, p_lo, p_stack, p_heap_used, p_pc, p_code,
  p_running, p_halted, p_error, p_alive, p_loads, p_calls

p_data  == <<p_regs, p_hi, p_lo, p_stack, p_heap_used>>
p_flags == <<p_running, p_halted, p_error>>
p_vars  == <<p_data, p_pc, p_flags, p_code, p_alive, p_loads, p_calls>>

plain == INSTANCE MipsVM WITH
  regs <- p_regs, hi <- p_hi, lo <- p_lo, stack <- p_stack,
  heap_used <- p_heap_used, pc <- p_pc, code <- p_code,
  running <- p_running, halted <- p_halted, error <- p_error,
  alive <- p_alive, loads <- p_loads, calls <- p_calls

-----------------------------------------------------------------------------
(* Raw word 0 is sll $zero, $zero, 0.                                      *)
IsNop(i) == i = [op |-> "sll", rs |-> Zero, rt |-> Zero, rd |-> Zero, shamt |-> 0, imm |-> 0]

AlwaysTaken(i) == i.op = "beq" /\ i.rs = Zero /\ i.rt = Zero

IsUncondBranch(i) == i.op \in JumpOps \union {"syscall"} \/ AlwaysTaken(i)

IsTerminator(i) == i.op \in {"j", "jr", "syscall"}

Upto(s, n) == IF n < Len(s) THEN SubSeq(s, 1, n) ELSE s

(* aot_emit and the first copy drop what does not fit.                     *)
Fitting(s) == Upto(s, CodeMax \div 4)

(* A nop behind a branch stays, one at the end goes, a row of them keeps   *)
(* its first.  Addresses in the rest of the binary are not adjusted.       *)
NopElim(p) ==
  LET n == Len(p)
      slot(k)   == k > 1 /\ IsUncondBranch(p[k - 1]) /\ ~IsTerminator(p[k - 1])
      behind(k) == CHOOSE j \in k + 1 .. n + 1 :
                     /\ j = n + 1 \/ ~IsNop(p[j])
                     /\ \A m \in k + 1 .. j - 1 : IsNop(p[m])
      from[k \in 1 .. n + 1] ==
        CASE k > n                                       -> << >>
          [] k <= n /\ (~IsNop(p[k]) \/ slot(k))         -> <<p[k]>> \o from[k + 1]
          [] k = n /\ IsNop(p[k]) /\ ~slot(k)            -> << >>
          [] k < n /\ IsNop(p[k]) /\ ~slot(k)            -> <<p[k]>> \o from[behind(k)]
  IN  from[1]

(* beq $zero, $zero becomes j; the word behind it is copied.               *)
BranchOpt(p) ==
  LET n == Len(p)
      jump(k) == [p[k] EXCEPT !.op = "j", !.imm = k + p[k].imm]
      from[k \in 1 .. n + 1] ==
        IF k > n THEN << >>
        ELSE IF AlwaysTaken(p[k])
        THEN <<jump(k)>> \o (IF k < n THEN <<p[k + 1]>> \o from[k + 2] ELSE << >>)
        ELSE <<p[k]>> \o from[k + 1]
  IN  from[1]

ToHalf(v) == SignExtend(v % HalfBase, HalfBase)

(* addiu $x, $zero, A and addiu $y, $x, B, or ori $x, $x, B, become one.   *)
ConstFold(p) ==
  LET n == Len(p)
      const(k) == p[k].op = "addiu" /\ p[k].rs = Zero
      adds(k)  == p[k + 1].op = "addiu" /\ p[k + 1].rs = p[k].rt /\ p[k + 1].rt # p[k].rt
      ors(k)   == p[k + 1].op = "ori" /\ p[k + 1].rs = p[k].rt /\ p[k + 1].rt = p[k].rt
      sum(k)   == [p[k + 1] EXCEPT !.rs = Zero, !.imm = ToHalf(p[k].imm + p[k + 1].imm)]
      either(k) == [p[k] EXCEPT !.imm = ToHalf(BitOr(UImm(p[k]), UImm(p[k + 1])))]
      from[k \in 1 .. n + 1] ==
        IF k > n THEN << >>
        ELSE IF k < n /\ const(k) /\ adds(k) THEN <<sum(k)>> \o from[k + 2]
        ELSE IF k < n /\ const(k) /\ ors(k)  THEN <<either(k)>> \o from[k + 2]
        ELSE <<p[k]>> \o from[k + 1]
  IN  from[1]

(* Everything from the second word behind the first terminator on goes.    *)
DeadCode(p) ==
  LET first(k) == IsTerminator(p[k]) /\ \A j \in 1 .. k - 1 : ~IsTerminator(p[j])
  IN  IF \E k \in DOMAIN p : IsTerminator(p[k])
      THEN Upto(p, (CHOOSE k \in DOMAIN p : first(k)) + 1)
      ELSE p

(* Pass 1 appends its output to a copy of the binary, and pass 2 sets the  *)
(* length to 0 before it takes its input from there.                       *)
Optimize(p) ==
  LET pass1 == Fitting(p \o NopElim(p))
      pass2 == BranchOpt(SubSeq(pass1, 1, 0))
  IN  DeadCode(ConstFold(pass2))

-----------------------------------------------------------------------------
AotInit == Init /\ plain!Init

(* cmd_run: optimise, load, run.                                           *)
LoadBoth ==
  /\ loads = 0 /\ loads' = 1 /\ p_loads' = 1
  /\ \E p \in Programs :
       /\ code' = IF Accepted(Optimize(p)) THEN Optimize(p) ELSE code
       /\ p_code' = IF Accepted(p) THEN p ELSE p_code
  /\ UNCHANGED <<data, pc, flags, alive, calls>>
  /\ UNCHANGED <<p_data, p_pc, p_flags, p_alive, p_calls>>

RunBoth == loads = 1 /\ Run /\ plain!Run

AotNext ==
  \/ LoadBoth
  \/ RunBoth
  \/ (Step \/ LeaveCode) /\ UNCHANGED p_vars
  \/ (plain!Step \/ plain!LeaveCode) /\ UNCHANGED vars

AotSpec == AotInit /\ [][AotNext]_<<vars, p_vars>>

(* docs/aot.md: the optimised version of a binary "runs identically but    *)
(* with fewer instructions".  When both machines have stopped they have    *)
(* computed the same and stopped for the same reason.                      *)
RunsIdentically ==
  calls = 1 /\ ~Looping /\ ~plain!Looping =>
    /\ <<regs, hi, lo, stack, heap_used>> = <<p_regs, p_hi, p_lo, p_stack, p_heap_used>>
    /\ <<halted, error, alive>> = <<p_halted, p_error, p_alive>>
=============================================================================
