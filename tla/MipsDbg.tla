------------------------------ MODULE MipsDbg ------------------------------
(***************************************************************************)
(* The debugger, src/src/c/mips_dbg.c, and the command that runs a machine *)
(* under it, cmd_debug of src/src/c/cli.c: before every instruction the    *)
(* command asks mips_dbg_check_bp whether to stop, and at a stop it gives  *)
(* the user a prompt (mips_dbg_interactive) until a command resumes.       *)
(*                                                                         *)
(* Commands that only print (h, i, x) are left out, and so are the fields  *)
(* running and should_break, which decide nothing.                         *)
(***************************************************************************)
EXTENDS MipsVM

CONSTANTS
  MaxBreakpoints, \* DBG_MAX_BREAKPOINTS
  BreakAddrs,     \* the addresses the user sets breakpoints at
  StepCounts,     \* the counts the user gives to "s"
  DebugPrograms   \* the binaries the debugger is started with

ASSUME DbgAssumption ==
  /\ MaxBreakpoints \in Nat \ {0}
  /\ BreakAddrs \subseteq Word
  /\ StepCounts \subseteq Int
  /\ DebugPrograms \subseteq Programs

VARIABLES
  session,              \* where cmd_debug is; "none" in every other command
  bps,                  \* dbg->bps up to bp_count
  stepping, step_count, \* dbg->stepping, dbg->step_count
  armed,                \* history: addresses accepted and not deleted since
  counting,             \* history: the last command to resume was "s"
  asked,                \* history: ... and its count
  executed,             \* history: instructions executed since that "s"
  prompted              \* history: a prompt since the last instruction

table     == <<bps, armed>>
counters  == <<stepping, step_count>>
history   == <<counting, asked, executed, prompted>>
dbg_vars  == <<session, table, counters, history>>

Sessions == {"none", "check", "prompt", "step", "done"}

DbgInit ==
  /\ session = "none"
  /\ bps = << >>
  /\ stepping = FALSE /\ step_count = 0
  /\ armed = {}
  /\ counting = FALSE /\ asked = 0 /\ executed = 0 /\ prompted = FALSE

-----------------------------------------------------------------------------
(* The command starts: a new machine, the binary loaded (a refusal goes    *)
(* unnoticed), and running set without mips_vm_run.                        *)
StartDebug ==
  /\ session = "none" /\ alive /\ loads = 0 /\ calls = 0
  /\ \E p \in DebugPrograms : code' = IF Accepted(p) THEN p ELSE code
  /\ running' = TRUE
  /\ session' = "check"
  /\ UNCHANGED <<data, pc, halted, error, alive, loads, calls, table, counters, history>>

-----------------------------------------------------------------------------
(* The breakpoint table.                                                   *)
(* Mutant of Full: one entry too many.                                     *)
FullLate == Len(bps) > MaxBreakpoints

Full == Len(bps) >= MaxBreakpoints

Entries(a) == {k \in 1 .. Len(bps) : bps[k].addr = a}

Marked(a, on) == [k \in 1 .. Len(bps) |-> IF k \in Entries(a) THEN [bps[k] EXCEPT !.enabled = on]
                                                              ELSE bps[k]]

(* Mutant of Added: an address that is in the table is left as it is.      *)
AddedOnce(a) ==
  IF Entries(a) # {} THEN bps ELSE Append(bps, [addr |-> a, enabled |-> TRUE])

Added(a) ==
  IF Entries(a) # {} THEN Marked(a, TRUE) ELSE Append(bps, [addr |-> a, enabled |-> TRUE])

(* mips_dbg_add_bp refuses whatever the address once the table is full,    *)
(* also one that is in it; the prompt announces the breakpoint all the     *)
(* same.                                                                   *)
SetBreakpoint(a) ==
  /\ session = "prompt"
  /\ ~Full
  /\ bps' = Added(a)
  /\ armed' = armed \union {a}
  /\ UNCHANGED <<vars, session, counters, history>>

(* mips_dbg_del_bp has no command: it is for programs that embed the       *)
(* debugger.                                                               *)
DeleteBreakpoint(a) ==
  /\ session = "prompt"
  /\ bps' = Marked(a, FALSE)
  /\ armed' = armed \ {a}
  /\ UNCHANGED <<vars, session, counters, history>>

-----------------------------------------------------------------------------
(* One round of the loop: leave it, stop at a prompt, or go on.  A step    *)
(* count runs down here, breakpoints are not looked at before it is out.   *)
CountedDown == step_count - 1 <= 0

Hit == \E k \in 1 .. Len(bps) : bps[k].enabled /\ bps[k].addr = pc

(* Mutant of Stops: the count is out one round too late.                   *)
StopsLate == IF stepping THEN step_count - 1 < 0 ELSE Hit \/ pc = 0

Stops == IF stepping THEN CountedDown ELSE Hit \/ pc = 0

(* Mutant of Check: a round that does not stop keeps the count.            *)
CheckKeepsCount ==
  /\ session = "check"
  /\ Looping
  /\ step_count' = IF stepping /\ Stops THEN step_count - 1 ELSE step_count
  /\ stepping' = (stepping /\ ~Stops)
  /\ session' = IF Stops THEN "prompt" ELSE "step"
  /\ prompted' = Stops
  /\ UNCHANGED <<vars, table, counting, asked, executed>>

Check ==
  /\ session = "check"
  /\ Looping
  /\ step_count' = IF stepping THEN step_count - 1 ELSE step_count
  /\ stepping' = (stepping /\ ~Stops)
  /\ session' = IF Stops THEN "prompt" ELSE "step"
  /\ prompted' = Stops
  /\ UNCHANGED <<vars, table, counting, asked, executed>>

LeaveLoop ==
  /\ session = "check"
  /\ ~Looping
  /\ session' = "done"
  /\ UNCHANGED <<vars, table, counters, history>>

(* The prompt's commands that resume: r and c, s with a count, and q or the*)
(* end of the input, which leaves the loop.                                *)
Continue ==
  /\ session = "prompt"
  /\ session' = "step"
  /\ counting' = FALSE /\ asked' = 0 /\ executed' = 0
  /\ UNCHANGED <<vars, table, counters, prompted>>

StepCommand(n) ==
  /\ session = "prompt"
  /\ stepping' = TRUE /\ step_count' = n
  /\ session' = "step"
  /\ counting' = TRUE /\ asked' = n /\ executed' = 0
  /\ UNCHANGED <<vars, table, prompted>>

Quit ==
  /\ session = "prompt"
  /\ session' = "done"
  /\ UNCHANGED <<vars, table, counters, history>>

Prompt ==
  \/ \E a \in BreakAddrs : SetBreakpoint(a) \/ DeleteBreakpoint(a)
  \/ Continue
  \/ \E n \in StepCounts : StepCommand(n)
  \/ Quit

(* One call of mips_vm_step.  executed counts to one more than was asked.  *)
Wanted == IF asked <= 0 THEN 1 ELSE asked

StepMachine ==
  /\ session = "step"
  /\ Step \/ LeaveCode
  /\ session' = "check"
  /\ executed' = IF counting /\ executed <= Wanted THEN executed + 1 ELSE executed
  /\ prompted' = FALSE
  /\ UNCHANGED <<table, counters, counting, asked>>

(* The part of the loop that needs no user.                                *)
Proceed == Check \/ LeaveLoop \/ StepMachine

DbgNext == StartDebug \/ Prompt \/ Proceed

-----------------------------------------------------------------------------
(* The table holds at most MaxBreakpoints entries with different addresses,*)
(* and a countdown belongs to the step command that started it.            *)
DbgTypeOK ==
  /\ session \in Sessions
  /\ bps \in Seq([addr : BreakAddrs, enabled : BOOLEAN]) /\ Len(bps) <= MaxBreakpoints
  /\ \A j, k \in 1 .. Len(bps) : bps[j].addr = bps[k].addr => j = k
  /\ stepping \in BOOLEAN /\ step_count \in Int
  /\ armed \subseteq BreakAddrs
  /\ counting \in BOOLEAN /\ prompted \in BOOLEAN
  /\ asked \in Int /\ executed \in Nat

(* When "s n" comes back to the prompt, exactly n instructions have been   *)
(* executed, and one when n is not positive, although the count is set at  *)
(* the prompt, runs down before an instruction and is compared with 0.     *)
StepsExactly == session = "prompt" /\ counting => executed = Wanted

(* An instruction at a breakpoint that add_bp accepted and nobody deleted  *)
(* is never executed without a prompt just before it, but while stepping,  *)
(* and without a step count the prompt comes up at breakpoints and at      *)
(* address 0 only: entries are disabled, enabled again and refused, so the *)
(* table is not the set of the breakpoints that were asked for.            *)
BreakpointHonoured ==
  /\ StepMachine /\ ~stepping /\ pc \in armed => prompted
  /\ Check /\ ~stepping /\ session' = "prompt" => pc \in armed \union {0}

BreakpointsHonoured == [][BreakpointHonoured]_<<vars, dbg_vars>>

(* A step command comes back to the prompt, or the machine stops.          *)
SteppingEnds == session = "step" /\ stepping ~> session \in {"prompt", "done"}
=============================================================================
