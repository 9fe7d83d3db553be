----------------------------- MODULE MipsHosts -----------------------------
(***************************************************************************)
(* The commands of src/src/c/cli.c that drive a machine, and programs that *)
(* embed one: MipsVM's own host calls, in any order, the debugger, and the *)
(* ELF runner.  A process runs one command.                                *)
(***************************************************************************)
EXTENDS MipsDbg, MipsElf

HostVars == <<vars, dbg_vars, elf>>

HostInit == Init /\ DbgInit /\ elf = NoFile

Embedded == session = "none" /\ Next /\ UNCHANGED <<dbg_vars, elf>>

ElfCommand == session = "none" /\ RunElf /\ UNCHANGED dbg_vars

DebugCommand == elf = NoFile /\ DbgNext /\ UNCHANGED elf

HostNext ==
  \/ Embedded
  \/ ElfCommand
  \/ DebugCommand

HostSpec == HostInit /\ [][HostNext]_HostVars

(* Both loops, of mips_vm_run and of cmd_debug, are in the only thread and *)
(* never pause; the user at the prompt may.                                *)
RunLoop ==
  /\ session = "none" /\ (Step \/ LeaveCode)
  /\ UNCHANGED <<dbg_vars, elf>>

FairHostSpec ==
  /\ HostSpec
  /\ WF_HostVars(RunLoop)
  /\ WF_HostVars(elf = NoFile /\ Proceed /\ UNCHANGED elf)

-----------------------------------------------------------------------------
(* A run over code whose transfers all go forward comes to an end, and in a*)
(* debugging session every resumption does, at a prompt if not with the    *)
(* machine: every instruction moves on or stops the loop.                  *)
ForwardRunsEnd ==
  Looping /\ ForwardCode /\ pc % 4 = 0 ~> ~Looping \/ session \in {"prompt", "done"}
=============================================================================
