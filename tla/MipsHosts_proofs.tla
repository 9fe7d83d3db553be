-------------------------- MODULE MipsHosts_proofs --------------------------
(***************************************************************************)
(* The debugger's promises, for every table size, set of breakpoints and   *)
(* step counts, and every machine under it: the argument never looks into  *)
(* an instruction, only at the rounds of cmd_debug's loop.  Then the ELF   *)
(* runner's: the code is the file's image, for every file.  Last, what     *)
(* MipsVM_proofs shows of the machine by itself, in every command.         *)
(***************************************************************************)
EXTENDS MipsHosts, MipsVM_proofs, TLAPS, WellFoundedInduction

EntryType == [addr : BreakAddrs, enabled : BOOLEAN]

(* The enabled entries are the breakpoints that were asked for.            *)
Armed == \A a : a \in armed <=> \E k \in 1 .. Len(bps) : bps[k].addr = a /\ bps[k].enabled

(* While stepping, what was executed and what is left make up the count;   *)
(* between an instruction and the next check one round more is left.       *)
Remaining(rounds) == step_count = asked - executed + rounds

Counted ==
  /\ session = "none" => ~counting /\ ~stepping
  /\ session = "prompt" => prompted /\ ~stepping
  /\ session = "prompt" /\ counting => executed = Wanted
  /\ session \in {"step", "check"} => (stepping <=> counting)
  /\ session = "step" /\ counting => Remaining(0) /\ (executed > 0 => step_count > 0)
  /\ session = "check" /\ counting => Remaining(1) /\ executed > 0 /\ executed <= Wanted

(* An instruction about to be executed at a breakpoint was announced.      *)
Announced == session = "step" /\ ~stepping /\ pc \in armed => prompted

DbgInv == DbgTypeOK /\ Armed /\ Counted /\ Announced

-----------------------------------------------------------------------------
(* The breakpoint table.                                                   *)
LEMMA MarkedTable ==
  ASSUME DbgTypeOK, NEW a, NEW on \in BOOLEAN
  PROVE  /\ Marked(a, on) \in Seq(EntryType)
         /\ Len(Marked(a, on)) = Len(bps)
         /\ \A k \in 1 .. Len(bps) :
              /\ Marked(a, on)[k].addr = bps[k].addr
              /\ bps[k].addr = a => Marked(a, on)[k].enabled = on
              /\ bps[k].addr # a => Marked(a, on)[k].enabled = bps[k].enabled
<1>1. bps \in Seq(EntryType) /\ Len(bps) \in Nat
  BY DEF DbgTypeOK, EntryType
<1>2. \A k \in 1 .. Len(bps) : bps[k] \in EntryType
  BY <1>1
<1>3. \A k \in 1 .. Len(bps) : Marked(a, on)[k] =
        IF bps[k].addr = a THEN [bps[k] EXCEPT !.enabled = on] ELSE bps[k]
  BY DEF Marked, Entries
<1>4. \A k \in 1 .. Len(bps) : Marked(a, on)[k] \in EntryType
  BY <1>2, <1>3 DEF EntryType
<1>5. Marked(a, on) \in [1 .. Len(bps) -> EntryType]
  BY <1>4 DEF Marked
<1>6. Marked(a, on) \in Seq(EntryType) /\ Len(Marked(a, on)) = Len(bps)
  BY <1>1, <1>5
<1> QED
  BY <1>2, <1>3, <1>6 DEF EntryType

(* A new entry goes behind the others.                                     *)
LEMMA AppendedTable ==
  ASSUME DbgTypeOK, NEW a \in BreakAddrs,
         NEW e, e = [addr |-> a, enabled |-> TRUE]
  PROVE  /\ Append(bps, e) \in Seq(EntryType)
         /\ Len(Append(bps, e)) = Len(bps) + 1
         /\ \A k \in 1 .. Len(bps) : Append(bps, e)[k] = bps[k]
         /\ Append(bps, e)[Len(bps) + 1] = e
<1>1. bps \in Seq(EntryType) /\ Len(bps) \in Nat /\ e \in EntryType
  BY DEF DbgTypeOK, EntryType
<1> QED
  BY <1>1

-----------------------------------------------------------------------------
LEMMA DbgStart == HostInit => DbgInv
<1> SUFFICES ASSUME HostInit PROVE DbgInv
  OBVIOUS
<1>1. /\ session = "none" /\ bps = << >> /\ armed = {}
      /\ stepping = FALSE /\ step_count = 0
      /\ counting = FALSE /\ asked = 0 /\ executed = 0 /\ prompted = FALSE
  BY DEF HostInit, DbgInit
<1>2. bps \in Seq(EntryType) /\ Len(bps) = 0 /\ MaxBreakpoints \in Nat
  BY <1>1, DbgAssumption
<1>3. \A k \in 1 .. Len(bps) : FALSE
  BY <1>2
<1>4. DbgTypeOK
  <2>1. bps \in Seq([addr : BreakAddrs, enabled : BOOLEAN]) /\ Len(bps) <= MaxBreakpoints
    BY <1>2, DbgAssumption DEF EntryType
  <2>2. \A j, k \in 1 .. Len(bps) : bps[j].addr = bps[k].addr => j = k
    BY <1>3
  <2>3. /\ session \in Sessions /\ armed \subseteq BreakAddrs
        /\ stepping \in BOOLEAN /\ counting \in BOOLEAN /\ prompted \in BOOLEAN
    BY <1>1, Zenon DEF Sessions
  <2>4. step_count \in Int /\ asked \in Int /\ executed \in Nat
    BY <1>1
  <2> QED
    BY <2>1, <2>2, <2>3, <2>4 DEF DbgTypeOK
<1>5. Armed
  BY <1>1, <1>3 DEF Armed
<1> QED
  BY <1>1, <1>4, <1>5 DEF DbgInv, Counted, Announced

(* Whatever leaves the debugger's state alone while no session runs.       *)
LEMMA OutsideKeeps ==
  ASSUME DbgInv, session = "none", UNCHANGED dbg_vars
  PROVE  DbgInv'
BY DEF DbgInv, DbgTypeOK, Armed, Counted, Announced, Remaining, Wanted, dbg_vars, table,
       counters, history

LEMMA StartKeeps ==
  ASSUME DbgInv, StartDebug
  PROVE  DbgInv'
BY DEF StartDebug, DbgInv, DbgTypeOK, Sessions, Armed, Counted, Announced, Remaining, Wanted,
       table, counters, history

(* A change of the table at the prompt.                                    *)
LEMMA TableKeeps ==
  ASSUME DbgInv, session = "prompt", UNCHANGED <<vars, session, counters, history>>,
         bps' \in Seq(EntryType), Len(bps') <= MaxBreakpoints,
         \A j, k \in 1 .. Len(bps') : bps'[j].addr = bps'[k].addr => j = k,
         armed' \subseteq BreakAddrs,
         Armed'
  PROVE  DbgInv'
<1>1. DbgTypeOK'
  BY DEF DbgInv, DbgTypeOK, EntryType, counters, history
<1>2. Counted' /\ Announced'
  BY DEF DbgInv, Counted, Announced, Remaining, Wanted, counters, history
<1> QED
  BY <1>1, <1>2 DEF DbgInv

LEMMA SetKeeps ==
  ASSUME DbgInv, NEW a \in BreakAddrs, SetBreakpoint(a)
  PROVE  DbgInv'
<1>1. /\ DbgTypeOK /\ Armed
      /\ session = "prompt" /\ UNCHANGED <<vars, session, counters, history>>
      /\ bps' = Added(a) /\ armed' = armed \union {a} /\ ~Full
  BY DEF DbgInv, SetBreakpoint
<1>2. Len(bps) \in Nat /\ Len(bps) < MaxBreakpoints /\ MaxBreakpoints \in Nat
  BY <1>1, DbgAssumption DEF DbgTypeOK, Full
<1>3. armed' \subseteq BreakAddrs
  BY <1>1 DEF DbgTypeOK
<1>4. \A j, k \in 1 .. Len(bps) : bps[j].addr = bps[k].addr => j = k
  BY <1>1 DEF DbgTypeOK
<1>5. CASE Entries(a) # {}
  <2>1. bps' = Marked(a, TRUE)
    BY <1>1, <1>5 DEF Added
  <2>2. PICK own \in 1 .. Len(bps) : bps[own].addr = a
    BY <1>5 DEF Entries
  <2>3. /\ bps' \in Seq(EntryType) /\ Len(bps') = Len(bps)
        /\ \A k \in 1 .. Len(bps) :
             /\ bps'[k].addr = bps[k].addr
             /\ bps[k].addr = a => bps'[k].enabled = TRUE
             /\ bps[k].addr # a => bps'[k].enabled = bps[k].enabled
    <3>1. /\ Marked(a, TRUE) \in Seq(EntryType) /\ Len(Marked(a, TRUE)) = Len(bps)
          /\ \A k \in 1 .. Len(bps) :
               /\ Marked(a, TRUE)[k].addr = bps[k].addr
               /\ bps[k].addr = a => Marked(a, TRUE)[k].enabled = TRUE
               /\ bps[k].addr # a => Marked(a, TRUE)[k].enabled = bps[k].enabled
      BY <1>1, MarkedTable, Zenon
    <3> QED
      BY <2>1, <3>1
  <2>4. Armed'
    <3> SUFFICES ASSUME NEW x
                 PROVE  x \in armed' <=> \E k \in 1 .. Len(bps) : bps'[k].addr = x /\ bps'[k].enabled
      BY <2>3 DEF Armed
    <3>1. CASE x = a
      BY <3>1, <1>1, <2>2, <2>3
    <3>2. CASE x # a
      <4>1. x \in armed' <=> x \in armed
        BY <3>2, <1>1
      <4>2. ASSUME NEW k \in 1 .. Len(bps)
            PROVE  bps'[k].addr = x /\ bps'[k].enabled <=> bps[k].addr = x /\ bps[k].enabled
        BY <3>2, <2>3
      <4> QED
        BY <4>1, <4>2, <1>1 DEF Armed
    <3> QED
      BY <3>1, <3>2
  <2>5. \A j, k \in 1 .. Len(bps') : bps'[j].addr = bps'[k].addr => j = k
    BY <1>4, <2>3
  <2> QED
    BY <1>1, <1>2, <1>3, <2>3, <2>4, <2>5, TableKeeps
<1>6. CASE Entries(a) = {}
  <2> DEFINE e == [addr |-> a, enabled |-> TRUE]
             last == Len(bps) + 1
  <2>1. bps' = Append(bps, e)
    BY <1>1, <1>6 DEF Added
  <2>2. /\ bps' \in Seq(EntryType) /\ Len(bps') = last
        /\ \A k \in 1 .. Len(bps) : bps'[k] = bps[k]
        /\ bps'[last] = e
    BY <1>1, <2>1, AppendedTable
  <2>3. \A k \in 1 .. Len(bps) : bps[k].addr # a
    BY <1>6 DEF Entries
  <2>4. \A k \in 1 .. last : k \in 1 .. Len(bps) \/ k = last
    BY <1>2
  <2>5. last \in 1 .. last /\ 1 .. Len(bps) \subseteq 1 .. last
    BY <1>2
  <2>6. bps'[last].addr = a /\ bps'[last].enabled
    BY <2>2
  <2>7. Armed'
    <3> SUFFICES ASSUME NEW x
                 PROVE  x \in armed' <=> \E k \in 1 .. last : bps'[k].addr = x /\ bps'[k].enabled
      BY <2>2 DEF Armed
    <3>1. x \in armed' <=> x \in armed \/ x = a
      BY <1>1
    <3>2. (\E k \in 1 .. last : bps'[k].addr = x /\ bps'[k].enabled)
          <=> (\E k \in 1 .. Len(bps) : bps[k].addr = x /\ bps[k].enabled) \/ x = a
      BY <2>2, <2>4, <2>5, <2>6
    <3> QED
      BY <1>1, <3>1, <3>2 DEF Armed
  <2>8. \A j, k \in 1 .. last : bps'[j].addr = bps'[k].addr => j = k
    <3> SUFFICES ASSUME NEW j \in 1 .. last, NEW k \in 1 .. last, bps'[j].addr = bps'[k].addr
                 PROVE  j = k
      OBVIOUS
    <3>1. CASE j \in 1 .. Len(bps) /\ k \in 1 .. Len(bps)
      BY <3>1, <1>4, <2>2
    <3>2. CASE j = last \/ k = last
      BY <3>2, <2>2, <2>3, <2>4, <2>6
    <3> QED
      BY <3>1, <3>2, <2>4
  <2> QED
    BY <1>1, <1>2, <1>3, <2>2, <2>7, <2>8, TableKeeps
<1> QED
  BY <1>5, <1>6

LEMMA DeleteKeeps ==
  ASSUME DbgInv, NEW a \in BreakAddrs, DeleteBreakpoint(a)
  PROVE  DbgInv'
<1>1. /\ DbgTypeOK /\ Armed
      /\ session = "prompt" /\ UNCHANGED <<vars, session, counters, history>>
      /\ bps' = Marked(a, FALSE) /\ armed' = armed \ {a}
  BY DEF DbgInv, DeleteBreakpoint
<1>2. /\ bps' \in Seq(EntryType) /\ Len(bps') = Len(bps)
      /\ \A k \in 1 .. Len(bps) :
           /\ bps'[k].addr = bps[k].addr
           /\ bps[k].addr = a => bps'[k].enabled = FALSE
           /\ bps[k].addr # a => bps'[k].enabled = bps[k].enabled
  <2>1. /\ Marked(a, FALSE) \in Seq(EntryType) /\ Len(Marked(a, FALSE)) = Len(bps)
        /\ \A k \in 1 .. Len(bps) :
             /\ Marked(a, FALSE)[k].addr = bps[k].addr
             /\ bps[k].addr = a => Marked(a, FALSE)[k].enabled = FALSE
             /\ bps[k].addr # a => Marked(a, FALSE)[k].enabled = bps[k].enabled
    BY <1>1, MarkedTable, Zenon
  <2> QED
    BY <1>1, <2>1
<1>3. armed' \subseteq BreakAddrs /\ Len(bps') <= MaxBreakpoints
  BY <1>1, <1>2 DEF DbgTypeOK
<1>4. \A j, k \in 1 .. Len(bps') : bps'[j].addr = bps'[k].addr => j = k
  <2>1. \A j, k \in 1 .. Len(bps) : bps[j].addr = bps[k].addr => j = k
    BY <1>1 DEF DbgTypeOK
  <2> QED
    BY <1>2, <2>1
<1>5. Armed'
  <2> SUFFICES ASSUME NEW x
               PROVE  x \in armed' <=> \E k \in 1 .. Len(bps) : bps'[k].addr = x /\ bps'[k].enabled
    BY <1>2 DEF Armed
  <2>1. CASE x = a
    BY <2>1, <1>1, <1>2
  <2>2. CASE x # a
    <3>1. x \in armed' <=> x \in armed
      BY <2>2, <1>1
    <3>2. ASSUME NEW k \in 1 .. Len(bps)
          PROVE  bps'[k].addr = x /\ bps'[k].enabled <=> bps[k].addr = x /\ bps[k].enabled
      BY <2>2, <1>2
    <3> QED
      BY <3>1, <3>2, <1>1 DEF Armed
  <2> QED
    BY <2>1, <2>2
<1> QED
  BY <1>1, <1>2, <1>3, <1>4, <1>5, TableKeeps

-----------------------------------------------------------------------------
(* Steps that leave the table alone.                                       *)
LEMMA ArmedKept == ASSUME Armed, UNCHANGED table PROVE Armed'
BY DEF Armed, table

(* The rounds of the loop.                                                 *)
LEMMA CheckKeeps ==
  ASSUME DbgInv, Check
  PROVE  DbgInv'
<1>1. /\ DbgTypeOK /\ Armed /\ Counted
      /\ session = "check" /\ UNCHANGED <<table, counting, asked, executed>> /\ UNCHANGED vars
      /\ step_count' = IF stepping THEN step_count - 1 ELSE step_count
      /\ stepping' = (stepping /\ ~Stops)
      /\ session' = IF Stops THEN "prompt" ELSE "step"
      /\ prompted' = Stops
  BY DEF DbgInv, Check
<1>2. /\ step_count \in Int /\ asked \in Int /\ executed \in Nat
      /\ stepping \in BOOLEAN /\ counting \in BOOLEAN
  BY <1>1 DEF DbgTypeOK
<1>3. Stops \in BOOLEAN
  <2>1. CountedDown \in BOOLEAN /\ Hit \in BOOLEAN
    BY DEF CountedDown, Hit
  <2> QED
    BY <1>2, <2>1 DEF Stops
<1>4. DbgTypeOK'
  BY <1>1, <1>2, <1>3 DEF DbgTypeOK, Sessions, table
<1>5. Armed'
  BY <1>1, ArmedKept
<1>6. pc' = pc /\ armed' = armed
  BY <1>1 DEF vars, table
<1>7. CASE Stops
  <2>1. session' = "prompt" /\ prompted' /\ ~stepping'
    BY <1>1, <1>7
  <2>2. ASSUME counting' PROVE executed' = Wanted'
    <3>1. counting /\ stepping /\ Remaining(1) /\ executed > 0 /\ executed <= Wanted
      BY <1>1, <2>2 DEF Counted
    <3>2. step_count - 1 <= 0
      BY <1>7, <3>1 DEF Stops, CountedDown
    <3>3. executed = Wanted
      BY <1>2, <3>1, <3>2 DEF Remaining, Wanted
    <3> QED
      BY <1>1, <3>3 DEF Wanted
  <2>3. Counted' /\ Announced'
    BY <2>1, <2>2 DEF Counted, Announced
  <2> QED
    BY <1>4, <1>5, <2>3 DEF DbgInv
<1>8. CASE ~Stops
  <2>1. session' = "step" /\ stepping' = stepping
    BY <1>1, <1>2, <1>8
  <2>2. stepping' <=> counting'
    BY <1>1, <2>1 DEF Counted
  <2>3. ASSUME counting' PROVE Remaining(0)' /\ step_count' > 0
    <3>1. counting /\ stepping /\ Remaining(1)
      BY <1>1, <2>3 DEF Counted
    <3>2. ~(step_count - 1 <= 0)
      BY <1>8, <3>1 DEF Stops, CountedDown
    <3> QED
      BY <1>1, <1>2, <3>1, <3>2 DEF Remaining
  <2>4. ASSUME ~stepping' PROVE pc' \notin armed'
    <3>1. ~Hit
      BY <1>8, <2>1, <2>4 DEF Stops
    <3> QED
      BY <1>1, <1>6, <3>1 DEF Hit, Armed
  <2>5. Counted'
    BY <2>1, <2>2, <2>3 DEF Counted
  <2>6. Announced'
    BY <2>4 DEF Announced
  <2> QED
    BY <1>4, <1>5, <2>5, <2>6 DEF DbgInv
<1> QED
  BY <1>3, <1>7, <1>8

LEMMA LeaveKeeps ==
  ASSUME DbgInv, session' = "done", UNCHANGED <<table, counters, history>>
  PROVE  DbgInv'
BY ArmedKept DEF DbgInv, DbgTypeOK, Sessions, Counted, Announced, table, counters, history

LEMMA ContinueKeeps ==
  ASSUME DbgInv, Continue
  PROVE  DbgInv'
<1>1. /\ DbgTypeOK /\ Armed /\ prompted /\ ~stepping
      /\ session' = "step" /\ counting' = FALSE /\ asked' = 0 /\ executed' = 0
      /\ UNCHANGED <<table, counters, prompted>>
  BY DEF DbgInv, Continue, Counted
<1>2. stepping' = stepping /\ prompted' = prompted
  BY <1>1 DEF counters
<1>3. Armed'
  BY <1>1, ArmedKept
<1>4. DbgTypeOK'
  <2>1. session' \in Sessions /\ counting' \in BOOLEAN
    BY <1>1, Zenon DEF Sessions
  <2>2. UNCHANGED <<bps, armed, stepping, step_count, prompted>>
    BY <1>1 DEF table, counters
  <2>3. asked' \in Int /\ executed' \in Nat
    BY <1>1
  <2> QED
    BY <1>1, <2>1, <2>2, <2>3 DEF DbgTypeOK
<1>5. Counted' /\ Announced'
  BY <1>1, <1>2 DEF Counted, Announced
<1> QED
  BY <1>3, <1>4, <1>5 DEF DbgInv

LEMMA StepCommandKeeps ==
  ASSUME DbgInv, NEW n \in StepCounts, StepCommand(n)
  PROVE  DbgInv'
<1>1. n \in Int
  BY DbgAssumption
<1> QED
  BY <1>1, ArmedKept
     DEF DbgInv, StepCommand, DbgTypeOK, Sessions, Counted, Announced, Remaining, table

LEMMA MachineKeeps ==
  ASSUME DbgInv, StepMachine
  PROVE  DbgInv'
<1>1. /\ DbgTypeOK /\ Armed /\ Counted
      /\ session = "step" /\ session' = "check" /\ prompted' = FALSE
      /\ UNCHANGED <<table, counters, counting, asked>>
      /\ executed' = IF counting /\ executed <= Wanted THEN executed + 1 ELSE executed
  BY DEF DbgInv, StepMachine
<1>2. step_count \in Int /\ asked \in Int /\ executed \in Nat
  BY <1>1 DEF DbgTypeOK
<1>3. DbgTypeOK' /\ Armed'
  <2>1. executed' \in Nat
    BY <1>1, <1>2
  <2>2. DbgTypeOK'
    BY <1>1, <2>1 DEF DbgTypeOK, Sessions, table, counters
  <2> QED
    BY <1>1, <2>2, ArmedKept
<1>4. ASSUME counting PROVE executed' = executed + 1 /\ executed' <= Wanted /\ Remaining(1)'
  <2>1. Remaining(0) /\ (executed > 0 => step_count > 0)
    BY <1>1, <1>4 DEF Counted
  <2>2. executed + 1 <= Wanted
    BY <1>2, <2>1 DEF Remaining, Wanted
  <2>3. executed' = executed + 1
    BY <1>1, <1>2, <1>4, <2>2 DEF Wanted
  <2> QED
    BY <1>1, <1>2, <2>1, <2>2, <2>3 DEF Remaining, counters
<1>5. Wanted' = Wanted
  BY <1>1 DEF Wanted
<1>6. Counted'
  BY <1>1, <1>2, <1>4, <1>5 DEF Counted, counters
<1>7. Announced'
  BY <1>1 DEF Announced
<1> QED
  BY <1>3, <1>6, <1>7 DEF DbgInv

(* Every step of every command.                                            *)
LEMMA DbgStep == DbgInv /\ [HostNext]_HostVars => DbgInv'
<1> SUFFICES ASSUME DbgInv, [HostNext]_HostVars PROVE DbgInv'
  OBVIOUS
<1>1. CASE Embedded
  BY <1>1, OutsideKeeps DEF Embedded
<1>2. CASE ElfCommand
  BY <1>2, OutsideKeeps DEF ElfCommand
<1>3. CASE DebugCommand
  <2>1. DbgNext
    BY <1>3 DEF DebugCommand
  <2>2. CASE StartDebug
    BY <2>2, StartKeeps
  <2>3. CASE Prompt
    <3>1. ASSUME NEW a \in BreakAddrs, SetBreakpoint(a) \/ DeleteBreakpoint(a) PROVE DbgInv'
      BY <3>1, SetKeeps, DeleteKeeps
    <3>2. CASE Quit
      BY <3>2, LeaveKeeps DEF Quit
    <3> QED
      BY <2>3, <3>1, <3>2, ContinueKeeps, StepCommandKeeps DEF Prompt
  <2>4. CASE Proceed
    <3>1. CASE LeaveLoop
      BY <3>1, LeaveKeeps DEF LeaveLoop
    <3> QED
      BY <2>4, <3>1, CheckKeeps, MachineKeeps DEF Proceed
  <2> QED
    BY <2>1, <2>2, <2>3, <2>4 DEF DbgNext
<1>4. CASE UNCHANGED HostVars
  BY <1>4 DEF HostVars, vars, dbg_vars, table, counters, history,
              DbgInv, DbgTypeOK, Armed, Counted, Announced, Remaining, Wanted
<1> QED
  BY <1>1, <1>2, <1>3, <1>4 DEF HostNext

(* What the loop and the prompt keep true, in every command.               *)
THEOREM DbgCorrect == HostSpec => []DbgInv
BY DbgStart, DbgStep, PTL DEF HostSpec

(* The table holds at most MaxBreakpoints entries with different addresses,*)
(* however often breakpoints are set, deleted and set again.               *)
THEOREM DbgTypeCorrect == HostSpec => []DbgTypeOK
<1>1. DbgInv => DbgTypeOK
  BY DEF DbgInv
<1> QED
  BY <1>1, DbgCorrect, PTL

(* "s n" executes n instructions, and one when n is not positive.          *)
THEOREM StepCommandExact == HostSpec => []StepsExactly
<1>1. DbgInv => StepsExactly
  BY DEF DbgInv, Counted, StepsExactly
<1> QED
  BY <1>1, DbgCorrect, PTL

(* No instruction at a breakpoint is executed without a prompt just before *)
(* it, and no prompt comes up elsewhere.                                   *)
THEOREM BreakpointsStop == HostSpec => BreakpointsHonoured
<1>1. DbgInv /\ [HostNext]_HostVars => [BreakpointHonoured]_<<vars, dbg_vars>>
  <2> SUFFICES ASSUME DbgInv PROVE BreakpointHonoured
    OBVIOUS
  <2>1. StepMachine /\ ~stepping /\ pc \in armed => prompted
    BY DEF StepMachine, DbgInv, Announced
  <2>2. ASSUME Check, ~stepping, session' = "prompt" PROVE pc \in armed \union {0}
    <3>1. Stops
      BY <2>2 DEF Check
    <3>2. Hit \/ pc = 0
      BY <2>2, <3>1 DEF Stops
    <3> QED
      BY <3>2 DEF Hit, DbgInv, Armed
  <2> QED
    BY <2>1, <2>2 DEF BreakpointHonoured
<1> QED
  BY <1>1, DbgCorrect, PTL DEF HostSpec, BreakpointsHonoured

(* The rounds of cmd_debug's loop until the prompt comes back: each wanted *)
(* instruction is executed in one and looked for in another.               *)
RoundsToPrompt ==
  IF session = "check" THEN 2 * (Wanted - executed) ELSE 2 * (Wanted - executed) - 1

RoundTaken ==
  stepping /\ session \in {"check", "step"} =>
    \/ session' \in {"prompt", "done"}
    \/ /\ stepping' /\ session' \in {"check", "step"}
       /\ RoundsToPrompt \in Nat /\ RoundsToPrompt' \in Nat
       /\ RoundsToPrompt' < RoundsToPrompt

(* An instruction is executed only while some are wanted, also when the    *)
(* count that was asked for is not positive.                               *)
LEMMA RoundsCounted ==
  ASSUME DbgInv, stepping, session \in {"check", "step"}
  PROVE  /\ Wanted \in Nat /\ executed \in Nat /\ executed <= Wanted
         /\ session = "step" => executed < Wanted
         /\ RoundsToPrompt \in Nat
<1>1. /\ step_count \in Int /\ asked \in Int /\ executed \in Nat /\ counting
      /\ session = "step" => Remaining(0) /\ (executed > 0 => step_count > 0)
      /\ session = "check" => executed <= Wanted
  BY DEF DbgInv, DbgTypeOK, Counted
<1>2. Wanted \in Nat /\ Wanted >= 1 /\ (asked > 0 => Wanted = asked)
  BY <1>1 DEF Wanted
<1>3. session = "step" => executed < Wanted
  BY <1>1, <1>2 DEF Remaining
<1>4. RoundsToPrompt \in Nat
  BY <1>1, <1>2, <1>3 DEF RoundsToPrompt
<1> QED
  BY <1>1, <1>2, <1>3, <1>4

LeftIsCounted == stepping /\ session \in {"check", "step"} => RoundsToPrompt \in Nat

(* In particular there is always a round left.                             *)
LEMMA RoundsAreCounted == DbgInv => LeftIsCounted
BY RoundsCounted DEF LeftIsCounted

(* One of the two rounds, or the other.                                    *)
LEMMA RoundTakenStep == DbgInv /\ DbgInv' /\ [HostNext]_HostVars => [RoundTaken]_dbg_vars
<1> SUFFICES ASSUME DbgInv, DbgInv', HostNext, ~UNCHANGED dbg_vars,
                    stepping, session \in {"check", "step"}, session' \notin {"prompt", "done"}
             PROVE  /\ stepping' /\ session' \in {"check", "step"}
                    /\ RoundsToPrompt \in Nat /\ RoundsToPrompt' \in Nat
                    /\ RoundsToPrompt' < RoundsToPrompt
  BY DEF RoundTaken, HostVars
<1>1. Check \/ StepMachine
  BY DEF HostNext, Embedded, ElfCommand, DebugCommand, DbgNext, StartDebug, Prompt, SetBreakpoint,
         DeleteBreakpoint, Continue, StepCommand, Quit, Proceed, LeaveLoop
<1>2. /\ Wanted \in Nat /\ executed \in Nat /\ executed <= Wanted
      /\ session = "step" => executed < Wanted
      /\ RoundsToPrompt \in Nat
  BY RoundsCounted
<1>3. asked' = asked /\ Wanted' = Wanted
  BY <1>1 DEF Check, StepMachine, Wanted
<1>4. CASE Check
  <2>1. /\ session = "check" /\ session' = "step" /\ executed' = executed
        /\ stepping' /\ step_count' = step_count - 1
    BY <1>4 DEF Check
  <2>2. RoundsToPrompt = 2 * (Wanted - executed) /\ RoundsToPrompt' = 2 * (Wanted - executed) - 1
    BY <1>3, <2>1 DEF RoundsToPrompt
  <2>3. RoundsToPrompt' \in Nat
    <3>1. LeftIsCounted'
      BY RoundsAreCounted, PTL
    <3> QED
      BY <2>1, <3>1 DEF LeftIsCounted
  <2> QED
    BY <1>2, <2>1, <2>2, <2>3
<1>5. CASE StepMachine
  <2>1. /\ session = "step" /\ session' = "check" /\ stepping' = stepping
        /\ executed' = IF counting /\ executed <= Wanted THEN executed + 1 ELSE executed
    BY <1>5 DEF StepMachine, counters
  <2>2. counting
    BY <2>1 DEF DbgInv, Counted
  <2>3. executed' = executed + 1 /\ executed + 1 <= Wanted
    BY <1>2, <2>1, <2>2
  <2>4. /\ RoundsToPrompt = 2 * (Wanted - executed) - 1
        /\ RoundsToPrompt' = 2 * (Wanted - (executed + 1))
    BY <1>3, <2>1, <2>3 DEF RoundsToPrompt
  <2> QED
    BY <1>2, <2>1, <2>3, <2>4
<1> QED
  BY <1>1, <1>4, <1>5

(* What SteppingEnds rests on: every round of a step command brings the    *)
(* prompt nearer, or the session ends, whatever the machine executes.      *)
THEOREM SteppingProgress == HostSpec => [][RoundTaken]_dbg_vars
BY DbgCorrect, RoundTakenStep, PTL DEF HostSpec

-----------------------------------------------------------------------------
(* Numbers and sets of them.                                               *)

(* A set of numbers has a least one.                                       *)
LEMMA LeastNumber ==
  ASSUME NEW T \in SUBSET Nat, T # {}
  PROVE  \E x \in T : \A y \in T : x <= y
<1> DEFINE Less == {ss \in Nat \X Nat : ss[1] < ss[2]}
<1>1. IsWellFoundedOn(Less, Nat)
  BY NatLessThanWellFounded, Zenon DEF OpToRel
<1> HIDE DEF Less
<1>2. PICK x \in T : \A y \in T : ~(<<y, x>> \in Less)
  BY <1>1, WFMin, Zenon
<1>3. ASSUME NEW y \in T PROVE x <= y
  <2>1. x \in Nat /\ y \in Nat /\ ~(<<y, x>> \in Less)
    BY <1>2
  <2> QED
    BY <2>1 DEF Less
<1> QED
  BY <1>3

(* Induction, stated of a set.                                             *)
LEMMA NatSets ==
  ASSUME NEW S, 0 \in S, \A n \in Nat : n \in S => n + 1 \in S
  PROVE  Nat \subseteq S
<1> DEFINE T == Nat \ S
<1> SUFFICES ASSUME T # {} PROVE FALSE
  OBVIOUS
<1>1. T \in SUBSET Nat
  OBVIOUS
<1> HIDE DEF T
<1>2. PICK x \in T : \A y \in T : x <= y
  BY <1>1, LeastNumber, Zenon
<1>3. x \in Nat /\ x \notin S /\ x # 0
  BY <1>2 DEF T
<1>4. x - 1 \in Nat /\ x - 1 \in T
  BY <1>3 DEF T
<1> QED
  BY <1>2, <1>3, <1>4

-----------------------------------------------------------------------------
(* What the rounds of the loader's loop leave, as the recursive function   *)
(* says it.                                                                *)
Rounds(g, segs, n) == g = [k \in 0 .. n |-> IF k = 0 THEN << >> ELSE Laid(g[k - 1], segs[k])]

(* There is such a function, for any segments.                             *)
LEMMA RoundsExist ==
  ASSUME NEW segs, NEW n \in Nat
  PROVE  \E g : Rounds(g, segs, n)
<1> DEFINE S == {m \in Nat : \E g : Rounds(g, segs, m)}
<1>1. 0 \in S
  <2>1. Rounds([k \in 0 .. 0 |-> << >>], segs, 0)
    BY DEF Rounds
  <2> QED
    BY <2>1
<1>2. ASSUME NEW m \in Nat, m \in S PROVE m + 1 \in S
  <2>1. PICK g : Rounds(g, segs, m)
    BY <1>2
  <2> DEFINE last == Laid(g[m], segs[m + 1])
             h == [k \in 0 .. m + 1 |-> IF k = m + 1 THEN last ELSE g[k]]
  <2>2. ASSUME NEW k \in 0 .. m + 1
        PROVE  h[k] = IF k = 0 THEN << >> ELSE Laid(h[k - 1], segs[k])
    <3>1. CASE k = m + 1
      <4>1. k # 0 /\ k - 1 = m /\ m \in 0 .. m + 1 /\ m # m + 1
        BY <3>1
      <4>2. h[k] = last /\ h[m] = g[m]
        <5> HIDE DEF last
        <5> QED
          BY <3>1, <4>1
      <4> HIDE DEF h
      <4> QED
        BY <3>1, <4>1, <4>2
    <3>2. CASE k # m + 1
      <4>1. k \in 0 .. m /\ (k # 0 => k - 1 \in 0 .. m + 1 /\ k - 1 # m + 1)
        BY <3>2
      <4>2. h[k] = g[k] /\ (k # 0 => h[k - 1] = g[k - 1])
        <5> HIDE DEF last
        <5> QED
          BY <3>2, <4>1
      <4>3. g[k] = IF k = 0 THEN << >> ELSE Laid(g[k - 1], segs[k])
        BY <2>1, <4>1 DEF Rounds
      <4> HIDE DEF h
      <4> QED
        BY <4>2, <4>3
    <3> QED
      BY <3>1, <3>2
  <2>3. Rounds(h, segs, m + 1)
    <3>1. h = [k \in 0 .. m + 1 |-> h[k]]
      OBVIOUS
    <3> HIDE DEF h
    <3> QED
      BY <2>2, <3>1 DEF Rounds
  <2> HIDE DEF h
  <2> QED
    BY <2>3
<1> HIDE DEF S
<1>3. Nat \subseteq S
  BY <1>1, <1>2, NatSets
<1>4. n \in S
  BY <1>3
<1> QED
  BY <1>4 DEF S

(* The image is what the last round leaves.                                *)
LEMMA ImageIs ==
  ASSUME NEW f, Len(f.segments) \in Nat
  PROVE  \E g : Rounds(g, f.segments, Len(f.segments)) /\ Image(f) = g[Len(f.segments)]
<1> DEFINE n == Len(f.segments)
           g == CHOOSE h : h = [k \in 0 .. n |->
                  IF k = 0 THEN << >> ELSE Laid(h[k - 1], f.segments[k])]
<1>1. \E h : Rounds(h, f.segments, n)
  BY RoundsExist
<1>2. \E h : h = [k \in 0 .. n |-> IF k = 0 THEN << >> ELSE Laid(h[k - 1], f.segments[k])]
  BY <1>1, Zenon DEF Rounds
<1>3. g = [k \in 0 .. n |-> IF k = 0 THEN << >> ELSE Laid(g[k - 1], f.segments[k])]
  BY <1>2, Zenon
<1>4. Image(f) = g[n]
  BY Zenon DEF Image
<1> HIDE DEF g
<1>5. Rounds(g, f.segments, n)
  BY <1>3, Zenon DEF Rounds
<1> QED
  BY <1>4, <1>5

-----------------------------------------------------------------------------
(* One segment.                                                            *)

(* The remainder of a number one turn around at most.                      *)
LEMMA OneTurn ==
  ASSUME NEW m \in Nat \ {0}, NEW x \in Int, -m <= x, x < m
  PROVE  x % m = IF x < 0 THEN x + m ELSE x
<1>1. CASE x >= 0
  <2>1. \A n \in Nat \ {0} : \A y \in 0 .. n - 1 : y % n = y
    OBVIOUS
  <2> QED
    BY <1>1, <2>1
<1>2. CASE x < 0
  <2> DEFINE p == x \div m
             s == x % m
             mp == m * p
  <2>1. p \in Int /\ s \in 0 .. m - 1 /\ x = mp + s
    OBVIOUS
  <2>2. \A y \in Int : (y >= 0 => m * y >= 0) /\ (y <= -2 => m * y <= -2 * m) /\ m * (-1) = -m
    <3> SUFFICES ASSUME NEW y \in Int
                 PROVE  (y >= 0 => m * y >= 0) /\ (y <= -2 => m * y <= -2 * m) /\ m * (-1) = -m
      OBVIOUS
    <3>1. y >= 0 => m * y >= 0
      OBVIOUS
    <3>2. ASSUME y <= -2 PROVE m * y <= -2 * m
      <4>1. -2 - y \in Nat /\ m \in Nat
        BY <3>2
      <4>2. m * (-2 - y) >= 0
        BY <4>1
      <4>3. m * (-2 - y) = -2 * m - m * y /\ m * y \in Int
        OBVIOUS
      <4> QED
        BY <4>2, <4>3
    <3> QED
      BY <3>1, <3>2
  <2> HIDE DEF p, s
  <2>3. p = -1
    <3>1. (p >= 0 => mp >= 0) /\ (p <= -2 => mp <= -2 * m) /\ mp \in Int
      BY <2>1, <2>2
    <3> HIDE DEF mp
    <3> QED
      BY <1>2, <2>1, <3>1
  <2>4. mp = -m
    BY <2>2, <2>3
  <2> HIDE DEF mp
  <2>5. s = x + m
    BY <2>1, <2>4
  <2> QED
    BY <1>2, <2>5 DEF s
<1> QED
  BY <1>1, <1>2

(* The buffer lies below any address that wraps.                           *)
LEMMA CellsAreLow ==
  /\ W \in Nat /\ W \div 4 \in Nat \ {0}
  /\ \A a \in Cells : a \in Nat /\ a < W \div 4
  /\ \A n \in Int : 4 * n <= W => n <= W \div 4
<1>1. W \in Nat /\ CodeMax \in Nat /\ CodeMax < W /\ W >= 4
  <2>1. CodeMax \in Nat /\ RegionSize \in Nat /\ CodeMax < RegionSize /\ RegionSize < W /\ RegionSize > 8
    BY MipsVMAssumption
  <2>2. W \in Nat
    <3>1. HalfBase \in Nat
      BY WordsAssumption DEF HalfBase
    <3> QED
      BY <3>1 DEF W
  <2> QED
    BY <2>1, <2>2
<1>2. \A n \in Int : 4 * n <= W => n <= W \div 4
  BY <1>1
<1>3. ASSUME NEW a \in Cells PROVE a \in Nat /\ a < W \div 4
  <2>1. a \in Nat /\ a <= CodeMax \div 4 - 1 /\ CodeMax \div 4 \in Nat
    BY <1>1, <1>3 DEF Cells
  <2>2. 4 * (a + 1) <= CodeMax
    BY <1>1, <2>1
  <2>3. 4 * (a + 1) <= W
    BY <1>1, <2>1, <2>2
  <2> QED
    BY <1>1, <1>2, <2>1, <2>3
<1>4. W \div 4 \in Nat \ {0}
  BY <1>1
<1> QED
  BY <1>1, <1>2, <1>3, <1>4

(* A segment that does not wrap writes what it asks for, where it asks.    *)
LEMMA SegmentWrites ==
  ASSUME NEW s \in Segment, 4 * s.vaddr < W, Len(s.contents) <= s.filesz, Plain(s),
         NEW a \in Cells
  PROVE  /\ Written(s, a) <=> Asked(s, a) # {}
         /\ Zeroed(s, a) => Asked(s, a) = {ZeroInstr}
         /\ Copied(s, a) => ~Zeroed(s, a) /\ Asked(s, a) = {s.contents[Into(s, a) + 1]}
<1> DEFINE v == s.vaddr
           m == W \div 4
           l == Len(s.contents)
           d == a - v
<1>1. v \in Nat /\ s.filesz \in Nat /\ s.memsz \in Nat /\ s.load \in BOOLEAN /\ l \in Nat
  BY DEF Segment
<1>2. W \in Nat /\ m \in Nat \ {0} /\ a \in Nat /\ a < m
  BY CellsAreLow
<1>3. v + s.filesz <= m /\ v + s.memsz <= m
  <2>1. 4 * (v + s.filesz) <= W /\ 4 * (v + s.memsz) <= W
    BY <1>1, <1>2 DEF Plain
  <2> QED
    BY <1>1, <2>1, CellsAreLow
<1>4. d \in Int /\ -m <= d /\ d < m
  BY <1>1, <1>2, <1>3
<1>5. Into(s, a) = IF d < 0 THEN d + m ELSE d
  <2> HIDE DEF m, d
  <2>1. d % m = IF d < 0 THEN d + m ELSE d
    BY <1>2, <1>4, OneTurn
  <2> QED
    BY <2>1 DEF Into, d, m
<1> HIDE DEF m
<1>6. CASE d < 0
  <2>1. Into(s, a) >= s.filesz /\ Into(s, a) >= s.memsz /\ Into(s, a) >= l /\ Into(s, a) \in Int
    <3>1. Into(s, a) = d + m /\ m \in Int
      BY <1>2, <1>5, <1>6
    <3>2. d + m >= s.filesz /\ d + m >= s.memsz /\ d + m \in Int
      <4> DEFINE fs == s.filesz
                 ms == s.memsz
      <4>1. fs \in Int /\ ms \in Int /\ v \in Int /\ a \in Nat /\ m \in Int
        BY <1>1, <1>2
      <4>2. v + fs <= m /\ v + ms <= m
        BY <1>3
      <4>3. d = a - v
        OBVIOUS
      <4> HIDE DEF fs, ms, v, d
      <4>4. d + m >= fs /\ d + m >= ms /\ d + m \in Int
        BY <4>1, <4>2, <4>3
      <4> QED
        BY <4>4 DEF fs, ms
    <3>3. d + m >= l
      BY <1>1, <1>4, <3>1, <3>2
    <3> QED
      BY <3>1, <3>2, <3>3
  <2>2. ~Copied(s, a) /\ ~Zeroed(s, a)
    BY <1>1, <2>1 DEF Copied, Zeroed
  <2>3. Asked(s, a) = {}
    BY <1>6 DEF Asked
  <2> QED
    BY <2>2, <2>3 DEF Written
<1>7. CASE d >= 0
  <2>1. Into(s, a) = d /\ l <= s.filesz /\ ~(d < 0)
    BY <1>4, <1>5, <1>7
  <2>2. Copied(s, a) <=> s.load /\ s.filesz > 0 /\ d < l
    BY <2>1 DEF Copied
  <2>3. Zeroed(s, a) <=> s.load /\ s.filesz > 0 /\ s.filesz <= d /\ d < s.memsz
    BY <1>1, <1>4, <2>1 DEF Zeroed
  <2>4. Asked(s, a) = IF ~s.load \/ s.filesz = 0 THEN {}
                      ELSE IF d < l THEN {s.contents[d + 1]}
                      ELSE IF s.filesz <= d /\ d < s.memsz THEN {ZeroInstr} ELSE {}
    BY <2>1 DEF Asked
  <2>5. s.filesz > 0 <=> s.filesz # 0
    BY <1>1
  <2>6. Copied(s, a) => ~Zeroed(s, a)
    BY <1>1, <1>4, <2>1, <2>2, <2>3
  <2> HIDE DEF d, l
  <2>7. Zeroed(s, a) => Asked(s, a) = {ZeroInstr}
    <3>1. Zeroed(s, a) => ~(d < l)
      BY <1>1, <1>4, <2>1, <2>3
    <3> QED
      BY <2>3, <2>4, <2>5, <3>1
  <2>8. Copied(s, a) => Asked(s, a) = {s.contents[Into(s, a) + 1]}
    BY <2>1, <2>2, <2>4, <2>5
  <2>9. ~Copied(s, a) /\ ~Zeroed(s, a) => Asked(s, a) = {}
    BY <2>2, <2>3, <2>4, <2>5
  <2> QED
    BY <2>6, <2>7, <2>8, <2>9 DEF Written
<1> QED
  BY <1>4, <1>6, <1>7

-----------------------------------------------------------------------------
(* All segments, and the machine that runs them.                           *)

(* After n segments, the image is where one of them defines an address, and*)
(* holds what the last of those says.                                      *)
LastOf(image, segs, n) ==
  /\ DOMAIN image = {a \in Cells : \E j \in 1 .. n : Asked(segs[j], a) # {}}
  /\ \A a \in DOMAIN image :
       \E k \in 1 .. n : /\ image[a] \in Asked(segs[k], a)
                         /\ \A l \in 1 .. n : Asked(segs[l], a) # {} => l <= k

(* The segments the loader reads from a file's headers.                    *)
PlainSegments(segs) ==
  \A k \in 1 .. Len(segs) :
    /\ segs[k] \in Segment /\ 4 * segs[k].vaddr < W
    /\ Len(segs[k].contents) <= segs[k].filesz /\ Plain(segs[k])

(* What is known of every file.                                            *)
LEMMA FilesAre ==
  ASSUME NEW f \in ElfFiles
  PROVE  /\ f.segments \in Seq(Segment) /\ Len(f.segments) \in Nat
         /\ (\A k \in 1 .. Len(f.segments) : Plain(f.segments[k])) => PlainSegments(f.segments)
<1>1. f.segments \in Seq(Segment)
  <2>1. << >> \in Seq(Segment)
    OBVIOUS
  <2> QED
    BY <2>1, ElfAssumption
<1>2. \A k \in 1 .. Len(f.segments) : f.segments[k] \in Segment
  BY <1>1
<1>3. \A k \in 1 .. Len(f.segments) :
        4 * f.segments[k].vaddr < W /\ Len(f.segments[k].contents) <= f.segments[k].filesz
  BY ElfAssumption
<1> QED
  BY <1>1, <1>2, <1>3 DEF PlainSegments

(* One round of the loop.                                                  *)
LEMMA LaidKeepsLast ==
  ASSUME NEW segs, PlainSegments(segs), Len(segs) \in Nat, NEW n \in Nat, n + 1 <= Len(segs),
         NEW image, LastOf(image, segs, n)
  PROVE  LastOf(Laid(image, segs[n + 1]), segs, n + 1)
<1> DEFINE s == segs[n + 1]
           next == Laid(image, s)
<1>1. s \in Segment /\ 4 * s.vaddr < W /\ Len(s.contents) <= s.filesz /\ Plain(s)
  BY DEF PlainSegments
<1>2. \A a \in Cells : /\ Written(s, a) <=> Asked(s, a) # {}
                       /\ Zeroed(s, a) => Asked(s, a) = {ZeroInstr}
                       /\ Copied(s, a) => ~Zeroed(s, a) /\ Asked(s, a) = {s.contents[Into(s, a) + 1]}
  <2> HIDE DEF s
  <2> QED
    BY <1>1, SegmentWrites
<1>3. DOMAIN next = DOMAIN image \union {c \in Cells : Written(s, c)}
  BY DEF Laid
<1>4. \A j \in 1 .. n + 1 : j \in 1 .. n \/ j = n + 1
  OBVIOUS
<1>5. DOMAIN next = {a \in Cells : \E j \in 1 .. n + 1 : Asked(segs[j], a) # {}}
  <2>1. \A j \in 1 .. n : j \in 1 .. n + 1
    OBVIOUS
  <2>2. n + 1 \in 1 .. n + 1
    OBVIOUS
  <2> HIDE DEF next
  <2> QED
    BY <1>2, <1>3, <1>4, <2>1, <2>2, Zenon DEF LastOf
<1>6. ASSUME NEW a \in DOMAIN next
      PROVE  \E k \in 1 .. n + 1 : /\ next[a] \in Asked(segs[k], a)
                                   /\ \A l \in 1 .. n + 1 : Asked(segs[l], a) # {} => l <= k
  <2>1. a \in Cells
    BY <1>5
  <2>2. next[a] = IF Zeroed(s, a) THEN ZeroInstr
                  ELSE IF Copied(s, a) THEN s.contents[Into(s, a) + 1] ELSE image[a]
    BY DEF Laid
  <2>3. CASE Written(s, a)
    <3>1. next[a] \in Asked(s, a)
      <4> HIDE DEF next, s
      <4> QED
        BY <1>2, <2>1, <2>2, <2>3 DEF Written
    <3>2. n + 1 \in 1 .. n + 1 /\ \A l \in 1 .. n + 1 : l <= n + 1
      OBVIOUS
    <3> HIDE DEF next
    <3> QED
      BY <3>1, <3>2
  <2>4. CASE ~Written(s, a)
    <3>1. a \in DOMAIN image /\ next[a] = image[a] /\ Asked(s, a) = {}
      <4> HIDE DEF next, s
      <4> QED
        BY <1>2, <1>3, <2>1, <2>2, <2>4 DEF Written
    <3>2. PICK k \in 1 .. n : /\ image[a] \in Asked(segs[k], a)
                              /\ \A l \in 1 .. n : Asked(segs[l], a) # {} => l <= k
      BY <3>1 DEF LastOf
    <3>3. k \in 1 .. n + 1
      OBVIOUS
    <3> HIDE DEF next
    <3>4. next[a] \in Asked(segs[k], a)
      BY <3>1, <3>2
    <3>5. ASSUME NEW l \in 1 .. n + 1, Asked(segs[l], a) # {} PROVE l <= k
      BY <1>4, <3>1, <3>2, <3>5
    <3> QED
      BY <3>3, <3>4, <3>5
  <2> QED
    BY <2>3, <2>4
<1> HIDE DEF next
<1>7. LastOf(next, segs, n + 1)
  BY <1>5, <1>6 DEF LastOf
<1> QED
  BY <1>7 DEF next, s

(* All of them: the recursion ends with the whole file.                    *)
LEMMA ImageIsLast ==
  ASSUME NEW f \in ElfFiles, \A k \in 1 .. Len(f.segments) : Plain(f.segments[k])
  PROVE  LastOf(Image(f), f.segments, Len(f.segments))
<1> DEFINE segs == f.segments
           n == Len(segs)
<1>1. n \in Nat /\ PlainSegments(segs)
  BY FilesAre
<1>2. PICK g : Rounds(g, segs, n) /\ Image(f) = g[n]
  BY <1>1, ImageIs
<1> HIDE DEF segs
<1> DEFINE S == {m \in Nat : m <= n => LastOf(g[m], segs, m)}
<1>3. 0 \in S
  <2>1. g[0] = << >>
    BY <1>1, <1>2 DEF Rounds
  <2>2. DOMAIN << >> = {} /\ 1 .. 0 = {}
    OBVIOUS
  <2>3. LastOf(<< >>, segs, 0)
    BY <2>2 DEF LastOf
  <2> QED
    BY <2>1, <2>3
<1>4. ASSUME NEW m \in Nat, m \in S PROVE m + 1 \in S
  <2> SUFFICES ASSUME m + 1 <= n PROVE LastOf(g[m + 1], segs, m + 1)
    OBVIOUS
  <2>1. LastOf(g[m], segs, m)
    BY <1>1, <1>4
  <2>2. g[m + 1] = Laid(g[m], segs[m + 1])
    <3>1. m + 1 \in 0 .. n /\ m + 1 # 0 /\ (m + 1) - 1 = m
      BY <1>1
    <3> QED
      BY <1>2, <3>1 DEF Rounds
  <2> QED
    BY <1>1, <2>1, <2>2, LaidKeepsLast
<1> HIDE DEF S
<1>5. Nat \subseteq S
  BY <1>3, <1>4, NatSets
<1>6. LastOf(g[n], segs, n)
  BY <1>1, <1>5 DEF S
<1> QED
  BY <1>2, <1>6 DEF segs

(* The code ends with the image.                                           *)
LEMMA ImageEnds ==
  ASSUME NEW image, DOMAIN image \subseteq Cells, DOMAIN image # {}
  PROVE  LET n == OutLen(image)
         IN  /\ n \in Nat \ {0} /\ n - 1 \in DOMAIN image
             /\ \A a \in DOMAIN image : a < n
<1> DEFINE max == CodeMax \div 4
           T == {n \in Nat : DOMAIN image \subseteq 0 .. n - 1}
<1>1. max \in Nat
  BY MipsVMAssumption
<1>2. \A a \in DOMAIN image : a \in Nat /\ a < max
  BY <1>1 DEF Cells
<1>3. max \in T
  <2> HIDE DEF max
  <2>1. \A a \in DOMAIN image : a \in 0 .. max - 1
    BY <1>1, <1>2
  <2> QED
    BY <1>1, <2>1
<1>4. T \in SUBSET Nat
  OBVIOUS
<1> HIDE DEF T
<1>5. PICK n \in T : \A y \in T : n <= y
  BY <1>3, <1>4, LeastNumber
<1>6. n \in 0 .. max /\ DOMAIN image \subseteq 0 .. n - 1
  BY <1>1, <1>3, <1>5 DEF T
<1>7. ASSUME n > 0 PROVE n - 1 \in DOMAIN image
  <2>1. n - 1 \in Nat /\ ~(n - 1 \in T)
    BY <1>5, <1>6, <1>7
  <2>2. PICK a \in DOMAIN image : ~(a \in 0 .. (n - 1) - 1)
    BY <2>1 DEF T
  <2>3. a \in 0 .. n - 1
    BY <1>6
  <2>4. a = n - 1
    BY <1>6, <2>2, <2>3
  <2> QED
    BY <2>2, <2>4
<1>8. \E k \in 0 .. max : DOMAIN image \subseteq 0 .. k - 1 /\ (k > 0 => k - 1 \in DOMAIN image)
  BY <1>6, <1>7
<1> DEFINE m == OutLen(image)
<1>9. m \in 0 .. max /\ DOMAIN image \subseteq 0 .. m - 1 /\ (m > 0 => m - 1 \in DOMAIN image)
  <2>1. m = CHOOSE k \in 0 .. max : /\ DOMAIN image \subseteq 0 .. k - 1
                                    /\ k > 0 => k - 1 \in DOMAIN image
    BY Zenon DEF OutLen
  <2> HIDE DEF m
  <2> QED
    BY <1>8, <2>1
<1> HIDE DEF m, max
<1>10. m > 0
  <2>1. PICK a : a \in DOMAIN image
    OBVIOUS
  <2>2. a \in 0 .. m - 1
    BY <1>9, <2>1
  <2> QED
    BY <1>1, <1>9, <2>2
<1>11. m \in Nat \ {0} /\ m - 1 \in DOMAIN image /\ \A a \in DOMAIN image : a < m
  BY <1>1, <1>9, <1>10
<1> QED
  BY <1>11 DEF m

(* Such code is the file's image.                                          *)
LEMMA FlattenedExact ==
  ASSUME elf \in ElfFiles, Loadable(elf), code \in Flattened(Image(elf))
  PROVE  ImageExact
<1> SUFFICES ASSUME \A k \in 1 .. Len(elf.segments) : Plain(elf.segments[k])
             PROVE  ImageExact
  BY DEF ImageExact
<1> DEFINE image == Image(elf)
           n == OutLen(image)
           segs == elf.segments
           Defining(a) == {k \in 1 .. Len(segs) : Asked(segs[k], a) # {}}
<1>1. LastOf(image, segs, Len(segs))
  BY ImageIsLast
<1>2. DOMAIN image \subseteq Cells /\ DOMAIN image # {}
  BY <1>1 DEF LastOf, Loadable
<1>3. n \in Nat \ {0} /\ n - 1 \in DOMAIN image /\ \A a \in DOMAIN image : a < n /\ a \in Nat
  <2> HIDE DEF image
  <2>1. \A a \in DOMAIN image : a \in Nat
    BY <1>2 DEF Cells
  <2> QED
    BY <1>2, <2>1, ImageEnds
<1>4. /\ Len(code) = n
      /\ \A k \in 1 .. n : k - 1 \in DOMAIN image => code[k] = image[k - 1]
  <2> DEFINE U == StrayInstrs \union {image[a] : a \in DOMAIN image}
  <2>1. /\ code \in [1 .. n -> U]
        /\ \A k \in 1 .. n : k - 1 \in DOMAIN image => code[k] = image[k - 1]
    BY DEF Flattened
  <2> HIDE DEF U, n, image
  <2>2. code \in Seq(U) /\ Len(code) = n
    BY <1>3, <2>1
  <2> QED
    BY <2>1, <2>2
<1> HIDE DEF image, n, segs
<1>5. ASSUME NEW a \in Cells, Defining(a) # {}
      PROVE  /\ a < Len(code)
             /\ \E k \in Defining(a) : /\ code[a + 1] \in Asked(segs[k], a)
                                       /\ \A l \in Defining(a) : l <= k
  <2>1. a \in DOMAIN image
    BY <1>1, <1>5 DEF LastOf
  <2>2. code[a + 1] = image[a] /\ a < Len(code)
    <3>1. a + 1 \in 1 .. n /\ (a + 1) - 1 = a
      BY <1>3, <2>1
    <3> QED
      BY <1>3, <1>4, <2>1, <3>1
  <2>3. PICK k \in 1 .. Len(segs) : /\ image[a] \in Asked(segs[k], a)
                                    /\ \A l \in 1 .. Len(segs) : Asked(segs[l], a) # {} => l <= k
    BY <1>1, <2>1 DEF LastOf
  <2> QED
    BY <2>2, <2>3
<1>6. Defining(Len(code) - 1) # {}
  BY <1>1, <1>3, <1>4 DEF LastOf
<1> HIDE DEF Defining
<1>7. /\ \A a \in Cells :
           Defining(a) # {} =>
             /\ a < Len(code)
             /\ \E k \in Defining(a) : /\ code[a + 1] \in Asked(segs[k], a)
                                       /\ \A l \in Defining(a) : l <= k
      /\ Defining(Len(code) - 1) # {}
  BY <1>5, <1>6
<1> QED
  BY <1>7 DEF ImageExact, Defining, segs

-----------------------------------------------------------------------------
(* The machine that runs a file runs its image to the end: the command     *)
(* makes no other host call, and no instruction writes the code.           *)
Booted ==
  \/ elf = NoFile
  \/ /\ elf \in ElfFiles /\ Loadable(elf) /\ code \in Flattened(Image(elf))
     /\ loads = MaxLoads /\ calls = MaxCalls

(* No step takes the image away.                                           *)
LEMMA BootedStep == Booted /\ [HostNext]_HostVars => Booted'
<1> SUFFICES ASSUME Booted, [HostNext]_HostVars PROVE Booted'
  OBVIOUS
<1>1. Loadable(elf)' <=> Loadable(elf')
  BY DEF Loadable, Image, Laid, Written, Copied, Zeroed, Into, Cells
<1>2. ASSUME elf' = elf, elf # NoFile, UNCHANGED <<code, loads, calls>> PROVE Booted'
  BY <1>2 DEF Booted
<1>3. CASE Embedded
  <2>1. elf' = elf /\ Next
    BY <1>3 DEF Embedded
  <2>2. CASE elf = NoFile
    BY <2>1, <2>2 DEF Booted
  <2>3. CASE elf # NoFile
    <3>1. ~(loads < MaxLoads) /\ ~(calls < MaxCalls)
      BY <2>3, MipsVMAssumption DEF Booted
    <3>2. ~Load /\ ~Run /\ ~VmInit
      BY <3>1 DEF Load, Run, VmInit
    <3>3. Step \/ LeaveCode
      BY <2>1, <3>2 DEF Next
    <3>4. UNCHANGED <<code, loads, calls>>
      <4>1. CASE Step
        BY <4>1 DEF Step, Execute, RegAlu, ImmAlu, Move, Multiply, DivideByZero, Divide, DivideKills,
           Trap, UnknownSpecial, UnknownOpcode, Break, Branch, Jump, JumpRegister, LoadMem, StoreMem,
           AccessViolation, SysExit, SysOutput, SysStub, SysSbrk, SysUnknown, Fault, Skip, host
      <4>2. CASE LeaveCode
        BY <4>2 DEF LeaveCode, FallOff, WildFetch, host
      <4> QED
        BY <3>3, <4>1, <4>2
    <3> QED
      BY <1>2, <2>1, <2>3, <3>4
  <2> QED
    BY <2>2, <2>3
<1>4. CASE ElfCommand
  BY <1>1, <1>4 DEF ElfCommand, RunElf, Booted
<1>5. CASE DebugCommand
  BY <1>5 DEF DebugCommand, Booted
<1>6. CASE UNCHANGED HostVars
  <2>1. elf' = elf /\ UNCHANGED <<code, loads, calls>>
    BY <1>6 DEF HostVars, vars, host
  <2> QED
    BY <2>1 DEF Booted
<1> QED
  BY <1>3, <1>4, <1>5, <1>6 DEF HostNext

(* Where a file of segments below 2^32 says what stands at an address of   *)
(* the buffer (mips_elf_load), the ELF runner's code has that: the bytes or*)
(* zeros of the last segment with p_filesz > 0 that has any there, whatever*)
(* segments overlap, are truncated, listed out of order or end behind the  *)
(* buffer; and the code ends with the last such address.  The gaps between *)
(* segments are left open, as cmd_elf_run leaves them (cli.c:601).         *)
THEOREM RunnerRunsImage == HostSpec => []ImageExact
<1>1. HostInit => Booted
  BY DEF HostInit, Booted
<1>2. Booted => ImageExact
  <2>1. elf = NoFile => ImageExact
    BY DEF ImageExact
  <2> QED
    BY <2>1, FlattenedExact DEF Booted
<1> QED
  BY <1>1, <1>2, BootedStep, PTL DEF HostSpec

-----------------------------------------------------------------------------
(* The machine under every host: what holds of MipsVM by itself holds of   *)
(* the machine in a debugging session and under the ELF runner, which put  *)
(* code and pc in place without mips_vm_load.                              *)

(* Every word of an image is an instruction.                               *)
ImageTyped(image) == DOMAIN image \subseteq Cells /\ \A a \in DOMAIN image : image[a] \in Instrs

(* One round of the loader's loop keeps it so.                             *)
LEMMA LaidTyped ==
  ASSUME NEW s \in Segment, NEW image, ImageTyped(image)
  PROVE  ImageTyped(Laid(image, s))
<1> DEFINE next == Laid(image, s)
<1>1. DOMAIN next = DOMAIN image \union {c \in Cells : Written(s, c)}
  BY DEF Laid
<1>2. DOMAIN next \subseteq Cells
  <2> HIDE DEF next
  <2> QED
    BY <1>1 DEF ImageTyped
<1>3. ASSUME NEW a \in DOMAIN next PROVE next[a] \in Instrs
  <2>1. next[a] = IF Zeroed(s, a) THEN ZeroInstr
                  ELSE IF Copied(s, a) THEN s.contents[Into(s, a) + 1] ELSE image[a]
    BY DEF Laid
  <2>2. a \in Cells
    BY <1>2
  <2> HIDE DEF next
  <2>3. ZeroInstr \in Instrs
    BY ElfAssumption
  <2>4. ASSUME Copied(s, a) PROVE s.contents[Into(s, a) + 1] \in Instrs
    <3>1. a \in Int /\ s.vaddr \in Int /\ s.contents \in Seq(Instrs) /\ Len(s.contents) \in Nat
      BY <2>2 DEF Cells, Segment
    <3>2. W \div 4 \in Nat \ {0}
      BY SignedRange
    <3> DEFINE d == Into(s, a)
    <3>3. d \in Nat
      <4>1. \A x \in Int, m \in Nat \ {0} : x % m \in Nat
        OBVIOUS
      <4>2. a - s.vaddr \in Int
        BY <3>1
      <4> QED
        BY <3>2, <4>1, <4>2, Zenon DEF Into
    <3>4. d < Len(s.contents)
      BY <2>4 DEF Copied
    <3> HIDE DEF d
    <3>5. d + 1 \in 1 .. Len(s.contents)
      BY <3>1, <3>3, <3>4
    <3>6. s.contents[d + 1] \in Instrs
      BY <3>1, <3>5
    <3> QED
      BY <3>6 DEF d
  <2>5. ~Zeroed(s, a) /\ ~Copied(s, a) => a \in DOMAIN image
    BY <1>1 DEF Written
  <2> QED
    BY <2>1, <2>3, <2>4, <2>5 DEF ImageTyped
<1> HIDE DEF next
<1>4. ImageTyped(next)
  BY <1>2, <1>3 DEF ImageTyped
<1> QED
  BY <1>4 DEF next

(* So the image of every file is.                                          *)
LEMMA ImagesTyped ==
  ASSUME NEW f \in ElfFiles
  PROVE  ImageTyped(Image(f))
<1> DEFINE segs == f.segments
           n == Len(segs)
<1>1. n \in Nat /\ segs \in Seq(Segment)
  BY FilesAre
<1>2. PICK g : Rounds(g, segs, n) /\ Image(f) = g[n]
  BY <1>1, ImageIs
<1> HIDE DEF segs
<1> DEFINE S == {m \in Nat : m <= n => ImageTyped(g[m])}
<1>3. 0 \in S
  <2>1. g[0] = << >>
    BY <1>1, <1>2 DEF Rounds
  <2>2. DOMAIN << >> = {}
    OBVIOUS
  <2>3. ImageTyped(<< >>)
    BY <2>2 DEF ImageTyped
  <2> QED
    BY <2>1, <2>3
<1>4. ASSUME NEW m \in Nat, m \in S PROVE m + 1 \in S
  <2> SUFFICES ASSUME m + 1 <= n PROVE ImageTyped(g[m + 1])
    OBVIOUS
  <2>1. ImageTyped(g[m])
    BY <1>1, <1>4
  <2>2. g[m + 1] = Laid(g[m], segs[m + 1])
    <3>1. m + 1 \in 0 .. n /\ m + 1 # 0 /\ (m + 1) - 1 = m
      BY <1>1
    <3> QED
      BY <1>2, <3>1 DEF Rounds
  <2>3. segs[m + 1] \in Segment
    <3>1. m + 1 \in 1 .. n
      BY <1>1
    <3> QED
      BY <1>1, <3>1
  <2> QED
    BY <2>1, <2>2, <2>3, LaidTyped
<1> HIDE DEF S
<1>5. Nat \subseteq S
  BY <1>3, <1>4, NatSets
<1>6. ImageTyped(g[n])
  BY <1>1, <1>5 DEF S
<1> QED
  BY <1>2, <1>6

(* The code the runner hands over is a binary mips_vm_load would accept,   *)
(* whatever the gaps hold.                                                 *)
LEMMA FlattenedFits ==
  ASSUME NEW f \in ElfFiles, Loadable(f), NEW c \in Flattened(Image(f))
  PROVE  c \in Seq(Instrs) /\ 4 * Len(c) <= CodeMax
<1> DEFINE image == Image(f)
           n == OutLen(image)
           U == StrayInstrs \union {image[a] : a \in DOMAIN image}
<1>1. ImageTyped(image) /\ DOMAIN image # {}
  BY ImagesTyped DEF Loadable
<1>2. c \in [1 .. n -> U]
  BY DEF Flattened
<1> HIDE DEF image
<1>3. n \in Nat \ {0} /\ n - 1 \in DOMAIN image
  BY <1>1, ImageEnds DEF ImageTyped
<1>4. U \subseteq Instrs
  BY <1>1, MipsVMAssumption DEF ImageTyped
<1> HIDE DEF n, U
<1>5. c \in Seq(Instrs) /\ Len(c) = n
  <2>1. c \in [1 .. n -> Instrs]
    BY <1>2, <1>4
  <2> QED
    BY <1>3, <2>1
<1>6. n - 1 \in Cells
  BY <1>1, <1>3 DEF ImageTyped
<1>7. 4 * n <= CodeMax
  <2>1. \A m \in Nat, k \in Nat : k - 1 \in 0 .. (m \div 4) - 1 => 4 * k <= m
    OBVIOUS
  <2>2. CodeMax \in Nat /\ n \in Nat /\ n - 1 \in 0 .. (CodeMax \div 4) - 1
    BY <1>3, <1>6, MipsVMAssumption DEF Cells
  <2> QED
    BY <2>1, <2>2, Zenon
<1> QED
  BY <1>5, <1>7

(* A machine nobody has called yet does not run.                           *)
Unstarted == session = "none" /\ elf = NoFile /\ calls = 0 => ~running

MachineInv == Typed /\ CodeFits /\ Unstarted

(* The two steps that are none of the machine's.                           *)
LEMMA HostStepIs ==
  [HostNext]_HostVars =>
    \/ [Next]_vars
    \/ StartDebug /\ elf = NoFile
    \/ RunElf
<1>1. Embedded => Next
  BY DEF Embedded
<1>2. Check \/ LeaveLoop \/ Prompt => UNCHANGED vars
  BY DEF Check, LeaveLoop, Prompt, SetBreakpoint, DeleteBreakpoint, Continue, StepCommand, Quit
<1>3. StepMachine => Next
  BY DEF StepMachine, Next
<1>4. UNCHANGED HostVars => UNCHANGED vars
  BY DEF HostVars
<1> QED
  BY <1>1, <1>2, <1>3, <1>4 DEF HostNext, ElfCommand, DebugCommand, DbgNext, Proceed

(* They find the machine at rest, and leave its data alone but $sp.        *)
LEMMA HandOver ==
  ASSUME MachineInv, (StartDebug /\ elf = NoFile) \/ RunElf
  PROVE  ~Looping /\ stack' = stack /\ error' = error
<1>1. CASE StartDebug /\ elf = NoFile
  BY <1>1 DEF StartDebug, MachineInv, Unstarted, Looping, data
<1>2. CASE RunElf
  BY <1>2 DEF RunElf
<1> QED
  BY <1>1, <1>2

(* cmd_debug copies the binary and sets running itself.                    *)
LEMMA StartDebugKeeps ==
  ASSUME MachineInv, StartDebug
  PROVE  MachineInv'
<1>1. /\ UNCHANGED <<regs, hi, lo, stack, heap_used, pc, halted, error, alive, loads, calls>>
      /\ running' = TRUE /\ session' = "check"
  BY DEF StartDebug, data
<1>2. PICK p \in DebugPrograms : code' = IF Accepted(p) THEN p ELSE code
  BY DEF StartDebug
<1>3. p \in Seq(Instrs)
  BY DbgAssumption, MipsVMAssumption
<1>4. code' \in Seq(Instrs) /\ 4 * Len(code') <= CodeMax
  BY <1>2, <1>3 DEF MachineInv, Typed, TypeOK, CodeFits, Accepted
<1>5. Typed' /\ CodeFits'
  BY <1>1, <1>4 DEF MachineInv, Typed, TypeOK, ZeroIsZero, CodeFits
<1> QED
  BY <1>1, <1>5 DEF MachineInv, Unstarted

(* cmd_elf_run sets pc to the entry point, wherever that is.               *)
LEMMA RunElfKeeps ==
  ASSUME MachineInv, RunElf
  PROVE  MachineInv'
<1>1. PICK f \in ElfFiles : /\ Loadable(f) /\ elf' = f
                            /\ code' \in Flattened(Image(f)) /\ pc' = f.entry
  BY DEF RunElf
<1>2. code' \in Seq(Instrs) /\ 4 * Len(code') <= CodeMax
  BY <1>1, FlattenedFits
<1>3. pc' \in Word
  BY <1>1, ElfAssumption
<1>4. /\ regs' = [regs EXCEPT ![SP] = StackBytes] /\ running' = TRUE
      /\ loads' = MaxLoads /\ calls' = MaxCalls
      /\ UNCHANGED <<hi, lo, stack, heap_used, halted, error, alive>>
  BY DEF RunElf
<1>5. regs' \in [Regs -> Word] /\ regs'[Zero] = 0
  <2>1. StackBytes \in Word /\ SP # Zero
    BY StackTopIsWord DEF SP, Zero
  <2>2. regs \in [Regs -> Word] /\ regs[Zero] = 0 /\ Zero \in Regs
    BY StackTopIsWord DEF MachineInv, Typed, TypeOK, ZeroIsZero
  <2> QED
    BY <1>4, <2>1, <2>2
<1>6. loads' \in 0 .. MaxLoads /\ calls' \in 0 .. MaxCalls
  BY <1>4, MipsVMAssumption
<1>7. Typed' /\ CodeFits'
  BY <1>2, <1>3, <1>4, <1>5, <1>6 DEF MachineInv, Typed, TypeOK, ZeroIsZero, CodeFits
<1>8. elf' # NoFile
  BY <1>1 DEF Loadable, NoFile
<1> QED
  BY <1>7, <1>8 DEF MachineInv, Unstarted

(* The first call of all sets running, and is counted; a session does not  *)
(* end as an embedded machine.                                             *)
LEMMA UnstartedStep == MachineInv /\ [HostNext]_HostVars => Unstarted'
<1> SUFFICES ASSUME MachineInv, [HostNext]_HostVars,
                    session' = "none", elf' = NoFile, calls' = 0
             PROVE  ~running'
  BY DEF Unstarted
<1>1. calls \in Nat
  BY MipsVMAssumption DEF MachineInv, Typed, TypeOK
<1>2. ~DebugCommand
  BY DEF DebugCommand, DbgNext, StartDebug, Prompt, SetBreakpoint, DeleteBreakpoint, Continue,
         StepCommand, Quit, Proceed, Check, LeaveLoop, StepMachine
<1>3. ~ElfCommand
  BY DEF ElfCommand, RunElf, Loadable, NoFile
<1>4. CASE Embedded
  <2>1. session = "none" /\ elf = NoFile /\ Next
    BY <1>4 DEF Embedded, dbg_vars
  <2>2. ~Run /\ ~VmInit
    BY <1>1 DEF Run, VmInit
  <2>3. CASE Load
    BY <2>1, <2>3 DEF Load, flags, MachineInv, Unstarted
  <2>4. CASE Step \/ LeaveCode
    <3>1. running
      BY <2>4 DEF Step, LeaveCode, FallOff, WildFetch, Looping
    <3>2. calls' = calls
      <4>1. Step => calls' = calls
        BY DEF Step, Execute, RegAlu, ImmAlu, Move, Multiply, DivideByZero, Divide, DivideKills,
           Trap, UnknownSpecial, UnknownOpcode, Break, Branch, Jump, JumpRegister, LoadMem, StoreMem,
           AccessViolation, SysExit, SysOutput, SysStub, SysSbrk, SysUnknown, Fault, Skip, host
      <4>2. LeaveCode => calls' = calls
        BY DEF LeaveCode, FallOff, WildFetch, host
      <4> QED
        BY <2>4, <4>1, <4>2
    <3> QED
      BY <2>1, <3>1, <3>2 DEF MachineInv, Unstarted
  <2> QED
    BY <2>1, <2>2, <2>3, <2>4 DEF Next
<1>5. CASE UNCHANGED HostVars
  BY <1>5 DEF HostVars, vars, dbg_vars, flags, host, MachineInv, Unstarted
<1> QED
  BY <1>2, <1>3, <1>4, <1>5 DEF HostNext

(* Every step of every command.                                            *)
LEMMA MachineStep == MachineInv /\ [HostNext]_HostVars => MachineInv'
<1> SUFFICES ASSUME MachineInv, [HostNext]_HostVars PROVE MachineInv'
  OBVIOUS
<1>1. CASE StartDebug \/ RunElf
  BY <1>1, StartDebugKeeps, RunElfKeeps
<1>2. CASE [Next]_vars
  BY <1>2, NextKeepsTyped, CodeStaysFit, UnstartedStep DEF MachineInv
<1> QED
  BY <1>1, <1>2, HostStepIs

(* What every command keeps true of the machine.                           *)
LEMMA MachineAlways == HostSpec => []MachineInv
<1>1. HostInit => MachineInv
  <2> SUFFICES ASSUME HostInit PROVE MachineInv
    OBVIOUS
  <2>1. Typed
    BY InitTyped DEF HostInit
  <2>2. CodeFits
    <3>1. Len(<< >>) = 0 /\ CodeMax \in Nat
      BY CodeIsLow
    <3> QED
      BY <3>1 DEF HostInit, Init, CodeFits
  <2>3. Unstarted
    BY DEF HostInit, Init, Unstarted
  <2> QED
    BY <2>1, <2>2, <2>3 DEF MachineInv
<1> QED
  BY <1>1, MachineStep, PTL DEF HostSpec

(* The machine's state is well-typed and $zero is 0 whatever command runs  *)
(* it: also with code and pc that an ELF header gave.                      *)
THEOREM EveryHostTyped == HostSpec => [](TypeOK /\ ZeroIsZero)
<1>1. MachineInv => TypeOK /\ ZeroIsZero
  BY DEF MachineInv, Typed
<1> QED
  BY <1>1, MachineAlways, PTL

(* A fault in any command leaves registers, memory, HI/LO and the break as *)
(* they were: at a debugger's prompt the user sees what the fault found.   *)
THEOREM EveryFaultPrecise == HostSpec => PreciseFaults
<1>1. MachineInv /\ [HostNext]_HostVars => [FaultChangesNothing]_vars
  <2> SUFFICES ASSUME MachineInv, [HostNext]_HostVars PROVE [FaultChangesNothing]_vars
    OBVIOUS
  <2>1. CASE [Next]_vars
    BY <2>1, FaultStep DEF MachineInv
  <2>2. CASE (StartDebug /\ elf = NoFile) \/ RunElf
    BY <2>2, HandOver DEF FaultChangesNothing
  <2> QED
    BY <2>1, <2>2, HostStepIs
<1> QED
  BY <1>1, MachineAlways, PTL DEF HostSpec, PreciseFaults

(* In every command the stack is the flat byte memory: no command writes   *)
(* it behind the program's back.                                           *)
THEOREM EveryStackFlat == HostSpec => FlatMemory
<1>1. HostInit => Flat!Init
  BY FlatStart DEF HostInit
<1>2. MachineInv /\ [HostNext]_HostVars => [Flat!Next]_Bytes
  <2> SUFFICES ASSUME MachineInv, [HostNext]_HostVars PROVE [Flat!Next]_Bytes
    OBVIOUS
  <2>1. CASE [Next]_vars
    BY <2>1, FlatStep DEF MachineInv
  <2>2. CASE (StartDebug /\ elf = NoFile) \/ RunElf
    <3>1. stack' = stack
      BY <2>2, HandOver
    <3> QED
      BY <3>1 DEF Bytes
  <2> QED
    BY <2>1, <2>2, HostStepIs
<1> QED
  BY <1>1, <1>2, MachineAlways, PTL DEF HostSpec, FlatMemory, Flat!Spec

(* What is known of one instruction.                                       *)
Exactly ==
  /\ LoadsReadBytes /\ [][StoreReadsBack]_vars
  /\ HiLoExact /\ SbrkExact /\ [][MovesOn]_vars

(* In every command loads return the bytes stored, stores read back, HI    *)
(* and LO hold exact products and quotients, sbrk moves the break by       *)
(* exactly what was asked, and forward code goes forward: stepped through  *)
(* the debugger an instruction does what it does in mips_vm_run.           *)
THEOREM EveryHostExact == HostSpec => Exactly
<1> DEFINE Did == /\ [LoadReadsBytes]_vars /\ [StoreReadsBack]_vars
                  /\ [ExactStep]_vars /\ [SbrkMovesExactly]_vars /\ [MovesOn]_vars
<1>1. MachineInv /\ MachineInv' /\ ReadsLanes' /\ [HostNext]_HostVars => Did
  <2> SUFFICES ASSUME MachineInv, MachineInv', ReadsLanes', [HostNext]_HostVars PROVE Did
    OBVIOUS
  <2>1. CASE [Next]_vars
    BY <2>1, LoadStep, StoreStep, ExactlyStep, SbrkStep, MovesOnStep DEF MachineInv
  <2>2. CASE (StartDebug /\ elf = NoFile) \/ RunElf
    <3>1. ~Looping
      BY <2>2, HandOver
    <3>2. ~Step
      BY <3>1 DEF Step
    <3> QED
      BY <3>1, <3>2 DEF LoadReadsBytes, StoreReadsBack, ExactStep, SbrkMovesExactly, MovesOn
  <2> QED
    BY <2>1, <2>2, HostStepIs
<1>2. MachineInv => ReadsLanes
  BY LanesRead DEF MachineInv
<1> QED
  BY <1>1, <1>2, MachineAlways, PTL
  DEF HostSpec, Exactly, LoadsReadBytes, LoadReadsBytes, HiLoExact, ExactStep, SbrkExact
=============================================================================
