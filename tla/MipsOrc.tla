------------------------------ MODULE MipsOrc ------------------------------
(***************************************************************************)
(* The cycle detector of src/src/c/mips_orc.c over the table of mips_arc.c.*)
(* mips_orc_notify_alloc registers the live entries and, every Threshold   *)
(* calls, scans: mark all white, mark the live ones black, take a reference*)
(* from every white one that is live.  The call's loops are steps here,    *)
(* `phase` says which loop is under way and `i` is its index; the caller   *)
(* waits until it returns.                                                 *)
(***************************************************************************)
EXTENDS MipsArc

CONSTANT Threshold      \* ORC_CYCLE_THRESHOLD

ASSUME OrcAssumption == Threshold \in Nat \ {0}

VARIABLES
  orc_entries,          \* orc->entries; cycle_count is left out
  orc_count,            \* orc->entry_count
  allocs_since_scan,
  cycles_detected,
  objects_collected,
  phase, i, collected   \* the call under way, and the locals of its loops

orcVars == <<orc_entries, orc_count, allocs_since_scan, cycles_detected, objects_collected,
             phase, i, collected>>

vars == <<arcVars, orcVars>>

tallies == <<cycles_detected, objects_collected>>

White == "white"
Black == "black"

(* 0xFFFFFFFF: no index of the table.                                      *)
NoEntry == -1

OrcEntry(e, c) == [entry_idx |-> e, color |-> c]

Registered == 0 .. orc_count - 1

Init ==
  /\ ArcInit
  /\ orc_entries = [j \in Slots |-> OrcEntry(NoEntry, White)]
  /\ orc_count = 0
  /\ allocs_since_scan = 0
  /\ cycles_detected = 0
  /\ objects_collected = 0
  /\ phase = "idle" /\ i = 0 /\ collected = 0

Enter(p) == phase' = p /\ i' = 0 /\ collected' = 0

-----------------------------------------------------------------------------
(* mips_orc_notify_alloc                                                   *)
NotifyAlloc ==
  /\ phase = "idle"
  /\ allocs_since_scan' = allocs_since_scan + 1
  /\ Enter("register")
  /\ UNCHANGED <<arcVars, orc_entries, orc_count, tallies>>

Found(e) == \E j \in Registered : orc_entries[j].entry_idx = e

(* Mutant of Register: an entry that is registered is registered again.    *)
RegisterAgain ==
  /\ phase = "register"
  /\ i < entry_count
  /\ IF Alive(i) /\ orc_count < PoolMax
     THEN /\ orc_entries' = [orc_entries EXCEPT ![orc_count] = OrcEntry(i, White)]
          /\ orc_count' = orc_count + 1
     ELSE UNCHANGED <<orc_entries, orc_count>>
  /\ i' = i + 1
  /\ UNCHANGED <<arcVars, allocs_since_scan, tallies, phase, collected>>

Register ==
  /\ phase = "register"
  /\ i < entry_count
  /\ IF Alive(i) /\ ~Found(i) /\ orc_count < PoolMax
     THEN /\ orc_entries' = [orc_entries EXCEPT ![orc_count] = OrcEntry(i, White)]
          /\ orc_count' = orc_count + 1
     ELSE UNCHANGED <<orc_entries, orc_count>>
  /\ i' = i + 1
  /\ UNCHANGED <<arcVars, allocs_since_scan, tallies, phase, collected>>

(* mips_orc_check_cycle returns at once below the threshold ...            *)
NoScan ==
  /\ phase = "register"
  /\ i = entry_count
  /\ allocs_since_scan < Threshold
  /\ Enter("idle")
  /\ UNCHANGED <<arcVars, orc_entries, orc_count, allocs_since_scan, tallies>>

(* ... and else starts a scan with orc_mark_all_white.                     *)
StartScan ==
  /\ phase = "register"
  /\ i = entry_count
  /\ allocs_since_scan >= Threshold
  /\ allocs_since_scan' = 0
  /\ orc_entries' = [j \in Slots |->
                       IF j \in Registered THEN [orc_entries[j] EXCEPT !.color = White]
                       ELSE orc_entries[j]]
  /\ Enter("mark")
  /\ UNCHANGED <<arcVars, orc_count, tallies>>

(* The ORC entry the inner loop stops at, if any.                          *)
FirstFor(j, e) ==
  /\ j \in Registered
  /\ orc_entries[j].entry_idx = e
  /\ \A k \in Registered : orc_entries[k].entry_idx = e => j <= k

(* Mutant of Mark: the phase is missing, as in src/src/sage/mips_orc.sage. *)
MarkNothing ==
  /\ phase = "mark"
  /\ i < entry_count
  /\ i' = i + 1
  /\ UNCHANGED <<arcVars, orc_entries, orc_count, allocs_since_scan, tallies, phase, collected>>

(* Phase 2, with orc_mark_black: a string refers to no other.              *)
Mark ==
  /\ phase = "mark"
  /\ i < entry_count
  /\ IF Alive(i) /\ Found(i)
     THEN \E j \in Registered :
            /\ FirstFor(j, i)
            /\ orc_entries' = [orc_entries EXCEPT ![j].color = Black]
     ELSE UNCHANGED orc_entries
  /\ i' = i + 1
  /\ UNCHANGED <<arcVars, orc_count, allocs_since_scan, tallies, phase, collected>>

MarkDone ==
  /\ phase = "mark"
  /\ i = entry_count
  /\ Enter("trial")
  /\ UNCHANGED <<arcVars, orc_entries, orc_count, allocs_since_scan, tallies>>

(* Phase 3, orc_trial_delete: a white live entry loses a reference.        *)
Suspect(j) ==
  LET e == orc_entries[j]
  IN  e.color = White /\ e.entry_idx \in Tracked /\ Alive(e.entry_idx)

Trial ==
  /\ phase = "trial"
  /\ i < orc_count
  /\ i' = i + 1
  /\ IF Suspect(i)
     THEN LET e == orc_entries[i].entry_idx
              n == IF entries[e].refcount = 1 THEN 1 ELSE 0
          IN  /\ entries' = [entries EXCEPT ![e].refcount = Less(@)]
              /\ total_frees' = total_frees + n
              /\ objects_collected' = objects_collected + n
              /\ collected' = collected + n
     ELSE UNCHANGED <<entries, total_frees, objects_collected, collected>>
  /\ UNCHANGED <<entry_count, total_allocs, orc_entries, orc_count, allocs_since_scan,
                 cycles_detected, phase>>

TrialDone ==
  /\ phase = "trial"
  /\ i = orc_count
  /\ cycles_detected' = IF collected > 0 THEN cycles_detected + 1 ELSE cycles_detected
  /\ Enter("idle")
  /\ UNCHANGED <<arcVars, orc_entries, orc_count, allocs_since_scan, objects_collected>>

-----------------------------------------------------------------------------
Call == phase = "idle" /\ ArcNext /\ UNCHANGED orcVars

Scan == Register \/ NoScan \/ StartScan \/ Mark \/ MarkDone \/ Trial \/ TrialDone

Next == Call \/ NotifyAlloc \/ Scan

Spec == Init /\ [][Next]_vars

-----------------------------------------------------------------------------
(* The tables are well-formed and the loops within them.                   *)
TypeOK ==
  /\ ArcTypeOK
  /\ orc_entries \in [Slots -> [entry_idx : Slots \union {NoEntry}, color : {White, Black}]]
  /\ orc_count \in 0 .. PoolMax
  /\ allocs_since_scan \in 0 .. Threshold
  /\ phase # "register" => allocs_since_scan < Threshold
  /\ cycles_detected \in Nat /\ objects_collected \in Nat /\ collected \in Nat
  /\ phase \in {"idle", "register", "mark", "trial"}
  /\ i \in 0 .. PoolMax
  /\ phase \in {"register", "mark"} => i <= entry_count
  /\ phase = "trial" => i <= orc_count

(* An entry of the table is registered at most once.                       *)
RegisteredOnce ==
  /\ \A j \in Registered : orc_entries[j].entry_idx \in Tracked
  /\ \A j, k \in Registered : orc_entries[j].entry_idx = orc_entries[k].entry_idx => j = k

(* The scan sees every live entry: the detector's table never fills before *)
(* ARC's does, dead entries included.                                      *)
ScanSeesAll ==
  phase \in {"mark", "trial"} => \A e \in Tracked : Alive(e) => Found(e)

(* What is marked so far is black: when phase 3 begins, no live entry is   *)
(* a suspect.                                                              *)
LiveAreBlack ==
  \A j \in Registered :
    LET e == orc_entries[j].entry_idx
    IN  Alive(e) /\ (phase = "trial" \/ (phase = "mark" /\ e < i)) =>
          orc_entries[j].color = Black

(* A scan takes no reference and frees nothing, whatever was tracked,      *)
(* retained or released since the last one: only callers drop references.  *)
ScanTakesNothing == [][phase # "idle" => UNCHANGED <<entries, total_frees>>]_vars

(* ARC counts references: one call changes one count by one, a string has  *)
(* one live handle, and a handle that has died is never revived.           *)
CountOf  == [h \in Tracked |-> IF Alive(h) THEN entries[h].refcount ELSE 0]
StringOf == [h \in Tracked |-> entries[h].str_offset]

Counts == INSTANCE RefCounts WITH Handles <- Slots, count <- CountOf, string <- StringOf

CountsReferences == Counts!Spec
=============================================================================
