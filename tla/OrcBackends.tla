---------------------------- MODULE OrcBackends ----------------------------
(***************************************************************************)
(* The two implementations of ARC and ORC, C and Sage, given the same      *)
(* calls.  The Sage classes (src/src/sage/mips_arc.sage, mips_orc.sage)    *)
(* keep growing lists where C has arrays, and their scan has no phase that *)
(* marks live entries black.                                               *)
(***************************************************************************)
EXTENDS MipsOrc, Sequences

VARIABLES
  sage_entries,       \* MipsARC.entries
  sage_registered,    \* the arc_idx values in MipsORC.orc_entries
  sage_allocs         \* MipsORC.allocs_since_scan

sageVars == <<sage_entries, sage_registered, sage_allocs>>

SageInit == sage_entries = << >> /\ sage_registered = {} /\ sage_allocs = 0

(* An index of the C table is one less than the position in the list.      *)
SageAlive(p) == sage_entries[p].refcount > 0

SageFinds(p, s) ==
  /\ p \in DOMAIN sage_entries
  /\ sage_entries[p].refcount >= 0 /\ sage_entries[p].str_offset = s
  /\ \A q \in 1 .. p - 1 : ~(sage_entries[q].refcount >= 0 /\ sage_entries[q].str_offset = s)

(* MipsARC.track                                                           *)
SageTrack(s) ==
  /\ \/ \E p \in DOMAIN sage_entries :
          /\ SageFinds(p, s)
          /\ sage_entries' = [sage_entries EXCEPT ![p].refcount = @ + 1]
     \/ /\ ~\E p \in DOMAIN sage_entries : SageFinds(p, s)
        /\ sage_entries' = Append(sage_entries, Entry(1, s))
  /\ UNCHANGED <<sage_registered, sage_allocs>>

(* MipsARC.retain                                                          *)
SageRetain(p) ==
  /\ sage_entries' = IF p \in DOMAIN sage_entries /\ SageAlive(p)
                     THEN [sage_entries EXCEPT ![p].refcount = @ + 1]
                     ELSE sage_entries
  /\ UNCHANGED <<sage_registered, sage_allocs>>

(* MipsARC.release                                                         *)
SageRelease(p) ==
  /\ sage_entries' = IF p \in DOMAIN sage_entries /\ SageAlive(p)
                     THEN [sage_entries EXCEPT ![p].refcount = Less(@)]
                     ELSE sage_entries
  /\ UNCHANGED <<sage_registered, sage_allocs>>

(* MipsORC.notify_alloc, with check_cycles and _trial_delete: every entry  *)
(* is white, so every live one loses a reference.                          *)
SageNotifyAlloc ==
  LET scans      == sage_allocs + 1 >= Threshold
      registered == sage_registered \union {p \in DOMAIN sage_entries : SageAlive(p)}
      Scanned(p) == scans /\ p \in registered /\ SageAlive(p)
  IN  /\ sage_allocs' = IF scans THEN 0 ELSE sage_allocs + 1
      /\ sage_registered' = registered
      /\ sage_entries' = [p \in DOMAIN sage_entries |->
                            IF Scanned(p)
                            THEN [sage_entries[p] EXCEPT !.refcount = Less(@)]
                            ELSE sage_entries[p]]

BothInit == Init /\ SageInit

(* One caller, the same call to each implementation.                       *)
BothNext ==
  \/ /\ phase = "idle"
     /\ UNCHANGED orcVars
     /\ \/ \E s \in Strings : (TrackNew(s) \/ TrackAgain(s)) /\ SageTrack(s)
        \/ \E e \in Slots : \/ Retain(e) /\ SageRetain(e + 1)
                            \/ Release(e) /\ SageRelease(e + 1)
  \/ NotifyAlloc /\ SageNotifyAlloc
  \/ Scan /\ UNCHANGED sageVars

BothSpec == BothInit /\ [][BothNext]_<<vars, sageVars>>

(* src/docs/orc.md:7, "Both the C backend and Sage backend implement       *)
(* identical ORC semantics": between calls the counts are the same.        *)
IdenticalCounts ==
  phase = "idle" =>
    /\ Len(sage_entries) = entry_count
    /\ \A e \in Tracked : sage_entries[e + 1] = entries[e]
=============================================================================
