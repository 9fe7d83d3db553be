------------------------------ MODULE MipsArc ------------------------------
(***************************************************************************)
(* The reference counts of src/src/c/mips_arc.c: a table of entries, one   *)
(* for each string tracked, in order of arrival; an entry is never reused. *)
(* The caller is external and undisciplined: it may retain and release any *)
(* index at any time, a dead one included.  Calls that return early change *)
(* nothing and are stuttering steps.                                       *)
(***************************************************************************)
EXTENDS Integers, FiniteSets

CONSTANTS
  PoolMax,      \* ARC_STRING_POOL_MAX
  Strings,      \* the str_offset values the caller tracks
  MaxRefs,      \* bound: the references to one string
  MaxAllocs     \* bound: the calls of mips_arc_track_string

ASSUME ArcAssumption ==
  /\ PoolMax \in Nat
  /\ Strings \subseteq Nat
  /\ MaxRefs \in Nat \ {0}
  /\ MaxAllocs \in Nat

VARIABLES
  entries,          \* arc->entries; str_len is left out
  entry_count,
  total_allocs,
  total_frees

arcVars == <<entries, entry_count, total_allocs, total_frees>>

Slots == 0 .. PoolMax - 1

Entry(n, s) == [refcount |-> n, str_offset |-> s]

(* Indices in use.                                                         *)
Tracked == 0 .. entry_count - 1

Alive(i) == entries[i].refcount > 0

-----------------------------------------------------------------------------
ArcInit ==
  /\ entries = [i \in Slots |-> Entry(-1, 0)]
  /\ entry_count = 0
  /\ total_allocs = 0
  /\ total_frees = 0

(* arc_find_by_offset: what the linear scan would stop at, if anywhere.    *)
Finds(i, s) ==
  /\ i \in Tracked
  /\ entries[i].refcount >= 0 /\ entries[i].str_offset = s
  /\ \A j \in Tracked : entries[j].refcount >= 0 /\ entries[j].str_offset = s => i <= j

(* Mutant of TrackNew: the table's limit is not checked.                   *)
TrackNewUnchecked(s) ==
  /\ total_allocs < MaxAllocs
  /\ ~\E i \in Tracked : Finds(i, s)
  /\ entries' = [entries EXCEPT ![entry_count] = Entry(1, s)]
  /\ entry_count' = entry_count + 1
  /\ total_allocs' = total_allocs + 1
  /\ UNCHANGED total_frees

(* mips_arc_track_string of a string with no entry.                        *)
TrackNew(s) ==
  /\ total_allocs < MaxAllocs
  /\ entry_count < PoolMax
  /\ ~\E i \in Tracked : Finds(i, s)
  /\ entries' = [entries EXCEPT ![entry_count] = Entry(1, s)]
  /\ entry_count' = entry_count + 1
  /\ total_allocs' = total_allocs + 1
  /\ UNCHANGED total_frees

(* ... and of one that has an entry: refused, too, when the table is full. *)
TrackAgain(s) ==
  /\ total_allocs < MaxAllocs
  /\ entry_count < PoolMax
  /\ \E i \in Tracked :
       /\ Finds(i, s)
       /\ entries[i].refcount < MaxRefs
       /\ entries' = [entries EXCEPT ![i].refcount = @ + 1]
  /\ total_allocs' = total_allocs + 1
  /\ UNCHANGED <<entry_count, total_frees>>

(* Mutant of Retain: a freed entry can be retained.                        *)
RetainRevives(i) ==
  /\ i \in Tracked
  /\ entries[i].refcount < MaxRefs
  /\ entries' = [entries EXCEPT ![i].refcount = @ + 1]
  /\ UNCHANGED <<entry_count, total_allocs, total_frees>>

(* mips_arc_retain                                                         *)
Retain(i) ==
  /\ i \in Tracked
  /\ Alive(i)
  /\ entries[i].refcount < MaxRefs
  /\ entries' = [entries EXCEPT ![i].refcount = @ + 1]
  /\ UNCHANGED <<entry_count, total_allocs, total_frees>>

(* What one reference less makes of a count: the last one marks it freed.  *)
Less(n) == IF n - 1 <= 0 THEN -1 ELSE n - 1

(* Mutant of Release: the entry of the last reference keeps the count 0.   *)
ReleaseKeepsZero(i) ==
  /\ i \in Tracked
  /\ Alive(i)
  /\ entries' = [entries EXCEPT ![i].refcount = @ - 1]
  /\ total_frees' = IF entries[i].refcount = 1 THEN total_frees + 1 ELSE total_frees
  /\ UNCHANGED <<entry_count, total_allocs>>

(* mips_arc_release                                                        *)
Release(i) ==
  /\ i \in Tracked
  /\ Alive(i)
  /\ entries' = [entries EXCEPT ![i].refcount = Less(@)]
  /\ total_frees' = IF entries[i].refcount = 1 THEN total_frees + 1 ELSE total_frees
  /\ UNCHANGED <<entry_count, total_allocs>>

ArcNext ==
  \/ \E s \in Strings : TrackNew(s) \/ TrackAgain(s)
  \/ \E i \in Slots : Retain(i) \/ Release(i)

-----------------------------------------------------------------------------
ArcTypeOK ==
  /\ entries \in [Slots -> [refcount : (1 .. MaxRefs) \union {-1}, str_offset : Nat]]
  /\ entry_count \in 0 .. PoolMax
  /\ total_allocs \in 0 .. MaxAllocs
  /\ total_frees \in Nat

(* No two live entries stand for one string: find stops at the right one.  *)
OneEntryPerString ==
  \A i, j \in Tracked :
    Alive(i) /\ Alive(j) /\ entries[i].str_offset = entries[j].str_offset => i = j

(* Each entry is freed once: the frees reported are the entries not alive. *)
FreesAreDead == total_frees = Cardinality({i \in Tracked : ~Alive(i)})
=============================================================================
