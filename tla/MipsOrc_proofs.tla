--------------------------- MODULE MipsOrc_proofs ---------------------------
(***************************************************************************)
(* The detector's inductive invariant, for every table size, threshold and *)
(* set of strings: entries are registered once, the registering loop       *)
(* leaves out no live entry, and the marking loop leaves none white.  From *)
(* it follows that a scan takes no reference, and that ARC with the        *)
(* detector implements reference counting.                                 *)
(***************************************************************************)
EXTENDS MipsOrc, FiniteSetTheorems, TLAPS

(* What the registering loop has passed is registered, and stays so during *)
(* the scan.                                                               *)
PassedAreFound ==
  \A e \in Tracked :
    Alive(e) /\ (phase \in {"mark", "trial"} \/ (phase = "register" /\ e < i)) => Found(e)

OrcInv == TypeOK /\ OneEntryPerString /\ RegisteredOnce /\ PassedAreFound /\ LiveAreBlack

-----------------------------------------------------------------------------
(* An entry is alive or has the count -1, never 0.                         *)
LEMMA DeadOrAlive ==
  ASSUME TypeOK, NEW e \in Tracked
  PROVE  /\ e \in Slots /\ e \in Nat /\ e < PoolMax
         /\ entries[e] = Entry(entries[e].refcount, entries[e].str_offset)
         /\ entries[e].refcount \in Int /\ entries[e].str_offset \in Nat
         /\ Alive(e) => entries[e].refcount \in 1 .. MaxRefs
         /\ ~Alive(e) => entries[e].refcount = -1
         /\ entries[e].refcount >= 0 <=> Alive(e)
<1>1. e \in Slots /\ e \in Nat /\ e < PoolMax
  BY ArcAssumption DEF TypeOK, ArcTypeOK, Tracked, Slots
<1>2. entries[e] \in [refcount : (1 .. MaxRefs) \union {-1}, str_offset : Nat]
  BY <1>1 DEF TypeOK, ArcTypeOK
<1>3. entries[e] = Entry(entries[e].refcount, entries[e].str_offset)
  BY <1>2 DEF Entry
<1>4. entries[e].refcount \in (1 .. MaxRefs) \union {-1} /\ entries[e].str_offset \in Nat
  BY <1>2
<1> QED
  BY <1>1, <1>3, <1>4, ArcAssumption DEF Alive

(* With one entry to a string, looking it up finds that entry.             *)
LEMMA FindIsExact ==
  ASSUME TypeOK, OneEntryPerString, NEW e \in Tracked, NEW s
  PROVE  Finds(e, s) <=> Alive(e) /\ entries[e].str_offset = s
<1>1. Finds(e, s) => Alive(e) /\ entries[e].str_offset = s
  BY DeadOrAlive DEF Finds
<1>2. ASSUME Alive(e), entries[e].str_offset = s
      PROVE  Finds(e, s)
  <2>1. \A j \in Tracked : entries[j].refcount >= 0 /\ entries[j].str_offset = s => e = j
    BY <1>2, DeadOrAlive DEF OneEntryPerString
  <2> QED
    BY <1>2, <2>1, DeadOrAlive DEF Finds
<1> QED
  BY <1>1, <1>2

(* A step that changes one count: what the others see of it.               *)
LEMMA CountChange ==
  ASSUME TypeOK, NEW e \in Tracked, NEW n \in (1 .. MaxRefs) \union {-1},
         entries' = [entries EXCEPT ![e].refcount = n]
  PROVE  /\ entries' \in [Slots -> [refcount : (1 .. MaxRefs) \union {-1}, str_offset : Nat]]
         /\ entries'[e].refcount = n /\ entries'[e].str_offset = entries[e].str_offset
         /\ \A d \in Slots : d # e => entries'[d] = entries[d]
<1>1. e \in Slots /\ entries \in [Slots -> [refcount : (1 .. MaxRefs) \union {-1}, str_offset : Nat]]
  BY DeadOrAlive DEF TypeOK, ArcTypeOK
<1> QED
  BY <1>1

(* A step that appends an entry.                                           *)
LEMMA NewEntry ==
  ASSUME TypeOK, entry_count < PoolMax, NEW s \in Strings,
         entries' = [entries EXCEPT ![entry_count] = Entry(1, s)],
         entry_count' = entry_count + 1
  PROVE  /\ entries' \in [Slots -> [refcount : (1 .. MaxRefs) \union {-1}, str_offset : Nat]]
         /\ entry_count \in Slots /\ entry_count \notin Tracked
         /\ entries'[entry_count] = Entry(1, s)
         /\ \A d \in Tracked : entries'[d] = entries[d] /\ d \in Slots
         /\ Tracked' = Tracked \union {entry_count} /\ entry_count' \in 0 .. PoolMax
<1>1. entry_count \in Nat /\ PoolMax \in Nat /\ entry_count \in Slots
  BY ArcAssumption DEF TypeOK, ArcTypeOK, Slots
<1>2. Entry(1, s) \in [refcount : (1 .. MaxRefs) \union {-1}, str_offset : Nat]
  BY ArcAssumption DEF Entry
<1>3. entries \in [Slots -> [refcount : (1 .. MaxRefs) \union {-1}, str_offset : Nat]]
  BY DEF TypeOK, ArcTypeOK
<1>4. Tracked' = Tracked \union {entry_count} /\ entry_count \notin Tracked
  BY <1>1 DEF Tracked
<1>5. \A d \in Tracked : d \in Slots /\ d # entry_count
  BY <1>1, <1>4, DeadOrAlive
<1> QED
  BY <1>1, <1>2, <1>3, <1>4, <1>5

-----------------------------------------------------------------------------
(* The calls of ARC, made while the detector is idle.                      *)
LEMMA CallKeepsTypes ==
  ASSUME TypeOK, Call
  PROVE  TypeOK'
<1>1. phase = "idle" /\ UNCHANGED orcVars /\ ArcNext
  BY DEF Call
<1>2. ArcTypeOK'
  <2>1. CASE \E s \in Strings : TrackNew(s)
    <3>1. PICK s \in Strings : TrackNew(s)
      BY <2>1
    <3>2. total_allocs + 1 \in 0 .. MaxAllocs
      BY <3>1, ArcAssumption DEF TrackNew, TypeOK, ArcTypeOK
    <3> QED
      BY <3>1, <3>2, NewEntry DEF TrackNew, TypeOK, ArcTypeOK
  <2>2. CASE \E s \in Strings : TrackAgain(s)
    <3>1. PICK s \in Strings : TrackAgain(s)
      BY <2>2
    <3>2. total_allocs + 1 \in 0 .. MaxAllocs
      BY <3>1, ArcAssumption DEF TrackAgain, TypeOK, ArcTypeOK
    <3>3. PICK e \in Tracked : /\ entries[e].refcount >= 0
                               /\ entries[e].refcount < MaxRefs
                               /\ entries' = [entries EXCEPT ![e].refcount = @ + 1]
      BY <3>1 DEF TrackAgain, Finds
    <3>4. entries[e].refcount + 1 \in 1 .. MaxRefs
      BY <3>3, DeadOrAlive, ArcAssumption
    <3> QED
      BY <3>1, <3>2, <3>3, <3>4, CountChange DEF TrackAgain, TypeOK, ArcTypeOK
  <2>3. CASE \E e \in Slots : Retain(e)
    <3>1. PICK e \in Slots : Retain(e)
      BY <2>3
    <3>2. entries[e].refcount + 1 \in 1 .. MaxRefs
      BY <3>1, DeadOrAlive, ArcAssumption DEF Retain
    <3> QED
      BY <3>1, <3>2, CountChange DEF Retain, TypeOK, ArcTypeOK
  <2>4. CASE \E e \in Slots : Release(e)
    <3>1. PICK e \in Slots : Release(e)
      BY <2>4
    <3>2. Less(entries[e].refcount) \in (1 .. MaxRefs) \union {-1}
      BY <3>1, DeadOrAlive, ArcAssumption DEF Release, Less
    <3>3. total_frees' \in Nat
      BY <3>1 DEF Release, TypeOK, ArcTypeOK
    <3> QED
      BY <3>1, <3>2, <3>3, CountChange DEF Release, TypeOK, ArcTypeOK
  <2> QED
    BY <1>1, <2>1, <2>2, <2>3, <2>4 DEF ArcNext
<1> QED
  BY <1>1, <1>2 DEF TypeOK, orcVars

LEMMA CallKeepsStrings ==
  ASSUME TypeOK, OneEntryPerString, Call
  PROVE  OneEntryPerString'
<1>1. CASE \E s \in Strings : TrackNew(s)
  <2>1. PICK s \in Strings : TrackNew(s)
    BY <1>1
  <2>2. /\ entries'[entry_count] = Entry(1, s)
        /\ \A d \in Tracked : entries'[d] = entries[d]
        /\ Tracked' = Tracked \union {entry_count}
    BY <2>1, NewEntry DEF TrackNew
  <2>3. \A d \in Tracked : ~(Alive(d) /\ entries[d].str_offset = s)
    BY <2>1, FindIsExact DEF TrackNew
  <2> QED
    BY <2>2, <2>3 DEF OneEntryPerString, Alive, Entry
<1>2. CASE \E e \in Tracked : \E n \in (1 .. MaxRefs) \union {-1} :
             /\ Alive(e) /\ entry_count' = entry_count
             /\ entries' = [entries EXCEPT ![e].refcount = n]
  <2>1. PICK e \in Tracked : \E n \in (1 .. MaxRefs) \union {-1} :
               /\ Alive(e) /\ entry_count' = entry_count
               /\ entries' = [entries EXCEPT ![e].refcount = n]
    BY <1>2
  <2>2. PICK n \in (1 .. MaxRefs) \union {-1} :
               /\ Alive(e) /\ entry_count' = entry_count
               /\ entries' = [entries EXCEPT ![e].refcount = n]
    BY <2>1
  <2>3. \A d \in Slots : d # e => entries'[d] = entries[d]
    BY <2>2, CountChange
  <2>4. entries'[e].str_offset = entries[e].str_offset
    BY <2>2, CountChange
  <2>5. \A d \in Tracked : /\ entries'[d].str_offset = entries[d].str_offset
                           /\ Alive(d)' => Alive(d)
    BY <2>2, <2>3, <2>4, DeadOrAlive DEF Alive
  <2> QED
    BY <2>2, <2>5 DEF OneEntryPerString, Tracked
<1>3. ASSUME NEW e \in Slots, Retain(e)
      PROVE  OneEntryPerString'
  <2>1. e \in Tracked /\ Alive(e)
    BY <1>3 DEF Retain
  <2>2. entries[e].refcount + 1 \in (1 .. MaxRefs) \union {-1}
    BY <1>3, <2>1, DeadOrAlive, ArcAssumption DEF Retain
  <2> QED
    BY <1>2, <1>3, <2>1, <2>2 DEF Retain
<1>4. ASSUME NEW e \in Slots, Release(e)
      PROVE  OneEntryPerString'
  <2>1. e \in Tracked /\ Alive(e)
    BY <1>4 DEF Release
  <2>2. Less(entries[e].refcount) \in (1 .. MaxRefs) \union {-1}
    BY <1>4, <2>1, DeadOrAlive, ArcAssumption DEF Less
  <2> QED
    BY <1>2, <1>4, <2>1, <2>2 DEF Release
<1>5. ASSUME NEW s \in Strings, TrackAgain(s)
      PROVE  OneEntryPerString'
  <2>1. PICK e \in Tracked : /\ Finds(e, s) /\ entries[e].refcount < MaxRefs
                             /\ entries' = [entries EXCEPT ![e].refcount = @ + 1]
    BY <1>5 DEF TrackAgain
  <2>2. Alive(e)
    BY <2>1, FindIsExact
  <2>3. entries[e].refcount + 1 \in (1 .. MaxRefs) \union {-1}
    BY <2>1, <2>2, DeadOrAlive, ArcAssumption
  <2> QED
    BY <1>2, <1>5, <2>1, <2>2, <2>3 DEF TrackAgain
<1> QED
  BY <1>1, <1>3, <1>4, <1>5 DEF Call, ArcNext

(* A call only extends the table, so what is registered stays an entry.    *)
LEMMA CallKeepsRegistered ==
  ASSUME TypeOK, RegisteredOnce, Call
  PROVE  RegisteredOnce' /\ PassedAreFound' /\ LiveAreBlack'
<1>1. UNCHANGED orcVars /\ phase = "idle"
  BY DEF Call
<1>2. Tracked \subseteq Tracked'
  <2>1. entry_count' = entry_count \/ entry_count' = entry_count + 1
    BY DEF Call, ArcNext, TrackNew, TrackAgain, Retain, Release
  <2>2. entry_count \in Nat
    BY DEF TypeOK, ArcTypeOK
  <2> QED
    BY <2>1, <2>2 DEF Tracked
<1>3. RegisteredOnce'
  BY <1>1, <1>2 DEF RegisteredOnce, Registered, orcVars
<1>4. PassedAreFound' /\ LiveAreBlack'
  BY <1>1 DEF PassedAreFound, LiveAreBlack, orcVars
<1> QED
  BY <1>3, <1>4
-----------------------------------------------------------------------------
(* The loops of the detector.                                              *)
LEMMA RegisteringHasRoom ==
  ASSUME TypeOK, RegisteredOnce, NEW e \in Tracked, ~Found(e)
  PROVE  orc_count < PoolMax
<1> SUFFICES ASSUME orc_count = PoolMax PROVE FALSE
  BY ArcAssumption DEF TypeOK
<1> DEFINE f == [j \in Registered |-> orc_entries[j].entry_idx]
           T == Tracked \ {e}
<1>1. PoolMax \in Nat /\ entry_count \in Nat /\ entry_count <= PoolMax /\ orc_count \in Nat
  BY ArcAssumption DEF TypeOK, ArcTypeOK
<1>2. f \in [Registered -> T]
  BY DEF RegisteredOnce, Found
<1>3. IsFiniteSet(Registered) /\ Cardinality(Registered) = PoolMax
  BY <1>1, FS_Interval DEF Registered
<1>4. IsFiniteSet(Tracked) /\ Cardinality(Tracked) = entry_count
  BY <1>1, FS_Interval DEF Tracked
<1>5. IsFiniteSet(T) /\ Cardinality(T) = entry_count - 1
  BY <1>4, FS_RemoveElement
<1>6. Cardinality(T) < Cardinality(Registered)
  BY <1>1, <1>3, <1>5
<1> HIDE DEF T, f
<1>7. \E j, k \in Registered : j # k /\ f[j] = f[k]
  BY <1>2, <1>3, <1>5, <1>6, FS_PigeonHole
<1> QED
  BY <1>7 DEF f, RegisteredOnce

LEMMA RegisterKeeps ==
  ASSUME OrcInv, Register
  PROVE  OrcInv'
<1>1. /\ phase = "register" /\ phase' = phase /\ i' = i + 1 /\ i < entry_count
      /\ UNCHANGED arcVars /\ UNCHANGED <<allocs_since_scan, tallies, collected>>
  BY DEF Register
<1>2. TypeOK /\ RegisteredOnce /\ OneEntryPerString /\ PassedAreFound
  BY DEF OrcInv
<1>3. /\ i \in Nat /\ entry_count \in Nat /\ entry_count <= PoolMax /\ PoolMax \in Nat
      /\ i \in Tracked /\ i \in Slots /\ orc_count \in Nat /\ orc_count <= PoolMax
      /\ i + 1 \in 0 .. PoolMax /\ i + 1 <= entry_count
  BY <1>1, <1>2, ArcAssumption DEF TypeOK, ArcTypeOK, Tracked, Slots
<1>4. OneEntryPerString' /\ ArcTypeOK'
  BY <1>1, <1>2 DEF TypeOK, ArcTypeOK, OneEntryPerString, Tracked, Alive, arcVars
<1>5. Tracked' = Tracked /\ \A e : Alive(e)' <=> Alive(e)
  BY <1>1 DEF Tracked, Alive, arcVars
<1>6. LiveAreBlack'
  BY <1>1 DEF LiveAreBlack
<1>7. CASE Alive(i) /\ ~Found(i) /\ orc_count < PoolMax
  <2>1. /\ orc_entries' = [orc_entries EXCEPT ![orc_count] = OrcEntry(i, White)]
        /\ orc_count' = orc_count + 1
    BY <1>7 DEF Register
  <2>2. orc_count \in Slots /\ OrcEntry(i, White) \in [entry_idx : Slots \union {NoEntry}, color : {White, Black}]
    BY <1>3, <1>7 DEF Slots, OrcEntry
  <2>3. /\ orc_entries' \in [Slots -> [entry_idx : Slots \union {NoEntry}, color : {White, Black}]]
        /\ orc_entries'[orc_count] = OrcEntry(i, White)
        /\ \A j \in Slots : j # orc_count => orc_entries'[j] = orc_entries[j]
    BY <1>2, <2>1, <2>2 DEF TypeOK
  <2>4. orc_count' \in 0 .. PoolMax
    BY <1>3, <1>7, <2>1
  <2>5. /\ Registered' = Registered \union {orc_count}
        /\ \A j \in Registered : j \in Slots /\ j # orc_count
    BY <1>3, <2>1 DEF Registered, Slots
  <2>6. TypeOK'
    BY <1>1, <1>2, <1>3, <1>4, <2>3, <2>4 DEF TypeOK, arcVars, tallies
  <2>7. orc_entries'[orc_count].entry_idx = i
    BY <2>3 DEF OrcEntry
  <2>8. RegisteredOnce'
    BY <1>2, <1>3, <1>5, <1>7, <2>3, <2>5, <2>7 DEF RegisteredOnce, Found
  <2>9. \A e : Found(e) \/ e = i => Found(e)'
    BY <2>3, <2>5, <2>7 DEF Found
  <2>10. PassedAreFound'
    <3> SUFFICES ASSUME NEW e \in Tracked, Alive(e), e < i + 1
                 PROVE  Found(e)'
      BY <1>1, <1>5 DEF PassedAreFound
    <3>1. e \in Nat /\ (e < i \/ e = i)
      BY <1>3 DEF Tracked
    <3> QED
      BY <1>1, <1>2, <2>9, <3>1 DEF PassedAreFound
  <2> QED
    BY <1>4, <1>6, <2>6, <2>8, <2>10 DEF OrcInv
<1>8. CASE ~(Alive(i) /\ ~Found(i) /\ orc_count < PoolMax)
  <2>1. UNCHANGED <<orc_entries, orc_count>>
    BY <1>8 DEF Register
  <2>2. TypeOK'
    BY <1>1, <1>2, <1>3, <1>4, <2>1 DEF TypeOK, arcVars, tallies
  <2>3. RegisteredOnce'
    BY <1>2, <1>5, <2>1 DEF RegisteredOnce, Registered
  <2>4. Alive(i) => Found(i)
    BY <1>2, <1>3, <1>8, RegisteringHasRoom
  <2>5. PassedAreFound'
    <3> SUFFICES ASSUME NEW e \in Tracked, Alive(e), e < i + 1
                 PROVE  Found(e)
      BY <1>1, <1>5, <2>1 DEF PassedAreFound, Found, Registered
    <3>1. e \in Nat /\ (e < i \/ e = i)
      BY <1>3 DEF Tracked
    <3> QED
      BY <1>1, <1>2, <2>4, <3>1 DEF PassedAreFound
  <2> QED
    BY <1>4, <1>6, <2>2, <2>3, <2>5 DEF OrcInv
<1> QED
  BY <1>7, <1>8

LEMMA StartScanKeeps ==
  ASSUME OrcInv, StartScan
  PROVE  OrcInv'
<1>1. /\ phase = "register" /\ phase' = "mark" /\ i' = 0 /\ i = entry_count
      /\ collected' = 0 /\ allocs_since_scan' = 0
      /\ UNCHANGED <<arcVars, orc_count, tallies>>
      /\ orc_entries' = [j \in Slots |->
                            IF j \in Registered THEN [orc_entries[j] EXCEPT !.color = White]
                            ELSE orc_entries[j]]
  BY DEF StartScan, Enter
<1>2. TypeOK /\ RegisteredOnce /\ OneEntryPerString /\ PassedAreFound
  BY DEF OrcInv
<1>3. Tracked' = Tracked /\ Registered' = Registered /\ \A e : Alive(e)' <=> Alive(e)
  BY <1>1 DEF Tracked, Alive, Registered, arcVars
<1>4. \A j \in Slots : /\ orc_entries[j] \in [entry_idx : Slots \union {NoEntry}, color : {White, Black}]
                       /\ orc_entries'[j] \in [entry_idx : Slots \union {NoEntry}, color : {White, Black}]
                       /\ orc_entries'[j].entry_idx = orc_entries[j].entry_idx
  BY <1>1, <1>2 DEF TypeOK
<1>5. orc_entries' \in [Slots -> [entry_idx : Slots \union {NoEntry}, color : {White, Black}]]
  BY <1>1, <1>4
<1>6. TypeOK'
  <2>1. 0 \in 0 .. Threshold /\ 0 < Threshold /\ 0 \in 0 .. PoolMax
    BY ArcAssumption, OrcAssumption
  <2>2. 0 <= entry_count
    BY <1>2 DEF TypeOK, ArcTypeOK
  <2> QED
    BY <1>1, <1>2, <1>5, <2>1, <2>2 DEF TypeOK, ArcTypeOK, arcVars, tallies
<1>7. \A j \in Registered : j \in Slots
  BY <1>2, ArcAssumption DEF TypeOK, Registered, Slots
<1>8. RegisteredOnce'
  BY <1>2, <1>3, <1>4, <1>7 DEF RegisteredOnce
<1>9. PassedAreFound'
  <2> SUFFICES ASSUME NEW e \in Tracked, Alive(e) PROVE Found(e)'
    BY <1>1, <1>3 DEF PassedAreFound
  <2>1. e < i
    BY <1>1, <1>2 DEF TypeOK, ArcTypeOK, Tracked
  <2>2. Found(e)
    BY <1>1, <1>2, <2>1 DEF PassedAreFound
  <2> QED
    BY <1>3, <1>4, <1>7, <2>2 DEF Found
<1>10. LiveAreBlack'
  <2>1. \A j \in Registered : ~(orc_entries'[j].entry_idx < 0)
    BY <1>2, <1>4, <1>7 DEF RegisteredOnce, Tracked, TypeOK, ArcTypeOK
  <2> QED
    BY <1>1, <1>3, <2>1 DEF LiveAreBlack
<1>11. OneEntryPerString'
  BY <1>1, <1>2 DEF OneEntryPerString, Tracked, Alive, arcVars
<1> QED
  BY <1>6, <1>8, <1>9, <1>10, <1>11 DEF OrcInv

LEMMA MarkKeeps ==
  ASSUME OrcInv, Mark
  PROVE  OrcInv'
<1>1. /\ phase = "mark" /\ phase' = phase /\ i' = i + 1 /\ i < entry_count
      /\ UNCHANGED arcVars /\ UNCHANGED <<orc_count, allocs_since_scan, tallies, collected>>
  BY DEF Mark
<1>2. TypeOK /\ RegisteredOnce /\ OneEntryPerString /\ PassedAreFound /\ LiveAreBlack
  BY DEF OrcInv
<1>3. /\ i \in Nat /\ entry_count \in Nat /\ i + 1 \in 0 .. PoolMax /\ i + 1 <= entry_count
  BY <1>1, <1>2, ArcAssumption DEF TypeOK, ArcTypeOK
<1>4. Tracked' = Tracked /\ Registered' = Registered /\ \A e : Alive(e)' <=> Alive(e)
  BY <1>1 DEF Tracked, Alive, Registered, arcVars
<1>5. \A j \in Registered : j \in Slots /\ orc_entries[j].entry_idx \in Nat
  BY <1>2, ArcAssumption DEF TypeOK, ArcTypeOK, Registered, Slots, RegisteredOnce, Tracked
<1>6. /\ orc_entries' \in [Slots -> [entry_idx : Slots \union {NoEntry}, color : {White, Black}]]
      /\ \A j \in Registered :
           /\ orc_entries'[j].entry_idx = orc_entries[j].entry_idx
           /\ orc_entries[j].color = Black => orc_entries'[j].color = Black
           /\ Alive(i) /\ orc_entries[j].entry_idx = i => orc_entries'[j].color = Black
  <2>1. CASE Alive(i) /\ Found(i)
    <3>1. PICK j \in Registered :
            FirstFor(j, i) /\ orc_entries' = [orc_entries EXCEPT ![j].color = Black]
      BY <2>1 DEF Mark
    <3>2. /\ j \in Slots /\ orc_entries[j].entry_idx = i
          /\ orc_entries \in [Slots -> [entry_idx : Slots \union {NoEntry}, color : {White, Black}]]
      BY <1>2, <1>5, <3>1 DEF FirstFor, TypeOK
    <3>3. \A k \in Registered : orc_entries[k].entry_idx = i => k = j
      BY <1>2, <3>1, <3>2 DEF RegisteredOnce
    <3> QED
      BY <1>5, <3>1, <3>2, <3>3
  <2>2. CASE ~(Alive(i) /\ Found(i))
    <3>1. orc_entries' = orc_entries
      BY <2>2 DEF Mark
    <3> QED
      BY <1>2, <2>2, <3>1 DEF TypeOK, Found
  <2> QED
    BY <2>1, <2>2
<1>7. TypeOK'
  BY <1>1, <1>2, <1>3, <1>6 DEF TypeOK, ArcTypeOK, arcVars, tallies
<1>8. RegisteredOnce'
  BY <1>2, <1>4, <1>6 DEF RegisteredOnce
<1>9. PassedAreFound'
  BY <1>1, <1>2, <1>4, <1>6 DEF PassedAreFound, Found
<1>10. LiveAreBlack'
  <2> SUFFICES ASSUME NEW j \in Registered, Alive(orc_entries[j].entry_idx),
                      orc_entries[j].entry_idx < i + 1
               PROVE  orc_entries'[j].color = Black
    BY <1>1, <1>4, <1>6 DEF LiveAreBlack
  <2>1. orc_entries[j].entry_idx < i \/ orc_entries[j].entry_idx = i
    BY <1>3, <1>5
  <2> QED
    BY <1>1, <1>2, <1>6, <2>1 DEF LiveAreBlack
<1>11. OneEntryPerString'
  BY <1>1, <1>2 DEF OneEntryPerString, Tracked, Alive, arcVars
<1> QED
  BY <1>7, <1>8, <1>9, <1>10, <1>11 DEF OrcInv

(* No live entry is a suspect, so the trial passes over all of them.       *)
LEMMA TrialSpares ==
  ASSUME OrcInv, Trial
  PROVE  UNCHANGED <<entries, total_frees, objects_collected, collected>>
<1>1. phase = "trial" /\ i \in Registered
  BY ArcAssumption DEF Trial, OrcInv, TypeOK, Registered
<1>2. ~Suspect(i)
  BY <1>1 DEF OrcInv, LiveAreBlack, Suspect, Black, White
<1> QED
  BY <1>2 DEF Trial
(* The steps between the loops, and the trial, which change no table.      *)
LEMMA OtherStepsKeep ==
  ASSUME OrcInv, NotifyAlloc \/ NoScan \/ MarkDone \/ Trial \/ TrialDone
  PROVE  OrcInv'
<1>1. TypeOK /\ RegisteredOnce /\ OneEntryPerString /\ PassedAreFound /\ LiveAreBlack
  BY DEF OrcInv
<1>2. UNCHANGED <<arcVars, orc_entries, orc_count, objects_collected>>
  BY TrialSpares DEF NotifyAlloc, NoScan, MarkDone, Trial, TrialDone, arcVars, tallies
<1>3. /\ Tracked' = Tracked /\ Registered' = Registered
      /\ \A e : (Alive(e)' <=> Alive(e)) /\ (Found(e)' <=> Found(e))
  BY <1>2 DEF Tracked, Alive, Registered, Found, arcVars
<1>4. TypeOK'
  <2>1. 0 \in 0 .. PoolMax /\ 0 <= entry_count /\ 0 <= orc_count
    BY <1>1, ArcAssumption DEF TypeOK, ArcTypeOK
  <2>2. ArcTypeOK' /\ orc_count' \in 0 .. PoolMax
        /\ orc_entries' \in [Slots -> [entry_idx : Slots \union {NoEntry}, color : {White, Black}]]
        /\ objects_collected' \in Nat
    BY <1>1, <1>2 DEF TypeOK, ArcTypeOK, arcVars
  <2>3. CASE NotifyAlloc
    <3>1. allocs_since_scan + 1 \in 0 .. Threshold
      BY <1>1, <2>3, OrcAssumption DEF NotifyAlloc, TypeOK
    <3> QED
      BY <1>1, <1>2, <2>1, <2>2, <2>3, <3>1 DEF NotifyAlloc, TypeOK, Enter, tallies, arcVars
  <2>4. CASE NoScan
    BY <1>1, <1>2, <2>1, <2>2, <2>4 DEF NoScan, TypeOK, Enter, tallies
  <2>5. CASE MarkDone
    BY <1>1, <1>2, <2>1, <2>2, <2>5 DEF MarkDone, TypeOK, Enter, tallies
  <2>6. CASE Trial
    <3>1. /\ phase = "trial" /\ phase' = phase /\ i' = i + 1 /\ i < orc_count
          /\ UNCHANGED <<allocs_since_scan, cycles_detected, collected>>
      BY <2>6, TrialSpares DEF Trial
    <3>2. i + 1 \in 0 .. PoolMax /\ i + 1 <= orc_count
      BY <1>1, <3>1, ArcAssumption DEF TypeOK
    <3> QED
      BY <1>1, <1>2, <2>2, <3>1, <3>2 DEF TypeOK
  <2>7. CASE TrialDone
    <3>1. cycles_detected' \in Nat
      BY <1>1, <2>7 DEF TrialDone, TypeOK
    <3> QED
      BY <1>1, <1>2, <2>1, <2>2, <2>7, <3>1 DEF TrialDone, TypeOK, Enter
  <2> QED
    BY <2>3, <2>4, <2>5, <2>6, <2>7
<1>5. RegisteredOnce' /\ OneEntryPerString'
  BY <1>1, <1>2, <1>3 DEF RegisteredOnce, OneEntryPerString, arcVars
<1>6. PassedAreFound'
  <2>1. CASE NotifyAlloc
    <3>1. phase' = "register" /\ i' = 0
      BY <2>1 DEF NotifyAlloc, Enter
    <3>2. \A e \in Tracked : ~(e < 0)
      BY <1>1 DEF TypeOK, ArcTypeOK, Tracked
    <3> QED
      BY <1>3, <3>1, <3>2 DEF PassedAreFound
  <2>2. CASE NoScan \/ TrialDone
    BY <2>2 DEF NoScan, TrialDone, Enter, PassedAreFound
  <2>3. CASE MarkDone \/ Trial
    BY <1>1, <1>3, <2>3 DEF MarkDone, Trial, Enter, PassedAreFound
  <2> QED
    BY <2>1, <2>2, <2>3
<1>7. LiveAreBlack'
  <2>1. CASE NotifyAlloc \/ NoScan \/ TrialDone
    BY <2>1 DEF NotifyAlloc, NoScan, TrialDone, Enter, LiveAreBlack
  <2>2. CASE MarkDone
    <3>1. phase = "mark" /\ i = entry_count
      BY <2>2 DEF MarkDone
    <3>2. \A j \in Registered : orc_entries[j].entry_idx < entry_count
      BY <1>1 DEF RegisteredOnce, Tracked, TypeOK, ArcTypeOK
    <3> QED
      BY <1>1, <1>2, <1>3, <3>1, <3>2 DEF LiveAreBlack
  <2>3. CASE Trial
    BY <1>1, <1>2, <1>3, <2>3 DEF Trial, LiveAreBlack
  <2> QED
    BY <2>1, <2>2, <2>3
<1> QED
  BY <1>4, <1>5, <1>6, <1>7 DEF OrcInv

LEMMA OrcStart == Init => OrcInv
<1> SUFFICES ASSUME Init PROVE OrcInv
  OBVIOUS
<1>1. Tracked = {} /\ Registered = {}
  BY DEF Init, ArcInit, Tracked, Registered
<1>2. TypeOK
  <2>1. 0 \in 0 .. PoolMax /\ 0 \in 0 .. MaxAllocs /\ 0 \in 0 .. Threshold /\ 0 < Threshold
    BY ArcAssumption, OrcAssumption
  <2>2. Entry(-1, 0) \in [refcount : (1 .. MaxRefs) \union {-1}, str_offset : Nat]
    BY DEF Entry
  <2>3. OrcEntry(NoEntry, White) \in [entry_idx : Slots \union {NoEntry}, color : {White, Black}]
    BY DEF OrcEntry
  <2> QED
    BY <2>1, <2>2, <2>3 DEF Init, ArcInit, TypeOK, ArcTypeOK
<1> QED
  BY <1>1, <1>2 DEF OrcInv, OneEntryPerString, RegisteredOnce, PassedAreFound, LiveAreBlack

LEMMA OrcNext == OrcInv /\ [Next]_vars => OrcInv'
<1> SUFFICES ASSUME OrcInv, [Next]_vars PROVE OrcInv'
  OBVIOUS
<1>1. CASE Call
  BY <1>1, CallKeepsTypes, CallKeepsStrings, CallKeepsRegistered DEF OrcInv
<1>2. CASE UNCHANGED vars
  BY <1>2 DEF vars, arcVars, orcVars, OrcInv, TypeOK, ArcTypeOK, OneEntryPerString, RegisteredOnce,
              PassedAreFound, LiveAreBlack, Tracked, Registered, Alive, Found
<1> QED
  BY <1>1, <1>2, RegisterKeeps, StartScanKeeps, MarkKeeps, OtherStepsKeep DEF Next, Scan

(* The tables are well-formed and every index within them, always.         *)
THEOREM OrcCorrect == Spec => []OrcInv
BY OrcStart, OrcNext, PTL DEF Spec

THEOREM OrcTypeCorrect == Spec => []TypeOK
<1>1. OrcInv => TypeOK
  BY DEF OrcInv
<1> QED
  BY <1>1, OrcCorrect, PTL

(* Looking a string up finds the only live entry it has.                   *)
THEOREM OneEntry == Spec => []OneEntryPerString
<1>1. OrcInv => OneEntryPerString
  BY DEF OrcInv
<1> QED
  BY <1>1, OrcCorrect, PTL

(* The detector registers an entry at most once.                           *)
THEOREM OnceRegistered == Spec => []RegisteredOnce
<1>1. OrcInv => RegisteredOnce
  BY DEF OrcInv
<1> QED
  BY <1>1, OrcCorrect, PTL

(* No live entry escapes a scan: by the pigeonhole principle the           *)
(* detector's table has room for every entry of ARC's.                     *)
THEOREM AllSeen == Spec => []ScanSeesAll
<1>1. OrcInv => ScanSeesAll
  BY DEF OrcInv, PassedAreFound, ScanSeesAll
<1> QED
  BY <1>1, OrcCorrect, PTL

(* No scan takes a reference from, or frees, a string.                     *)
THEOREM ScansAreHarmless == Spec => ScanTakesNothing
<1>1. OrcInv /\ [Next]_vars => [phase # "idle" => UNCHANGED <<entries, total_frees>>]_vars
  <2> SUFFICES ASSUME OrcInv, Next, phase # "idle"
               PROVE  UNCHANGED <<entries, total_frees>>
    OBVIOUS
  <2> QED
    BY TrialSpares DEF Next, Call, Scan, NotifyAlloc, Register, NoScan, StartScan, Mark, MarkDone,
                       TrialDone, arcVars
<1> QED
  BY <1>1, OrcCorrect, PTL DEF Spec, ScanTakesNothing
-----------------------------------------------------------------------------
(* Frees: one for each entry that is not alive.                            *)
Dead == {e \in Tracked : ~Alive(e)}

LEMMA DeadIsFinite ==
  ASSUME TypeOK
  PROVE  IsFiniteSet(Dead)
<1>1. IsFiniteSet(Tracked)
  BY FS_Interval DEF TypeOK, ArcTypeOK, Tracked
<1> QED
  BY <1>1, FS_Subset DEF Dead

LEMMA CountRises ==
  ASSUME TypeOK, NEW e \in Tracked, Alive(e), entries[e].refcount < MaxRefs,
         entries' = [entries EXCEPT ![e].refcount = @ + 1], entry_count' = entry_count
  PROVE  Dead' = Dead
<1>1. entries[e].refcount + 1 \in (1 .. MaxRefs) \union {-1}
  BY DeadOrAlive, ArcAssumption
<1>2. /\ entries'[e].refcount = entries[e].refcount + 1
      /\ \A d \in Slots : d # e => entries'[d] = entries[d]
  BY <1>1, CountChange
<1>3. \A d \in Tracked : d \in Slots /\ (Alive(d)' <=> Alive(d))
  BY <1>1, <1>2, DeadOrAlive DEF Alive
<1> QED
  BY <1>3 DEF Dead, Tracked

LEMMA FreesStep ==
  ASSUME OrcInv, FreesAreDead, [Next]_vars
  PROVE  FreesAreDead'
<1>1. TypeOK /\ OneEntryPerString
  BY DEF OrcInv
<1>2. total_frees = Cardinality(Dead)
  BY DEF FreesAreDead, Dead
<1>3. ASSUME Dead' = Dead, total_frees' = total_frees
      PROVE  FreesAreDead'
  BY <1>2, <1>3 DEF FreesAreDead, Dead
<1>4. ASSUME NEW s \in Strings, TrackNew(s)
      PROVE  FreesAreDead'
  <2>1. /\ entries'[entry_count] = Entry(1, s)
        /\ \A d \in Tracked : entries'[d] = entries[d]
        /\ Tracked' = Tracked \union {entry_count}
    BY <1>1, <1>4, NewEntry DEF TrackNew
  <2>2. Dead' = Dead
    BY <2>1 DEF Dead, Alive, Entry
  <2> QED
    BY <1>3, <1>4, <2>2 DEF TrackNew
<1>5. ASSUME NEW s \in Strings, TrackAgain(s)
      PROVE  FreesAreDead'
  <2>1. PICK e \in Tracked : /\ Finds(e, s) /\ entries[e].refcount < MaxRefs
                             /\ entries' = [entries EXCEPT ![e].refcount = @ + 1]
    BY <1>5 DEF TrackAgain
  <2>2. Alive(e)
    BY <1>1, <2>1, FindIsExact
  <2> QED
    BY <1>1, <1>3, <1>5, <2>1, <2>2, CountRises DEF TrackAgain
<1>6. ASSUME NEW e \in Slots, Retain(e)
      PROVE  FreesAreDead'
  BY <1>1, <1>3, <1>6, CountRises DEF Retain
<1>7. ASSUME NEW e \in Slots, Release(e)
      PROVE  FreesAreDead'
  <2>1. /\ e \in Tracked /\ Alive(e) /\ entry_count' = entry_count
        /\ entries' = [entries EXCEPT ![e].refcount = Less(entries[e].refcount)]
        /\ total_frees' = IF entries[e].refcount = 1 THEN total_frees + 1 ELSE total_frees
    BY <1>7 DEF Release
  <2>2. entries[e].refcount \in 1 .. MaxRefs
    BY <1>1, <2>1, DeadOrAlive
  <2>3. Less(entries[e].refcount) \in (1 .. MaxRefs) \union {-1}
    BY <2>2, ArcAssumption DEF Less
  <2>4. /\ entries'[e].refcount = Less(entries[e].refcount)
        /\ \A d \in Slots : d # e => entries'[d] = entries[d]
    BY <1>1, <2>1, <2>3, CountChange
  <2>5. Tracked' = Tracked /\ \A d \in Tracked : d # e => (Alive(d)' <=> Alive(d))
    BY <1>1, <2>1, <2>4, DeadOrAlive DEF Tracked, Alive
  <2>6. CASE entries[e].refcount = 1
    <3>1. ~Alive(e)'
      BY <2>4, <2>6 DEF Alive, Less
    <3>2. Dead' = Dead \union {e} /\ e \notin Dead
      BY <2>1, <2>5, <3>1 DEF Dead
    <3>3. Cardinality(Dead \union {e}) = Cardinality(Dead) + 1
      BY <1>1, <3>2, DeadIsFinite, FS_AddElement
    <3> QED
      BY <1>2, <2>1, <2>6, <3>2, <3>3 DEF FreesAreDead, Dead
  <2>7. CASE entries[e].refcount # 1
    <3>1. Alive(e)'
      BY <2>2, <2>4, <2>7, ArcAssumption DEF Alive, Less
    <3>2. Dead' = Dead
      BY <2>1, <2>5, <3>1 DEF Dead
    <3> QED
      BY <1>3, <2>1, <2>7, <3>2
  <2> QED
    BY <2>6, <2>7
<1>8. CASE Call
  BY <1>4, <1>5, <1>6, <1>7, <1>8 DEF Call, ArcNext
<1>9. ASSUME UNCHANGED <<entries, entry_count, total_frees>>
      PROVE  FreesAreDead'
  BY <1>3, <1>9 DEF Dead, Alive, Tracked
<1>10. NotifyAlloc \/ Scan \/ UNCHANGED vars => UNCHANGED <<entries, entry_count, total_frees>>
  BY TrialSpares DEF Scan, NotifyAlloc, Register, NoScan, StartScan, Mark, MarkDone, Trial, TrialDone,
                     vars, arcVars
<1> QED
  BY <1>8, <1>9, <1>10 DEF Next

(* Every entry is freed at most once, and every free is reported.          *)
THEOREM FreesReported == Spec => []FreesAreDead
<1>1. Init => FreesAreDead
  <2>1. Init => {e \in Tracked : ~Alive(e)} = {} /\ total_frees = 0
    BY DEF Init, ArcInit, Tracked
  <2> QED
    BY <2>1, FS_EmptySet DEF FreesAreDead
<1>2. OrcInv /\ FreesAreDead /\ [Next]_vars => FreesAreDead'
  BY FreesStep
<1> QED
  BY <1>1, <1>2, OrcCorrect, PTL DEF Spec

-----------------------------------------------------------------------------
(* ARC with the detector implements reference counting.                    *)
LEMMA NewCounts ==
  ASSUME OrcInv, NEW s \in Strings, TrackNew(s)
  PROVE  Counts!New(entry_count, s)
<1>1. TypeOK /\ OneEntryPerString
  BY DEF OrcInv
<1>2. /\ entry_count \notin Tracked
      /\ entries'[entry_count] = Entry(1, s)
      /\ \A d \in Tracked : entries'[d] = entries[d]
      /\ Tracked' = Tracked \union {entry_count}
  BY <1>1, NewEntry DEF TrackNew
<1>3. \A d \in Tracked : Alive(d) => entries[d].str_offset # s
  BY <1>1, FindIsExact DEF TrackNew
<1>4. \A d \in Tracked : (CountOf[d] > 0 => Alive(d)) /\ StringOf[d] = entries[d].str_offset
  BY DEF CountOf, StringOf
<1>5. CountOf' = [g \in Tracked \union {entry_count} |-> IF g = entry_count THEN 1 ELSE CountOf[g]]
  BY <1>2 DEF CountOf, Alive, Entry
<1>6. StringOf' = [g \in Tracked \union {entry_count} |-> IF g = entry_count THEN s ELSE StringOf[g]]
  BY <1>2 DEF StringOf, Entry
<1>7. DOMAIN CountOf = Tracked
  BY DEF CountOf
<1> QED
  BY <1>2, <1>3, <1>4, <1>5, <1>6, <1>7 DEF Counts!New, Counts!Live

LEMMA CountStep ==
  ASSUME TypeOK, NEW e \in Tracked, Alive(e), NEW n \in (1 .. MaxRefs) \union {-1},
         entries' = [entries EXCEPT ![e].refcount = n], entry_count' = entry_count
  PROVE  /\ CountOf' = [CountOf EXCEPT ![e] = IF n > 0 THEN n ELSE 0]
         /\ CountOf[e] = entries[e].refcount /\ CountOf[e] > 0 /\ DOMAIN CountOf = Tracked
         /\ StringOf' = StringOf
<1>1. /\ entries'[e].refcount = n /\ entries'[e].str_offset = entries[e].str_offset
      /\ \A d \in Slots : d # e => entries'[d] = entries[d]
  BY CountChange
<1>2. \A d \in Tracked : d \in Slots
  BY DeadOrAlive
<1>3. Tracked' = Tracked
  BY DEF Tracked
<1>4. StringOf' = StringOf
  BY <1>1, <1>2, <1>3 DEF StringOf
<1>5. CountOf[e] = entries[e].refcount /\ CountOf[e] > 0 /\ DOMAIN CountOf = Tracked
  BY DEF CountOf, Alive
<1>6. CountOf' = [d \in Tracked |-> IF entries'[d].refcount > 0 THEN entries'[d].refcount ELSE 0]
  BY <1>3 DEF CountOf, Alive
<1>7. CountOf = [d \in Tracked |-> IF entries[d].refcount > 0 THEN entries[d].refcount ELSE 0]
  BY DEF CountOf, Alive
<1>8. CountOf' = [CountOf EXCEPT ![e] = IF n > 0 THEN n ELSE 0]
  BY <1>1, <1>2, <1>6, <1>7
<1> QED
  BY <1>4, <1>5, <1>8

LEMMA OrcStepCounts == OrcInv /\ [Next]_vars => [Counts!Next]_<<CountOf, StringOf>>
<1> SUFFICES ASSUME OrcInv, [Next]_vars
             PROVE  Counts!Next \/ UNCHANGED <<CountOf, StringOf>>
  OBVIOUS
<1>1. TypeOK /\ OneEntryPerString
  BY DEF OrcInv
<1>2. ASSUME NEW s \in Strings, TrackNew(s)
      PROVE  Counts!Next
  <2>1. entry_count \in Slots
    BY <1>1, <1>2, ArcAssumption DEF TrackNew, TypeOK, ArcTypeOK, Slots
  <2> QED
    BY <1>2, <2>1, NewCounts DEF Counts!Next
<1>3. ASSUME NEW e \in Tracked, Alive(e), entries[e].refcount < MaxRefs, entry_count' = entry_count,
             entries' = [entries EXCEPT ![e].refcount = @ + 1]
      PROVE  Counts!Next
  <2>1. entries[e].refcount + 1 \in (1 .. MaxRefs) \union {-1} /\ entries[e].refcount \in Nat
        /\ e \in Slots
    BY <1>1, <1>3, DeadOrAlive, ArcAssumption
  <2>2. /\ CountOf' = [CountOf EXCEPT ![e] = IF entries[e].refcount + 1 > 0
                                             THEN entries[e].refcount + 1 ELSE 0]
        /\ CountOf[e] = entries[e].refcount /\ CountOf[e] > 0 /\ DOMAIN CountOf = Tracked
        /\ StringOf' = StringOf
    BY <1>1, <1>3, <2>1, CountStep
  <2>3. (IF entries[e].refcount + 1 > 0 THEN entries[e].refcount + 1 ELSE 0) = CountOf[e] + 1
    BY <2>1, <2>2
  <2>4. Counts!Reference(e)
    BY <1>3, <2>2, <2>3 DEF Counts!Reference, Counts!Live
  <2> QED
    BY <2>1, <2>4 DEF Counts!Next
<1>4. ASSUME NEW s \in Strings, TrackAgain(s)
      PROVE  Counts!Next
  <2>1. PICK e \in Tracked : /\ Finds(e, s) /\ entries[e].refcount < MaxRefs
                             /\ entries' = [entries EXCEPT ![e].refcount = @ + 1]
    BY <1>4 DEF TrackAgain
  <2> QED
    BY <1>1, <1>3, <1>4, <2>1, FindIsExact DEF TrackAgain
<1>5. ASSUME NEW e \in Slots, Retain(e)
      PROVE  Counts!Next
  BY <1>3, <1>5 DEF Retain
<1>6. ASSUME NEW e \in Slots, Release(e)
      PROVE  Counts!Next
  <2>1. /\ e \in Tracked /\ Alive(e) /\ entry_count' = entry_count
        /\ entries' = [entries EXCEPT ![e].refcount = Less(entries[e].refcount)]
    BY <1>6 DEF Release
  <2>2. entries[e].refcount \in 1 .. MaxRefs
    BY <1>1, <2>1, DeadOrAlive
  <2>3. /\ Less(entries[e].refcount) \in (1 .. MaxRefs) \union {-1}
        /\ entries[e].refcount - 1 =
             IF Less(entries[e].refcount) > 0 THEN Less(entries[e].refcount) ELSE 0
    BY <2>2, ArcAssumption DEF Less
  <2>4. Counts!Drop(e)
    BY <1>1, <2>1, <2>3, CountStep DEF Counts!Drop, Counts!Live
  <2> QED
    BY <2>4 DEF Counts!Next
<1>7. NotifyAlloc \/ Scan \/ UNCHANGED vars => UNCHANGED <<entries, entry_count>>
  BY TrialSpares DEF Scan, NotifyAlloc, Register, NoScan, StartScan, Mark, MarkDone, Trial, TrialDone,
                     vars, arcVars
<1>8. UNCHANGED <<entries, entry_count>> => UNCHANGED <<CountOf, StringOf>>
  BY DEF CountOf, StringOf, Alive, Tracked
<1> QED
  BY <1>2, <1>4, <1>5, <1>6, <1>7, <1>8 DEF Next, Call, ArcNext

(* One call changes one count by one; the dead are never revived; a string *)
(* has one live handle: with or without scans in between.                  *)
THEOREM OrcCounts == Spec => CountsReferences
<1>1. Init => CountOf = << >> /\ StringOf = << >>
  BY DEF Init, ArcInit, Tracked, CountOf, StringOf
<1>2. Init => Counts!Init
  BY <1>1 DEF Counts!Init
<1>3. OrcInv /\ [Next]_vars => [Counts!Next]_<<CountOf, StringOf>>
  BY OrcStepCounts
<1> QED
  BY <1>2, <1>3, OrcCorrect, PTL DEF Spec, CountsReferences, Counts!Spec

=============================================================================
