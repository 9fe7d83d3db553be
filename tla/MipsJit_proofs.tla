--------------------------- MODULE MipsJit_proofs ---------------------------
(***************************************************************************)
(* The warm-up's tables, for every binary and every size of the tables.    *)
(* An instruction's own slot is free when it is read and the cache is full *)
(* behind the first CacheSize of them, so the hash never displaces an      *)
(* entry; a mark on a slot that is filled already stays, one on a free slot*)
(* goes when it is filled.  A block is the range a scan went over, and the *)
(* next one begins where it ends.                                          *)
(***************************************************************************)
EXTENDS MipsJit, FiniteSetTheorems, WellFoundedInduction, TLAPS

CellType  == [addr : Nat \union {None}, branch : BOOLEAN, target : BOOLEAN]
BlockType == [start : Nat, end : Nat, hits : Nat, next : Int, branch : Int]

Read(a) == InCode(a) /\ (loop = "cache" => a < pc)

(* Types, and what the first loop leaves alone.                            *)
Shape ==
  /\ TypeOK
  /\ blocks \in Seq(BlockType)
  /\ loop = "cache" => blocks = << >>

(* An instruction that is cached is marked when one at it or behind it is  *)
(* read that tries it, and never otherwise.                                *)
MarkedBy(t, e) == e \in Slots /\ t <= e /\ Read(e) /\ t \in Tried(e)

Marks == \A t \in Slots : Read(t) => (cache[t].target <=> \E e : MarkedBy(t, e))

(* A range without transfers, and one no mark is inside of.                *)
Plain(s, e)    == \A a \in Slots : s <= a /\ a < e => At(a).kind = "plain"
Unmarked(s, e) == \A t \in Slots : s < t /\ t < e => ~cache[t].target

(* What a scan went over.                                                  *)
Scanned ==
  loop = "scan" =>
    /\ pc \in Slots /\ InCode(pc) /\ pc <= end
    /\ Plain(pc, end) /\ Unmarked(pc, end)
    /\ Len(blocks) < BBMax

LastEnd == IF blocks = << >> THEN 0 ELSE blocks[Len(blocks)].end

(* How far the blocks reach: to pc, or to the end of the cache when        *)
(* instructions behind it were skipped.                                    *)
Reached ==
  \/ LastEnd = pc /\ (pc <= CacheSize \/ pc = Len(code))
  \/ LastEnd = CacheSize /\ CacheSize < pc

(* The blocks begin where the one before ends; the second loop ends where  *)
(* its condition says.                                                     *)
Cut ==
  /\ \A k \in DOMAIN blocks : blocks[k].start = IF k = 1 THEN 0 ELSE blocks[k - 1].end
  /\ loop # "cache" => Reached
  /\ loop = "none" => Len(blocks) = BBMax \/ pc = Len(code)

JitInv == Shape /\ CacheExact /\ Marks /\ Scanned /\ CutExactly /\ Cut /\ Chained

-----------------------------------------------------------------------------
(* The hash.                                                               *)
LEMMA SlotsAre ==
  /\ CacheSize \in Nat /\ CacheSize > 0
  /\ \A a \in Slots : a \in Nat /\ a < CacheSize
  /\ \A a \in Nat : a < CacheSize => a \in Slots
BY JitAssumption DEF Slots

LEMMA SlotIsSlot ==
  ASSUME NEW a \in Nat, NEW probe \in Nat
  PROVE  Slot(a, probe) \in Slots
<1>1. CacheSize \in Nat /\ CacheSize > 0
  BY SlotsAre
<1>2. (a + probe) % CacheSize \in 0 .. CacheSize - 1
  BY <1>1
<1> QED
  BY <1>2 DEF Slot, Slots

(* An address whose own slot is free or holds it is found there.           *)
LEMMA OwnSlot ==
  ASSUME NEW c, NEW a \in Slots, c[a].addr \in {a, None}
  PROVE  Found(c, a) /\ Get(c, a) = a
<1>1. Slot(a, 0) = a
  <2>1. CacheSize \in Nat /\ CacheSize > 0 /\ a \in Nat /\ a < CacheSize
    BY SlotsAre
  <2> QED
    BY <2>1 DEF Slot
<1>2. 0 \in 0 .. Probes - 1
  BY JitAssumption
<1>3. 0 \in Probed(c, a) /\ Probed(c, a) \subseteq Nat
  BY <1>1, <1>2, JitAssumption DEF Probed
<1> DEFINE first(probe) == probe \in Probed(c, a) /\ \A q \in Probed(c, a) : probe <= q
<1>4. first(0)
  BY <1>3
<1>5. \A probe : first(probe) => probe = 0
  BY <1>3
<1>6. (CHOOSE probe \in Probed(c, a) : \A q \in Probed(c, a) : probe <= q) = 0
  BY <1>4, <1>5
<1> QED
  BY <1>1, <1>3, <1>6 DEF Found, Get

(* In a full cache only what it holds is found.                            *)
LEMMA FullCache ==
  ASSUME NEW c, NEW a \in Nat, a \notin Slots, \A h \in Slots : c[h].addr = h
  PROVE  ~Found(c, a)
<1> SUFFICES ASSUME NEW probe \in 0 .. Probes - 1, c[Slot(a, probe)].addr \in {a, None}
             PROVE  FALSE
  BY DEF Found, Probed
<1>1. probe \in Nat
  BY JitAssumption
<1>2. Slot(a, probe) \in Slots /\ Slot(a, probe) \in Nat
  BY <1>1, SlotIsSlot, SlotsAre
<1>3. Slot(a, probe) # a /\ c[Slot(a, probe)].addr = Slot(a, probe)
  BY <1>2
<1> QED
  BY <1>2, <1>3 DEF None

(* A search that ends has a first probe that ends it.                      *)
LEMMA LeastProbe ==
  ASSUME NEW c, NEW a, Probed(c, a) # {}
  PROVE  (CHOOSE probe \in Probed(c, a) : \A q \in Probed(c, a) : probe <= q) \in Probed(c, a)
<1> DEFINE Less == {ss \in Nat \X Nat : ss[1] < ss[2]}
<1>1. Probed(c, a) \subseteq Nat
  BY JitAssumption DEF Probed
<1>2. IsWellFoundedOn(Less, Nat)
  BY NatLessThanWellFounded, Zenon DEF OpToRel
<1> HIDE DEF Less
<1>3. PICK n \in Probed(c, a) : \A q \in Probed(c, a) : ~(<<q, n>> \in Less)
  BY <1>1, <1>2, WFMin, Zenon
<1>4. ASSUME NEW q \in Probed(c, a) PROVE n <= q
  <2>1. n \in Nat /\ q \in Nat /\ ~(<<q, n>> \in Less)
    BY <1>1, <1>3
  <2> QED
    BY <2>1 DEF Less
<1> QED
  BY <1>3, <1>4

(* Marking changes no more than one mark.                                  *)
LEMMA MarkingKeeps ==
  ASSUME NEW c \in [Slots -> CellType], NEW a
  PROVE  /\ MarkTarget(c, a) \in [Slots -> CellType]
         /\ \A h \in Slots : /\ MarkTarget(c, a)[h].addr = c[h].addr
                             /\ MarkTarget(c, a)[h].branch = c[h].branch
<1>1. CASE InCode(a) /\ Found(c, a)
  <2>1. MarkTarget(c, a) = [c EXCEPT ![Get(c, a)].target = TRUE]
    BY <1>1 DEF MarkTarget
  <2> DEFINE g == Get(c, a)
  <2>2. \A h \in Slots : [c[h] EXCEPT !.target = TRUE] \in CellType
    BY DEF CellType
  <2>3. [c EXCEPT ![g].target = TRUE] \in [Slots -> CellType]
    BY <2>2
  <2>4. ASSUME NEW h \in Slots
        PROVE  /\ MarkTarget(c, a)[h].addr = c[h].addr
               /\ MarkTarget(c, a)[h].branch = c[h].branch
    <3>1. MarkTarget(c, a)[h] = IF h = g THEN [c[h] EXCEPT !.target = TRUE] ELSE c[h]
      BY <2>1
    <3> QED
      BY <3>1 DEF CellType
  <2> QED
    BY <2>1, <2>3, <2>4
<1>2. CASE ~(InCode(a) /\ Found(c, a))
  BY <1>2 DEF MarkTarget
<1> QED
  BY <1>1, <1>2

(* Of a slot that holds its own instruction, only that one's mark is made. *)
LEMMA MarkingExact ==
  ASSUME NEW c \in [Slots -> CellType], NEW x, NEW h \in Slots, InCode(h), c[h].addr = h
  PROVE  MarkTarget(c, x)[h].target <=> c[h].target \/ x = h
<1>1. Found(c, h) /\ Get(c, h) = h
  BY OwnSlot
<1>2. h \in Nat /\ h # None
  BY SlotsAre DEF None
<1>3. CASE InCode(x) /\ Found(c, x)
  <2> DEFINE g == Get(c, x)
  <2>1. c[g].addr \in {x, None}
    <3> DEFINE first(probe) == \A q \in Probed(c, x) : probe <= q
               least == CHOOSE probe \in Probed(c, x) : first(probe)
    <3>1. least \in Probed(c, x)
      BY <1>3, LeastProbe DEF Found
    <3>2. g = Slot(x, least)
      BY DEF Get
    <3> HIDE DEF least
    <3> QED
      BY <3>1, <3>2 DEF Probed
  <2>2. MarkTarget(c, x)[h] = IF h = g THEN [c[h] EXCEPT !.target = TRUE] ELSE c[h]
    BY <1>3 DEF MarkTarget
  <2>3. g = h <=> x = h
    BY <1>1, <1>2, <2>1
  <2> QED
    BY <2>2, <2>3 DEF CellType
<1>4. CASE ~(InCode(x) /\ Found(c, x))
  <2>1. x # h
    BY <1>1, <1>4
  <2> QED
    BY <1>4, <2>1 DEF MarkTarget
<1> QED
  BY <1>3, <1>4

(* Instructions are typed.                                                 *)
LEMMA Instructions ==
  ASSUME Shape, NEW a, InCode(a)
  PROVE  /\ a \in Nat /\ At(a).kind \in Kinds /\ At(a).imm \in Int /\ At(a).target \in Nat
         /\ OffsetTarget(a) \in Int
         /\ \A t \in Direct(a) : t \in Int
<1>1. a \in Nat /\ a + 1 \in 1 .. Len(code) /\ code \in Seq(Decoded)
  BY DEF Shape, TypeOK, InCode
<1>2. At(a) \in Decoded
  BY <1>1 DEF At
<1>3. At(a).kind \in Kinds /\ At(a).imm \in Int /\ At(a).target \in Nat
  BY <1>2 DEF Decoded
<1> QED
  BY <1>1, <1>3 DEF OffsetTarget, Direct

(* After the first loop the cache answers for the instructions that fit,   *)
(* and finds no other.                                                     *)
LEMMA Answers ==
  ASSUME Shape, CacheExact, loop # "cache", NEW a, InCode(a)
  PROVE  /\ a \in Slots => /\ Found(cache, a)
                           /\ IsBranch(a) <=> At(a).kind \in Transfers
                           /\ IsTarget(a) <=> cache[a].target
         /\ a \notin Slots => ~Found(cache, a) /\ ~IsBranch(a) /\ ~IsTarget(a)
<1>1. a \in Nat /\ a < Len(code) /\ Len(code) \in Nat
  BY DEF Shape, TypeOK, InCode
<1>2. CASE a \in Slots
  <2>1. cache[a].addr = a /\ cache[a].branch = (At(a).kind \in Transfers)
    BY <1>1, <1>2 DEF CacheExact
  <2>2. Found(cache, a) /\ Get(cache, a) = a
    BY <1>2, <2>1, OwnSlot
  <2> QED
    BY <1>2, <2>1, <2>2 DEF IsBranch, IsTarget
<1>3. CASE a \notin Slots
  <2>1. \A h \in Slots : h < Len(code)
    BY <1>1, <1>3, SlotsAre
  <2>2. \A h \in Slots : cache[h].addr = h
    BY <2>1 DEF CacheExact
  <2>3. ~Found(cache, a)
    BY <1>1, <1>3, <2>2, FullCache
  <2> QED
    BY <1>3, <2>3 DEF IsBranch, IsTarget
<1> QED
  BY <1>2, <1>3

-----------------------------------------------------------------------------
LEMMA JitStart == Init => JitInv
<1> SUFFICES ASSUME Init PROVE JitInv
  OBVIOUS
<1>1. code \in Seq(Decoded) /\ Len(code) \in Nat
  BY JitAssumption DEF Init
<1>2. /\ cache \in [Slots -> CellType]
      /\ \A h \in Slots : cache[h].addr = None /\ cache[h].branch = FALSE
  BY DEF Init, EmptySlot, CellType
<1>3. {h \in Slots : cache[h].addr # None} = {}
  BY <1>2
<1>4. cache_count = Cardinality({h \in Slots : cache[h].addr # None})
  BY <1>3, FS_EmptySet DEF Init
<1>5. blocks = << >> /\ Len(blocks) = 0 /\ DOMAIN blocks = {} /\ blocks \in Seq(BlockType)
  BY DEF Init
<1>6. pc = 0 /\ end = 0 /\ loop = "cache" /\ pc \in 0 .. Len(code) /\ end \in 0 .. Len(code)
  BY <1>1 DEF Init
<1>7. Shape
  <2>1. Len(blocks) <= BBMax /\ \A k \in DOMAIN blocks : blocks[k].start < blocks[k].end
    <3>1. BBMax \in Nat
      BY JitAssumption
    <3> QED
      BY <1>5, <3>1
  <2>2. TypeOK
    BY <1>1, <1>2, <1>4, <1>6, <2>1 DEF TypeOK, CellType
  <2> QED
    BY <1>5, <2>2 DEF Shape
<1>8. CacheExact /\ Marks
  <2>1. \A h \in Slots : ~(h < pc)
    BY <1>6, SlotsAre
  <2>2. \A t \in Slots : ~Read(t)
    BY <1>6, <2>1 DEF Read
  <2>3. CacheExact
    BY <1>2, <1>6, <2>1 DEF CacheExact
  <2> QED
    BY <2>2, <2>3 DEF Marks
<1>9. Scanned /\ CutExactly /\ Cut /\ Chained
  BY <1>5, <1>6 DEF Scanned, CutExactly, Cut, Chained
<1> QED
  BY <1>7, <1>8, <1>9 DEF JitInv

-----------------------------------------------------------------------------
(* What the first loop does with one instruction.                          *)
LEMMA Filling ==
  ASSUME JitInv, CacheInstr, pc \in Slots
  PROVE  /\ cache' \in [Slots -> CellType]
         /\ cache'[pc].addr = pc /\ cache[pc].addr = None
         /\ cache'[pc].branch = (At(pc).kind \in Transfers)
         /\ \A h \in Slots : h # pc => /\ cache'[h].addr = cache[h].addr
                                       /\ cache'[h].branch = cache[h].branch
         /\ \A t \in Slots : InCode(t) /\ t <= pc =>
              (cache'[t].target <=> (t # pc /\ cache[t].target) \/ t \in Tried(pc))
         /\ cache_count' = cache_count + 1
<1>1. Shape /\ CacheExact /\ loop = "cache" /\ InCode(pc)
  BY DEF JitInv, CacheInstr
<1>2. pc \in Nat /\ At(pc).kind \in Kinds
  BY <1>1, Instructions
<1>3. cache \in [Slots -> CellType]
  BY <1>1 DEF Shape, TypeOK, CellType
<1>4. cache[pc].addr = None /\ None # pc
  BY <1>1, <1>2 DEF CacheExact, None
<1>5. Found(cache, pc) /\ Get(cache, pc) = pc
  BY <1>4, OwnSlot
<1> DEFINE cell == [addr |-> pc, branch |-> At(pc).kind \in Transfers, target |-> FALSE]
           c    == [cache EXCEPT ![pc] = cell]
           c1   == MarkTarget(c, OffsetTarget(pc))
           c2   == MarkTarget(c1, At(pc).target)
<1>6. Cached(cache, pc) = c
  BY <1>4, <1>5 DEF Cached
<1>7. cell \in CellType /\ cell.addr = pc /\ cell.branch = (At(pc).kind \in Transfers)
  BY <1>2 DEF CellType
<1>8. /\ c \in [Slots -> CellType]
      /\ c[pc] = cell
      /\ \A h \in Slots : h # pc => c[h] = cache[h]
  BY <1>3, <1>7
<1>9. Found(c, pc) /\ Get(c, pc) = pc
  BY <1>7, <1>8, OwnSlot
<1> HIDE DEF cell, c
<1>10. cache' = IF ~c[pc].branch THEN c ELSE IF At(pc).kind = "jump" THEN c2 ELSE c1
  BY <1>6, <1>9 DEF CacheInstr, Marked
<1>11. /\ c1 \in [Slots -> CellType]
       /\ \A h \in Slots : c1[h].addr = c[h].addr /\ c1[h].branch = c[h].branch
  BY <1>8, MarkingKeeps
<1> HIDE DEF c1
<1>12. /\ c2 \in [Slots -> CellType]
       /\ \A h \in Slots : c2[h].addr = c1[h].addr /\ c2[h].branch = c1[h].branch
  BY <1>11, MarkingKeeps
<1> HIDE DEF c2
<1>13. ASSUME NEW t \in Slots, InCode(t), t <= pc
       PROVE  cache'[t].target <=> (t # pc /\ cache[t].target) \/ t \in Tried(pc)
  <2>1. c[t].addr = t
    <3>1. CASE t = pc
      BY <3>1, <1>7, <1>8
    <3>2. CASE t # pc
      BY <1>1, <1>2, <1>8, <1>13, <3>2, SlotsAre DEF CacheExact, InCode
    <3> QED
      BY <3>1, <3>2
  <2>2. c[t].target <=> t # pc /\ cache[t].target
    BY <1>7, <1>8 DEF cell
  <2>3. c1[t].target <=> c[t].target \/ t = OffsetTarget(pc)
    BY <1>8, <1>13, <2>1, MarkingExact DEF c1
  <2>4. c2[t].target <=> c1[t].target \/ t = At(pc).target
    BY <1>11, <1>13, <2>1, MarkingExact DEF c2
  <2> QED
    BY <1>7, <1>8, <1>10, <2>2, <2>3, <2>4 DEF Tried
<1>14. /\ cache' \in [Slots -> CellType]
       /\ \A h \in Slots : cache'[h].addr = c[h].addr /\ cache'[h].branch = c[h].branch
  BY <1>8, <1>10, <1>11, <1>12
<1>15. cache_count' = cache_count + 1
  BY <1>4, <1>5 DEF CacheInstr
<1> QED
  BY <1>4, <1>7, <1>8, <1>13, <1>14, <1>15

(* Behind the cache it does nothing.                                       *)
LEMMA Overflowing ==
  ASSUME JitInv, CacheInstr, pc \notin Slots
  PROVE  cache' = cache /\ cache_count' = cache_count
<1>1. Shape /\ CacheExact /\ loop = "cache" /\ InCode(pc) /\ pc \in Nat /\ Len(code) \in Nat
  BY Instructions DEF JitInv, CacheInstr, Shape, TypeOK
<1>2. \A h \in Slots : h < Len(code) /\ h < pc
  BY <1>1, SlotsAre DEF InCode
<1>3. \A h \in Slots : cache[h].addr = h
  BY <1>1, <1>2 DEF CacheExact
<1>4. ~Found(cache, pc)
  BY <1>1, <1>3, FullCache
<1> QED
  BY <1>4 DEF CacheInstr, Cached, Marked

LEMMA CacheInstrKeeps ==
  ASSUME JitInv, CacheInstr
  PROVE  JitInv'
<1>1. /\ Shape /\ CacheExact /\ Marks /\ loop = "cache" /\ loop' = "cache" /\ InCode(pc)
      /\ pc \in Nat /\ pc' = pc + 1 /\ Len(code) \in Nat /\ pc < Len(code)
      /\ code' = code /\ blocks' = blocks /\ blocks = << >> /\ end' = end
  BY Instructions DEF JitInv, CacheInstr, Shape, TypeOK, InCode
<1>2. DOMAIN blocks' = {} /\ Len(blocks') = 0
  BY <1>1
<1>3. /\ cache' \in [Slots -> CellType]
      /\ cache_count' = Cardinality({h \in Slots : cache'[h].addr # None})
  <2> DEFINE full == {h \in Slots : cache[h].addr # None}
  <2>1. cache \in [Slots -> CellType] /\ cache_count = Cardinality(full)
    BY <1>1 DEF Shape, TypeOK, CellType
  <2>2. CASE pc \in Slots
    <3>1. IsFiniteSet(Slots)
      BY FS_Interval, SlotsAre DEF Slots
    <3>2. IsFiniteSet(full)
      BY <3>1, FS_Subset
    <3>3. {h \in Slots : cache'[h].addr # None} = full \union {pc} /\ pc \notin full
      <4>1. cache'[pc].addr # None /\ cache[pc].addr = None
        BY <1>1, <2>2, Filling DEF None
      <4>2. \A h \in Slots : h # pc => cache'[h].addr = cache[h].addr
        BY <2>2, Filling
      <4> QED
        BY <2>2, <4>1, <4>2
    <3>4. Cardinality(full \union {pc}) = Cardinality(full) + 1
      BY <3>2, <3>3, FS_AddElement
    <3> QED
      BY <2>1, <2>2, <3>3, <3>4, Filling
  <2>3. CASE pc \notin Slots
    BY <2>1, <2>3, Overflowing
  <2> QED
    BY <2>2, <2>3
<1>4. Shape'
  BY <1>1, <1>2, <1>3, JitAssumption DEF Shape, TypeOK, CellType
<1>5. CacheExact'
  <2> SUFFICES ASSUME NEW h \in Slots
               PROVE  LET read == h < Len(code) /\ h < pc + 1
                      IN  /\ cache'[h].addr = IF read THEN h ELSE None
                          /\ cache'[h].branch = (read /\ At(h).kind \in Transfers)
    BY <1>1 DEF CacheExact, At
  <2>1. h \in Nat
    BY SlotsAre
  <2>2. /\ cache[h].addr = IF h < Len(code) /\ h < pc THEN h ELSE None
        /\ cache[h].branch = (h < Len(code) /\ h < pc /\ At(h).kind \in Transfers)
    BY <1>1 DEF CacheExact
  <2>3. CASE h = pc
    BY <1>1, <2>3, Filling
  <2>4. CASE h # pc
    <3>1. cache'[h].addr = cache[h].addr /\ cache'[h].branch = cache[h].branch
      BY <2>4, Filling, Overflowing
    <3>2. h < pc + 1 <=> h < pc
      BY <1>1, <2>1, <2>4
    <3> QED
      BY <2>2, <3>1, <3>2
  <2> QED
    BY <2>3, <2>4
<1>6. Marks'
  <2> DEFINE Late(t, e) == e \in Slots /\ t <= e /\ InCode(e) /\ e < pc + 1 /\ t \in Tried(e)
  <2>1. \A t, e : MarkedBy(t, e)' <=> Late(t, e)
    BY <1>1 DEF MarkedBy, Read, Tried, InCode, At, OffsetTarget
  <2>2. \A t, e : MarkedBy(t, e) <=> Late(t, e) /\ e # pc
    BY <1>1, SlotsAre DEF MarkedBy, Read
  <2>3. ASSUME NEW t \in Slots, InCode(t), t < pc + 1
        PROVE  cache'[t].target <=> \E e : Late(t, e)
    <3>1. t \in Nat /\ t <= pc
      BY <1>1, <2>3, SlotsAre
    <3>2. CASE pc \in Slots
      <4>1. cache'[t].target <=> (t # pc /\ cache[t].target) \/ t \in Tried(pc)
        BY <2>3, <3>1, <3>2, Filling
      <4>2. Late(t, pc) <=> t \in Tried(pc)
        BY <1>1, <3>1, <3>2
      <4>3. t # pc => (cache[t].target <=> \E e : MarkedBy(t, e))
        BY <1>1, <2>3, <3>1 DEF Marks, Read
      <4>4. t = pc => \A e : ~MarkedBy(t, e)
        <5>1. \A e \in Slots : e \in Nat
          BY SlotsAre
        <5>2. \A e \in Slots : ~(pc <= e /\ e < pc)
          BY <1>1, <5>1
        <5> QED
          BY <1>1, <5>2 DEF MarkedBy, Read
      <4> HIDE DEF Late
      <4> QED
        BY <2>2, <4>1, <4>2, <4>3, <4>4
    <3>3. CASE pc \notin Slots
      <4>1. cache' = cache /\ t # pc
        BY <3>3, Overflowing
      <4>2. cache[t].target <=> \E e : MarkedBy(t, e)
        BY <1>1, <2>3, <3>1, <4>1 DEF Marks, Read
      <4>3. \A e : Late(t, e) => e # pc
        BY <3>3
      <4> HIDE DEF Late
      <4> QED
        BY <2>2, <4>1, <4>2, <4>3
    <3> QED
      BY <3>2, <3>3
  <2> HIDE DEF Late
  <2>4. \A t : Read(t)' => InCode(t) /\ t < pc + 1
    BY <1>1 DEF Read, InCode
  <2> QED
    BY <2>1, <2>3, <2>4 DEF Marks
<1>7. Scanned' /\ CutExactly' /\ Cut' /\ Chained'
  BY <1>1, <1>2 DEF Scanned, CutExactly, Cut, Chained
<1> QED
  BY <1>4, <1>5, <1>6, <1>7 DEF JitInv

(* Marks stay what they are while the binary and the cache do and the same *)
(* instructions have been read.                                            *)
LEMMA SameMarks ==
  ASSUME Shape, Marks, code' = code, cache' = cache,
         \/ loop = "cache" /\ loop' = "cache" /\ pc' = pc
         \/ (loop = "cache" => pc = Len(code)) /\ loop' # "cache"
  PROVE  Marks'
<1>1. \A a : Read(a)' <=> Read(a)
  BY DEF Read, InCode, Shape, TypeOK
<1>2. \A t, e : MarkedBy(t, e)' <=> MarkedBy(t, e)
  BY <1>1 DEF MarkedBy, Tried, At, OffsetTarget
<1> QED
  BY <1>1, <1>2 DEF Marks

(* The blocks end where the code is cut as long as neither changes.        *)
LEMMA SameCuts ==
  ASSUME CutExactly, code' = code, DOMAIN blocks' = DOMAIN blocks,
         \A k \in DOMAIN blocks : /\ blocks'[k].start = blocks[k].start
                                  /\ blocks'[k].end = blocks[k].end
  PROVE  CutExactly'
<1>1. \A a : CutBefore(a)' <=> CutBefore(a)
  BY DEF CutBefore, InCache, Tried, InCode, At, OffsetTarget
<1> QED
  BY <1>1 DEF CutExactly

(* Nothing but loop, pc and end moves in most steps of the second loop.    *)
LEMMA SameTables ==
  ASSUME JitInv, UNCHANGED <<code, cache, cache_count, blocks>>, loop' # "cache",
         loop = "cache" => ~InCode(pc),
         pc' \in 0 .. Len(code), end' \in 0 .. Len(code),
         loop' \in {"blocks", "scan", "none"}
  PROVE  Shape' /\ CacheExact' /\ Marks' /\ CutExactly' /\ Chained'
<1>1. Shape /\ CacheExact /\ Marks /\ CutExactly /\ Chained
  BY DEF JitInv
<1>2. Shape'
  BY <1>1 DEF Shape, TypeOK
<1>3. Len(code) \in Nat /\ pc \in 0 .. Len(code) /\ (loop = "cache" => pc = Len(code))
  BY <1>1 DEF Shape, TypeOK, InCode
<1>4. CacheExact'
  BY <1>1, <1>3 DEF CacheExact, At
<1>5. Marks'
  BY <1>1, <1>3, SameMarks
<1>6. CutExactly'
  BY <1>1, SameCuts
<1>7. Chained'
  BY <1>1 DEF Chained, Direct, InCode, At, OffsetTarget
<1> QED
  BY <1>2, <1>4, <1>5, <1>6, <1>7

LEMMA CacheDoneKeeps ==
  ASSUME JitInv, CacheDone
  PROVE  JitInv'
<1>1. /\ Len(code) \in Nat /\ end \in 0 .. Len(code) /\ blocks = << >> /\ loop = "cache"
      /\ CacheSize \in Nat
  BY SlotsAre DEF JitInv, Shape, TypeOK, CacheDone
<1>2. Shape' /\ CacheExact' /\ Marks' /\ CutExactly' /\ Chained'
  BY <1>1, SameTables DEF CacheDone
<1>3. Scanned' /\ Cut'
  BY <1>1 DEF CacheDone, Scanned, Cut, Reached, LastEnd
<1> QED
  BY <1>2, <1>3 DEF JitInv

LEMMA SkipKeeps ==
  ASSUME JitInv, SkipUncached
  PROVE  JitInv'
<1>1. /\ Shape /\ CacheExact /\ Cut /\ loop = "blocks" /\ loop' = "blocks" /\ InCode(pc)
      /\ blocks' = blocks /\ code' = code /\ pc' = pc + 1 /\ end' = end
      /\ end \in 0 .. Len(code) /\ Len(code) \in Nat
  BY DEF JitInv, SkipUncached, Building, Shape, TypeOK
<1>2. pc \in Nat /\ pc < Len(code)
  BY <1>1 DEF InCode
<1>3. pc \notin Slots
  BY <1>1, Answers DEF SkipUncached
<1>4. CacheSize \in Nat /\ CacheSize <= pc
  BY <1>2, <1>3, SlotsAre
<1>5. Shape' /\ CacheExact' /\ Marks' /\ CutExactly' /\ Chained'
  BY <1>1, <1>2, SameTables DEF SkipUncached
<1>6. LastEnd = CacheSize
  BY <1>1, <1>2, <1>4 DEF Cut, Reached
<1>7. Scanned' /\ Cut'
  BY <1>1, <1>2, <1>4, <1>6 DEF Scanned, Cut, Reached, LastEnd
<1> QED
  BY <1>5, <1>7 DEF JitInv

LEMMA StartKeeps ==
  ASSUME JitInv, StartBlock
  PROVE  JitInv'
<1>1. /\ Shape /\ CacheExact /\ Cut /\ loop = "blocks" /\ loop' = "scan" /\ InCode(pc)
      /\ blocks' = blocks /\ code' = code /\ cache' = cache /\ pc' = pc /\ end' = pc
      /\ pc \in 0 .. Len(code) /\ Len(blocks) < BBMax
  BY DEF JitInv, StartBlock, Building, Shape, TypeOK
<1>2. pc \in Slots /\ pc \in Nat
  BY <1>1, Answers DEF StartBlock, InCode
<1>3. Shape' /\ CacheExact' /\ Marks' /\ CutExactly' /\ Chained'
  BY <1>1, SameTables DEF StartBlock
<1>4. Scanned'
  BY <1>1, <1>2, SlotsAre DEF Scanned, Plain, Unmarked, InCode
<1>5. Cut'
  BY <1>1 DEF Cut, Reached, LastEnd
<1> QED
  BY <1>3, <1>4, <1>5 DEF JitInv

(* Where the scan may go on there is neither a transfer nor a mark.        *)
LEMMA ScanKeeps ==
  ASSUME JitInv, ScanOn
  PROVE  JitInv'
<1>1. /\ Shape /\ CacheExact /\ Cut /\ Scanned /\ loop = "scan" /\ loop' = "scan"
      /\ InCode(end) /\ ~StopsBefore(end) /\ ~IsBranch(end)
      /\ UNCHANGED <<code, cache, cache_count, blocks, pc>> /\ end' = end + 1
      /\ pc \in 0 .. Len(code) /\ Len(code) \in Nat
  BY DEF JitInv, ScanOn, EndsHere, Shape, TypeOK
<1>2. end \in Nat /\ end < Len(code) /\ At(end).kind \in Kinds
  BY <1>1, Instructions DEF InCode
<1>3. Shape' /\ CacheExact' /\ Marks' /\ CutExactly' /\ Chained'
  BY <1>1, <1>2, SameTables
<1>4. pc \in Slots /\ InCode(pc) /\ pc <= end /\ Plain(pc, end) /\ Unmarked(pc, end)
      /\ Len(blocks) < BBMax /\ pc \in Nat
  BY <1>1 DEF Scanned
<1>5. end \in Slots => At(end).kind = "plain" /\ (end # pc => ~cache[end].target)
  BY <1>1, <1>2, Answers DEF StopsBefore, Kinds, Transfers
<1>6. Plain(pc, end + 1) /\ Unmarked(pc, end + 1)
  BY <1>2, <1>4, <1>5, SlotsAre DEF Plain, Unmarked
<1>7. Scanned'
  BY <1>1, <1>2, <1>4, <1>6 DEF Scanned, Plain, Unmarked, InCode, At
<1>8. Cut'
  BY <1>1 DEF Cut, Reached, LastEnd
<1> QED
  BY <1>3, <1>7, <1>8 DEF JitInv

-----------------------------------------------------------------------------
(* A new block: its range is what was scanned, and its successor is right. *)
LEMMA Chaining ==
  ASSUME Shape, CacheExact, loop # "cache", NEW e \in Nat, e > 0, e <= Len(code),
         e - 1 \in Slots \ {0}, NEW t \in Direct(e - 1), InCode(t)
  PROVE  BranchOf(e) = t
<1> DEFINE a == e - 1
<1>1. a \in Nat /\ a \in Slots /\ a # 0 /\ Len(code) \in Nat
  BY SlotsAre
<1>2. InCode(a) /\ e >= 2
  BY <1>1 DEF InCode
<1>3. At(a).kind \in {"jump", "branch"}
  BY DEF Direct
<1>4. IsBranch(a)
  BY <1>1, <1>2, <1>3, Answers DEF Transfers
<1>5. CASE At(a).kind = "jump"
  BY <1>2, <1>4, <1>5 DEF BranchOf, Direct
<1>6. CASE At(a).kind = "branch"
  BY <1>2, <1>4, <1>6 DEF BranchOf, Direct
<1> QED
  BY <1>3, <1>5, <1>6

LEMMA BranchIsInt ==
  ASSUME Shape, NEW e \in Nat, e > 0, e <= Len(code)
  PROVE  BranchOf(e) \in Int
<1>1. InCode(e - 1) /\ Len(code) \in Nat
  BY DEF InCode, Shape, TypeOK
<1>2. At(e - 1).target \in Int /\ OffsetTarget(e - 1) \in Int /\ None \in Int
  BY <1>1, Instructions DEF None
<1> QED
  BY <1>2 DEF BranchOf

LEMMA AddKeeps ==
  ASSUME JitInv, loop = "scan", NEW e \in Nat, AddBlock(e), pc < e, e <= Len(code),
         Plain(pc, e - 1), Unmarked(pc, e), e <= CacheSize \/ e = Len(code),
         CutBefore(e) \/ e = Len(code),
         UNCHANGED <<code, cache, cache_count, end, visits>>
  PROVE  JitInv'
<1> DEFINE b == [start |-> pc, end |-> e, hits |-> 0,
                 next |-> IF InCode(e) THEN e ELSE None, branch |-> BranchOf(e)]
           n == Len(blocks)
<1>1. /\ Shape /\ CacheExact /\ Marks /\ Scanned /\ CutExactly /\ Cut /\ Chained
      /\ pc \in Nat /\ Len(code) \in Nat /\ blocks \in Seq(BlockType) /\ n \in Nat /\ n < BBMax
      /\ end \in 0 .. Len(code) /\ pc \in Slots /\ CacheSize \in Nat /\ pc < CacheSize
      /\ BBMax \in Nat
  BY SlotsAre, JitAssumption DEF JitInv, Shape, TypeOK, Scanned
<1>2. b \in BlockType /\ b.start = pc /\ b.end = e /\ b.branch = BranchOf(e)
      /\ b.next = IF InCode(e) THEN e ELSE None
  BY <1>1, BranchIsInt DEF BlockType, None
<1>3. blocks' = Append(blocks, b) /\ pc' = e /\ loop' = "blocks"
  BY DEF AddBlock
<1> HIDE DEF b
<1>4. /\ blocks' \in Seq(BlockType) /\ Len(blocks') = n + 1
      /\ DOMAIN blocks' = 1 .. n + 1 /\ DOMAIN blocks = 1 .. n
      /\ \A k \in 1 .. n : blocks'[k] = blocks[k]
      /\ blocks'[n + 1] = b
      /\ blocks' # << >>
  BY <1>1, <1>2, <1>3
<1> HIDE DEF n
<1>5. Shape'
  <2>1. \A k \in DOMAIN blocks' : blocks'[k].start < blocks'[k].end
    <3>1. \A k \in 1 .. n : blocks[k].start < blocks[k].end
      BY <1>1, <1>4 DEF Shape, TypeOK
    <3>2. \A k \in 1 .. n + 1 : k \in 1 .. n \/ k = n + 1
      BY <1>1
    <3> QED
      BY <1>2, <1>4, <3>1, <3>2
  <2> QED
    BY <1>1, <1>3, <1>4, <2>1 DEF Shape, TypeOK
<1>6. CacheExact' /\ Marks'
  BY <1>1, <1>3, SameMarks DEF CacheExact, At
<1>7. Scanned'
  BY <1>3 DEF Scanned
<1>8. CutExactly'
  <2>1. \A a : CutBefore(a)' <=> CutBefore(a)
    BY DEF CutBefore, InCache, Tried, InCode, At, OffsetTarget
  <2>2. ASSUME NEW a \in pc + 1 .. e - 1 PROVE ~CutBefore(a)
    <3>1. a \in Nat /\ a - 1 \in Nat /\ pc <= a - 1 /\ a - 1 < e - 1 /\ pc < a /\ a < e
      BY <1>1, <2>2
    <3>2. InCache(a - 1) => At(a - 1).kind \notin Transfers
      BY <3>1 DEF Plain, InCache, Transfers
    <3>3. InCache(a) => \A x : ~MarkedBy(a, x)
      BY <1>1, <3>1 DEF Unmarked, InCache, Marks, Read
    <3> QED
      BY <1>1, <3>2, <3>3 DEF CutBefore, MarkedBy, Read
  <2>3. ASSUME NEW k \in 1 .. n + 1
        PROVE  /\ \A a \in blocks'[k].start + 1 .. blocks'[k].end - 1 : ~CutBefore(a)
               /\ CutBefore(blocks'[k].end) \/ blocks'[k].end = Len(code)
    <3>1. CASE k \in 1 .. n
      BY <1>1, <1>4, <3>1 DEF CutExactly
    <3>2. CASE k = n + 1
      BY <1>2, <1>4, <2>2, <3>2
    <3> QED
      BY <1>1, <3>1, <3>2
  <2> QED
    BY <1>4, <2>1, <2>3 DEF CutExactly
<1>9. LastEnd = pc
  BY <1>1 DEF Cut, Reached
<1>10. Cut'
  <2>1. ASSUME NEW k \in 1 .. n + 1
        PROVE  blocks'[k].start = IF k = 1 THEN 0 ELSE blocks'[k - 1].end
    <3>1. CASE k \in 1 .. n
      <4>1. k # 1 => k - 1 \in 1 .. n
        BY <1>1, <3>1
      <4> QED
        BY <1>1, <1>4, <3>1, <4>1 DEF Cut
    <3>2. CASE k = n + 1
      <4>1. CASE n = 0
        BY <1>1, <1>2, <1>4, <1>9, <3>2, <4>1 DEF LastEnd, n
      <4>2. CASE n # 0
        <5>1. n \in 1 .. n /\ k - 1 = n /\ k # 1 /\ blocks # << >>
          BY <1>1, <3>2, <4>2 DEF n
        <5>2. blocks[n].end = pc
          BY <1>9, <5>1 DEF LastEnd, n
        <5> QED
          BY <1>2, <1>4, <3>2, <5>1, <5>2
      <4> QED
        BY <4>1, <4>2
    <3> QED
      BY <1>1, <3>1, <3>2
  <2>2. LastEnd' = e
    BY <1>2, <1>4 DEF LastEnd
  <2> QED
    BY <1>3, <1>4, <2>1, <2>2 DEF Cut, Reached
<1>11. Chained'
  <2> SUFFICES ASSUME NEW k \in 1 .. n + 1
               PROVE  /\ blocks'[k].next = IF InCode(blocks'[k].end) THEN blocks'[k].end ELSE None
                      /\ blocks'[k].end - 1 \in Slots \ {0} =>
                           \A t \in Direct(blocks'[k].end - 1) :
                             InCode(t) => blocks'[k].branch = t
    BY <1>4 DEF Chained, Direct, InCode, At, OffsetTarget
  <2>1. CASE k \in 1 .. n
    BY <1>1, <1>4, <2>1 DEF Chained
  <2>2. CASE k = n + 1
    <3>1. loop # "cache" /\ e > 0
      BY <1>1
    <3>2. e - 1 \in Slots \ {0} => \A t \in Direct(e - 1) : InCode(t) => BranchOf(e) = t
      BY <1>1, <3>1, Chaining
    <3> QED
      BY <1>2, <1>4, <2>2, <3>2
  <2> QED
    BY <1>1, <2>1, <2>2
<1> QED
  BY <1>5, <1>6, <1>7, <1>8, <1>10, <1>11 DEF JitInv

LEMMA EndKeeps ==
  ASSUME JitInv, EndBlock
  PROVE  JitInv'
<1>1. /\ Shape /\ CacheExact /\ Marks /\ Scanned /\ loop = "scan" /\ loop # "cache"
      /\ end \in 0 .. Len(code) /\ Len(code) \in Nat
      /\ UNCHANGED <<code, cache, cache_count, end, visits>>
  BY DEF JitInv, EndBlock, Shape, TypeOK
<1>2. /\ pc \in Slots /\ InCode(pc) /\ pc <= end /\ Plain(pc, end) /\ Unmarked(pc, end)
      /\ pc \in Nat /\ end \in Nat /\ CacheSize \in Nat
  BY <1>1, SlotsAre DEF Scanned
<1>3. CASE ~InCode(end) /\ AddBlock(end)
  <2>1. end = Len(code) /\ pc < end
    BY <1>1, <1>2, <1>3 DEF InCode
  <2>2. Plain(pc, end - 1)
    BY <1>2, SlotsAre DEF Plain
  <2> QED
    BY <1>1, <1>2, <1>3, <2>1, <2>2, AddKeeps
<1>4. CASE InCode(end) /\ StopsBefore(end) /\ AddBlock(end)
  <2>1. end \in Slots /\ end # pc /\ cache[end].target
    BY <1>1, <1>4, Answers DEF StopsBefore
  <2>2. pc < end /\ end <= CacheSize /\ end <= Len(code)
    BY <1>1, <1>2, <2>1, SlotsAre
  <2>3. Plain(pc, end - 1)
    BY <1>2, SlotsAre DEF Plain
  <2>4. CutBefore(end)
    BY <1>1, <1>4, <2>1 DEF CutBefore, InCache, Marks, MarkedBy, Read
  <2> QED
    BY <1>1, <1>2, <1>4, <2>2, <2>3, <2>4, AddKeeps
<1>5. CASE InCode(end) /\ ~StopsBefore(end) /\ EndsHere(end) /\ AddBlock(end + 1)
  <2>1. end \in Slots /\ (end # pc => ~cache[end].target) /\ At(end).kind \in Transfers
    BY <1>1, <1>5, Answers DEF StopsBefore, EndsHere
  <2>2. end + 1 \in Nat /\ pc < end + 1 /\ end + 1 <= CacheSize /\ end + 1 <= Len(code)
        /\ (end + 1) - 1 = end
    BY <1>1, <1>2, <1>5, <2>1, SlotsAre DEF InCode
  <2>3. Unmarked(pc, end + 1)
    BY <1>2, <2>1, SlotsAre DEF Unmarked
  <2>4. Plain(pc, (end + 1) - 1)
    BY <1>2, <2>2
  <2>5. CutBefore(end + 1)
    BY <1>5, <2>1, <2>2 DEF CutBefore, InCache
  <2> QED
    BY <1>1, <1>5, <2>2, <2>3, <2>4, <2>5, AddKeeps
<1> QED
  BY <1>3, <1>4, <1>5 DEF EndBlock

LEMMA ReturnKeeps ==
  ASSUME JitInv, WarmupReturns
  PROVE  JitInv'
<1>1. /\ Shape /\ Cut /\ loop = "blocks" /\ loop' = "none" /\ ~Building
      /\ UNCHANGED <<code, cache, cache_count, blocks, pc, end>>
      /\ pc \in 0 .. Len(code) /\ end \in 0 .. Len(code) /\ Len(code) \in Nat
      /\ Len(blocks) \in Nat /\ Len(blocks) <= BBMax /\ BBMax \in Nat
  BY JitAssumption DEF JitInv, WarmupReturns, Shape, TypeOK
<1>2. Shape' /\ CacheExact' /\ Marks' /\ CutExactly' /\ Chained'
  BY <1>1, SameTables
<1>3. Len(blocks) = BBMax \/ pc = Len(code)
  BY <1>1 DEF Building, InCode
<1>4. Scanned' /\ Cut'
  BY <1>1, <1>3 DEF Scanned, Cut, Reached, LastEnd
<1> QED
  BY <1>2, <1>4 DEF JitInv

(* A visit changes nothing but one count.                                  *)
LEMMA HitKeeps ==
  ASSUME JitInv, NEW a, HitBB(a)
  PROVE  JitInv'
<1>1. /\ Shape /\ CacheExact /\ Marks /\ Scanned /\ CutExactly /\ Cut /\ Chained
      /\ loop = "none" /\ UNCHANGED <<code, cache, cache_count, loop, pc, end>>
      /\ blocks \in Seq(BlockType)
  BY DEF JitInv, HitBB, Shape
<1>2. /\ blocks' \in Seq(BlockType) /\ Len(blocks') = Len(blocks)
      /\ DOMAIN blocks' = DOMAIN blocks
      /\ \A k \in DOMAIN blocks : /\ blocks'[k].start = blocks[k].start
                                  /\ blocks'[k].end = blocks[k].end
                                  /\ blocks'[k].next = blocks[k].next
                                  /\ blocks'[k].branch = blocks[k].branch
  <2> DEFINE matching == {k \in DOMAIN blocks : Hits(blocks[k], a)}
             m == CHOOSE k \in matching : \A j \in matching : k <= j
  <2>1. \/ blocks' = blocks
        \/ blocks' = [blocks EXCEPT ![m].hits = @ + 1]
    BY DEF HitBB
  <2> HIDE DEF m
  <2>2. CASE blocks' = blocks
    BY <1>1, <2>2
  <2>3. CASE m \notin DOMAIN blocks /\ blocks' = [blocks EXCEPT ![m].hits = @ + 1]
    <3>1. blocks = [k \in 1 .. Len(blocks) |-> blocks[k]] /\ DOMAIN blocks = 1 .. Len(blocks)
      BY <1>1
    <3>2. blocks' = [k \in DOMAIN blocks |-> blocks[k]]
      BY <2>3
    <3>3. blocks' = blocks
      BY <3>1, <3>2
    <3> QED
      BY <1>1, <3>3
  <2>4. CASE m \in DOMAIN blocks /\ blocks' = [blocks EXCEPT ![m].hits = @ + 1]
    <3>1. blocks[m] \in BlockType
      BY <1>1, <2>4
    <3> DEFINE new == [blocks[m] EXCEPT !.hits = @ + 1]
    <3>2. new \in BlockType
      BY <3>1 DEF BlockType
    <3>3. /\ new.start = blocks[m].start /\ new.end = blocks[m].end
          /\ new.next = blocks[m].next /\ new.branch = blocks[m].branch
      BY <3>1 DEF BlockType
    <3>4. blocks' = [blocks EXCEPT ![m] = new]
      BY <2>4
    <3> HIDE DEF new
    <3>5. blocks' \in Seq(BlockType) /\ Len(blocks') = Len(blocks)
          /\ DOMAIN blocks' = DOMAIN blocks
      BY <1>1, <2>4, <3>2, <3>4
    <3>6. \A k \in DOMAIN blocks : blocks'[k] = IF k = m THEN new ELSE blocks[k]
      BY <1>1, <2>4, <3>4
    <3> QED
      BY <3>3, <3>5, <3>6
  <2> QED
    BY <2>1, <2>2, <2>3, <2>4
<1>3. blocks = << >> <=> blocks' = << >>
  BY <1>1, <1>2
<1>4. Shape'
  BY <1>1, <1>2 DEF Shape, TypeOK
<1>5. CacheExact' /\ Marks' /\ Scanned'
  BY <1>1, SameMarks DEF CacheExact, InCode, At, Scanned
<1>6. CutExactly'
  BY <1>1, <1>2, SameCuts
<1>7. Cut'
  <2>1. \A k \in DOMAIN blocks : k # 1 => k - 1 \in DOMAIN blocks
    BY <1>1
  <2>2. LastEnd' = LastEnd
    <3>1. blocks # << >> => Len(blocks) \in DOMAIN blocks
      BY <1>1
    <3> QED
      BY <1>2, <1>3, <3>1 DEF LastEnd
  <2> QED
    BY <1>1, <1>2, <2>1, <2>2 DEF Cut, Reached
<1>8. Chained'
  BY <1>1, <1>2 DEF Chained, Direct, InCode, At, OffsetTarget
<1> QED
  BY <1>4, <1>5, <1>6, <1>7, <1>8 DEF JitInv

LEMMA StutterKeeps ==
  ASSUME JitInv, UNCHANGED vars
  PROVE  JitInv'
<1>1. Shape' /\ CacheExact' /\ Scanned' /\ Cut' /\ Chained'
  BY DEF JitInv, vars, Shape, TypeOK, CacheExact, Direct, InCode, At, OffsetTarget,
         Scanned, Plain, Unmarked, Cut, Reached, LastEnd, Chained
<1>2. Marks' /\ CutExactly'
  <2>1. \A t, e : MarkedBy(t, e)' <=> MarkedBy(t, e)
    BY DEF vars, MarkedBy, Read, Tried, InCode, At, OffsetTarget
  <2>2. \A a : Read(a)' <=> Read(a)
    BY DEF vars, Read, InCode
  <2>3. Marks /\ CutExactly
    BY DEF JitInv
  <2> QED
    BY <2>1, <2>2, <2>3, SameCuts DEF vars, Marks
<1> QED
  BY <1>1, <1>2 DEF JitInv

LEMMA JitNext == JitInv /\ [Next]_vars => JitInv'
BY CacheInstrKeeps, CacheDoneKeeps, SkipKeeps, StartKeeps, ScanKeeps, EndKeeps, ReturnKeeps,
   HitKeeps, StutterKeeps DEF Next, Warmup

(* The conjunction of what the two loops keep true.                        *)
THEOREM JitCorrect == Spec => []JitInv
BY JitStart, JitNext, PTL DEF Spec

(* Tables keep their shape, counts their limits, and cache_count is the    *)
(* number of entries.                                                      *)
THEOREM JitTypeCorrect == Spec => []TypeOK
<1>1. JitInv => TypeOK
  BY DEF JitInv, Shape
<1> QED
  BY <1>1, JitCorrect, PTL

(* The cache holds the first CacheSize instructions and nothing else.      *)
THEOREM JitCacheExact == Spec => []CacheExact
<1>1. JitInv => CacheExact
  BY DEF JitInv
<1> QED
  BY <1>1, JitCorrect, PTL

(* Blocks tile the binary as far as the tables reach.                      *)
THEOREM JitBlocksTile == Spec => []BlocksTile
<1>1. JitInv => BlocksTile
  <2> SUFFICES ASSUME JitInv PROVE BlocksTile
    OBVIOUS
  <2>1. Cut /\ Len(code) \in Nat /\ code \in Seq(Decoded) /\ CacheSize > 0 /\ CacheSize \in Nat
    BY SlotsAre DEF JitInv, Shape, TypeOK
  <2>2. ASSUME loop = "none", Len(blocks) # BBMax, code # << >>
        PROVE  blocks # << >> /\ blocks[Len(blocks)].end \in {Len(code), CacheSize}
    <3>1. pc = Len(code) /\ Len(code) > 0 /\ Reached
      BY <2>1, <2>2 DEF Cut
    <3> QED
      BY <2>1, <3>1 DEF Reached, LastEnd
  <2> QED
    BY <2>1, <2>2 DEF BlocksTile, Cut
<1> QED
  BY <1>1, JitCorrect, PTL

(* A block ends behind a transfer, before an address that an instruction   *)
(* at it or behind it tries as a target, or at the end of the binary, and  *)
(* at the first of these: what is written of marks made forward is lost.   *)
THEOREM JitCutExactly == Spec => []CutExactly
<1>1. JitInv => CutExactly
  BY DEF JitInv
<1> QED
  BY <1>1, JitCorrect, PTL

(* A block is chained to where its last instruction goes.                  *)
THEOREM JitChained == Spec => []Chained
<1>1. JitInv => Chained
  BY DEF JitInv
<1> QED
  BY <1>1, JitCorrect, PTL

-----------------------------------------------------------------------------
(* How far the warm-up is from its return: the loops left, then the        *)
(* instructions before the loop under way, then those before its scan.     *)
LoopsLeft == CASE loop = "cache" -> 2
               [] loop \in {"blocks", "scan"} -> 1
               [] loop = "none" -> 0

CodeLeft == Len(code) - pc

ScanLeft == IF loop = "scan" THEN Len(code) - end ELSE Len(code) + 1

(* One of the three goes down, and the ones before it do not go up.        *)
RoundTaken ==
  loop # "none" =>
    /\ LoopsLeft' \in Nat /\ CodeLeft' \in Nat /\ ScanLeft' \in Nat
    /\ \/ LoopsLeft' < LoopsLeft
       \/ LoopsLeft' = LoopsLeft /\ CodeLeft' < CodeLeft
       \/ LoopsLeft' = LoopsLeft /\ CodeLeft' = CodeLeft /\ ScanLeft' < ScanLeft

(* The loops' indices lie in the binary or at its end.                     *)
LEMMA LoopPlaces ==
  ASSUME JitInv
  PROVE  /\ Len(code) \in Nat /\ pc \in 0 .. Len(code) /\ end \in 0 .. Len(code)
         /\ loop \in {"cache", "blocks", "scan", "none"}
         /\ LoopsLeft \in Nat /\ CodeLeft \in Nat /\ ScanLeft \in Nat
         /\ loop = "scan" => InCode(pc) /\ pc <= end
<1>1. /\ Len(code) \in Nat /\ pc \in 0 .. Len(code) /\ end \in 0 .. Len(code)
      /\ loop \in {"cache", "blocks", "scan", "none"}
      /\ loop = "scan" => InCode(pc) /\ pc <= end
  BY DEF JitInv, Shape, TypeOK, Scanned
<1>2. LoopsLeft \in Nat
  BY <1>1 DEF LoopsLeft
<1>3. CodeLeft \in Nat /\ ScanLeft \in Nat
  BY <1>1 DEF CodeLeft, ScanLeft
<1> QED
  BY <1>1, <1>2, <1>3

(* Where the measure is after a step.                                      *)
LeftIsCounted == LoopsLeft \in Nat /\ CodeLeft \in Nat /\ ScanLeft \in Nat

(* A scan is inside one round of the second loop, which it moves on.       *)
LEMMA RoundStep == JitInv /\ LeftIsCounted' /\ [Next]_vars => [RoundTaken]_vars
<1> SUFFICES ASSUME JitInv, LeftIsCounted', Next, loop # "none"
             PROVE  \/ LoopsLeft' < LoopsLeft
                    \/ LoopsLeft' = LoopsLeft /\ CodeLeft' < CodeLeft
                    \/ LoopsLeft' = LoopsLeft /\ CodeLeft' = CodeLeft /\ ScanLeft' < ScanLeft
  BY DEF RoundTaken, LeftIsCounted
<1>1. Warmup
  BY DEF Next, HitBB
<1>2. /\ Len(code) \in Nat /\ pc \in 0 .. Len(code) /\ end \in 0 .. Len(code)
      /\ loop = "scan" => InCode(pc) /\ pc <= end
  BY LoopPlaces
<1>3. \A n, a, b \in Int : a < b => n - b < n - a
  OBVIOUS
<1>4. CASE CacheInstr \/ SkipUncached
  <2>1. LoopsLeft' = LoopsLeft /\ pc' = pc + 1 /\ code' = code
    BY <1>4 DEF CacheInstr, SkipUncached, LoopsLeft
  <2>2. CodeLeft' < CodeLeft
    BY <1>2, <2>1 DEF CodeLeft
  <2> QED
    BY <2>1, <2>2
<1>5. CASE CacheDone \/ WarmupReturns
  BY <1>5 DEF CacheDone, WarmupReturns, LoopsLeft
<1>6. CASE StartBlock
  <2>1. /\ loop = "blocks" /\ loop' = "scan" /\ end' = pc /\ pc' = pc /\ code' = code
    BY <1>6 DEF StartBlock
  <2>2. LoopsLeft' = LoopsLeft /\ CodeLeft' = CodeLeft
    BY <2>1 DEF LoopsLeft, CodeLeft
  <2>3. ScanLeft = Len(code) + 1 /\ ScanLeft' = Len(code) - pc
    BY <2>1 DEF ScanLeft
  <2> QED
    BY <1>2, <2>2, <2>3
<1>7. CASE ScanOn
  <2>1. /\ loop = "scan" /\ loop' = "scan" /\ end' = end + 1 /\ pc' = pc /\ code' = code
    BY <1>7 DEF ScanOn
  <2>2. LoopsLeft' = LoopsLeft /\ CodeLeft' = CodeLeft
    BY <2>1 DEF LoopsLeft, CodeLeft
  <2>3. ScanLeft = Len(code) - end /\ ScanLeft' = Len(code) - (end + 1)
    BY <2>1 DEF ScanLeft
  <2> QED
    BY <1>2, <2>2, <2>3
<1>8. CASE EndBlock
  <2>1. loop = "scan" /\ InCode(pc) /\ pc <= end /\ code' = code
    BY <1>2, <1>8 DEF EndBlock
  <2>2. loop' = "blocks" /\ pc' \in {end, end + 1} /\ pc' > pc
    <3>1. CASE (~InCode(end) \/ StopsBefore(end)) /\ AddBlock(end)
      <4>1. end # pc
        BY <2>1, <3>1 DEF StopsBefore
      <4> QED
        BY <1>2, <2>1, <3>1, <4>1 DEF AddBlock
    <3>2. CASE AddBlock(end + 1)
      BY <1>2, <2>1, <3>2 DEF AddBlock
    <3> QED
      BY <1>8, <3>1, <3>2 DEF EndBlock
  <2>3. LoopsLeft' = LoopsLeft
    BY <2>1, <2>2 DEF LoopsLeft
  <2>4. CodeLeft = Len(code) - pc /\ CodeLeft' = Len(code) - pc'
    BY <2>1 DEF CodeLeft
  <2>5. pc \in Int /\ pc' \in Int /\ pc < pc' /\ Len(code) \in Int
    BY <1>2, <2>2
  <2>6. CodeLeft' < CodeLeft
    BY <1>3, <2>4, <2>5, Zenon
  <2> QED
    BY <2>3, <2>6
<1> QED
  BY <1>1, <1>4, <1>5, <1>6, <1>7, <1>8 DEF Warmup

(* What WarmupEnds rests on: every round of the two loops and of the scan  *)
(* brings mips_jit_warmup nearer its return, in any binary; a block has at *)
(* least one instruction, or the second loop would not move.               *)
THEOREM WarmupProgress == Spec => [][RoundTaken]_vars
<1>1. JitInv => LeftIsCounted
  BY LoopPlaces DEF LeftIsCounted
<1> QED
  BY <1>1, JitCorrect, RoundStep, PTL DEF Spec
=============================================================================
