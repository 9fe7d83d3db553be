--------------------------- MODULE MipsHeap_proofs ---------------------------
(***************************************************************************)
(* The heap's inductive invariant, for every heap size and every set of    *)
(* requests below the wrap, and what follows from it.                      *)
(***************************************************************************)
EXTENDS MipsHeap, TLAPS

-----------------------------------------------------------------------------
(* Arithmetic of a request: rounded up to eights, and no sum wraps.        *)
LEMMA RequestSizes ==
  ASSUME HeapInv, call = "malloc"
  PROVE  /\ request \in Nat \ {0}
         /\ size \in Nat /\ size >= 8 /\ size % 8 = 0 /\ request <= size
         /\ Wrap(size + HEADER) = size + HEADER
         /\ Wrap(heap_used + size + HEADER) = heap_used + size + HEADER
<1>1. /\ request \in Requests /\ request # 0 /\ request \in Nat
      /\ heap_used \in Nat /\ heap_used <= HeapSize
      /\ HeapSize \in Nat /\ WordRange \in Nat
      /\ HeapSize + request + 7 + HEADER < WordRange
  BY HeapAssumption DEF HeapInv, TypeOK, WalkOK, HEADER
<1>2. \A n \in Nat : n < WordRange => Wrap(n) = n
  BY <1>1 DEF Wrap
<1>3. Wrap(request + 7) = request + 7
  BY <1>1, <1>2 DEF HEADER
<1>4. size = (request + 7) - ((request + 7) % 8)
  BY <1>3 DEF size, Align8
<1>5. size \in Nat /\ size >= 8 /\ size % 8 = 0 /\ request <= size /\ size <= request + 7
  BY <1>1, <1>4
<1> QED
  BY <1>1, <1>2, <1>5 DEF HEADER

(* The invariant holds of a fresh heap.                                    *)
LEMMA FreshHeap == Init => HeapInv
<1> SUFFICES ASSUME Init PROVE HeapInv
  OBVIOUS
<1> USE DEF Init
<1>1. DOMAIN header = {} /\ DOMAIN live = {}
  OBVIOUS
<1>2. TypeOK
  BY <1>1, HeapAssumption DEF TypeOK, Offsets, Idle, HEADER
<1>3. Tiled
  BY <1>1 DEF Tiled, Offsets, HEADER
<1>4. Accounted
  BY <1>1 DEF Accounted, Offsets
<1>5. WalkOK
  BY DEF WalkOK, Idle
<1>6. NoAdjacentFree
  BY <1>1 DEF NoAdjacentFree, Offsets
<1> QED
  BY <1>2, <1>3, <1>4, <1>5, <1>6 DEF HeapInv

(* What a block looks like, its place among the others, and the client's   *)
(* view of it, collected from the invariant.                               *)
LEMMA Blocks ==
  ASSUME HeapInv
  PROVE  /\ heap_used \in Nat /\ HEADER <= heap_used /\ heap_used <= HeapSize
         /\ heap_used % 8 = 0 /\ HeapSize \in Nat
         /\ \A o \in Offsets :
              /\ o \in Nat /\ HEADER <= o /\ o % 8 = 0
              /\ header[o] = Block(header[o].size, header[o].next, header[o].free)
              /\ header[o].size \in Nat /\ header[o].size >= MinSplit
              /\ header[o].size % 8 = 0
              /\ header[o].free \in BOOLEAN
              /\ o + header[o].size <= heap_used
              /\ header[o].next = 0 => o + header[o].size = heap_used
              /\ header[o].next # 0 =>
                   header[o].next \in Offsets /\ header[o].next = o + header[o].size
         /\ \A o, p \in Offsets : o < p => o + header[o].size <= p
         /\ Offsets = {} <=> heap_used = HEADER
         /\ Offsets # {} => HEADER \in Offsets
<1>1. HeapSize \in Nat
  BY HeapAssumption
<1>2. /\ heap_used \in Nat /\ HEADER <= heap_used /\ heap_used <= HeapSize
      /\ heap_used % 8 = 0
  BY <1>1 DEF HeapInv, TypeOK, Tiled, HEADER
<1>3. ASSUME NEW o \in Offsets
      PROVE  /\ o \in Nat /\ HEADER <= o /\ o % 8 = 0
             /\ header[o] = Block(header[o].size, header[o].next, header[o].free)
             /\ header[o].size \in Nat /\ header[o].size >= MinSplit
             /\ header[o].size % 8 = 0
             /\ header[o].free \in BOOLEAN
             /\ o + header[o].size <= heap_used
             /\ header[o].next = 0 => o + header[o].size = heap_used
             /\ header[o].next # 0 =>
                  header[o].next \in Offsets /\ header[o].next = o + header[o].size
  <2>1. /\ o \in HEADER .. HeapSize
        /\ header[o] = Block(header[o].size, header[o].next, header[o].free)
        /\ header[o].size \in MinSplit .. HeapSize
        /\ header[o].next \in Offsets \union {0}
        /\ header[o].free \in BOOLEAN
    BY DEF HeapInv, TypeOK
  <2>2. /\ o % 8 = 0 /\ header[o].size % 8 = 0
        /\ o + header[o].size = Successor(o)
        /\ o + header[o].size <= heap_used
    BY DEF HeapInv, Tiled
  <2> QED
    BY <1>1, <2>1, <2>2 DEF Successor, HEADER, MinSplit
<1>4. \A o, p \in Offsets : o < p => o + header[o].size <= p
  BY DEF HeapInv, Tiled
<1>5. (Offsets = {} <=> heap_used = HEADER) /\ (Offsets # {} => HEADER \in Offsets)
  BY DEF HeapInv, Tiled
<1> QED
  BY <1>1, <1>2, <1>3, <1>4, <1>5

(* Blocks begin below the break, and no two of them end at one place.      *)
LEMMA BlockEnds ==
  ASSUME HeapInv
  PROVE  /\ \A o \in Offsets : o < heap_used /\ header[o].size >= 24
         /\ \A b, o \in Offsets : b + header[b].size = o + header[o].size => b = o
<1>1. ASSUME NEW o \in Offsets
      PROVE  o < heap_used /\ header[o].size >= 24
  <2>1. /\ o \in Nat /\ header[o].size \in Nat /\ header[o].size >= MinSplit
        /\ o + header[o].size <= heap_used /\ heap_used \in Nat
    BY <1>1, Blocks
  <2> QED
    BY <2>1 DEF MinSplit, HEADER
<1>2. ASSUME NEW b \in Offsets, NEW o \in Offsets, b + header[b].size = o + header[o].size
      PROVE  b = o
  <2>1. /\ b \in Nat /\ header[b].size \in Nat /\ o \in Nat /\ header[o].size \in Nat
        /\ b < o => b + header[b].size <= o
        /\ o < b => o + header[o].size <= b
    BY <1>2, Blocks
  <2>2. header[b].size >= 24 /\ header[o].size >= 24
    BY <1>1, <1>2
  <2>3. \A i, j, m, n \in Nat :
          /\ i + m = j + n /\ m >= 24 /\ n >= 24
          /\ i < j => i + m <= j
          /\ j < i => j + n <= i
          => i = j
    OBVIOUS
  <2> QED
    BY <1>2, <2>1, <2>2, <2>3
<1> QED
  BY <1>1, <1>2

-----------------------------------------------------------------------------
(* malloc.                                                                 *)
LEMMA MallocKeeps ==
  ASSUME HeapInv, NEW n \in Requests, Malloc(n)
  PROVE  HeapInv'
<1>1. TypeOK'
  <2>1. HEADER \in 0 .. HeapSize /\ 0 \in Offsets \union {0}
    BY HeapAssumption DEF HEADER
  <2> QED
    BY <2>1 DEF Malloc, HeapInv, TypeOK, Offsets, Block
<1>2. Tiled'
  BY DEF Malloc, HeapInv, Tiled, Offsets, Successor
<1>3. Accounted'
  BY DEF Malloc, HeapInv, Accounted, Offsets
<1>4. WalkOK'
  <2>1. \A o \in Offsets : HEADER <= o
    BY Blocks
  <2>2. HEADER \in Offsets \/ heap_used = HEADER
    BY Blocks
  <2>3. off = 0
    BY DEF Malloc, HeapInv, WalkOK
  <2>4. \A o \in Offsets : ~(HEADER = 0 \/ o < HEADER)
    BY <2>1, Blocks DEF HEADER
  <2> QED
    BY <2>2, <2>3, <2>4 DEF Malloc, WalkOK, Offsets
<1>5. NoAdjacentFree'
  BY DEF Malloc, HeapInv, NoAdjacentFree, Offsets
<1> QED
  BY <1>1, <1>2, <1>3, <1>4, <1>5 DEF HeapInv

(* The search stands at a block of the list.                               *)
LEMMA SearchAtBlock ==
  ASSUME HeapInv, AtBlock
  PROVE  offset \in Offsets
BY DEF HeapInv, WalkOK, AtBlock, HEADER

LEMMA SkipKeeps ==
  ASSUME HeapInv, Skip
  PROVE  HeapInv'
<1>1. offset \in Offsets /\ call = "malloc" /\ ~Fits(offset)
  BY SearchAtBlock DEF Skip, AtBlock
<1>2. TypeOK'
  <2>1. header[offset].next \in 0 .. HeapSize
    <3>1. header[offset].next \in Offsets \union {0}
      BY <1>1, Blocks
    <3>2. \A o \in Offsets : o \in HEADER .. HeapSize
      BY DEF HeapInv, TypeOK
    <3> QED
      BY <3>1, <3>2, HeapAssumption DEF HEADER
  <2> QED
    BY <1>1, <2>1 DEF Skip, HeapInv, TypeOK, Offsets, Block
<1>3. Tiled'
  BY DEF Skip, HeapInv, Tiled, Offsets, Successor
<1>4. Accounted'
  BY DEF Skip, HeapInv, Accounted, Offsets
<1>5. WalkOK'
  <2>1. /\ offset' = header[offset].next /\ prev' = offset
        /\ UNCHANGED <<heap_used, header, call, request, off>>
    BY DEF Skip
  <2>2. \A o \in Offsets : Fits(o)' <=> Fits(o)
    BY <2>1 DEF Fits, size
  <2>3. offset' \in Offsets \/ offset' = 0
    BY <1>1, <2>1, Blocks
  <2>4. ASSUME NEW o \in Offsets, offset' = 0 \/ o < offset'
        PROVE  ~Fits(o)
    <3>1. CASE o < offset
      BY <1>1, <3>1 DEF HeapInv, WalkOK
    <3>2. CASE o = offset
      BY <1>1, <3>2
    <3>3. CASE offset < o
      BY <1>1, <2>1, <2>4, <3>3, Blocks DEF MinSplit, HEADER
    <3> QED
      BY <1>1, <3>1, <3>2, <3>3, Blocks
  <2>5. offset' # HEADER /\ prev' # 0 /\ header'[prev'].next = offset'
    BY <1>1, <2>1, Blocks DEF MinSplit, HEADER
  <2>6. off' = 0 /\ request' # 0 /\ call' = "malloc"
    BY <1>1, <2>1 DEF HeapInv, WalkOK
  <2> QED
    BY <2>1, <2>2, <2>3, <2>4, <2>5, <2>6 DEF WalkOK, Offsets
<1>6. NoAdjacentFree'
  BY <1>1 DEF Skip, HeapInv, NoAdjacentFree, Offsets
<1> QED
  BY <1>2, <1>3, <1>4, <1>5, <1>6 DEF HeapInv

LEMMA RefuseKeeps ==
  ASSUME HeapInv, Refuse
  PROVE  HeapInv'
<1>1. TypeOK'
  BY HeapAssumption DEF Refuse, Return, HeapInv, TypeOK, Offsets, Block
<1>2. Tiled'
  BY DEF Refuse, Return, HeapInv, Tiled, Offsets, Successor
<1>3. Accounted'
  BY DEF Refuse, Return, HeapInv, Accounted, Offsets
<1>4. WalkOK'
  BY DEF Refuse, Return, WalkOK
<1>5. NoAdjacentFree'
  BY DEF Refuse, SearchEnded, Return, HeapInv, NoAdjacentFree, Offsets
<1> QED
  BY <1>1, <1>2, <1>3, <1>4, <1>5 DEF HeapInv

(* An address is granted once: its block was not the client's.             *)
LEMMA GrantAddsOne ==
  ASSUME HeapInv, NEW o \in Nat, Grant(o + HEADER)
  PROVE  /\ DOMAIN live' = DOMAIN live \union {o + HEADER}
         /\ live'[o + HEADER] = request
         /\ \A q \in DOMAIN live : q # o + HEADER => live'[q] = live[q]
BY DEF Grant

LEMMA TakeWholeKeeps ==
  ASSUME HeapInv, TakeWhole
  PROVE  HeapInv'
<1>1. /\ offset \in Offsets /\ offset \in Nat /\ call = "malloc"
      /\ header[offset].free /\ header[offset].size >= size + HEADER
      /\ request \in Nat /\ request <= size /\ size \in Nat
  BY SearchAtBlock, RequestSizes, Blocks DEF TakeWhole, AtBlock, Fits
<1>2. /\ Offsets' = Offsets
      /\ header'[offset] = [header[offset] EXCEPT !.free = FALSE]
      /\ \A o \in Offsets : o # offset => header'[o] = header[o]
      /\ heap_used' = heap_used
  BY <1>1 DEF TakeWhole, Offsets
<1>3. /\ header'[offset].free = FALSE
      /\ \A o \in Offsets :
           /\ header'[o] = Block(header[o].size, header[o].next, header'[o].free)
           /\ header'[o].size = header[o].size /\ header'[o].next = header[o].next
           /\ header'[o].free \in BOOLEAN
           /\ o # offset => header'[o].free = header[o].free
  <2>1. header'[offset] = Block(header[offset].size, header[offset].next, FALSE)
    <3>1. header[offset] = Block(header[offset].size, header[offset].next, header[offset].free)
      BY <1>1, Blocks
    <3> QED
      BY <1>2, <3>1 DEF Block
  <2>2. \A o \in Offsets : o # offset =>
          /\ header'[o] = header[o]
          /\ header[o] = Block(header[o].size, header[o].next, header[o].free)
          /\ header[o].free \in BOOLEAN
    BY <1>2, Blocks
  <2>3. /\ header'[offset].size = header[offset].size
        /\ header'[offset].next = header[offset].next
        /\ header'[offset].free = FALSE
    BY <2>1 DEF Block
  <2> QED
    BY <2>1, <2>2, <2>3
<1>4. /\ DOMAIN live' = DOMAIN live \union {offset + HEADER}
      /\ live'[offset + HEADER] = request
      /\ \A q \in DOMAIN live : q # offset + HEADER => live'[q] = live[q]
  BY <1>1, GrantAddsOne DEF TakeWhole
<1>5. TypeOK'
  <2>1. \A p \in DOMAIN live' : live'[p] \in Requests
    BY <1>1, <1>4 DEF HeapInv, TypeOK, WalkOK
  <2>2. /\ call' = "none" /\ request' = 0 /\ offset' = 0 /\ prev' = 0 /\ off' = 0
        /\ 0 \in 0 .. HeapSize
    BY HeapAssumption DEF TakeWhole, Return
  <2> QED
    BY <1>2, <1>3, <2>1, <2>2 DEF HeapInv, TypeOK
<1>6. Tiled'
  BY <1>2, <1>3 DEF HeapInv, Tiled, Successor
<1>7. Accounted'
  <2>1. DOMAIN live' = {o + HEADER : o \in {b \in Offsets' : ~header'[b].free}}
    <3>1. {b \in Offsets' : ~header'[b].free} = {b \in Offsets : ~header[b].free} \union {offset}
      BY <1>1, <1>2, <1>3
    <3>2. DOMAIN live = {o + HEADER : o \in {b \in Offsets : ~header[b].free}}
      BY DEF HeapInv, Accounted
    <3> QED
      BY <1>4, <3>1, <3>2
  <2>2. ASSUME NEW o \in Offsets', ~header'[o].free
        PROVE  live'[o + HEADER] + HEADER <= header'[o].size
    <3>1. CASE o = offset
      BY <1>1, <1>3, <1>4, <3>1, Blocks DEF HEADER
    <3>2. CASE o # offset
      <4>1. o \in Nat /\ o + HEADER # offset + HEADER
        BY <1>1, <1>2, <3>2, Blocks DEF HEADER
      <4> QED
        BY <1>2, <1>3, <1>4, <2>2, <3>2, <4>1 DEF HeapInv, Accounted
    <3> QED
      BY <3>1, <3>2
  <2> QED
    BY <2>1, <2>2 DEF Accounted
<1>8. WalkOK'
  BY DEF TakeWhole, Return, WalkOK
<1>9. NoAdjacentFree'
  BY <1>1, <1>2, <1>3, Blocks DEF HeapInv, NoAdjacentFree
<1> QED
  BY <1>5, <1>6, <1>7, <1>8, <1>9 DEF HeapInv

LEMMA TakeSplitKeeps ==
  ASSUME HeapInv, TakeSplit
  PROVE  HeapInv'
<1> DEFINE n == offset + HEADER + size
           s == header[offset].size
           x == header[offset].next
<1>1. /\ offset \in Offsets /\ offset \in Nat /\ offset % 8 = 0 /\ call = "malloc"
      /\ s \in Nat /\ s % 8 = 0 /\ header[offset].free
      /\ request \in Nat /\ request <= size /\ size \in Nat /\ size >= 8 /\ size % 8 = 0
      /\ Remaining = s - size - HEADER /\ Remaining >= MinSplit
  BY SearchAtBlock, RequestSizes, Blocks DEF TakeSplit, AtBlock, Fits, Remaining
<1>2. /\ n \in Nat /\ offset < n /\ n < offset + s /\ n % 8 = 0 /\ n >= HEADER /\ n # 0
      /\ Remaining \in Nat /\ Remaining % 8 = 0 /\ n + Remaining = offset + s
      /\ size + HEADER \in Nat /\ size + HEADER >= MinSplit /\ (size + HEADER) % 8 = 0
      /\ offset + size + HEADER = n
  BY <1>1 DEF HEADER, MinSplit
<1>3. n \notin Offsets
  BY <1>1, <1>2, Blocks
<1>4. /\ Offsets' = Offsets \union {n}
      /\ header'[n] = Block(Remaining, x, TRUE)
      /\ header'[offset] = Block(size + HEADER, n, FALSE)
      /\ \A o \in Offsets : o # offset => header'[o] = header[o]
      /\ heap_used' = heap_used
  BY <1>1, <1>2, <1>3 DEF TakeSplit, Offsets
<1> HIDE DEF n, s, x
<1>5. /\ header'[n].size = Remaining /\ header'[n].next = x /\ header'[n].free = TRUE
      /\ header'[offset].size = size + HEADER /\ header'[offset].next = n
      /\ header'[offset].free = FALSE
  BY <1>4 DEF Block
<1>6. /\ DOMAIN live' = DOMAIN live \union {offset + HEADER}
      /\ live'[offset + HEADER] = request
      /\ \A q \in DOMAIN live : q # offset + HEADER => live'[q] = live[q]
  BY <1>1, GrantAddsOne DEF TakeSplit
<1>7. /\ offset + s <= heap_used /\ heap_used \in Nat /\ heap_used <= HeapSize /\ HeapSize \in Nat
      /\ x = 0 => offset + s = heap_used
      /\ x # 0 => x \in Offsets /\ x = offset + s
  BY <1>1, Blocks DEF s, x
<1>8. TypeOK'
  <2>1. \A p \in DOMAIN live' : live'[p] \in Requests
    BY <1>1, <1>6 DEF HeapInv, TypeOK, WalkOK
  <2>2. /\ call' = "none" /\ request' = 0 /\ offset' = 0 /\ prev' = 0 /\ off' = 0
        /\ 0 \in 0 .. HeapSize
    BY HeapAssumption DEF TakeSplit, Return
  <2>3. /\ Offsets' \subseteq HEADER .. HeapSize
        /\ Remaining \in MinSplit .. HeapSize /\ size + HEADER \in MinSplit .. HeapSize
    BY <1>1, <1>2, <1>4, <1>7 DEF HeapInv, TypeOK, HEADER, MinSplit
  <2>4. ASSUME NEW o \in Offsets'
        PROVE  /\ header'[o] = Block(header'[o].size, header'[o].next, header'[o].free)
               /\ header'[o].size \in MinSplit .. HeapSize
               /\ header'[o].next \in Offsets' \union {0}
               /\ header'[o].free \in BOOLEAN
    <3>1. CASE o = n
      BY <1>4, <1>5, <1>7, <2>3, <3>1
    <3>2. CASE o = offset
      BY <1>4, <1>5, <2>3, <3>2
    <3>3. CASE o \in Offsets /\ o # offset
      BY <1>4, <3>3 DEF HeapInv, TypeOK
    <3> QED
      BY <1>4, <3>1, <3>2, <3>3
  <2>5. heap_used' \in HEADER .. HeapSize
    BY <1>4 DEF HeapInv, TypeOK
  <2> QED
    BY <2>1, <2>2, <2>3, <2>4, <2>5 DEF TypeOK
<1>9. Tiled'
  <2>1. /\ heap_used' % 8 = 0
        /\ heap_used' # HEADER /\ HEADER \in Offsets'
    BY <1>1, <1>4, Blocks
  <2>2. ASSUME NEW o \in Offsets'
        PROVE  /\ o % 8 = 0 /\ header'[o].size % 8 = 0
               /\ o + header'[o].size = Successor(o)'
               /\ o + header'[o].size <= heap_used'
    <3>1. CASE o = n
      BY <1>2, <1>4, <1>5, <1>7, <3>1 DEF Successor
    <3>2. CASE o = offset
      <4>1. Successor(o)' = n
        BY <1>2, <1>5, <3>2 DEF Successor
      <4>2. offset + (size + HEADER) = n /\ n <= heap_used
        BY <1>1, <1>2, <1>7 DEF HEADER
      <4> QED
        BY <1>1, <1>2, <1>4, <1>5, <3>2, <4>1, <4>2
    <3>3. CASE o \in Offsets /\ o # offset
      BY <1>4, <3>3 DEF HeapInv, Tiled, Successor
    <3> QED
      BY <1>4, <3>1, <3>2, <3>3
  <2>3. ASSUME NEW o \in Offsets', NEW p \in Offsets', o < p
        PROVE  o + header'[o].size <= p
    <3>1. \A b \in Offsets : /\ b \in Nat
                             /\ b < offset => b + header[b].size <= offset
                             /\ offset < b => offset + s <= b
      BY <1>1, Blocks DEF s
    <3>2. CASE o = n
      <4>1. p \in Offsets /\ offset < p
        BY <1>1, <1>2, <1>4, <2>3, <3>1, <3>2
      <4> QED
        BY <1>1, <1>2, <1>5, <3>1, <3>2, <4>1
    <3>3. CASE o = offset
      <4>1. p = n \/ n <= p
        BY <1>1, <1>2, <1>4, <2>3, <3>1, <3>3
      <4> QED
        BY <1>1, <1>2, <1>5, <3>3, <4>1 DEF HEADER
    <3>4. CASE o \in Offsets /\ o # offset
      <4>1. header'[o].size = header[o].size /\ header[o].size \in Nat /\ o \in Nat
        BY <1>4, <3>4, Blocks
      <4>2. CASE p = n
        BY <1>1, <1>2, <2>3, <3>1, <3>4, <4>1, <4>2
      <4>3. CASE p \in Offsets
        BY <2>3, <3>4, <4>1, <4>3, Blocks
      <4> QED
        BY <1>4, <4>2, <4>3
    <3> QED
      BY <1>4, <3>2, <3>3, <3>4
  <2> QED
    BY <2>1, <2>2, <2>3 DEF Tiled
<1>10. Accounted'
  <2>1. DOMAIN live' = {o + HEADER : o \in {b \in Offsets' : ~header'[b].free}}
    <3>1. {b \in Offsets' : ~header'[b].free} = {b \in Offsets : ~header[b].free} \union {offset}
      BY <1>1, <1>3, <1>4, <1>5
    <3>2. DOMAIN live = {o + HEADER : o \in {b \in Offsets : ~header[b].free}}
      BY DEF HeapInv, Accounted
    <3> QED
      BY <1>6, <3>1, <3>2
  <2>2. ASSUME NEW o \in Offsets', ~header'[o].free
        PROVE  live'[o + HEADER] + HEADER <= header'[o].size
    <3>1. CASE o = offset
      BY <1>1, <1>5, <1>6, <3>1 DEF HEADER
    <3>2. CASE o # offset
      <4>1. o \in Offsets /\ o \in Nat /\ o + HEADER # offset + HEADER
        <5>1. o \in Offsets
          BY <1>4, <1>5, <2>2
        <5> QED
          BY <1>1, <3>2, <5>1, Blocks DEF HEADER
      <4> QED
        BY <1>4, <1>6, <2>2, <3>2, <4>1 DEF HeapInv, Accounted
    <3> QED
      BY <3>1, <3>2
  <2> QED
    BY <2>1, <2>2 DEF Accounted
<1>11. WalkOK'
  BY DEF TakeSplit, Return, WalkOK
<1>12. NoAdjacentFree'
  <2> SUFFICES ASSUME NEW o \in Offsets', header'[o].free, header'[o].next # 0,
                      header'[header'[o].next].free
               PROVE  FALSE
    BY DEF NoAdjacentFree
  <2>1. \A b \in Offsets : header[b].free /\ header[b].next # 0 => ~header[header[b].next].free
    BY <1>1 DEF HeapInv, NoAdjacentFree
  <2>2. \A b \in Offsets : header[b].next # 0 => header[b].next \in Offsets
    BY Blocks
  <2>3. CASE o = n
    <3>1. x \in Offsets /\ x # offset /\ ~header[x].free
      BY <1>1, <1>2, <1>5, <1>7, <2>1, <2>3 DEF x
    <3> QED
      BY <1>4, <1>5, <2>3, <3>1
  <2>4. CASE o \in Offsets /\ o # offset
    <3>1. /\ header[o].free /\ header[o].next # 0
          /\ header'[o].next = header[o].next
      BY <1>4, <2>4
    <3>2. header[o].next \in Offsets /\ ~header[header[o].next].free
      BY <2>1, <2>2, <2>4, <3>1
    <3>3. ~header'[header[o].next].free
      BY <1>4, <1>5, <3>2
    <3> QED
      BY <3>1, <3>3
  <2> QED
    BY <1>4, <1>5, <2>3, <2>4
<1> QED
  BY <1>8, <1>9, <1>10, <1>11, <1>12 DEF HeapInv

(* When the search has ended, prev is the last block, or there is none.    *)
LEMMA SearchEnd ==
  ASSUME HeapInv, SearchEnded
  PROVE  /\ \/ prev = 0 /\ Offsets = {} /\ heap_used = HEADER
            \/ /\ prev \in Offsets /\ prev # 0 /\ header[prev].next = 0
               /\ prev + header[prev].size = heap_used
         /\ \A o \in Offsets : ~Fits(o)
         /\ \A o \in Offsets : header[o].next = 0 => o = prev
<1>1. call = "malloc" /\ (offset = 0 \/ ~(offset < heap_used))
  BY DEF SearchEnded, AtBlock
<1>2. CASE offset = 0
  <2>1. prev # 0 /\ header[prev].next = 0 /\ prev \in Offsets
    BY <1>1, <1>2 DEF HeapInv, WalkOK, TypeOK, HEADER
  <2>2. \A o \in Offsets : ~Fits(o)
    BY <1>1, <1>2 DEF HeapInv, WalkOK
  <2>3. ASSUME NEW o \in Offsets, header[o].next = 0
        PROVE  o = prev
    BY <2>1, <2>3, Blocks, BlockEnds
  <2> QED
    BY <2>1, <2>2, <2>3, Blocks
<1>3. CASE offset # 0
  <2>1. \A o \in Offsets : o < heap_used
    BY BlockEnds
  <2>2. offset = HEADER /\ heap_used = HEADER
    BY <1>1, <1>3, <2>1 DEF HeapInv, WalkOK
  <2> QED
    BY <1>1, <2>2, Blocks DEF HeapInv, WalkOK
<1> QED
  BY <1>2, <1>3

LEMMA ExpandKeeps ==
  ASSUME HeapInv, Expand
  PROVE  HeapInv'
<1> DEFINE u == heap_used
           z == size + HEADER
<1>1. /\ u \in Nat /\ u % 8 = 0 /\ HEADER <= u /\ u # 0 /\ HeapSize \in Nat
      /\ call = "malloc" /\ request \in Nat /\ request + HEADER <= z
      /\ z \in Nat /\ z >= MinSplit /\ z % 8 = 0 /\ u + z <= HeapSize
      /\ heap_used' = u + z /\ Wrap(size + HEADER) = z
  <2>1. call = "malloc"
    BY DEF Expand, SearchEnded
  <2>2. /\ request \in Nat /\ size \in Nat /\ size >= 8 /\ size % 8 = 0 /\ request <= size
        /\ Wrap(size + HEADER) = size + HEADER
        /\ Wrap(heap_used + size + HEADER) = heap_used + size + HEADER
    BY <2>1, RequestSizes
  <2>3. heap_used' = heap_used + size + HEADER /\ ~(heap_used + size + HEADER > HeapSize)
    BY <2>2 DEF Expand, NoRoom
  <2>4. /\ u \in Nat /\ u % 8 = 0 /\ HEADER <= u /\ HeapSize \in Nat
    BY Blocks
  <2>5. \A n \in Nat : n % 8 = 0 => (n + 16) % 8 = 0
    OBVIOUS
  <2>6. z \in Nat /\ z >= MinSplit /\ z % 8 = 0 /\ request + HEADER <= z
    BY <2>2, <2>5 DEF HEADER, MinSplit
  <2>7. Wrap(size + HEADER) = z
    BY <2>2
  <2>8. heap_used' = u + z /\ u + z <= HeapSize /\ u # 0
    BY <2>2, <2>3, <2>4 DEF HEADER
  <2> HIDE DEF u, z
  <2> QED
    BY <2>1, <2>2, <2>4, <2>6, <2>7, <2>8
<1>2. \A o \in Offsets : o \in Nat /\ header[o].size \in Nat /\ o < u /\ o + header[o].size <= u
  BY Blocks, BlockEnds
<1>3. u \notin Offsets
  BY <1>1, <1>2
<1>4. /\ Offsets' = Offsets \union {u}
      /\ header'[u] = Block(z, 0, FALSE)
      /\ \A o \in Offsets : o # prev => header'[o] = header[o]
      /\ prev \in Offsets => header'[prev] = [header[prev] EXCEPT !.next = u]
  BY <1>1, <1>3 DEF Expand, Offsets
<1>5. /\ \/ prev = 0 /\ Offsets = {} /\ u = HEADER
         \/ prev \in Offsets /\ header[prev].next = 0 /\ prev + header[prev].size = u
      /\ \A o \in Offsets : header[o].next = 0 => o = prev
  BY SearchEnd DEF Expand
<1> HIDE DEF u, z
<1>6. header'[u].size = z /\ header'[u].next = 0 /\ header'[u].free = FALSE
  BY <1>4 DEF Block
<1>7. ASSUME prev \in Offsets
      PROVE  /\ header'[prev] = Block(header[prev].size, u, header[prev].free)
             /\ header'[prev].size = header[prev].size
             /\ header'[prev].next = u /\ header'[prev].free = header[prev].free
  <2>1. header[prev] = Block(header[prev].size, header[prev].next, header[prev].free)
    BY <1>7, Blocks
  <2>2. header'[prev] = Block(header[prev].size, u, header[prev].free)
    BY <1>4, <1>7, <2>1 DEF Block
  <2> QED
    BY <2>2 DEF Block
<1>8. ASSUME NEW o \in Offsets
      PROVE  /\ header'[o] = Block(header'[o].size, header'[o].next, header'[o].free)
             /\ header'[o].size = header[o].size /\ header'[o].free = header[o].free
             /\ header'[o].next = IF o = prev THEN u ELSE header[o].next
             /\ o # prev => header[o].next # 0
  <2>1. CASE o = prev
    BY <1>7, <1>8, <2>1
  <2>2. CASE o # prev
    BY <1>4, <1>5, <1>8, <2>2, Blocks
  <2> QED
    BY <2>1, <2>2
<1>9. /\ DOMAIN live' = DOMAIN live \union {u + HEADER}
      /\ live'[u + HEADER] = request
      /\ \A q \in DOMAIN live : q # u + HEADER => live'[q] = live[q]
  BY <1>1, GrantAddsOne DEF Expand, u
<1>10. TypeOK'
  <2>1. \A p \in DOMAIN live' : live'[p] \in Requests
    BY <1>1, <1>9 DEF HeapInv, TypeOK, WalkOK
  <2>2. /\ call' = "none" /\ request' = 0 /\ offset' = 0 /\ prev' = 0 /\ off' = 0
        /\ 0 \in 0 .. HeapSize
    BY HeapAssumption DEF Expand, Return
  <2>3. u \in HEADER .. HeapSize /\ heap_used' \in HEADER .. HeapSize /\ z \in MinSplit .. HeapSize
    BY <1>1 DEF HEADER, MinSplit
  <2>4. Offsets' \subseteq HEADER .. HeapSize
    BY <1>4, <2>3 DEF HeapInv, TypeOK
  <2>5. ASSUME NEW o \in Offsets'
        PROVE  /\ header'[o] = Block(header'[o].size, header'[o].next, header'[o].free)
               /\ header'[o].size \in MinSplit .. HeapSize
               /\ header'[o].next \in Offsets' \union {0}
               /\ header'[o].free \in BOOLEAN
    <3>1. CASE o = u
      BY <1>4, <1>6, <2>3, <3>1
    <3>2. CASE o \in Offsets
      <4>1. /\ header[o].size \in MinSplit .. HeapSize /\ header[o].free \in BOOLEAN
            /\ header[o].next \in Offsets \union {0}
        BY <3>2 DEF HeapInv, TypeOK
      <4> QED
        BY <1>4, <1>8, <3>2, <4>1
    <3> QED
      BY <1>4, <3>1, <3>2
  <2> QED
    BY <2>1, <2>2, <2>3, <2>4, <2>5 DEF TypeOK
<1>11. Tiled'
  <2>1. heap_used' % 8 = 0 /\ heap_used' # HEADER /\ HEADER \in Offsets'
    <3>1. (u + z) % 8 = 0 /\ u + z # HEADER
      BY <1>1 DEF HEADER, MinSplit
    <3> QED
      BY <1>1, <1>4, <1>5, <3>1, Blocks
  <2>2. ASSUME NEW o \in Offsets'
        PROVE  /\ o % 8 = 0 /\ header'[o].size % 8 = 0
               /\ o + header'[o].size = Successor(o)'
               /\ o + header'[o].size <= heap_used'
    <3>1. CASE o = u
      BY <1>1, <1>6, <3>1 DEF Successor
    <3>2. CASE o \in Offsets
      <4>1. /\ o % 8 = 0 /\ header[o].size % 8 = 0
            /\ o + header[o].size <= heap_used'
            /\ header[o].next # 0 => o + header[o].size = header[o].next
        BY <1>1, <1>2, <3>2, Blocks DEF u
      <4>2. Successor(o)' = IF o = prev THEN u ELSE header[o].next
        BY <1>1, <1>8, <3>2 DEF Successor
      <4> QED
        BY <1>5, <1>8, <3>2, <4>1, <4>2
    <3> QED
      BY <1>4, <3>1, <3>2
  <2>3. ASSUME NEW o \in Offsets', NEW p \in Offsets', o < p
        PROVE  o + header'[o].size <= p
    <3>1. o \in Offsets
      BY <1>1, <1>2, <1>4, <2>3
    <3>2. CASE p = u
      BY <1>2, <1>8, <3>1, <3>2
    <3>3. CASE p \in Offsets
      BY <1>8, <2>3, <3>1, <3>3, Blocks
    <3> QED
      BY <1>4, <3>2, <3>3
  <2> QED
    BY <2>1, <2>2, <2>3 DEF Tiled
<1>12. Accounted'
  <2>1. DOMAIN live' = {o + HEADER : o \in {b \in Offsets' : ~header'[b].free}}
    <3>1. {b \in Offsets' : ~header'[b].free} = {b \in Offsets : ~header[b].free} \union {u}
      BY <1>3, <1>4, <1>6, <1>8
    <3>2. DOMAIN live = {o + HEADER : o \in {b \in Offsets : ~header[b].free}}
      BY DEF HeapInv, Accounted
    <3> QED
      BY <1>9, <3>1, <3>2
  <2>2. ASSUME NEW o \in Offsets', ~header'[o].free
        PROVE  live'[o + HEADER] + HEADER <= header'[o].size
    <3>1. CASE o = u
      BY <1>1, <1>6, <1>9, <3>1
    <3>2. CASE o \in Offsets
      <4>1. o + HEADER # u + HEADER
        BY <1>1, <1>2, <3>2 DEF HEADER
      <4>2. ~header[o].free /\ o + HEADER \in DOMAIN live
        BY <1>8, <2>2, <3>2 DEF HeapInv, Accounted
      <4> QED
        BY <1>8, <1>9, <3>2, <4>1, <4>2 DEF HeapInv, Accounted
    <3> QED
      BY <1>4, <3>1, <3>2
  <2> QED
    BY <2>1, <2>2 DEF Accounted
<1>13. WalkOK'
  BY DEF Expand, Return, WalkOK
<1>14. NoAdjacentFree'
  <2> SUFFICES ASSUME NEW o \in Offsets', header'[o].free, header'[o].next # 0,
                      header'[header'[o].next].free
               PROVE  FALSE
    BY DEF NoAdjacentFree
  <2>1. \A b \in Offsets : header[b].free /\ header[b].next # 0 => ~header[header[b].next].free
    BY <1>1 DEF HeapInv, NoAdjacentFree
  <2>2. o \in Offsets
    BY <1>4, <1>6
  <2>3. CASE o = prev
    BY <1>6, <1>8, <2>2, <2>3
  <2>4. CASE o # prev
    <3>1. header'[o].next = header[o].next /\ header[o].next \in Offsets
      BY <1>8, <2>2, <2>4, Blocks
    <3> QED
      BY <1>8, <2>1, <2>2, <3>1
  <2> QED
    BY <2>3, <2>4
<1> QED
  BY <1>10, <1>11, <1>12, <1>13, <1>14 DEF HeapInv

-----------------------------------------------------------------------------
(* free.                                                                   *)
LEMMA FreeKeeps ==
  ASSUME HeapInv, NEW p \in DOMAIN live, Free(p)
  PROVE  HeapInv'
<1> DEFINE o == p - HEADER
           x == header[o].next
<1>1. /\ o \in Offsets /\ p = o + HEADER /\ o \in Nat /\ HEADER <= o /\ ~header[o].free
      /\ header[o].size \in Nat /\ header[o].size >= 24
  <2>1. PICK b \in Offsets : ~header[b].free /\ p = b + HEADER
    BY DEF HeapInv, Accounted
  <2>2. b = o
    BY <2>1, Blocks DEF HEADER
  <2> QED
    BY <2>1, <2>2, Blocks DEF MinSplit, HEADER
<1>2. /\ call = "none" /\ request = 0 /\ offset = 0 /\ prev = 0 /\ off = 0
      /\ call' = "free" /\ request' = 0 /\ offset' = HEADER /\ prev' = 0 /\ off' = o
      /\ heap_used' = heap_used
  BY DEF Free, HeapInv, WalkOK
<1>3. x # 0 => /\ x \in Offsets /\ x = o + header[o].size /\ x \in Nat /\ o < x
               /\ header[x].size \in Nat /\ x < HeapSize
  BY <1>1, Blocks DEF MinSplit, HEADER
<1>4. \A b \in Offsets : header[b].next # 0 /\ header[b].next = x => b = o
  <2> SUFFICES ASSUME NEW b \in Offsets, header[b].next # 0, header[b].next = x
               PROVE  b = o
    OBVIOUS
  <2>1. b + header[b].size = x /\ o + header[o].size = x
    BY <1>1, <1>3, Blocks
  <2> QED
    BY <1>1, <2>1, BlockEnds
<1>5. \A b \in Offsets : header[b].free /\ header[b].next # 0 => ~header[header[b].next].free
  BY <1>2 DEF HeapInv, NoAdjacentFree
<1>6. NextIsFree(o) <=> x # 0 /\ header[x].free
  BY <1>1, <1>3, Blocks DEF NextIsFree
<1> DEFINE s == IF NextIsFree(o) THEN header[o].size + header[x].size ELSE header[o].size
           y == IF NextIsFree(o) THEN header[x].next ELSE x
<1>7. /\ Offsets' = IF NextIsFree(o) THEN Offsets \ {x} ELSE Offsets
      /\ o \in Offsets'
      /\ header'[o] = Block(s, y, TRUE)
      /\ \A b \in Offsets' : b # o => header'[b] = header[b]
  <2>1. CASE NextIsFree(o)
    BY <1>1, <1>3, <1>6, <2>1 DEF Free, Offsets
  <2>2. CASE ~NextIsFree(o)
    <3>1. header[o] = Block(header[o].size, header[o].next, header[o].free)
      BY <1>1, Blocks
    <3>2. header' = [header EXCEPT ![o].free = TRUE]
      BY <2>2 DEF Free
    <3> HIDE DEF o
    <3>3. header'[o] = [header[o] EXCEPT !.free = TRUE]
      BY <1>1, <3>2 DEF Offsets
    <3>4. header'[o] = Block(header[o].size, header[o].next, TRUE)
      BY <3>1, <3>3 DEF Block
    <3>5. Offsets' = Offsets /\ \A b \in Offsets' : b # o => header'[b] = header[b]
      BY <3>2 DEF Offsets
    <3> QED
      BY <1>1, <2>2, <3>4, <3>5
  <2> QED
    BY <2>1, <2>2
<1>8. /\ header'[o].size = s /\ header'[o].next = y /\ header'[o].free = TRUE
  BY <1>7 DEF Block
<1>9. /\ s \in Nat /\ s >= 24 /\ s % 8 = 0
      /\ o + s <= heap_used /\ heap_used <= HeapSize /\ heap_used \in Nat /\ HeapSize \in Nat
      /\ y = 0 => o + s = heap_used
      /\ y # 0 => y \in Offsets' /\ y = o + s /\ ~header[y].free
  <2>1. /\ heap_used \in Nat /\ heap_used <= HeapSize /\ HeapSize \in Nat
        /\ header[o].size % 8 = 0 /\ o + header[o].size <= heap_used
        /\ x = 0 => o + header[o].size = heap_used
    BY <1>1, Blocks
  <2>2. CASE NextIsFree(o)
    <3>1. /\ x \in Offsets /\ x = o + header[o].size /\ x # 0 /\ header[x].free
          /\ header[x].size \in Nat /\ header[x].size % 8 = 0
          /\ x + header[x].size <= heap_used
          /\ header[x].next = 0 => x + header[x].size = heap_used
          /\ header[x].next # 0 =>
               /\ header[x].next \in Offsets /\ header[x].next = x + header[x].size
               /\ header[x].next # x
      BY <1>3, <1>6, <2>2, Blocks DEF MinSplit, HEADER
    <3>2. s = header[o].size + header[x].size /\ y = header[x].next
      BY <2>2
    <3>3. \A m, n \in Nat : m % 8 = 0 /\ n % 8 = 0 => (m + n) % 8 = 0
      OBVIOUS
    <3>4. y # 0 => ~header[y].free
      BY <1>5, <3>1, <3>2
    <3> HIDE DEF s, y, x
    <3> QED
      BY <1>1, <1>7, <2>1, <2>2, <3>1, <3>2, <3>3, <3>4, SMTT(30)
  <2>3. CASE ~NextIsFree(o)
    BY <1>1, <1>3, <1>6, <1>7, <2>1, <2>3
  <2> QED
    BY <2>2, <2>3
<1>10. ASSUME NEW b \in Offsets', b # o
       PROVE  /\ b \in Offsets /\ b \in Nat /\ header'[b] = header[b]
              /\ header[b].next # 0 => header[b].next \in Offsets'
              /\ b < o => b + header[b].size <= o
              /\ o < b => o + s <= b
  <2>1. b \in Offsets /\ header'[b] = header[b] /\ b \in Nat
    BY <1>7, <1>10, Blocks
  <2>2. header[b].next # 0 => header[b].next \in Offsets'
    BY <1>4, <1>7, <1>10, <2>1, Blocks
  <2>3. b < o => b + header[b].size <= o
    BY <1>1, <2>1, Blocks
  <2>4. ASSUME o < b
        PROVE  o + s <= b
    <3>1. o + header[o].size <= b
      BY <1>1, <2>1, <2>4, Blocks
    <3>2. CASE NextIsFree(o)
      <4>1. x \in Offsets /\ b # x /\ x = o + header[o].size
        BY <1>3, <1>6, <1>7, <1>10, <3>2
      <4>2. x < b
        <5> HIDE DEF x, o
        <5> QED
          BY <1>1, <2>1, <3>1, <4>1
      <4>3. x + header[x].size <= b
        BY <2>1, <4>1, <4>2, Blocks
      <4> QED
        BY <1>1, <1>3, <1>6, <3>2, <4>1, <4>3
    <3>3. CASE ~NextIsFree(o)
      BY <3>1, <3>3
    <3> QED
      BY <3>2, <3>3
  <2> QED
    BY <2>1, <2>2, <2>3, <2>4
<1> HIDE DEF o, x, s, y
<1>11. TypeOK'
  <2>1. \A q \in DOMAIN live' : live'[q] \in Requests
    BY DEF Free, HeapInv, TypeOK
  <2>2. /\ HEADER \in 0 .. HeapSize /\ o \in 0 .. HeapSize /\ 0 \in Offsets' \union {0}
        /\ s \in MinSplit .. HeapSize
    BY <1>1, <1>9, HeapAssumption DEF HEADER, MinSplit
  <2>3. Offsets' \subseteq HEADER .. HeapSize /\ heap_used' \in HEADER .. HeapSize
    BY <1>2, <1>7 DEF HeapInv, TypeOK
  <2>4. ASSUME NEW b \in Offsets'
        PROVE  /\ header'[b] = Block(header'[b].size, header'[b].next, header'[b].free)
               /\ header'[b].size \in MinSplit .. HeapSize
               /\ header'[b].next \in Offsets' \union {0}
               /\ header'[b].free \in BOOLEAN
    <3>1. CASE b = o
      BY <1>7, <1>8, <1>9, <2>2, <3>1
    <3>2. CASE b # o
      BY <1>10, <3>2 DEF HeapInv, TypeOK
    <3> QED
      BY <3>1, <3>2
  <2> QED
    BY <1>2, <2>1, <2>2, <2>3, <2>4 DEF TypeOK
<1>12. Tiled'
  <2>1. heap_used' % 8 = 0 /\ heap_used' # HEADER /\ HEADER \in Offsets'
    BY <1>1, <1>2, <1>3, <1>6, <1>7, Blocks
  <2>2. ASSUME NEW b \in Offsets'
        PROVE  /\ b % 8 = 0 /\ header'[b].size % 8 = 0
               /\ b + header'[b].size = Successor(b)'
               /\ b + header'[b].size <= heap_used'
    <3>1. CASE b = o
      BY <1>1, <1>2, <1>8, <1>9, <3>1, Blocks DEF Successor
    <3>2. CASE b # o
      <4>1. Successor(b)' = Successor(b)
        BY <1>2, <1>10, <3>2 DEF Successor
      <4> QED
        BY <1>2, <1>10, <3>2, <4>1 DEF HeapInv, Tiled
    <3> QED
      BY <3>1, <3>2
  <2>3. ASSUME NEW b \in Offsets', NEW c \in Offsets', b < c
        PROVE  b + header'[b].size <= c
    <3>1. CASE b = o
      BY <1>1, <1>8, <1>10, <2>3, <3>1
    <3>2. CASE b # o /\ c = o
      BY <1>10, <2>3, <3>2
    <3>3. CASE b # o /\ c # o
      BY <1>10, <2>3, <3>3, Blocks
    <3> QED
      BY <3>1, <3>2, <3>3
  <2> QED
    BY <2>1, <2>2, <2>3 DEF Tiled
<1>13. Accounted'
  <2>1. DOMAIN live' = DOMAIN live \ {p} /\ \A q \in DOMAIN live' : live'[q] = live[q]
    BY DEF Free
  <2>2. {b \in Offsets' : ~header'[b].free} = {b \in Offsets : ~header[b].free} \ {o}
    <3>1. \A b \in Offsets : ~header[b].free => b \in Offsets'
      BY <1>6, <1>7
    <3> QED
      BY <1>7, <1>8, <1>10, <3>1
  <2>3. DOMAIN live = {b + HEADER : b \in {c \in Offsets : ~header[c].free}}
    BY DEF HeapInv, Accounted
  <2>4. \A b \in Offsets : b + HEADER = p => b = o
    BY <1>1, Blocks DEF HEADER
  <2>5. DOMAIN live' = {b + HEADER : b \in {c \in Offsets' : ~header'[c].free}}
    <3> DEFINE U == {c \in Offsets : ~header[c].free}
    <3>1. DOMAIN live = {b + HEADER : b \in U} /\ U \subseteq Offsets
      BY <2>3
    <3>2. {c \in Offsets' : ~header'[c].free} = U \ {o}
      BY <2>2
    <3> HIDE DEF U
    <3>3. {b + HEADER : b \in U} \ {p} = {b + HEADER : b \in U \ {o}}
      BY <1>1, <2>4, <3>1
    <3> QED
      BY <2>1, <3>1, <3>2, <3>3
  <2>6. ASSUME NEW b \in Offsets', ~header'[b].free
        PROVE  live'[b + HEADER] + HEADER <= header'[b].size
    <3>1. b # o
      BY <1>8, <2>6
    <3>2. b + HEADER \in DOMAIN live'
      BY <2>5, <2>6
    <3> QED
      BY <1>10, <2>1, <2>6, <3>1, <3>2 DEF HeapInv, Accounted
  <2> QED
    BY <2>5, <2>6 DEF Accounted
<1>14. WalkOK'
  <2>1. HEADER \in Offsets' /\ HEADER <= o
    BY <1>1, <1>3, <1>6, <1>7, Blocks
  <2> QED
    BY <1>2, <1>7, <1>8, <2>1 DEF WalkOK
<1>15. NoAdjacentFree'
  <2> SUFFICES ASSUME NEW b \in Offsets', header'[b].free, header'[b].next # 0,
                      header'[header'[b].next].free
               PROVE  header'[b].next = o /\ HEADER <= b
    BY <1>2 DEF NoAdjacentFree
  <2>1. HEADER <= b
    BY <1>1, <1>10, Blocks
  <2>2. b # o
    BY <1>1, <1>8, <1>9, <1>10
  <2>3. ASSUME header[b].next # o
        PROVE  FALSE
    <3>1. header[b].next \in Offsets' /\ header'[header[b].next] = header[header[b].next]
      BY <1>10, <2>2, <2>3
    <3> QED
      BY <1>5, <1>10, <2>2, <3>1
  <2> QED
    BY <1>10, <2>1, <2>2, <2>3
<1> QED
  BY <1>11, <1>12, <1>13, <1>14, <1>15 DEF HeapInv

(* Where the scan stands.                                                  *)
LEMMA ScanPlace ==
  ASSUME HeapInv, call = "free"
  PROVE  /\ off \in Offsets /\ header[off].free
         /\ offset \in Offsets /\ offset <= off /\ offset \in Nat /\ off \in Nat
         /\ offset < off => /\ header[offset].next # 0 /\ Successor(offset) = header[offset].next
                          /\ header[offset].next <= off /\ offset < header[offset].next
<1>1. /\ off \in Offsets /\ header[off].free
      /\ offset \in Offsets /\ offset <= off /\ offset \in Nat /\ off \in Nat
  BY Blocks DEF HeapInv, WalkOK
<1>2. ASSUME offset < off
      PROVE  /\ header[offset].next # 0 /\ Successor(offset) = header[offset].next
             /\ header[offset].next <= off /\ offset < header[offset].next
  <2>1. \A o, p \in Offsets : o < p => o + header[o].size <= p
    BY Blocks
  <2>2. offset + header[offset].size <= off
    BY <1>1, <1>2, <2>1
  <2>3. off < heap_used /\ header[offset].size >= 24
    BY <1>1, BlockEnds
  <2>4. /\ heap_used \in Nat /\ header[offset].size \in Nat
        /\ header[offset].next = 0 => offset + header[offset].size = heap_used
        /\ header[offset].next # 0 => header[offset].next = offset + header[offset].size
    BY <1>1, Blocks
  <2>5. header[offset].next # 0
    BY <1>1, <2>2, <2>3, <2>4
  <2>6. Successor(offset) = header[offset].next
    BY <2>5 DEF Successor
  <2> QED
    BY <1>1, <2>2, <2>3, <2>4, <2>5, <2>6
<1> QED
  BY <1>1, <1>2

LEMMA MergeKeeps ==
  ASSUME HeapInv, Merge
  PROVE  HeapInv'
<1> DEFINE s == header[offset].size + header[off].size
           y == header[off].next
<1>1. /\ call = "free" /\ offset < off /\ header[offset].free /\ header[offset].next = off
      /\ off \in Offsets /\ offset \in Offsets /\ offset \in Nat /\ off \in Nat
      /\ header[off].free
  BY ScanPlace DEF Merge, Scanning, MergeHere
<1>2. /\ Offsets' = Offsets \ {off}
      /\ header'[offset] = Block(s, y, TRUE)
      /\ \A b \in Offsets' : b # offset => header'[b] = header[b]
      /\ heap_used' = heap_used /\ live' = live
  <2>1. header' = [b \in Offsets \ {off} |->
                     IF b = offset
                     THEN Block(header[b].size + header[off].size, header[off].next, TRUE)
                     ELSE header[b]]
    BY DEF Merge, Offsets
  <2>2. Offsets' = Offsets \ {off}
    BY <2>1 DEF Offsets
  <2>3. offset \in Offsets \ {off}
    BY <1>1
  <2>4. header'[offset] = Block(s, y, TRUE)
    BY <2>1, <2>3
  <2>5. \A b \in Offsets' : b # offset => header'[b] = header[b]
    BY <2>1, <2>2
  <2> QED
    BY <2>2, <2>4, <2>5 DEF Merge
<1>3. header'[offset].size = s /\ header'[offset].next = y /\ header'[offset].free = TRUE
  BY <1>2 DEF Block
<1>4. /\ off = offset + header[offset].size
      /\ header[off].size \in Nat /\ header[off].size % 8 = 0 /\ header[off].size >= 24
      /\ header[offset].size \in Nat /\ header[offset].size % 8 = 0
      /\ off + header[off].size <= heap_used
      /\ heap_used \in Nat /\ heap_used <= HeapSize /\ HeapSize \in Nat
  BY <1>1, Blocks, BlockEnds
<1>5. /\ s \in Nat /\ s >= 24 /\ s % 8 = 0 /\ offset + s = off + header[off].size
  <2>1. \A m, n \in Nat : m % 8 = 0 /\ n % 8 = 0 => (m + n) % 8 = 0
    OBVIOUS
  <2> QED
    BY <1>1, <1>4, <2>1
<1>6. /\ y = 0 => offset + s = heap_used
      /\ y # 0 => y \in Offsets' /\ y = offset + s /\ ~header[y].free
  <2>1. y = 0 => offset + s = heap_used
    BY <1>1, <1>5, Blocks
  <2>2. ASSUME y # 0
        PROVE  y \in Offsets /\ y = off + header[off].size
    BY <1>1, <2>2, Blocks
  <2>3. ASSUME y # 0
        PROVE  y # off
    BY <1>1, <1>4, <2>2, <2>3
  <2>4. ASSUME y # 0
        PROVE  ~header[y].free
    BY <1>1, <2>3, <2>4 DEF HeapInv, NoAdjacentFree
  <2> QED
    BY <1>2, <1>5, <2>1, <2>2, <2>3, <2>4
<1>7. ASSUME NEW b \in Offsets', b # offset
      PROVE  /\ b \in Offsets /\ b # off /\ b \in Nat /\ header'[b] = header[b]
             /\ header[b].next # 0 => header[b].next \in Offsets'
             /\ b < offset => b + header[b].size <= offset
             /\ offset < b => offset + s <= b
  <2>1. b \in Offsets /\ b # off /\ header'[b] = header[b] /\ b \in Nat
    BY <1>2, <1>7, Blocks
  <2>2. ASSUME header[b].next # 0
        PROVE  header[b].next \in Offsets'
    <3>1. header[b].next \in Offsets /\ header[b].next = b + header[b].size
      BY <2>1, <2>2, Blocks
    <3>2. header[b].next # off
      BY <1>1, <1>4, <1>7, <2>1, <3>1, BlockEnds
    <3> QED
      BY <1>2, <3>1, <3>2
  <2>3. b < offset => b + header[b].size <= offset
    BY <1>1, <2>1, Blocks
  <2>4. ASSUME offset < b
        PROVE  offset + s <= b
    <3>1. off <= b
      BY <1>1, <1>4, <2>1, <2>4, Blocks
    <3>2. off < b
      BY <1>1, <2>1, <3>1
    <3> QED
      BY <1>1, <1>5, <2>1, <3>2, Blocks
  <2> QED
    BY <2>1, <2>2, <2>3, <2>4
<1>8. offset \in Offsets'
  BY <1>1, <1>2
<1>9. call' = "none" /\ request' = 0 /\ offset' = 0 /\ prev' = 0 /\ off' = 0
  BY DEF Merge, Return
<1> HIDE DEF s, y
<1>10. TypeOK'
  <2>1. 0 \in 0 .. HeapSize /\ s \in MinSplit .. HeapSize
    BY <1>1, <1>4, <1>5 DEF HEADER, MinSplit
  <2>2. Offsets' \subseteq HEADER .. HeapSize /\ heap_used' \in HEADER .. HeapSize
    BY <1>2 DEF HeapInv, TypeOK
  <2>3. ASSUME NEW b \in Offsets'
        PROVE  /\ header'[b] = Block(header'[b].size, header'[b].next, header'[b].free)
               /\ header'[b].size \in MinSplit .. HeapSize
               /\ header'[b].next \in Offsets' \union {0}
               /\ header'[b].free \in BOOLEAN
    <3>1. CASE b = offset
      BY <1>2, <1>3, <1>6, <2>1, <3>1
    <3>2. CASE b # offset
      BY <1>7, <3>2 DEF HeapInv, TypeOK
    <3> QED
      BY <3>1, <3>2
  <2>4. \A q \in DOMAIN live' : live'[q] \in Requests
    BY <1>2 DEF HeapInv, TypeOK
  <2> QED
    BY <1>9, <2>1, <2>2, <2>3, <2>4 DEF TypeOK
<1>11. Tiled'
  <2>1. heap_used' % 8 = 0 /\ heap_used' # HEADER /\ HEADER \in Offsets'
    <3>1. HEADER \in Offsets /\ HEADER <= offset /\ HEADER # off
      BY <1>1, Blocks DEF HEADER
    <3> QED
      BY <1>2, <3>1, Blocks
  <2>2. ASSUME NEW b \in Offsets'
        PROVE  /\ b % 8 = 0 /\ header'[b].size % 8 = 0
               /\ b + header'[b].size = Successor(b)'
               /\ b + header'[b].size <= heap_used'
    <3>1. CASE b = offset
      <4>1. offset % 8 = 0
        BY <1>1, Blocks
      <4>2. Successor(b)' = IF y # 0 THEN y ELSE heap_used
        BY <1>2, <1>3, <3>1 DEF Successor
      <4> QED
        BY <1>2, <1>3, <1>4, <1>5, <1>6, <3>1, <4>1, <4>2
    <3>2. CASE b # offset
      <4>1. Successor(b)' = Successor(b)
        BY <1>2, <1>7, <3>2 DEF Successor
      <4> QED
        BY <1>2, <1>7, <3>2, <4>1 DEF HeapInv, Tiled
    <3> QED
      BY <3>1, <3>2
  <2>3. ASSUME NEW b \in Offsets', NEW c \in Offsets', b < c
        PROVE  b + header'[b].size <= c
    <3>1. CASE b = offset
      BY <1>1, <1>3, <1>7, <2>3, <3>1
    <3>2. CASE b # offset /\ c = offset
      BY <1>7, <2>3, <3>2
    <3>3. CASE b # offset /\ c # offset
      BY <1>7, <2>3, <3>3, Blocks
    <3> QED
      BY <3>1, <3>2, <3>3
  <2> QED
    BY <2>1, <2>2, <2>3 DEF Tiled
<1>12. Accounted'
  <2>1. {b \in Offsets' : ~header'[b].free} = {b \in Offsets : ~header[b].free}
    BY <1>1, <1>2, <1>3
  <2>2. ASSUME NEW b \in Offsets', ~header'[b].free
        PROVE  live'[b + HEADER] + HEADER <= header'[b].size
    <3>1. b # offset
      BY <1>3, <2>2
    <3> QED
      BY <1>2, <1>7, <2>2, <3>1 DEF HeapInv, Accounted
  <2>3. DOMAIN live' = {b + HEADER : b \in {c \in Offsets' : ~header'[c].free}}
    BY <1>2, <2>1 DEF HeapInv, Accounted
  <2> QED
    BY <2>2, <2>3 DEF Accounted
<1>13. WalkOK'
  BY <1>9 DEF WalkOK
<1>14. NoAdjacentFree'
  <2> SUFFICES ASSUME NEW b \in Offsets', header'[b].free, header'[b].next # 0,
                      header'[header'[b].next].free
               PROVE  FALSE
    BY DEF NoAdjacentFree
  <2>1. \A c \in Offsets :
          header[c].free /\ header[c].next # 0 /\ header[header[c].next].free => header[c].next = off
    BY DEF HeapInv, NoAdjacentFree
  <2>2. CASE b = offset
    <3>1. y \in Offsets' /\ y # offset /\ ~header[y].free
      BY <1>1, <1>3, <1>5, <1>6, <2>2
    <3> QED
      BY <1>3, <1>7, <2>2, <3>1
  <2>3. CASE b # offset
    <3>1. header'[b] = header[b] /\ b \in Offsets /\ header[b].next \in Offsets'
      BY <1>7, <2>3
    <3>2. header[header[b].next].free
      BY <1>1, <1>7, <3>1
    <3> QED
      BY <1>2, <2>1, <3>1, <3>2
  <2> QED
    BY <2>2, <2>3
<1> QED
  BY <1>10, <1>11, <1>12, <1>13, <1>14 DEF HeapInv

LEMMA ScanOnKeeps ==
  ASSUME HeapInv, ScanOn
  PROVE  HeapInv'
<1>1. call = "free" /\ offset < off /\ offset' = header[offset].next /\ ~MergeHere
  BY DEF ScanOn, Scanning
<1>2. UNCHANGED <<heap_used, header, live, call, request, prev, off>>
  BY DEF ScanOn
<1>3. offset' \in Offsets /\ offset' <= off /\ offset < offset' /\ offset \in Offsets
      /\ Successor(offset) = offset' /\ offset \in Nat /\ off \in Nat
  <2>1. offset \in Offsets /\ offset \in Nat /\ off \in Nat /\ header[offset].next # 0
    BY <1>1, ScanPlace
  <2>2. header[offset].next \in Offsets
    BY <2>1, Blocks
  <2> QED
    BY <1>1, <2>1, <2>2, ScanPlace
<1>4. TypeOK'
  <2>1. Offsets \subseteq HEADER .. HeapSize /\ HeapSize \in Nat
    BY HeapAssumption DEF HeapInv, TypeOK
  <2>2. \A o \in HEADER .. HeapSize : o \in 0 .. HeapSize
    BY <2>1 DEF HEADER
  <2>3. offset' \in 0 .. HeapSize
    BY <1>3, <2>1, <2>2
  <2> QED
    BY <1>2, <2>3 DEF HeapInv, TypeOK, Offsets, Block
<1>5. Tiled' /\ Accounted'
  BY <1>2 DEF HeapInv, Tiled, Accounted, Offsets, Successor
<1>6. WalkOK'
  BY <1>1, <1>2, <1>3 DEF HeapInv, WalkOK, Offsets
<1>7. NoAdjacentFree'
  <2> SUFFICES ASSUME NEW b \in Offsets, header[b].free, header[b].next # 0,
                      header[header[b].next].free
               PROVE  header[b].next = off /\ offset' <= b
    BY <1>1, <1>2 DEF NoAdjacentFree, Offsets
  <2>1. header[b].next = off /\ offset <= b /\ b \in Nat
    BY Blocks DEF HeapInv, NoAdjacentFree
  <2>2. b # offset
    BY <1>1, <1>3, <2>1 DEF MergeHere
  <2>3. offset < b
    BY <1>3, <2>1, <2>2
  <2>4. offset' = offset + header[offset].size
    BY <1>1, <1>3, ScanPlace, Blocks
  <2> QED
    BY <1>3, <2>1, <2>3, <2>4, Blocks
<1> QED
  BY <1>4, <1>5, <1>6, <1>7 DEF HeapInv

LEMMA ScanEndedKeeps ==
  ASSUME HeapInv, ScanEnded
  PROVE  HeapInv'
<1>1. call = "free" /\ offset = off /\ off \in Offsets /\ off \in Nat
  BY ScanPlace DEF ScanEnded
<1>2. /\ UNCHANGED <<heap_used, header, live>>
      /\ call' = "none" /\ request' = 0 /\ offset' = 0 /\ prev' = 0 /\ off' = 0
  BY DEF ScanEnded, Return
<1>3. TypeOK'
  <2>1. 0 \in 0 .. HeapSize
    BY HeapAssumption
  <2> QED
    BY <1>2, <2>1 DEF HeapInv, TypeOK, Offsets, Block
<1>4. Tiled' /\ Accounted'
  BY <1>2 DEF HeapInv, Tiled, Accounted, Offsets, Successor
<1>5. WalkOK'
  BY <1>2 DEF WalkOK
<1>6. NoAdjacentFree'
  <2> SUFFICES ASSUME NEW b \in Offsets, header[b].free, header[b].next # 0,
                      header[header[b].next].free
               PROVE  FALSE
    BY <1>2 DEF NoAdjacentFree, Offsets
  <2>1. header[b].next = off /\ off <= b
    BY <1>1 DEF HeapInv, NoAdjacentFree
  <2>2. /\ b \in Nat /\ header[b].size \in Nat /\ header[b].size >= 24
        /\ off = b + header[b].size
    BY <2>1, Blocks, BlockEnds
  <2> QED
    BY <2>1, <2>2
<1> QED
  BY <1>3, <1>4, <1>5, <1>6 DEF HeapInv

-----------------------------------------------------------------------------
(* Every step keeps the invariant.                                         *)
LEMMA HeapNext == HeapInv /\ [Next]_vars => HeapInv'
<1> SUFFICES ASSUME HeapInv, [Next]_vars PROVE HeapInv'
  OBVIOUS
<1>1. CASE Internal
  BY <1>1, TakeWholeKeeps, TakeSplitKeeps, SkipKeeps, RefuseKeeps, ExpandKeeps, MergeKeeps,
     ScanOnKeeps, ScanEndedKeeps DEF Internal
<1>2. CASE HeapInit
  <2>1. Init'
    BY <1>2 DEF HeapInit, Init, Idle, HeapInv, WalkOK
  <2>2. (Init => HeapInv)'
    BY FreshHeap, PTL
  <2> QED
    BY <2>1, <2>2
<1>3. CASE UNCHANGED vars
  BY <1>3 DEF vars, HeapInv, TypeOK, Tiled, Accounted, WalkOK, NoAdjacentFree, Offsets, Block,
              Successor, Fits, size
<1> QED
  BY <1>1, <1>2, <1>3, MallocKeeps, FreeKeeps DEF Next

(* Headers are well-formed, blocks tile the heap, the client holds exactly *)
(* the used blocks, and free blocks are coalesced, in every state.         *)
THEOREM HeapCorrect == Spec => []HeapInv
BY FreshHeap, HeapNext, PTL DEF Spec

(* The heap's state and a call's locals stay what they are meant to be: a  *)
(* walk is at a block or at the end of the list, never between blocks.     *)
THEOREM HeapTypeCorrect == Spec => []TypeOK
<1>1. HeapInv => TypeOK
  BY DEF HeapInv
<1> QED
  BY <1>1, HeapCorrect, PTL

(* Every block ends where the next begins, the last at the break.          *)
THEOREM HeapTiled == Spec => []Tiled
<1>1. HeapInv => Tiled
  BY DEF HeapInv
<1> QED
  BY <1>1, HeapCorrect, PTL

(* The client holds exactly the blocks that are not free.                  *)
THEOREM HeapAccounted == Spec => []Accounted
<1>1. HeapInv => Accounted
  BY DEF HeapInv
<1> QED
  BY <1>1, HeapCorrect, PTL

(* Between calls no two neighbours are both free.                         *)
THEOREM HeapCoalesced == Spec => []NoAdjacentFree
<1>1. HeapInv => NoAdjacentFree
  BY DEF HeapInv
<1> QED
  BY <1>1, HeapCorrect, PTL

-----------------------------------------------------------------------------
(* What the four returns of malloc grant.                                  *)
LEMMA Granting ==
  ASSUME HeapInv, NEW p, p \notin DOMAIN live, Grant(p)
  PROVE  DOMAIN live' = DOMAIN live \union {p} /\ DOMAIN live' \ DOMAIN live = {p}
<1>1. DOMAIN live' = DOMAIN live \union {p}
  BY DEF Grant
<1> QED
  BY <1>1

(* Fits is what it says, since no sum wraps.                               *)
LEMMA FitsExactly ==
  ASSUME HeapInv, call = "malloc", NEW o \in Offsets
  PROVE  Fits(o) <=> o \in Fitting
BY RequestSizes DEF Fits, Fitting

(* An address the client does not hold: a free block's, or the break's.    *)
LEMMA NotHeld ==
  ASSUME HeapInv
  PROVE  /\ \A o \in Offsets : header[o].free => o + HEADER \notin DOMAIN live
         /\ heap_used + HEADER \notin DOMAIN live
<1>1. \A p \in DOMAIN live : \E o \in Offsets : p = o + HEADER /\ ~header[o].free
  BY DEF HeapInv, Accounted
<1>2. \A o \in Offsets : o \in Nat /\ o < heap_used
  BY Blocks, BlockEnds
<1>3. heap_used \in Nat
  BY Blocks
<1>4. ASSUME NEW o \in Offsets, header[o].free, o + HEADER \in DOMAIN live
      PROVE  FALSE
  <2>1. PICK b \in Offsets : o + HEADER = b + HEADER /\ ~header[b].free
    BY <1>1, <1>4
  <2>2. o = b
    BY <1>2, <2>1 DEF HEADER
  <2> QED
    BY <1>4, <2>1, <2>2
<1>5. ASSUME heap_used + HEADER \in DOMAIN live
      PROVE  FALSE
  <2>1. PICK b \in Offsets : heap_used + HEADER = b + HEADER
    BY <1>1, <1>5
  <2> QED
    BY <1>2, <1>3, <2>1 DEF HEADER
<1> QED
  BY <1>4, <1>5

(* A search that stops at a block stops at the lowest that fits; one that  *)
(* runs off the list has found that none does.                             *)
LEMMA SearchResult ==
  ASSUME HeapInv, call = "malloc"
  PROVE  /\ AtBlock => offset \in Offsets /\ \A o \in Fitting : offset <= o
         /\ SearchEnded => Fitting = {}
<1>1. /\ offset \in Offsets \/ offset = 0 \/ (offset = HEADER /\ heap_used = HEADER)
      /\ \A o \in Offsets : (offset = 0 \/ o < offset) => ~Fits(o)
  BY DEF HeapInv, WalkOK
<1>2. \A o \in Fitting : o \in Offsets /\ Fits(o)
  BY FitsExactly DEF Fitting
<1>3. /\ heap_used \in Nat
      /\ \A o \in Offsets : o \in Nat /\ HEADER <= o
      /\ Offsets = {} <=> heap_used = HEADER
  BY Blocks
<1>4. \A o \in Offsets : o < heap_used
  BY BlockEnds
<1>5. ASSUME AtBlock
      PROVE  offset \in Offsets /\ \A o \in Fitting : offset <= o
  <2>1. offset \in Offsets
    BY <1>1, <1>5 DEF AtBlock, HEADER
  <2> QED
    BY <1>1, <1>2, <1>3, <2>1
<1>6. ASSUME SearchEnded
      PROVE  Fitting = {}
  <2>1. offset = 0 \/ Offsets = {}
    <3>1. offset \in Offsets => FALSE
      <4> SUFFICES ASSUME offset \in Offsets PROVE AtBlock
        BY <1>6 DEF SearchEnded
      <4>1. offset \in Nat /\ HEADER <= offset /\ offset < heap_used
        BY <1>3, <1>4
      <4> QED
        BY <4>1 DEF AtBlock, HEADER
    <3> QED
      BY <1>1, <1>3, <3>1
  <2> QED
    BY <1>1, <1>2, <2>1
<1> QED
  BY <1>5, <1>6

(* What malloc returns, step by step.                                      *)
LEMMA FirstFitStep == HeapInv /\ [Next]_vars => [ReturnsFirstFit]_vars
<1> SUFFICES ASSUME HeapInv, Next, call = "malloc", call' = "none"
             PROVE  LET granted == DOMAIN live' \ DOMAIN live
                    IN  IF Fitting # {}
                        THEN \E o \in Fitting : granted = {o + HEADER} /\ \A b \in Fitting : o <= b
                        ELSE granted = IF heap_used + size + HEADER <= HeapSize
                                       THEN {heap_used + HEADER} ELSE {}
  BY DEF ReturnsFirstFit
<1> DEFINE granted == DOMAIN live' \ DOMAIN live
<1>1. CASE TakeWhole \/ TakeSplit
  <2>1. AtBlock /\ Fits(offset) /\ Grant(offset + HEADER)
    BY <1>1 DEF TakeWhole, TakeSplit
  <2>2. offset \in Offsets /\ \A o \in Fitting : offset <= o
    BY <2>1, SearchResult
  <2>3. offset \in Fitting
    BY <2>1, <2>2, FitsExactly
  <2>4. granted = {offset + HEADER}
    BY <2>1, <2>2, NotHeld, Granting DEF Fits
  <2> QED
    BY <2>2, <2>3, <2>4
<1>2. CASE Refuse \/ Expand
  <2>1. SearchEnded
    BY <1>2 DEF Refuse, Expand
  <2>2. Fitting = {}
    BY <2>1, SearchResult
  <2>3. NoRoom <=> ~(heap_used + size + HEADER <= HeapSize)
    BY RequestSizes, Blocks DEF NoRoom, HEADER
  <2>4. Refuse => granted = {} /\ NoRoom
    BY DEF Refuse
  <2>5. Expand => granted = {heap_used + HEADER} /\ ~NoRoom
    BY NotHeld, Granting DEF Expand
  <2> QED
    BY <1>2, <2>2, <2>3, <2>4, <2>5
<1>3. Next => TakeWhole \/ TakeSplit \/ Refuse \/ Expand
  BY DEF Next, Internal, Malloc, Free, HeapInit, Skip, Merge, ScanOn, ScanEnded, Scanning, Return
<1> QED
  BY <1>1, <1>2, <1>3

(* Every return of malloc is the one first fit makes.                      *)
THEOREM HeapFirstFit == Spec => FirstFit
BY HeapCorrect, FirstFitStep, PTL DEF FirstFit, Spec

(* What the client holds lies in used blocks, block by block.              *)
LEMMA HeldInBlocks ==
  ASSUME HeapInv, NEW q \in DOMAIN live
  PROVE  \E b \in Offsets : /\ q = b + HEADER /\ ~header[b].free
                            /\ live[q] \in Nat /\ q + live[q] <= b + header[b].size
<1>1. PICK b \in Offsets : q = b + HEADER /\ ~header[b].free
  BY DEF HeapInv, Accounted
<1>2. live[q] + HEADER <= header[b].size
  BY <1>1 DEF HeapInv, Accounted
<1>3. live[q] \in Nat
  BY HeapAssumption DEF HeapInv, TypeOK
<1>4. b \in Nat /\ header[b].size \in Nat
  BY Blocks
<1>5. \A n \in Nat, m \in Nat : n + HEADER <= m => (b + HEADER) + n <= b + m
  BY <1>4 DEF HEADER
<1> QED
  BY <1>1, <1>2, <1>3, <1>4, <1>5

(* A grant inside a free block, or in new space at the break, is one the   *)
(* abstract allocator makes.                                               *)
LEMMA GrantAllocates ==
  ASSUME HeapInv, call = "malloc", NEW o \in Nat, Grant(o + HEADER), o % 8 = 0,
         o + HEADER + size <= HeapSize,
         \A b \in Offsets : ~header[b].free =>
             b + header[b].size <= o \/ o + HEADER + size <= b
  PROVE  \E p \in 1 .. HeapSize, n \in Requests : Client!Alloc(p, n)
<1> DEFINE p == o + HEADER
<1>1. request \in Nat \ {0} /\ size \in Nat /\ request <= size
  BY RequestSizes
<1>2. request \in Requests /\ HeapSize \in Nat
  BY <1>1, HeapAssumption DEF HeapInv, TypeOK, WalkOK
<1>3. p \in 1 .. HeapSize /\ p % 8 = 0
  <2>1. \A m \in Nat : m % 8 = 0 => (m + 16) % 8 = 0
    OBVIOUS
  <2> QED
    BY <1>1, <1>2, <2>1 DEF HEADER
<1>4. Client!Region(p, request) \subseteq 0 .. HeapSize - 1
  BY <1>1, <1>2 DEF Client!Region, HEADER
<1>5. ASSUME NEW q \in DOMAIN live
      PROVE  Client!Region(p, request) \intersect Client!Region(q, live[q]) = {}
  <2>1. PICK b \in Offsets : /\ q = b + HEADER /\ ~header[b].free
                             /\ live[q] \in Nat /\ q + live[q] <= b + header[b].size
    BY HeldInBlocks
  <2>2. b \in Nat /\ header[b].size \in Nat
    BY Blocks
  <2>3. b + header[b].size <= o \/ o + HEADER + size <= b
    BY <2>1
  <2>4. q + live[q] <= p \/ p + request <= q
    BY <1>1, <2>1, <2>2, <2>3 DEF HEADER
  <2>5. p \in Int /\ q \in Int
    BY <2>1, <2>2 DEF HEADER
  <2> HIDE DEF p
  <2> QED
    BY <1>1, <2>1, <2>4, <2>5 DEF Client!Region
<1>6. live' = [q \in DOMAIN live \union {p} |-> IF q = p THEN request ELSE live[q]]
  BY DEF Grant
<1>7. Client!Alloc(p, request)
  BY <1>3, <1>4, <1>5, <1>6 DEF Client!Alloc
<1> QED
  BY <1>2, <1>3, <1>7

(* Each step of the heap is one of the allocator, or invisible to it.      *)
LEMMA HeapStepAllocates == HeapInv /\ [Next]_vars => [Client!Next]_live
<1> SUFFICES ASSUME HeapInv, Next PROVE [Client!Next]_live
  BY DEF vars
<1>1. CASE TakeWhole \/ TakeSplit
  <2>1. AtBlock /\ Fits(offset) /\ Grant(offset + HEADER) /\ call = "malloc"
    BY <1>1 DEF TakeWhole, TakeSplit, AtBlock
  <2>2. offset \in Offsets
    BY <2>1, SearchResult
  <2>3. /\ offset \in Nat /\ offset % 8 = 0 /\ header[offset].size \in Nat
        /\ offset + header[offset].size <= heap_used /\ heap_used <= HeapSize
        /\ heap_used \in Nat /\ HeapSize \in Nat
    BY <2>2, Blocks
  <2>4. header[offset].size >= size + HEADER /\ size \in Nat /\ header[offset].free
    BY <2>1, RequestSizes DEF Fits
  <2>5. offset + HEADER + size <= HeapSize
        /\ offset + HEADER + size <= offset + header[offset].size
    BY <2>3, <2>4 DEF HEADER
  <2>6. ASSUME NEW b \in Offsets, ~header[b].free
        PROVE  b + header[b].size <= offset \/ offset + HEADER + size <= b
    <3>1. b # offset
      BY <2>4, <2>6
    <3>2. /\ b \in Nat /\ header[b].size \in Nat
          /\ b < offset => b + header[b].size <= offset
          /\ offset < b => offset + header[offset].size <= b
      BY <2>2, Blocks
    <3> QED
      BY <2>3, <2>4, <2>5, <3>1, <3>2 DEF HEADER
  <2> QED
    BY <2>1, <2>3, <2>5, <2>6, GrantAllocates DEF Client!Next
<1>2. CASE Expand
  <2>1. Grant(heap_used + HEADER) /\ call = "malloc" /\ ~NoRoom
    BY <1>2 DEF Expand, SearchEnded
  <2>2. heap_used \in Nat /\ heap_used % 8 = 0 /\ HeapSize \in Nat
    BY Blocks
  <2>3. heap_used + HEADER + size <= HeapSize
    BY <2>1, <2>2, RequestSizes DEF NoRoom, HEADER
  <2>4. \A b \in Offsets : b + header[b].size <= heap_used
    BY Blocks
  <2> QED
    BY <2>1, <2>2, <2>3, <2>4, GrantAllocates DEF Client!Next
<1>3. CASE \E q \in DOMAIN live : Free(q)
  BY <1>3 DEF Free, Client!Free, Client!Next
<1>4. CASE HeapInit
  BY <1>4 DEF HeapInit, Client!Reset, Client!Next
<1>5. CASE \E n \in Requests : Malloc(n)
  BY <1>5 DEF Malloc
<1>6. CASE Skip \/ Refuse \/ Merge \/ ScanOn \/ ScanEnded
  BY <1>6 DEF Skip, Refuse, Merge, ScanOn, ScanEnded
<1> QED
  BY <1>1, <1>2, <1>3, <1>4, <1>5, <1>6 DEF Next, Internal

(* The heap implements the allocator: no grant overlaps a live region.     *)
THEOREM HeapAllocates == Spec => Allocates
<1>1. Init => Client!Init
  BY DEF Init, Client!Init
<1> QED
  BY <1>1, HeapCorrect, HeapStepAllocates, PTL DEF Spec, Allocates, Client!Spec

-----------------------------------------------------------------------------
(* The rounds a call has left at most: every walk goes up the heap, and a  *)
(* search that has run off the list is in its last.                        *)
RoundsLeft ==
  IF call = "none" THEN 0
  ELSE IF call = "malloc" /\ offset = 0 THEN 1
  ELSE HeapSize - offset + 2

RoundTaken == call # "none" => RoundsLeft' \in Nat /\ RoundsLeft' < RoundsLeft

(* Measured so, a call has always a round left.                            *)
LEMMA RoundsCounted ==
  ASSUME HeapInv
  PROVE  RoundsLeft \in Nat /\ (call # "none" => RoundsLeft > 0)
<1>1. HeapSize \in Nat /\ offset \in 0 .. HeapSize
  BY HeapAssumption DEF HeapInv, TypeOK
<1> QED
  BY <1>1 DEF RoundsLeft

(* Every step within a call uses one up.                                   *)
LEMMA RoundStep == HeapInv /\ [Next]_vars => [RoundTaken]_vars
<1> SUFFICES ASSUME HeapInv, Next, call # "none"
             PROVE  RoundsLeft' \in Nat /\ RoundsLeft' < RoundsLeft
  BY DEF RoundTaken
<1>1. Internal
  BY DEF Next, Malloc, Free, HeapInit
<1>2. RoundsLeft \in Nat /\ RoundsLeft > 0
  BY RoundsCounted
<1>3. HeapSize \in Nat /\ offset \in Nat /\ offset <= HeapSize
  BY HeapAssumption DEF HeapInv, TypeOK
<1>4. ASSUME NEW o \in Offsets, header[o].next # 0
      PROVE  /\ header[o].next \in Nat /\ header[o].next > o
             /\ header[o].next <= HeapSize /\ header[o].next # 0
  <2>1. /\ o \in Nat /\ header[o].size \in Nat /\ header[o].next = o + header[o].size
        /\ o + header[o].size <= heap_used /\ heap_used <= HeapSize /\ heap_used \in Nat
    BY <1>4, Blocks
  <2>2. header[o].size >= 24
    BY BlockEnds
  <2> QED
    BY <1>3, <1>4, <2>1, <2>2
<1>5. \A h, a, b \in Nat : a < b /\ b <= h => h - b + 2 \in Nat /\ h - b + 2 < h - a + 2
  OBVIOUS
<1>6. CASE call' = "none"
  BY <1>2, <1>6 DEF RoundsLeft
<1>7. CASE Skip
  <2>1. /\ call = "malloc" /\ call' = "malloc" /\ offset # 0
        /\ offset' = header[offset].next
    BY <1>7 DEF Skip, AtBlock
  <2>2. offset \in Offsets
    BY <1>7, SearchAtBlock DEF Skip
  <2>3. RoundsLeft = HeapSize - offset + 2
    BY <2>1 DEF RoundsLeft
  <2>4. CASE offset' = 0
    <3>1. RoundsLeft' = 1
      BY <2>1, <2>4 DEF RoundsLeft
    <3> QED
      BY <1>3, <2>3, <3>1
  <2>5. CASE offset' # 0
    <3>1. RoundsLeft' = HeapSize - offset' + 2
      BY <2>1, <2>5 DEF RoundsLeft
    <3>2. offset' \in Nat /\ offset' > offset /\ offset' <= HeapSize
      BY <1>4, <2>1, <2>2, <2>5
    <3> QED
      BY <1>3, <1>5, <2>3, <3>1, <3>2, Zenon
  <2> QED
    BY <2>4, <2>5
<1>8. CASE ScanOn
  <2>1. /\ call = "free" /\ call' = "free" /\ header[offset].next # 0
        /\ offset' = header[offset].next
    BY <1>8 DEF ScanOn, Scanning
  <2>2. offset \in Offsets
    BY <2>1 DEF HeapInv, WalkOK
  <2>3. offset' \in Nat /\ offset' > offset /\ offset' <= HeapSize
    BY <1>4, <2>1, <2>2
  <2>4. RoundsLeft = HeapSize - offset + 2 /\ RoundsLeft' = HeapSize - offset' + 2
    BY <2>1 DEF RoundsLeft
  <2> QED
    BY <1>3, <1>5, <2>3, <2>4, Zenon
<1> QED
  BY <1>1, <1>6, <1>7, <1>8 DEF Internal, TakeWhole, TakeSplit, Refuse, Expand, Merge, ScanEnded, Return

(* What CallsReturn rests on: each round of mips_malloc and mips_free      *)
(* brings the call nearer its return, in a list of any length.             *)
THEOREM HeapCallsProgress == Spec => [][RoundTaken]_vars
BY HeapCorrect, RoundStep, PTL DEF Spec
=============================================================================
