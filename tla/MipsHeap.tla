------------------------------ MODULE MipsHeap ------------------------------
(***************************************************************************)
(* The free-list allocator of src/src/c/mips_heap.c.  Blocks lie one behind*)
(* the other from offset HEADER on, each behind a header that links it to  *)
(* the next; the break heap_used is where the next new block goes.         *)
(*                                                                         *)
(* malloc and free walk the list, so a call is several steps here, one for *)
(* each round of its loop; `call` says which call is under way, and its    *)
(* locals keep their names (free's `scan` shares the variable `offset`).   *)
(* The client is external: it asks for sizes in Requests, frees only what  *)
(* it holds, and writes only inside the regions it holds.                  *)
(***************************************************************************)
EXTENDS Integers, FiniteSets

CONSTANTS
  HeapSize,     \* MIPS_HEAP_SIZE
  WordRange,    \* 2^32: the range of uint32_t
  Requests      \* the sizes the client asks for

HEADER   == 16
MinSplit == HEADER + 8

(* Requests are such that no 32-bit sum wraps: see the README.             *)
ASSUME HeapAssumption ==
  /\ HeapSize \in Nat /\ HeapSize > HEADER
  /\ WordRange \in Nat
  /\ Requests \subseteq Nat
  /\ \A n \in Requests : HeapSize + n + 7 + HEADER < WordRange

VARIABLES
  heap_used,                  \* the break
  header,                     \* the HeapBlock at each offset that has one
  live,                       \* what the client holds: address -> bytes asked for
  call,                       \* "none", "malloc" or "free": the call under way
  request, offset, prev, off  \* its argument and locals

vars == <<heap_used, header, live, call, request, offset, prev, off>>

Wrap(n) == n % WordRange

Align8(n) == Wrap(n + 7) - (Wrap(n + 7) % 8)

size == Align8(request)

Block(s, n, f) == [size |-> s, next |-> n, free |-> f]

-----------------------------------------------------------------------------
Idle == call = "none" /\ request = 0 /\ offset = 0 /\ prev = 0 /\ off = 0

Return == call' = "none" /\ request' = 0 /\ offset' = 0 /\ prev' = 0 /\ off' = 0

(* mips_heap_init also writes a header at offset 0, which nothing reads.   *)
Init ==
  /\ heap_used = HEADER
  /\ header = << >>
  /\ live = << >>
  /\ Idle

HeapInit ==
  /\ call = "none"
  /\ heap_used' = HEADER
  /\ header' = << >>
  /\ live' = << >>
  /\ UNCHANGED <<call, request, offset, prev, off>>

-----------------------------------------------------------------------------
(* mips_malloc                                                             *)
Malloc(n) ==
  /\ call = "none"
  /\ n # 0
  /\ call' = "malloc"
  /\ request' = n
  /\ offset' = HEADER /\ prev' = 0
  /\ UNCHANGED <<heap_used, header, live, off>>

(* The loop test, and the condition inside.                                *)
AtBlock == call = "malloc" /\ offset # 0 /\ offset < heap_used

(* Mutant of Fits: an exact fit does not count.                            *)
FitsStrictly(o) == header[o].free /\ header[o].size > Wrap(size + HEADER)

Fits(o) == header[o].free /\ header[o].size >= Wrap(size + HEADER)

(* Mutant of Remaining: the header of the allocated part is not taken off. *)
RemainingAndHeader == header[offset].size - size

Remaining == header[offset].size - size - HEADER

Grant(p) ==
  live' = [q \in DOMAIN live \union {p} |-> IF q = p THEN request ELSE live[q]]

(* Mutant of TakeWhole: the block stays marked free.                       *)
TakeWholeStillFree ==
  /\ AtBlock
  /\ Fits(offset)
  /\ Remaining < MinSplit
  /\ Grant(offset + HEADER)
  /\ Return
  /\ UNCHANGED <<heap_used, header>>

TakeWhole ==
  /\ AtBlock
  /\ Fits(offset)
  /\ Remaining < MinSplit
  /\ header' = [header EXCEPT ![offset].free = FALSE]
  /\ Grant(offset + HEADER)
  /\ Return
  /\ UNCHANGED heap_used

TakeSplit ==
  /\ AtBlock
  /\ Fits(offset)
  /\ Remaining >= MinSplit
  /\ LET next_off == offset + HEADER + size
     IN  header' = [o \in DOMAIN header \union {next_off} |->
                      IF o = next_off THEN Block(Remaining, header[offset].next, TRUE)
                      ELSE IF o = offset THEN Block(size + HEADER, next_off, FALSE)
                      ELSE header[o]]
  /\ Grant(offset + HEADER)
  /\ Return
  /\ UNCHANGED heap_used

(* offset becomes 0 at the end of the list and ends the loop.              *)
Skip ==
  /\ AtBlock
  /\ ~Fits(offset)
  /\ prev' = offset
  /\ offset' = header[offset].next
  /\ UNCHANGED <<heap_used, header, live, call, request, off>>

SearchEnded == call = "malloc" /\ ~AtBlock

NoRoom == Wrap(heap_used + size + HEADER) > HeapSize

Refuse ==
  /\ SearchEnded
  /\ NoRoom
  /\ Return
  /\ UNCHANGED <<heap_used, header, live>>

Expand ==
  /\ SearchEnded
  /\ ~NoRoom
  /\ header' = [o \in DOMAIN header \union {heap_used} |->
                  IF o = heap_used THEN Block(Wrap(size + HEADER), 0, FALSE)
                  ELSE IF o = prev THEN [header[o] EXCEPT !.next = heap_used]
                  ELSE header[o]]
  /\ Grant(heap_used + HEADER)
  /\ heap_used' = Wrap(heap_used + size + HEADER)
  /\ Return

-----------------------------------------------------------------------------
(* mips_free.  The first step marks the block and takes in its successor;  *)
(* the scan for the predecessor starts at the first block.                 *)
(* Mutant of NextIsFree: free never takes in the successor.                *)
NextIsFreeIgnored(o) == FALSE

NextIsFree(o) ==
  /\ header[o].next > 0 /\ header[o].next < HeapSize
  /\ header[header[o].next].free

Free(p) ==
  /\ call = "none"
  /\ p \in DOMAIN live
  /\ live' = [q \in DOMAIN live \ {p} |-> live[q]]
  /\ off' = p - HEADER
  /\ LET o   == p - HEADER
         nxt == header[o].next
     IN  header' =
           IF NextIsFree(o)
           THEN [b \in DOMAIN header \ {nxt} |->
                   IF b = o THEN Block(header[o].size + header[nxt].size, header[nxt].next, TRUE)
                   ELSE header[b]]
           ELSE [header EXCEPT ![o].free = TRUE]
  /\ call' = "free"
  /\ offset' = HEADER
  /\ UNCHANGED <<heap_used, request, prev>>

Scanning == call = "free" /\ offset < off

Successor(o) == IF header[o].next # 0 THEN header[o].next ELSE heap_used

MergeHere == Successor(offset) = off /\ header[offset].free

(* Mutants of Merge: the link, or the size, of the freed block is lost.    *)
MergeKeepsLink ==
  /\ Scanning
  /\ MergeHere
  /\ header' = [b \in DOMAIN header \ {off} |->
                  IF b = offset
                  THEN [header[b] EXCEPT !.size = @ + header[off].size]
                  ELSE header[b]]
  /\ Return
  /\ UNCHANGED <<heap_used, live>>

MergeKeepsSize ==
  /\ Scanning
  /\ MergeHere
  /\ header' = [b \in DOMAIN header \ {off} |->
                  IF b = offset THEN [header[b] EXCEPT !.next = header[off].next]
                  ELSE header[b]]
  /\ Return
  /\ UNCHANGED <<heap_used, live>>

Merge ==
  /\ Scanning
  /\ MergeHere
  /\ header' = [b \in DOMAIN header \ {off} |->
                  IF b = offset
                  THEN Block(header[b].size + header[off].size, header[off].next, TRUE)
                  ELSE header[b]]
  /\ Return
  /\ UNCHANGED <<heap_used, live>>

(* Mutant of ScanOn: the scan does not move.                               *)
ScanOnStays == Scanning /\ ~MergeHere /\ header[offset].next # 0 /\ UNCHANGED vars

ScanOn ==
  /\ Scanning
  /\ ~MergeHere
  /\ header[offset].next # 0
  /\ offset' = header[offset].next
  /\ UNCHANGED <<heap_used, header, live, call, request, prev, off>>

ScanEnded ==
  /\ call = "free"
  /\ \/ ~(offset < off)
     \/ ~MergeHere /\ header[offset].next = 0
  /\ Return
  /\ UNCHANGED <<heap_used, header, live>>

-----------------------------------------------------------------------------
Internal ==
  \/ TakeWhole
  \/ TakeSplit
  \/ Skip
  \/ Refuse
  \/ Expand
  \/ Merge
  \/ ScanOn
  \/ ScanEnded

Next ==
  \/ \E n \in Requests : Malloc(n)
  \/ \E p \in DOMAIN live : Free(p)
  \/ HeapInit
  \/ Internal

Spec == Init /\ [][Next]_vars

(* A call runs in the caller's thread until it returns.                    *)
FairSpec == Spec /\ WF_vars(Internal)

-----------------------------------------------------------------------------
(* The inductive invariant, part by part.                                  *)
Offsets == DOMAIN header

(* Headers are well-formed and the calls' locals are offsets.              *)
TypeOK ==
  /\ heap_used \in HEADER .. HeapSize
  /\ Offsets \subseteq HEADER .. HeapSize
  /\ \A o \in Offsets :
       /\ header[o] = Block(header[o].size, header[o].next, header[o].free)
       /\ header[o].size \in MinSplit .. HeapSize
       /\ header[o].next \in Offsets \union {0}
       /\ header[o].free \in BOOLEAN
  /\ \A p \in DOMAIN live : live[p] \in Requests
  /\ call \in {"none", "malloc", "free"}
  /\ request \in Requests \union {0}
  /\ offset \in 0 .. HeapSize /\ prev \in Offsets \union {0} /\ off \in 0 .. HeapSize

(* Blocks are aligned and leave no gap: each ends where the next in the    *)
(* list begins, the last one at the break, and the first is where every    *)
(* walk begins.                                                            *)
Tiled ==
  /\ heap_used % 8 = 0
  /\ IF heap_used = HEADER THEN Offsets = {} ELSE HEADER \in Offsets
  /\ \A o \in Offsets :
       /\ o % 8 = 0 /\ header[o].size % 8 = 0
       /\ o + header[o].size = Successor(o)
       /\ o + header[o].size <= heap_used
  /\ \A o, p \in Offsets : o < p => o + header[o].size <= p

(* The client holds exactly the used blocks, each large enough for what it *)
(* asked for: nothing held is free, nothing used is lost.                  *)
Accounted ==
  /\ DOMAIN live = {o + HEADER : o \in {b \in Offsets : ~header[b].free}}
  /\ \A o \in Offsets : ~header[o].free => live[o + HEADER] + HEADER <= header[o].size

(* The loops are where they think they are: every block behind the search  *)
(* was too small or used, every block behind the scan ends before off.     *)
WalkOK ==
  /\ call = "none" => request = 0 /\ offset = 0 /\ prev = 0 /\ off = 0
  /\ call = "malloc" =>
       /\ off = 0 /\ request # 0
       /\ offset \in Offsets \/ offset = 0 \/ (offset = HEADER /\ heap_used = HEADER)
       /\ \A o \in Offsets : (offset = 0 \/ o < offset) => ~Fits(o)
       /\ IF offset = HEADER THEN prev = 0
          ELSE prev # 0 /\ header[prev].next = offset
  /\ call = "free" =>
       /\ request = 0 /\ prev = 0
       /\ off \in Offsets /\ header[off].free
       /\ offset \in Offsets /\ offset <= off

(* No two neighbouring blocks are free between calls; during free only the *)
(* freed block and its predecessor may be, and only until the scan passes. *)
NoAdjacentFree ==
  \A o \in Offsets :
    header[o].free /\ header[o].next # 0 /\ header[header[o].next].free =>
      call = "free" /\ header[o].next = off /\ offset <= o

HeapInv == TypeOK /\ Tiled /\ Accounted /\ WalkOK /\ NoAdjacentFree

-----------------------------------------------------------------------------
(* malloc is first fit over the whole list: it takes the lowest free block *)
(* that is large enough, goes to the break only when there is none, and    *)
(* returns 0 only when the break cannot move either.                       *)
Fitting == {o \in Offsets : header[o].free /\ header[o].size >= size + HEADER}

ReturnsFirstFit ==
  call = "malloc" /\ call' = "none" =>
    LET granted == DOMAIN live' \ DOMAIN live
    IN  IF Fitting # {}
        THEN \E o \in Fitting : granted = {o + HEADER} /\ \A b \in Fitting : o <= b
        ELSE granted = IF heap_used + size + HEADER <= HeapSize
                       THEN {heap_used + HEADER} ELSE {}

FirstFit == [][ReturnsFirstFit]_vars

(* The heap is an allocator: it never hands out overlapping regions.       *)
Client == INSTANCE Allocator WITH Pool <- HeapSize, Alignment <- 8

Allocates == Client!Spec

(* Every call returns: the list has no cycle.                              *)
CallsReturn == call # "none" ~> call = "none"
=============================================================================
