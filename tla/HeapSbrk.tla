------------------------------ MODULE HeapSbrk ------------------------------
(***************************************************************************)
(* The allocator and the sbrk system call move the same break: mips_malloc *)
(* takes new blocks from vm->heap_used, and so does the interpreter when   *)
(* the program asks for system call 5.  Here both are used on one machine, *)
(* the program asking for memory only once there is a block: before that,  *)
(* malloc would read the program's bytes as a header.                      *)
(***************************************************************************)
EXTENDS MipsHeap

CONSTANT Increments     \* what the program passes to sbrk

Sbrk(a0) ==
  /\ call = "none"
  /\ Offsets # {}
  /\ Wrap(heap_used + a0) <= HeapSize
  /\ heap_used' = Wrap(heap_used + a0)
  /\ UNCHANGED <<header, live, call, request, offset, prev, off>>

NextWithSbrk == Next \/ \E a0 \in Increments : Sbrk(a0)

SpecWithSbrk == Init /\ [][NextWithSbrk]_vars

(* src/src/c/mips_heap.c:9, "Adjacent free blocks are coalesced": a block  *)
(* that disappears into its predecessor began where that predecessor ended.*)
CoalescedWereAdjacent ==
  [][ call # "none" \/ call' # "none" =>
        \A o \in Offsets \ DOMAIN header', p \in Offsets :
          header[p].next = o => p + header[p].size = o ]_vars
=============================================================================
