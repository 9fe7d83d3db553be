----------------------------- MODULE MCHeapSbrk -----------------------------
(* Two equal requests with one sbrk between them are enough.               *)
EXTENDS HeapSbrk

MCRequests   == {8}
MCIncrements == {8}
=============================================================================
