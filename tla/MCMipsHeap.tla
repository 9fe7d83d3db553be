----------------------------- MODULE MCMipsHeap -----------------------------
(***************************************************************************)
(* A heap of five minimal blocks and requests of one, two and three units of*)
(* eight bytes, one of them unaligned: whole fits, splits, refusals and    *)
(* coalescing on either side all occur.                                    *)
(***************************************************************************)
EXTENDS MipsHeap

MCRequests == {0, 8, 9, 24, 48}
=============================================================================
