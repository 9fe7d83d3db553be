----------------------------- MODULE Allocator -----------------------------
(***************************************************************************)
(* What a heap promises its client: a granted region is aligned, lies in   *)
(* the pool and overlaps no region that is still live; a request may be    *)
(* refused; nothing but free and a reset takes a region back.              *)
(***************************************************************************)
EXTENDS Integers

CONSTANTS Pool, Alignment, Requests

VARIABLE live      \* the regions the client holds: address -> bytes asked for

Region(p, n) == p .. p + n - 1

Alloc(p, n) ==
  /\ p % Alignment = 0
  /\ Region(p, n) \subseteq 0 .. Pool - 1
  /\ \A q \in DOMAIN live : Region(p, n) \intersect Region(q, live[q]) = {}
  /\ live' = [q \in DOMAIN live \union {p} |-> IF q = p THEN n ELSE live[q]]

Free(p) == live' = [q \in DOMAIN live \ {p} |-> live[q]]

Reset == live' = << >>

Init == live = << >>

Next ==
  \/ \E p \in 1 .. Pool, n \in Requests : Alloc(p, n)
  \/ \E p \in DOMAIN live : Free(p)
  \/ Reset

Spec == Init /\ [][Next]_live
=============================================================================
