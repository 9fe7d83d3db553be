---------------------------- MODULE ByteMemory ----------------------------
(***************************************************************************)
(* What the load and store instructions promise: a flat little-endian byte *)
(* memory.  A store writes the low n bytes of a register at an address     *)
(* that is a multiple of n and leaves every other byte alone; a load reads *)
(* n bytes back as one number.                                             *)
(***************************************************************************)
EXTENDS Integers

CONSTANTS Size, Base, Regs

VARIABLES mem, regs

Addresses == 0 .. Size - 1

ByteOf(w, k) == (w \div Base ^ k) % Base

(* The number held by the n bytes from address a on.                       *)
Value(a, n) ==
  LET sum[k \in 0 .. n] == IF k = 0 THEN 0 ELSE sum[k - 1] + mem[a + k - 1] * Base ^ (k - 1)
  IN  sum[n]

Init == mem = [a \in Addresses |-> 0]

Store(r, a, n) ==
  /\ a % n = 0
  /\ mem' = [x \in Addresses |->
               IF x \in a .. a + n - 1 THEN ByteOf(regs[r], x - a) ELSE mem[x]]

Clear == mem' = [a \in Addresses |-> 0]

Next ==
  \/ \E r \in Regs, a \in Addresses, n \in {1, 2, 4} : Store(r, a, n)
  \/ Clear

Spec == Init /\ [][Next]_mem
=============================================================================
