----------------------------- MODULE RefCounts -----------------------------
(***************************************************************************)
(* What reference counting promises: a handle counts the references to one *)
(* string, one call changes one count by one, a string has one handle at a *)
(* time, and a handle whose count has reached zero stays dead.             *)
(***************************************************************************)
EXTENDS Integers

CONSTANTS Handles, Strings

VARIABLES
  count,      \* the references through each handle handed out so far
  string      \* the string each of them stands for

Live(h) == h \in DOMAIN count /\ count[h] > 0

New(h, s) ==
  /\ h \notin DOMAIN count
  /\ \A g \in DOMAIN count : Live(g) => string[g] # s
  /\ count' = [g \in DOMAIN count \union {h} |-> IF g = h THEN 1 ELSE count[g]]
  /\ string' = [g \in DOMAIN count \union {h} |-> IF g = h THEN s ELSE string[g]]

Reference(h) ==
  /\ Live(h)
  /\ count' = [count EXCEPT ![h] = @ + 1]
  /\ UNCHANGED string

Drop(h) ==
  /\ Live(h)
  /\ count' = [count EXCEPT ![h] = @ - 1]
  /\ UNCHANGED string

Init == count = << >> /\ string = << >>

Next ==
  \/ \E h \in Handles, s \in Strings : New(h, s)
  \/ \E h \in Handles : Reference(h)
  \/ \E h \in Handles : Drop(h)

Spec == Init /\ [][Next]_<<count, string>>
=============================================================================
