----------------------------- MODULE MCMipsOrc -----------------------------
(***************************************************************************)
(* Four slots and two strings: a string freed and tracked again has a dead *)
(* entry and a live one, the table fills, and scans come at every second   *)
(* notification, between any two calls of ARC.                             *)
(***************************************************************************)
EXTENDS MipsOrc

MCStrings == {0, 8}
=============================================================================
