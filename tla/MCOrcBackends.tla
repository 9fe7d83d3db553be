--------------------------- MODULE MCOrcBackends ---------------------------
(***************************************************************************)
(* The constants of MCMipsOrc: two notifications suffice for a scan.       *)
(***************************************************************************)
EXTENDS OrcBackends

MCStrings == {0, 8}
=============================================================================
