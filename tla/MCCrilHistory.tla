---------------------------- MODULE MCCrilHistory ----------------------------
(***************************************************************************)
(* The programs of MCCril for CrilHistory.                                 *)
(***************************************************************************)
EXTENDS MCCril, CrilHistory

=============================================================================
