----------------------------- MODULE MCFinality -----------------------------
(***************************************************************************)
(* Small instances of Finality.  Liveness is checked, so nothing is taken  *)
(* as symmetric.                                                           *)
(***************************************************************************)
EXTENDS Finality, TLC

=============================================================================
