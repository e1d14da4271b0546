------------------------------ MODULE MCLedger ------------------------------
(* Model-checking instance of LedgerSystem. *)
EXTENDS LedgerSystem, TLC

Symmetry == Permutations(ExecIds)
=============================================================================
