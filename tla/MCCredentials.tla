---------------------------- MODULE MCCredentials ----------------------------
(* Two credentials of one agent and task, two uses each, two connections.     *)
EXTENDS Credentials, TLC

Symmetry == Permutations(Sessions) \cup Permutations(Handles) \cup Permutations(UseKeys)
=============================================================================
