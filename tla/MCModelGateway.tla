---------------------------- MODULE MCModelGateway ----------------------------
(* Two callers and three keys, two of which the budget can hold at a time: a   *)
(* recovery round can find two expired requests, and the limit is reached.     *)
EXTENDS ModelGateway
=============================================================================
