----------------------------- MODULE MCApproval -----------------------------
(* One case, three eligible approvers and one who is not, two connections.   *)
(* The grant is asked for, consumed and revoked under two keys each; an      *)
(* approver decides under one.                                               *)
EXTENDS Approval, TLC

CONSTANT k1

MCRequests ==
    {r \in RequestTypes :
       r.op = "decide" => r.key = k1 /\ (r.who \in Eligible \/ r.body = "APPROVE")}

Symmetry == Permutations(Sessions) \cup Permutations(Eligible)
=============================================================================
