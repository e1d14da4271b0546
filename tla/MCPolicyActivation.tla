-------------------------- MODULE MCPolicyActivation --------------------------
(* Two bundles of one policy, two environments and three commands: a promotion *)
(* through both, a replacement, a rollback.                                    *)
EXTENDS PolicyActivation

CONSTANTS b1, b2, policy
OnePolicy == [b \in {b1, b2} |-> policy]
=============================================================================
