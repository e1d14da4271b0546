---------------------------- MODULE EffectOnce ----------------------------
(***************************************************************************)
(* What the tool proxy promises about one idempotency key, with nothing    *)
(* said of calls, leases, instances or recovery: the target sees the       *)
(* operation at most once; the verdict is final; SUCCEEDED is given only   *)
(* to a performed operation; FAILED only where nothing was or will be      *)
(* sent; UNKNOWN at any time, and an operation still on its way may land   *)
(* after it.                                                               *)
(***************************************************************************)
EXTENDS Identifiers

VARIABLES
    effect,   \* what the target knows of the key's operation
    verdict   \* what the proxy says of it

effectVars == <<effect, verdict>>

Init ==
    /\ effect = [k \in Keys |-> "none"]
    /\ verdict = [k \in Keys |-> "open"]

Dispatch(k) ==
    /\ effect[k] = "none" /\ verdict[k] \in {"open", "UNKNOWN"}
    /\ effect' = [effect EXCEPT ![k] = "sent"]
    /\ UNCHANGED verdict

Settle(k) ==
    /\ effect[k] = "sent"
    /\ \E outcome \in {"performed", "lost"} : effect' = [effect EXCEPT ![k] = outcome]
    /\ UNCHANGED verdict

Succeed(k) ==
    /\ verdict[k] = "open" /\ effect[k] = "performed"
    /\ verdict' = [verdict EXCEPT ![k] = "SUCCEEDED"]
    /\ UNCHANGED effect

Reject(k) ==
    /\ verdict[k] = "open" /\ effect[k] = "none"
    /\ verdict' = [verdict EXCEPT ![k] = "FAILED"]
    /\ UNCHANGED effect

GiveUp(k) ==
    /\ verdict[k] = "open"
    /\ verdict' = [verdict EXCEPT ![k] = "UNKNOWN"]
    /\ UNCHANGED effect

Next == \E k \in Keys :
    Dispatch(k) \/ Settle(k) \/ Succeed(k) \/ Reject(k) \/ GiveUp(k)

Spec == Init /\ [][Next]_effectVars
=============================================================================
