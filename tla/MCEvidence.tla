----------------------------- MODULE MCEvidence -----------------------------
(* One execution, one decision, one alert, two workers; see README for the   *)
(* bounds.                                                                    *)
EXTENDS EvidenceDelivery

\* The chain of a task whose policy has been evaluated.
GivenEvents == <<"TASK_CREATED", "PLAN_GENERATED", "POLICY_EVALUATED", "CREDENTIAL_ISSUED">>
=============================================================================
