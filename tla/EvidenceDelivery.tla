-------------------------- MODULE EvidenceDelivery --------------------------
(***************************************************************************)
(* The delivery of approval decisions to the evidence chain: the outbox    *)
(* rows decide() writes with each decision, the workers that lease them,   *)
(* publish them and settle the row (enterprise-approval/src/postgres.rs    *)
(* and evidence_delivery.rs), composed with the chain that receives them   *)
(* and with the lifecycle events of the same task.                         *)
(*                                                                         *)
(* Workers crash, stall past their lease and lose requests and answers;    *)
(* MaxFaults bounds how often.  Back-off and batch size only delay a       *)
(* claim, and a claim has no deadline here.                                *)
(***************************************************************************)
EXTENDS EvidenceChain

CONSTANTS
    Workers,    \* approval service processes, each with its delivery loop
    MaxFaults   \* crashes, stalls, losses, aborted transactions, failed executions

ASSUME DeliveryAssumption == MaxFaults \in Nat /\ NoOne \notin Workers

VARIABLES
    outbox,   \* approval_decision_evidence_outbox: the row of each decision
    worker,   \* what each worker is doing
    net,      \* decisions whose request is on its way to the evidence service
    faults    \* faults so far

deliveryVars == <<outbox, worker, net, faults>>
vars == <<chainVars, deliveryVars>>

Idle == [pc |-> "idle", item |-> NoOne]

Init ==
    /\ ChainInit
    /\ outbox = [d \in Decisions |->
                   [state |-> "undecided", owner |-> NoOne, live |-> FALSE]]
    /\ worker = [w \in Workers |-> Idle]
    /\ net = {}
    /\ faults = 0

Fault == faults < MaxFaults /\ faults' = faults + 1

-----------------------------------------------------------------------------
(* The task *)

\* The events of the task's own parties, in whatever order they come: the store
\* does not refuse one that is out of order, the evaluation finds it.
PostLifecycle == (\E e \in Posted : AppendBegin(e)) /\ UNCHANGED deliveryVars

\* The execution coordinator records what the tool answered.
PostToolExecuted == (\E x \in Executions : AppendBegin(x)) /\ UNCHANGED deliveryVars

\* The anomaly service publishes an ingested signal.
PostAlert == (\E e \in Alerts : AppendBegin(e)) /\ UNCHANGED deliveryVars

\* decide(): persist_decision_evidence inserts the row with the decision.
PersistDecisionEvidence(d) ==
    /\ outbox[d].state = "undecided"
    /\ outbox' = [outbox EXCEPT ![d].state = "pending"]
    /\ UNCHANGED <<chainVars, worker, net, faults>>

-----------------------------------------------------------------------------
(* The delivery loop *)

\* Mutant: an expired lease is never taken over.
ClaimUnleased(w, d) ==
    /\ worker[w].pc = "idle"
    /\ outbox[d].state = "pending"
    /\ outbox[d].owner = NoOne
    /\ outbox' = [outbox EXCEPT ![d].owner = w, ![d].live = TRUE]
    /\ worker' = [worker EXCEPT ![w] = [pc |-> "sent", item |-> d]]
    /\ net' = net \cup {d}
    /\ UNCHANGED <<chainVars, faults>>

\* A pending row nobody leases, or whose lease has run out (SKIP LOCKED: one row
\* goes to one worker).  Its request is published as soon as the claim commits.
ClaimDecisionEvidence(w, d) ==
    /\ worker[w].pc = "idle"
    /\ outbox[d].state = "pending"
    /\ ~outbox[d].live
    /\ outbox' = [outbox EXCEPT ![d].owner = w, ![d].live = TRUE]
    /\ worker' = [worker EXCEPT ![w] = [pc |-> "sent", item |-> d]]
    /\ net' = net \cup {d}
    /\ UNCHANGED <<chainVars, faults>>

\* Mutant: no stored receipt is looked for.
ReceiveAnew(d) ==
    /\ d \in net
    /\ net' = net \ {d}
    /\ writer = NoOne
    /\ writer' = [op |-> "append", event |-> d, pc |-> "begun", previous |-> <<>>,
                  read |-> <<>>]
    /\ UNCHANGED <<chain, head, evaluator, asked, verdict, package, executions>>
    /\ UNCHANGED <<outbox, worker, faults>>

\* The request reaches the service: a stored receipt is replayed, a new event
\* enters the chain.
ReceiveAuthorityEvent(d) ==
    /\ d \in net
    /\ net' = net \ {d}
    /\ IF d \in Appended THEN writer = NoOne /\ UNCHANGED chainVars ELSE AppendBegin(d)
    /\ UNCHANGED <<outbox, worker, faults>>

\* The signed receipt arrives.
PublishAnswered(w) ==
    /\ worker[w].pc = "sent"
    /\ worker[w].item \in Appended
    /\ worker' = [worker EXCEPT ![w].pc = "answered"]
    /\ UNCHANGED <<chainVars, outbox, net, faults>>

\* No answer will come any more, or none came in time: the outcome is unknown.
PublishFails(w) ==
    LET d    == worker[w].item
        lost == d \notin net \cup Appended /\ (writer # NoOne => writer.event # d)
    IN  /\ worker[w].pc = "sent"
        /\ worker' = [worker EXCEPT ![w].pc = "failed"]
        /\ IF lost THEN UNCHANGED faults ELSE Fault
        /\ UNCHANGED <<chainVars, outbox, net>>

\* UPDATE .. WHERE lease_owner = me AND delivered_at IS NULL AND the lease is live;
\* otherwise ConcurrentMutation ends the batch.
MarkDecisionEvidenceDelivered(w) ==
    LET d == worker[w].item IN
    /\ worker[w].pc = "answered"
    /\ outbox' = IF outbox[d].owner = w /\ outbox[d].live
                   THEN [outbox EXCEPT ![d] =
                           [state |-> "delivered", owner |-> NoOne, live |-> FALSE]]
                   ELSE outbox
    /\ worker' = [worker EXCEPT ![w] = Idle]
    /\ UNCHANGED <<chainVars, net, faults>>

\* The row is given back; whether the lease is still live is not asked.
ReleaseDecisionEvidenceForRetry(w) ==
    LET d == worker[w].item IN
    /\ worker[w].pc = "failed"
    /\ outbox' = IF outbox[d].owner = w
                   THEN [outbox EXCEPT ![d].owner = NoOne, ![d].live = FALSE]
                   ELSE outbox
    /\ worker' = [worker EXCEPT ![w] = Idle]
    /\ UNCHANGED <<chainVars, net, faults>>

-----------------------------------------------------------------------------
(* Time and faults *)

\* LEASE_SECONDS exceed the request's timeout, so a lease outlives the work of its
\* owner unless the owner crashed, or stalls.
LeaseExpires(d) ==
    LET w == outbox[d].owner IN
    /\ outbox[d].live
    /\ outbox' = [outbox EXCEPT ![d].live = FALSE]
    /\ IF worker[w].item = d THEN Fault ELSE UNCHANGED faults
    /\ UNCHANGED <<chainVars, worker, net>>

\* The process dies and another takes its place.  The new one has a new worker id;
\* it holds no item of the old one, so one name serves for both.
WorkerCrashes(w) ==
    /\ worker[w].pc # "idle"
    /\ worker' = [worker EXCEPT ![w] = Idle]
    /\ Fault
    /\ UNCHANGED <<chainVars, outbox, net>>

RequestLost(d) ==
    /\ d \in net
    /\ net' = net \ {d}
    /\ Fault
    /\ UNCHANGED <<chainVars, outbox, worker>>

\* A transaction fails, or an execution does not end well.
ServiceAborts ==
    /\ \/ WriterAborts \/ EvaluatorAborts
       \/ \E x \in Executions, s \in {"FAILED", "UNKNOWN"} : ExecutionMoves(x, s)
    /\ Fault
    /\ UNCHANGED <<outbox, worker, net>>

WriterStep ==
    AppendReadHead \/ AppendCommit \/ PackageReadHead \/ PackageReadChain \/ PackageCommit

EvaluatorStep == EvaluateReadChain \/ EvaluateReadExecutions \/ EvaluateCommit

ServiceStep ==
    /\ \/ WriterStep \/ EvaluatorStep \/ PackageBegin \/ EvaluateRequest \/ EvaluateLockHead
       \/ \E x \in Executions, s \in {"PREPARED", "RUNNING", "SUCCEEDED"} : ExecutionMoves(x, s)
    /\ UNCHANGED deliveryVars

WorkerStep(w) ==
    \/ \E d \in Decisions : ClaimDecisionEvidence(w, d)
    \/ PublishAnswered(w) \/ PublishFails(w)
    \/ MarkDecisionEvidenceDelivered(w) \/ ReleaseDecisionEvidenceForRetry(w)

Next ==
    \/ PostLifecycle \/ PostToolExecuted \/ PostAlert \/ ServiceStep \/ ServiceAborts
    \/ \E d \in Decisions :
         PersistDecisionEvidence(d) \/ ReceiveAuthorityEvent(d) \/ LeaseExpires(d)
           \/ RequestLost(d)
    \/ \E w \in Workers : WorkerStep(w) \/ WorkerCrashes(w)

\* Loops go on, requests are served, transactions end and time passes.  A task has
\* finitely many events, so weak fairness is enough for who waits for a lock.
Fairness ==
    /\ \A w \in Workers : WF_vars(WorkerStep(w))
    /\ \A d \in Decisions : WF_vars(LeaseExpires(d)) /\ WF_vars(ReceiveAuthorityEvent(d))
    /\ WF_vars(WriterStep /\ UNCHANGED deliveryVars)
    /\ WF_vars(EvaluatorStep /\ UNCHANGED deliveryVars)

Spec == Init /\ [][Next]_vars /\ Fairness

-----------------------------------------------------------------------------
(* Properties *)

\* However often a decision is published, and by however many workers, it is in
\* the chain once; a row marked delivered is in the chain, whose links and head
\* always verify (append_authority_event, mark_decision_evidence_delivered).
DeliveredOnce ==
    /\ chain # <<>> => ChainSnapshotValid(chain, head)
    /\ IsInjective(Ids(chain))
    /\ \A d \in Decisions : outbox[d].state = "delivered" => d \in Appended

\* What is signed is about the chain as it stands when it is committed, although the
\* head, the events and the executions are read by statements of their own: nothing
\* was appended since the head was checked and the events were read, no alert came
\* between, and the executions a PASS rests on have stayed SUCCEEDED (evaluate_task
\* holds the head's row, build_package the chain's advisory lock).
SignedAboutCurrentChain ==
    [][/\ verdict' # verdict =>
            /\ verdict'.head = Ids(chain) /\ verdict'.events = Ids(chain)
            /\ verdict'.pass =>
                 /\ Appended \cap Alerts = {}
                 /\ verdict'.executions # {}
                 /\ \A x \in verdict'.executions : executions[x] = "SUCCEEDED"
       /\ package' # package => package'.head = Ids(chain) /\ package'.events = Ids(chain)]_vars

\* Every recorded decision is delivered in the end, whatever crashed or was lost
\* (claim_decision_evidence takes over expired leases).
DecisionsAreDelivered ==
    \A d \in Decisions : outbox[d].state = "pending" ~> outbox[d].state = "delivered"
=============================================================================
