# AgentSphere: TLA+ models, checks and proofs

AgentSphere (the crates are called AgentTrust) lets agents perform actions with
side effects on other systems, under policy, approval, evidence and operator
control. This directory models the path on which an action becomes a side effect
and is accounted for (the orchestrated task, the execution service, the ledger
and the tool proxy) and the authorities that stand beside it: approvals,
credentials, evidence, the model budget and the activation of policies.
Everything else is listed below with the reason why it is not modelled (yet).

## 1. The system

| Component | State it keeps | Operations | Hard behaviour |
|---|---|---|---|
| Transaction ledger (`transaction-ledger`) | one record per tenant and idempotency key, a fence token, an outbox | reserve, mark_started / succeeded / failed / unknown / manual_recovery, status_event_fact, snapshot / from_snapshot, RecoveryScanner | callers with old fences, a scanner with an old batch, restart from an old snapshot |
| Tool proxy (`tool-proxy`) | `tool_proxy_invocations`: a row per key with owner and lease | prepare, preflight, mark_executing, run, succeed / mark_unknown / mark_failed, recover_expired_executing | duplicate requests on several instances, crash after dispatch, lease expiry racing a late success |
| Execution service (`production-runtime`) | none of its own: a call's locals between awaits | ExecutionCoordinator::execute | overlapping retries of one key, a 20 s client timeout against a 960 s server limit, separate reads, activation revoked midway |
| Transition engine (`durable-orchestrator`) | none: a function of task state, command and facts | AuthoritativeTransitionEngine::apply, ProductionFactResolver::resolve | optimistic versions, capacity limits, two-call containment of KILL |
| Durable worker (`python/durable_worker/worker.py`) | command queue, rejection history, current task state, `_execution_active` | run, command (signal and update), follow-up commands | commands between any two awaits, redelivery, exceptions that stick |
| Orchestrator API (`orchestrator_api.py`) | PostgreSQL actions and events | submit, control, bff_command | crash between Temporal and PostgreSQL, requests rebuilt for a newer version |
| Enterprise approval (`enterprise-approval`) | case, decisions, one-time grant, consumption, idempotency receipts, decision outbox | create_case, decide, issue_grant, revoke_grant, consume_grant, expiry; outbox lease, delivery, settlement | decisions racing for the quorum, locks taken in two orders, times read before waiting for locks, lost receipts |
| Evidence and evaluator (`evidence-evaluator`) | hash chain and head per task, evaluation results, packages | append (lifecycle, authority, execution), evaluate_task, build_package | the evaluation takes another advisory lock than the appends, redelivered events |
| Identity (`identity/src/production.rs`) | credential handles, revocations, task life cycle, agent epoch | issue, consume, revoke, task life cycle, agent and tenant revocation | issue racing revocation, two uses at once, opposite lock orders |
| Model gateway (`model-gateway/src/authority.rs`) | requests, leases, budget reservations, the tenant's account | execute (prepare, claim, provider call, succeed, fail, unknown), recover_expired | callers that die or answer after recovery, stale recovery lists, the budget at its limit |
| Policy executor and PEP activation (`policy-administration`, `policy-pep`) | resource versions, promotions, activation intents; PEP claims and active bundles | PROMOTE, ROLLBACK, DEPRECATE; claim, call the PDP, complete | two nested claims with leases, lost answers at both levels, owners slower than their lease |
| Other services, adapters, consoles, offline tools | see `components` in PROJECT.json | | off the execution path |

How they interact: the API sends commands to the Temporal workflow of the task.
The workflow applies one command at a time through a child workflow that calls
the transition engine, and, while the task runs, polls the execution service,
which dispatches the action on the first poll. The execution service reserves in
the ledger, has the PEP authorize citing a ledger event, marks the record
started, posts to the tool proxy, appends evidence and records the outcome. The
proxy claims a row before it calls the target. Each of these calls can be lost,
late or repeated. The approval service grants a sensitive action once and posts
each decision into the task's evidence chain; the identity service issues the
single-use credential the tool proxy presents, and revokes it with its task; the
evaluator signs what the chain shows. The policy executor activates a bundle at
the PEP, and the PEP at the PDP.

What makes the parts correct: a key is executed at most once however often it is
asked for; a reported success is real; an unknown outcome is not reported as a
failure; the record, the events and what callers are told agree; a task applies
one command per version, loses none, and completes or is killed only on the
facts the code requires; a grant and a credential are used once and not after
they were withdrawn; a decision reaches the chain, once; what is signed is about
the chain as it stands; the budget account balances and a provider call is paid
for; the enforced policy is at most one activation away from the administered
one. The `hazards` list in PROJECT.json has the places
where that is hard to test, with the property that watches each.

## 2. Modules

| Module | Models | Built on |
|---|---|---|
| `Identifiers` | idempotency keys and "no value" | |
| `Ledger` | both stores of the ledger: state, operations, promises | `Identifiers` |
| `LedgerSystem` | the ledger under its most general client, the scanner and restarts | `Ledger` |
| `EffectOnce` | abstract promise of the proxy for one key: at most one effect, one final verdict | `Identifiers` |
| `ToolProxy` | invocation store, service, recovery task, target | `Identifiers`, instance of `EffectOnce` |
| `Execution` | the coordinator, composed with the ledger and the proxy | `Ledger`, `ToolProxy` |
| `TransitionEngine` | commands, guards, facts and the next task state (no variables) | |
| `TaskWorkflow` | the workflow, the API calls that feed it, the engine, the polled execution | `TransitionEngine` |
| `Approval` | one approval case, its decisions, grant and consumption, lock by lock | |
| `EvidenceChain` | the chain of a task, its appends, evaluation and package | |
| `EvidenceDelivery` | the approval outbox and its workers, composed with the chain | `EvidenceChain` |
| `Credentials` | the credentials of one agent and one task, and their revocations | |
| `ModelGateway` | model requests, budget and recovery | |
| `PolicyActivation` | policy executor, PEP and PDP | |
| `LedgerProofs` | theorems about the ledger | `LedgerSystem` |
| `ExecutionProofs` | theorems about the tool proxy, and about the execution service over it | `Execution` |
| `TaskWorkflowProofs`, `ApprovalProofs`, `CredentialsProofs`, `ModelGatewayProofs`, `PolicyActivationProofs` | theorems about the module each is named after | that module |
| `EvidenceProofs` | theorems about the chain and the delivery to it | `EvidenceDelivery` |
| `MC*` | constants, symmetry and request sets for TLC | |

Correspondence with the code:

* **Ledger.** `by_execution`, `by_idempotency`, `next_fence` and `outbox` are
  the maps of `InMemoryExecutionLedger` and the tables and sequence of the
  PostgreSQL store. Each operation is one action, because each is one critical
  section or one transaction. A record keeps the key, the action hash, the
  token, the attempt counter and which references are present. `Backend`
  selects the store; the stores differ in `ReserveAborted` (the sequence keeps
  its value when a transaction rolls back), in `MarkManualRecovery` and in the
  order of the events. `outbox` is in the order of `created_at`, by which
  `status_event_fact` picks the latest (lib.rs:872). In PostgreSQL that is the
  start of the writing transaction, which may lie before that of one that
  committed earlier, so `Store` inserts the event anywhere after the `since`
  events that were committed when its writer came to the call (`EventPlaces`).
  A refused operation changes nothing and is therefore no action.
* **LedgerSystem.** Callers hold any fence ever returned (`issued`) and use it at
  any time, in transactions begun at any time since the reservation (`Reserved`).
  `scan` is the scanner's batch, worked through one record at a time
  with arbitrary decisions of the resolver; `?` leaving the loop is `ScanAborts`.
  `saved` is the last snapshot; `Restore` is `from_snapshot`, after which the
  scanner starts afresh. Outside `Restore` nothing is lost, which is why the two
  action properties except it.
* **ToolProxy.** One call is one HTTP request; `ppc` is the store transaction it
  stands before, `inv` the table, `reply` the class of its response, `op` what
  the target knows of its operation. `ProxyAborts` stops a call after any
  transaction. A lease is none, live or expired; `LeaseExpires` is time passing.
  Everything in `ToolProxy::preflight` is one choice between passing and being
  refused; so is the part of `run_prepared` before the connector is called.
* **Execution.** `cpc` is the await a call stands before, `since` how many events
  its execution had when it came there. Calls of one key
  overlap freely and may stop anywhere (`CallStops`). Tool request c is call c of
  `ToolProxy`. Admission (validation, registry, schema, approval) and the PEP are
  external decisions, as are the target, the evidence service and activation.
* **TransitionEngine and TaskWorkflow.** A command is its id, idempotency key,
  type, expected version and whether a caller or the workflow itself asks for it
  (`command_fingerprint` covers `requested_by`); equal commands have equal
  fingerprints. `Path`
  and `GuardAllows` are the tables of `transition_path` and
  `StateTransitionGuard::allows`; `Permitted` is what the fact resolver demands.
  The workflow is single threaded: signals and updates (`Deliver`) run between
  the awaits of `run()`, which are the poll and the child workflow. An exception
  out of `run()` fails the workflow task, which Temporal replays with the same
  result, so the model goes to `stuck`, with the reason in `why`. The eviction
  branch of `command()` cannot be reached at the limits in the code (the shared
  capacity is exhausted no later than the deque) and has no action.
* **Approval.** A session is a database connection that serves one request; its
  actions are the stretches of the transaction between two locks: the advisory
  lock of the idempotency scope, the row of the case, the row of the grant, in
  the order each operation takes them. A session keeps what it read and whether
  the case had expired when it took the time. PostgreSQL aborts one transaction
  of a lock cycle (issue takes case then grant, consume and revoke the other way
  round); `Abort` rolls any transaction back at any point, so the properties hold
  whichever is the victim, and the run says nothing of how often that happens.
* **EvidenceChain and EvidenceDelivery.** The hash of an event is the sequence
  of events it covers. `writer` holds the chain's advisory lock; `evaluator`
  does not, and only the row lock of the head keeps it apart from an append. The
  statements of `evaluate_task` (lock the head, read the events, read the
  executions without a lock, commit) and of `build_package` are actions of their
  own, between which the rest of the system moves; a verdict or a package records
  what its transaction read. The executions of the task move as the ledger lets
  them (`LedgerMayMove`), and all that are found must have succeeded. Events come
  in any order: TOOL_EXECUTED from the coordinator (execution.rs:1557), alerts
  from the anomaly service (runtime-anomaly/src/production.rs:320), decisions from
  the outbox, and the five others from clients that are not in the repository
  (`PostLifecycle`, external). `Given` is what the chain holds at the start. A
  worker leases an outbox row, posts the decision, waits for the receipt and
  settles the row while it still owns it; requests and answers get lost, workers
  crash or stall past their lease.
* **Credentials.** As in `Approval`, an action is the part of a transaction
  between two waits; what a transaction wrote is seen when it commits. The three
  wider revocations (task, agent, tenant) revoke the credentials they find.
* **ModelGateway.** `callers` are calls of `execute` at an await; `recovery` is
  the list a recovery task read and works off one by one, ending its round at the
  first error. Whether a lease is live is read at the start of a transaction.
  `calls` is a ghost counter of provider invocations.
* **PolicyActivation.** `intents` are the rows one command owns in the policy
  executor, `claims` those in the PEP; both are taken with a lease and may be
  taken over. `wire` holds requests that are sent and not yet received, `loaded`
  is what the PDP has in force. An operation on the policy other than an
  activation (drafts, reviews, signing, exceptions) is the one step that moves
  its version.

## 3. Runs

Passing runs:

| Run | Instance | Shows |
|---|---|---|
| `ledger_memory` | 2 keys, 3 executions, 4 fences and events | one execution per key, distinct fences, success exactly with result and evidence, across restores |
| `ledger_postgres` | 2 keys, 3 executions, events in any order their transactions can begin | started at most once, the events tell how an execution went, terminal records are final, UNKNOWN never becomes FAILED |
| `tool_proxy` | 4 calls of one key, 3 with the same request, 2 instances | at most one dispatch, refusals and successes are true, expired EXECUTING rows settle, refinement of `EffectOnce` |
| `execution` | 3 calls of one key, one of them for another action; 2 executions | one tool request per key, PREPARED means untouched, SUCCEEDED is real, tool requests cite the reservation, reported ends agree and last |
| `workflow_controls` | PAUSE, RESUME, KILL; one API read each; history of 3 | KILLED only when contained and revoked, a paused task is not polled, terminal is final, every queued request is decided |
| `workflow_completion` | VERIFY, COMPLETE, KILL; two API reads each; history of 3 | one command per version, none lost, COMPLETED only verified and with ledger success, `run()` raises only for a reused id or key or a rejection history without room |
| `approval` | one case, quorum of 2, 4 approvers of whom 3 are eligible, 2 sessions, 2 idempotency keys | the status is what the decisions amount to, case and grant agree, a grant is consumed once and only while the case is approved |
| `evidence` | one execution, one decision, one alert, a chain of four events to start with, one evaluation or package, 2 workers, one fault | a decision enters the chain once and in the end, verdicts and packages are signed about the current chain |
| `credentials` | 2 credentials, 2 sessions, 2 use keys, one epoch change | a credential is used once and not after a covering revocation; a cancelled task or revoked tenant leaves no live one |
| `model_gateway` | 3 requests for a budget of 2, 2 callers, one recovery task | the account is the sum of its reservations and within its limit, the provider is called once per request and paid for, a claimed request is settled |
| `policy_activation` | 3 commands, 2 bundles of one policy, 2 stages, 2 executors, 2 PEP handlers, one fault | executor, PEP and PDP are within one activation of each other, a stage follows the one before, a retried activation completes |

Bounds. The ledger has no interaction between keys other than the fence counter,
so two keys suffice, and a third execution id leaves one to be minted after a
restart. `MaxEvents` bounds re-escalation, which can repeat for ever in
PostgreSQL; 4 events are a full life and one escalation. One action hash is enough there: a
second one only adds refusals, and the `execution` run has it. In the proxy and the
execution the properties are per key; two equal calls race for a claim, a third
meets its result, a fourth carries the conflicting request. In the workflow
`RejectionLimit` stands for 1024 and is small so that the history fills up;
`MaxReads` bounds how often the API rebuilds a request; `MaxProcessed` and
`MaxRoutine` stand for the engine's limits. Two sessions are enough for every
pairwise race of transactions, and a case or a task shares no row with another.
The chain of the `evidence` run starts after CREDENTIAL_ISSUED because the first
four events meet nothing that the later ones do not: TOOL_PREPARED,
TOOL_EXECUTED, the decision and the alert then come in every order, before,
between and after the statements of an evaluation or a package, and both a PASS
and a package are reached. Longer chains and more executions are left to the
theorem, which holds for any `Given` and any set of executions.
Two delivery workers give the overtaken one and its successor; one fault is
enough for each kind of failure to happen alone, at any point. In the gateway
three requests are one more than the budget pays for. In `policy_activation` the
second executor and the second handler are the ones that take a claim over; a
third command finds the outcome of the two before it, and two stages are the
shortest promotion order.

Symmetry is used where calls or executions are interchangeable and only
invariants or action properties are checked.

Fairness. `ToolProxy` assumes weak fairness of `LeaseExpires` and of
`RecoverExpiredExecuting`: leases are finite and the recovery task of the server
ticks every five seconds. Nothing is assumed of the calls, which may die.
`TaskWorkflow` assumes weak fairness of `RunStep`: Temporal schedules a runnable
workflow, and both activities have timeouts and retry limits. Nothing is assumed
of callers, the ledger or containment.

`EvidenceDelivery` assumes weak fairness of the delivery workers (a loop in every
approval process), of the arrival of a request that is on its way, of
transactions that were begun, and of lease expiry. The lease of 60 s is longer
than the request timeout of 20 s, so a worker that does not stall settles its row
in time; stalls are faults. That a request which arrives is not refused is an
assumption too: `append_authority_event` refuses an event whose binding is not
the one of the stored PEP authorization, or whose task does not exist
(evidence-evaluator/src/postgres.rs:362-436), and an event refused so is retried
for ever. `ModelGateway` assumes weak fairness of lease expiry,
of the recovery task's scan and of a transaction that fails a request, and
strong fairness of the recovery of the next entry, which waits for a row a
failing caller may hold again and again. Callers may die anywhere.
`PolicyActivation` assumes weak fairness of the steps of calls in progress (each
await has a timeout), of requests on their way, and of the expiry of a lease
whose owner is gone, and strong fairness of `Retry`: the runbook
(docs/policy/production-authority-runbook.md:139-141) has the operator retry the
exact command until it completes.

Deadlock is checked in the ledger, execution, approval and credentials runs (in
the last two a waiting transaction can always be aborted, so it says little
there). In the others the calls, the task or the bounded number of requests
really end.

Violation run: `failed_means_no_effect` states what the README and the recovery
runbook of the repository say (an unknown outcome is not treated as failure).
TLC finds the proxy's 409 for an unknown outcome read as a denial: the execution
is recorded FAILED after the target performed it. It is the finding of
PROJECT.json.

Every property of a passing run has a mutant: an operator named in PROJECT.json
that changes one mapped definition as a plausible bug would and makes TLC report
the property.

## 4. Proofs

Checked by TLAPS for every value of the constants: any number of calls, keys,
sessions, approvers, commands, workers and faults, any limits. Every invariant
and every action property a passing run checks is also a theorem, and so is the
refinement. Each module has an inductive invariant (`IInv`; `ProxyIInv` for the
proxy), which TLC checked on the instance of the run before it was proved, a
lemma that the initial state establishes it and a lemma that a step preserves it,
with one case per action. The `...Inductive` theorems combine the two; the
others follow from them, the action properties with one more look at the steps
that matter.

Assumptions. They are those the modules declare, and TLC evaluates them in the
runs:

* `LedgerAssumption`, `MaxFenceAssumption`: keys and hashes exist, `None` is not an
  execution id, one of the two backends, numeric bounds.
* `ToolProxyAssumption`, `ExecutionAssumption`: each call has a key, a request, an
  instance and an action hash; no two calls of the execution service send the
  same tool request, because the request carries an authorization minted for the
  call (execution.rs:1339).
* `EngineAssumption`, `WorkflowAssumption`: limits are positive, requests have one
  of the command types. Ids and keys of requests may coincide in any way.
* `ApprovalAssumption`: requests are well formed, a case needs at least one
  approver, and there are finitely many.
* `EvidenceAssumption`, `DeliveryAssumption`: the kinds of events are disjoint.
* `CredentialsAssumption`: a handle is not one of the words "tenant", "agent",
  "task" (`subject_kind` and `subject_id` are separate columns).
* `GatewayAssumption`: limit and cost are positive.
* `ActivationAssumption`: there is at least one stage.

In all of them the value for "none" (`None`, `NoOne`, `NoKey`) is none of the
values it stands beside: it is a NULL or a row that does not exist.

* **`LedgerProofs`.** `IInv` is the type invariant, `LedgerInv` for the live
  records, and `CopySound` for the saved ones. The second copy is needed because
  `Restore` makes it the live one; that keys and tokens are unique *within* a
  copy is needed because the index is rebuilt from the records and the fence
  counter is set above the largest of them. `RecordSound` also says that nothing
  enters the statuses this crate never writes; without it an escalated
  COMPENSATION_FAILED record would be an UNKNOWN one that never started. From
  `LedgerInductive` follow type correctness, one execution per key, distinct
  fences, started at most once, evidence and events. `LedgerEventsTellOutcome` is
  about the set of an execution's events and about its first one: a transaction
  that moves a record began after the reservation committed, so the RESERVED
  event stays the first, and it is the latest only while there is no other. That
  is all the latest event can be trusted for in PostgreSQL. The rest follows; the two action properties
  (`LedgerTerminalIsFinal`, `LedgerUnknownNeverFails`) are proved step by step.
* **`ExecutionProofs`, the proxy.** A call commits to the target when
  `mark_executing` claims
  the row, before anything is sent. `ProxyIInv` therefore speaks of claims: a
  claim is unique for its key and owns the row; the owner column tells the
  state; the place of a call tells what it may have sent; a response repeats the
  row. `ProxyAtMostOneDispatch`, `ProxyRejectedMeansNotDispatched` and
  `ProxySuccessMeansPerformed` follow, and so does `ProxyImplementsEffectOnce`:
  initial states map to initial states, and every step to a step of
  `EffectOnce` or a stutter. That a
  settled row is final is part of it: `EffectOnce` never leaves a verdict.
* **`ExecutionProofs`, the execution service.** `OneToolRequestPerKey` speaks of
  requests that were sent; a call commits earlier, when `mark_started` moves the
  record from PREPARED to RUNNING. So `IInv` says that at most one call of a key
  is a starter, that a starter's record has left PREPARED, that the event a call
  has captured is the RESERVED one while the record is PREPARED, and what a call
  has at each await (the 200 of the proxy, the evidence receipt). It contains
  `ProxyIInv`, whose step lemma is cited for the proxy's steps, and the ledger's
  type, index and event invariants. Of the ledger it also needs how this service
  moves a record (`MayBecome`): an outcome a caller was told stays true because
  no step leaves a terminal status. For the event an outcome cites, `IInv` bounds
  where the events of an execution can stand: a success is begun by the call that
  started the execution, after RUNNING, so SUCCEEDED is the last event; a failure
  may be begun before another call's start and committed after it, so RUNNING may
  come after FAILED, and `TerminalOutcomesAgree` says so. `ExecutionStatusAdvances` states that for every step
  and every record: through the coordinator UNKNOWN never becomes FAILED either.
  `ExecutionImplementsEffectOnce` carries the refinement over to the composed
  system, whose steps are steps of the proxy or leave it alone.
* **`TaskWorkflowProofs`.** `NoCommandLost` and `AppliedOncePerVersion` are about
  four places that overlap in the code: the queue, the command in flight, the
  processed commands and the rejection history. `IInv` says that together
  they are exactly what was ever admitted (`Accounted`), where a command may come
  from (`Origins`: a poll meets commands of callers only, and the workflow's own
  COMPLETE is not there before VERIFYING), and what each status and each place of
  `run()` tells of the rest of the state (`Lifecycle`, `InFlight`). The proof showed that the first form of
  `FailsOnlyOnReuse` held only for ids no caller shares with the workflow's own
  commands; it is now stated for any, and a command carries who asked for it.
* **`ApprovalProofs`.** A transaction decides on what it read. `IInv` says that what
  it has read of the case, and of the grant, is what is stored, from its row lock
  to its end; of the rows, that only the eligible decide and that a rejection
  lasts. The two invariants are then about committed rows; `ApprovalConsumptionIsAuthorised` is about the
  one step that commits a consumption.
* **`CredentialsProofs`.** The invariant is what transactions in progress exclude:
  an issue past its checks and a revocation of its task or tenant (so the
  revoking UPDATE sees every credential there is), a consumption past its checks
  and whatever would revoke what it consumes. It says nothing of the kind about
  an issue and a revocation of its *agent*, which do overlap (see Observations).
* **`ModelGatewayProofs`.** Four operations move the account by a difference. It
  balances because the request row and the reservation row of a key agree
  (PREPARED and EXECUTING with RESERVED, the ends with theirs), so that no
  operation meets a reservation another has settled; and the provider is called
  once because only the claim leads to it and a claimed request does not become
  claimable again. The sum of the charges is the cardinality of a set of
  microunits (`Charged`), which is a sum the finite-set theorems can reason
  about.
* **`EvidenceProofs`.** The chain grows by the holder of the advisory lock; the head
  it read is the head it extends, and its event is new (`WriterSound`).
  `evaluate_task` takes another lock; `EvidenceHeadStandsUnderLock` shows that the
  row lock of the head does what the advisory lock would do (`LockedHeadStands`).
  `EvidenceSignedAboutCurrentChain` is about a transaction that commits what
  earlier statements of it have read. It needs the invariant: by `LockedHeadStands` the
  head checked is still the head, by `EvaluatorSound` the events read are still
  the chain and the executions found SUCCEEDED still are (the ledger never leaves
  that status), by `WriterSound` the same holds of a package. Without the row lock
  it is false; that is its mutant (`HeadUnshared`). A worker's answer stands for
  an append that is not undone, so it may settle its row however late it comes.
* **`PolicyActivationProofs`.** An environment has one unresolved command at a time,
  and every claim the PEP holds open and every activation the PDP performs anew
  is that command's: a resolved command was acknowledged by the PEP and is not
  reclaimed. An acknowledgement is believed because it can only reach the call
  that waits for it, which is why `IInv` also covers requests on the wire and the
  handlers' callers. For
  `StagesInOrder` it says that every admitted command, not only the enforced one,
  had its bundle active in the environment before.

Type correctness of each component is a part of its inductive invariant and
therefore not repeated in the runs.

Only model-checked: the five liveness properties (`ExecutingSettles`,
`QueuedIsDecided`, `DecisionsAreDelivered`, `ExecutingIsSettled`,
`ActivationCompletes`), because fairness and ENABLED are out of the prover's
reach. `FailedMeansNoEffect` is violated, so there is nothing to prove of it.

## 5. Observations

Behaviour of the code that the models show, that a document or comment does not
lead one to expect, and that no run states as a property:

* **Execution.** A second call that shares a reservation shares its fence, and
  may fail a record that the first call has just started (execution.rs:1294).
  The event captured for the final authorization of a *second* call need not be
  the RESERVED one the comment at execution.rs:1335 speaks of; such a call never
  sends a tool request (`ToolRequestCitesReservation`). An outcome that is not
  terminal may cite the event of a later status, because record and event are
  read separately (execution.rs:1605). Of the terminal outcomes, SUCCEEDED cites
  its event; a FAILED one may cite EXECUTION_RUNNING, when the failing call's
  transaction began before the starting one and committed after it
  (transaction-ledger/src/lib.rs:872 and 991; `TerminalOutcomesAgree`).
* **Ledger.** After a restart from a snapshot the counter is above every token
  the snapshot knows, not above every token ever issued: a token issued since may
  be minted again. The old holder's execution id is not in the ledger any more,
  so its fence is refused all the same (`FencesDistinct` speaks of the executions
  the ledger knows).
* **Worker.** `run()` raises, and the workflow is stuck, when a follow-up command
  is made again after it was rejected, or finds the capacity used up
  (worker.py:804); when a request is rebuilt for a newer version while its first
  command is in flight (worker.py:751; test_worker.py:106 has the case where the
  first one is queued); and when the rejection history overflows, because the
  capacity test does not count the command in flight (worker.py:117 and 155).
  `FailsOnlyOnReuse` says that it raises in no other case.
* **Approval.** A used break-glass case that is not reviewed before it expires
  becomes EXPIRED at the next decision (postgres.rs:1542) and can no longer be
  reviewed; docs/approval/enterprise-approval.md:11-12 has it in
  POST_REVIEW_REQUIRED until the review. Lines 6-8 say that the same rules are
  evaluated again before the grant is consumed; `consume_grant` compares
  bindings, status and expiry, and does not evaluate separation of duties.
* **Evidence.** The executions are read without a lock (postgres.rs:1492): one that
  is reserved between that read and the commit is not covered by the verdict, so a
  PASS can be committed while a newer execution of the task is not SUCCEEDED.
  `SignedAboutCurrentChain` speaks of the executions the verdict rests on. A decision delivered after CREDENTIAL_ISSUED makes
  `lifecycle_order_valid` false for good: the outbox is asynchronous and nothing
  waits for it. A package needs an artifact for each event, and a decision's
  reference is a URN, so a task with an approval decision gets no package.
* **Identity.** `issue` reads the revocations before it waits for the agent's
  row, so a credential may be issued after the revocation of its agent and stay
  unrevoked (docs/security/identity/threat-model.md:26-27); `consume` refuses it
  (`ConsumedOnceUnrevoked`), and the revocations of task and tenant have no such
  gap (`RevocationLeavesNoneLive`).
* **Model gateway.** A request left PREPARED by a caller that died holds its
  budget until the same key is retried; recovery looks at EXECUTING only.
* **Policy.** While an activation is uncertain another operation may move the
  policy's version. The retry is then refused (authority.rs:1702), and the
  unresolved intent keeps its environment closed to other activations; the
  runbook's "retry the exact command" cannot succeed. `ActivationCompletes`
  excludes exactly this case. `deprecate_policy` (2840) looks at ACTIVE promotions
  only, so it is one of those operations, and the PEP may go on to enforce the
  deprecated bundle.

Hazards noticed while modelling that no property covers and that the `hazards`
list leaves out because nothing promises more than the code does: one record
that moved makes `RecoveryScanner` leave its batch (lib.rs:591; no binary runs
it); `CompensationCoordinator` tests, awaits and then inserts (lib.rs:220; nothing
constructs it); a connection dropped after a secret lease was issued leaves it to
its own expiry (tool-proxy/src/lib.rs:1656); the engine's last place for a
processed command is KILL's, so a task at the limit cannot complete
(runtime.rs:335); a dispatch whose answer was lost may take effect after the task
was paused (worker.py:730); CANCELLING and NEEDS_HUMAN cannot be left through the
runtime commands (contracts/src/lib.rs:3320); `control()` derives the command id
from task and type, so a rejected KILL cannot be asked for again
(orchestrator_api.py:394).

## 6. Not modelled, and the plan

Not modelled inside the modelled parts: cryptography, canonical hashing, schema
validation, HTTP and TLS (decisions that pass or fail); Vault leases; Temporal's
own storage; multi-tenancy (tenants share no rows, a key
stands for tenant and key); artifact upload (object store); review-evidence
tickets and principal assertions of the approval service; signing keys and
sealed responses of the identity service; reconciliation of provider statements
in the model gateway; the sweeper of policy exceptions; persistence of PEP
decisions. The first two are decisions the models leave open; the others are
state beside the one the properties speak of, or, for artifacts, state that is
taken to be there. What depends on them is not claimed.

Parts not modelled: consoles, adapters, SDKs, packs, offline gates and tools are
pure functions, user interface or I/O. The remaining authorities (incident and
release gate, runtime anomaly, data governance, context governance, audit
retention, SRE, evaluation lab, marketplace) are stores of one transaction per
request with an idempotency receipt, off the path on which a side effect
happens; they make up most of the repository's lines. PROJECT.json gives the
reason for each. The implementation is about 157,000 lines, most of it request
validation, row mapping, wire formats and such stores, so the lines the map
names are a small share of it.

Next, in this order:

1. Proofs: an abstract life cycle of a task that `TaskWorkflow` implements; an
   abstract grant that is given and used once, which `Approval` implements.
2. `Approval` composed with `Execution`'s admission, where a retry presents the
   same grant again; `Credentials` composed with the tool proxy.
3. `Ingress`: the API's action and event store around submit and control, with
   the crash window between Temporal and PostgreSQL.
4. `Compensation`: `CompensationCoordinator`, whose check and insert are
   separated by awaits.
5. `TaskTransitionService` of durable-orchestrator/src/lib.rs, as an older
   implementation of the same abstract task life cycle, and that life cycle as
   an abstract specification `TaskWorkflow` implements.
