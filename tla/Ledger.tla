------------------------------- MODULE Ledger -------------------------------
(***************************************************************************)
(* The execution ledger of rust/crates/transaction-ledger: one durable     *)
(* record per (tenant, idempotency key), guarded by a fence token, and one *)
(* outbox event per state change.  This module holds the ledger's state    *)
(* and its operations; the modules that extend it add the callers.         *)
(*                                                                         *)
(* The two stores of the crate are both here.  They differ in what a store *)
(* failure can burn (a sequence value), in what mark_manual_recovery does  *)
(* to the status, and in the event it appends: see Backend.                *)
(***************************************************************************)
EXTENDS Identifiers, Naturals, SequencesExt

CONSTANTS
    Hashes,     \* canonical action hashes
    ExecIds,    \* execution ids (UUIDs: never minted twice)
    Backend,    \* "memory" (InMemoryExecutionLedger) or "postgres"
    MaxEvents   \* bound on the events of one execution (re-escalations repeat)

ASSUME LedgerAssumption ==
    /\ None \notin ExecIds
    /\ Keys # {}
    /\ Hashes # {}
    /\ Backend \in {"memory", "postgres"}
    /\ MaxEvents \in Nat

VARIABLES
    by_execution,    \* the record of every execution id; status "ABSENT" if none
    by_idempotency,  \* the execution that owns a key
    next_fence,      \* next fence token (AtomicU64, execution_fence_seq)
    outbox           \* per execution, its outbox events by created_at

ledgerVars == <<by_execution, by_idempotency, next_fence, outbox>>

ExecutionStatus ==
    {"PREPARED", "RUNNING", "SUCCEEDED", "FAILED", "TIMED_OUT", "CANCELLED",
     "KILLED", "COMPENSATING", "COMPENSATED", "COMPENSATION_FAILED", "UNKNOWN"}

EventTypes ==
    {"EXECUTION_RESERVED", "EXECUTION_RUNNING", "EXECUTION_SUCCEEDED",
     "EXECUTION_FAILED", "EXECUTION_UNKNOWN", "MANUAL_RECOVERY_REQUIRED"}

\* What the record keeps of the intent (key, action hash), the fence token, and
\* which of result_ref / evidence_ref / manual_recovery is present.
ExecutionRecord ==
    [status : ExecutionStatus \cup {"ABSENT"}, key : Keys, hash : Hashes,
     token : Nat, attempt : Nat, result : BOOLEAN, evidence : BOOLEAN,
     manual : BOOLEAN]

ExecutionFence == [exec : ExecIds, token : Nat]

Live(e) == by_execution[e].status # "ABSENT"
FenceOf(e) == [exec |-> e, token |-> by_execution[e].token]

AbsentRecord ==
    [status |-> "ABSENT", key |-> CHOOSE k \in Keys : TRUE,
     hash |-> CHOOSE h \in Hashes : TRUE, token |-> 0, attempt |-> 0,
     result |-> FALSE, evidence |-> FALSE, manual |-> FALSE]

LedgerInit ==
    /\ by_execution = [e \in ExecIds |-> AbsentRecord]
    /\ by_idempotency = [k \in Keys |-> None]
    /\ next_fence = 1
    /\ outbox = [e \in ExecIds |-> <<>>]

-----------------------------------------------------------------------------
(* reserve *)

\* Mutant: the index is not consulted, as without the key's lock.
ReserveUnindexed(e, k, h) ==
    /\ ~Live(e)
    /\ by_execution' = [by_execution EXCEPT ![e] =
            [AbsentRecord EXCEPT !.status = "PREPARED", !.key = k, !.hash = h,
                                 !.token = next_fence]]
    /\ by_idempotency' = [by_idempotency EXCEPT ![k] = e]
    /\ next_fence' = next_fence + 1
    /\ outbox' = [outbox EXCEPT ![e] = <<"EXECUTION_RESERVED">>]

\* A key seen for the first time: a fresh execution id, the next fence token, a
\* PREPARED record, the key's index entry and its RESERVED event, in one step
\* (one mutex section, one SQL transaction under the key's advisory lock).
ReserveNew(e, k, h) ==
    /\ by_idempotency[k] = None
    /\ ~Live(e)
    /\ by_execution' = [by_execution EXCEPT ![e] =
            [status |-> "PREPARED", key |-> k, hash |-> h,
             token |-> next_fence, attempt |-> 0, result |-> FALSE,
             evidence |-> FALSE, manual |-> FALSE]]
    /\ by_idempotency' = [by_idempotency EXCEPT ![k] = e]
    /\ next_fence' = next_fence + 1
    /\ outbox' = [outbox EXCEPT ![e] = <<"EXECUTION_RESERVED">>]

\* A key already reserved for the same action: the caller gets the stored
\* execution and its *stored* fence token; nothing changes.
ReserveReturnsExisting(k, h) ==
    by_idempotency[k] # None /\ by_execution[by_idempotency[k]].hash = h

\* The same key under another action hash: IdempotencyConflict.
ReserveConflicts(k, h) ==
    by_idempotency[k] # None /\ by_execution[by_idempotency[k]].hash # h

\* PostgreSQL draws the token from a sequence before the inserts: a transaction
\* that fails afterwards rolls everything back except the sequence.
ReserveAborted(k) ==
    /\ Backend = "postgres"
    /\ by_idempotency[k] = None
    /\ next_fence' = next_fence + 1
    /\ UNCHANGED <<by_execution, by_idempotency, outbox>>

-----------------------------------------------------------------------------
(* the fenced transitions *)

\* The record exists, the fence token is its token and its status is allowed.
CanTransition(f, allowed) ==
    /\ Live(f.exec)
    /\ by_execution[f.exec].token = f.token
    /\ by_execution[f.exec].status \in allowed

\* Where a new event comes to stand among those of its execution.  The in-memory
\* store pushes it under its mutex.  In PostgreSQL created_at is now(), the
\* moment the writing transaction began, while the row lock of the UPDATE lets
\* it commit after a transaction that began later: the event stands anywhere
\* after the `since` events that were there when the caller began.
EventPlaces(e, since) ==
    IF Backend = "memory" THEN {Len(outbox[e]) + 1} ELSE since + 1 .. Len(outbox[e]) + 1

\* Mutant: the outbox event is forgotten.
StoreWithoutEvent(f, since, record, event) ==
    /\ by_execution' = [by_execution EXCEPT ![f.exec] = record]
    /\ UNCHANGED <<by_idempotency, next_fence, outbox>>

\* A successful transition writes the record and one outbox event.
Store(f, since, record, event) ==
    /\ by_execution' = [by_execution EXCEPT ![f.exec] = record]
    /\ \E at \in EventPlaces(f.exec, since) :
          outbox' = [outbox EXCEPT ![f.exec] = InsertAt(@, at, event)]
    /\ UNCHANGED <<by_idempotency, next_fence>>

\* Mutant: a RUNNING execution may be started again.
CanRestart(f) == CanTransition(f, {"PREPARED", "RUNNING"})

CanStart(f) == CanTransition(f, {"PREPARED"})
MarkStarted(f, since) ==
    /\ CanStart(f)
    /\ Store(f, since, [by_execution[f.exec] EXCEPT !.status = "RUNNING",
                                             !.attempt = @ + 1],
             "EXECUTION_RUNNING")

\* Mutant: a FAILED execution may still succeed.
CanSucceedLate(f) == CanTransition(f, {"RUNNING", "UNKNOWN", "FAILED"})

CanSucceed(f) == CanTransition(f, {"RUNNING", "UNKNOWN"})
\* Mutant: the evidence reference is not stored.
MarkSucceededBare(f, since) ==
    /\ CanSucceed(f)
    /\ Store(f, since, [by_execution[f.exec] EXCEPT !.status = "SUCCEEDED", !.result = TRUE],
             "EXECUTION_SUCCEEDED")

MarkSucceeded(f, since) ==
    /\ CanSucceed(f)
    /\ Store(f, since, [by_execution[f.exec] EXCEPT !.status = "SUCCEEDED",
                                             !.result = TRUE,
                                             !.evidence = TRUE],
             "EXECUTION_SUCCEEDED")

\* Mutant: an UNKNOWN outcome is an ordinary failure.
CanFailUnknown(f) == CanTransition(f, {"PREPARED", "RUNNING", "UNKNOWN"})

CanFail(f) == CanTransition(f, {"PREPARED", "RUNNING"})
MarkFailed(f, since) ==
    /\ CanFail(f)
    /\ Store(f, since, [by_execution[f.exec] EXCEPT !.status = "FAILED"],
             "EXECUTION_FAILED")

CanBecomeUnknown(f) == CanTransition(f, {"RUNNING"})
MarkUnknown(f, since) ==
    /\ CanBecomeUnknown(f)
    /\ Store(f, since, [by_execution[f.exec] EXCEPT !.status = "UNKNOWN"],
             "EXECUTION_UNKNOWN")

\* The in-memory store opens the case through `transition` and so moves the
\* record to UNKNOWN; the PostgreSQL UPDATE leaves the status as it was.
CanEscalate(f) ==
    /\ CanTransition(f, {"RUNNING", "UNKNOWN", "COMPENSATION_FAILED"})
    /\ Len(outbox[f.exec]) < MaxEvents

MarkManualRecovery(f, since) ==
    /\ CanEscalate(f)
    /\ \/ /\ Backend = "memory"
          /\ Store(f, since, [by_execution[f.exec] EXCEPT !.status = "UNKNOWN",
                                                   !.manual = TRUE],
                   "EXECUTION_UNKNOWN")
       \/ /\ Backend = "postgres"
          /\ Store(f, since, [by_execution[f.exec] EXCEPT !.manual = TRUE],
                   "MANUAL_RECOVERY_REQUIRED")

\* status_event_fact: the event of the execution with the latest created_at.
StatusEventFact(e) == outbox[e][Len(outbox[e])]

-----------------------------------------------------------------------------
(* What the ledger promises whoever calls it *)

LedgerTypeOK ==
    /\ by_execution \in [ExecIds -> ExecutionRecord]
    /\ by_idempotency \in [Keys -> ExecIds \cup {None}]
    /\ next_fence \in Nat
    /\ outbox \in [ExecIds -> Seq(EventTypes)]

\* A key has at most one execution, and the index and the records agree: the
\* index never dangles (the StoreFailure branch of reserve is unreachable) and
\* no record exists that its own key would not find again on a retry.
OneExecutionPerKey ==
    /\ \A k \in Keys : by_idempotency[k] # None =>
          /\ Live(by_idempotency[k])
          /\ by_execution[by_idempotency[k]].key = k
    /\ \A e \in ExecIds : Live(e) => by_idempotency[by_execution[e].key] = e

\* No two executions of the ledger share a fence token, and every token of an
\* execution is behind the counter that mints the next one.  It holds of the
\* executions the ledger knows: after from_snapshot a token issued since the
\* snapshot may be minted again, for an execution the ledger has lost.
FencesDistinct ==
    /\ \A e \in ExecIds : Live(e) => by_execution[e].token < next_fence
    /\ \A e1, e2 \in ExecIds :
          Live(e1) /\ Live(e2) /\ by_execution[e1].token = by_execution[e2].token
             => e1 = e2

\* An outcome belongs to exactly one start: attempt counts the PREPARED ->
\* RUNNING transitions, so a RUNNING, UNKNOWN or SUCCEEDED record was started
\* once, a PREPARED one never, and no record twice.
StartedAtMostOnce ==
    \A e \in ExecIds : Live(e) =>
        /\ by_execution[e].attempt <= 1
        /\ by_execution[e].status = "PREPARED" => by_execution[e].attempt = 0
        /\ by_execution[e].status \in {"RUNNING", "UNKNOWN", "SUCCEEDED"}
              => by_execution[e].attempt = 1

\* Result and evidence are on the record exactly when it is SUCCEEDED.
SuccessCarriesEvidence ==
    \A e \in ExecIds :
        /\ by_execution[e].evidence <=> by_execution[e].status = "SUCCEEDED"
        /\ by_execution[e].result <=> by_execution[e].status = "SUCCEEDED"

\* The outbox tells how every execution went, in whatever order the events'
\* transactions began: the latest event is the reservation exactly while the
\* record is PREPARED (what the PEP is asked to authorize), there is a RUNNING
\* event exactly if the execution was started, a SUCCEEDED or FAILED one exactly
\* if the record has that status, and an UNKNOWN one if and only if the outcome
\* is, or was before it was reconciled, unknown.  Which event is the latest does
\* not tell more: a FAILED record may have a RUNNING event as its latest.
EventsTellOutcome ==
    \A e \in ExecIds : Live(e) =>
        LET told == ToSet(outbox[e])
            status == by_execution[e].status
        IN /\ StatusEventFact(e) = "EXECUTION_RESERVED" <=> status = "PREPARED"
           /\ "EXECUTION_RUNNING" \in told <=> by_execution[e].attempt = 1
           /\ "EXECUTION_SUCCEEDED" \in told <=> status = "SUCCEEDED"
           /\ "EXECUTION_FAILED" \in told <=> status = "FAILED"
           /\ "EXECUTION_UNKNOWN" \in told => status \in {"UNKNOWN", "SUCCEEDED"}
           /\ status = "UNKNOWN" => "EXECUTION_UNKNOWN" \in told
=============================================================================
