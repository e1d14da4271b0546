---------------------------- MODULE ModelGateway ----------------------------
(***************************************************************************)
(* The model execution authority of rust/crates/model-gateway              *)
(* (authority.rs): ModelExecutionAuthority::execute await by await over    *)
(* the PostgreSQL store of requests, budget reservations and the tenant's  *)
(* budget account, and the recovery loop for expired leases.  The          *)
(* reconciliation of provider statements is left out.                      *)
(*                                                                         *)
(* Store operations are transactions at READ COMMITTED.  Where one holds a *)
(* lock that another waits for, it is split at that point: a failing       *)
(* caller holds its reservation row.  now() is the start of the            *)
(* transaction, so whether a lease is live is read before the row is.      *)
(* The binding digests of a retry agree with the stored ones.              *)
(***************************************************************************)
EXTENDS Integers, Sequences, FiniteSets, SequencesExt

CONSTANTS
    Callers,      \* concurrent calls of execute(), on any gateway process
    Processes,    \* gateway processes, each with its recovery task
    Keys,         \* idempotency keys
    Limit,        \* model_budget_accounts.limit_microunits
    MaxCost,      \* maximum_cost_microunits of every request
    NoKey         \* the key of a caller that is not at work

ASSUME GatewayAssumption ==
    /\ Limit \in Nat \ {0} /\ MaxCost \in Nat \ {0}
    /\ NoKey \notin Keys

VARIABLES
    account,      \* model_budget_accounts: reserved and spent
    requests,     \* model_gateway_requests.state by key
    leased,       \* lease_expires_at of the EXECUTING requests is ahead
    reservations, \* model_budget_reservations: state and actual_microunits
    callers,      \* the calls in progress
    calls,        \* ghost: provider invocations by key
    recovery      \* keys each recovery task has read and has yet to settle

storeVars == <<account, requests, leased, reservations>>
vars == <<account, requests, leased, reservations, callers, calls, recovery>>

Costs == 0 .. MaxCost
Away == [pc |-> "away", key |-> NoKey, cost |-> 0, live |-> FALSE]

Init ==
    /\ account = [reserved |-> 0, spent |-> 0]
    /\ requests = [k \in Keys |-> "NONE"]
    /\ leased = [k \in Keys |-> FALSE]
    /\ reservations = [k \in Keys |-> [state |-> "NONE", actual |-> 0]]
    /\ callers = [c \in Callers |-> Away]
    /\ calls = [k \in Keys |-> 0]
    /\ recovery = [p \in Processes |-> <<>>]

-----------------------------------------------------------------------------
(* execute(): prepare, plan, claim, invoke, complete, succeed               *)

Goto(c, pc) == callers' = [callers EXCEPT ![c].pc = pc]
Returns(c) == callers' = [callers EXCEPT ![c] = Away]

\* The row of a reservation is locked by a caller inside fail_before_provider.
ReservationLocked(k) == \E c \in Callers : callers[c].pc = "failing" /\ callers[c].key = k

FitsBudget == account.reserved + account.spent + MaxCost <= Limit

\* A new key reserves its maximum cost with the request, in one transaction.
PrepareNew(c, k) ==
    /\ callers[c] = Away /\ requests[k] = "NONE"
    /\ FitsBudget
    /\ requests' = [requests EXCEPT ![k] = "PREPARED"]
    /\ reservations' = [reservations EXCEPT ![k].state = "RESERVED"]
    /\ account' = [account EXCEPT !.reserved = @ + MaxCost]
    /\ callers' = [callers EXCEPT ![c] = [Away EXCEPT !.pc = "planning", !.key = k]]
    /\ UNCHANGED <<leased, calls, recovery>>

\* A PREPARED request is taken up by whoever retries it; a request in any later state
\* is only reported.
RetryPrepared(c, k) ==
    /\ callers[c] = Away /\ requests[k] = "PREPARED"
    /\ callers' = [callers EXCEPT ![c] = [Away EXCEPT !.pc = "planning", !.key = k]]
    /\ UNCHANGED <<storeVars, calls, recovery>>

\* The planner answers: a valid plan, or an error that releases the request.
Plan(c, valid) ==
    /\ callers[c].pc = "planning"
    /\ Goto(c, IF valid THEN "planned" ELSE "denied")
    /\ UNCHANGED <<storeVars, calls, recovery>>

\* fail_before_provider locks the reservation row first.
FailLocksReservation(c) ==
    LET k == callers[c].key IN
    /\ callers[c].pc = "denied"
    /\ ~ReservationLocked(k)
    /\ IF reservations[k].state = "RESERVED" THEN Goto(c, "failing") ELSE Returns(c)
    /\ UNCHANGED <<storeVars, calls, recovery>>

\* Mutant: the request is failed whatever state it has reached by now.
FailsRegardless(k) == TRUE

\* The UPDATE of the request matches only a PREPARED row.
MayFail(k) == requests[k] = "PREPARED"

FailBeforeProvider(c) ==
    LET k == callers[c].key IN
    /\ callers[c].pc = "failing"
    /\ \/ /\ MayFail(k)
          /\ requests' = [requests EXCEPT ![k] = "FAILED"]
          /\ reservations' = [reservations EXCEPT ![k] = [state |-> "RELEASED", actual |-> 0]]
          /\ account' = [account EXCEPT !.reserved = @ - MaxCost]
       \/ /\ ~MayFail(k)
          /\ UNCHANGED <<requests, reservations, account>>
    /\ Returns(c)
    /\ UNCHANGED <<leased, calls, recovery>>

Claimable(k) == requests[k] = "PREPARED"

Claim(c) ==
    LET k == callers[c].key IN
    /\ callers[c].pc = "planned"
    /\ IF Claimable(k)
       THEN /\ requests' = [requests EXCEPT ![k] = "EXECUTING"]
            /\ leased' = [leased EXCEPT ![k] = TRUE]
            /\ Goto(c, "claimed")
       ELSE UNCHANGED <<requests, leased>> /\ Returns(c)
    /\ UNCHANGED <<account, reservations, calls, recovery>>

\* The provider answers with a valid outcome that costs no more than the maximum.
InvokeSucceeds(c, cost) ==
    /\ callers[c].pc = "claimed"
    /\ calls' = [calls EXCEPT ![callers[c].key] = @ + 1]
    /\ callers' = [callers EXCEPT ![c].pc = "answered", ![c].cost = cost]
    /\ UNCHANGED <<storeVars, recovery>>

\* The call failed, whether or not it reached the provider, or its answer is invalid.
InvokeFails(c, reached) ==
    /\ callers[c].pc = "claimed"
    /\ calls' = [calls EXCEPT ![callers[c].key] = @ + (IF reached THEN 1 ELSE 0)]
    /\ Goto(c, "unknown")
    /\ UNCHANGED <<storeVars, recovery>>

\* Output controls and completion evidence; their failure leaves the outcome unknown.
Complete(c, valid) ==
    /\ callers[c].pc = "answered"
    /\ Goto(c, IF valid THEN "completed" ELSE "unknown")
    /\ UNCHANGED <<storeVars, calls, recovery>>

\* succeed() begins: the lease is compared with the start of this transaction.
SucceedBegins(c) ==
    /\ callers[c].pc = "completed"
    /\ callers' = [callers EXCEPT ![c].pc = "succeeding",
                                  ![c].live = leased[callers[c].key]]
    /\ UNCHANGED <<storeVars, calls, recovery>>

\* Mutant: an answer that arrives after the request was settled is recorded all the same.
LockSettled(k) == requests[k] # "NONE"

\* lock_running.  owner_instance_id names a process, and a request is claimed once:
\* whoever settles an EXECUTING request knows its owner.
LockRunning(k) == requests[k] = "EXECUTING"

Succeed(c) ==
    LET k == callers[c].key
        cost == callers[c].cost IN
    /\ callers[c].pc = "succeeding"
    /\ ~ReservationLocked(k)
    /\ \/ /\ LockRunning(k) /\ callers[c].live /\ cost <= MaxCost
          /\ requests' = [requests EXCEPT ![k] = "SUCCEEDED"]
          /\ leased' = [leased EXCEPT ![k] = FALSE]
          /\ reservations' = [reservations EXCEPT ![k] =
                                [state |-> "FINALIZED", actual |-> cost]]
          /\ account' = [reserved |-> account.reserved - MaxCost,
                         spent |-> account.spent + cost]
       \/ /\ ~(LockRunning(k) /\ callers[c].live /\ cost <= MaxCost)
          /\ UNCHANGED storeVars
    /\ Returns(c)
    /\ UNCHANGED <<calls, recovery>>

\* An outcome nobody knows is charged at the full reservation.
ChargeReservation(k) ==
    /\ reservations' = [reservations EXCEPT ![k] = [state |-> "UNKNOWN", actual |-> MaxCost]]
    /\ account' = [reserved |-> account.reserved - MaxCost,
                   spent |-> account.spent + MaxCost]

MarkUnknown(k) ==
    /\ LockRunning(k) /\ ~ReservationLocked(k)
    /\ requests' = [requests EXCEPT ![k] = "UNKNOWN"]
    /\ leased' = [leased EXCEPT ![k] = FALSE]
    /\ ChargeReservation(k)

CallerMarksUnknown(c) ==
    LET k == callers[c].key IN
    /\ callers[c].pc = "unknown"
    /\ \/ MarkUnknown(k)
       \/ ~LockRunning(k) /\ UNCHANGED storeVars
    /\ Returns(c)
    /\ UNCHANGED <<calls, recovery>>

\* The process dies, the client hangs up, or the database refuses the transaction.
CallerStops(c) ==
    /\ callers[c] # Away
    /\ Returns(c)
    /\ UNCHANGED <<storeVars, calls, recovery>>

-----------------------------------------------------------------------------
(* The recovery loop                                                        *)

LeaseExpires(k) ==
    /\ leased[k]
    /\ leased' = [leased EXCEPT ![k] = FALSE]
    /\ UNCHANGED <<account, requests, reservations, callers, calls, recovery>>

\* Mutant: only leases that are still live are looked at.
ExpiredWhileLive == {k \in Keys : requests[k] = "EXECUTING" /\ leased[k]}

Expired == {k \in Keys : requests[k] = "EXECUTING" /\ ~leased[k]}

\* The expired requests are read in a transaction that is rolled back, so the list is
\* stale when it is worked off.
RecoverScans(p) ==
    /\ recovery[p] = <<>> /\ Expired # {}
    /\ \E batch \in SetToSeqs(Expired) : recovery' = [recovery EXCEPT ![p] = batch]
    /\ UNCHANGED <<storeVars, callers, calls>>

\* One request is settled; an error ends the round, and the next tick scans again.
RecoverNext(p) ==
    LET k == Head(recovery[p]) IN
    /\ recovery[p] # <<>>
    /\ \/ MarkUnknown(k) /\ recovery' = [recovery EXCEPT ![p] = Tail(@)]
       \/ ~LockRunning(k) /\ UNCHANGED storeVars /\ recovery' = [recovery EXCEPT ![p] = <<>>]
    /\ UNCHANGED <<callers, calls>>

\* The process restarts, or loses the database, in the middle of a round.
RecoveryStops(p) ==
    /\ recovery[p] # <<>>
    /\ recovery' = [recovery EXCEPT ![p] = <<>>]
    /\ UNCHANGED <<storeVars, callers, calls>>

-----------------------------------------------------------------------------
Execute(c) ==
    \/ \E k \in Keys : PrepareNew(c, k) \/ RetryPrepared(c, k)
    \/ \E valid \in BOOLEAN : Plan(c, valid) \/ Complete(c, valid)
    \/ FailLocksReservation(c) \/ FailBeforeProvider(c)
    \/ Claim(c)
    \/ \E cost \in Costs : InvokeSucceeds(c, cost)
    \/ \E reached \in BOOLEAN : InvokeFails(c, reached)
    \/ SucceedBegins(c) \/ Succeed(c) \/ CallerMarksUnknown(c)

Next ==
    \/ \E c \in Callers : Execute(c) \/ CallerStops(c)
    \/ \E k \in Keys : LeaseExpires(k)
    \/ \E p \in Processes : RecoverScans(p) \/ RecoverNext(p) \/ RecoveryStops(p)

\* A lease ends with time; the recovery task of every process ticks for ever, and not
\* every round is cut short.  A failing caller ends its transaction or loses its
\* connection, and with it the lock.
Fairness ==
    /\ \A k \in Keys : WF_vars(LeaseExpires(k))
    /\ \A p \in Processes : WF_vars(RecoverScans(p)) /\ SF_vars(RecoverNext(p))
    /\ \A c \in Callers : WF_vars(FailBeforeProvider(c))

Spec == Init /\ [][Next]_vars /\ Fairness

-----------------------------------------------------------------------------
(* Properties                                                               *)

Held == {k \in Keys : reservations[k].state = "RESERVED"}

\* What the reservations charge, one microunit at a time: as many as the sum of
\* their actual_microunits.
Charged == {u \in Keys \X (1 .. MaxCost) : u[2] <= reservations[u[1]].actual}

\* The tenant's account is the sum of its reservations, the held ones at their maximum
\* and the settled ones at their cost, and never exceeds the limit: whatever retries,
\* late answers, denials and recovery rounds meet in prepare, fail_before_provider,
\* succeed and mark_unknown.
BudgetBalances ==
    /\ account.reserved = MaxCost * Cardinality(Held)
    /\ account.spent = Cardinality(Charged)
    /\ account.reserved + account.spent <= Limit

\* The provider is called at most once for an idempotency key, and once it has been
\* called the key is paid for: its reservation is held, finalized at the cost the
\* provider reported, or charged in full, never released.
ProviderCallIsPaidFor ==
    \A k \in Keys :
        /\ calls[k] <= 1
        /\ calls[k] = 1 => /\ reservations[k].state \in {"RESERVED", "FINALIZED", "UNKNOWN"}
                           /\ requests[k] \in {"EXECUTING", "SUCCEEDED", "UNKNOWN"}

\* A request that was claimed is settled, even if its caller died: the recovery task
\* finds it once its lease has expired.
ExecutingIsSettled ==
    \A k \in Keys : requests[k] = "EXECUTING" ~> requests[k] \in {"SUCCEEDED", "UNKNOWN"}
=============================================================================
