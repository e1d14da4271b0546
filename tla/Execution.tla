----------------------------- MODULE Execution -----------------------------
(***************************************************************************)
(* ExecutionCoordinator::execute (rust/crates/production-runtime,          *)
(* execution.rs) composed with the ledger and the tool proxy it drives.    *)
(*                                                                         *)
(* A call c is one POST to the execution service.  Retries and polls of    *)
(* the durable worker present the same idempotency key again, while an     *)
(* earlier call may still be running, so the calls of one key interleave   *)
(* at every await.  A call sends at most one tool request, and that        *)
(* request is call c of ToolProxy: its digest covers an authorization      *)
(* minted for this call, so two calls never carry the same RequestOf.      *)
(***************************************************************************)
EXTENDS Ledger, ToolProxy

CONSTANT HashOf   \* the canonical action hash of each call's materialized action

ASSUME ExecutionAssumption ==
    /\ HashOf \in [Calls -> Hashes]
    /\ \A c, d \in Calls : RequestOf[c] = RequestOf[d] => c = d

VARIABLES
    cpc,       \* the await each call stands before
    held,      \* the execution (and with it the fence) reserve returned
    since,     \* the events it had when the call came to its next mark
    event,     \* the ledger event the call's authorization cites
    seen,      \* the status of the record the call read last
    outcome,   \* what the caller got: a status and the event it cites
    receipts,  \* calls whose evidence event is in the evidence store
    active     \* the production activation receipt is valid

coordVars == <<cpc, held, since, event, seen, outcome, receipts, active>>
vars == <<ledgerVars, proxyVars, coordVars>>

Points == {"idle", "reserve", "get_existing", "facts", "authorize",
           "authorized", "start", "started", "tool", "evidence", "succeed",
           "fail", "fail_revoked", "unknown", "get", "cite", "done"}

MarkPoints == {"start", "succeed", "fail", "fail_revoked", "unknown"}

NoOutcome == [status |-> "none", event |-> "none"]
ErrorOutcome == [status |-> "ERROR", event |-> "none"]

Init ==
    /\ LedgerInit
    /\ ProxyInit
    /\ cpc = [c \in Calls |-> "idle"]
    /\ held = [c \in Calls |-> None]
    /\ since = [c \in Calls |-> 0]
    /\ event = [c \in Calls |-> "none"]
    /\ seen = [c \in Calls |-> "none"]
    /\ outcome = [c \in Calls |-> NoOutcome]
    /\ receipts = {}
    /\ active = TRUE

Fence(c) == FenceOf(held[c])

\* The call comes to an await.  If that is a mark of the ledger, its transaction
\* begins at some time from now on: after the events the execution has by now.
MoveTo(c, point) ==
    /\ cpc' = [cpc EXCEPT ![c] = point]
    /\ since' = [since EXCEPT ![c] = IF point \in MarkPoints THEN Len(outbox[held[c]]) ELSE 0]

\* The call ends and its caller gets the result.
Return(c, result) ==
    /\ cpc' = [cpc EXCEPT ![c] = "done"]
    /\ since' = [since EXCEPT ![c] = 0]
    /\ outcome' = [outcome EXCEPT ![c] = result]

-----------------------------------------------------------------------------
(* Up to the reservation *)

\* Activation, validation, materialization, registry, schema, pre-approval,
\* approval consumption, compensation plan, activation again: a call that
\* passes them all comes to reserve.  Those that do not return an error.
Admit(c) ==
    /\ cpc[c] = "idle"
    /\ active
    /\ MoveTo(c, "reserve")
    /\ UNCHANGED <<ledgerVars, proxyVars, held, event, seen, outcome, receipts, active>>

AdmitFails(c) ==
    /\ cpc[c] = "idle"
    /\ Return(c, ErrorOutcome)
    /\ UNCHANGED <<ledgerVars, proxyVars, held, event, seen, receipts, active>>

ReserveFirst(c, e) ==
    /\ cpc[c] = "reserve"
    /\ ReserveNew(e, KeyOf[c], HashOf[c])
    /\ held' = [held EXCEPT ![c] = e]
    /\ MoveTo(c, "facts")
    /\ UNCHANGED <<proxyVars, event, seen, outcome, receipts, active>>

ReserveAgain(c) ==
    /\ cpc[c] = "reserve"
    /\ ReserveReturnsExisting(KeyOf[c], HashOf[c])
    /\ held' = [held EXCEPT ![c] = by_idempotency[KeyOf[c]]]
    /\ MoveTo(c, "get_existing")
    /\ UNCHANGED <<ledgerVars, proxyVars, event, seen, outcome, receipts, active>>

ReserveConflict(c) ==
    /\ cpc[c] = "reserve"
    /\ ReserveConflicts(KeyOf[c], HashOf[c])
    /\ Return(c, ErrorOutcome)
    /\ UNCHANGED <<ledgerVars, proxyVars, held, event, seen, receipts, active>>

ReserveFails(c) ==
    /\ cpc[c] = "reserve"
    /\ ReserveAborted(KeyOf[c])
    /\ Return(c, ErrorOutcome)
    /\ UNCHANGED <<proxyVars, held, event, seen, receipts, active>>

\* An existing reservation is taken over only while it is still PREPARED.
GetExisting(c) ==
    /\ cpc[c] = "get_existing"
    /\ seen' = [seen EXCEPT ![c] = by_execution[held[c]].status]
    /\ MoveTo(c, IF seen'[c] = "PREPARED" THEN "facts" ELSE "cite")
    /\ UNCHANGED <<ledgerVars, proxyVars, held, event, outcome, receipts, active>>

-----------------------------------------------------------------------------
(* Authorization *)

\* The signed facts have expired: mark_failed.
FactsExpired(c) ==
    /\ cpc[c] = "facts"
    /\ MoveTo(c, "fail")
    /\ UNCHANGED <<ledgerVars, proxyVars, held, event, seen, outcome, receipts, active>>

\* status_event_fact, then the request to the PEP that cites it.
CaptureEvent(c) ==
    /\ cpc[c] = "facts"
    /\ event' = [event EXCEPT ![c] = StatusEventFact(held[c])]
    /\ MoveTo(c, "authorize")
    /\ UNCHANGED <<ledgerVars, proxyVars, held, seen, outcome, receipts, active>>

\* The PEP (external) grants, and what it signed is bound to this request.
Authorize(c) ==
    /\ cpc[c] = "authorize"
    /\ MoveTo(c, "authorized")
    /\ UNCHANGED <<ledgerVars, proxyVars, held, event, seen, outcome, receipts, active>>

\* It denies, or validate_authorization refuses its answer: mark_failed.  A PEP
\* that cannot be reached leaves the reservation PREPARED (CallStops).
AuthorizationInvalid(c) ==
    /\ cpc[c] = "authorize"
    /\ MoveTo(c, "fail")
    /\ UNCHANGED <<ledgerVars, proxyVars, held, event, seen, outcome, receipts, active>>

\* Mutant: the tool is called before the execution is marked as started.
CheckActivationThenCall(c) ==
    /\ cpc[c] = "authorized"
    /\ MoveTo(c, IF active THEN "started" ELSE "fail_revoked")
    /\ UNCHANGED <<ledgerVars, proxyVars, held, event, seen, outcome, receipts, active>>

CheckActivation(c) ==
    /\ cpc[c] = "authorized"
    /\ MoveTo(c, IF active THEN "start" ELSE "fail_revoked")
    /\ UNCHANGED <<ledgerVars, proxyVars, held, event, seen, outcome, receipts, active>>

-----------------------------------------------------------------------------
(* The side effect *)

\* Mutant: the result of mark_started is ignored.
StartRegardless(c) ==
    /\ cpc[c] = "start"
    /\ MarkStarted(Fence(c), since[c]) \/ (~CanStart(Fence(c)) /\ UNCHANGED ledgerVars)
    /\ MoveTo(c, "started")
    /\ UNCHANGED <<proxyVars, held, event, seen, outcome, receipts, active>>

\* The call that moves the record to RUNNING goes on; any other reports it.
Start(c) ==
    /\ cpc[c] = "start"
    /\ \/ /\ MarkStarted(Fence(c), since[c])
          /\ MoveTo(c, "started")
       \/ /\ ~CanStart(Fence(c))
          /\ MoveTo(c, "get")
          /\ UNCHANGED ledgerVars
    /\ UNCHANGED <<proxyVars, held, event, seen, outcome, receipts, active>>

\* Mutant: the event is read again when the tool request is built.
SendToolRequestRereading(c) ==
    /\ cpc[c] = "started" /\ active
    /\ event' = [event EXCEPT ![c] = StatusEventFact(held[c])]
    /\ ProxyReceive(c)
    /\ MoveTo(c, "tool")
    /\ UNCHANGED <<ledgerVars, held, seen, outcome, receipts, active>>

\* The activation is read again, then the tool request leaves.
SendToolRequest(c) ==
    /\ cpc[c] = "started"
    /\ active
    /\ ProxyReceive(c)
    /\ MoveTo(c, "tool")
    /\ UNCHANGED <<ledgerVars, held, event, seen, outcome, receipts, active>>

StartedRevoked(c) ==
    /\ cpc[c] = "started"
    /\ ~active
    /\ MoveTo(c, "fail_revoked")
    /\ UNCHANGED <<ledgerVars, proxyVars, held, event, seen, outcome, receipts, active>>

\* HttpExecutionPort::post: 401, 403, 409 and 422 are AuthorizationDenied.
Denied(r) == r \in {"REFUSED", "REJECTED", "CONFLICT"}

\* Mutant: a conflict is taken for the replay of an earlier success.
ToolAnswersConflictIsReplay(c) ==
    /\ cpc[c] = "tool" /\ ppc[c] = "done"
    /\ \/ reply[c] \in {"OK", "CONFLICT"} /\ MoveTo(c, "evidence")
       \/ reply[c] \in {"REFUSED", "REJECTED"} /\ MoveTo(c, "fail")
       \/ reply[c] = "UNAVAILABLE" /\ MoveTo(c, "unknown")
    /\ UNCHANGED <<ledgerVars, proxyVars, held, event, seen, outcome, receipts, active>>

ToolAnswers(c) ==
    /\ cpc[c] = "tool"
    /\ ppc[c] = "done"
    /\ \/ reply[c] = "OK" /\ MoveTo(c, "evidence")
       \/ reply[c] = "OK" /\ MoveTo(c, "unknown")     \* result or receipt invalid
       \/ Denied(reply[c]) /\ MoveTo(c, "fail")
       \/ reply[c] = "UNAVAILABLE" /\ MoveTo(c, "unknown")
    /\ UNCHANGED <<ledgerVars, proxyVars, held, event, seen, outcome, receipts, active>>

\* The client gives up after 20 s; the proxy may go on for up to 960 s.
ToolTimesOut(c) ==
    /\ cpc[c] = "tool"
    /\ MoveTo(c, "unknown")
    /\ UNCHANGED <<ledgerVars, proxyVars, held, event, seen, outcome, receipts, active>>

\* The evidence service (external) appends the event and its receipt verifies.
AppendEvidence(c) ==
    /\ cpc[c] = "evidence"
    /\ receipts' = receipts \cup {c}
    /\ MoveTo(c, "succeed")
    /\ UNCHANGED <<ledgerVars, proxyVars, held, event, seen, outcome, active>>

\* The answer is lost, or validate_evidence refuses it, whether or not the event
\* was appended: mark_unknown.
EvidenceInvalid(c) ==
    /\ cpc[c] = "evidence"
    /\ receipts' \in {receipts, receipts \cup {c}}
    /\ MoveTo(c, "unknown")
    /\ UNCHANGED <<ledgerVars, proxyVars, held, event, seen, outcome, active>>

-----------------------------------------------------------------------------
(* Recording the end.  Each mark is followed by `?`: a refused transition is  *)
(* returned as an error, an accepted one by a fresh read of the record.       *)

Succeed(c) ==
    /\ cpc[c] = "succeed"
    /\ \/ MarkSucceeded(Fence(c), since[c]) /\ MoveTo(c, "get") /\ UNCHANGED outcome
       \/ ~CanSucceed(Fence(c)) /\ Return(c, ErrorOutcome) /\ UNCHANGED ledgerVars
    /\ UNCHANGED <<proxyVars, held, event, seen, receipts, active>>

Fail(c) ==
    /\ cpc[c] = "fail"
    /\ \/ MarkFailed(Fence(c), since[c]) /\ MoveTo(c, "get") /\ UNCHANGED outcome
       \/ ~CanFail(Fence(c)) /\ Return(c, ErrorOutcome) /\ UNCHANGED ledgerVars
    /\ UNCHANGED <<proxyVars, held, event, seen, receipts, active>>

FailRevoked(c) ==
    /\ cpc[c] = "fail_revoked"
    /\ MarkFailed(Fence(c), since[c]) \/ (~CanFail(Fence(c)) /\ UNCHANGED ledgerVars)
    /\ Return(c, ErrorOutcome)
    /\ UNCHANGED <<proxyVars, held, event, seen, receipts, active>>

BecomeUnknown(c) ==
    /\ cpc[c] = "unknown"
    /\ \/ MarkUnknown(Fence(c), since[c]) /\ MoveTo(c, "get") /\ UNCHANGED outcome
       \/ ~CanBecomeUnknown(Fence(c)) /\ Return(c, ErrorOutcome) /\ UNCHANGED ledgerVars
    /\ UNCHANGED <<proxyVars, held, event, seen, receipts, active>>

\* outcome_from_record: the record is read, then, separately, its latest event.
GetRecord(c) ==
    /\ cpc[c] = "get"
    /\ seen' = [seen EXCEPT ![c] = by_execution[held[c]].status]
    /\ MoveTo(c, "cite")
    /\ UNCHANGED <<ledgerVars, proxyVars, held, event, outcome, receipts, active>>

CiteEvent(c) ==
    /\ cpc[c] = "cite"
    /\ Return(c, [status |-> seen[c], event |-> StatusEventFact(held[c])])
    /\ UNCHANGED <<ledgerVars, proxyVars, held, event, seen, receipts, active>>

\* A store or dependency error, a missing fact, a dropped connection or a dead
\* process: the call ends where it stands, before or after its last write.
CallStops(c) ==
    /\ cpc[c] \notin {"idle", "done"}
    /\ Return(c, ErrorOutcome)
    /\ UNCHANGED <<ledgerVars, proxyVars, held, event, seen, receipts, active>>

\* The activation watcher revokes or renews the receipt (external).
ActivationChanges ==
    /\ active' = ~active
    /\ UNCHANGED <<ledgerVars, proxyVars, cpc, held, since, event, seen, outcome, receipts>>

-----------------------------------------------------------------------------
CallStep(c) ==
    \/ Admit(c) \/ AdmitFails(c)
    \/ \E e \in ExecIds : ReserveFirst(c, e)
    \/ ReserveAgain(c) \/ ReserveConflict(c) \/ ReserveFails(c) \/ GetExisting(c)
    \/ FactsExpired(c) \/ CaptureEvent(c) \/ Authorize(c) \/ AuthorizationInvalid(c)
    \/ CheckActivation(c) \/ Start(c) \/ SendToolRequest(c) \/ StartedRevoked(c)
    \/ ToolAnswers(c) \/ ToolTimesOut(c) \/ AppendEvidence(c) \/ EvidenceInvalid(c)
    \/ Succeed(c) \/ Fail(c) \/ FailRevoked(c) \/ BecomeUnknown(c)
    \/ GetRecord(c) \/ CiteEvent(c) \/ CallStops(c)

ProxyMoves ==
    /\ (\E p \in Calls : ProxyStep(p)) \/ ProxyBackground
    /\ UNCHANGED <<ledgerVars, coordVars>>

Next == (\E c \in Calls : CallStep(c)) \/ ProxyMoves \/ ActivationChanges

Spec == Init /\ [][Next]_vars

-----------------------------------------------------------------------------
Status(k) ==
    IF by_idempotency[k] = None THEN "ABSENT" ELSE by_execution[by_idempotency[k]].status
Sent(c) == ppc[c] # "idle"
Performed(c) == op[c] = "performed"

\* However many calls of a key overlap, crash and are retried, at most one of
\* them ever sends a tool request: the mark_started fence decides it before the
\* proxy's own idempotency check is reached.
OneToolRequestPerKey ==
    \A c, d \in Calls : KeyOf[c] = KeyOf[d] /\ Sent(c) /\ Sent(d) => c = d

\* The condition under which a retry takes a reservation over is safe: while
\* the record is PREPARED no call of its key has asked the proxy for anything.
PreparedMeansUntouched ==
    \A c \in Calls : Sent(c) => Status(KeyOf[c]) \notin {"ABSENT", "PREPARED"}

\* A SUCCEEDED record stands for an operation the target performed, an
\* invocation the proxy recorded as SUCCEEDED and an appended evidence event,
\* all of one and the same call.
SucceededIsReal ==
    \A k \in Keys : Status(k) = "SUCCEEDED" =>
        /\ inv[k].state = "SUCCEEDED"
        /\ \E c \in receipts : KeyOf[c] = k /\ Performed(c)

\* "A later RUNNING transition must not silently replace the fact authorized by
\* the PEP": the event a sent tool request carries is the RESERVED one.
ToolRequestCitesReservation ==
    \A c \in Calls : Sent(c) => event[c] = "EXECUTION_RESERVED"

\* What callers are told is durable: a SUCCEEDED or FAILED outcome is the
\* record's status ever after, and so no two calls of a key are told different
\* ends.  A SUCCEEDED outcome cites the SUCCEEDED event; a FAILED one the FAILED
\* event or, where the failing transaction began before the starting one and
\* committed after it, the RUNNING event that is then the latest.
TerminalOutcomesAgree ==
    \A c \in Calls : outcome[c].status \in {"SUCCEEDED", "FAILED"} =>
        /\ Status(KeyOf[c]) = outcome[c].status
        /\ outcome[c].status = "SUCCEEDED" => outcome[c].event = "EXECUTION_SUCCEEDED"
        /\ outcome[c].status = "FAILED" =>
              outcome[c].event \in {"EXECUTION_FAILED", "EXECUTION_RUNNING"}

-----------------------------------------------------------------------------
(* What the repository says of this code and the code does not do *)

\* "Never map network timeout directly to FAILED ... reconcile to
\* SUCCEEDED/FAILED only with evidence" (manual-recovery-runbook.md): a FAILED
\* execution had no effect on the target.
FailedMeansNoEffect ==
    \A c \in Calls : Status(KeyOf[c]) = "FAILED" => ~Performed(c)
=============================================================================
