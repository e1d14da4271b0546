----------------------------- MODULE ToolProxy -----------------------------
(***************************************************************************)
(* The production tool proxy (rust/crates/tool-proxy, production.rs and    *)
(* the /v1/tools/execute handler of server.rs): the durable invocation     *)
(* store, the service that drives one request through it, the recovery     *)
(* task, and the target system the connector talks to.                     *)
(*                                                                         *)
(* A call is one HTTP request.  Between two of its store transactions any  *)
(* other call, the recovery task or the target may move; a call may stop   *)
(* after any of them (dropped connection, 960 s limit, dead process, store *)
(* error before or after the commit).                                      *)
(***************************************************************************)
EXTENDS Identifiers

CONSTANTS
    Calls,      \* calls of the proxy
    KeyOf,      \* the key of each call
    RequestOf,  \* the canonical request digest of each call
    InstanceOf  \* the proxy instance (execution_owner) that serves each call

ASSUME ToolProxyAssumption ==
    /\ KeyOf \in [Calls -> Keys]
    /\ \A p \in Calls : RequestOf[p] # None /\ InstanceOf[p] # None

VARIABLES
    inv,     \* tool_proxy_invocations: one row per key, state "NONE" if absent
    ppc,     \* where each call is in ProductionToolProxyService::execute
    reply,   \* the class of the HTTP response each call got
    op       \* the target operation each call dispatched, if any

proxyVars == <<inv, ppc, reply, op>>

InvocationState == {"PREPARED", "EXECUTING", "SUCCEEDED", "FAILED", "UNKNOWN"}

\* lease: execution_lease_until is NULL, in the future or in the past.
Invocation ==
    [state : InvocationState \cup {"NONE"},
     request : {RequestOf[p] : p \in Calls} \cup {None},
     owner : {InstanceOf[p] : p \in Calls} \cup {None},
     lease : {"none", "live", "expired"}]

\* 200; 403; 422; 409; 503 or no response at all.
Replies == {"none", "OK", "REFUSED", "REJECTED", "CONFLICT", "UNAVAILABLE"}

CallPoints == {"idle", "prepare", "preflight", "mark_failed", "mark_executing",
               "run", "await", "succeed", "mark_unknown", "done"}

ProxyInit ==
    /\ inv = [k \in Keys |-> [state |-> "NONE", request |-> None,
                              owner |-> None, lease |-> "none"]]
    /\ ppc = [p \in Calls |-> "idle"]
    /\ reply = [p \in Calls |-> "none"]
    /\ op = [p \in Calls |-> "none"]

Row(p) == inv[KeyOf[p]]
Goto(p, point) == ppc' = [ppc EXCEPT ![p] = point]
Respond(p, r) ==
    /\ ppc' = [ppc EXCEPT ![p] = "done"]
    /\ reply' = [reply EXCEPT ![p] = r]
SetRow(p, row) == inv' = [inv EXCEPT ![KeyOf[p]] = row]

ProxyReceive(p) ==
    /\ ppc[p] = "idle"
    /\ Goto(p, "prepare")
    /\ UNCHANGED <<inv, reply, op>>

\* The handler authenticates the peer and compares headers and body before it
\* looks at the store: 403, or 409 for an unusable idempotency key.
ProxyRefuses(p) ==
    /\ ppc[p] = "prepare"
    /\ \E r \in {"REFUSED", "CONFLICT"} : Respond(p, r)
    /\ UNCHANGED <<inv, op>>

-----------------------------------------------------------------------------
(* PostgresInvocationStore::prepare, under the key's advisory lock *)

PrepareNew(p) ==
    /\ ppc[p] = "prepare"
    /\ Row(p).state = "NONE"
    /\ SetRow(p, [state |-> "PREPARED", request |-> RequestOf[p],
                  owner |-> None, lease |-> "none"])
    /\ Goto(p, "preflight")
    /\ UNCHANGED <<reply, op>>

\* The same request again: a PREPARED row is retried, anything that may have
\* reached the target is not.
PrepareAgain(p) ==
    /\ ppc[p] = "prepare"
    /\ Row(p).state # "NONE"
    /\ Row(p).request = RequestOf[p]
    /\ \/ /\ Row(p).state = "PREPARED"
          /\ Goto(p, "preflight")
          /\ UNCHANGED reply
       \/ Row(p).state \in {"EXECUTING", "UNKNOWN"} /\ Respond(p, "CONFLICT")
       \/ Row(p).state = "SUCCEEDED" /\ Respond(p, "OK")
       \/ Row(p).state = "FAILED" /\ Respond(p, "REJECTED")
    /\ UNCHANGED <<inv, op>>

\* The key under another request: IdempotencyConflict.
PrepareConflict(p) ==
    /\ ppc[p] = "prepare"
    /\ Row(p).state # "NONE"
    /\ Row(p).request # RequestOf[p]
    /\ Respond(p, "CONFLICT")
    /\ UNCHANGED <<inv, op>>

-----------------------------------------------------------------------------
(* ToolProxy::preflight: authorization, registry, arguments, credential.     *)
(* Deterministic rejections end in mark_failed; other errors are a Dependency *)
(* error (ProxyAborts).                                                       *)

Preflight(p) ==
    /\ ppc[p] = "preflight"
    /\ \E point \in {"mark_executing", "mark_failed"} : Goto(p, point)
    /\ UNCHANGED <<inv, reply, op>>

\* Mutant: mark_failed without its WHERE clause.
InvocationMarkFailedAlways(p) ==
    /\ ppc[p] = "mark_failed"
    /\ SetRow(p, [Row(p) EXCEPT !.state = "FAILED"])
    /\ Respond(p, "REJECTED")
    /\ UNCHANGED op

\* mark_failed accepts only a PREPARED row nobody owns; otherwise StateConflict.
InvocationMarkFailed(p) ==
    /\ ppc[p] = "mark_failed"
    /\ \/ /\ Row(p).state = "PREPARED" /\ Row(p).owner = None
          /\ SetRow(p, [Row(p) EXCEPT !.state = "FAILED"])
          /\ Respond(p, "REJECTED")
       \/ /\ ~(Row(p).state = "PREPARED" /\ Row(p).owner = None)
          /\ Respond(p, "CONFLICT")
          /\ UNCHANGED inv
    /\ UNCHANGED op

\* Mutant: mark_executing without its WHERE clause.
InvocationMarkExecutingAlways(p) ==
    /\ ppc[p] = "mark_executing"
    /\ SetRow(p, [Row(p) EXCEPT !.state = "EXECUTING", !.owner = InstanceOf[p],
                                !.lease = "live"])
    /\ Goto(p, "run")
    /\ UNCHANGED <<reply, op>>

InvocationMarkExecuting(p) ==
    /\ ppc[p] = "mark_executing"
    /\ \/ /\ Row(p).state = "PREPARED" /\ Row(p).owner = None
          /\ SetRow(p, [Row(p) EXCEPT !.state = "EXECUTING", !.owner = InstanceOf[p],
                                      !.lease = "live"])
          /\ Goto(p, "run")
          /\ UNCHANGED reply
       \/ /\ ~(Row(p).state = "PREPARED" /\ Row(p).owner = None)
          /\ Respond(p, "CONFLICT")
          /\ UNCHANGED inv
    /\ UNCHANGED op

-----------------------------------------------------------------------------
(* ToolProxy::run_prepared and the target *)

\* The authorization expired or the secret lease failed: nothing was sent.
RunRefused(p) ==
    /\ ppc[p] = "run"
    /\ Goto(p, "mark_unknown")
    /\ UNCHANGED <<inv, reply, op>>

\* connector.execute sends the operation.
RunDispatches(p) ==
    /\ ppc[p] = "run"
    /\ op' = [op EXCEPT ![p] = "sent"]
    /\ Goto(p, "await")
    /\ UNCHANGED <<inv, reply>>

\* The target performs or loses the operation, whether or not anybody still
\* waits for it (external).
TargetPerforms(p) ==
    /\ op[p] = "sent"
    /\ \E outcome \in {"performed", "lost"} : op' = [op EXCEPT ![p] = outcome]
    /\ UNCHANGED <<inv, ppc, reply>>

\* Mutant: the connector's acknowledgement is taken for the result.
RunSucceedsEarly(p) ==
    /\ ppc[p] = "await"
    /\ Goto(p, "succeed")
    /\ UNCHANGED <<inv, reply, op>>

\* A verified, filtered and schema-valid result needs a performed operation.
RunSucceeds(p) ==
    /\ ppc[p] = "await"
    /\ op[p] = "performed"
    /\ Goto(p, "succeed")
    /\ UNCHANGED <<inv, reply, op>>

\* Timeout, connector error, lease revocation failure or unacceptable output:
\* any of them may come before or after the operation is performed.
RunFails(p) ==
    /\ ppc[p] = "await"
    /\ Goto(p, "mark_unknown")
    /\ UNCHANGED <<inv, reply, op>>

\* Mutant: ownership is checked, the state is not.
OwnsRow(p) == Row(p).owner = InstanceOf[p]

OwnsExecuting(p) == Row(p).state = "EXECUTING" /\ Row(p).owner = InstanceOf[p]

InvocationSucceed(p) ==
    /\ ppc[p] = "succeed"
    /\ \/ /\ OwnsExecuting(p)
          /\ SetRow(p, [Row(p) EXCEPT !.state = "SUCCEEDED", !.lease = "none"])
          /\ Respond(p, "OK")
       \/ /\ ~OwnsExecuting(p)
          /\ Respond(p, "CONFLICT")
          /\ UNCHANGED inv
    /\ UNCHANGED op

\* Both outcomes of mark_unknown, UNKNOWN and StateConflict, are a 409.
InvocationMarkUnknown(p) ==
    /\ ppc[p] = "mark_unknown"
    /\ \/ /\ OwnsExecuting(p)
          /\ SetRow(p, [Row(p) EXCEPT !.state = "UNKNOWN", !.lease = "none"])
       \/ /\ ~OwnsExecuting(p)
          /\ UNCHANGED inv
    /\ Respond(p, "CONFLICT")
    /\ UNCHANGED op

\* The call ends where it stands: a store or dependency error, the time limit,
\* a dropped connection or a dead process.
ProxyAborts(p) ==
    /\ ppc[p] \notin {"idle", "done"}
    /\ Respond(p, "UNAVAILABLE")
    /\ UNCHANGED <<inv, op>>

-----------------------------------------------------------------------------
(* Leases and the recovery task (at start-up and every five seconds) *)

LeaseExpires(k) ==
    /\ inv[k].lease = "live"
    /\ inv' = [inv EXCEPT ![k].lease = "expired"]
    /\ UNCHANGED <<ppc, reply, op>>

\* Mutant: the recovery query looks for rows nobody owns.
RecoverUnowned(k) ==
    /\ inv[k].state = "EXECUTING" /\ inv[k].lease = "expired" /\ inv[k].owner = None
    /\ inv' = [inv EXCEPT ![k].state = "UNKNOWN", ![k].lease = "none"]
    /\ UNCHANGED <<ppc, reply, op>>

RecoverExpiredExecuting(k) ==
    /\ inv[k].state = "EXECUTING" /\ inv[k].lease = "expired"
    /\ inv' = [inv EXCEPT ![k].state = "UNKNOWN", ![k].lease = "none"]
    /\ UNCHANGED <<ppc, reply, op>>

ProxyStep(p) ==
    \/ ProxyRefuses(p)
    \/ PrepareNew(p) \/ PrepareAgain(p) \/ PrepareConflict(p)
    \/ Preflight(p) \/ InvocationMarkFailed(p) \/ InvocationMarkExecuting(p)
    \/ RunRefused(p) \/ RunDispatches(p) \/ RunSucceeds(p) \/ RunFails(p)
    \/ InvocationSucceed(p) \/ InvocationMarkUnknown(p)
    \/ ProxyAborts(p)

\* What happens to the store and the target without any call.
ProxyBackground ==
    \/ \E p \in Calls : TargetPerforms(p)
    \/ \E k \in Keys : LeaseExpires(k) \/ RecoverExpiredExecuting(k)

ProxyNext ==
    \/ \E p \in Calls : ProxyReceive(p) \/ ProxyStep(p)
    \/ ProxyBackground

\* Leases run out, the recovery task keeps running.
ProxyFairness ==
    \A k \in Keys : WF_proxyVars(LeaseExpires(k)) /\ WF_proxyVars(RecoverExpiredExecuting(k))

ProxySpec == ProxyInit /\ [][ProxyNext]_proxyVars /\ ProxyFairness

-----------------------------------------------------------------------------
ProxyTypeOK ==
    /\ inv \in [Keys -> Invocation]
    /\ ppc \in [Calls -> CallPoints]
    /\ reply \in [Calls -> Replies]
    /\ op \in [Calls -> {"none", "sent", "performed", "lost"}]

\* At most one call per key ever reaches the target, whatever is retried,
\* aborted or recovered, and the row shows it as executing or beyond.
AtMostOneDispatch ==
    \A p, q \in Calls : KeyOf[p] = KeyOf[q] /\ op[p] # "none" =>
        /\ op[q] # "none" => p = q
        /\ Row(p).owner = InstanceOf[p]
        /\ Row(p).state \in {"EXECUTING", "SUCCEEDED", "UNKNOWN"}

\* A rejection is a proof of absence: once the row is FAILED or some call was
\* answered 422, no call of that key has reached the target.
RejectedMeansNotDispatched ==
    \A p \in Calls :
        reply[p] = "REJECTED" \/ Row(p).state = "FAILED" =>
            \A q \in Calls : KeyOf[q] = KeyOf[p] => op[q] = "none"

\* A success, first-hand or replayed, is a fact of the target.
SuccessMeansPerformed ==
    \A p \in Calls :
        reply[p] = "OK" \/ Row(p).state = "SUCCEEDED" =>
            \E q \in Calls : KeyOf[q] = KeyOf[p] /\ op[q] = "performed"

\* No invocation stays EXECUTING: it settles, or its lease expires and the
\* recovery task marks it UNKNOWN.
ExecutingSettles ==
    \A k \in Keys : inv[k].state = "EXECUTING" ~> inv[k].state # "EXECUTING"

-----------------------------------------------------------------------------
(* The refinement mapping *)

Some(k, state) == \E p \in Calls : KeyOf[p] = k /\ op[p] = state

Effect(k) ==
    IF Some(k, "performed") THEN "performed"
    ELSE IF Some(k, "lost") THEN "lost"
    ELSE IF Some(k, "sent") THEN "sent"
    ELSE "none"

Verdict(k) ==
    IF inv[k].state \in {"SUCCEEDED", "FAILED", "UNKNOWN"} THEN inv[k].state
    ELSE "open"

Once == INSTANCE EffectOnce WITH effect <- [k \in Keys |-> Effect(k)],
                                 verdict <- [k \in Keys |-> Verdict(k)]

\* The proxy implements EffectOnce: seen through the mapping, every step of a
\* call, of the recovery task or of the target is one of its steps or none.
ImplementsEffectOnce == Once!Spec
=============================================================================
