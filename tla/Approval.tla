------------------------------ MODULE Approval ------------------------------
(***************************************************************************)
(* PostgresApprovalStore of rust/crates/enterprise-approval: one approval  *)
(* case, the decisions of its approvers, its single-use grant and the      *)
(* consumption of that grant.  Every operation is one database transaction *)
(* and the module keeps what makes them interleave: the advisory lock of   *)
(* the idempotency scope, the row locks of the case and of the grant in    *)
(* the order each operation takes them, what was read under them, and the  *)
(* time each handler read before it waited for any lock.                   *)
(*                                                                         *)
(* Cases share nothing but the tenant, so one case is modelled.  Left out: *)
(* signatures and digests (taken as valid), principal assertions, the      *)
(* evidence outbox (module EvidenceDelivery), listing and reading.         *)
(***************************************************************************)
EXTENDS Naturals, FiniteSets

CONSTANTS
    Sessions,          \* database connections serving requests
    Approvers,         \* subjects with strong authentication
    Eligible,          \* the approvers SoDEngine::validate admits
    Clients,           \* services that consume grants
    IdemKeys,          \* idempotency keys
    Requests,          \* the requests callers make, again and again
    MinimumApprovers,  \* policy.minimum_approvers
    NoOne              \* absence of a session, request, receipt or grant

ApprovalDecision == {"APPROVE", "REJECT", "POST_REVIEWED"}

\* A row of approval_grants: the uses left and whether it is revoked.
Grant == [uses : 0 .. 1, revoked : BOOLEAN]

\* A request: the operation, who asks (where the scope names it), the
\* idempotency key, what is asked for.
RequestTypes ==
    [op : {"decide"}, who : Approvers, key : IdemKeys, body : ApprovalDecision]
      \cup [op : {"issue", "revoke"}, who : {NoOne}, key : IdemKeys, body : {NoOne}]
      \cup [op : {"consume"}, who : Clients, key : IdemKeys, body : {NoOne}]

ASSUME ApprovalAssumption ==
    /\ Requests \subseteq RequestTypes
    /\ Eligible \subseteq Approvers
    /\ MinimumApprovers \in Nat \ {0}
    /\ IsFiniteSet(Approvers)
    /\ NoOne \notin Sessions \cup Approvers \cup Clients \cup ApprovalDecision \cup Grant

VARIABLES
    expired,       \* expires_at of the case (and of its grant) has passed
    status,        \* approval_cases.status, "ABSENT" before create_case
    emergency,     \* policy.approval_type = Emergency
    decisions,     \* approval_decisions: what each approver decided, or NoOne
    grant,         \* approval_grants: the grant of the case, or NoOne
    consumptions,  \* approval_consumptions: the requests that consumed the grant
    receipts,      \* approval_mutation_receipts: the scopes and keys answered for good
    case_lock,     \* the session that holds the row lock of the case
    grant_lock,    \* the session that holds the row lock of the grant
    tx             \* what each session is doing

dbVars == <<status, emergency, decisions, grant, consumptions, receipts>>
vars == <<expired, dbVars, case_lock, grant_lock, tx>>

\* A session that serves a request keeps where it stands, the time it read, and
\* what it read of the case and of the grant.
Idle == [pc |-> "idle"]

Init ==
    /\ expired = FALSE
    /\ status = "ABSENT"
    /\ emergency = FALSE
    /\ decisions = [a \in Approvers |-> NoOne]
    /\ grant = NoOne
    /\ consumptions = {}
    /\ receipts = {}
    /\ case_lock = NoOne
    /\ grant_lock = NoOne
    /\ tx = [s \in Sessions |-> Idle]

-----------------------------------------------------------------------------
(* Idempotency: the advisory lock and approval_mutation_receipts *)

\* The scope string and the key of a request.  The scope names the approver for
\* decide, the client for consume, the case or the grant alone otherwise.
Scope(r) == <<r.op, r.who, r.key>>

Answered(r) == Scope(r) \in receipts

\* Past lock_idempotency, up to the end of its transaction.
InTransaction(s) == tx[s].pc \notin {"idle", "arrived"}

\* pg_advisory_xact_lock is granted: no other transaction holds this key.
LockIdempotency(s) ==
    /\ tx[s].pc = "arrived"
    /\ \A t \in Sessions \ {s} :
         InTransaction(t) => Scope(tx[t].req) # Scope(tx[s].req)

\* Commit or roll back: the session gives up its locks and is idle.
Finish(s) ==
    /\ tx' = [tx EXCEPT ![s] = Idle]
    /\ case_lock' = IF case_lock = s THEN NoOne ELSE case_lock
    /\ grant_lock' = IF grant_lock = s THEN NoOne ELSE grant_lock

\* The transaction wrote nothing, or what it wrote is rolled back.
Refuse(s) == Finish(s) /\ UNCHANGED <<expired, dbVars>>

\* Commit with save_replay: the answer is kept for the key.
Answer(s) == Finish(s) /\ receipts' = receipts \cup {Scope(tx[s].req)} /\ UNCHANGED expired

\* create_case: the id is minted in the transaction, so nobody meets it earlier.
CreateCase ==
    /\ status = "ABSENT"
    /\ emergency' \in BOOLEAN
    /\ status' = IF emergency' THEN "POST_REVIEW_REQUIRED" ELSE "PENDING"
    /\ UNCHANGED <<expired, decisions, grant, consumptions, receipts, case_lock,
                   grant_lock, tx>>

\* A handler reads the clock, then asks for a connection and for the locks.
Arrive(s) ==
    /\ tx[s].pc = "idle"
    /\ status # "ABSENT"
    /\ \E r \in Requests :
         tx' = [tx EXCEPT ![s] =
                  [pc |-> "arrived", req |-> r, late |-> expired, status |-> "ABSENT",
                   decisions |-> [a \in Approvers |-> NoOne], grant |-> NoOne]]
    /\ UNCHANGED <<expired, dbVars, case_lock, grant_lock>>

\* replay: a key answered before is answered again, or refused when it carries
\* another request.  Nothing is written.
Replay(s) == LockIdempotency(s) /\ Answered(tx[s].req) /\ Refuse(s)

\* A fresh key: decide and issue_grant go for the row of the case, revoke_grant
\* and consume_grant for the row of the grant.
Begin(s) ==
    /\ LockIdempotency(s)
    /\ ~Answered(tx[s].req)
    /\ tx' = [tx EXCEPT ![s].pc =
                IF tx[s].req.op \in {"decide", "issue"} THEN "lock_case"
                                                        ELSE "lock_grant"]
    /\ UNCHANGED <<expired, dbVars, case_lock, grant_lock>>

-----------------------------------------------------------------------------
(* Row locks *)

\* Mutant: the case is read without FOR UPDATE.
LoadCaseUnlocked(s) ==
    /\ tx[s].pc = "lock_case"
    /\ tx' = [tx EXCEPT ![s].pc = "case_read", ![s].status = status,
                        ![s].decisions = decisions]
    /\ UNCHANGED <<expired, dbVars, case_lock, grant_lock>>

\* load_case(.., lock = true): SELECT .. FOR UPDATE, then the decisions.
LoadCase(s) ==
    /\ tx[s].pc = "lock_case"
    /\ case_lock = NoOne
    /\ case_lock' = s
    /\ tx' = [tx EXCEPT ![s].pc = "case_read", ![s].status = status,
                        ![s].decisions = decisions]
    /\ UNCHANGED <<expired, dbVars, grant_lock>>

\* SELECT .. FROM approval_grants .. FOR UPDATE finds the row and locks it.
LoadGrant(s) ==
    /\ tx[s].pc = "lock_grant"
    /\ grant # NoOne
    /\ grant_lock = NoOne
    /\ grant_lock' = s
    /\ tx' = [tx EXCEPT ![s].pc = "grant_read", ![s].grant = grant]
    /\ UNCHANGED <<expired, dbVars, case_lock>>

\* .. or finds none: GrantInvalid for revoke_grant, GrantNotReady for consume_grant.
NoGrant(s) == tx[s].pc = "lock_grant" /\ grant = NoOne /\ Refuse(s)

\* A lost connection, a failed statement, a deadlock victim: rolled back.
Abort(s) == tx[s].pc # "idle" /\ Refuse(s)

-----------------------------------------------------------------------------
(* decide *)

Deciding(s) == tx[s].pc = "case_read" /\ tx[s].req.op = "decide"

Approvals(ds) == {a \in Approvers : ds[a] = "APPROVE"}

\* Past expires_at the case becomes EXPIRED, whatever its status was.  This is
\* committed, with no answer kept for the key.
DecideExpired(s) ==
    /\ Deciding(s)
    /\ tx[s].late
    /\ status' = "EXPIRED"
    /\ Finish(s)
    /\ UNCHANGED <<expired, emergency, decisions, grant, consumptions, receipts>>

\* No second decision of an approver, separation of duties, and the status the
\* decision needs; a post-review also needs an unrevoked grant (grant_exists
\* takes no lock).  Its deadline of 24 hours is behind the expiry test above: the
\* time to live of an emergency case is at most 300 seconds.
MayDecide(s) ==
    LET r == tx[s].req IN
    /\ tx[s].decisions[r.who] = NoOne
    /\ r.who \in Eligible
    /\ IF r.body = "POST_REVIEWED"
         THEN /\ emergency
              /\ tx[s].status = "POST_REVIEW_REQUIRED"
              /\ grant # NoOne /\ ~grant.revoked
         ELSE tx[s].status \in {"PENDING", "POST_REVIEW_REQUIRED"}

NextStatus(s, ds) ==
    CASE tx[s].req.body = "REJECT" -> "REJECTED"
      [] tx[s].req.body = "POST_REVIEWED" -> "APPROVED"
      [] tx[s].req.body = "APPROVE" ->
           IF Cardinality(Approvals(ds)) < MinimumApprovers THEN tx[s].status
           ELSE IF emergency THEN "POST_REVIEW_REQUIRED" ELSE "APPROVED"

Decide(s) ==
    LET r  == tx[s].req
        ds == [tx[s].decisions EXCEPT ![r.who] = r.body]
    IN  /\ Deciding(s)
        /\ ~tx[s].late
        /\ MayDecide(s)
        /\ decisions' = [decisions EXCEPT ![r.who] = r.body]
        /\ status' = NextStatus(s, ds)
        /\ Answer(s)
        /\ UNCHANGED <<emergency, grant, consumptions>>

RefuseDecision(s) == Deciding(s) /\ ~tx[s].late /\ ~MayDecide(s) /\ Refuse(s)

-----------------------------------------------------------------------------
(* issue_grant: the row of the case first, then the row of the grant *)

\* Not expired, an approved status, a quorum of approvals.
GrantReady(s) ==
    /\ ~tx[s].late
    /\ tx[s].status \in {"APPROVED", "POST_REVIEW_REQUIRED"}
    /\ Cardinality(Approvals(tx[s].decisions)) >= MinimumApprovers

Issuing(s) == tx[s].pc = "case_read" /\ tx[s].req.op = "issue"

RefuseIssue(s) == Issuing(s) /\ ~GrantReady(s) /\ Refuse(s)

IssueGrant(s) ==
    /\ Issuing(s)
    /\ GrantReady(s)
    /\ grant = NoOne
    /\ grant' = [uses |-> 1, revoked |-> FALSE]
    /\ Answer(s)
    /\ UNCHANGED <<status, emergency, decisions, consumptions>>

\* The case has its grant: load_grant_by_case waits for its row.
IssueMeetsGrant(s) ==
    /\ Issuing(s)
    /\ GrantReady(s)
    /\ grant # NoOne
    /\ tx' = [tx EXCEPT ![s].pc = "lock_grant"]
    /\ UNCHANGED <<expired, dbVars, case_lock, grant_lock>>

\* The existing grant is handed out again while it is unused and unrevoked.
ReissueGrant(s) ==
    /\ tx[s].pc = "grant_read"
    /\ tx[s].req.op = "issue"
    /\ IF tx[s].grant.uses = 1 /\ ~tx[s].grant.revoked
         THEN Answer(s) /\ UNCHANGED <<status, emergency, decisions, grant, consumptions>>
         ELSE Refuse(s)

-----------------------------------------------------------------------------
(* revoke_grant: the row of the grant, then the UPDATE of the case *)

Revoking(s) == tx[s].pc = "grant_read" /\ tx[s].req.op = "revoke"

\* Revoked before: the stored receipt answers this key too.
RevokeAgain(s) ==
    /\ Revoking(s)
    /\ tx[s].grant.revoked
    /\ Answer(s)
    /\ UNCHANGED <<status, emergency, decisions, grant, consumptions>>

\* verify_grant_signature fails once the grant has expired.
RevokeExpired(s) ==
    Revoking(s) /\ ~tx[s].grant.revoked /\ tx[s].late /\ Refuse(s)

\* Mutant: the status of the case is left as it is.
RevokeGrantAlone(s) ==
    /\ Revoking(s)
    /\ ~tx[s].grant.revoked
    /\ ~tx[s].late
    /\ case_lock = NoOne
    /\ grant' = [uses |-> 0, revoked |-> TRUE]
    /\ Answer(s)
    /\ UNCHANGED <<status, emergency, decisions, consumptions>>

\* The grant's row, then the UPDATE of the case, which waits for its lock.
RevokeGrant(s) ==
    /\ Revoking(s)
    /\ ~tx[s].grant.revoked
    /\ ~tx[s].late
    /\ case_lock = NoOne
    /\ grant' = [uses |-> 0, revoked |-> TRUE]
    /\ status' = "REVOKED"
    /\ Answer(s)
    /\ UNCHANGED <<emergency, decisions, consumptions>>

-----------------------------------------------------------------------------
(* consume_grant: the row of the grant, then the row of the case *)

Consuming(s, pc) == tx[s].pc = pc /\ tx[s].req.op = "consume"

\* Not revoked, not expired, one use left.
Usable(s) == ~tx[s].grant.revoked /\ ~tx[s].late /\ tx[s].grant.uses = 1

ConsumeMeetsGrant(s) ==
    /\ Consuming(s, "grant_read")
    /\ IF Usable(s)
         THEN /\ tx' = [tx EXCEPT ![s].pc = "lock_case"]
              /\ UNCHANGED <<expired, dbVars, case_lock, grant_lock>>
         ELSE Refuse(s)

\* Mutant: a break-glass case rejected since its grant was issued is not refused.
RefusingWithoutRejected == {"REVOKED", "EXPIRED", "CONSUMED"}

Refusing == {"REJECTED", "REVOKED", "EXPIRED", "CONSUMED"}

\* The conditional UPDATE of the grant, the consumption and, unless the grant is
\* break-glass, the status.
ConsumeGrant(s) ==
    /\ Consuming(s, "case_read")
    /\ tx[s].status \notin Refusing
    /\ grant.uses = 1 /\ ~grant.revoked
    /\ grant' = [grant EXCEPT !.uses = 0]
    /\ consumptions' = consumptions \cup {tx[s].req}
    /\ status' = IF emergency THEN status ELSE "CONSUMED"
    /\ Answer(s)
    /\ UNCHANGED <<emergency, decisions>>

RefuseConsumption(s) ==
    /\ Consuming(s, "case_read")
    /\ tx[s].status \in Refusing \/ grant.uses = 0 \/ grant.revoked
    /\ Refuse(s)

-----------------------------------------------------------------------------
\* Time passes expires_at.
Tick ==
    /\ status # "ABSENT"
    /\ ~expired
    /\ expired' = TRUE
    /\ UNCHANGED <<dbVars, case_lock, grant_lock, tx>>

SessionStep(s) ==
    \/ Arrive(s) \/ Replay(s) \/ Begin(s) \/ Abort(s)
    \/ LoadCase(s) \/ LoadGrant(s) \/ NoGrant(s)
    \/ DecideExpired(s) \/ Decide(s) \/ RefuseDecision(s)
    \/ RefuseIssue(s) \/ IssueGrant(s) \/ IssueMeetsGrant(s) \/ ReissueGrant(s)
    \/ RevokeAgain(s) \/ RevokeExpired(s) \/ RevokeGrant(s)
    \/ ConsumeMeetsGrant(s) \/ ConsumeGrant(s) \/ RefuseConsumption(s)

Next == CreateCase \/ Tick \/ \E s \in Sessions : SessionStep(s)

Spec == Init /\ [][Next]_vars

-----------------------------------------------------------------------------
(* Properties *)

\* Approvals that arrive together are all counted: a standard case that holds a
\* quorum is never left PENDING (decide counts what it read under FOR UPDATE).
QuorumDecides ==
    Cardinality(Approvals(decisions)) >= MinimumApprovers => status # "PENDING"

\* The two rows tell one story whatever the order of the transactions: a revoked
\* grant leaves no live case, a consumed one leaves no approved case, and an
\* unused grant belongs to a case that was approved by a quorum.
GrantAndCaseAgree ==
    grant # NoOne =>
      /\ grant.revoked => status \in {"REVOKED", "EXPIRED"}
      /\ consumptions # {} /\ ~emergency => status \in {"CONSUMED", "REVOKED", "EXPIRED"}
      /\ grant.uses = 1 =>
           /\ consumptions = {} /\ ~grant.revoked
           /\ emergency \/ status \in {"APPROVED", "EXPIRED"}
           /\ Cardinality(Approvals(decisions) \cap Eligible) >= MinimumApprovers

\* When the grant is consumed, the case is approved at that very moment: no
\* rejection, revocation or expiry was committed since consume_grant read it, and
\* the grant was not consumed before.
ConsumptionIsAuthorised ==
    [][consumptions' # consumptions =>
         /\ consumptions = {}
         /\ status \in {"APPROVED", "POST_REVIEW_REQUIRED"}
         /\ \A a \in Approvers : decisions[a] # "REJECT"
         /\ ~grant.revoked]_vars
=============================================================================
