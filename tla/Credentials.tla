---------------------------- MODULE Credentials ----------------------------
(***************************************************************************)
(* The workload credential authority of rust/crates/identity               *)
(* (production.rs): single-use credentials of one agent and one task,      *)
(* their consumption by the tool proxy, and the ways to revoke them: the   *)
(* credential, its task, its agent or its tenant.                          *)
(*                                                                         *)
(* Operations are transactions at READ COMMITTED.  An action is the part   *)
(* of one between two points where it can wait: the advisory locks of the  *)
(* idempotency key and of the task, the row locks of the tenant's epoch,   *)
(* of the agent and of the credential.  What a transaction has written is  *)
(* visible to others when it commits.  Signatures and scopes are valid;    *)
(* signing keys, sealed responses and event rows are left out.             *)
(***************************************************************************)
EXTENDS Naturals, FiniteSets

CONSTANTS
    Sessions,   \* database connections serving requests
    Handles,    \* credentials, named by the idempotency key of their issue
    UseKeys,    \* idempotency keys of consume requests
    MaxEpoch,   \* how often the agent's revocation epoch moves
    NoOne       \* a credential that was not issued

\* A row of credential_handles, and the subject kinds of identity_revocations.
Credential == [uses : SUBSET UseKeys, revoked : BOOLEAN, epoch : Nat]
Scopes == {"tenant", "agent", "task"}

ASSUME CredentialsAssumption ==
    /\ MaxEpoch \in Nat
    /\ NoOne \notin Sessions \cup Handles \cup Credential
    /\ Handles \cap Scopes = {}

VARIABLES
    credentials,  \* credential_handles: uses so far, revoked_at, claimed epoch
    revocations,  \* identity_revocations: "tenant", "agent", "task", handles
    task,         \* identity_task_lifecycle.state
    epoch,        \* agent_principals.revocation_epoch
    expired,      \* expires_at of the issued credentials has passed
    tx            \* what each session is doing

vars == <<credentials, revocations, task, epoch, expired, tx>>
dbVars == <<credentials, revocations, task, epoch, expired>>

Terminal == {"CANCELED", "KILLED"}
TaskTargets == {"PAUSED", "ACTIVE"} \cup Terminal

\* A request: the operation and what it is about.  Lifecycle requests carry a new
\* idempotency key each; an answered key changes nothing.
Requests ==
    [op : {"issue", "revoke"}, about : Handles, key : {NoOne}]
      \cup [op : {"consume"}, about : Handles, key : UseKeys]
      \cup [op : {"task"}, about : TaskTargets, key : {NoOne}]
      \cup [op : {"agent", "tenant"}, about : {NoOne}, key : {NoOne}]

\* A session that serves a request keeps the time and the epoch its caller knew, and
\* the credentials its UPDATE has seen.
Idle == [pc |-> "idle"]

Issued == {h \in Handles : credentials[h] # NoOne}
Covering(h) == Scopes \cup {h}

Init ==
    /\ credentials = [h \in Handles |-> NoOne]
    /\ revocations = {}
    /\ task = "ACTIVE"
    /\ epoch = 0
    /\ expired = FALSE
    /\ tx = [s \in Sessions |-> Idle]

-----------------------------------------------------------------------------
(* Transactions and locks *)

\* Session s is at one of the given points of one of the given operations.
At(s, pcs, ops) == tx[s].pc \in pcs /\ tx[s].req.op \in ops

Others(s) == Sessions \ {s}

\* identity:task advisory lock: held by issue and by set_task_state.
TaskLockFree(s) ==
    \A t \in Others(s) : ~At(t, {"checked", "updating"}, {"issue", "task"})

\* identity_tenant_epochs: issue takes it FOR SHARE, a first tenant revoke updates it.
EpochUnlocked(s) == \A t \in Others(s) : ~At(t, {"updating"}, {"tenant"})
EpochUnshared(s) ==
    \A t \in Others(s) : ~At(t, {"checked"}, {"issue"}) /\ ~At(t, {"updating"}, {"tenant"})

\* agent_principals: consume takes the row FOR SHARE, revoke of the agent FOR UPDATE.
AgentUnlocked(s) == \A t \in Others(s) : ~At(t, {"updating"}, {"agent"})
AgentUnshared(s) ==
    AgentUnlocked(s) /\ \A t \in Others(s) : ~At(t, {"checked"}, {"consume"})

\* credential_handles: the row of h is locked by no consume in progress.
HandleUnlocked(s, h) ==
    \A t \in Others(s) :
      ~(At(t, {"handle_locked", "checked"}, {"consume"}) /\ tx[t].req.about = h)

\* A response was stored for the key, in the transaction that made the change.
Answered(r) ==
    CASE r.op = "issue" -> credentials[r.about] # NoOne
      [] r.op = "consume" ->
           credentials[r.about] # NoOne /\ r.key \in credentials[r.about].uses
      [] OTHER -> FALSE

\* Commit or rollback; what is written is said by the action.
Finish(s) == tx' = [tx EXCEPT ![s] = Idle]
Refuse(s) == Finish(s) /\ UNCHANGED dbVars
Goto(s, pc) == tx' = [tx EXCEPT ![s].pc = pc] /\ UNCHANGED dbVars

\* The server reads the clock; the caller knows an epoch.
Arrive(s) ==
    /\ tx[s].pc = "idle"
    /\ \E r \in Requests, e \in 0 .. epoch :
         /\ r.op # "issue" => e = epoch
         /\ r.op \in {"consume", "revoke"} => credentials[r.about] # NoOne
         /\ tx' = [tx EXCEPT ![s] = [pc |-> "arrived", req |-> r, late |-> expired,
                                     epoch |-> e, seen |-> {}]]
    /\ UNCHANGED dbVars

\* lock_idempotency, then load_response.
Begin(s) ==
    /\ tx[s].pc = "arrived"
    /\ tx[s].req.op \in {"issue", "consume"} =>
         \A t \in Others(s) : tx[t].pc \notin {"idle", "arrived"} => tx[t].req # tx[s].req
    /\ IF Answered(tx[s].req) THEN Refuse(s) ELSE Goto(s, "begun")

\* A failed statement, a lost connection, the victim of a deadlock.
Abort(s) == tx[s].pc # "idle" /\ Refuse(s)

-----------------------------------------------------------------------------
(* issue *)

\* Mutant: no lock is taken before the task and the revocations are read.
IssueChecksUnlocked(s) ==
    /\ At(s, {"begun"}, {"issue"})
    /\ IF task \in Terminal \cup {"PAUSED"} \/ Scopes \cap revocations # {}
         THEN Refuse(s) ELSE Goto(s, "checked")

\* require_issue_allowed: the task's lock, the tenant's epoch FOR SHARE, then the
\* state of the task and the revocations as they are committed now.
IssueChecks(s) ==
    /\ At(s, {"begun"}, {"issue"})
    /\ TaskLockFree(s)
    /\ EpochUnlocked(s)
    /\ IF task \in Terminal \cup {"PAUSED"} \/ Scopes \cap revocations # {}
         THEN Refuse(s) ELSE Goto(s, "checked")

\* The agent's row FOR SHARE comes after that, then its epoch and the INSERT.
Issue(s) ==
    LET h == tx[s].req.about IN
    /\ At(s, {"checked"}, {"issue"})
    /\ AgentUnlocked(s)
    /\ Finish(s)
    /\ credentials' = IF tx[s].epoch = epoch
                        THEN [credentials EXCEPT ![h] =
                                [uses |-> {}, revoked |-> FALSE, epoch |-> epoch]]
                        ELSE credentials
    /\ UNCHANGED <<revocations, task, epoch, expired>>

-----------------------------------------------------------------------------
(* consume *)

\* SELECT .. FROM credential_handles .. FOR UPDATE; a revoked one is refused.
ConsumeLocksHandle(s) ==
    LET h == tx[s].req.about IN
    /\ At(s, {"begun"}, {"consume"})
    /\ HandleUnlocked(s, h)
    /\ IF credentials[h].revoked THEN Refuse(s) ELSE Goto(s, "handle_locked")

\* Mutant: revoked_at of the credential is trusted, identity_revocations not read.
ConsumeChecksHandleOnly(s) ==
    LET h == tx[s].req.about IN
    /\ At(s, {"handle_locked"}, {"consume"})
    /\ AgentUnlocked(s)
    /\ IF tx[s].late \/ credentials[h].epoch # epoch \/ task \in Terminal
         THEN Refuse(s) ELSE Goto(s, "checked")

\* require_consumption_allowed: expiry by the time the server read, the agent's row
\* FOR SHARE and its epoch, the revocations and the task.
ConsumeChecks(s) ==
    LET h == tx[s].req.about IN
    /\ At(s, {"handle_locked"}, {"consume"})
    /\ AgentUnlocked(s)
    /\ IF \/ tx[s].late
          \/ credentials[h].epoch # epoch
          \/ Covering(h) \cap revocations # {}
          \/ task \in Terminal
         THEN Refuse(s) ELSE Goto(s, "checked")

\* remaining_uses = 1, the conditional UPDATE and the stored response.
Consume(s) ==
    LET h == tx[s].req.about IN
    /\ At(s, {"checked"}, {"consume"})
    /\ Finish(s)
    /\ credentials' = IF credentials[h].uses = {} /\ ~credentials[h].revoked
                        THEN [credentials EXCEPT ![h].uses = {tx[s].req.key}]
                        ELSE credentials
    /\ UNCHANGED <<revocations, task, epoch, expired>>

-----------------------------------------------------------------------------
(* Revocations *)

Revoked(hs) ==
    [h \in Handles |-> IF h \in hs THEN [credentials[h] EXCEPT !.revoked = TRUE]
                                   ELSE credentials[h]]

\* revoke_credential: the row, its mark and its revocation.
RevokeCredential(s) ==
    LET h == tx[s].req.about IN
    /\ At(s, {"begun"}, {"revoke"})
    /\ HandleUnlocked(s, h)
    /\ credentials' = Revoked({h})
    /\ revocations' = revocations \cup {h}
    /\ Finish(s)
    /\ UNCHANGED <<task, epoch, expired>>

\* An UPDATE of credential_handles sees the rows committed when it starts.
StartUpdate(s) ==
    /\ tx' = [tx EXCEPT ![s].pc = "updating", ![s].seen = Issued]
    /\ UNCHANGED dbVars

\* set_task_state under the task's lock: a terminal state admits no other, PAUSED
\* and ACTIVE are stored at once, the terminal ones go on to the credentials.
SetTaskState(s) ==
    LET target == tx[s].req.about IN
    /\ At(s, {"begun"}, {"task"})
    /\ TaskLockFree(s)
    /\ IF task \in Terminal /\ task # target THEN Refuse(s)
       ELSE IF target \in Terminal THEN StartUpdate(s)
       ELSE Finish(s) /\ task' = target
              /\ UNCHANGED <<credentials, revocations, epoch, expired>>

\* revoke_agent_or_tenant: the agent's row FOR UPDATE, or the revocation row and,
\* if it is new, the tenant's epoch.
RevokeAgentOrTenant(s) ==
    /\ At(s, {"begun"}, {"agent", "tenant"})
    /\ IF tx[s].req.op = "agent" THEN AgentUnshared(s)
       ELSE "tenant" \notin revocations => EpochUnshared(s)
    /\ StartUpdate(s)

\* The UPDATE waits for locked rows, then the transaction commits.
FinishRevocation(s) ==
    LET r == tx[s].req IN
    /\ tx[s].pc = "updating"
    /\ \A h \in tx[s].seen : HandleUnlocked(s, h)
    /\ credentials' = Revoked(tx[s].seen)
    /\ revocations' = revocations \cup {r.op}
    /\ task' = IF r.op = "task" THEN r.about ELSE task
    /\ Finish(s)
    /\ UNCHANGED <<epoch, expired>>

-----------------------------------------------------------------------------
(* The surroundings *)

\* Another service owns agent_principals and moves the agent's epoch.
AgentEpochMoves ==
    /\ epoch < MaxEpoch
    /\ \A s \in Sessions :
         ~At(s, {"checked"}, {"consume"}) /\ ~At(s, {"updating"}, {"agent"})
    /\ epoch' = epoch + 1
    /\ UNCHANGED <<credentials, revocations, task, expired, tx>>

TimePasses ==
    /\ ~expired
    /\ Issued # {}
    /\ expired' = TRUE
    /\ UNCHANGED <<credentials, revocations, task, epoch, tx>>

SessionStep(s) ==
    \/ Arrive(s) \/ Begin(s) \/ Abort(s)
    \/ IssueChecks(s) \/ Issue(s)
    \/ ConsumeLocksHandle(s) \/ ConsumeChecks(s) \/ Consume(s)
    \/ RevokeCredential(s) \/ SetTaskState(s) \/ RevokeAgentOrTenant(s)
    \/ FinishRevocation(s)

Next == AgentEpochMoves \/ TimePasses \/ \E s \in Sessions : SessionStep(s)

Spec == Init /\ [][Next]_vars

-----------------------------------------------------------------------------
(* Properties *)

\* "Concurrent uses produce exactly one new success", and that success commits while
\* nothing that covers the credential is revoked: consume holds the credential and
\* the agent locked from its checks to its commit.
ConsumedOnceUnrevoked ==
    [][\A h \in Issued :
         credentials'[h].uses # credentials[h].uses =>
           /\ credentials[h].uses = {}
           /\ ~credentials[h].revoked
           /\ Covering(h) \cap revocations = {}
           /\ task \notin Terminal
           /\ credentials[h].epoch = epoch]_vars

\* Once a task is cancelled or killed, or its tenant revoked, no credential of it is
\* left live, the ones being issued at that moment included.
RevocationLeavesNoneLive ==
    task \in Terminal \/ {"task", "tenant"} \cap revocations # {} =>
      \A h \in Issued : credentials[h].revoked
=============================================================================
