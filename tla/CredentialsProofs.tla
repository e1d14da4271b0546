------------------------- MODULE CredentialsProofs -------------------------
(***************************************************************************)
(* Safety of the credential authority for every number of connections,     *)
(* credentials and idempotency keys.                                       *)
(*                                                                         *)
(* The two properties speak of committed rows.  What makes them hold is    *)
(* what the transactions in progress exclude: an issue past its checks and *)
(* a revocation of its task or tenant (so the revoking UPDATE sees every   *)
(* credential there is), and a consumption past its checks and whatever    *)
(* would revoke what it consumes.                                          *)
(***************************************************************************)
EXTENDS Credentials, TLAPS

Points == {"arrived", "begun", "handle_locked", "checked", "updating"}
Serving ==
    [pc : Points, req : Requests, late : BOOLEAN, epoch : Nat, seen : SUBSET Handles]

TypeOK ==
    /\ credentials \in [Handles -> Credential \cup {NoOne}]
    /\ revocations \subseteq Scopes \cup Handles
    /\ task \in TaskTargets
    /\ epoch \in Nat
    /\ expired \in BOOLEAN
    /\ tx \in [Sessions -> Serving \cup {Idle}]

Begun(s) == tx[s].pc \in Points \ {"arrived"}

\* Each point belongs to some of the operations.
PointFitsRequest(s) ==
    /\ tx[s].pc = "handle_locked" => tx[s].req.op = "consume"
    /\ tx[s].pc = "checked" => tx[s].req.op \in {"issue", "consume"}
    /\ tx[s].pc = "updating" => tx[s].req.op \in Scopes
    /\ At(s, {"updating"}, {"task"}) => tx[s].req.about \in Terminal

\* What is consumed or revoked was issued, what is being issued was not.
TargetExists(s) ==
    /\ At(s, Points, {"consume", "revoke"}) => credentials[tx[s].req.about] # NoOne
    /\ Begun(s) /\ tx[s].req.op = "issue" => credentials[tx[s].req.about] = NoOne

\* The advisory lock of the idempotency key: one transaction issues a credential.
IssuesAlone(s) ==
    \A t \in Others(s) :
        Begun(s) /\ tx[s].req.op = "issue" /\ Begun(t) => tx[t].req # tx[s].req

\* From its checks to its INSERT an issue excludes the end of the task and the
\* revocation of the tenant.
IssueUnrevoked(s) ==
    At(s, {"checked"}, {"issue"}) =>
        /\ task \notin Terminal
        /\ {"task", "tenant"} \cap revocations = {}
        /\ \A t \in Sessions : ~At(t, {"updating"}, {"task", "tenant"})

\* So the UPDATE that ends a task or revokes a tenant misses no credential.
UpdateSeesAll(s) ==
    /\ tx[s].pc = "updating" => tx[s].seen \subseteq Issued
    /\ At(s, {"updating"}, {"task", "tenant"}) => tx[s].seen = Issued

\* From its checks to its commit a consumption is covered by no revocation.
ConsumeUnrevoked(s) ==
    At(s, {"checked"}, {"consume"}) =>
        /\ Covering(tx[s].req.about) \cap revocations = {}
        /\ task \notin Terminal
        /\ credentials[tx[s].req.about].epoch = epoch
        /\ \A t \in Sessions : ~At(t, {"updating"}, {"agent"})

SessionSound(s) ==
    /\ PointFitsRequest(s)
    /\ TargetExists(s)
    /\ IssuesAlone(s)
    /\ IssueUnrevoked(s)
    /\ UpdateSeesAll(s)
    /\ ConsumeUnrevoked(s)

IInv ==
    /\ TypeOK
    /\ \A s \in Sessions : SessionSound(s)
    /\ RevocationLeavesNoneLive

-----------------------------------------------------------------------------
\* The initial state satisfies the inductive invariant.
LEMMA InitEstablishes == Init => IInv
  <1> SUFFICES ASSUME Init PROVE IInv
    OBVIOUS
  <1>1. TypeOK
    BY DEF Init, TypeOK, TaskTargets
  <1>2. \A s \in Sessions : tx[s].pc = "idle"
    BY DEF Init, Idle
  <1>3. \A s \in Sessions : SessionSound(s)
    BY <1>2 DEF SessionSound, PointFitsRequest, TargetExists, IssuesAlone, IssueUnrevoked,
       UpdateSeesAll, ConsumeUnrevoked, At, Begun, Points
  <1>4. RevocationLeavesNoneLive
    BY DEF Init, RevocationLeavesNoneLive, Terminal
  <1> QED
    BY <1>1, <1>3, <1>4 DEF IInv

\* A step of session s that writes nothing: the others find what they relied on
\* as long as s does not start an UPDATE against what they hold.
LEMMA QuietStep ==
  ASSUME IInv, NEW s \in Sessions, UNCHANGED dbVars,
         tx' = [tx EXCEPT ![s] = tx'[s]], tx'[s] \in Serving \cup {Idle},
         SessionSound(s)',
         At(s, {"updating"}, {"task", "tenant"})' =>
             \A t \in Others(s) : ~At(t, {"checked"}, {"issue"}),
         At(s, {"updating"}, {"agent"})' =>
             \A t \in Others(s) : ~At(t, {"checked"}, {"consume"})
  PROVE  IInv'
  <1>1. TypeOK'
    BY DEF IInv, TypeOK, dbVars
  <1>2. \A t \in Others(s) : tx'[t] = tx[t]
    BY DEF IInv, TypeOK, Others
  <1>3. ASSUME NEW t \in Others(s) PROVE SessionSound(t)'
    <2>0. SessionSound(t) /\ t \in Sessions /\ tx'[t] = tx[t]
      BY <1>2 DEF IInv, Others
    <2>1. PointFitsRequest(t)' /\ TargetExists(t)' /\ UpdateSeesAll(t)'
      BY <2>0 DEF SessionSound, PointFitsRequest, TargetExists, UpdateSeesAll, At, Begun,
         Issued, dbVars
    <2>2. IssuesAlone(t)'
      <3>1. IssuesAlone(s)'
        BY DEF SessionSound
      <3>2. ASSUME NEW u \in Others(t), u # s, Begun(t)', tx'[t].req.op = "issue", Begun(u)'
            PROVE  tx'[u].req # tx'[t].req
        BY <1>2, <2>0, <3>2 DEF SessionSound, IssuesAlone, Begun, Others
      <3>3. Begun(t)' /\ tx'[t].req.op = "issue" /\ Begun(s)' => tx'[s].req # tx'[t].req
        BY <3>1, <2>0 DEF IssuesAlone, Others
      <3> QED
        BY <3>2, <3>3 DEF IssuesAlone
    <2>3. IssueUnrevoked(t)'
      BY <1>2, <2>0 DEF SessionSound, IssueUnrevoked, At, Others, dbVars
    <2>4. ConsumeUnrevoked(t)'
      BY <1>2, <2>0 DEF SessionSound, ConsumeUnrevoked, At, Others, Covering, dbVars
    <2> QED
      BY <2>1, <2>2, <2>3, <2>4 DEF SessionSound
  <1>4. RevocationLeavesNoneLive'
    BY DEF IInv, RevocationLeavesNoneLive, Issued, dbVars
  <1> QED
    BY <1>1, <1>3, <1>4 DEF IInv, Others

\* A session that ends its transaction holds nothing any more.
LEMMA IdleIsSound ==
  ASSUME NEW s \in Sessions, tx'[s] = Idle
  PROVE  SessionSound(s)'
  BY DEF SessionSound, PointFitsRequest, TargetExists, IssuesAlone, IssueUnrevoked,
     UpdateSeesAll, ConsumeUnrevoked, At, Begun, Points, Idle

\* A rollback, or a refusal.
LEMMA RefusePreserves ==
  ASSUME IInv, NEW s \in Sessions, Refuse(s)
  PROVE  IInv'
  <1>1. tx' = [tx EXCEPT ![s] = tx'[s]] /\ tx'[s] = Idle /\ UNCHANGED dbVars
    BY DEF Refuse, Finish, IInv, TypeOK
  <1>2. ~At(s, {"updating"}, {"task", "tenant"})' /\ ~At(s, {"updating"}, {"agent"})'
    BY <1>1 DEF At, Idle
  <1> QED
    BY <1>1, <1>2, IdleIsSound, QuietStep

\* What a session finds in its own record when it goes on to another point.
LEMMA GotoKeepsRequest ==
  ASSUME IInv, NEW s \in Sessions, tx[s].pc # "idle", NEW pc \in Points, Goto(s, pc)
  PROVE  /\ tx[s] \in Serving /\ tx' = [tx EXCEPT ![s] = tx'[s]] /\ tx'[s] \in Serving
         /\ tx'[s].pc = pc /\ tx'[s].req = tx[s].req /\ tx'[s].seen = tx[s].seen
         /\ \A t \in Others(s) : tx'[t] = tx[t]
         /\ UNCHANGED dbVars
  <1>1. tx[s] \in Serving
    BY DEF IInv, TypeOK, Idle
  <1>2. tx' = [tx EXCEPT ![s] = [tx[s] EXCEPT !.pc = pc]] /\ UNCHANGED dbVars
    BY DEF Goto
  <1>3. [tx[s] EXCEPT !.pc = pc] \in Serving
    BY <1>1 DEF Serving
  <1> QED
    BY <1>1, <1>2, <1>3 DEF IInv, TypeOK, Others, Serving

-----------------------------------------------------------------------------
(* Steps that write nothing *)

\* A request arrives; it has begun nothing.
LEMMA ArrivePreserves == ASSUME IInv, NEW s \in Sessions, Arrive(s) PROVE IInv'
  <1>1. PICK r \in Requests, e \in 0 .. epoch :
          /\ r.op \in {"consume", "revoke"} => credentials[r.about] # NoOne
          /\ tx' = [tx EXCEPT ![s] = [pc |-> "arrived", req |-> r, late |-> expired,
                                      epoch |-> e, seen |-> {}]]
    BY DEF Arrive
  <1> DEFINE rec == [pc |-> "arrived", req |-> r, late |-> expired, epoch |-> e, seen |-> {}]
  <1>2. e \in Nat /\ expired \in BOOLEAN
    BY DEF IInv, TypeOK
  <1>3. rec \in Serving /\ rec.pc = "arrived" /\ rec.req = r
    BY <1>2 DEF Serving, Points
  <1>4. tx'[s] = rec /\ tx' = [tx EXCEPT ![s] = tx'[s]] /\ UNCHANGED dbVars
    BY <1>1 DEF Arrive, IInv, TypeOK
  <1> HIDE DEF rec
  <1>5. SessionSound(s)'
    BY <1>1, <1>3, <1>4
       DEF SessionSound, PointFitsRequest, TargetExists, IssuesAlone, IssueUnrevoked,
           UpdateSeesAll, ConsumeUnrevoked, At, Begun, Points, dbVars
  <1> QED
    BY <1>3, <1>4, <1>5, QuietStep DEF At

\* The idempotency lock.
LEMMA BeginPreserves == ASSUME IInv, NEW s \in Sessions, Begin(s) PROVE IInv'
  <1>1. CASE Refuse(s)
    BY <1>1, RefusePreserves
  <1>2. CASE Goto(s, "begun") /\ ~Answered(tx[s].req)
    <2>1. /\ tx[s] \in Serving /\ tx' = [tx EXCEPT ![s] = tx'[s]] /\ tx'[s] \in Serving
          /\ tx'[s].pc = "begun" /\ tx'[s].req = tx[s].req
          /\ \A t \in Others(s) : tx'[t] = tx[t]
          /\ UNCHANGED dbVars
      BY <1>2, GotoKeepsRequest DEF Begin, Points
    <2>2. SessionSound(s) /\ tx[s].pc = "arrived"
      BY DEF Begin, IInv
    <2>3. tx[s].req.op = "issue" => credentials[tx[s].req.about] = NoOne
      BY <1>2 DEF Answered
    <2>4. TargetExists(s)'
      BY <2>1, <2>2, <2>3 DEF SessionSound, TargetExists, At, Begun, Points, dbVars
    <2>5. IssuesAlone(s)'
      <3>1. tx[s].req.op = "issue" =>
              \A t \in Others(s) : tx[t].pc \notin {"idle", "arrived"} => tx[t].req # tx[s].req
        BY DEF Begin
      <3> QED
        BY <2>1, <3>1 DEF IssuesAlone, Begun, Others, Points
    <2>6. SessionSound(s)'
      BY <2>1, <2>4, <2>5
         DEF SessionSound, PointFitsRequest, IssueUnrevoked, UpdateSeesAll, ConsumeUnrevoked, At
    <2> QED
      BY <2>1, <2>6, QuietStep DEF At
  <1> QED
    BY <1>1, <1>2 DEF Begin

\* The checks of issue, under the locks of the task and of the tenant's epoch.
LEMMA IssueChecksPreserves == ASSUME IInv, NEW s \in Sessions, IssueChecks(s) PROVE IInv'
  <1>1. CASE Refuse(s)
    BY <1>1, RefusePreserves
  <1>2. CASE Goto(s, "checked") /\ task \notin Terminal /\ Scopes \cap revocations = {}
    <2>0. SessionSound(s) /\ tx[s].pc = "begun" /\ tx[s].req.op = "issue"
      BY DEF IssueChecks, At, IInv
    <2>1. /\ tx[s] \in Serving /\ tx' = [tx EXCEPT ![s] = tx'[s]] /\ tx'[s] \in Serving
          /\ tx'[s].pc = "checked" /\ tx'[s].req = tx[s].req
          /\ \A t \in Others(s) : tx'[t] = tx[t]
          /\ UNCHANGED dbVars
      BY <1>2, <2>0, GotoKeepsRequest DEF Points
    <2>2. \A t \in Others(s) : ~At(t, {"updating"}, {"task", "tenant"})
      BY DEF IssueChecks, TaskLockFree, EpochUnlocked, At
    <2>3. TargetExists(s)' /\ PointFitsRequest(s)'
      BY <2>0, <2>1 DEF SessionSound, TargetExists, PointFitsRequest, At, Begun, Points, dbVars
    <2>4. IssuesAlone(s)'
      BY <2>0, <2>1 DEF SessionSound, IssuesAlone, Begun, Others, Points
    <2>5. IssueUnrevoked(s)'
      BY <1>2, <2>0, <2>1, <2>2 DEF IssueUnrevoked, At, Others, Scopes, dbVars
    <2>6. SessionSound(s)'
      BY <2>0, <2>1, <2>3, <2>4, <2>5 DEF SessionSound, UpdateSeesAll, ConsumeUnrevoked, At
    <2> QED
      BY <2>1, <2>6, QuietStep DEF At
  <1> QED
    BY <1>1, <1>2 DEF IssueChecks

\* consume: the row of the credential, then its checks under the agent's lock.
LEMMA ConsumeQuietPreserves ==
  ASSUME IInv, NEW s \in Sessions, ConsumeLocksHandle(s) \/ ConsumeChecks(s) PROVE IInv'
  <1>0. SessionSound(s) /\ tx[s].pc \in {"begun", "handle_locked"} /\ tx[s].req.op = "consume"
    BY DEF ConsumeLocksHandle, ConsumeChecks, At, IInv
  <1>1. CASE Refuse(s)
    BY <1>1, RefusePreserves
  <1>2. CASE Goto(s, "handle_locked")
    <2>1. /\ tx[s] \in Serving /\ tx' = [tx EXCEPT ![s] = tx'[s]] /\ tx'[s] \in Serving
          /\ tx'[s].pc = "handle_locked" /\ tx'[s].req = tx[s].req
          /\ UNCHANGED dbVars
      BY <1>0, <1>2, GotoKeepsRequest DEF Points
    <2>2. SessionSound(s)'
      BY <1>0, <2>1
         DEF SessionSound, PointFitsRequest, TargetExists, IssuesAlone, IssueUnrevoked,
             UpdateSeesAll, ConsumeUnrevoked, At, Begun, Points, dbVars
    <2> QED
      BY <2>1, <2>2, QuietStep DEF At
  <1>3. CASE ConsumeChecks(s) /\ Goto(s, "checked")
    <2>1. /\ tx[s] \in Serving /\ tx' = [tx EXCEPT ![s] = tx'[s]] /\ tx'[s] \in Serving
          /\ tx'[s].pc = "checked" /\ tx'[s].req = tx[s].req
          /\ \A t \in Others(s) : tx'[t] = tx[t]
          /\ UNCHANGED dbVars
      BY <1>0, <1>3, GotoKeepsRequest DEF Points
    <2>2. tx'[s] # Idle
      BY <2>1 DEF Idle
    <2>3. /\ Covering(tx[s].req.about) \cap revocations = {}
          /\ credentials[tx[s].req.about].epoch = epoch
          /\ task \notin Terminal
      BY <1>3, <2>1, <2>2 DEF ConsumeChecks, Refuse, Finish, IInv, TypeOK
    <2>4. ConsumeUnrevoked(s)'
      BY <1>3, <2>1, <2>3
         DEF ConsumeChecks, AgentUnlocked, ConsumeUnrevoked, At, Others, Covering, dbVars
    <2>5. SessionSound(s)'
      BY <1>0, <2>1, <2>4
         DEF SessionSound, PointFitsRequest, TargetExists, IssuesAlone, IssueUnrevoked,
             UpdateSeesAll, At, Begun, Points, dbVars
    <2> QED
      BY <2>1, <2>5, QuietStep DEF At
  <1> QED
    BY <1>1, <1>2, <1>3 DEF ConsumeLocksHandle, ConsumeChecks

\* An UPDATE of the credentials starts: no issue is past its checks if it is about
\* the task or the tenant, no consumption if it is about the agent.
LEMMA StartUpdatePreserves ==
  ASSUME IInv, NEW s \in Sessions, StartUpdate(s), tx[s].pc = "begun",
         tx[s].req.op \in Scopes,
         tx[s].req.op = "task" => tx[s].req.about \in Terminal,
         tx[s].req.op \in {"task", "tenant"} =>
             \A t \in Others(s) : ~At(t, {"checked"}, {"issue"}),
         tx[s].req.op = "agent" => \A t \in Others(s) : ~At(t, {"checked"}, {"consume"})
  PROVE  IInv'
  <1>1. tx[s] \in Serving /\ SessionSound(s)
    BY DEF IInv, TypeOK, Idle
  <1> DEFINE rec == [tx[s] EXCEPT !.pc = "updating", !.seen = Issued]
  <1>2. tx' = [tx EXCEPT ![s] = rec] /\ UNCHANGED dbVars
    BY DEF StartUpdate
  <1>3. rec \in Serving /\ rec.pc = "updating" /\ rec.seen = Issued /\ rec.req = tx[s].req
    BY <1>1 DEF Serving, Points, Issued
  <1> HIDE DEF rec
  <1>4. /\ tx' = [tx EXCEPT ![s] = tx'[s]] /\ tx'[s] \in Serving
        /\ tx'[s].pc = "updating" /\ tx'[s].seen = Issued /\ tx'[s].req = tx[s].req
        /\ UNCHANGED dbVars
    BY <1>2, <1>3 DEF IInv, TypeOK
  <1>5. PointFitsRequest(s)' /\ TargetExists(s)' /\ IssuesAlone(s)'
    BY <1>1, <1>4 DEF SessionSound, PointFitsRequest, TargetExists, IssuesAlone, At, Begun,
       Points, Scopes, dbVars
  <1>6. IssueUnrevoked(s)' /\ UpdateSeesAll(s)' /\ ConsumeUnrevoked(s)'
    BY <1>4 DEF IssueUnrevoked, UpdateSeesAll, ConsumeUnrevoked, At, Issued, dbVars
  <1> QED
    BY <1>4, <1>5, <1>6, QuietStep DEF At, SessionSound

\* revoke_agent_or_tenant up to its UPDATE, and set_task_state.
LEMMA RevokeAgentOrTenantPreserves ==
  ASSUME IInv, NEW s \in Sessions, RevokeAgentOrTenant(s) PROVE IInv'
  <1>1. /\ tx[s].pc = "begun" /\ tx[s].req.op \in {"agent", "tenant"} /\ StartUpdate(s)
        /\ tx[s].req.op \in Scopes
    BY DEF RevokeAgentOrTenant, At, Scopes
  <1>2. tx[s].req.op = "agent" => \A t \in Others(s) : ~At(t, {"checked"}, {"consume"})
    BY DEF RevokeAgentOrTenant, AgentUnshared
  <1>3. tx[s].req.op = "tenant" => \A t \in Others(s) : ~At(t, {"checked"}, {"issue"})
    BY <1>1 DEF RevokeAgentOrTenant, EpochUnshared, IInv, SessionSound, IssueUnrevoked, Others
  <1> QED
    BY <1>1, <1>2, <1>3, StartUpdatePreserves

\* A task is paused or resumed: the one step that changes its state alone.
LEMMA SetTaskStatePreserves == ASSUME IInv, NEW s \in Sessions, SetTaskState(s) PROVE IInv'
  <1>0. tx[s].pc = "begun" /\ tx[s].req.op = "task" /\ "task" \in Scopes
    BY DEF SetTaskState, At, Scopes
  <1>1. CASE Refuse(s)
    BY <1>1, RefusePreserves
  <1>2. CASE StartUpdate(s) /\ tx[s].req.about \in Terminal
    <2>1. \A t \in Others(s) : ~At(t, {"checked"}, {"issue"})
      BY DEF SetTaskState, TaskLockFree, At
    <2> QED
      BY <1>0, <1>2, <2>1, StartUpdatePreserves
  <1>3. CASE /\ Finish(s) /\ task' = tx[s].req.about
             /\ UNCHANGED <<credentials, revocations, epoch, expired>>
             /\ task \notin Terminal /\ tx[s].req.about \notin Terminal
    <2>1. tx[s] \in Serving
      BY <1>0 DEF IInv, TypeOK, Idle
    <2>2. task' \in TaskTargets /\ task' \notin Terminal
      BY <1>0, <1>3, <2>1 DEF Serving, Requests
    <2>3. tx' = [tx EXCEPT ![s] = Idle] /\ tx'[s] = Idle /\ \A t \in Others(s) : tx'[t] = tx[t]
      BY <1>3 DEF Finish, IInv, TypeOK, Others
    <2>4. TypeOK'
      BY <1>3, <2>2, <2>3 DEF IInv, TypeOK
    <2>5. SessionSound(s)'
      BY <2>3, IdleIsSound
    <2>6. ASSUME NEW t \in Others(s) PROVE SessionSound(t)'
      <3>0. SessionSound(t) /\ tx'[t] = tx[t]
        BY <2>3 DEF IInv, Others
      <3>1. PointFitsRequest(t)' /\ TargetExists(t)' /\ UpdateSeesAll(t)'
        BY <1>3, <3>0 DEF SessionSound, PointFitsRequest, TargetExists, UpdateSeesAll, At,
           Begun, Issued
      <3>2. IssuesAlone(t)'
        BY <2>3, <3>0 DEF SessionSound, IssuesAlone, Begun, Others, Idle, Points
      <3>3. IssueUnrevoked(t)' /\ ConsumeUnrevoked(t)'
        BY <1>3, <2>2, <2>3, <3>0
           DEF SessionSound, IssueUnrevoked, ConsumeUnrevoked, At, Others, Covering, Idle
      <3> QED
        BY <3>1, <3>2, <3>3 DEF SessionSound
    <2>7. RevocationLeavesNoneLive'
      BY <1>3, <2>2 DEF IInv, RevocationLeavesNoneLive, Issued
    <2> QED
      BY <2>4, <2>5, <2>6, <2>7 DEF IInv, Others
  <1> QED
    BY <1>1, <1>2, <1>3 DEF SetTaskState

-----------------------------------------------------------------------------
(* Steps that write credentials and revocations *)

\* A commit of session s: credentials keep existing, and the others still rely on
\* what they checked.
LEMMA CommitPreserves ==
  ASSUME IInv, NEW s \in Sessions, Finish(s),
         credentials' \in [Handles -> Credential \cup {NoOne}],
         revocations' \subseteq Scopes \cup Handles,
         task' \in TaskTargets, UNCHANGED <<epoch, expired>>,
         \A h \in Issued : credentials'[h] # NoOne /\ credentials'[h].epoch = credentials[h].epoch,
         \A h \in Handles \ Issued : credentials'[h] # NoOne =>
             /\ At(s, {"checked"}, {"issue"}) /\ tx[s].req.about = h,
         \A t \in Others(s) : At(t, {"checked"}, {"issue"}) =>
             /\ task' \notin Terminal
             /\ {"task", "tenant"} \cap revocations' = {},
         \A t \in Others(s) : At(t, {"checked"}, {"consume"}) =>
             /\ task' \notin Terminal
             /\ Covering(tx[t].req.about) \cap revocations' = {},
         RevocationLeavesNoneLive'
  PROVE  IInv'
  <1>1. tx' = [tx EXCEPT ![s] = Idle] /\ tx'[s] = Idle /\ \A t \in Others(s) : tx'[t] = tx[t]
    BY DEF Finish, IInv, TypeOK, Others
  <1>2. TypeOK'
    BY <1>1 DEF IInv, TypeOK
  <1>3. SessionSound(s)'
    BY <1>1, IdleIsSound
  <1>4. ASSUME NEW t \in Others(s) PROVE SessionSound(t)'
    <2>0. SessionSound(t) /\ tx'[t] = tx[t] /\ t \in Sessions /\ t # s /\ tx[t] \in Serving \cup {Idle}
      BY <1>1 DEF IInv, TypeOK, Others
    <2>1. PointFitsRequest(t)'
      BY <2>0 DEF SessionSound, PointFitsRequest, At
    <2>2. Begun(t) /\ tx[t].req.op = "issue" => credentials'[tx[t].req.about] = NoOne
      <3> SUFFICES ASSUME Begun(t), tx[t].req.op = "issue" PROVE credentials'[tx[t].req.about] = NoOne
        OBVIOUS
      <3>1. /\ tx[t] \in Serving /\ tx[t].req \in Requests /\ tx[t].req.about \in Handles
            /\ tx[t].req.key = NoOne /\ tx[t].req = [op |-> "issue", about |-> tx[t].req.about, key |-> NoOne]
        BY <2>0 DEF Begun, Points, Idle, Serving, Requests
      <3>2. credentials[tx[t].req.about] = NoOne
        BY <2>0 DEF SessionSound, TargetExists
      <3>3. ~(At(s, {"checked"}, {"issue"}) /\ tx[s].req.about = tx[t].req.about)
        <4> SUFFICES ASSUME At(s, {"checked"}, {"issue"}), tx[s].req.about = tx[t].req.about
                     PROVE  FALSE
          OBVIOUS
        <4>1. tx[s] \in Serving
          BY DEF IInv, TypeOK, At, Idle
        <4>2. tx[s].req = [op |-> "issue", about |-> tx[s].req.about, key |-> NoOne]
          BY <4>1 DEF Serving, Requests, At
        <4>3. Begun(s)
          BY DEF At, Begun, Points
        <4> QED
          BY <2>0, <3>1, <4>2, <4>3 DEF SessionSound, IssuesAlone, Others
      <3> QED
        BY <3>1, <3>2, <3>3 DEF Issued
    <2>3. TargetExists(t)'
      <3>1. At(t, Points, {"consume", "revoke"}) => tx[t].req.about \in Issued
        BY <2>0 DEF SessionSound, TargetExists, At, Points, Idle, Serving, Requests, Issued
      <3> QED
        BY <2>0, <2>2, <3>1 DEF TargetExists, At, Begun
    <2>4. IssuesAlone(t)'
      BY <1>1, <2>0 DEF SessionSound, IssuesAlone, Begun, Others, Idle, Points
    <2>5. IssueUnrevoked(t)'
      BY <1>1, <2>0 DEF SessionSound, IssueUnrevoked, At, Others, Idle
    <2>6. UpdateSeesAll(t)'
      <3>1. At(t, {"updating"}, {"task", "tenant"}) => ~At(s, {"checked"}, {"issue"})
        BY <2>0 DEF IInv, SessionSound, IssueUnrevoked
      <3>2. Issued \subseteq Issued' /\ (~At(s, {"checked"}, {"issue"}) => Issued' = Issued)
        BY DEF Issued
      <3> QED
        BY <2>0, <3>1, <3>2 DEF SessionSound, UpdateSeesAll, At
    <2>7. ConsumeUnrevoked(t)'
      <3>1. At(t, {"checked"}, {"consume"}) => tx[t].req.about \in Issued
        BY <2>0 DEF SessionSound, TargetExists, At, Points, Idle, Serving, Requests, Issued
      <3> QED
        BY <1>1, <2>0, <3>1
           DEF SessionSound, ConsumeUnrevoked, At, Others, Idle, Covering
    <2> QED
      BY <2>1, <2>3, <2>4, <2>5, <2>6, <2>7 DEF SessionSound
  <1> QED
    BY <1>2, <1>3, <1>4 DEF IInv, Others

\* The INSERT of issue: nothing that covers the credential is revoked.
LEMMA IssuePreserves == ASSUME IInv, NEW s \in Sessions, Issue(s) PROVE IInv'
  <1> DEFINE h == tx[s].req.about
             row == [uses |-> {}, revoked |-> FALSE, epoch |-> epoch]
  <1>1. /\ At(s, {"checked"}, {"issue"}) /\ SessionSound(s) /\ tx[s] \in Serving
        /\ Finish(s) /\ UNCHANGED <<revocations, task, epoch, expired>>
    BY DEF Issue, IInv, TypeOK, At, Idle
  <1>2. h \in Handles /\ credentials[h] = NoOne
    BY <1>1 DEF At, Serving, Requests, SessionSound, TargetExists, Begun, Points
  <1>3. row \in Credential
    BY DEF Credential, IInv, TypeOK
  <1>4. credentials' = credentials \/ credentials' = [credentials EXCEPT ![h] = row]
    BY DEF Issue
  <1> HIDE DEF row, h
  <1>5. /\ credentials' \in [Handles -> Credential \cup {NoOne}]
        /\ \A g \in Handles : g # h => credentials'[g] = credentials[g]
    BY <1>2, <1>3, <1>4 DEF IInv, TypeOK
  <1>6. task \notin Terminal /\ {"task", "tenant"} \cap revocations = {}
    BY <1>1 DEF SessionSound, IssueUnrevoked
  <1>7. RevocationLeavesNoneLive'
    BY <1>1, <1>6 DEF RevocationLeavesNoneLive
  <1>8. \A g \in Issued : credentials'[g] # NoOne /\ credentials'[g].epoch = credentials[g].epoch
    BY <1>2, <1>5 DEF Issued
  <1>9. \A g \in Handles \ Issued : credentials'[g] # NoOne => tx[s].req.about = g
    BY <1>5 DEF Issued, h
  <1>10. \A t \in Others(s) : At(t, {"checked"}, {"consume"}) =>
            task \notin Terminal /\ Covering(tx[t].req.about) \cap revocations = {}
    BY DEF IInv, SessionSound, ConsumeUnrevoked, Others
  <1> QED
    BY <1>1, <1>5, <1>6, <1>7, <1>8, <1>9, <1>10, CommitPreserves DEF IInv, TypeOK

\* The conditional UPDATE of consume.
LEMMA ConsumePreserves == ASSUME IInv, NEW s \in Sessions, Consume(s) PROVE IInv'
  <1> DEFINE h == tx[s].req.about
             row == [credentials[h] EXCEPT !.uses = {tx[s].req.key}]
  <1>1. /\ At(s, {"checked"}, {"consume"}) /\ SessionSound(s) /\ tx[s] \in Serving
        /\ Finish(s) /\ UNCHANGED <<revocations, task, epoch, expired>>
    BY DEF Consume, IInv, TypeOK, At, Idle
  <1>2. h \in Handles /\ credentials[h] # NoOne /\ tx[s].req.key \in UseKeys
    BY <1>1 DEF At, Serving, Requests, SessionSound, TargetExists, Points
  <1>3. credentials[h] \in Credential
    BY <1>2 DEF IInv, TypeOK
  <1>4. row \in Credential /\ row.epoch = credentials[h].epoch /\ row.revoked = credentials[h].revoked
    BY <1>2, <1>3 DEF Credential
  <1>5. credentials' = credentials \/ credentials' = [credentials EXCEPT ![h] = row]
    BY DEF Consume
  <1> HIDE DEF row, h
  <1>6. /\ credentials' \in [Handles -> Credential \cup {NoOne}]
        /\ \A g \in Handles : g # h => credentials'[g] = credentials[g]
        /\ credentials'[h] \in {row, credentials[h]}
    BY <1>2, <1>4, <1>5 DEF IInv, TypeOK
  <1>7. NoOne \notin Credential
    BY CredentialsAssumption
  <1>8. /\ \A g \in Issued : credentials'[g] # NoOne /\ credentials'[g].epoch = credentials[g].epoch
                               /\ credentials'[g].revoked = credentials[g].revoked
        /\ \A g \in Handles \ Issued : credentials'[g] = NoOne
    BY <1>2, <1>3, <1>4, <1>6, <1>7 DEF Issued
  <1>9. RevocationLeavesNoneLive'
    BY <1>1, <1>8 DEF IInv, RevocationLeavesNoneLive, Issued
  <1>10. /\ \A t \in Others(s) : At(t, {"checked"}, {"issue"}) =>
              task \notin Terminal /\ {"task", "tenant"} \cap revocations = {}
         /\ \A t \in Others(s) : At(t, {"checked"}, {"consume"}) =>
              task \notin Terminal /\ Covering(tx[t].req.about) \cap revocations = {}
    BY DEF IInv, SessionSound, IssueUnrevoked, ConsumeUnrevoked, Others
  <1> QED
    BY <1>1, <1>6, <1>8, <1>9, <1>10, CommitPreserves DEF IInv, TypeOK

\* What marking some issued credentials as revoked leaves as it was.
LEMMA RevokedKeeps ==
  ASSUME IInv, NEW hs \in SUBSET Issued, credentials' = Revoked(hs)
  PROVE  /\ credentials' \in [Handles -> Credential \cup {NoOne}]
         /\ \A g \in Issued : /\ credentials'[g] # NoOne
                              /\ credentials'[g].epoch = credentials[g].epoch
                              /\ credentials'[g].uses = credentials[g].uses
                              /\ g \in hs \/ credentials[g].revoked => credentials'[g].revoked
         /\ \A g \in Handles \ Issued : credentials'[g] = NoOne
  <1>1. \A g \in Issued :
          LET row == [credentials[g] EXCEPT !.revoked = TRUE]
          IN  /\ g \in Handles /\ row \in Credential /\ credentials[g] \in Credential
              /\ row.epoch = credentials[g].epoch /\ row.uses = credentials[g].uses /\ row.revoked
    BY DEF IInv, TypeOK, Issued, Credential
  <1>2. \A g \in Handles :
          credentials'[g] = IF g \in hs THEN [credentials[g] EXCEPT !.revoked = TRUE]
                                        ELSE credentials[g]
    BY DEF Revoked
  <1>3. NoOne \notin Credential /\ credentials' = [g \in Handles |-> credentials'[g]]
    BY CredentialsAssumption DEF Revoked
  <1>4. \A g \in Handles : credentials'[g] \in Credential \cup {NoOne}
    BY <1>1, <1>2 DEF IInv, TypeOK
  <1> QED
    BY <1>1, <1>2, <1>3, <1>4 DEF Issued

\* revoke_credential waits for consumptions of the credential.
LEMMA RevokeCredentialPreserves ==
  ASSUME IInv, NEW s \in Sessions, RevokeCredential(s) PROVE IInv'
  <1> DEFINE h == tx[s].req.about
  <1>1. /\ SessionSound(s) /\ tx[s] \in Serving /\ At(s, Points, {"revoke"})
        /\ tx[s].pc = "begun" /\ Finish(s) /\ UNCHANGED <<task, epoch, expired>>
    BY DEF RevokeCredential, IInv, TypeOK, At, Idle, Points
  <1>2. h \in Handles /\ h \in Issued
    BY <1>1 DEF At, Serving, Requests, SessionSound, TargetExists, Issued
  <1>3. h \notin Scopes
    BY <1>2, CredentialsAssumption
  <1>4. credentials' = Revoked({h}) /\ revocations' = revocations \cup {h} /\ HandleUnlocked(s, h)
    BY DEF RevokeCredential
  <1>5. /\ credentials' \in [Handles -> Credential \cup {NoOne}]
        /\ \A g \in Issued : credentials'[g] # NoOne /\ credentials'[g].epoch = credentials[g].epoch
                               /\ (credentials[g].revoked => credentials'[g].revoked)
        /\ \A g \in Handles \ Issued : credentials'[g] = NoOne
    BY <1>2, <1>4, RevokedKeeps
  <1>6. RevocationLeavesNoneLive'
    BY <1>1, <1>3, <1>4, <1>5 DEF IInv, RevocationLeavesNoneLive, Issued, Scopes
  <1>7. \A t \in Others(s) : At(t, {"checked"}, {"issue"}) =>
          task \notin Terminal /\ {"task", "tenant"} \cap revocations' = {}
    BY <1>3, <1>4 DEF IInv, SessionSound, IssueUnrevoked, Others, Scopes
  <1>8. \A t \in Others(s) : At(t, {"checked"}, {"consume"}) =>
          task \notin Terminal /\ Covering(tx[t].req.about) \cap revocations' = {}
    <2> SUFFICES ASSUME NEW t \in Others(s), At(t, {"checked"}, {"consume"})
                 PROVE  task \notin Terminal /\ Covering(tx[t].req.about) \cap revocations' = {}
      OBVIOUS
    <2>1. /\ task \notin Terminal /\ Covering(tx[t].req.about) \cap revocations = {}
          /\ tx[t].req.about # h
      BY <1>4 DEF IInv, SessionSound, ConsumeUnrevoked, Others, HandleUnlocked, At
    <2> QED
      BY <1>3, <1>4, <2>1 DEF Covering
  <1> QED
    BY <1>1, <1>2, <1>4, <1>5, <1>6, <1>7, <1>8, CommitPreserves DEF IInv, TypeOK

\* The UPDATE of a task's, an agent's or a tenant's credentials commits.
LEMMA FinishRevocationPreserves ==
  ASSUME IInv, NEW s \in Sessions, FinishRevocation(s) PROVE IInv'
  <1> DEFINE o == tx[s].req.op
             seen == tx[s].seen
  <1>1. /\ SessionSound(s) /\ tx[s] \in Serving /\ tx[s].pc = "updating"
        /\ Finish(s) /\ UNCHANGED <<epoch, expired>>
        /\ credentials' = Revoked(seen) /\ revocations' = revocations \cup {o}
        /\ task' = IF o = "task" THEN tx[s].req.about ELSE task
        /\ \A h \in seen : HandleUnlocked(s, h)
    BY DEF FinishRevocation, IInv, TypeOK, Idle
  <1>2. o \in Scopes /\ (o = "task" => tx[s].req.about \in Terminal)
    BY <1>1 DEF SessionSound, PointFitsRequest, At
  <1>3. o \in {"task", "tenant"} => seen = Issued
    BY <1>1 DEF SessionSound, UpdateSeesAll, At
  <1>4. task' \in TaskTargets /\ (task' \in Terminal => task \in Terminal \/ o = "task")
    BY <1>1, <1>2 DEF IInv, TypeOK, TaskTargets
  <1>5. /\ credentials' \in [Handles -> Credential \cup {NoOne}]
        /\ \A g \in Issued : /\ credentials'[g] # NoOne
                             /\ credentials'[g].epoch = credentials[g].epoch
                             /\ g \in seen \/ credentials[g].revoked => credentials'[g].revoked
        /\ \A g \in Handles \ Issued : credentials'[g] = NoOne
    <2>1. seen \in SUBSET Issued
      BY <1>1 DEF SessionSound, UpdateSeesAll
    <2> QED
      BY <1>1, <2>1, RevokedKeeps
  <1>6. RevocationLeavesNoneLive'
    <2>1. o \in {"task", "tenant"} => \A g \in Issued' : credentials'[g].revoked
      BY <1>3, <1>5 DEF Issued
    <2>2. o = "agent" => RevocationLeavesNoneLive'
      BY <1>1, <1>4, <1>5 DEF IInv, RevocationLeavesNoneLive, Issued
    <2> QED
      BY <1>2, <2>1, <2>2 DEF RevocationLeavesNoneLive, Scopes
  <1>7. \A t \in Others(s) : At(t, {"checked"}, {"issue"}) =>
          task' \notin Terminal /\ {"task", "tenant"} \cap revocations' = {}
    <2> SUFFICES ASSUME NEW t \in Others(s), At(t, {"checked"}, {"issue"})
                 PROVE  task' \notin Terminal /\ {"task", "tenant"} \cap revocations' = {}
      OBVIOUS
    <2>1. /\ task \notin Terminal /\ {"task", "tenant"} \cap revocations = {}
          /\ ~At(s, {"updating"}, {"task", "tenant"})
      BY DEF IInv, SessionSound, IssueUnrevoked, Others
    <2>2. o \notin {"task", "tenant"}
      BY <1>1, <2>1 DEF At
    <2> QED
      BY <1>1, <1>4, <2>1, <2>2
  <1>8. \A t \in Others(s) : At(t, {"checked"}, {"consume"}) =>
          task' \notin Terminal /\ Covering(tx[t].req.about) \cap revocations' = {}
    <2> SUFFICES ASSUME NEW t \in Others(s), At(t, {"checked"}, {"consume"})
                 PROVE  FALSE
      OBVIOUS
    <2>1. ~At(s, {"updating"}, {"agent"}) /\ SessionSound(t) /\ tx[t] \in Serving
      BY DEF IInv, TypeOK, SessionSound, ConsumeUnrevoked, Others, At, Idle
    <2>2. o \in {"task", "tenant"}
      BY <1>1, <1>2, <2>1 DEF At, Scopes
    <2>3. tx[t].req.about \in Issued
      BY <2>1 DEF SessionSound, TargetExists, At, Points, Serving, Requests, Issued
    <2> QED
      BY <1>1, <1>3, <2>2, <2>3 DEF HandleUnlocked, At
  <1> QED
    BY <1>1, <1>2, <1>4, <1>5, <1>6, <1>7, <1>8, CommitPreserves DEF IInv, TypeOK

-----------------------------------------------------------------------------
\* Every step preserves the inductive invariant.
LEMMA StepPreserves == IInv /\ [Next]_vars => IInv'
  <1> SUFFICES ASSUME IInv, [Next]_vars PROVE IInv'
    OBVIOUS
  <1>1. ASSUME NEW s \in Sessions, SessionStep(s) PROVE IInv'
    BY <1>1, ArrivePreserves, BeginPreserves, RefusePreserves, IssueChecksPreserves,
       IssuePreserves, ConsumeQuietPreserves, ConsumePreserves, RevokeCredentialPreserves,
       SetTaskStatePreserves, RevokeAgentOrTenantPreserves, FinishRevocationPreserves
       DEF SessionStep, Abort
  <1>2. CASE AgentEpochMoves
    <2>1. TypeOK'
      BY <1>2 DEF AgentEpochMoves, IInv, TypeOK
    <2>2. ASSUME NEW s \in Sessions PROVE SessionSound(s)'
      <3>1. SessionSound(s) /\ ~At(s, {"checked"}, {"consume"})
        BY <1>2 DEF AgentEpochMoves, IInv
      <3> QED
        BY <1>2, <3>1
           DEF AgentEpochMoves, SessionSound, PointFitsRequest, TargetExists, IssuesAlone,
               IssueUnrevoked, UpdateSeesAll, ConsumeUnrevoked, At, Begun, Issued
    <2>3. RevocationLeavesNoneLive'
      BY <1>2 DEF AgentEpochMoves, IInv, RevocationLeavesNoneLive, Issued
    <2> QED
      BY <2>1, <2>2, <2>3 DEF IInv
  <1>3. CASE UNCHANGED <<credentials, revocations, task, epoch, tx>> /\ expired' \in BOOLEAN
    <2>1. TypeOK'
      BY <1>3 DEF IInv, TypeOK
    <2>2. \A s \in Sessions : SessionSound(s)'
      BY <1>3
         DEF IInv, SessionSound, PointFitsRequest, TargetExists, IssuesAlone,
             IssueUnrevoked, UpdateSeesAll, ConsumeUnrevoked, At, Begun, Issued, Covering
    <2>3. RevocationLeavesNoneLive'
      BY <1>3 DEF IInv, RevocationLeavesNoneLive, Issued
    <2> QED
      BY <2>1, <2>2, <2>3 DEF IInv
  <1>4. TimePasses \/ UNCHANGED vars =>
          UNCHANGED <<credentials, revocations, task, epoch, tx>> /\ expired' \in BOOLEAN
    BY DEF TimePasses, vars, IInv, TypeOK
  <1> QED
    BY <1>1, <1>2, <1>3, <1>4 DEF Next

\* The inductive invariant holds in every state.
THEOREM CredentialsInductive == Spec => []IInv
  BY InitEstablishes, StepPreserves, PTL DEF Spec

\* Once a task is cancelled or killed, or its tenant revoked, no credential of it
\* is left live, the ones being issued at that moment included.
THEOREM CredentialsRevocationLeavesNoneLive == Spec => []RevocationLeavesNoneLive
  <1>1. IInv => RevocationLeavesNoneLive
    BY DEF IInv
  <1> QED
    BY <1>1, CredentialsInductive, PTL

\* A credential is used once, and only while nothing that covers it is revoked.
THEOREM CredentialsConsumedOnceUnrevoked == Spec => ConsumedOnceUnrevoked
  <1>1. IInv /\ [Next]_vars =>
          [\A h \in Issued :
             credentials'[h].uses # credentials[h].uses =>
               /\ credentials[h].uses = {}
               /\ ~credentials[h].revoked
               /\ Covering(h) \cap revocations = {}
               /\ task \notin Terminal
               /\ credentials[h].epoch = epoch]_vars
    <2> SUFFICES ASSUME IInv, Next, NEW h \in Issued,
                        credentials'[h].uses # credentials[h].uses
                 PROVE  /\ credentials[h].uses = {}
                        /\ ~credentials[h].revoked
                        /\ Covering(h) \cap revocations = {}
                        /\ task \notin Terminal
                        /\ credentials[h].epoch = epoch
      OBVIOUS
    <2>1. credentials' # credentials /\ h \in Handles /\ credentials[h] # NoOne
      BY DEF Issued
    <2>2. PICK s \in Sessions :
            Issue(s) \/ Consume(s) \/ RevokeCredential(s) \/ FinishRevocation(s)
      BY <2>1
         DEF Next, SessionStep, AgentEpochMoves, TimePasses, Arrive, Begin, Abort, IssueChecks,
             ConsumeLocksHandle, ConsumeChecks, SetTaskState, RevokeAgentOrTenant, StartUpdate,
             Refuse, Goto, dbVars
    <2>3. SessionSound(s) /\ tx[s] \in Serving
      BY <2>2 DEF IInv, TypeOK, Issue, Consume, RevokeCredential, FinishRevocation, At, Idle
    <2>4. ~Issue(s)
      <3> SUFFICES ASSUME Issue(s) PROVE FALSE
        OBVIOUS
      <3>1. credentials[tx[s].req.about] = NoOne
        BY <2>3 DEF Issue, At, SessionSound, TargetExists, Begun, Points
      <3> QED
        BY <2>1, <3>1 DEF Issue, IInv, TypeOK
    <2>5. ~RevokeCredential(s) /\ ~FinishRevocation(s)
      <3>1. FinishRevocation(s) => tx[s].seen \in SUBSET Issued
        BY <2>3 DEF FinishRevocation, SessionSound, UpdateSeesAll
      <3>2. RevokeCredential(s) => {tx[s].req.about} \in SUBSET Issued
        BY <2>3 DEF RevokeCredential, At, SessionSound, TargetExists, Points, Serving,
           Requests, Issued
      <3> QED
        BY <3>1, <3>2, RevokedKeeps DEF RevokeCredential, FinishRevocation
    <2>6. Consume(s) /\ tx[s].req.about = h /\ credentials[h].uses = {} /\ ~credentials[h].revoked
      BY <2>1, <2>2, <2>4, <2>5 DEF Consume, IInv, TypeOK
    <2> QED
      BY <2>3, <2>6 DEF Consume, SessionSound, ConsumeUnrevoked
  <1> QED
    BY <1>1, CredentialsInductive, PTL DEF Spec, ConsumedOnceUnrevoked
=============================================================================
