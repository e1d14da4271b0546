--------------------------- MODULE ApprovalProofs ---------------------------
(***************************************************************************)
(* Safety of the approval store for every number of connections,           *)
(* approvers, clients and requests.                                        *)
(*                                                                         *)
(* A transaction decides on what it has read.  The invariant says that     *)
(* what it has read of the case, and of the grant, is what is stored, from *)
(* its row lock to its end; the properties are then about committed rows   *)
(* alone.                                                                  *)
(***************************************************************************)
EXTENDS Approval, FiniteSetTheorems, TLAPS

Statuses == {"ABSENT", "PENDING", "POST_REVIEW_REQUIRED", "APPROVED", "REJECTED",
             "REVOKED", "EXPIRED", "CONSUMED"}
Decided == [Approvers -> ApprovalDecision \cup {NoOne}]
Points == {"arrived", "lock_case", "case_read", "lock_grant", "grant_read"}
Serving ==
    [pc : Points, req : RequestTypes, late : BOOLEAN, status : Statuses,
     decisions : Decided, grant : Grant \cup {NoOne}]

TypeOK ==
    /\ expired \in BOOLEAN
    /\ status \in Statuses
    /\ emergency \in BOOLEAN
    /\ decisions \in Decided
    /\ grant \in Grant \cup {NoOne}
    /\ case_lock \in Sessions \cup {NoOne}
    /\ grant_lock \in Sessions \cup {NoOne}
    /\ tx \in [Sessions -> Serving \cup {Idle}]

\* What was read of the case under its lock is what is stored.
CaseHeld(s) ==
    tx[s].pc = "case_read" =>
        case_lock = s /\ tx[s].status = status /\ tx[s].decisions = decisions

\* The same for the grant, which a consumption keeps locked while it waits for
\* the case.
HoldsGrant(s) ==
    \/ tx[s].pc = "grant_read"
    \/ tx[s].pc \in {"lock_case", "case_read"} /\ tx[s].req.op = "consume"
GrantHeld(s) ==
    HoldsGrant(s) => grant_lock = s /\ grant # NoOne /\ tx[s].grant = grant

\* Nobody meets a case before it is created.
CaseExists(s) == status = "ABSENT" => tx[s].pc = "idle"

SessionSound(s) == CaseHeld(s) /\ GrantHeld(s) /\ CaseExists(s)

\* Only eligible approvers decide, and nothing is decided or granted before the
\* case exists.
DecisionsAreEligible ==
    /\ \A a \in Approvers : decisions[a] # NoOne => a \in Eligible /\ status # "ABSENT"
    /\ grant # NoOne => status # "ABSENT"
    /\ consumptions # {} => grant # NoOne

\* A break-glass case is never PENDING and the only one to await a review.
EmergencyTellsStatus ==
    /\ status = "PENDING" => ~emergency
    /\ status = "POST_REVIEW_REQUIRED" => emergency

\* A rejected case is never approved again.
RejectionLasts ==
    (\E a \in Approvers : decisions[a] = "REJECT") =>
        status \in {"REJECTED", "REVOKED", "EXPIRED"}

RowsSound ==
    /\ DecisionsAreEligible
    /\ EmergencyTellsStatus
    /\ RejectionLasts
    /\ QuorumDecides
    /\ GrantAndCaseAgree

IInv == TypeOK /\ (\A s \in Sessions : SessionSound(s)) /\ RowsSound

-----------------------------------------------------------------------------
(* Counting approvals *)

\* A count of approvals is a number.
LEMMA ApprovalsCount ==
  ASSUME NEW ds
  PROVE  /\ IsFiniteSet(Approvals(ds)) /\ Cardinality(Approvals(ds)) \in Nat
         /\ IsFiniteSet(Approvals(ds) \cap Eligible)
         /\ Cardinality(Approvals(ds) \cap Eligible) \in Nat
  <1>1. IsFiniteSet(Approvers) /\ Approvals(ds) \subseteq Approvers
        /\ Approvals(ds) \cap Eligible \subseteq Approvers
    BY ApprovalAssumption DEF Approvals
  <1>2. IsFiniteSet(Approvals(ds)) /\ IsFiniteSet(Approvals(ds) \cap Eligible)
    BY <1>1, FS_Subset
  <1> QED
    BY <1>2, FS_CardinalityType

\* The approvals of the eligible are counted monotonically.
LEMMA MoreApprovals ==
  ASSUME NEW ds, NEW es, Approvals(ds) \subseteq Approvals(es)
  PROVE  Cardinality(Approvals(ds) \cap Eligible) <= Cardinality(Approvals(es) \cap Eligible)
  <1>1. Approvals(ds) \cap Eligible \in SUBSET (Approvals(es) \cap Eligible)
    OBVIOUS
  <1>2. IsFiniteSet(Approvals(es) \cap Eligible)
    BY ApprovalsCount
  <1>3. ASSUME NEW S, NEW T \in SUBSET S, IsFiniteSet(S)
        PROVE  Cardinality(T) <= Cardinality(S)
    BY <1>3, FS_Subset
  <1> QED
    BY <1>1, <1>2, <1>3

-----------------------------------------------------------------------------
\* The initial state satisfies the inductive invariant.
LEMMA InitEstablishes == Init => IInv
  <1> SUFFICES ASSUME Init PROVE IInv
    OBVIOUS
  <1> USE ApprovalAssumption DEF Init
  <1>1. TypeOK
    BY DEF TypeOK, Statuses, Decided
  <1>2. \A s \in Sessions : SessionSound(s)
    BY DEF SessionSound, CaseHeld, GrantHeld, HoldsGrant, CaseExists, Idle
  <1>3. NoOne # "REJECT"
    BY DEF ApprovalDecision
  <1>4. DecisionsAreEligible /\ EmergencyTellsStatus /\ QuorumDecides /\ GrantAndCaseAgree
    BY DEF DecisionsAreEligible, EmergencyTellsStatus, QuorumDecides, GrantAndCaseAgree
  <1>5. RejectionLasts
    BY <1>3 DEF RejectionLasts
  <1> QED
    BY <1>1, <1>2, <1>4, <1>5 DEF IInv, RowsSound

\* A step of session s that writes no row.
LEMMA QuietStep ==
  ASSUME IInv, NEW s \in Sessions, UNCHANGED <<expired, dbVars>>, status # "ABSENT",
         tx' = [tx EXCEPT ![s] = tx'[s]], tx'[s] \in Serving,
         case_lock' = case_lock \/ (case_lock = NoOne /\ case_lock' = s),
         grant_lock' = grant_lock \/ (grant_lock = NoOne /\ grant_lock' = s),
         CaseHeld(s)', GrantHeld(s)'
  PROVE  IInv'
  <1>1. TypeOK'
    BY DEF IInv, TypeOK, dbVars
  <1>2. RowsSound'
    BY DEF IInv, RowsSound, DecisionsAreEligible, EmergencyTellsStatus, RejectionLasts,
       QuorumDecides, GrantAndCaseAgree, Approvals, dbVars
  <1>3. ASSUME NEW t \in Sessions, t # s PROVE SessionSound(t)'
    <2>1. tx'[t] = tx[t] /\ SessionSound(t) /\ t # NoOne
      BY <1>3, ApprovalAssumption DEF IInv, TypeOK
    <2> QED
      BY <2>1 DEF SessionSound, CaseHeld, GrantHeld, HoldsGrant, CaseExists, dbVars
  <1>4. SessionSound(s)'
    BY DEF SessionSound, CaseExists, dbVars
  <1> QED
    BY <1>1, <1>2, <1>3, <1>4 DEF IInv

\* The end of a transaction of session s: a row it changed was locked by it, or
\* was not there.
LEMMA CommitPreserves ==
  ASSUME IInv, NEW s \in Sessions, Finish(s), expired' = expired,
         status' \in Statuses, emergency' \in BOOLEAN, decisions' \in Decided,
         grant' \in Grant \cup {NoOne},
         RowsSound',
         status # "ABSENT" => status' # "ABSENT",
         case_lock \in {s, NoOne} \/ (status' = status /\ decisions' = decisions),
         grant_lock = s \/ grant = NoOne \/ grant' = grant
  PROVE  IInv'
  <1>1. tx' = [tx EXCEPT ![s] = Idle]
    BY DEF Finish
  <1>2. TypeOK'
    BY <1>1 DEF IInv, TypeOK, Finish
  <1>3. ASSUME NEW t \in Sessions, t # s PROVE SessionSound(t)'
    <2>1. tx'[t] = tx[t] /\ SessionSound(t) /\ t # NoOne
      BY <1>1, <1>3, ApprovalAssumption DEF IInv, TypeOK
    <2>2. CaseHeld(t)'
      BY <1>3, <2>1 DEF SessionSound, CaseHeld, Finish
    <2>3. GrantHeld(t)'
      BY <1>3, <2>1 DEF SessionSound, GrantHeld, HoldsGrant, Finish
    <2> QED
      BY <2>1, <2>2, <2>3 DEF SessionSound, CaseExists
  <1>4. SessionSound(s)'
    <2>1. tx'[s] = Idle
      BY <1>1 DEF IInv, TypeOK
    <2> QED
      BY <2>1 DEF SessionSound, CaseHeld, GrantHeld, HoldsGrant, CaseExists, Idle
  <1> QED
    BY <1>2, <1>3, <1>4 DEF IInv

\* Rows that are left alone stay sound.
LEMMA RowsRest ==
  ASSUME RowsSound, UNCHANGED <<status, emergency, decisions, grant, consumptions>>
  PROVE  RowsSound'
  BY DEF RowsSound, DecisionsAreEligible, EmergencyTellsStatus, RejectionLasts,
     QuorumDecides, GrantAndCaseAgree, Approvals

\* The end of a transaction that changes no row.
LEMMA EndPreserves ==
  ASSUME IInv, NEW s \in Sessions, Finish(s),
         UNCHANGED <<expired, status, emergency, decisions, grant, consumptions>>
  PROVE  IInv'
  BY RowsRest, CommitPreserves DEF IInv, TypeOK

\* A refusal or a rollback.
LEMMA RefusePreserves == ASSUME IInv, NEW s \in Sessions, Refuse(s) PROVE IInv'
  BY EndPreserves DEF Refuse, dbVars

-----------------------------------------------------------------------------
(* Steps that write nothing *)

\* What a session that serves a request knows of itself.
LEMMA ServingSession ==
  ASSUME IInv, NEW s \in Sessions, tx[s].pc # "idle"
  PROVE  tx[s] \in Serving /\ SessionSound(s) /\ status # "ABSENT"
  <1>1. tx[s] \in Serving /\ SessionSound(s)
    BY DEF IInv, TypeOK, Idle
  <1> QED
    BY <1>1 DEF SessionSound, CaseExists

\* A request arrives and holds nothing.
LEMMA ArrivePreserves == ASSUME IInv, NEW s \in Sessions, Arrive(s) PROVE IInv'
  <1>1. PICK r \in Requests :
          tx' = [tx EXCEPT ![s] =
                  [pc |-> "arrived", req |-> r, late |-> expired, status |-> "ABSENT",
                   decisions |-> [a \in Approvers |-> NoOne], grant |-> NoOne]]
    BY DEF Arrive
  <1> DEFINE rec == [pc |-> "arrived", req |-> r, late |-> expired, status |-> "ABSENT",
                     decisions |-> [a \in Approvers |-> NoOne], grant |-> NoOne]
  <1>2. rec \in Serving /\ rec.pc = "arrived"
    BY ApprovalAssumption DEF Serving, Points, Statuses, Decided, IInv, TypeOK
  <1> HIDE DEF rec
  <1>3. tx'[s] = rec /\ tx' = [tx EXCEPT ![s] = tx'[s]]
    BY <1>1 DEF IInv, TypeOK, rec
  <1>4. CaseHeld(s)' /\ GrantHeld(s)'
    BY <1>2, <1>3 DEF CaseHeld, GrantHeld, HoldsGrant
  <1> QED
    BY <1>2, <1>3, <1>4, QuietStep DEF Arrive

\* The next point of a session that has taken no lock, or keeps those it has.
LEMMA GoesOn ==
  ASSUME IInv, NEW s \in Sessions, tx[s].pc # "idle", NEW pc \in Points,
         tx' = [tx EXCEPT ![s].pc = pc],
         UNCHANGED <<expired, dbVars, case_lock, grant_lock>>,
         pc \in {"lock_case", "lock_grant"},
         pc = "lock_case" => tx[s].req.op # "consume" \/ HoldsGrant(s)
  PROVE  IInv'
  <1>1. tx[s] \in Serving /\ SessionSound(s) /\ status # "ABSENT"
    BY ServingSession
  <1> DEFINE rec == [tx[s] EXCEPT !.pc = pc]
  <1>2. tx' = [tx EXCEPT ![s] = rec]
    OBVIOUS
  <1>3. rec \in Serving /\ rec.pc = pc /\ rec.req = tx[s].req /\ rec.grant = tx[s].grant
    BY <1>1 DEF Serving
  <1> HIDE DEF rec
  <1>4. tx'[s] = rec /\ tx' = [tx EXCEPT ![s] = tx'[s]]
    BY <1>2 DEF IInv, TypeOK
  <1>5. CaseHeld(s)' /\ GrantHeld(s)'
    BY <1>1, <1>3, <1>4 DEF SessionSound, CaseHeld, GrantHeld, HoldsGrant, dbVars
  <1> QED
    BY <1>1, <1>3, <1>4, <1>5, QuietStep

\* The row lock of the case: what is read under it is what is stored.
LEMMA LoadCasePreserves == ASSUME IInv, NEW s \in Sessions, LoadCase(s) PROVE IInv'
  <1>1. tx[s] \in Serving /\ SessionSound(s) /\ status # "ABSENT" /\ tx[s].pc = "lock_case"
    BY ServingSession DEF LoadCase
  <1> DEFINE rec == [tx[s] EXCEPT !.pc = "case_read", !.status = status, !.decisions = decisions]
  <1>2. tx' = [tx EXCEPT ![s] = rec]
    BY DEF LoadCase
  <1>3. /\ rec \in Serving /\ rec.pc = "case_read" /\ rec.req = tx[s].req
        /\ rec.grant = tx[s].grant /\ rec.status = status /\ rec.decisions = decisions
    BY <1>1 DEF Serving, Points, IInv, TypeOK
  <1> HIDE DEF rec
  <1>4. tx'[s] = rec /\ tx' = [tx EXCEPT ![s] = tx'[s]]
    BY <1>2 DEF IInv, TypeOK
  <1>5. CaseHeld(s)' /\ GrantHeld(s)'
    BY <1>1, <1>3, <1>4 DEF LoadCase, SessionSound, CaseHeld, GrantHeld, HoldsGrant, dbVars
  <1> QED
    BY <1>1, <1>3, <1>4, <1>5, QuietStep DEF LoadCase

\* The row lock of the grant.
LEMMA LoadGrantPreserves == ASSUME IInv, NEW s \in Sessions, LoadGrant(s) PROVE IInv'
  <1>1. tx[s] \in Serving /\ SessionSound(s) /\ status # "ABSENT" /\ tx[s].pc = "lock_grant"
    BY ServingSession DEF LoadGrant
  <1> DEFINE rec == [tx[s] EXCEPT !.pc = "grant_read", !.grant = grant]
  <1>2. tx' = [tx EXCEPT ![s] = rec]
    BY DEF LoadGrant
  <1>3. rec \in Serving /\ rec.pc = "grant_read" /\ rec.req = tx[s].req /\ rec.grant = grant
    BY <1>1 DEF Serving, Points, IInv, TypeOK
  <1> HIDE DEF rec
  <1>4. tx'[s] = rec /\ tx' = [tx EXCEPT ![s] = tx'[s]]
    BY <1>2 DEF IInv, TypeOK
  <1>5. CaseHeld(s)' /\ GrantHeld(s)'
    BY <1>1, <1>3, <1>4 DEF LoadGrant, SessionSound, CaseHeld, GrantHeld, HoldsGrant, dbVars
  <1> QED
    BY <1>1, <1>3, <1>4, <1>5, QuietStep DEF LoadGrant

-----------------------------------------------------------------------------
(* Steps that write rows *)

\* A case is created: nothing is decided yet.
LEMMA CreateCasePreserves == ASSUME IInv, CreateCase PROVE IInv'
  <1>1. /\ status = "ABSENT" /\ emergency' \in BOOLEAN
        /\ status' = IF emergency' THEN "POST_REVIEW_REQUIRED" ELSE "PENDING"
        /\ UNCHANGED <<expired, decisions, grant, consumptions, receipts, case_lock,
                       grant_lock, tx>>
    BY DEF CreateCase
  <1>2. TypeOK'
    BY <1>1 DEF IInv, TypeOK, Statuses
  <1>3. \A s \in Sessions : SessionSound(s)'
    BY <1>1 DEF IInv, SessionSound, CaseHeld, GrantHeld, HoldsGrant, CaseExists
  <1>4. (\A a \in Approvers : decisions[a] = NoOne) /\ grant = NoOne /\ consumptions = {}
    BY <1>1 DEF IInv, RowsSound, DecisionsAreEligible
  <1>5. NoOne \notin {"APPROVE", "REJECT"}
    BY ApprovalAssumption DEF ApprovalDecision
  <1>6. DecisionsAreEligible' /\ EmergencyTellsStatus' /\ RejectionLasts' /\ GrantAndCaseAgree'
    BY <1>1, <1>4, <1>5
       DEF DecisionsAreEligible, EmergencyTellsStatus, RejectionLasts, GrantAndCaseAgree
  <1>7. QuorumDecides'
    <2>1. Approvals(decisions') = {}
      BY <1>1, <1>4, <1>5 DEF Approvals
    <2>2. Cardinality(Approvals(decisions')) = 0
      BY <2>1, FS_EmptySet
    <2> QED
      BY <2>2, ApprovalAssumption DEF QuorumDecides
  <1> QED
    BY <1>2, <1>3, <1>6, <1>7 DEF IInv, RowsSound

\* A decision after expires_at, of whatever case.
LEMMA DecideExpiredPreserves == ASSUME IInv, NEW s \in Sessions, DecideExpired(s) PROVE IInv'
  <1>1. SessionSound(s) /\ status # "ABSENT" /\ tx[s].pc = "case_read"
    BY ServingSession DEF DecideExpired, Deciding
  <1>2. /\ status' = "EXPIRED" /\ Finish(s)
        /\ UNCHANGED <<expired, emergency, decisions, grant, consumptions>>
    BY DEF DecideExpired
  <1>3. RowsSound'
    BY <1>1, <1>2
       DEF IInv, RowsSound, DecisionsAreEligible, EmergencyTellsStatus, RejectionLasts,
           QuorumDecides, GrantAndCaseAgree, Approvals
  <1> QED
    BY <1>1, <1>2, <1>3, CommitPreserves DEF IInv, TypeOK, Statuses, SessionSound, CaseHeld

\* A decision: it counts the decisions that are stored, its own included.
LEMMA DecidePreserves == ASSUME IInv, NEW s \in Sessions, Decide(s) PROVE IInv'
  <1> DEFINE who == tx[s].req.who
             body == tx[s].req.body
  <1>1. /\ SessionSound(s) /\ status # "ABSENT" /\ tx[s].pc = "case_read"
        /\ tx[s] \in Serving /\ tx[s].req.op = "decide"
    BY ServingSession DEF Decide, Deciding
  <1>2. who \in Approvers /\ body \in ApprovalDecision
    BY <1>1 DEF Serving, RequestTypes
  <1>3. case_lock = s /\ tx[s].status = status /\ tx[s].decisions = decisions
    BY <1>1 DEF SessionSound, CaseHeld
  <1>4. /\ decisions' = [decisions EXCEPT ![who] = body]
        /\ status' = NextStatus(s, decisions')
        /\ Finish(s) /\ UNCHANGED <<expired, emergency, grant, consumptions>>
        /\ MayDecide(s)
    BY <1>3 DEF Decide, Answer
  <1>5. /\ decisions[who] = NoOne /\ who \in Eligible
        /\ status \in {"PENDING", "POST_REVIEW_REQUIRED"}
        /\ body = "POST_REVIEWED" => emergency /\ status = "POST_REVIEW_REQUIRED"
    BY <1>3, <1>4 DEF MayDecide
  <1>6. decisions' \in Decided /\ \A a \in Approvers :
          decisions'[a] = IF a = who THEN body ELSE decisions[a]
    BY <1>2, <1>4 DEF IInv, TypeOK, Decided
  <1>7. status' =
          CASE body = "REJECT" -> "REJECTED"
            [] body = "POST_REVIEWED" -> "APPROVED"
            [] body = "APPROVE" ->
                 IF Cardinality(Approvals(decisions')) < MinimumApprovers THEN status
                 ELSE IF emergency THEN "POST_REVIEW_REQUIRED" ELSE "APPROVED"
    BY <1>3, <1>4 DEF NextStatus
  <1> HIDE DEF who, body
  <1>8. /\ body = "REJECT" => status' = "REJECTED"
        /\ body = "POST_REVIEWED" => status' = "APPROVED"
        /\ body = "APPROVE" =>
             /\ Cardinality(Approvals(decisions')) < MinimumApprovers => status' = status
             /\ ~(Cardinality(Approvals(decisions')) < MinimumApprovers) =>
                  status' = IF emergency THEN "POST_REVIEW_REQUIRED" ELSE "APPROVED"
    BY <1>7
  <1>9. /\ body \in {"REJECT", "POST_REVIEWED", "APPROVE"} /\ status' \in Statuses
        /\ status' # "ABSENT" /\ NoOne \notin ApprovalDecision
    BY <1>1, <1>2, <1>5, <1>8, ApprovalAssumption DEF ApprovalDecision, Statuses
  <1>10. DecisionsAreEligible'
    BY <1>4, <1>5, <1>6, <1>9 DEF IInv, RowsSound, DecisionsAreEligible
  <1>11. EmergencyTellsStatus'
    BY <1>4, <1>5, <1>8, <1>9 DEF IInv, RowsSound, EmergencyTellsStatus
  <1>12. RejectionLasts'
    BY <1>5, <1>6, <1>8, <1>9 DEF IInv, RowsSound, RejectionLasts
  <1>13. QuorumDecides'
    <2>1. Cardinality(Approvals(decisions')) \in Nat /\ MinimumApprovers \in Nat
      BY ApprovalsCount, ApprovalAssumption
    <2> QED
      BY <2>1, <1>8, <1>9 DEF QuorumDecides
  <1>14. GrantAndCaseAgree'
    <2> SUFFICES ASSUME grant # NoOne PROVE GrantAndCaseAgree'
      BY <1>4 DEF GrantAndCaseAgree
    <2>1. ~grant.revoked /\ (consumptions = {} \/ emergency) /\ (grant.uses = 1 => emergency)
      BY <1>5 DEF IInv, RowsSound, GrantAndCaseAgree
    <2>2. Approvals(decisions) \subseteq Approvals(decisions')
      BY <1>5, <1>6, <1>9 DEF Approvals, ApprovalDecision
    <2>3. Cardinality(Approvals(decisions) \cap Eligible)
            <= Cardinality(Approvals(decisions') \cap Eligible)
      BY <2>2, MoreApprovals
    <2>4. grant.uses = 1 => /\ consumptions = {}
                            /\ Cardinality(Approvals(decisions) \cap Eligible) >= MinimumApprovers
      BY DEF IInv, RowsSound, GrantAndCaseAgree
    <2>5. /\ Cardinality(Approvals(decisions) \cap Eligible) \in Nat
          /\ Cardinality(Approvals(decisions') \cap Eligible) \in Nat
          /\ MinimumApprovers \in Nat
      BY ApprovalsCount, ApprovalAssumption
    <2>6. grant.uses = 1 => Cardinality(Approvals(decisions') \cap Eligible) >= MinimumApprovers
      BY <2>3, <2>4, <2>5
    <2> QED
      BY <1>4, <2>1, <2>4, <2>6 DEF GrantAndCaseAgree
  <1> QED
    BY <1>3, <1>4, <1>6, <1>9, <1>10, <1>11, <1>12, <1>13, <1>14, CommitPreserves
       DEF RowsSound, IInv, TypeOK
\* A first grant: of a case that a quorum of eligible approvers has approved.
LEMMA IssueGrantPreserves == ASSUME IInv, NEW s \in Sessions, IssueGrant(s) PROVE IInv'
  <1>1. SessionSound(s) /\ status # "ABSENT" /\ tx[s].pc = "case_read"
    BY ServingSession DEF IssueGrant, Issuing
  <1>2. case_lock = s /\ tx[s].status = status /\ tx[s].decisions = decisions
    BY <1>1 DEF SessionSound, CaseHeld
  <1>3. /\ grant = NoOne /\ grant' = [uses |-> 1, revoked |-> FALSE] /\ Finish(s)
        /\ UNCHANGED <<expired, status, emergency, decisions, consumptions>>
        /\ status \in {"APPROVED", "POST_REVIEW_REQUIRED"}
        /\ Cardinality(Approvals(decisions)) >= MinimumApprovers
    BY <1>2 DEF IssueGrant, GrantReady, Answer
  <1>4. grant' \in Grant /\ grant'.uses = 1 /\ ~grant'.revoked
    BY <1>3 DEF Grant
  <1>5. consumptions = {} /\ (status = "POST_REVIEW_REQUIRED" => emergency)
    BY <1>3 DEF IInv, RowsSound, DecisionsAreEligible, EmergencyTellsStatus
  <1>6. Approvals(decisions) \cap Eligible = Approvals(decisions)
    BY ApprovalAssumption DEF IInv, RowsSound, DecisionsAreEligible, Approvals, ApprovalDecision
  <1>7. GrantAndCaseAgree'
    BY <1>3, <1>4, <1>5, <1>6 DEF GrantAndCaseAgree
  <1>8. DecisionsAreEligible' /\ EmergencyTellsStatus' /\ RejectionLasts' /\ QuorumDecides'
    BY <1>1, <1>3, <1>5
       DEF IInv, RowsSound, DecisionsAreEligible, EmergencyTellsStatus, RejectionLasts,
           QuorumDecides
  <1> QED
    BY <1>1, <1>3, <1>4, <1>7, <1>8, CommitPreserves DEF RowsSound, IInv, TypeOK

\* A revocation takes the case with it.
LEMMA RevokeGrantPreserves == ASSUME IInv, NEW s \in Sessions, RevokeGrant(s) PROVE IInv'
  <1>1. SessionSound(s) /\ status # "ABSENT" /\ tx[s].pc = "grant_read"
    BY ServingSession DEF RevokeGrant, Revoking
  <1>2. grant_lock = s /\ grant # NoOne
    BY <1>1 DEF SessionSound, GrantHeld, HoldsGrant
  <1>3. /\ case_lock = NoOne /\ grant' = [uses |-> 0, revoked |-> TRUE] /\ Finish(s)
        /\ status' = "REVOKED"
        /\ UNCHANGED <<expired, emergency, decisions, consumptions>>
    BY DEF RevokeGrant, Answer
  <1>4. grant' \in Grant /\ grant'.uses = 0
    BY <1>3 DEF Grant
  <1>7. grant' # NoOne
    BY <1>4, ApprovalAssumption
  <1>5. GrantAndCaseAgree'
    BY <1>3, <1>4 DEF GrantAndCaseAgree
  <1>6. DecisionsAreEligible' /\ EmergencyTellsStatus' /\ RejectionLasts' /\ QuorumDecides'
    BY <1>1, <1>3, <1>7
       DEF IInv, RowsSound, DecisionsAreEligible, EmergencyTellsStatus, RejectionLasts,
           QuorumDecides
  <1> QED
    BY <1>2, <1>3, <1>4, <1>5, <1>6, CommitPreserves
       DEF RowsSound, IInv, TypeOK, Statuses

\* What a consumption meets when it commits: the stored grant has its use left
\* and the stored case is approved.
LEMMA ConsumptionFacts ==
  ASSUME IInv, NEW s \in Sessions, ConsumeGrant(s)
  PROVE  /\ case_lock = s /\ grant_lock = s /\ grant \in Grant /\ grant # NoOne
         /\ grant.uses = 1 /\ ~grant.revoked /\ consumptions = {}
         /\ status \in {"APPROVED", "POST_REVIEW_REQUIRED"}
         /\ \A a \in Approvers : decisions[a] # "REJECT"
  <1>1. SessionSound(s) /\ status # "ABSENT" /\ tx[s].pc = "case_read" /\ tx[s].req.op = "consume"
    BY ServingSession DEF ConsumeGrant, Consuming
  <1>2. case_lock = s /\ tx[s].status = status
    BY <1>1 DEF SessionSound, CaseHeld
  <1>3. grant_lock = s /\ grant # NoOne /\ grant \in Grant
    BY <1>1 DEF SessionSound, GrantHeld, HoldsGrant, IInv, TypeOK
  <1>4. grant.uses = 1 /\ ~grant.revoked /\ status \notin Refusing
    BY <1>2 DEF ConsumeGrant
  <1>5. consumptions = {} /\ (emergency \/ status \in {"APPROVED", "EXPIRED"})
    BY <1>3, <1>4 DEF IInv, RowsSound, GrantAndCaseAgree
  <1>6. status \in {"APPROVED", "POST_REVIEW_REQUIRED"}
    BY <1>1, <1>4, <1>5
       DEF IInv, TypeOK, Statuses, Refusing, RowsSound, EmergencyTellsStatus
  <1>7. \A a \in Approvers : decisions[a] # "REJECT"
    BY <1>6 DEF IInv, RowsSound, RejectionLasts
  <1> QED
    BY <1>2, <1>3, <1>4, <1>5, <1>6, <1>7

\* A consumption takes the use and, unless the case is break-glass, its status.
LEMMA ConsumeGrantPreserves == ASSUME IInv, NEW s \in Sessions, ConsumeGrant(s) PROVE IInv'
  <1>1. /\ case_lock = s /\ grant_lock = s /\ grant \in Grant /\ grant # NoOne
        /\ grant.uses = 1 /\ ~grant.revoked
        /\ status \in {"APPROVED", "POST_REVIEW_REQUIRED"}
        /\ \A a \in Approvers : decisions[a] # "REJECT"
    BY ConsumptionFacts
  <1>2. /\ grant' = [grant EXCEPT !.uses = 0] /\ Finish(s)
        /\ status' = IF emergency THEN status ELSE "CONSUMED"
        /\ UNCHANGED <<expired, emergency, decisions>>
    BY DEF ConsumeGrant, Answer
  <1>3. grant' \in Grant /\ grant'.uses = 0 /\ ~grant'.revoked
    BY <1>1, <1>2 DEF Grant
  <1>4. grant' # NoOne
    BY <1>3, ApprovalAssumption
  <1>5. GrantAndCaseAgree'
    BY <1>2, <1>3, <1>4 DEF GrantAndCaseAgree
  <1>6. DecisionsAreEligible' /\ EmergencyTellsStatus' /\ RejectionLasts' /\ QuorumDecides'
    BY <1>1, <1>2, <1>4
       DEF IInv, RowsSound, DecisionsAreEligible, EmergencyTellsStatus, RejectionLasts,
           QuorumDecides
  <1>7. status' \in Statuses /\ status' # "ABSENT" /\ emergency' \in BOOLEAN
        /\ decisions' \in Decided
    BY <1>1, <1>2 DEF Statuses, IInv, TypeOK
  <1> QED
    BY <1>1, <1>2, <1>3, <1>5, <1>6, <1>7, CommitPreserves DEF RowsSound

-----------------------------------------------------------------------------
(* Every step *)

\* Steps of a session that write no row of the case, the decisions or the grant.
LEMMA RestOfSessionPreserves ==
  ASSUME IInv, NEW s \in Sessions
  PROVE  /\ Replay(s) \/ NoGrant(s) \/ Abort(s) \/ RefuseDecision(s) => IInv'
         /\ RefuseIssue(s) \/ RevokeExpired(s) \/ RefuseConsumption(s) => IInv'
         /\ RevokeAgain(s) \/ ReissueGrant(s) => IInv'
         /\ Begin(s) \/ IssueMeetsGrant(s) \/ ConsumeMeetsGrant(s) => IInv'
  <1>1. ASSUME Replay(s) \/ NoGrant(s) \/ Abort(s) \/ RefuseDecision(s) PROVE IInv'
    BY <1>1, RefusePreserves DEF Replay, NoGrant, Abort, RefuseDecision
  <1>2. ASSUME RefuseIssue(s) \/ RevokeExpired(s) \/ RefuseConsumption(s) PROVE IInv'
    BY <1>2, RefusePreserves DEF RefuseIssue, RevokeExpired, RefuseConsumption
  <1>3. ASSUME RevokeAgain(s) \/ ReissueGrant(s) PROVE IInv'
    <2>1. CASE Refuse(s)
      BY <2>1, RefusePreserves
    <2>2. CASE Answer(s) /\ UNCHANGED <<status, emergency, decisions, grant, consumptions>>
      BY <2>2, EndPreserves DEF Answer
    <2> QED
      BY <1>3, <2>1, <2>2 DEF RevokeAgain, ReissueGrant
  <1>4. ASSUME Begin(s) PROVE IInv'
    <2>1. tx[s].pc = "arrived" /\ tx[s] \in Serving
      BY <1>4, ServingSession DEF Begin, LockIdempotency
    <2> DEFINE pc == IF tx[s].req.op \in {"decide", "issue"} THEN "lock_case" ELSE "lock_grant"
    <2>2. /\ tx' = [tx EXCEPT ![s].pc = pc]
          /\ UNCHANGED <<expired, dbVars, case_lock, grant_lock>>
      BY <1>4 DEF Begin
    <2>3. /\ pc \in {"lock_case", "lock_grant"} /\ pc \in Points
          /\ pc = "lock_case" => tx[s].req.op # "consume"
      BY DEF Points
    <2> HIDE DEF pc
    <2> QED
      BY <2>1, <2>2, <2>3, GoesOn
  <1>5. ASSUME IssueMeetsGrant(s) PROVE IInv'
    <2>1. /\ tx[s].pc = "case_read" /\ tx' = [tx EXCEPT ![s].pc = "lock_grant"]
          /\ UNCHANGED <<expired, dbVars, case_lock, grant_lock>>
      BY <1>5 DEF IssueMeetsGrant, Issuing
    <2> QED
      BY <2>1, GoesOn DEF Points
  <1>6. ASSUME ConsumeMeetsGrant(s) PROVE IInv'
    <2>1. CASE Refuse(s)
      BY <2>1, RefusePreserves
    <2>2. CASE ~Refuse(s)
      <3>1. /\ tx[s].pc = "grant_read" /\ tx' = [tx EXCEPT ![s].pc = "lock_case"]
            /\ UNCHANGED <<expired, dbVars, case_lock, grant_lock>>
        BY <1>6, <2>2 DEF ConsumeMeetsGrant, Consuming
      <3>2. HoldsGrant(s) /\ "lock_case" \in Points
        BY <3>1 DEF HoldsGrant, Points
      <3> QED
        BY <3>1, <3>2, GoesOn
    <2> QED
      BY <2>1, <2>2
  <1> QED
    BY <1>1, <1>2, <1>3, <1>4, <1>5, <1>6

\* expires_at passes.
LEMMA TickPreserves == ASSUME IInv, Tick PROVE IInv'
  <1>1. /\ expired' = TRUE /\ UNCHANGED <<case_lock, grant_lock, tx>>
        /\ UNCHANGED <<status, emergency, decisions, grant, consumptions>>
    BY DEF Tick, dbVars
  <1>2. RowsSound'
    BY <1>1, RowsRest DEF IInv
  <1>3. TypeOK' /\ \A s \in Sessions : SessionSound(s)'
    BY <1>1 DEF IInv, TypeOK, SessionSound, CaseHeld, GrantHeld, HoldsGrant, CaseExists
  <1> QED
    BY <1>2, <1>3 DEF IInv

\* A step in which nothing happens.
LEMMA StutterPreserves == ASSUME IInv, UNCHANGED vars PROVE IInv'
  <1>1. UNCHANGED <<expired, case_lock, grant_lock, tx>>
        /\ UNCHANGED <<status, emergency, decisions, grant, consumptions>>
    BY DEF vars, dbVars
  <1>2. RowsSound'
    BY <1>1, RowsRest DEF IInv
  <1>3. TypeOK' /\ \A s \in Sessions : SessionSound(s)'
    BY <1>1 DEF IInv, TypeOK, SessionSound, CaseHeld, GrantHeld, HoldsGrant, CaseExists
  <1> QED
    BY <1>2, <1>3 DEF IInv

\* Every step preserves the inductive invariant.
LEMMA StepPreserves == IInv /\ [Next]_vars => IInv'
  <1> SUFFICES ASSUME IInv, [Next]_vars PROVE IInv'
    OBVIOUS
  <1>1. ASSUME NEW s \in Sessions, SessionStep(s) PROVE IInv'
    BY <1>1, ArrivePreserves, LoadCasePreserves, LoadGrantPreserves,
       DecideExpiredPreserves, DecidePreserves, IssueGrantPreserves,
       RevokeGrantPreserves, ConsumeGrantPreserves, RestOfSessionPreserves
       DEF SessionStep
  <1> QED
    BY <1>1, CreateCasePreserves, TickPreserves, StutterPreserves DEF Next

-----------------------------------------------------------------------------
(* Theorems *)

\* From its row lock to its end a transaction knows the case and the grant as
\* they are stored, and the stored rows agree with each other, for every number
\* of connections, approvers, clients and requests.
THEOREM ApprovalInductive == Spec => []IInv
  BY InitEstablishes, StepPreserves, PTL DEF Spec

\* Approvals that arrive together are all counted: decide counts what it read
\* under FOR UPDATE, so a case that holds a quorum is never left PENDING.
THEOREM ApprovalQuorumDecides == Spec => []QuorumDecides
  <1>1. IInv => QuorumDecides
    BY DEF IInv, RowsSound
  <1> QED
    BY <1>1, ApprovalInductive, PTL

\* Whatever the order in which issue_grant, revoke_grant, consume_grant and
\* decide commit, the row of the grant and the row of the case tell one story.
THEOREM ApprovalGrantAndCaseAgree == Spec => []GrantAndCaseAgree
  <1>1. IInv => GrantAndCaseAgree
    BY DEF IInv, RowsSound
  <1> QED
    BY <1>1, ApprovalInductive, PTL

\* consume_grant commits only on a case that is approved at that moment and
\* rejected by nobody, and at most once.
THEOREM ApprovalConsumptionIsAuthorised == Spec => ConsumptionIsAuthorised
  <1> DEFINE Authorised ==
        consumptions' # consumptions =>
          /\ consumptions = {}
          /\ status \in {"APPROVED", "POST_REVIEW_REQUIRED"}
          /\ \A a \in Approvers : decisions[a] # "REJECT"
          /\ ~grant.revoked
  <1>1. ASSUME IInv, Next PROVE Authorised
    <2>1. ASSUME NEW s \in Sessions, ConsumeGrant(s) PROVE Authorised
      BY <1>1, <2>1, ConsumptionFacts
    <2>2. ASSUME NEW s \in Sessions, SessionStep(s), ~ConsumeGrant(s)
          PROVE  consumptions' = consumptions
      BY <2>2 DEF SessionStep, Arrive, Replay, Begin, Abort, LoadCase, LoadGrant, NoGrant,
         DecideExpired, Decide, RefuseDecision, RefuseIssue, IssueGrant, IssueMeetsGrant,
         ReissueGrant, RevokeAgain, RevokeExpired, RevokeGrant, ConsumeMeetsGrant,
         RefuseConsumption, Refuse, dbVars
    <2>3. CreateCase \/ Tick => consumptions' = consumptions
      BY DEF CreateCase, Tick, dbVars
    <2> QED
      BY <1>1, <2>1, <2>2, <2>3 DEF Next
  <1>2. IInv /\ [Next]_vars => [Authorised]_vars
    BY <1>1
  <1> QED
    BY <1>2, ApprovalInductive, PTL DEF Spec, ConsumptionIsAuthorised
=============================================================================
