-------------------------- MODULE ExecutionProofs --------------------------
(***************************************************************************)
(* Safety of the tool proxy, and of the execution service that calls it,   *)
(* for every set of calls, keys, instances, actions and execution ids; and *)
(* the proof that the proxy implements EffectOnce.                         *)
(*                                                                         *)
(* The proxy.  AtMostOneDispatch speaks of calls that reached the target;  *)
(* a call commits to it earlier, when mark_executing claims the row.  The  *)
(* inductive invariant therefore speaks of claims: a call past             *)
(* mark_executing, or one whose operation was sent.                        *)
(***************************************************************************)
EXTENDS Execution, SequenceTheorems, TLAPS

ClaimPoints == {"run", "await", "succeed", "mark_unknown"}
EarlyPoints == {"idle", "prepare", "preflight", "mark_failed", "mark_executing", "run"}

Claimed(p) == ppc[p] \in ClaimPoints \/ op[p] # "none"

\* The owner column is set exactly by mark_executing and never cleared.
OwnerTellsState ==
    \A k \in Keys :
        inv[k].owner = None <=> inv[k].state \in {"NONE", "PREPARED", "FAILED"}

\* The claim of a key is unique and its row carries the claimant's instance.
ClaimIsUnique ==
    \A p, q \in Calls : Claimed(p) /\ Claimed(q) /\ KeyOf[p] = KeyOf[q] => p = q
ClaimOwnsRow ==
    \A p \in Calls : Claimed(p) => Row(p).owner = InstanceOf[p]

\* Where a call stands tells what it may have sent.
PointTellsOp ==
    \A p \in Calls :
        /\ ppc[p] \in EarlyPoints => op[p] = "none"
        /\ ppc[p] = "succeed" => op[p] = "performed"

\* Responses repeat what the row says.
ReplyTellsRow ==
    \A p \in Calls :
        /\ reply[p] = "REJECTED" => Row(p).state = "FAILED"
        /\ reply[p] = "OK" => Row(p).state = "SUCCEEDED"

SucceededWasPerformed ==
    \A k \in Keys : inv[k].state = "SUCCEEDED" => Some(k, "performed")

ProxyIInv ==
    /\ ProxyTypeOK
    /\ OwnerTellsState
    /\ ClaimIsUnique
    /\ ClaimOwnsRow
    /\ PointTellsOp
    /\ ReplyTellsRow
    /\ SucceededWasPerformed

-----------------------------------------------------------------------------
\* The initial state satisfies the inductive invariant.
LEMMA ProxyInitEstablishes == ProxyInit => ProxyIInv
  <1> SUFFICES ASSUME ProxyInit PROVE ProxyIInv
    OBVIOUS
  <1> USE ToolProxyAssumption DEF ProxyInit
  <1>1. ProxyTypeOK
    BY DEF ProxyTypeOK, Invocation, CallPoints, Replies
  <1>2. OwnerTellsState
    BY DEF OwnerTellsState
  <1>3. ClaimIsUnique /\ ClaimOwnsRow
    BY DEF ClaimIsUnique, ClaimOwnsRow, Claimed, ClaimPoints
  <1>4. PointTellsOp /\ ReplyTellsRow /\ SucceededWasPerformed
    BY DEF PointTellsOp, ReplyTellsRow, SucceededWasPerformed, Row
  <1> QED
    BY <1>1, <1>2, <1>3, <1>4 DEF ProxyIInv

\* What a step of one call may do to its row, its place and its reply for the
\* invariant to survive; every step but the dispatch itself is of this form.
LEMMA CallMoves ==
  ASSUME ProxyIInv,
         NEW p \in Calls, NEW row \in Invocation,
         NEW point \in CallPoints, NEW r \in Replies,
         inv' = [inv EXCEPT ![KeyOf[p]] = row],
         ppc' = [ppc EXCEPT ![p] = point],
         reply' = [reply EXCEPT ![p] = r],
         op' = op,
         row.owner = None <=> row.state \in {"NONE", "PREPARED", "FAILED"},
         Row(p).owner # None => row.owner = Row(p).owner,
         Row(p).state \in {"SUCCEEDED", "FAILED"} => row.state = Row(p).state,
         row.state = "SUCCEEDED" => Row(p).state = "SUCCEEDED" \/ op[p] = "performed",
         point \in ClaimPoints => row.owner = InstanceOf[p],
         point \in ClaimPoints => Claimed(p) \/ Row(p).owner = None,
         point \in EarlyPoints => op[p] = "none",
         point = "succeed" => op[p] = "performed",
         r = "REJECTED" => row.state = "FAILED",
         r = "OK" => row.state = "SUCCEEDED"
  PROVE  ProxyIInv'
  <1> USE ToolProxyAssumption
  <1>1. /\ KeyOf[p] \in Keys
        /\ inv' \in [Keys -> Invocation]
        /\ inv'[KeyOf[p]] = row
        /\ \A k \in Keys : k # KeyOf[p] => inv'[k] = inv[k]
    BY DEF ProxyIInv, ProxyTypeOK
  <1>2. /\ ppc' \in [Calls -> CallPoints]
        /\ ppc'[p] = point
        /\ \A q \in Calls : q # p => ppc'[q] = ppc[q]
    BY DEF ProxyIInv, ProxyTypeOK
  <1>3. /\ reply' \in [Calls -> Replies]
        /\ reply'[p] = r
        /\ \A q \in Calls : q # p => reply'[q] = reply[q]
    BY DEF ProxyIInv, ProxyTypeOK
  <1>4. ProxyTypeOK'
    BY <1>1, <1>2, <1>3 DEF ProxyIInv, ProxyTypeOK, Invocation
  <1>5. OwnerTellsState'
    BY <1>1 DEF ProxyIInv, OwnerTellsState
  <1>6. ASSUME NEW q \in Calls, q # p, Claimed(q)', KeyOf[q] = KeyOf[p]
        PROVE  ~Claimed(p)'
    <2>1. Claimed(q) /\ Row(p).owner # None
      BY <1>2, <1>6 DEF Claimed, ProxyIInv, ClaimOwnsRow, Row
    <2> QED
      BY <1>2, <1>6, <2>1 DEF Claimed, ProxyIInv, ClaimIsUnique
  <1>7. ClaimIsUnique'
    BY <1>2, <1>6 DEF ProxyIInv, ClaimIsUnique, Claimed
  <1>8. ClaimOwnsRow'
    BY <1>1, <1>2 DEF ProxyIInv, ClaimOwnsRow, Claimed, Row
  <1>9. PointTellsOp'
    BY <1>2 DEF ProxyIInv, PointTellsOp
  <1>10. ReplyTellsRow'
    BY <1>1, <1>3 DEF ProxyIInv, ReplyTellsRow, Row
  <1>11. SucceededWasPerformed'
    BY <1>1 DEF ProxyIInv, SucceededWasPerformed, Some, Row
  <1> QED
    BY <1>4, <1>5, <1>7, <1>8, <1>9, <1>10, <1>11 DEF ProxyIInv

\* A step that leaves the store alone: the row stays what it was.
LEMMA CallMovesOnly ==
  ASSUME ProxyIInv,
         NEW p \in Calls, NEW point \in CallPoints, NEW r \in Replies,
         inv' = inv, op' = op,
         ppc' = [ppc EXCEPT ![p] = point],
         reply' = [reply EXCEPT ![p] = r],
         point \in ClaimPoints => ppc[p] \in ClaimPoints,
         point \in EarlyPoints => ppc[p] \in EarlyPoints,
         point = "succeed" => op[p] = "performed",
         r = "REJECTED" => Row(p).state = "FAILED",
         r = "OK" => Row(p).state = "SUCCEEDED"
  PROVE  ProxyIInv'
  <1> USE ToolProxyAssumption
  <1>1. Row(p) \in Invocation /\ inv' = [inv EXCEPT ![KeyOf[p]] = Row(p)]
    BY DEF ProxyIInv, ProxyTypeOK, Row
  <1>2. Row(p).owner = None <=> Row(p).state \in {"NONE", "PREPARED", "FAILED"}
    BY DEF ProxyIInv, OwnerTellsState, Row
  <1>3. point \in ClaimPoints => Row(p).owner = InstanceOf[p] /\ Claimed(p)
    BY DEF ProxyIInv, ClaimOwnsRow, Claimed
  <1>4. point \in EarlyPoints => op[p] = "none"
    BY DEF ProxyIInv, PointTellsOp
  <1> QED
    BY <1>1, <1>2, <1>3, <1>4, CallMoves

\* Every step of a call, of the store's background or of the target keeps the
\* inductive invariant.
LEMMA ProxyStepPreserves == ProxyIInv /\ [ProxyNext]_proxyVars => ProxyIInv'
  <1> SUFFICES ASSUME ProxyIInv, [ProxyNext]_proxyVars PROVE ProxyIInv'
    OBVIOUS
  <1> USE ToolProxyAssumption DEF CallPoints, Replies
  <1>a. reply \in [Calls -> Replies] /\ ppc \in [Calls -> CallPoints]
    BY DEF ProxyIInv, ProxyTypeOK
  <1>b. \A p \in Calls : /\ reply[p] \in Replies
                         /\ reply = [reply EXCEPT ![p] = reply[p]]
                         /\ reply[p] = "REJECTED" => Row(p).state = "FAILED"
                         /\ reply[p] = "OK" => Row(p).state = "SUCCEEDED"
    BY <1>a DEF ProxyIInv, ReplyTellsRow
  <1>c. \A p \in Calls : Row(p) \in Invocation /\ KeyOf[p] \in Keys
    BY DEF ProxyIInv, ProxyTypeOK, Row
  <1>1. ASSUME NEW p \in Calls, ProxyReceive(p) PROVE ProxyIInv'
    BY <1>1, <1>b, CallMovesOnly DEF ProxyReceive, Goto, ClaimPoints, EarlyPoints
  <1>2. ASSUME NEW p \in Calls, PrepareNew(p) PROVE ProxyIInv'
    <2> DEFINE row == [state |-> "PREPARED", request |-> RequestOf[p],
                       owner |-> None, lease |-> "none"]
    <2>1. row \in Invocation
      BY DEF Invocation, InvocationState
    <2>2. Row(p).owner = None /\ op[p] = "none"
      BY <1>2, <1>c DEF PrepareNew, ProxyIInv, OwnerTellsState, PointTellsOp, Row, EarlyPoints
    <2> QED
      BY <1>2, <1>b, <1>c, <2>1, <2>2, CallMoves
         DEF PrepareNew, SetRow, Goto, ClaimPoints, EarlyPoints
  <1>3. ASSUME NEW p \in Calls, PrepareAgain(p) PROVE ProxyIInv'
    <2>1. CASE Row(p).state = "PREPARED"
      BY <1>3, <1>b, <2>1, CallMovesOnly DEF PrepareAgain, Goto, Respond, ClaimPoints, EarlyPoints
    <2>2. CASE Row(p).state \in {"EXECUTING", "UNKNOWN"}
      BY <1>3, <1>b, <2>2, CallMovesOnly DEF PrepareAgain, Goto, Respond, ClaimPoints, EarlyPoints
    <2>3. CASE Row(p).state = "SUCCEEDED"
      BY <1>3, <1>b, <2>3, CallMovesOnly DEF PrepareAgain, Goto, Respond, ClaimPoints, EarlyPoints
    <2>4. CASE Row(p).state = "FAILED"
      BY <1>3, <1>b, <2>4, CallMovesOnly DEF PrepareAgain, Goto, Respond, ClaimPoints, EarlyPoints
    <2> QED
      BY <1>3, <2>1, <2>2, <2>3, <2>4 DEF PrepareAgain
  <1>4. ASSUME NEW p \in Calls, PrepareConflict(p) PROVE ProxyIInv'
    BY <1>4, CallMovesOnly DEF PrepareConflict, Respond, ClaimPoints, EarlyPoints
  <1>5. ASSUME NEW p \in Calls, Preflight(p) PROVE ProxyIInv'
    BY <1>5, <1>b, CallMovesOnly DEF Preflight, Goto, ClaimPoints, EarlyPoints
  <1>6. ASSUME NEW p \in Calls, InvocationMarkFailed(p) PROVE ProxyIInv'
    <2>1. CASE Row(p).state = "PREPARED" /\ Row(p).owner = None
      <3> DEFINE row == [Row(p) EXCEPT !.state = "FAILED"]
      <3>1. row \in Invocation /\ row.state = "FAILED" /\ row.owner = None
        BY <1>c, <2>1 DEF Invocation, InvocationState
      <3> QED
        BY <1>6, <2>1, <3>1, CallMoves
           DEF InvocationMarkFailed, SetRow, Respond, ClaimPoints, EarlyPoints
    <2>2. CASE ~(Row(p).state = "PREPARED" /\ Row(p).owner = None)
      BY <1>6, <2>2, CallMovesOnly DEF InvocationMarkFailed, Respond, ClaimPoints, EarlyPoints
    <2> QED
      BY <2>1, <2>2
  <1>7. ASSUME NEW p \in Calls, InvocationMarkExecuting(p) PROVE ProxyIInv'
    <2>1. CASE Row(p).state = "PREPARED" /\ Row(p).owner = None
      <3> DEFINE row == [Row(p) EXCEPT !.state = "EXECUTING", !.owner = InstanceOf[p],
                                       !.lease = "live"]
      <3>1. row \in Invocation /\ row.state = "EXECUTING" /\ row.owner = InstanceOf[p]
        BY <1>c, <2>1 DEF Invocation, InvocationState
      <3>2. op[p] = "none"
        BY <1>7 DEF InvocationMarkExecuting, ProxyIInv, PointTellsOp, EarlyPoints
      <3>3. /\ inv' = [inv EXCEPT ![KeyOf[p]] = row]
            /\ ppc' = [ppc EXCEPT ![p] = "run"]
            /\ reply' = [reply EXCEPT ![p] = reply[p]]
            /\ op' = op
        BY <1>7, <1>b, <2>1 DEF InvocationMarkExecuting, SetRow, Goto
      <3>4. InstanceOf[p] # None
        OBVIOUS
      <3> HIDE DEF row
      <3> QED
        BY <1>b, <2>1, <3>1, <3>2, <3>3, <3>4, CallMoves DEF ClaimPoints, EarlyPoints
    <2>2. CASE ~(Row(p).state = "PREPARED" /\ Row(p).owner = None)
      BY <1>7, <2>2, CallMovesOnly DEF InvocationMarkExecuting, Respond, ClaimPoints, EarlyPoints
    <2> QED
      BY <2>1, <2>2
  <1>8. ASSUME NEW p \in Calls, RunRefused(p) PROVE ProxyIInv'
    BY <1>8, <1>b, CallMovesOnly DEF RunRefused, Goto, ClaimPoints, EarlyPoints
  <1>9. ASSUME NEW p \in Calls, RunDispatches(p) PROVE ProxyIInv'
    BY <1>9 DEF RunDispatches, Goto, ProxyIInv, ProxyTypeOK, OwnerTellsState, ClaimIsUnique,
        ClaimOwnsRow, PointTellsOp, ReplyTellsRow, SucceededWasPerformed, Claimed, Row, Some,
        ClaimPoints, EarlyPoints
  <1>10. ASSUME NEW p \in Calls, TargetPerforms(p) PROVE ProxyIInv'
    BY <1>10 DEF TargetPerforms, ProxyIInv, ProxyTypeOK, OwnerTellsState, ClaimIsUnique,
        ClaimOwnsRow, PointTellsOp, ReplyTellsRow, SucceededWasPerformed, Claimed, Row, Some,
        ClaimPoints, EarlyPoints
  <1>11. ASSUME NEW p \in Calls, RunSucceeds(p) PROVE ProxyIInv'
    BY <1>11, <1>b, CallMovesOnly DEF RunSucceeds, Goto, ClaimPoints, EarlyPoints
  <1>12. ASSUME NEW p \in Calls, RunFails(p) PROVE ProxyIInv'
    BY <1>12, <1>b, CallMovesOnly DEF RunFails, Goto, ClaimPoints, EarlyPoints
  <1>13. ASSUME NEW p \in Calls, InvocationSucceed(p) PROVE ProxyIInv'
    <2>1. CASE OwnsExecuting(p)
      <3> DEFINE row == [Row(p) EXCEPT !.state = "SUCCEEDED", !.lease = "none"]
      <3>1. row \in Invocation /\ row.state = "SUCCEEDED" /\ row.owner = InstanceOf[p]
        BY <1>c, <2>1 DEF Invocation, InvocationState, OwnsExecuting
      <3>2. op[p] = "performed"
        BY <1>13 DEF InvocationSucceed, ProxyIInv, PointTellsOp
      <3>3. /\ inv' = [inv EXCEPT ![KeyOf[p]] = row]
            /\ ppc' = [ppc EXCEPT ![p] = "done"]
            /\ reply' = [reply EXCEPT ![p] = "OK"]
            /\ op' = op
        BY <1>13, <2>1 DEF InvocationSucceed, SetRow, Respond
      <3>4. InstanceOf[p] # None
        OBVIOUS
      <3> HIDE DEF row
      <3> QED
        BY <2>1, <3>1, <3>2, <3>3, <3>4, CallMoves DEF OwnsExecuting, ClaimPoints, EarlyPoints
    <2>2. CASE ~OwnsExecuting(p)
      BY <1>13, <2>2, CallMovesOnly DEF InvocationSucceed, Respond, ClaimPoints, EarlyPoints
    <2> QED
      BY <2>1, <2>2
  <1>14. ASSUME NEW p \in Calls, InvocationMarkUnknown(p) PROVE ProxyIInv'
    <2>1. CASE OwnsExecuting(p)
      <3> DEFINE row == [Row(p) EXCEPT !.state = "UNKNOWN", !.lease = "none"]
      <3>1. row \in Invocation /\ row.state = "UNKNOWN" /\ row.owner = InstanceOf[p]
        BY <1>c, <2>1 DEF Invocation, InvocationState, OwnsExecuting
      <3> QED
        BY <1>14, <2>1, <3>1, CallMoves
           DEF InvocationMarkUnknown, OwnsExecuting, SetRow, Respond, ClaimPoints, EarlyPoints
    <2>2. CASE ~OwnsExecuting(p)
      BY <1>14, <2>2, CallMovesOnly DEF InvocationMarkUnknown, Respond, ClaimPoints, EarlyPoints
    <2> QED
      BY <2>1, <2>2
  <1>15. ASSUME NEW p \in Calls, ProxyAborts(p) \/ ProxyRefuses(p) PROVE ProxyIInv'
    BY <1>15, CallMovesOnly DEF ProxyAborts, ProxyRefuses, Respond, ClaimPoints, EarlyPoints
  <1>16. ASSUME NEW k \in Keys, LeaseExpires(k) PROVE ProxyIInv'
    BY <1>16 DEF LeaseExpires, ProxyIInv, ProxyTypeOK, Invocation, OwnerTellsState,
        ClaimIsUnique, ClaimOwnsRow, PointTellsOp, ReplyTellsRow, SucceededWasPerformed,
        Claimed, Row, Some
  <1>17. ASSUME NEW k \in Keys, RecoverExpiredExecuting(k) PROVE ProxyIInv'
    BY <1>17 DEF RecoverExpiredExecuting, ProxyIInv, ProxyTypeOK, Invocation,
        InvocationState, OwnerTellsState, ClaimIsUnique, ClaimOwnsRow, PointTellsOp,
        ReplyTellsRow, SucceededWasPerformed, Claimed, Row, Some
  <1>18. ASSUME UNCHANGED proxyVars PROVE ProxyIInv'
    BY <1>18 DEF proxyVars, ProxyIInv, ProxyTypeOK, OwnerTellsState, ClaimIsUnique,
        ClaimOwnsRow, PointTellsOp, ReplyTellsRow, SucceededWasPerformed, Claimed, Row, Some
  <1> QED
    BY <1>1, <1>2, <1>3, <1>4, <1>5, <1>6, <1>7, <1>8, <1>9, <1>10, <1>11, <1>12,
       <1>13, <1>14, <1>15, <1>16, <1>17, <1>18
       DEF ProxyNext, ProxyStep, ProxyBackground

-----------------------------------------------------------------------------
\* The inductive invariant holds in every state of the proxy.
THEOREM ProxyInductive == ProxySpec => []ProxyIInv
  BY ProxyInitEstablishes, ProxyStepPreserves, PTL DEF ProxySpec

\* Rows, calls, replies and target operations keep their types.
THEOREM ProxyTypeCorrect == ProxySpec => []ProxyTypeOK
  <1>1. ProxyIInv => ProxyTypeOK
    BY DEF ProxyIInv
  <1> QED
    BY <1>1, ProxyInductive, PTL

\* However many calls share a key, at most one reaches the target.
THEOREM ProxyAtMostOneDispatch == ProxySpec => []AtMostOneDispatch
  <1>1. ProxyIInv => AtMostOneDispatch
    <2> SUFFICES ASSUME ProxyIInv, NEW p \in Calls, NEW q \in Calls,
                        KeyOf[p] = KeyOf[q], op[p] # "none"
                 PROVE  /\ op[q] # "none" => p = q
                        /\ Row(p).owner = InstanceOf[p]
                        /\ Row(p).state \in {"EXECUTING", "SUCCEEDED", "UNKNOWN"}
      BY DEF AtMostOneDispatch
    <2>1. op[q] # "none" => p = q
      BY DEF ProxyIInv, ClaimIsUnique, Claimed
    <2>2. Row(p).owner = InstanceOf[p] /\ InstanceOf[p] # None
      BY ToolProxyAssumption DEF ProxyIInv, ClaimOwnsRow, Claimed
    <2>3. Row(p).state \in {"EXECUTING", "SUCCEEDED", "UNKNOWN"}
      BY <2>2, ToolProxyAssumption DEF ProxyIInv, ProxyTypeOK, Invocation, InvocationState,
         OwnerTellsState, Row
    <2> QED
      BY <2>1, <2>2, <2>3
  <1> QED
    BY <1>1, ProxyInductive, PTL

\* A FAILED row and a 422 are proofs of absence.
THEOREM ProxyRejectedMeansNotDispatched == ProxySpec => []RejectedMeansNotDispatched
  <1>1. ProxyIInv => RejectedMeansNotDispatched
    <2> SUFFICES ASSUME ProxyIInv, NEW p \in Calls,
                        reply[p] = "REJECTED" \/ Row(p).state = "FAILED",
                        NEW q \in Calls, KeyOf[q] = KeyOf[p]
                 PROVE  op[q] = "none"
      BY DEF RejectedMeansNotDispatched
    <2>1. Row(q).state = "FAILED" /\ KeyOf[q] \in Keys /\ InstanceOf[q] # None
      BY ToolProxyAssumption DEF ProxyIInv, ReplyTellsRow, Row
    <2>2. Row(q).owner = None
      BY <2>1 DEF ProxyIInv, OwnerTellsState, Row
    <2> QED
      BY <2>1, <2>2 DEF ProxyIInv, ClaimOwnsRow, Claimed
  <1> QED
    BY <1>1, ProxyInductive, PTL

\* A SUCCEEDED row and a 200 are facts of the target.
THEOREM ProxySuccessMeansPerformed == ProxySpec => []SuccessMeansPerformed
  <1>1. ProxyIInv => SuccessMeansPerformed
    BY ToolProxyAssumption
       DEF ProxyIInv, SuccessMeansPerformed, ReplyTellsRow, SucceededWasPerformed, Some, Row
  <1> QED
    BY <1>1, ProxyInductive, PTL

-----------------------------------------------------------------------------
(* The refinement *)

\* Through the unique claim, the state of one call's operation is the key's.
LEMMA EffectOfClaim ==
  ASSUME ProxyIInv, NEW p \in Calls
  PROVE  /\ op[p] # "none" => Effect(KeyOf[p]) = op[p]
         /\ Claimed(p) /\ op[p] = "none" => Effect(KeyOf[p]) = "none"
  BY DEF ProxyIInv, ProxyTypeOK, ClaimIsUnique, Claimed, Effect, Some

\* A row nobody owns has no effect behind it.
LEMMA EffectOfUnowned ==
  ASSUME ProxyIInv, NEW k \in Keys, inv[k].owner = None
  PROVE  Effect(k) = "none"
  BY ToolProxyAssumption DEF ProxyIInv, ClaimOwnsRow, Claimed, Effect, Some, Row

\* Initial states map to initial states.
LEMMA InitRefines == ProxyInit => Once!Init
  BY DEF ProxyInit, Once!Init, Effect, Some, Verdict

\* Every step maps to a step of EffectOnce or to none.
LEMMA StepRefines ==
  ProxyIInv /\ [ProxyNext]_proxyVars => [Once!Next]_(Once!effectVars)
  <1> SUFFICES ASSUME ProxyIInv, [ProxyNext]_proxyVars
               PROVE  [Once!Next]_(Once!effectVars)
    OBVIOUS
  <1> USE ToolProxyAssumption
  <1>0. ProxyIInv'
    BY ProxyStepPreserves
  <1>a. ASSUME inv' = inv, op' = op PROVE UNCHANGED Once!effectVars
    BY <1>a DEF Once!effectVars, Effect, Some, Verdict
  <1>b. ASSUME NEW k \in Keys, NEW row, inv' = [inv EXCEPT ![k] = row], op' = op
        PROVE  /\ \A j \in Keys : Effect(j)' = Effect(j)
               /\ \A j \in Keys : j # k => Verdict(j)' = Verdict(j)
               /\ Verdict(k)' = IF row.state \in {"SUCCEEDED", "FAILED", "UNKNOWN"}
                                THEN row.state ELSE "open"
    BY <1>b DEF ProxyIInv, ProxyTypeOK, Effect, Some, Verdict
  <1>1. ASSUME NEW p \in Calls, ProxyReceive(p) \/ PrepareAgain(p) \/ PrepareConflict(p)
                   \/ Preflight(p) \/ RunRefused(p) \/ RunSucceeds(p) \/ RunFails(p)
                   \/ ProxyAborts(p) \/ ProxyRefuses(p)
        PROVE  UNCHANGED Once!effectVars
    BY <1>1, <1>a DEF ProxyReceive, PrepareAgain, PrepareConflict, Preflight, RunRefused,
       RunSucceeds, RunFails, ProxyAborts, ProxyRefuses
  <1>2. ASSUME NEW p \in Calls, PrepareNew(p) PROVE UNCHANGED Once!effectVars
    <2> DEFINE row == [state |-> "PREPARED", request |-> RequestOf[p],
                       owner |-> None, lease |-> "none"]
    <2>1. KeyOf[p] \in Keys /\ inv' = [inv EXCEPT ![KeyOf[p]] = row] /\ op' = op
      BY <1>2 DEF PrepareNew, SetRow
    <2>2. row.state = "PREPARED" /\ Verdict(KeyOf[p]) = "open"
      BY <1>2 DEF PrepareNew, Row, Verdict
    <2> HIDE DEF row
    <2> QED
      BY <2>1, <2>2, <1>b DEF Once!effectVars
  <1>3. ASSUME NEW p \in Calls, InvocationMarkFailed(p)
        PROVE  Once!Reject(KeyOf[p]) \/ UNCHANGED Once!effectVars
    <2>1. CASE Row(p).state = "PREPARED" /\ Row(p).owner = None
      <3> DEFINE row == [Row(p) EXCEPT !.state = "FAILED"]
      <3>1. KeyOf[p] \in Keys /\ inv' = [inv EXCEPT ![KeyOf[p]] = row] /\ op' = op
        BY <1>3, <2>1 DEF InvocationMarkFailed, SetRow
      <3>2. row.state = "FAILED" /\ Verdict(KeyOf[p]) = "open" /\ Effect(KeyOf[p]) = "none"
        BY <2>1, <3>1, EffectOfUnowned DEF Row, Verdict, ProxyIInv, ProxyTypeOK, Invocation
      <3> HIDE DEF row
      <3> QED
        BY <3>1, <3>2, <1>b DEF Once!Reject
    <2>2. CASE ~(Row(p).state = "PREPARED" /\ Row(p).owner = None)
      BY <1>3, <2>2, <1>a DEF InvocationMarkFailed
    <2> QED
      BY <2>1, <2>2
  <1>4. ASSUME NEW p \in Calls, InvocationMarkExecuting(p) PROVE UNCHANGED Once!effectVars
    <2>1. CASE Row(p).state = "PREPARED" /\ Row(p).owner = None
      <3> DEFINE row == [Row(p) EXCEPT !.state = "EXECUTING", !.owner = InstanceOf[p],
                                       !.lease = "live"]
      <3>1. KeyOf[p] \in Keys /\ inv' = [inv EXCEPT ![KeyOf[p]] = row] /\ op' = op
        BY <1>4, <2>1 DEF InvocationMarkExecuting, SetRow
      <3>2. row.state = "EXECUTING" /\ Verdict(KeyOf[p]) = "open"
        BY <2>1, <3>1 DEF Row, Verdict, ProxyIInv, ProxyTypeOK, Invocation
      <3> HIDE DEF row
      <3> QED
        BY <3>1, <3>2, <1>b DEF Once!effectVars
    <2>2. CASE ~(Row(p).state = "PREPARED" /\ Row(p).owner = None)
      BY <1>4, <2>2, <1>a DEF InvocationMarkExecuting
    <2> QED
      BY <2>1, <2>2
  <1>5. ASSUME NEW p \in Calls, InvocationSucceed(p)
        PROVE  Once!Succeed(KeyOf[p]) \/ UNCHANGED Once!effectVars
    <2>1. CASE OwnsExecuting(p)
      <3> DEFINE row == [Row(p) EXCEPT !.state = "SUCCEEDED", !.lease = "none"]
      <3>1. KeyOf[p] \in Keys /\ inv' = [inv EXCEPT ![KeyOf[p]] = row] /\ op' = op
        BY <1>5, <2>1 DEF InvocationSucceed, SetRow
      <3>2. row.state = "SUCCEEDED" /\ Verdict(KeyOf[p]) = "open"
        BY <2>1, <3>1 DEF OwnsExecuting, Row, Verdict, ProxyIInv, ProxyTypeOK, Invocation
      <3>3. Effect(KeyOf[p]) = "performed"
        BY <1>5, EffectOfClaim DEF InvocationSucceed, ProxyIInv, PointTellsOp
      <3> HIDE DEF row
      <3> QED
        BY <3>1, <3>2, <3>3, <1>b DEF Once!Succeed
    <2>2. CASE ~OwnsExecuting(p)
      BY <1>5, <2>2, <1>a DEF InvocationSucceed
    <2> QED
      BY <2>1, <2>2
  <1>6. ASSUME NEW p \in Calls, InvocationMarkUnknown(p)
        PROVE  Once!GiveUp(KeyOf[p]) \/ UNCHANGED Once!effectVars
    <2>1. CASE OwnsExecuting(p)
      <3> DEFINE row == [Row(p) EXCEPT !.state = "UNKNOWN", !.lease = "none"]
      <3>1. KeyOf[p] \in Keys /\ inv' = [inv EXCEPT ![KeyOf[p]] = row] /\ op' = op
        BY <1>6, <2>1 DEF InvocationMarkUnknown, SetRow
      <3>2. row.state = "UNKNOWN" /\ Verdict(KeyOf[p]) = "open"
        BY <2>1, <3>1 DEF OwnsExecuting, Row, Verdict, ProxyIInv, ProxyTypeOK, Invocation
      <3> HIDE DEF row
      <3> QED
        BY <3>1, <3>2, <1>b DEF Once!GiveUp
    <2>2. CASE ~OwnsExecuting(p)
      BY <1>6, <2>2, <1>a DEF InvocationMarkUnknown
    <2> QED
      BY <2>1, <2>2
  <1>7. ASSUME NEW k \in Keys, RecoverExpiredExecuting(k) PROVE Once!GiveUp(k)
    <2> DEFINE row == [inv[k] EXCEPT !.state = "UNKNOWN", !.lease = "none"]
    <2>1. inv' = [inv EXCEPT ![k] = row] /\ op' = op
      BY <1>7 DEF RecoverExpiredExecuting, ProxyIInv, ProxyTypeOK, Invocation
    <2>2. row.state = "UNKNOWN" /\ Verdict(k) = "open"
      BY <1>7 DEF RecoverExpiredExecuting, Verdict, ProxyIInv, ProxyTypeOK, Invocation
    <2> HIDE DEF row
    <2> QED
      BY <2>1, <2>2, <1>b DEF Once!GiveUp
  <1>8. ASSUME NEW k \in Keys, LeaseExpires(k) PROVE UNCHANGED Once!effectVars
    <2> DEFINE row == [inv[k] EXCEPT !.lease = "expired"]
    <2>1. inv' = [inv EXCEPT ![k] = row] /\ op' = op
      BY <1>8 DEF LeaseExpires, ProxyIInv, ProxyTypeOK, Invocation
    <2>2. row.state = inv[k].state
      BY DEF ProxyIInv, ProxyTypeOK, Invocation
    <2>3. Verdict(k) = IF row.state \in {"SUCCEEDED", "FAILED", "UNKNOWN"}
                       THEN row.state ELSE "open"
      BY <2>2 DEF Verdict
    <2> HIDE DEF row
    <2> QED
      BY <2>1, <2>3, <1>b DEF Once!effectVars
  <1>9. ASSUME NEW p \in Calls, RunDispatches(p) PROVE Once!Dispatch(KeyOf[p])
    <2>1. Claimed(p) /\ op[p] = "none" /\ KeyOf[p] \in Keys /\ InstanceOf[p] # None
      BY <1>9 DEF RunDispatches, Claimed, ClaimPoints, EarlyPoints, ProxyIInv, PointTellsOp
    <2>2. Effect(KeyOf[p]) = "none"
      BY <2>1, EffectOfClaim
    <2>3. Verdict(KeyOf[p]) \in {"open", "UNKNOWN"}
      BY <2>1, <2>2 DEF Verdict, Effect, ProxyIInv, OwnerTellsState, ClaimOwnsRow,
         SucceededWasPerformed, Row
    <2>4. op'[p] = "sent" /\ \A q \in Calls : q # p => op'[q] = op[q]
      BY <1>9 DEF RunDispatches, ProxyIInv, ProxyTypeOK
    <2>5. Effect(KeyOf[p])' = "sent"
      BY <2>4, <1>0 DEF Effect, Some, ProxyIInv, ProxyTypeOK, ClaimIsUnique, Claimed
    <2>6. \A j \in Keys : j # KeyOf[p] => Effect(j)' = Effect(j)
      BY <2>4 DEF Effect, Some
    <2>7. \A j \in Keys : Verdict(j)' = Verdict(j)
      BY <1>9 DEF RunDispatches, Verdict
    <2> QED
      BY <2>1, <2>2, <2>3, <2>5, <2>6, <2>7 DEF Once!Dispatch
  <1>10. ASSUME NEW p \in Calls, TargetPerforms(p) PROVE Once!Settle(KeyOf[p])
    <2>1. PICK result \in {"performed", "lost"} : op' = [op EXCEPT ![p] = result]
      BY <1>10 DEF TargetPerforms
    <2>2. op[p] = "sent" /\ KeyOf[p] \in Keys
      BY <1>10 DEF TargetPerforms
    <2>3. Effect(KeyOf[p]) = "sent"
      BY <2>2, EffectOfClaim
    <2>4. op'[p] = result /\ \A q \in Calls : q # p => op'[q] = op[q]
      BY <2>1 DEF ProxyIInv, ProxyTypeOK
    <2>5. Effect(KeyOf[p])' = result
      BY <2>4, <1>0 DEF Effect, Some, ProxyIInv, ProxyTypeOK, ClaimIsUnique, Claimed
    <2>6. \A j \in Keys : j # KeyOf[p] => Effect(j)' = Effect(j)
      BY <2>4 DEF Effect, Some
    <2>7. \A j \in Keys : Verdict(j)' = Verdict(j)
      BY <1>10 DEF TargetPerforms, Verdict
    <2> QED
      BY <2>2, <2>3, <2>5, <2>6, <2>7 DEF Once!Settle
  <1>11. ASSUME UNCHANGED proxyVars PROVE UNCHANGED Once!effectVars
    BY <1>11, <1>a DEF proxyVars
  <1> QED
    BY <1>1, <1>2, <1>3, <1>4, <1>5, <1>6, <1>7, <1>8, <1>9, <1>10, <1>11
       DEF ProxyNext, ProxyStep, ProxyBackground, Once!Next

\* The tool proxy implements EffectOnce, for every set of calls and keys: the
\* target sees an operation at most once and the verdict never misleads.
THEOREM ProxyImplementsEffectOnce == ProxySpec => ImplementsEffectOnce
  BY InitRefines, StepRefines, ProxyInductive, PTL
     DEF ProxySpec, ImplementsEffectOnce, Once!Spec

-----------------------------------------------------------------------------
(***************************************************************************)
(* The execution service.  Calls of a key meet in the ledger: whoever moves *)
(* its record from PREPARED to RUNNING is the only one that goes on to the *)
(* tool.  The invariant says so (StarterIsUnique), says what a call that   *)
(* has passed a point may rely on, and rests on the invariants of the two  *)
(* components, the ledger's and the proxy's above.                         *)
(***************************************************************************)

EarlyCall == {"idle", "reserve", "get_existing", "facts", "authorize",
              "authorized", "start", "started"}
HoldingCall == Points \ {"idle", "reserve", "done"}

\* The ways this service moves a record: to PREPARED, RUNNING and an end.
MayBecome(s, t) ==
    \/ t = s
    \/ s = "ABSENT" /\ t = "PREPARED"
    \/ s = "PREPARED" /\ t \in {"RUNNING", "FAILED"}
    \/ s = "RUNNING" /\ t \in {"SUCCEEDED", "FAILED", "UNKNOWN"}
    \/ s = "UNKNOWN" /\ t = "SUCCEEDED"

Outcomes == [status : ExecutionStatus \cup {"none", "ERROR", "ABSENT"},
             event : EventTypes \cup {"none"}]

CoordTypeOK ==
    /\ cpc \in [Calls -> Points]
    /\ held \in [Calls -> ExecIds \cup {None}]
    /\ since \in [Calls -> Nat]
    /\ event \in [Calls -> EventTypes \cup {"none"}]
    /\ seen \in [Calls -> ExecutionStatus \cup {"none", "ABSENT"}]
    /\ outcome \in [Calls -> Outcomes]
    /\ receipts \subseteq Calls

\* What the events of a record with this status are, by created_at.  Only one
\* inversion is possible: a failing transaction that began before the starting
\* one and committed after it.
EventsFit(status, events) ==
    /\ Len(events) >= 1
    /\ status = "PREPARED" => Len(events) = 1 /\ events[1] = "EXECUTION_RESERVED"
    /\ status = "RUNNING" => Len(events) = 2 /\ events[2] = "EXECUTION_RUNNING"
    /\ status = "SUCCEEDED" => events[Len(events)] = "EXECUTION_SUCCEEDED"
    /\ status = "FAILED" =>
          events[Len(events)] \in {"EXECUTION_FAILED", "EXECUTION_RUNNING"}

OutboxSound ==
    \A e \in ExecIds : Live(e) => EventsFit(by_execution[e].status, outbox[e])

LedgerSound == LedgerTypeOK /\ OneExecutionPerKey /\ OutboxSound

\* A call has started its execution if mark_started succeeded for it.
Running == {"started", "tool", "evidence", "succeed", "unknown"}
Starter(c) == cpc[c] \in Running \/ Sent(c)

\* The call has its 200 from the proxy.
Verified(c) == Sent(c) /\ ppc[c] = "done" /\ reply[c] = "OK"

Terminal(s) == s \in {"SUCCEEDED", "FAILED"}

\* What a call holds is the execution of its key.
HeldIsIndexed(c) ==
    /\ held[c] # None => held[c] = by_idempotency[KeyOf[c]]
    /\ cpc[c] \in HoldingCall => held[c] # None

\* A record that was started is not PREPARED any more, and while the call that
\* started it has not marked an end, nobody but a failing call can have.
StarterLeftPrepared(c) ==
    /\ cpc[c] \in Running => Status(KeyOf[c]) \in {"RUNNING", "FAILED"}
    /\ Starter(c) => Status(KeyOf[c]) \notin {"ABSENT", "PREPARED"}
    /\ cpc[c] \in EarlyCall => ~Sent(c)

\* The captured event is the RESERVED one as long as nobody has started.
EventIsReservation(c) ==
    /\ cpc[c] \in {"authorize", "authorized", "start"} /\ Status(KeyOf[c]) = "PREPARED"
          => event[c] = "EXECUTION_RESERVED"
    /\ cpc[c] = "started" \/ Sent(c) => event[c] = "EXECUTION_RESERVED"

\* Past the tool's answer a call has its 200, past the evidence its receipt.
PointTellsReply(c) ==
    /\ cpc[c] \in {"evidence", "succeed"} => Verified(c)
    /\ cpc[c] = "succeed" => c \in receipts

\* A call that comes to a mark comes after the RESERVED event, and the one that
\* is about to succeed after the RUNNING event too.
SinceSound(c) ==
    /\ cpc[c] \in MarkPoints => since[c] >= 1
    /\ cpc[c] = "succeed" /\ Status(KeyOf[c]) = "RUNNING" => since[c] = 2

\* The event a terminal outcome may cite.
Cites(status, ev) ==
    /\ status = "SUCCEEDED" => ev = "EXECUTION_SUCCEEDED"
    /\ status = "FAILED" => ev \in {"EXECUTION_FAILED", "EXECUTION_RUNNING"}

\* A terminal status that was read, or reported, is still the record's.
TerminalLasts(c) ==
    /\ cpc[c] = "cite" /\ Terminal(seen[c]) => Status(KeyOf[c]) = seen[c]
    /\ Terminal(outcome[c].status) =>
          /\ Status(KeyOf[c]) = outcome[c].status
          /\ Cites(outcome[c].status, outcome[c].event)

CallSound(c) ==
    /\ HeldIsIndexed(c)
    /\ StarterLeftPrepared(c)
    /\ EventIsReservation(c)
    /\ PointTellsReply(c)
    /\ SinceSound(c)
    /\ TerminalLasts(c)

\* One call of a key is the one that started it.
StarterIsUnique ==
    \A c, d \in Calls : Starter(c) /\ Starter(d) /\ KeyOf[c] = KeyOf[d] => c = d

SucceededWasVerified ==
    \A k \in Keys : Status(k) = "SUCCEEDED" =>
        \E c \in receipts : KeyOf[c] = k /\ Verified(c)

CoordSound ==
    /\ CoordTypeOK
    /\ \A c \in Calls : CallSound(c)
    /\ StarterIsUnique
    /\ SucceededWasVerified

IInv == LedgerSound /\ ProxyIInv /\ CoordSound

-----------------------------------------------------------------------------
(* The ledger *)

\* What a step does to the ledger: no key loses its execution, and only the
\* record of key k moves.
LedgerAdvances(k) ==
    /\ \A j \in Keys : by_idempotency[j] # None => by_idempotency'[j] = by_idempotency[j]
    /\ \A j \in Keys : j # k => Status(j)' = Status(j)
    /\ MayBecome(Status(k), Status(k)')

\* A step that leaves the ledger alone.
LEMMA LedgerRests ==
  ASSUME LedgerSound, UNCHANGED ledgerVars
  PROVE  LedgerSound' /\ \A k \in Keys : Status(k)' = Status(k) /\ LedgerAdvances(k)
  <1>1. LedgerSound'
    BY DEF ledgerVars, LedgerSound, LedgerTypeOK, OneExecutionPerKey,
       OutboxSound, Live
  <1>2. \A k \in Keys : Status(k)' = Status(k)
    BY DEF ledgerVars, Status
  <1> QED
    BY <1>1, <1>2 DEF LedgerAdvances, ledgerVars, MayBecome

\* A new record of a key that has none.
LEMMA ReserveKeepsLedger ==
  ASSUME LedgerSound, NEW e \in ExecIds, NEW k \in Keys, NEW h \in Hashes,
         ReserveNew(e, k, h)
  PROVE  /\ LedgerSound'
         /\ LedgerAdvances(k)
         /\ by_idempotency'[k] = e
         /\ Status(k)' = "PREPARED"
  <1> DEFINE rec == [status |-> "PREPARED", key |-> k, hash |-> h,
                     token |-> next_fence, attempt |-> 0, result |-> FALSE,
                     evidence |-> FALSE, manual |-> FALSE]
  <1>0. by_idempotency[k] = None /\ ~Live(e) /\ None \notin ExecIds
    BY LedgerAssumption DEF ReserveNew
  <1>1. rec \in ExecutionRecord /\ rec.status = "PREPARED" /\ rec.key = k
    BY DEF ExecutionRecord, ExecutionStatus, LedgerSound, LedgerTypeOK
  <1>2. /\ by_execution' \in [ExecIds -> ExecutionRecord]
        /\ by_execution'[e] = rec
        /\ \A d \in ExecIds : d # e => by_execution'[d] = by_execution[d]
    BY <1>1 DEF ReserveNew, LedgerSound, LedgerTypeOK
  <1>3. /\ by_idempotency' \in [Keys -> ExecIds \cup {None}]
        /\ by_idempotency'[k] = e
        /\ \A j \in Keys : j # k => by_idempotency'[j] = by_idempotency[j]
    BY DEF ReserveNew, LedgerSound, LedgerTypeOK
  <1>4. /\ outbox' \in [ExecIds -> Seq(EventTypes)]
        /\ outbox'[e] = <<"EXECUTION_RESERVED">>
        /\ \A d \in ExecIds : d # e => outbox'[d] = outbox[d]
    BY DEF ReserveNew, LedgerSound, LedgerTypeOK, EventTypes
  <1> HIDE DEF rec
  <1>5. LedgerTypeOK'
    BY <1>2, <1>3, <1>4 DEF ReserveNew, LedgerSound, LedgerTypeOK
  <1>6. \A j \in Keys : by_idempotency[j] # e
    BY <1>0 DEF LedgerSound, OneExecutionPerKey
  <1>7. OneExecutionPerKey'
    <2>1. ASSUME NEW j \in Keys, by_idempotency'[j] # None
          PROVE  /\ by_execution'[by_idempotency'[j]].status # "ABSENT"
                 /\ by_execution'[by_idempotency'[j]].key = j
      <3>1. CASE j = k
        BY <1>1, <1>2, <1>3, <3>1
      <3>2. CASE j # k
        BY <1>2, <1>3, <1>6, <2>1, <3>2 DEF LedgerSound, LedgerTypeOK, OneExecutionPerKey, Live
      <3> QED
        BY <3>1, <3>2
    <2>2. ASSUME NEW d \in ExecIds, Live(d)'
          PROVE  by_idempotency'[by_execution'[d].key] = d
      <3>1. CASE d = e
        BY <1>1, <1>2, <1>3, <3>1
      <3>2. CASE d # e
        <4>1. Live(d) /\ by_idempotency[by_execution[d].key] = d /\ by_execution[d].key \in Keys
          BY <1>2, <2>2, <3>2
             DEF LedgerSound, LedgerTypeOK, ExecutionRecord, OneExecutionPerKey, Live
        <4> QED
          BY <1>0, <1>2, <1>3, <3>2, <4>1
      <3> QED
        BY <3>1, <3>2
    <2> QED
      BY <2>1, <2>2 DEF OneExecutionPerKey, Live
  <1>8. OutboxSound'
    <2>1. EventsFit("PREPARED", <<"EXECUTION_RESERVED">>)
      BY DEF EventsFit
    <2>2. \A d \in ExecIds : by_execution'[d].status # "ABSENT"
             => EventsFit(by_execution'[d].status, outbox'[d])
      BY <1>1, <1>2, <1>4, <2>1 DEF LedgerSound, OutboxSound, Live
    <2> QED
      BY <2>2 DEF OutboxSound, Live
  <1>9. Status(k)' = "PREPARED" /\ Status(k) = "ABSENT"
    BY <1>0, <1>1, <1>2, <1>3 DEF Status
  <1>10. \A j \in Keys : j # k => Status(j)' = Status(j)
    BY <1>0, <1>2, <1>3, <1>6 DEF Status, LedgerSound, LedgerTypeOK
  <1> QED
    BY <1>0, <1>3, <1>5, <1>7, <1>8, <1>9, <1>10 DEF LedgerSound, LedgerAdvances, MayBecome

\* The sequence after one event was put at position `at`.
LEMMA InsertAtFacts ==
    ASSUME NEW S, NEW s \in Seq(S), NEW x \in S, NEW at \in 1 .. Len(s) + 1
    PROVE  /\ InsertAt(s, at, x) \in Seq(S)
           /\ Len(InsertAt(s, at, x)) = Len(s) + 1
           /\ \A i \in 1 .. Len(s) + 1 :
                InsertAt(s, at, x)[i] = IF i < at THEN s[i] ELSE IF i = at THEN x ELSE s[i - 1]
  <1> DEFINE a == SubSeq(s, 1, at - 1)
             b == SubSeq(s, at, Len(s))
  <1>1. /\ a \in Seq(S) /\ Len(a) = at - 1
        /\ \A i \in 1 .. at - 1 : a[i] = s[i]
    OBVIOUS
  <1>2. /\ b \in Seq(S) /\ Len(b) = Len(s) - at + 1
        /\ \A i \in 1 .. Len(s) - at + 1 : b[i] = s[at + i - 1]
    OBVIOUS
  <1> HIDE DEF a, b
  <1> DEFINE m == a \o <<x>>
  <1>3. /\ m \in Seq(S) /\ Len(m) = at
        /\ \A i \in 1 .. at : m[i] = IF i < at THEN s[i] ELSE x
    BY <1>1
  <1> HIDE DEF m
  <1>4. /\ m \o b \in Seq(S) /\ Len(m \o b) = Len(s) + 1
        /\ \A i \in 1 .. Len(s) + 1 : (m \o b)[i] = IF i <= at THEN m[i] ELSE b[i - at]
    <2>0. m \in Seq(S) /\ b \in Seq(S) /\ Len(m) = at /\ Len(m) + Len(b) = Len(s) + 1
      BY <1>2, <1>3
    <2>1. m \o b \in Seq(S) /\ Len(m \o b) = Len(m) + Len(b)
      BY <2>0, ConcatProperties
    <2>2. \A i \in 1 .. Len(m) + Len(b) : (m \o b)[i] = IF i <= Len(m) THEN m[i] ELSE b[i - Len(m)]
      BY <2>0, ConcatProperties
    <2> QED BY <2>0, <2>1, <2>2
  <1>5. InsertAt(s, at, x) = m \o b
    BY DEF InsertAt, m, a, b
  <1>6. ASSUME NEW i \in 1 .. Len(s) + 1
        PROVE (m \o b)[i] = IF i < at THEN s[i] ELSE IF i = at THEN x ELSE s[i - 1]
    BY <1>2, <1>3, <1>4
  <1> QED BY <1>4, <1>5, <1>6

\* A fenced transition of the execution of key k to status t.
LEMMA StoreKeepsLedger ==
  ASSUME LedgerSound, NEW k \in Keys, by_idempotency[k] # None,
         NEW f, f.exec = by_idempotency[k],
         NEW rec \in ExecutionRecord, NEW ev \in EventTypes, NEW n \in Nat,
         Store(f, n, rec, ev),
         rec.key = by_execution[by_idempotency[k]].key,
         rec.status # "ABSENT",
         \A at \in EventPlaces(f.exec, n) :
            EventsFit(rec.status, InsertAt(outbox[f.exec], at, ev)),
         MayBecome(Status(k), rec.status)
  PROVE  /\ LedgerSound'
         /\ LedgerAdvances(k)
         /\ Status(k)' = rec.status
         /\ by_idempotency' = by_idempotency
  <1> DEFINE e == by_idempotency[k]
  <1>0. e \in ExecIds /\ None \notin ExecIds /\ by_idempotency' = by_idempotency
    BY LedgerAssumption DEF LedgerSound, LedgerTypeOK, Store
  <1>1. /\ by_execution' \in [ExecIds -> ExecutionRecord]
        /\ by_execution'[e] = rec
        /\ \A d \in ExecIds : d # e => by_execution'[d] = by_execution[d]
    BY <1>0 DEF Store, LedgerSound, LedgerTypeOK
  <1>a. PICK at \in EventPlaces(e, n) : outbox' = [outbox EXCEPT ![e] = InsertAt(outbox[e], at, ev)]
    BY DEF Store
  <1>b. outbox[e] \in Seq(EventTypes) /\ at \in 1 .. Len(outbox[e]) + 1
    <2>1. outbox[e] \in Seq(EventTypes) /\ Len(outbox[e]) \in Nat
      BY <1>0 DEF LedgerSound, LedgerTypeOK
    <2> QED
      BY <1>a, <2>1 DEF EventPlaces
  <1>c. InsertAt(outbox[e], at, ev) \in Seq(EventTypes)
    BY <1>b, InsertAtFacts
  <1>2. /\ outbox' \in [ExecIds -> Seq(EventTypes)]
        /\ outbox'[e] = InsertAt(outbox[e], at, ev)
        /\ \A d \in ExecIds : d # e => outbox'[d] = outbox[d]
    BY <1>0, <1>a, <1>c DEF LedgerSound, LedgerTypeOK
  <1>3. EventsFit(rec.status, outbox'[e])
    BY <1>a, <1>2
  <1>4. LedgerTypeOK'
    BY <1>0, <1>1, <1>2 DEF Store, LedgerSound, LedgerTypeOK
  <1>5. OneExecutionPerKey'
    <2>1. /\ by_execution'[e].status # "ABSENT" /\ by_execution[e].status # "ABSENT"
          /\ by_execution'[e].key = k /\ by_execution[e].key = k
      BY <1>0, <1>1 DEF LedgerSound, OneExecutionPerKey, Live
    <2>2. ASSUME NEW j \in Keys, by_idempotency[j] # None
          PROVE  /\ by_execution'[by_idempotency[j]].status # "ABSENT"
                 /\ by_execution'[by_idempotency[j]].key = j
      BY <1>0, <1>1, <2>1, <2>2 DEF LedgerSound, LedgerTypeOK, OneExecutionPerKey, Live
    <2>3. ASSUME NEW d \in ExecIds, by_execution'[d].status # "ABSENT"
          PROVE  by_idempotency[by_execution'[d].key] = d
      BY <1>0, <1>1, <2>1, <2>3 DEF LedgerSound, OneExecutionPerKey, Live
    <2> QED
      BY <1>0, <2>2, <2>3 DEF OneExecutionPerKey, Live
  <1>6. OutboxSound'
    <2>1. \A d \in ExecIds : by_execution'[d].status # "ABSENT"
             => EventsFit(by_execution'[d].status, outbox'[d])
      BY <1>0, <1>1, <1>2, <1>3 DEF LedgerSound, OutboxSound, Live
    <2> QED
      BY <2>1 DEF OutboxSound, Live
  <1>7. Status(k)' = rec.status
    BY <1>0, <1>1 DEF Status
  <1>8. \A j \in Keys : j # k => Status(j)' = Status(j)
    <2> SUFFICES ASSUME NEW j \in Keys, j # k PROVE Status(j)' = Status(j)
      OBVIOUS
    <2>1. by_idempotency[j] # None => by_idempotency[j] \in ExecIds /\ by_idempotency[j] # e
      BY <1>0 DEF LedgerSound, LedgerTypeOK, OneExecutionPerKey
    <2> QED
      BY <1>0, <1>1, <2>1 DEF Status
  <1> QED
    BY <1>0, <1>4, <1>5, <1>6, <1>7, <1>8 DEF LedgerSound, LedgerAdvances

\* What a call that holds an execution finds in the ledger: the record of its
\* key, which its fence fits.
LEMMA HolderFindsRecord ==
  ASSUME LedgerSound, CoordSound, NEW c \in Calls, held[c] # None
  PROVE  /\ KeyOf[c] \in Keys
         /\ held[c] = by_idempotency[KeyOf[c]] /\ held[c] \in ExecIds
         /\ by_execution[held[c]] \in ExecutionRecord
         /\ by_execution[held[c]].status = Status(KeyOf[c])
         /\ Status(KeyOf[c]) # "ABSENT"
         /\ by_idempotency[KeyOf[c]] # None
         /\ Fence(c).exec = by_idempotency[KeyOf[c]]
         /\ \A allowed : CanTransition(Fence(c), allowed) <=> Status(KeyOf[c]) \in allowed
         /\ outbox[held[c]] \in Seq(EventTypes) /\ Len(outbox[held[c]]) \in Nat
         /\ EventsFit(Status(KeyOf[c]), outbox[held[c]])
  <1>1. KeyOf[c] \in Keys /\ held[c] = by_idempotency[KeyOf[c]] /\ held[c] \in ExecIds
    BY ToolProxyAssumption DEF CoordSound, CoordTypeOK, CallSound, HeldIsIndexed
  <1>2. by_execution[held[c]].status = Status(KeyOf[c]) /\ Live(held[c])
    BY <1>1 DEF Status, LedgerSound, OneExecutionPerKey
  <1>3. Fence(c).exec = held[c] /\ Fence(c).token = by_execution[held[c]].token
    BY DEF Fence, FenceOf
  <1>4. /\ outbox[held[c]] \in Seq(EventTypes) /\ Len(outbox[held[c]]) \in Nat
        /\ EventsFit(Status(KeyOf[c]), outbox[held[c]])
    <2>1. outbox[held[c]] \in Seq(EventTypes)
      BY <1>1 DEF LedgerSound, LedgerTypeOK
    <2>2. EventsFit(by_execution[held[c]].status, outbox[held[c]])
      BY <1>1, <1>2 DEF LedgerSound, OutboxSound
    <2> QED
      BY <1>2, <2>1, <2>2
  <1> QED
    BY <1>1, <1>2, <1>3, <1>4 DEF CanTransition, Live, LedgerSound, LedgerTypeOK

\* The four marks, as the call that makes them sees them.
LEMMA MarksKeepLedger ==
  ASSUME LedgerSound, CoordSound, NEW c \in Calls, held[c] # None, cpc[c] \in MarkPoints
  PROVE  /\ MarkStarted(Fence(c), since[c]) =>
              LedgerSound' /\ LedgerAdvances(KeyOf[c]) /\ by_idempotency' = by_idempotency
                /\ Status(KeyOf[c]) = "PREPARED" /\ Status(KeyOf[c])' = "RUNNING"
         /\ cpc[c] = "succeed" /\ MarkSucceeded(Fence(c), since[c]) =>
              LedgerSound' /\ LedgerAdvances(KeyOf[c]) /\ by_idempotency' = by_idempotency
                /\ Status(KeyOf[c])' = "SUCCEEDED"
         /\ MarkFailed(Fence(c), since[c]) =>
              LedgerSound' /\ LedgerAdvances(KeyOf[c]) /\ by_idempotency' = by_idempotency
                /\ Status(KeyOf[c])' = "FAILED"
         /\ MarkUnknown(Fence(c), since[c]) =>
              LedgerSound' /\ LedgerAdvances(KeyOf[c]) /\ by_idempotency' = by_idempotency
                /\ Status(KeyOf[c])' = "UNKNOWN"
  <1> DEFINE k == KeyOf[c]
             r == by_execution[by_idempotency[k]]
  <1>0. /\ k \in Keys /\ by_idempotency[k] # None /\ Fence(c).exec = by_idempotency[k]
        /\ r \in ExecutionRecord /\ by_execution[Fence(c).exec] = r
        /\ \A allowed : CanTransition(Fence(c), allowed) <=> Status(k) \in allowed
    BY HolderFindsRecord
  <1> DEFINE s == outbox[by_idempotency[k]]
             n == since[c]
  <1>a. /\ s \in Seq(EventTypes) /\ Len(s) \in Nat /\ EventsFit(Status(k), s)
        /\ n \in Nat /\ n >= 1
        /\ cpc[c] = "succeed" => Status(k) \in {"RUNNING", "FAILED"}
        /\ cpc[c] = "succeed" /\ Status(k) = "RUNNING" => n = 2
    <2>1. CallSound(c) /\ since \in [Calls -> Nat]
      BY DEF CoordSound, CoordTypeOK
    <2> QED
      BY <2>1, HolderFindsRecord DEF CallSound, SinceSound, StarterLeftPrepared, Running
  <1>b. \A at \in EventPlaces(by_idempotency[k], n) :
           /\ at \in 1 .. Len(s) + 1 /\ at >= 2
           /\ n >= Len(s) => at = Len(s) + 1
    BY <1>a DEF EventPlaces, EventsFit
  <1> HIDE DEF k, s, n
  <1>c. ASSUME NEW ev \in EventTypes, NEW at \in EventPlaces(by_idempotency[k], n)
        PROVE  /\ Len(InsertAt(s, at, ev)) = Len(s) + 1
               /\ \A i \in 1 .. Len(s) + 1 : InsertAt(s, at, ev)[i] =
                     IF i < at THEN s[i] ELSE IF i = at THEN ev ELSE s[i - 1]
    <2>1. s \in Seq(EventTypes) /\ at \in 1 .. Len(s) + 1
      BY <1>a, <1>b
    <2> QED
      BY <2>1, InsertAtFacts
  <1>d. PICK m \in Nat : m = Len(s)
    BY <1>a
  <1>e. \A at \in EventPlaces(by_idempotency[k], n) :
           at \in Nat /\ 2 <= at /\ at <= m + 1 /\ (n >= m => at = m + 1)
    BY <1>b, <1>d
  <1>1. ASSUME MarkStarted(Fence(c), since[c])
        PROVE  LedgerSound' /\ LedgerAdvances(k) /\ by_idempotency' = by_idempotency
                 /\ Status(k) = "PREPARED" /\ Status(k)' = "RUNNING"
    <2> DEFINE rec == [r EXCEPT !.status = "RUNNING", !.attempt = @ + 1]
    <2>0. r.attempt + 1 \in Nat
      BY <1>0 DEF ExecutionRecord
    <2>1. rec \in ExecutionRecord /\ rec.status = "RUNNING" /\ rec.key = r.key
      BY <1>0, <2>0 DEF ExecutionRecord, ExecutionStatus
    <2>2. Status(k) = "PREPARED" /\ Store(Fence(c), n, rec, "EXECUTION_RUNNING")
      BY <1>0, <1>1 DEF MarkStarted, CanStart, n
    <2>3. "EXECUTION_RUNNING" \in EventTypes
      BY DEF EventTypes
    <2>4. ASSUME NEW at \in EventPlaces(by_idempotency[k], n)
          PROVE  EventsFit("RUNNING", InsertAt(s, at, "EXECUTION_RUNNING"))
      <3>0. m = 1
        BY <1>a, <1>d, <2>2 DEF EventsFit
      <3>1. Len(s) = 1 /\ at = 2
        BY <1>d, <1>e, <3>0
      <3>2. /\ Len(InsertAt(s, at, "EXECUTION_RUNNING")) = 2
            /\ InsertAt(s, at, "EXECUTION_RUNNING")[2] = "EXECUTION_RUNNING"
        BY <1>c, <2>3, <3>1
      <3> QED
        BY <3>2 DEF EventsFit
    <2> HIDE DEF rec
    <2> QED
      BY <1>0, <1>a, <2>1, <2>2, <2>3, <2>4, StoreKeepsLedger DEF MayBecome, s
  <1>2. ASSUME cpc[c] = "succeed", MarkSucceeded(Fence(c), since[c])
        PROVE  LedgerSound' /\ LedgerAdvances(k) /\ by_idempotency' = by_idempotency
                 /\ Status(k)' = "SUCCEEDED"
    <2> DEFINE rec == [r EXCEPT !.status = "SUCCEEDED", !.result = TRUE, !.evidence = TRUE]
    <2>1. rec \in ExecutionRecord /\ rec.status = "SUCCEEDED" /\ rec.key = r.key
      BY <1>0 DEF ExecutionRecord, ExecutionStatus
    <2>2. Status(k) \in {"RUNNING", "UNKNOWN"} /\ Store(Fence(c), n, rec, "EXECUTION_SUCCEEDED")
      BY <1>0, <1>2 DEF MarkSucceeded, CanSucceed, n
    <2>3. "EXECUTION_SUCCEEDED" \in EventTypes
      BY DEF EventTypes
    <2>4. ASSUME NEW at \in EventPlaces(by_idempotency[k], n)
          PROVE  EventsFit("SUCCEEDED", InsertAt(s, at, "EXECUTION_SUCCEEDED"))
      <3>0. Status(k) = "RUNNING" /\ n = 2
        BY <1>2, <1>a, <2>2
      <3>00. m = 2
        BY <1>a, <1>d, <3>0 DEF EventsFit
      <3>1. Len(s) = 2 /\ at = 3
        BY <1>d, <1>e, <3>0, <3>00
      <3>2. /\ Len(InsertAt(s, at, "EXECUTION_SUCCEEDED")) = 3
            /\ InsertAt(s, at, "EXECUTION_SUCCEEDED")[3] = "EXECUTION_SUCCEEDED"
        BY <1>c, <2>3, <3>1
      <3> QED
        BY <3>2 DEF EventsFit
    <2> HIDE DEF rec
    <2> QED
      BY <1>0, <1>a, <2>1, <2>2, <2>3, <2>4, StoreKeepsLedger DEF MayBecome, s
  <1>3. ASSUME MarkFailed(Fence(c), since[c])
        PROVE  LedgerSound' /\ LedgerAdvances(k) /\ by_idempotency' = by_idempotency
                 /\ Status(k)' = "FAILED"
    <2> DEFINE rec == [r EXCEPT !.status = "FAILED"]
    <2>1. rec \in ExecutionRecord /\ rec.status = "FAILED" /\ rec.key = r.key
      BY <1>0 DEF ExecutionRecord, ExecutionStatus
    <2>2. Status(k) \in {"PREPARED", "RUNNING"} /\ Store(Fence(c), n, rec, "EXECUTION_FAILED")
      BY <1>0, <1>3 DEF MarkFailed, CanFail, n
    <2>3. "EXECUTION_FAILED" \in EventTypes
      BY DEF EventTypes
    <2>4. ASSUME NEW at \in EventPlaces(by_idempotency[k], n)
          PROVE  EventsFit("FAILED", InsertAt(s, at, "EXECUTION_FAILED"))
      <3> DEFINE u == InsertAt(s, at, "EXECUTION_FAILED")
      <3> HIDE DEF u
      <3>2. at \in Nat /\ 2 <= at /\ at <= m + 1
        BY <1>e
      <3>3. CASE Status(k) = "PREPARED"
        <4>1. m = 1
          BY <1>a, <1>d, <3>3 DEF EventsFit
        <4>2. Len(s) = 1 /\ at = 2
          BY <1>d, <3>2, <4>1
        <4>3. Len(u) = 2 /\ u[2] = "EXECUTION_FAILED"
          BY <1>c, <2>3, <4>2 DEF u
        <4> QED
          BY <4>3 DEF EventsFit, u
      <3>4. CASE Status(k) = "RUNNING"
        <4>1. m = 2 /\ s[2] = "EXECUTION_RUNNING"
          BY <1>a, <1>d, <3>4 DEF EventsFit
        <4>2. Len(s) = 2 /\ at \in 2 .. 3
          BY <1>d, <3>2, <4>1
        <4>3. Len(u) = 3 /\ u[3] = IF 3 < at THEN s[3] ELSE IF 3 = at THEN "EXECUTION_FAILED" ELSE s[2]
          BY <1>c, <2>3, <4>2 DEF u
        <4>4. u[3] \in {"EXECUTION_FAILED", "EXECUTION_RUNNING"}
          BY <4>1, <4>2, <4>3
        <4> QED
          BY <4>3, <4>4 DEF EventsFit, u
      <3> QED
        BY <2>2, <3>3, <3>4 DEF u
    <2> HIDE DEF rec
    <2> QED
      BY <1>0, <1>a, <2>1, <2>2, <2>3, <2>4, StoreKeepsLedger DEF MayBecome, s
  <1>4. ASSUME MarkUnknown(Fence(c), since[c])
        PROVE  LedgerSound' /\ LedgerAdvances(k) /\ by_idempotency' = by_idempotency
                 /\ Status(k)' = "UNKNOWN"
    <2> DEFINE rec == [r EXCEPT !.status = "UNKNOWN"]
    <2>1. rec \in ExecutionRecord /\ rec.status = "UNKNOWN" /\ rec.key = r.key
      BY <1>0 DEF ExecutionRecord, ExecutionStatus
    <2>2. Status(k) = "RUNNING" /\ Store(Fence(c), n, rec, "EXECUTION_UNKNOWN")
      BY <1>0, <1>4 DEF MarkUnknown, CanBecomeUnknown, n
    <2>3. "EXECUTION_UNKNOWN" \in EventTypes
      BY DEF EventTypes
    <2>4. ASSUME NEW at \in EventPlaces(by_idempotency[k], n)
          PROVE  EventsFit("UNKNOWN", InsertAt(s, at, "EXECUTION_UNKNOWN"))
      BY <1>a, <1>b, <1>c, <2>2, <2>3 DEF EventsFit
    <2> HIDE DEF rec
    <2> QED
      BY <1>0, <1>a, <2>1, <2>2, <2>3, <2>4, StoreKeepsLedger DEF MayBecome, s
  <1> QED
    BY <1>1, <1>2, <1>3, <1>4 DEF k

-----------------------------------------------------------------------------
(* The calls *)

\* What one call reads and writes is its own.
OthersRest(c) ==
    \A d \in Calls \ {c} :
        /\ cpc'[d] = cpc[d] /\ held'[d] = held[d] /\ since'[d] = since[d]
        /\ event'[d] = event[d]
        /\ seen'[d] = seen[d] /\ outcome'[d] = outcome[d]
        /\ Sent(d)' <=> Sent(d)
        /\ Verified(d) => Verified(d)'

\* The record of key j has moved in an admissible way: a call that rests finds
\* what it relied on.
LEMMA RestingCallKeeps ==
  ASSUME LedgerSound, CoordSound, NEW d \in Calls,
         \A j \in Keys : by_idempotency[j] # None => by_idempotency'[j] = by_idempotency[j],
         MayBecome(Status(KeyOf[d]), Status(KeyOf[d])'),
         Status(KeyOf[d])' \in {"SUCCEEDED", "UNKNOWN"} =>
            Status(KeyOf[d])' = Status(KeyOf[d]) \/ cpc[d] \notin Running,
         cpc'[d] = cpc[d], held'[d] = held[d], since'[d] = since[d], event'[d] = event[d],
         seen'[d] = seen[d], outcome'[d] = outcome[d],
         Sent(d)' <=> Sent(d), Verified(d) => Verified(d)', receipts \subseteq receipts'
  PROVE  CallSound(d)' /\ (Starter(d)' <=> Starter(d))
  <1>0. CallSound(d) /\ KeyOf[d] \in Keys
    BY ToolProxyAssumption DEF CoordSound
  <1>1. held[d] # None => Status(KeyOf[d]) # "ABSENT" /\ by_idempotency[KeyOf[d]] # None
    BY HolderFindsRecord
  <1>2. HeldIsIndexed(d)'
    BY <1>0, <1>1 DEF CallSound, HeldIsIndexed
  <1>3. Starter(d)' <=> Starter(d)
    BY DEF Starter, Running
  <1>4. StarterLeftPrepared(d)'
    BY <1>0, <1>3 DEF CallSound, StarterLeftPrepared, MayBecome
  <1>5. EventIsReservation(d)'
    <2>1. cpc[d] \in {"authorize", "authorized", "start"} => held[d] # None
      BY <1>0 DEF CallSound, HeldIsIndexed, HoldingCall, Points
    <2> QED
      BY <1>0, <1>1, <2>1 DEF CallSound, EventIsReservation, MayBecome
  <1>6. PointTellsReply(d)' /\ SinceSound(d)'
    BY <1>0 DEF CallSound, PointTellsReply, SinceSound, StarterLeftPrepared, Running, MayBecome
  <1>7. TerminalLasts(d)'
    BY <1>0 DEF CallSound, TerminalLasts, Terminal, MayBecome
  <1> QED
    BY <1>2, <1>3, <1>4, <1>5, <1>6, <1>7 DEF CallSound

\* The step of one call c, whatever it is: the invariant of the calls survives
\* if what c now relies on is true and the record of its key has moved in an
\* admissible way.
LEMMA CallAdvances ==
  ASSUME LedgerSound, CoordSound, NEW c \in Calls,
         CoordTypeOK', OthersRest(c), CallSound(c)',
         receipts \subseteq receipts',
         LedgerAdvances(KeyOf[c]),
         Verified(c) => Verified(c)',
         Starter(c)' => Starter(c) \/ Status(KeyOf[c]) = "PREPARED",
         Status(KeyOf[c])' \in {"SUCCEEDED", "UNKNOWN"} =>
            Status(KeyOf[c])' = Status(KeyOf[c]) \/ cpc[c] \in Running,
         Status(KeyOf[c])' = "SUCCEEDED" =>
            Status(KeyOf[c]) = "SUCCEEDED" \/ (c \in receipts' /\ Verified(c)')
  PROVE  CoordSound'
  <1>k. \A d \in Calls : KeyOf[d] \in Keys
    BY ToolProxyAssumption
  <1>1. ASSUME NEW d \in Calls, d # c PROVE CallSound(d)' /\ (Starter(d)' <=> Starter(d))
    <2>1. MayBecome(Status(KeyOf[d]), Status(KeyOf[d])')
      BY <1>k DEF LedgerAdvances, MayBecome
    <2>2. Status(KeyOf[d])' \in {"SUCCEEDED", "UNKNOWN"} =>
            Status(KeyOf[d])' = Status(KeyOf[d]) \/ cpc[d] \notin Running
      BY <1>1, <1>k DEF LedgerAdvances, CoordSound, StarterIsUnique, Starter
    <2> QED
      BY <1>1, <2>1, <2>2, RestingCallKeeps DEF OthersRest, LedgerAdvances
  <1>2. StarterIsUnique'
    <2>1. ASSUME NEW d \in Calls, d # c, Starter(c)', Starter(d)', KeyOf[d] = KeyOf[c]
          PROVE  FALSE
      <3>1. Starter(d) /\ Status(KeyOf[c]) # "PREPARED"
        BY <1>1, <2>1 DEF CoordSound, CallSound, StarterLeftPrepared
      <3> QED
        BY <2>1, <3>1 DEF CoordSound, StarterIsUnique
    <2> QED
      BY <1>1, <2>1 DEF CoordSound, StarterIsUnique
  <1>3. SucceededWasVerified'
    <2> SUFFICES ASSUME NEW k \in Keys, Status(k)' = "SUCCEEDED"
                 PROVE  \E d \in receipts' : KeyOf[d] = k /\ Verified(d)'
      BY DEF SucceededWasVerified
    <2>1. CASE Status(k) = "SUCCEEDED"
      <3>1. PICK d \in receipts : KeyOf[d] = k /\ Verified(d)
        BY <2>1 DEF CoordSound, SucceededWasVerified
      <3>2. Verified(d)'
        BY <3>1 DEF OthersRest, CoordSound, CoordTypeOK
      <3> QED
        BY <3>1, <3>2
    <2>2. CASE Status(k) # "SUCCEEDED"
      BY <2>2 DEF LedgerAdvances
    <2> QED
      BY <2>1, <2>2
  <1> QED
    BY <1>1, <1>2, <1>3 DEF CoordSound

\* The call goes on to another point and nothing else happens.
LEMMA CallMovesOn ==
  ASSUME LedgerSound, CoordSound, NEW c \in Calls, NEW point \in Points,
         UNCHANGED <<ledgerVars, proxyVars, held, event, seen, outcome, receipts>>,
         MoveTo(c, point),
         point \in HoldingCall => cpc[c] \in HoldingCall,
         point \in Running => cpc[c] \in Running,
         point \in EarlyCall => cpc[c] \in EarlyCall,
         point \in {"authorize", "authorized", "start"} =>
            cpc[c] \in {"authorize", "authorized", "start"},
         point = "started" => cpc[c] = "started",
         point \in {"evidence", "succeed"} => Verified(c),
         point = "succeed" => c \in receipts,
         point # "cite"
  PROVE  LedgerSound' /\ CoordSound'
  <1>0. CallSound(c) /\ KeyOf[c] \in Keys /\ CoordTypeOK
    BY ToolProxyAssumption DEF CoordSound
  <1>1. /\ LedgerSound' /\ LedgerAdvances(KeyOf[c]) /\ by_idempotency' = by_idempotency
        /\ Status(KeyOf[c])' = Status(KeyOf[c])
    BY <1>0, LedgerRests DEF ledgerVars
  <1>2. \A d \in Calls : (Sent(d)' <=> Sent(d)) /\ (Verified(d)' <=> Verified(d))
    BY DEF proxyVars, Sent, Verified
  <1> DEFINE n == IF point \in MarkPoints THEN Len(outbox[held[c]]) ELSE 0
  <1>a. /\ n \in Nat
        /\ point \in MarkPoints => n >= 1
        /\ point = "succeed" /\ Status(KeyOf[c]) = "RUNNING" => n = 2
    <2>1. point \in MarkPoints => held[c] # None
      BY <1>0 DEF CallSound, HeldIsIndexed, HoldingCall, MarkPoints, Points
    <2> QED
      BY <2>1, HolderFindsRecord DEF EventsFit, MarkPoints
  <1>b. since' = [since EXCEPT ![c] = n] /\ cpc' = [cpc EXCEPT ![c] = point]
    BY DEF MoveTo
  <1> HIDE DEF n
  <1>3. cpc'[c] = point /\ since'[c] = n /\ CoordTypeOK' /\ OthersRest(c)
    BY <1>0, <1>2, <1>a, <1>b DEF CoordTypeOK, OthersRest
  <1>4. Starter(c)' => Starter(c)
    BY <1>2, <1>3 DEF Starter, Running
  <1>5. CallSound(c)'
    BY <1>0, <1>1, <1>2, <1>3, <1>4, <1>a
       DEF CallSound, HeldIsIndexed, StarterLeftPrepared, EventIsReservation,
           PointTellsReply, SinceSound, MarkPoints, Running, TerminalLasts
  <1> QED
    BY <1>1, <1>2, <1>3, <1>4, <1>5, CallAdvances

\* The call ends with an error, the ledger and the proxy are left alone.
LEMMA CallFails ==
  ASSUME LedgerSound, CoordSound, NEW c \in Calls,
         UNCHANGED <<ledgerVars, proxyVars, held, event, seen, receipts>>,
         Return(c, ErrorOutcome)
  PROVE  LedgerSound' /\ CoordSound'
  <1>0. CallSound(c) /\ KeyOf[c] \in Keys /\ CoordTypeOK
    BY ToolProxyAssumption DEF CoordSound
  <1>1. /\ LedgerSound' /\ LedgerAdvances(KeyOf[c]) /\ by_idempotency' = by_idempotency
        /\ Status(KeyOf[c])' = Status(KeyOf[c])
    BY <1>0, LedgerRests DEF ledgerVars
  <1>2. \A d \in Calls : (Sent(d)' <=> Sent(d)) /\ (Verified(d)' <=> Verified(d))
    BY DEF proxyVars, Sent, Verified
  <1>3. ErrorOutcome \in Outcomes /\ ~Terminal(ErrorOutcome.status) /\ "done" \in Points
    BY DEF ErrorOutcome, Outcomes, Terminal, Points
  <1>4. cpc'[c] = "done" /\ outcome'[c] = ErrorOutcome /\ CoordTypeOK' /\ OthersRest(c)
    BY <1>0, <1>2, <1>3 DEF CoordTypeOK, Return, OthersRest
  <1>5. Starter(c)' => Starter(c)
    BY <1>2, <1>4 DEF Starter, Running
  <1>6. CallSound(c)'
    BY <1>0, <1>1, <1>2, <1>3, <1>4, <1>5
       DEF CallSound, HeldIsIndexed, HoldingCall, EarlyCall, StarterLeftPrepared,
           EventIsReservation, PointTellsReply, SinceSound, MarkPoints, Running, TerminalLasts
  <1> QED
    BY <1>1, <1>2, <1>4, <1>5, <1>6, CallAdvances

\* A mark was accepted, and the call goes on or ends.
LEMMA CallMarks ==
  ASSUME LedgerSound, CoordSound, NEW c \in Calls, NEW point \in {"started", "get", "done"},
         UNCHANGED <<proxyVars, held, event, seen, receipts>>,
         \/ MoveTo(c, point) /\ UNCHANGED outcome
         \/ point = "done" /\ Return(c, ErrorOutcome),
         cpc[c] \in HoldingCall,
         LedgerAdvances(KeyOf[c]), by_idempotency' = by_idempotency,
         point = "started" => /\ cpc[c] = "start"
                              /\ Status(KeyOf[c]) = "PREPARED" /\ Status(KeyOf[c])' = "RUNNING",
         Status(KeyOf[c])' = "UNKNOWN" => Status(KeyOf[c]) = "UNKNOWN" \/ cpc[c] = "unknown",
         Status(KeyOf[c])' = "SUCCEEDED" => Status(KeyOf[c]) = "SUCCEEDED" \/ cpc[c] = "succeed"
  PROVE  CoordSound'
  <1>0. CallSound(c) /\ KeyOf[c] \in Keys /\ CoordTypeOK
    BY ToolProxyAssumption DEF CoordSound
  <1>2. \A d \in Calls : (Sent(d)' <=> Sent(d)) /\ (Verified(d)' <=> Verified(d))
    BY DEF proxyVars, Sent, Verified
  <1>3. /\ ErrorOutcome \in Outcomes /\ ~Terminal(ErrorOutcome.status) /\ point \in Points
        /\ point \notin MarkPoints
    BY DEF ErrorOutcome, Outcomes, Terminal, Points, MarkPoints
  <1>4. /\ cpc'[c] = point /\ CoordTypeOK' /\ OthersRest(c)
        /\ outcome'[c] = outcome[c] \/ outcome'[c] = ErrorOutcome
    BY <1>0, <1>2, <1>3 DEF CoordTypeOK, Return, MoveTo, OthersRest
  <1>5. Starter(c)' => Starter(c) \/ point = "started"
    BY <1>2, <1>4 DEF Starter, Running
  <1>6. HeldIsIndexed(c)'
    BY <1>0, <1>4 DEF CallSound, HeldIsIndexed
  <1>7. StarterLeftPrepared(c)'
    BY <1>0, <1>2, <1>4, <1>5
       DEF CallSound, StarterLeftPrepared, LedgerAdvances, MayBecome, EarlyCall, Running
  <1>8. EventIsReservation(c)'
    BY <1>0, <1>2, <1>4 DEF CallSound, EventIsReservation
  <1>9. PointTellsReply(c)' /\ SinceSound(c)' /\ TerminalLasts(c)'
    BY <1>0, <1>2, <1>3, <1>4
       DEF CallSound, PointTellsReply, SinceSound, TerminalLasts, LedgerAdvances,
           MayBecome, Terminal
  <1>10. cpc[c] = "succeed" => c \in receipts /\ Verified(c)
    BY <1>0 DEF CallSound, PointTellsReply
  <1> QED
    BY <1>2, <1>4, <1>5, <1>6, <1>7, <1>8, <1>9, <1>10, CallAdvances DEF CallSound, Running

-----------------------------------------------------------------------------
(* The initial state and the proxy's own steps *)

\* The initial state satisfies the inductive invariant.
LEMMA InitEstablishes == Init => IInv
  <1> SUFFICES ASSUME Init PROVE IInv
    OBVIOUS
  <1> USE ToolProxyAssumption, LedgerAssumption DEF Init
  <1>a. (CHOOSE k \in Keys : TRUE) \in Keys /\ (CHOOSE h \in Hashes : TRUE) \in Hashes
    OBVIOUS
  <1>b. AbsentRecord \in ExecutionRecord
    BY <1>a DEF AbsentRecord, ExecutionRecord
  <1>1. LedgerTypeOK
    BY <1>b DEF LedgerInit, LedgerTypeOK
  <1>2. OneExecutionPerKey /\ OutboxSound
    BY DEF LedgerInit, OneExecutionPerKey, OutboxSound, Live, AbsentRecord
  <1>3. CoordTypeOK
    BY DEF CoordTypeOK, Points, Outcomes, NoOutcome
  <1>4. \A c \in Calls : ~Sent(c) /\ ~Starter(c) /\ cpc[c] = "idle"
    BY DEF ProxyInit, Sent, Starter, Running
  <1>5. \A c \in Calls : CallSound(c)
    BY <1>4 DEF CallSound, HeldIsIndexed, HoldingCall, StarterLeftPrepared,
       EventIsReservation, PointTellsReply, SinceSound, MarkPoints, Running, TerminalLasts,
       Terminal, NoOutcome
  <1>6. StarterIsUnique /\ SucceededWasVerified
    BY <1>4 DEF StarterIsUnique, SucceededWasVerified, Status, LedgerInit
  <1> QED
    BY <1>1, <1>2, <1>3, <1>5, <1>6, ProxyInitEstablishes DEF IInv, LedgerSound, CoordSound

\* The proxy neither starts a call nor takes an answer back.
LEMMA ProxyKeepsCalls ==
  ASSUME ProxyTypeOK, (\E p \in Calls : ProxyStep(p)) \/ ProxyBackground, NEW c \in Calls
  PROVE  /\ Sent(c)' <=> Sent(c)
         /\ Verified(c) => Verified(c)'
  <1>1. CASE ProxyBackground
    BY <1>1 DEF ProxyBackground, TargetPerforms, LeaseExpires, RecoverExpiredExecuting,
       Sent, Verified
  <1>2. CASE \E p \in Calls : ProxyStep(p)
    <2>1. PICK p \in Calls : ProxyStep(p)
      BY <1>2
    <2>2. /\ \E point \in CallPoints \ {"idle"} : ppc' = [ppc EXCEPT ![p] = point]
          /\ ppc[p] \notin {"idle", "done"}
          /\ reply' = reply \/ \E r \in Replies : reply' = [reply EXCEPT ![p] = r]
      BY <2>1 DEF ProxyStep, ProxyRefuses, PrepareNew, PrepareAgain, PrepareConflict,
         Preflight, InvocationMarkFailed, InvocationMarkExecuting, RunRefused,
         RunDispatches, RunSucceeds, RunFails, InvocationSucceed, InvocationMarkUnknown,
         ProxyAborts, Goto, Respond, CallPoints, Replies
    <2>3. c # p => ppc'[c] = ppc[c] /\ reply'[c] = reply[c]
      BY <2>2 DEF ProxyTypeOK
    <2>4. ppc'[p] # "idle" /\ ppc[p] # "idle" /\ ppc[p] # "done"
      BY <2>2 DEF ProxyTypeOK
    <2> QED
      BY <2>3, <2>4 DEF Sent, Verified
  <1> QED
    BY <1>1, <1>2

\* A step of the proxy, of the target or of the recovery task.
LEMMA ProxyMovesPreserves == IInv /\ ProxyMoves => IInv'
  <1> SUFFICES ASSUME IInv, ProxyMoves PROVE IInv'
    OBVIOUS
  <1>1. ProxyIInv'
    BY ProxyStepPreserves DEF IInv, ProxyMoves, ProxyNext
  <1>2. LedgerSound' /\ \A k \in Keys : Status(k)' = Status(k)
    BY LedgerRests DEF IInv, ProxyMoves
  <1>3. CoordTypeOK'
    BY DEF IInv, CoordSound, CoordTypeOK, ProxyMoves, coordVars
  <1>4. \A c \in Calls : (Sent(c)' <=> Sent(c)) /\ (Verified(c) => Verified(c)')
    BY ProxyKeepsCalls DEF IInv, ProxyIInv, ProxyMoves
  <1>5. \A c \in Calls : CallSound(c)' /\ (Starter(c)' <=> Starter(c))
    <2> SUFFICES ASSUME NEW c \in Calls PROVE CallSound(c)' /\ (Starter(c)' <=> Starter(c))
      OBVIOUS
    <2>1. MayBecome(Status(KeyOf[c]), Status(KeyOf[c])')
      BY <1>2, ToolProxyAssumption DEF MayBecome
    <2>2. Status(KeyOf[c])' = Status(KeyOf[c])
      BY <1>2, ToolProxyAssumption
    <2> QED
      BY <1>4, <2>1, <2>2, RestingCallKeeps DEF IInv, ProxyMoves, coordVars, ledgerVars
  <1>6. StarterIsUnique'
    BY <1>5 DEF IInv, CoordSound, StarterIsUnique
  <1>7. SucceededWasVerified'
    BY <1>2, <1>4 DEF IInv, CoordSound, CoordTypeOK, SucceededWasVerified, ProxyMoves, coordVars
  <1> QED
    BY <1>1, <1>2, <1>3, <1>5, <1>6, <1>7 DEF IInv, CoordSound

-----------------------------------------------------------------------------
(* The steps of a call *)

\* A step of the service that leaves the proxy alone.
LEMMA ProxyRests == ProxyIInv /\ UNCHANGED proxyVars => ProxyIInv'
  BY ProxyStepPreserves

\* Up to the reservation.
LEMMA AdmissionPreserves ==
  ASSUME IInv, NEW c \in Calls,
         \/ Admit(c) \/ AdmitFails(c) \/ (\E e \in ExecIds : ReserveFirst(c, e))
         \/ ReserveAgain(c) \/ ReserveConflict(c) \/ ReserveFails(c) \/ GetExisting(c)
  PROVE  IInv'
  <1>0. /\ LedgerSound /\ CoordSound /\ ProxyIInv /\ CallSound(c) /\ CoordTypeOK
        /\ KeyOf[c] \in Keys /\ HashOf[c] \in Hashes
    BY ToolProxyAssumption, ExecutionAssumption DEF IInv, CoordSound
  <1>a. ProxyIInv' /\ \A d \in Calls : (Sent(d)' <=> Sent(d)) /\ (Verified(d)' <=> Verified(d))
    <2>1. UNCHANGED proxyVars
      BY DEF Admit, AdmitFails, ReserveFirst, ReserveAgain, ReserveConflict, ReserveFails,
         GetExisting
    <2> QED
      BY <1>0, <2>1, ProxyRests DEF proxyVars, Sent, Verified
  <1>1. CASE Admit(c)
    BY <1>0, <1>1, <1>a, CallMovesOn DEF Admit, IInv, Points, HoldingCall, EarlyCall, Running
  <1>2. CASE AdmitFails(c) \/ ReserveConflict(c)
    BY <1>0, <1>2, <1>a, CallFails DEF AdmitFails, ReserveConflict, IInv
  <1>3. ASSUME NEW e \in ExecIds, ReserveFirst(c, e) PROVE IInv'
    <2>0. ReserveNew(e, KeyOf[c], HashOf[c])
      BY <1>3 DEF ReserveFirst
    <2>1. LedgerSound' /\ LedgerAdvances(KeyOf[c]) /\ by_idempotency'[KeyOf[c]] = e
          /\ Status(KeyOf[c])' = "PREPARED"
      BY <1>0, <2>0, ReserveKeepsLedger
    <2>2. /\ cpc'[c] = "facts" /\ held'[c] = e /\ outcome' = outcome /\ receipts' = receipts
          /\ CoordTypeOK' /\ OthersRest(c)
      BY <1>0, <1>3, <1>a DEF ReserveFirst, MoveTo, MarkPoints, CoordTypeOK, OthersRest, Points
    <2>3. cpc[c] = "reserve" /\ ~Sent(c) /\ Status(KeyOf[c]) = "ABSENT"
      BY <1>0, <1>3 DEF ReserveFirst, ReserveNew, CallSound, StarterLeftPrepared, EarlyCall, Status
    <2>4. ~Starter(c)'
      BY <1>a, <2>2, <2>3 DEF Starter, Running
    <2>5. ~Terminal(outcome[c].status)
      BY <1>0, <2>3 DEF CallSound, TerminalLasts, Terminal
    <2>6. CallSound(c)'
      BY <1>a, <2>1, <2>2, <2>3, <2>4, <2>5, LedgerAssumption
         DEF CallSound, HeldIsIndexed, StarterLeftPrepared, EventIsReservation,
             PointTellsReply, SinceSound, MarkPoints, Running, TerminalLasts
    <2> QED
      BY <1>0, <1>a, <2>1, <2>2, <2>3, <2>4, <2>6, CallAdvances DEF IInv
  <1>4. CASE ReserveAgain(c)
    <2>1. LedgerSound' /\ LedgerAdvances(KeyOf[c]) /\ Status(KeyOf[c])' = Status(KeyOf[c])
          /\ by_idempotency' = by_idempotency
      BY <1>0, <1>4, LedgerRests DEF ReserveAgain, ledgerVars
    <2>2. /\ cpc'[c] = "get_existing" /\ held'[c] = by_idempotency[KeyOf[c]] /\ held'[c] # None
          /\ UNCHANGED <<outcome, receipts>>
          /\ CoordTypeOK' /\ OthersRest(c) /\ cpc[c] = "reserve"
      BY <1>0, <1>4, <1>a
         DEF ReserveAgain, ReserveReturnsExisting, MoveTo, MarkPoints, CoordTypeOK, OthersRest, Points,
             LedgerSound, LedgerTypeOK
    <2>3. ~Sent(c) /\ ~Starter(c)'
      BY <1>0, <1>a, <2>2 DEF Starter, Running, CallSound, StarterLeftPrepared, EarlyCall
    <2>4. CallSound(c)'
      BY <1>0, <1>a, <2>1, <2>2, <2>3
         DEF CallSound, HeldIsIndexed, StarterLeftPrepared, EventIsReservation,
             PointTellsReply, SinceSound, MarkPoints, Running, TerminalLasts
    <2> QED
      BY <1>0, <1>a, <2>1, <2>2, <2>3, <2>4, CallAdvances DEF IInv
  <1>5. CASE ReserveFails(c)
    <2>1. LedgerSound' /\ UNCHANGED <<by_execution, by_idempotency>>
      BY <1>0, <1>5 DEF ReserveFails, ReserveAborted, LedgerSound, LedgerTypeOK,
         OneExecutionPerKey, OutboxSound, Live
    <2>2. \A k \in Keys : Status(k)' = Status(k)
      BY <2>1 DEF Status
    <2>3. LedgerAdvances(KeyOf[c])
      BY <1>0, <2>1, <2>2 DEF LedgerAdvances, MayBecome
    <2>4. ErrorOutcome \in Outcomes /\ ~Terminal(ErrorOutcome.status) /\ "done" \in Points
      BY DEF ErrorOutcome, Outcomes, Terminal, Points
    <2>5. /\ cpc'[c] = "done" /\ outcome'[c] = ErrorOutcome /\ UNCHANGED <<held, receipts>>
          /\ CoordTypeOK' /\ OthersRest(c) /\ cpc[c] = "reserve"
      BY <1>0, <1>5, <1>a, <2>4 DEF ReserveFails, Return, CoordTypeOK, OthersRest
    <2>6. ~Sent(c) /\ ~Starter(c)'
      BY <1>0, <1>a, <2>5 DEF Starter, Running, CallSound, StarterLeftPrepared, EarlyCall
    <2>7. CallSound(c)'
      BY <1>0, <1>a, <2>1, <2>2, <2>4, <2>5, <2>6
         DEF CallSound, HeldIsIndexed, HoldingCall, StarterLeftPrepared, EventIsReservation,
             PointTellsReply, SinceSound, MarkPoints, Running, TerminalLasts
    <2> QED
      BY <1>0, <1>a, <2>1, <2>2, <2>3, <2>5, <2>6, <2>7, CallAdvances DEF IInv
  <1>6. CASE GetExisting(c)
    <2>1. LedgerSound' /\ LedgerAdvances(KeyOf[c]) /\ Status(KeyOf[c])' = Status(KeyOf[c])
          /\ by_idempotency' = by_idempotency
      BY <1>0, <1>6, LedgerRests DEF GetExisting, ledgerVars
    <2>2. held[c] # None /\ cpc[c] = "get_existing" /\ ~Sent(c)
      BY <1>0, <1>6
         DEF GetExisting, CallSound, HeldIsIndexed, HoldingCall, Points, StarterLeftPrepared,
             EarlyCall
    <2>3. /\ by_execution[held[c]].status = Status(KeyOf[c])
          /\ Status(KeyOf[c]) \in ExecutionStatus \cup {"ABSENT"}
      BY <1>0, <2>2, HolderFindsRecord DEF ExecutionRecord
    <2>4. /\ cpc'[c] \in {"facts", "cite"} /\ seen'[c] = Status(KeyOf[c])
          /\ UNCHANGED <<held, outcome, receipts>>
          /\ CoordTypeOK' /\ OthersRest(c)
      BY <1>0, <1>6, <1>a, <2>3 DEF GetExisting, MoveTo, MarkPoints, CoordTypeOK, OthersRest, Points
    <2>5. ~Starter(c)'
      BY <1>a, <2>2, <2>4 DEF Starter, Running
    <2>6. CallSound(c)'
      BY <1>0, <1>a, <2>1, <2>2, <2>4, <2>5
         DEF CallSound, HeldIsIndexed, StarterLeftPrepared, EventIsReservation,
             PointTellsReply, SinceSound, MarkPoints, Running, TerminalLasts
    <2> QED
      BY <1>0, <1>a, <2>1, <2>4, <2>5, <2>6, CallAdvances DEF IInv
  <1> QED
    BY <1>1, <1>2, <1>3, <1>4, <1>5, <1>6

\* From the facts of the authorization to the tool request.
LEMMA StartPreserves ==
  ASSUME IInv, NEW c \in Calls,
         \/ FactsExpired(c) \/ CaptureEvent(c) \/ Authorize(c) \/ AuthorizationInvalid(c)
         \/ CheckActivation(c) \/ Start(c) \/ SendToolRequest(c) \/ StartedRevoked(c)
  PROVE  IInv'
  <1>0. /\ LedgerSound /\ CoordSound /\ ProxyIInv /\ CallSound(c) /\ CoordTypeOK
        /\ KeyOf[c] \in Keys
    BY ToolProxyAssumption DEF IInv, CoordSound
  <1>a. ASSUME UNCHANGED proxyVars
        PROVE  ProxyIInv' /\ \A d \in Calls : (Sent(d)' <=> Sent(d)) /\ (Verified(d)' <=> Verified(d))
    BY <1>0, <1>a, ProxyRests DEF proxyVars, Sent, Verified
  <1>1. CASE FactsExpired(c) \/ Authorize(c) \/ AuthorizationInvalid(c) \/ StartedRevoked(c)
    BY <1>0, <1>1, <1>a, CallMovesOn
       DEF FactsExpired, Authorize, AuthorizationInvalid, StartedRevoked, IInv, Points,
           HoldingCall, EarlyCall, Running
  <1>2. CASE CheckActivation(c)
    BY <1>0, <1>2, <1>a, CallMovesOn DEF CheckActivation, IInv, Points, HoldingCall, EarlyCall, Running
  <1>3. CASE CaptureEvent(c)
    <2>1. LedgerSound' /\ LedgerAdvances(KeyOf[c]) /\ Status(KeyOf[c])' = Status(KeyOf[c])
          /\ by_idempotency' = by_idempotency
      BY <1>0, <1>3, LedgerRests DEF CaptureEvent, ledgerVars
    <2>2. held[c] # None /\ cpc[c] = "facts" /\ ~Sent(c)
      BY <1>0, <1>3
         DEF CaptureEvent, CallSound, HeldIsIndexed, HoldingCall, Points, StarterLeftPrepared,
             EarlyCall
    <2>3. /\ by_execution[held[c]].status = Status(KeyOf[c])
          /\ held[c] \in ExecIds /\ Live(held[c])
      BY <1>0, <2>2, HolderFindsRecord DEF Live
    <2>4. StatusEventFact(held[c]) \in EventTypes
      BY <1>0, <2>2, HolderFindsRecord DEF EventsFit, StatusEventFact
    <2>5. Status(KeyOf[c]) = "PREPARED" => StatusEventFact(held[c]) = "EXECUTION_RESERVED"
      BY <1>0, <2>2, HolderFindsRecord DEF EventsFit, StatusEventFact
    <2>6. /\ cpc'[c] = "authorize" /\ event'[c] = StatusEventFact(held[c])
          /\ UNCHANGED <<held, outcome, receipts, proxyVars>>
          /\ CoordTypeOK'
      BY <1>0, <1>3, <2>4 DEF CaptureEvent, MoveTo, MarkPoints, CoordTypeOK, Points
    <2>7. OthersRest(c)
      BY <1>0, <1>3, <1>a DEF CaptureEvent, MoveTo, MarkPoints, CoordTypeOK, OthersRest
    <2>8. ~Starter(c)' /\ ~Sent(c)'
      BY <1>a, <2>2, <2>6 DEF Starter, Running
    <2>9. CallSound(c)'
      BY <1>0, <2>1, <2>2, <2>5, <2>6, <2>8
         DEF CallSound, HeldIsIndexed, StarterLeftPrepared, EventIsReservation,
             PointTellsReply, SinceSound, MarkPoints, Running, TerminalLasts
    <2> QED
      BY <1>0, <1>a, <2>1, <2>6, <2>7, <2>8, <2>9, CallAdvances DEF IInv
  <1>4. CASE Start(c)
    <2>1. held[c] # None /\ cpc[c] = "start" /\ UNCHANGED proxyVars
      BY <1>0, <1>4 DEF Start, CallSound, HeldIsIndexed, HoldingCall, Points
    <2>2. CASE MarkStarted(Fence(c), since[c]) /\ MoveTo(c, "started")
      <3>1. LedgerSound' /\ LedgerAdvances(KeyOf[c]) /\ by_idempotency' = by_idempotency
            /\ Status(KeyOf[c]) = "PREPARED" /\ Status(KeyOf[c])' = "RUNNING"
        BY <1>0, <2>1, <2>2, MarksKeepLedger DEF MarkPoints
      <3>2. CoordSound'
        BY <1>0, <1>4, <2>1, <2>2, <3>1, CallMarks DEF Start, HoldingCall, Points
      <3> QED
        BY <1>a, <2>1, <3>1, <3>2 DEF IInv
    <2>3. CASE MoveTo(c, "get") /\ UNCHANGED ledgerVars
      BY <1>0, <1>4, <1>a, <2>1, <2>3, CallMovesOn DEF Start, IInv, Points, HoldingCall, EarlyCall, Running
    <2> QED
      BY <1>4, <2>2, <2>3 DEF Start
  <1>5. CASE SendToolRequest(c)
    <2>1. LedgerSound' /\ LedgerAdvances(KeyOf[c]) /\ Status(KeyOf[c])' = Status(KeyOf[c])
          /\ by_idempotency' = by_idempotency
      BY <1>0, <1>5, LedgerRests DEF SendToolRequest, ledgerVars
    <2>2. ProxyIInv'
      BY <1>0, <1>5, ProxyStepPreserves DEF SendToolRequest, ProxyNext
    <2>3. /\ cpc[c] = "started" /\ Starter(c) /\ ppc'[c] = "prepare" /\ ppc[c] = "idle"
          /\ reply' = reply
          /\ \A d \in Calls \ {c} : ppc'[d] = ppc[d]
      BY <1>0, <1>5 DEF SendToolRequest, ProxyReceive, Goto, Starter, Running, ProxyIInv, ProxyTypeOK
    <2>4. /\ \A d \in Calls \ {c} : (Sent(d)' <=> Sent(d)) /\ (Verified(d) => Verified(d)')
          /\ Sent(c)' /\ ~Verified(c)
      BY <2>3 DEF Sent, Verified
    <2>5. /\ cpc'[c] = "tool" /\ UNCHANGED <<held, event, outcome, receipts>>
          /\ CoordTypeOK' /\ OthersRest(c)
      BY <1>0, <1>5, <2>4 DEF SendToolRequest, MoveTo, MarkPoints, CoordTypeOK, OthersRest, Points
    <2>6. CallSound(c)'
      BY <1>0, <2>1, <2>3, <2>5
         DEF CallSound, HeldIsIndexed, HoldingCall, EarlyCall, Points, StarterLeftPrepared,
             EventIsReservation, PointTellsReply, SinceSound, MarkPoints, Running, TerminalLasts
    <2> QED
      BY <1>0, <2>1, <2>2, <2>3, <2>4, <2>5, <2>6, CallAdvances DEF IInv
  <1> QED
    BY <1>1, <1>2, <1>3, <1>4, <1>5

\* The tool's answer, the evidence, the recording of the end and the report.
LEMMA EndPreserves ==
  ASSUME IInv, NEW c \in Calls,
         \/ ToolAnswers(c) \/ ToolTimesOut(c) \/ AppendEvidence(c) \/ EvidenceInvalid(c)
         \/ Succeed(c) \/ Fail(c) \/ FailRevoked(c) \/ BecomeUnknown(c)
         \/ GetRecord(c) \/ CiteEvent(c) \/ CallStops(c)
  PROVE  IInv'
  <1>0. /\ LedgerSound /\ CoordSound /\ ProxyIInv /\ CallSound(c) /\ CoordTypeOK
        /\ KeyOf[c] \in Keys
    BY ToolProxyAssumption DEF IInv, CoordSound
  <1>a. /\ UNCHANGED proxyVars /\ ProxyIInv'
        /\ \A d \in Calls : (Sent(d)' <=> Sent(d)) /\ (Verified(d)' <=> Verified(d))
    <2>1. UNCHANGED proxyVars
      BY DEF ToolAnswers, ToolTimesOut, AppendEvidence, EvidenceInvalid, Succeed, Fail,
         FailRevoked, BecomeUnknown, GetRecord, CiteEvent, CallStops
    <2> QED
      BY <1>0, <2>1, ProxyRests DEF proxyVars, Sent, Verified
  <1>b. cpc[c] \in HoldingCall => held[c] # None
    BY <1>0 DEF CallSound, HeldIsIndexed
  <1>1. CASE ToolTimesOut(c)
    BY <1>0, <1>1, <1>a, CallMovesOn
       DEF ToolTimesOut, IInv, Points, HoldingCall, EarlyCall, Running
  <1>2. CASE ToolAnswers(c)
    <2>1. /\ cpc[c] = "tool"
          /\ UNCHANGED <<ledgerVars, proxyVars, held, event, seen, outcome, receipts>>
          /\ \/ MoveTo(c, "evidence") /\ Verified(c)
             \/ MoveTo(c, "fail") \/ MoveTo(c, "unknown")
      BY <1>2 DEF ToolAnswers, Verified, Sent
    <2> QED
      BY <1>0, <1>a, <2>1, CallMovesOn DEF IInv, Points, HoldingCall, EarlyCall, Running
  <1>3. CASE AppendEvidence(c) \/ EvidenceInvalid(c)
    <2>1. LedgerSound' /\ LedgerAdvances(KeyOf[c]) /\ Status(KeyOf[c])' = Status(KeyOf[c])
          /\ by_idempotency' = by_idempotency
      BY <1>0, <1>3, LedgerRests DEF AppendEvidence, EvidenceInvalid, ledgerVars
    <2>a. cpc[c] = "evidence" /\ held[c] # None
      BY <1>3, <1>b DEF AppendEvidence, EvidenceInvalid, HoldingCall, Points
    <2>b. /\ Len(outbox[held[c]]) \in Nat /\ Len(outbox[held[c]]) >= 1
          /\ Status(KeyOf[c]) = "RUNNING" => Len(outbox[held[c]]) = 2
      BY <1>0, <2>a, HolderFindsRecord DEF EventsFit
    <2>2. /\ cpc[c] = "evidence" /\ UNCHANGED <<held, event, outcome>>
          /\ \/ cpc'[c] = "succeed" /\ c \in receipts'
             \/ cpc'[c] = "unknown"
          /\ since'[c] = Len(outbox[held[c]])
          /\ receipts \subseteq receipts'
          /\ CoordTypeOK' /\ OthersRest(c)
      BY <1>0, <1>3, <1>a, <2>b
         DEF AppendEvidence, EvidenceInvalid, MoveTo, MarkPoints, CoordTypeOK, OthersRest, Points
    <2>3. Starter(c)
      BY <2>2 DEF Starter, Running
    <2>4. CallSound(c)'
      BY <1>0, <1>a, <2>1, <2>2, <2>3, <2>b
         DEF CallSound, HeldIsIndexed, HoldingCall, EarlyCall, Points, StarterLeftPrepared,
             EventIsReservation, PointTellsReply, SinceSound, MarkPoints, Running, TerminalLasts
    <2> QED
      BY <1>0, <1>a, <2>1, <2>2, <2>3, <2>4, CallAdvances DEF IInv
  <1>4. CASE Succeed(c)
    <2>1. held[c] # None /\ cpc[c] = "succeed" /\ cpc[c] \in HoldingCall
      BY <1>4, <1>b DEF Succeed, HoldingCall, Points
    <2>2. CASE MarkSucceeded(Fence(c), since[c]) /\ MoveTo(c, "get") /\ UNCHANGED outcome
      <3>1. LedgerSound' /\ LedgerAdvances(KeyOf[c]) /\ by_idempotency' = by_idempotency
            /\ Status(KeyOf[c])' = "SUCCEEDED"
        BY <1>0, <2>1, <2>2, MarksKeepLedger DEF MarkPoints
      <3> QED
        BY <1>0, <1>4, <1>a, <2>1, <2>2, <3>1, CallMarks DEF Succeed, IInv
    <2>3. CASE Return(c, ErrorOutcome) /\ UNCHANGED ledgerVars
      BY <1>0, <1>4, <1>a, <2>3, CallFails DEF Succeed, IInv
    <2> QED
      BY <1>4, <2>2, <2>3 DEF Succeed
  <1>5. CASE Fail(c)
    <2>1. held[c] # None /\ cpc[c] \in HoldingCall /\ cpc[c] \in MarkPoints
      BY <1>5, <1>b DEF Fail, HoldingCall, MarkPoints, Points
    <2>2. CASE MarkFailed(Fence(c), since[c]) /\ MoveTo(c, "get") /\ UNCHANGED outcome
      <3>1. LedgerSound' /\ LedgerAdvances(KeyOf[c]) /\ by_idempotency' = by_idempotency
            /\ Status(KeyOf[c])' = "FAILED"
        BY <1>0, <2>1, <2>2, MarksKeepLedger DEF MarkPoints
      <3> QED
        BY <1>0, <1>5, <1>a, <2>1, <2>2, <3>1, CallMarks DEF Fail, IInv
    <2>3. CASE Return(c, ErrorOutcome) /\ UNCHANGED ledgerVars
      BY <1>0, <1>5, <1>a, <2>3, CallFails DEF Fail, IInv
    <2> QED
      BY <1>5, <2>2, <2>3 DEF Fail
  <1>6. CASE FailRevoked(c)
    <2>1. held[c] # None /\ cpc[c] \in HoldingCall /\ cpc[c] \in MarkPoints
      BY <1>6, <1>b DEF FailRevoked, HoldingCall, MarkPoints, Points
    <2>2. CASE MarkFailed(Fence(c), since[c])
      <3>1. LedgerSound' /\ LedgerAdvances(KeyOf[c]) /\ by_idempotency' = by_idempotency
            /\ Status(KeyOf[c])' = "FAILED"
        BY <1>0, <2>1, <2>2, MarksKeepLedger DEF MarkPoints
      <3> QED
        BY <1>0, <1>6, <1>a, <2>1, <3>1, CallMarks DEF FailRevoked, IInv
    <2>3. CASE UNCHANGED ledgerVars
      BY <1>0, <1>6, <1>a, <2>3, CallFails DEF FailRevoked, IInv
    <2> QED
      BY <1>6, <2>2, <2>3 DEF FailRevoked
  <1>7. CASE BecomeUnknown(c)
    <2>1. held[c] # None /\ cpc[c] = "unknown" /\ cpc[c] \in HoldingCall /\ cpc[c] \in MarkPoints
      BY <1>7, <1>b DEF BecomeUnknown, HoldingCall, MarkPoints, Points
    <2>2. CASE MarkUnknown(Fence(c), since[c]) /\ MoveTo(c, "get") /\ UNCHANGED outcome
      <3>1. LedgerSound' /\ LedgerAdvances(KeyOf[c]) /\ by_idempotency' = by_idempotency
            /\ Status(KeyOf[c])' = "UNKNOWN"
        BY <1>0, <2>1, <2>2, MarksKeepLedger DEF MarkPoints
      <3> QED
        BY <1>0, <1>7, <1>a, <2>1, <2>2, <3>1, CallMarks DEF BecomeUnknown, IInv
    <2>3. CASE Return(c, ErrorOutcome) /\ UNCHANGED ledgerVars
      BY <1>0, <1>7, <1>a, <2>3, CallFails DEF BecomeUnknown, IInv
    <2> QED
      BY <1>7, <2>2, <2>3 DEF BecomeUnknown
  <1>8. CASE GetRecord(c)
    <2>1. LedgerSound' /\ LedgerAdvances(KeyOf[c]) /\ Status(KeyOf[c])' = Status(KeyOf[c])
          /\ by_idempotency' = by_idempotency
      BY <1>0, <1>8, LedgerRests DEF GetRecord, ledgerVars
    <2>2. held[c] # None /\ cpc[c] = "get"
      BY <1>8, <1>b DEF GetRecord, HoldingCall, Points
    <2>3. /\ by_execution[held[c]].status = Status(KeyOf[c])
          /\ Status(KeyOf[c]) \in ExecutionStatus \cup {"ABSENT"}
      BY <1>0, <2>2, HolderFindsRecord DEF ExecutionRecord
    <2>4. /\ cpc'[c] = "cite" /\ seen'[c] = Status(KeyOf[c])
          /\ UNCHANGED <<held, event, outcome, receipts>>
          /\ CoordTypeOK' /\ OthersRest(c)
      BY <1>0, <1>8, <1>a, <2>3 DEF GetRecord, MoveTo, MarkPoints, CoordTypeOK, OthersRest, Points
    <2>5. Starter(c)' => Starter(c)
      BY <1>a, <2>4 DEF Starter, Running
    <2>6. CallSound(c)'
      BY <1>0, <1>a, <2>1, <2>2, <2>4, <2>5
         DEF CallSound, HeldIsIndexed, EarlyCall, StarterLeftPrepared, EventIsReservation,
             PointTellsReply, SinceSound, MarkPoints, Running, TerminalLasts
    <2> QED
      BY <1>0, <1>a, <2>1, <2>4, <2>5, <2>6, CallAdvances DEF IInv
  <1>9. CASE CiteEvent(c)
    <2>1. LedgerSound' /\ LedgerAdvances(KeyOf[c]) /\ Status(KeyOf[c])' = Status(KeyOf[c])
          /\ by_idempotency' = by_idempotency
      BY <1>0, <1>9, LedgerRests DEF CiteEvent, ledgerVars
    <2>2. held[c] # None /\ cpc[c] = "cite"
      BY <1>9, <1>b DEF CiteEvent, HoldingCall, Points
    <2>3. /\ by_execution[held[c]].status = Status(KeyOf[c])
          /\ held[c] \in ExecIds /\ Live(held[c])
      BY <1>0, <2>2, HolderFindsRecord DEF Live
    <2>4. /\ StatusEventFact(held[c]) \in EventTypes
          /\ Cites(Status(KeyOf[c]), StatusEventFact(held[c]))
      BY <1>0, <2>2, HolderFindsRecord DEF EventsFit, StatusEventFact, Cites
    <2> DEFINE result == [status |-> seen[c], event |-> StatusEventFact(held[c])]
    <2>5. result \in Outcomes /\ result.status = seen[c] /\ result.event = StatusEventFact(held[c])
      BY <1>0, <2>4 DEF Outcomes, CoordTypeOK
    <2>6. outcome' = [outcome EXCEPT ![c] = result] /\ cpc' = [cpc EXCEPT ![c] = "done"]
          /\ since' = [since EXCEPT ![c] = 0]
          /\ UNCHANGED <<held, event, seen, receipts>>
      BY <1>9 DEF CiteEvent, Return
    <2> HIDE DEF result
    <2>7. cpc'[c] = "done" /\ outcome'[c] = result /\ CoordTypeOK' /\ OthersRest(c)
      BY <1>0, <1>a, <2>5, <2>6 DEF CoordTypeOK, OthersRest, Points
    <2>8. Starter(c)' => Starter(c)
      BY <1>a, <2>7 DEF Starter, Running
    <2>9. TerminalLasts(c)'
      BY <1>0, <2>1, <2>2, <2>4, <2>5, <2>6, <2>7 DEF CallSound, TerminalLasts, Terminal
    <2>10. CallSound(c)'
      BY <1>0, <1>a, <2>1, <2>6, <2>7, <2>8, <2>9
         DEF CallSound, HeldIsIndexed, HoldingCall, EarlyCall, StarterLeftPrepared,
             EventIsReservation, PointTellsReply, SinceSound, MarkPoints, Running
    <2> QED
      BY <1>0, <1>a, <2>1, <2>6, <2>7, <2>8, <2>10, CallAdvances DEF IInv
  <1>10. CASE CallStops(c)
    BY <1>0, <1>10, <1>a, CallFails DEF CallStops, IInv
  <1> QED
    BY <1>1, <1>2, <1>3, <1>4, <1>5, <1>6, <1>7, <1>8, <1>9, <1>10

\* Every step preserves the inductive invariant.
LEMMA StepPreserves == IInv /\ [Next]_vars => IInv'
  <1> SUFFICES ASSUME IInv, [Next]_vars PROVE IInv'
    OBVIOUS
  <1>1. ASSUME NEW c \in Calls, CallStep(c) PROVE IInv'
    BY <1>1, AdmissionPreserves, StartPreserves, EndPreserves DEF CallStep
  <1>2. CASE ProxyMoves
    BY <1>2, ProxyMovesPreserves
  <1>3. ASSUME UNCHANGED <<ledgerVars, proxyVars, cpc, held, since, event, seen, outcome, receipts>>
        PROVE  IInv'
    <2>1. LedgerSound' /\ ProxyIInv'
      BY <1>3, LedgerRests, ProxyRests DEF IInv
    <2>2. CoordSound'
      BY <1>3 DEF IInv, CoordSound, CoordTypeOK, StarterIsUnique, SucceededWasVerified,
         CallSound, HeldIsIndexed, StarterLeftPrepared, EventIsReservation, PointTellsReply,
         SinceSound, TerminalLasts, Starter, Sent, Verified, Status, ledgerVars, proxyVars
    <2> QED
      BY <2>1, <2>2 DEF IInv
  <1> QED
    BY <1>1, <1>2, <1>3 DEF Next, ActivationChanges, vars, coordVars

-----------------------------------------------------------------------------
(* The theorems *)

\* The inductive invariant of the composed system holds in every state.
THEOREM ExecutionInductive == Spec => []IInv
  BY InitEstablishes, StepPreserves, PTL DEF Spec

\* At most one call of a key, of however many overlap, sends a tool request.
THEOREM ExecutionOneToolRequestPerKey == Spec => []OneToolRequestPerKey
  <1>1. IInv => OneToolRequestPerKey
    BY DEF IInv, CoordSound, StarterIsUnique, Starter, OneToolRequestPerKey
  <1> QED
    BY <1>1, ExecutionInductive, PTL

\* While the record is PREPARED nothing was asked of the proxy: a retry may take
\* the reservation over.
THEOREM ExecutionPreparedMeansUntouched == Spec => []PreparedMeansUntouched
  <1>1. IInv => PreparedMeansUntouched
    BY DEF IInv, CoordSound, CallSound, StarterLeftPrepared, Starter, PreparedMeansUntouched
  <1> QED
    BY <1>1, ExecutionInductive, PTL

\* A SUCCEEDED record stands for a performed operation, the proxy's SUCCEEDED
\* row and an appended evidence event of one and the same call.
THEOREM ExecutionSucceededIsReal == Spec => []SucceededIsReal
  <1>1. IInv => SucceededIsReal
    <2> SUFFICES ASSUME IInv, NEW k \in Keys, Status(k) = "SUCCEEDED"
                 PROVE  /\ inv[k].state = "SUCCEEDED"
                        /\ \E c \in receipts : KeyOf[c] = k /\ Performed(c)
      BY DEF SucceededIsReal
    <2>1. PICK c \in receipts : KeyOf[c] = k /\ Verified(c)
      BY DEF IInv, CoordSound, SucceededWasVerified
    <2>2. c \in Calls /\ Starter(c) /\ inv[k].state = "SUCCEEDED"
      BY <2>1 DEF IInv, CoordSound, CoordTypeOK, ProxyIInv, ReplyTellsRow, Row, Verified, Starter
    <2>3. PICK d \in Calls : KeyOf[d] = k /\ op[d] = "performed"
      BY <2>2 DEF IInv, ProxyIInv, SucceededWasPerformed, Some
    <2>4. Starter(d)
      BY <2>3 DEF IInv, ProxyIInv, PointTellsOp, EarlyPoints, Starter, Sent
    <2>5. d = c
      BY <2>1, <2>2, <2>3, <2>4 DEF IInv, CoordSound, StarterIsUnique
    <2> QED
      BY <2>1, <2>2, <2>3, <2>5 DEF Performed
  <1> QED
    BY <1>1, ExecutionInductive, PTL

\* The event a sent tool request carries is the RESERVED one.
THEOREM ExecutionToolRequestCitesReservation == Spec => []ToolRequestCitesReservation
  <1>1. IInv => ToolRequestCitesReservation
    BY DEF IInv, CoordSound, CallSound, EventIsReservation, ToolRequestCitesReservation
  <1> QED
    BY <1>1, ExecutionInductive, PTL

\* A SUCCEEDED or FAILED outcome is the record's status ever after, and a
\* SUCCEEDED one cites the SUCCEEDED event.
THEOREM ExecutionTerminalOutcomesAgree == Spec => []TerminalOutcomesAgree
  <1>1. IInv => TerminalOutcomesAgree
    BY DEF IInv, CoordSound, CallSound, TerminalLasts, Terminal, Cites, TerminalOutcomesAgree
  <1> QED
    BY <1>1, ExecutionInductive, PTL

\* A step of the composed system is a step of the proxy, or none of its.
LEMMA StepOfProxy == [Next]_vars => [ProxyNext]_proxyVars
  <1> SUFFICES ASSUME [Next]_vars PROVE ProxyNext \/ UNCHANGED proxyVars
    OBVIOUS
  <1>1. ASSUME NEW c \in Calls, CallStep(c) PROVE ProxyReceive(c) \/ UNCHANGED proxyVars
    <2>1. CASE \/ Admit(c) \/ AdmitFails(c) \/ (\E e \in ExecIds : ReserveFirst(c, e))
               \/ ReserveAgain(c) \/ ReserveConflict(c) \/ ReserveFails(c) \/ GetExisting(c)
      BY <2>1 DEF Admit, AdmitFails, ReserveFirst, ReserveAgain, ReserveConflict,
         ReserveFails, GetExisting
    <2>2. CASE \/ FactsExpired(c) \/ CaptureEvent(c) \/ Authorize(c) \/ AuthorizationInvalid(c)
               \/ CheckActivation(c) \/ Start(c) \/ SendToolRequest(c) \/ StartedRevoked(c)
      BY <2>2 DEF FactsExpired, CaptureEvent, Authorize, AuthorizationInvalid,
         CheckActivation, Start, SendToolRequest, StartedRevoked
    <2>3. CASE \/ ToolAnswers(c) \/ ToolTimesOut(c) \/ AppendEvidence(c) \/ EvidenceInvalid(c)
               \/ Succeed(c) \/ Fail(c) \/ FailRevoked(c) \/ BecomeUnknown(c)
               \/ GetRecord(c) \/ CiteEvent(c) \/ CallStops(c)
      BY <2>3 DEF ToolAnswers, ToolTimesOut, AppendEvidence, EvidenceInvalid, Succeed,
         Fail, FailRevoked, BecomeUnknown, GetRecord, CiteEvent, CallStops
    <2> QED
      BY <1>1, <2>1, <2>2, <2>3 DEF CallStep
  <1>2. ProxyMoves => ProxyNext
    BY DEF ProxyMoves, ProxyNext
  <1>3. ActivationChanges \/ UNCHANGED vars => UNCHANGED proxyVars
    BY DEF ActivationChanges, vars
  <1> QED
    BY <1>1, <1>2, <1>3 DEF Next, ProxyNext

\* The whole service, retries and recovery included, implements EffectOnce: what the
\* proxy promises of a key is not lost in the composition.
THEOREM ExecutionImplementsEffectOnce == Spec => ImplementsEffectOnce
  <1>1. Init => ProxyInit
    BY DEF Init
  <1>2. IInv => ProxyIInv
    BY DEF IInv
  <1> QED
    BY <1>1, <1>2, StepOfProxy, InitRefines, StepRefines, ExecutionInductive, PTL
       DEF Spec, ImplementsEffectOnce, Once!Spec

\* A step moves records only along MayBecome.
LEMMA StepAdvancesStatus ==
  IInv /\ [Next]_vars => \A k \in Keys : MayBecome(Status(k), Status(k)')
  <1> SUFFICES ASSUME IInv, [Next]_vars PROVE \A k \in Keys : MayBecome(Status(k), Status(k)')
    OBVIOUS
  <1>a. LedgerSound /\ CoordSound
    BY DEF IInv
  <1>b. \A k \in Keys : MayBecome(Status(k), Status(k))
    BY DEF MayBecome
  <1>r. UNCHANGED ledgerVars => \A k \in Keys : MayBecome(Status(k), Status(k)')
    BY <1>a, LedgerRests DEF LedgerAdvances
  <1>k. ASSUME NEW j \in Keys, LedgerAdvances(j)
        PROVE  \A k \in Keys : MayBecome(Status(k), Status(k)')
    BY <1>k, <1>b DEF LedgerAdvances
  <1>1. ASSUME NEW c \in Calls, CallStep(c)
        PROVE  \A k \in Keys : MayBecome(Status(k), Status(k)')
    <2>0. KeyOf[c] \in Keys /\ HashOf[c] \in Hashes
      BY ToolProxyAssumption, ExecutionAssumption
    <2>1. CASE \E e \in ExecIds : ReserveFirst(c, e)
      <3>1. PICK e \in ExecIds : ReserveNew(e, KeyOf[c], HashOf[c])
        BY <2>1 DEF ReserveFirst
      <3> QED
        BY <3>1, <2>0, <1>a, <1>k, ReserveKeepsLedger
    <2>2. CASE ReserveFails(c)
      <3>1. UNCHANGED <<by_idempotency, by_execution>>
        BY <2>2 DEF ReserveFails, ReserveAborted
      <3> QED
        BY <3>1, <1>b DEF Status
    <2>3. CASE Start(c) \/ Succeed(c) \/ Fail(c) \/ FailRevoked(c) \/ BecomeUnknown(c)
      <3>1. held[c] # None /\ cpc[c] \in MarkPoints
        BY <2>3, <1>a DEF CoordSound, CallSound, HeldIsIndexed, HoldingCall, Points, MarkPoints,
           Start, Succeed, Fail, FailRevoked, BecomeUnknown
      <3>2. \/ MarkStarted(Fence(c), since[c]) \/ MarkFailed(Fence(c), since[c])
            \/ cpc[c] = "succeed" /\ MarkSucceeded(Fence(c), since[c])
            \/ MarkUnknown(Fence(c), since[c]) \/ UNCHANGED ledgerVars
        BY <2>3 DEF Start, Succeed, Fail, FailRevoked, BecomeUnknown
      <3> QED
        BY <3>1, <3>2, <2>0, <1>a, <1>r, <1>k, MarksKeepLedger
    <2>4. CASE \/ Admit(c) \/ AdmitFails(c) \/ ReserveAgain(c) \/ ReserveConflict(c)
               \/ GetExisting(c) \/ FactsExpired(c) \/ CaptureEvent(c) \/ Authorize(c)
               \/ AuthorizationInvalid(c) \/ CheckActivation(c) \/ SendToolRequest(c)
               \/ StartedRevoked(c) \/ ToolAnswers(c) \/ ToolTimesOut(c)
               \/ AppendEvidence(c) \/ EvidenceInvalid(c)
               \/ GetRecord(c) \/ CiteEvent(c) \/ CallStops(c)
      BY <2>4, <1>r DEF Admit, AdmitFails, ReserveAgain, ReserveConflict, GetExisting,
         FactsExpired, CaptureEvent, Authorize, AuthorizationInvalid, CheckActivation,
         SendToolRequest, StartedRevoked, ToolAnswers, ToolTimesOut, AppendEvidence,
         EvidenceInvalid, GetRecord, CiteEvent, CallStops
    <2> QED
      BY <1>1, <2>1, <2>2, <2>3, <2>4 DEF CallStep
  <1>2. ProxyMoves \/ ActivationChanges \/ UNCHANGED vars => UNCHANGED ledgerVars
    BY DEF ProxyMoves, ActivationChanges, vars
  <1> QED
    BY <1>1, <1>2, <1>r DEF Next

\* Through the coordinator a record only advances: an end is never left, UNKNOWN is
\* left for SUCCEEDED alone and never becomes FAILED, and nothing returns to PREPARED,
\* where a retry would take it over.
THEOREM ExecutionStatusAdvances ==
  Spec => [][\A k \in Keys : MayBecome(Status(k), Status(k)')]_vars
  BY StepAdvancesStatus, ExecutionInductive, PTL DEF Spec
=============================================================================
