---------------------------- MODULE LedgerProofs ----------------------------
(***************************************************************************)
(* Proofs about LedgerSystem, for any sets of keys, hashes and executions, *)
(* either store, and any bounds.                                           *)
(*                                                                         *)
(* None of the ledger's invariants is inductive alone: Restore replaces    *)
(* the live records by the saved ones, so the saved ones must satisfy the  *)
(* same facts; and the rebuilt index is right only because no two saved    *)
(* records share a key.  IInv says this of both copies.                    *)
(***************************************************************************)
EXTENDS LedgerSystem, SequenceTheorems, TLAPS

Present(r) == r.status # "ABSENT"

\* What StartedAtMostOnce and SuccessCarriesEvidence say, of one record; and
\* that nothing in this crate enters the other statuses of the enumeration
\* (without which the escalation of a COMPENSATION_FAILED record would yield an
\* UNKNOWN one that was never started).
RecordSound(r) ==
    /\ r.status \in {"ABSENT", "PREPARED", "RUNNING", "UNKNOWN", "SUCCEEDED", "FAILED"}
    /\ Present(r) =>
         /\ r.attempt <= 1
         /\ r.status = "PREPARED" => r.attempt = 0
         /\ r.status \in {"RUNNING", "UNKNOWN", "SUCCEEDED"} => r.attempt = 1
    /\ r.evidence <=> r.status = "SUCCEEDED"
    /\ r.result <=> r.status = "SUCCEEDED"

Told(events, type) == \E i \in 1 .. Len(events) : events[i] = type

\* What EventsTellOutcome says, of one record and its events, with the reason
\* for what it says of the latest one: RESERVED is the first event, no other
\* one is, and a PREPARED record has no other.
EventsSound(r, events) ==
    Present(r) =>
        /\ Len(events) >= 1 /\ events[1] = "EXECUTION_RESERVED"
        /\ \A i \in 2 .. Len(events) : events[i] # "EXECUTION_RESERVED"
        /\ r.status = "PREPARED" <=> Len(events) = 1
        /\ Told(events, "EXECUTION_RUNNING") <=> r.attempt = 1
        /\ Told(events, "EXECUTION_SUCCEEDED") <=> r.status = "SUCCEEDED"
        /\ Told(events, "EXECUTION_FAILED") <=> r.status = "FAILED"
        /\ Told(events, "EXECUTION_UNKNOWN") => r.status \in {"UNKNOWN", "SUCCEEDED"}
        /\ r.status = "UNKNOWN" => Told(events, "EXECUTION_UNKNOWN")

\* The event a transition from record o to record r writes is the right one.
EventFits(o, r, event) ==
    /\ event \in EventTypes \ {"EXECUTION_RESERVED"}
    /\ r.status # "PREPARED"
    /\ r.attempt = 1 <=> o.attempt = 1 \/ event = "EXECUTION_RUNNING"
    /\ r.status = "SUCCEEDED" <=> o.status = "SUCCEEDED" \/ event = "EXECUTION_SUCCEEDED"
    /\ r.status = "FAILED" <=> o.status = "FAILED" \/ event = "EXECUTION_FAILED"
    /\ event = "EXECUTION_UNKNOWN" \/ o.status \in {"UNKNOWN", "SUCCEEDED"}
          => r.status \in {"UNKNOWN", "SUCCEEDED"}
    /\ r.status = "UNKNOWN" => o.status = "UNKNOWN" \/ event = "EXECUTION_UNKNOWN"

\* A copy of the records (live or saved): sound, and identified by key and token.
CopySound(records, events) ==
    /\ \A e \in ExecIds : RecordSound(records[e]) /\ EventsSound(records[e], events[e])
    /\ \A e1, e2 \in ExecIds :
          Present(records[e1]) /\ Present(records[e2])
             /\ (records[e1].key = records[e2].key \/ records[e1].token = records[e2].token)
          => e1 = e2

LedgerInv ==
    /\ CopySound(by_execution, outbox)
    /\ OneExecutionPerKey
    /\ \A e \in ExecIds : Live(e) => by_execution[e].token < next_fence

IInv ==
    /\ TypeOK
    /\ LedgerInv
    /\ CopySound(saved.records, saved.events)

-----------------------------------------------------------------------------
\* The sequence after one event was put at position `at`.
LEMMA InsertAtFacts ==
    ASSUME NEW S, NEW s \in Seq(S), NEW x \in S, NEW at \in 1 .. Len(s) + 1
    PROVE  /\ InsertAt(s, at, x) \in Seq(S)
           /\ Len(InsertAt(s, at, x)) = Len(s) + 1
           /\ \A i \in 1 .. Len(s) + 1 :
                InsertAt(s, at, x)[i] = IF i < at THEN s[i] ELSE IF i = at THEN x ELSE s[i - 1]
  <1> DEFINE a == SubSeq(s, 1, at - 1)
             b == SubSeq(s, at, Len(s))
  <1>1. /\ a \in Seq(S) /\ Len(a) = at - 1
        /\ \A i \in 1 .. at - 1 : a[i] = s[i]
    OBVIOUS
  <1>2. /\ b \in Seq(S) /\ Len(b) = Len(s) - at + 1
        /\ \A i \in 1 .. Len(s) - at + 1 : b[i] = s[at + i - 1]
    OBVIOUS
  <1> HIDE DEF a, b
  <1> DEFINE m == a \o <<x>>
  <1>3. /\ m \in Seq(S) /\ Len(m) = at
        /\ \A i \in 1 .. at : m[i] = IF i < at THEN s[i] ELSE x
    BY <1>1
  <1> HIDE DEF m
  <1>4. /\ m \o b \in Seq(S) /\ Len(m \o b) = Len(s) + 1
        /\ \A i \in 1 .. Len(s) + 1 : (m \o b)[i] = IF i <= at THEN m[i] ELSE b[i - at]
    <2>0. m \in Seq(S) /\ b \in Seq(S) /\ Len(m) = at /\ Len(m) + Len(b) = Len(s) + 1
      BY <1>2, <1>3
    <2>1. m \o b \in Seq(S) /\ Len(m \o b) = Len(m) + Len(b)
      BY <2>0, ConcatProperties
    <2>2. \A i \in 1 .. Len(m) + Len(b) : (m \o b)[i] = IF i <= Len(m) THEN m[i] ELSE b[i - Len(m)]
      BY <2>0, ConcatProperties
    <2> QED BY <2>0, <2>1, <2>2
  <1>5. InsertAt(s, at, x) = m \o b
    BY DEF InsertAt, m, a, b
  <1>6. ASSUME NEW i \in 1 .. Len(s) + 1
        PROVE (m \o b)[i] = IF i < at THEN s[i] ELSE IF i = at THEN x ELSE s[i - 1]
    BY <1>2, <1>3, <1>4
  <1> QED BY <1>4, <1>5, <1>6

\* An event of the right type, wherever it comes to stand after the first one,
\* keeps what the events tell.
LEMMA EventsExtended ==
    ASSUME NEW o, NEW r, NEW s \in Seq(EventTypes), NEW event, NEW at \in 2 .. Len(s) + 1,
           Present(o), EventsSound(o, s), EventFits(o, r, event)
    PROVE  EventsSound(r, InsertAt(s, at, event))
  <1> DEFINE t == InsertAt(s, at, event)
  <1>1. /\ Len(s) \in Nat /\ Len(s) >= 1 /\ s[1] = "EXECUTION_RESERVED"
        /\ \A i \in 2 .. Len(s) : s[i] # "EXECUTION_RESERVED"
        /\ at \in 1 .. Len(s) + 1 /\ event \in EventTypes
    BY DEF EventsSound, EventFits
  <1>2. /\ Len(t) = Len(s) + 1
        /\ \A i \in 1 .. Len(s) + 1 :
             t[i] = IF i < at THEN s[i] ELSE IF i = at THEN event ELSE s[i - 1]
    BY <1>1, InsertAtFacts
  <1> HIDE DEF t
  <1>3. t[1] = "EXECUTION_RESERVED"
    BY <1>1, <1>2
  <1>4. \A i \in 2 .. Len(t) : t[i] # "EXECUTION_RESERVED"
    BY <1>1, <1>2 DEF EventFits
  <1>5. \A type : Told(t, type) <=> Told(s, type) \/ type = event
    <2> SUFFICES ASSUME NEW type PROVE Told(t, type) <=> Told(s, type) \/ type = event
      OBVIOUS
    <2>1. t[at] = event /\ at \in 1 .. Len(t)
      BY <1>1, <1>2
    <2>2. \A i \in 1 .. Len(s) : \E j \in 1 .. Len(t) : t[j] = s[i]
      <3> SUFFICES ASSUME NEW i \in 1 .. Len(s) PROVE \E j \in 1 .. Len(t) : t[j] = s[i]
        OBVIOUS
      <3>1. CASE i < at
        BY <1>1, <1>2, <3>1
      <3>2. CASE ~(i < at)
        <4>1. i + 1 \in 1 .. Len(t) /\ t[i + 1] = s[i]
          BY <1>1, <1>2, <3>2
        <4> QED BY <4>1
      <3> QED BY <3>1, <3>2
    <2>3. \A j \in 1 .. Len(t) : t[j] = event \/ \E i \in 1 .. Len(s) : t[j] = s[i]
      <3> SUFFICES ASSUME NEW j \in 1 .. Len(t), j # at
                   PROVE  \E i \in 1 .. Len(s) : t[j] = s[i]
        BY <2>1
      <3>1. CASE j < at
        BY <1>1, <1>2, <3>1
      <3>2. CASE ~(j < at)
        <4>1. j - 1 \in 1 .. Len(s) /\ t[j] = s[j - 1]
          BY <1>1, <1>2, <3>2
        <4> QED BY <4>1
      <3> QED BY <3>1, <3>2
    <2> QED BY <2>1, <2>2, <2>3 DEF Told
  <1>6. Len(t) # 1 /\ Len(t) >= 1
    BY <1>1, <1>2
  <1>7. EventsSound(r, t)
    BY <1>3, <1>4, <1>5, <1>6 DEF EventsSound, EventFits
  <1> QED BY <1>7 DEF t

\* A transition that keeps key and token and stores a sound record with the
\* event that fits preserves everything the ledger promises.
LEMMA StorePreserves ==
    ASSUME LedgerTypeOK, LedgerInv,
           NEW f \in ExecutionFence, NEW r \in ExecutionRecord, NEW event,
           Live(f.exec), Present(r), RecordSound(r),
           EventFits(by_execution[f.exec], r, event),
           r.key = by_execution[f.exec].key,
           r.token = by_execution[f.exec].token,
           Store(f, Reserved, r, event)
    PROVE  LedgerTypeOK' /\ LedgerInv'
  <1> DEFINE x == f.exec
  <1>1. x \in ExecIds /\ event \in EventTypes
    BY DEF ExecutionFence, EventFits
  <1>a. /\ outbox[x] \in Seq(EventTypes) /\ Len(outbox[x]) \in Nat /\ Len(outbox[x]) >= 1
        /\ EventsSound(by_execution[x], outbox[x]) /\ Present(by_execution[x])
    BY <1>1 DEF LedgerTypeOK, LedgerInv, CopySound, EventsSound, Live, Present
  <1>b. PICK at \in EventPlaces(x, Reserved) :
          outbox' = [outbox EXCEPT ![x] = InsertAt(outbox[x], at, event)]
    BY DEF Store
  <1>c. at \in 2 .. Len(outbox[x]) + 1 /\ at \in 1 .. Len(outbox[x]) + 1
    BY <1>a, <1>b DEF EventPlaces, Reserved
  <1> DEFINE told == InsertAt(outbox[x], at, event)
  <1>2. told \in Seq(EventTypes) /\ EventsSound(r, told)
    BY <1>1, <1>a, <1>c, InsertAtFacts, EventsExtended
  <1>3. /\ by_execution' = [by_execution EXCEPT ![x] = r]
        /\ outbox' = [outbox EXCEPT ![x] = told]
        /\ by_idempotency' = by_idempotency
        /\ next_fence' = next_fence
    BY <1>b DEF Store
  <1> HIDE DEF told
  <1>4. LedgerTypeOK'
    BY <1>1, <1>2, <1>3 DEF LedgerTypeOK
  <1>5. \A e \in ExecIds : /\ e # x => by_execution'[e] = by_execution[e]
                           /\ e # x => outbox'[e] = outbox[e]
    BY <1>3 DEF LedgerTypeOK
  <1>6. by_execution'[x] = r /\ outbox'[x] = told
    BY <1>1, <1>3 DEF LedgerTypeOK
  <1>7. \A e \in ExecIds : RecordSound(by_execution'[e])
                             /\ EventsSound(by_execution'[e], outbox'[e])
    <2> SUFFICES ASSUME NEW e \in ExecIds
                 PROVE  RecordSound(by_execution'[e]) /\ EventsSound(by_execution'[e], outbox'[e])
      OBVIOUS
    <2>1. CASE e = x
      BY <2>1, <1>2, <1>6
    <2>2. CASE e # x
      BY <2>2, <1>5 DEF LedgerInv, CopySound
    <2> QED BY <2>1, <2>2
  <1>8. \A e \in ExecIds : /\ Present(by_execution'[e]) <=> Present(by_execution[e])
                           /\ by_execution'[e].key = by_execution[e].key
                           /\ by_execution'[e].token = by_execution[e].token
    BY <1>1, <1>5, <1>6 DEF Live, Present
  <1>9. CopySound(by_execution', outbox')
    BY <1>7, <1>8 DEF CopySound, LedgerInv
  <1>10. OneExecutionPerKey'
    BY <1>3, <1>8, <1>4 DEF OneExecutionPerKey, LedgerInv, Live, Present, LedgerTypeOK
  <1>11. (\A e \in ExecIds : Live(e) => by_execution[e].token < next_fence)'
    BY <1>3, <1>8 DEF LedgerInv, Live, Present
  <1>12. CopySound(by_execution, outbox)'
    BY <1>9
  <1> QED BY <1>4, <1>10, <1>11, <1>12 DEF LedgerInv

-----------------------------------------------------------------------------
\* The empty ledger satisfies the inductive invariant.
LEMMA InitEstablishes == Init => IInv
  <1> SUFFICES ASSUME Init PROVE IInv
    OBVIOUS
  <1>1. AbsentRecord \in ExecutionRecord
    BY LedgerAssumption DEF AbsentRecord, ExecutionRecord
  <1>2. TypeOK
    BY <1>1 DEF Init, LedgerInit, TypeOK, LedgerTypeOK
  <1>3. CopySound(by_execution, outbox)
    BY DEF Init, LedgerInit, CopySound, RecordSound, EventsSound, Present, AbsentRecord
  <1>4. LedgerInv
    BY <1>3 DEF Init, LedgerInit, LedgerInv, OneExecutionPerKey, Live, AbsentRecord
  <1>5. CopySound(saved.records, saved.events)
    BY <1>3 DEF Init
  <1> QED BY <1>2, <1>4, <1>5 DEF IInv

\* reserve() of a fresh key.
LEMMA ReserveNewPreserves ==
    ASSUME LedgerTypeOK, LedgerInv,
           NEW e \in ExecIds, NEW k \in Keys, NEW h \in Hashes,
           ReserveNew(e, k, h)
    PROVE  LedgerTypeOK' /\ LedgerInv'
  <1> DEFINE r == [status |-> "PREPARED", key |-> k, hash |-> h,
                   token |-> next_fence, attempt |-> 0, result |-> FALSE,
                   evidence |-> FALSE, manual |-> FALSE]
  <1>1. r \in ExecutionRecord
    BY DEF LedgerTypeOK, ExecutionRecord, ExecutionStatus
  <1>2. /\ by_execution' = [by_execution EXCEPT ![e] = r]
        /\ by_idempotency' = [by_idempotency EXCEPT ![k] = e]
        /\ next_fence' = next_fence + 1
        /\ outbox' = [outbox EXCEPT ![e] = <<"EXECUTION_RESERVED">>]
        /\ by_idempotency[k] = None
        /\ ~Live(e)
    BY DEF ReserveNew
  <1>3. <<"EXECUTION_RESERVED">> \in Seq(EventTypes)
    BY DEF EventTypes
  <1>4. LedgerTypeOK'
    BY <1>1, <1>2, <1>3 DEF LedgerTypeOK
  <1>5. by_execution'[e] = r /\ outbox'[e] = <<"EXECUTION_RESERVED">>
    BY <1>2 DEF LedgerTypeOK
  <1>6. \A d \in ExecIds : d # e => /\ by_execution'[d] = by_execution[d]
                                    /\ outbox'[d] = outbox[d]
    BY <1>2 DEF LedgerTypeOK
  <1>7. RecordSound(r) /\ EventsSound(r, <<"EXECUTION_RESERVED">>)
    BY DEF RecordSound, EventsSound, Present, Told
  <1>8. \A d \in ExecIds : Live(d) => /\ by_execution[d].key # k
                                      /\ by_execution[d].token # next_fence
    BY <1>2, LedgerAssumption DEF LedgerInv, OneExecutionPerKey, LedgerTypeOK
  <1>9. CopySound(by_execution, outbox)'
    <2>1. \A d \in ExecIds : RecordSound(by_execution'[d]) /\ EventsSound(by_execution'[d], outbox'[d])
      BY <1>5, <1>6, <1>7 DEF LedgerInv, CopySound
    <2>2. r.key = k /\ r.token = next_fence
      OBVIOUS
    <2>3. ASSUME NEW d1 \in ExecIds, NEW d2 \in ExecIds,
                 Present(by_execution'[d1]), Present(by_execution'[d2]),
                 by_execution'[d1].key = by_execution'[d2].key
                   \/ by_execution'[d1].token = by_execution'[d2].token
          PROVE  d1 = d2
      <3>1. CASE d1 # e /\ d2 # e
        BY <2>3, <3>1, <1>6 DEF LedgerInv, CopySound
      <3>2. CASE d1 = e /\ d2 # e
        BY <2>2, <2>3, <3>2, <1>5, <1>6, <1>8 DEF Live, Present
      <3>3. CASE d1 # e /\ d2 = e
        BY <2>2, <2>3, <3>3, <1>5, <1>6, <1>8 DEF Live, Present
      <3> QED BY <3>1, <3>2, <3>3
    <2> QED BY <2>1, <2>3 DEF CopySound, RecordSound, EventsSound, Present
  <1>10. OneExecutionPerKey'
    <2>1. r.key = k /\ r.status # "ABSENT"
      OBVIOUS
    <2>2. ASSUME NEW c \in Keys, by_idempotency'[c] # None
          PROVE  /\ by_execution'[by_idempotency'[c]].status # "ABSENT"
                 /\ by_execution'[by_idempotency'[c]].key = c
      <3>1. CASE c = k
        BY <3>1, <2>1, <1>2, <1>5 DEF LedgerTypeOK
      <3>2. CASE c # k
        <4>1. by_idempotency'[c] = by_idempotency[c] /\ by_idempotency[c] \in ExecIds
          BY <2>2, <3>2, <1>2 DEF LedgerTypeOK
        <4>2. Live(by_idempotency[c]) /\ by_execution[by_idempotency[c]].key = c
          BY <2>2, <4>1 DEF LedgerInv, OneExecutionPerKey
        <4> QED BY <4>1, <4>2, <1>2, <1>6 DEF Live
      <3> QED BY <3>1, <3>2
    <2>3. ASSUME NEW d \in ExecIds, by_execution'[d].status # "ABSENT"
          PROVE  by_idempotency'[by_execution'[d].key] = d
      <3>1. CASE d = e
        BY <3>1, <2>1, <1>2, <1>5 DEF LedgerTypeOK
      <3>2. CASE d # e
        <4>1. by_execution'[d] = by_execution[d] /\ Live(d)
          BY <2>3, <3>2, <1>6 DEF Live
        <4>2. by_execution[d].key \in Keys
          BY DEF LedgerTypeOK, ExecutionRecord
        <4> QED BY <4>1, <4>2, <1>2, <1>8 DEF LedgerInv, OneExecutionPerKey, LedgerTypeOK
      <3> QED BY <3>1, <3>2
    <2> QED BY <2>2, <2>3 DEF OneExecutionPerKey, Live
  <1>11. (\A d \in ExecIds : Live(d) => by_execution[d].token < next_fence)'
    <2> SUFFICES ASSUME NEW d \in ExecIds, Live(d)'
                 PROVE  by_execution'[d].token < next_fence'
      OBVIOUS
    <2>1. CASE d = e
      BY <2>1, <1>2, <1>5 DEF LedgerTypeOK
    <2>2. CASE d # e
      <3>1. Live(d) /\ by_execution'[d] = by_execution[d]
        BY <2>2, <1>6 DEF Live
      <3>2. by_execution[d].token < next_fence /\ by_execution[d].token \in Nat
        BY <3>1 DEF LedgerInv, LedgerTypeOK, ExecutionRecord
      <3> QED BY <3>1, <3>2, <1>2 DEF LedgerTypeOK
    <2> QED BY <2>1, <2>2
  <1> QED BY <1>4, <1>9, <1>10, <1>11 DEF LedgerInv

\* Each fenced transition is an instance of StorePreserves.
LEMMA MarksPreserve ==
    ASSUME LedgerTypeOK, LedgerInv, NEW f \in ExecutionFence,
           \/ MarkStarted(f, Reserved) \/ MarkSucceeded(f, Reserved) \/ MarkFailed(f, Reserved)
           \/ MarkUnknown(f, Reserved) \/ MarkManualRecovery(f, Reserved)
    PROVE  LedgerTypeOK' /\ LedgerInv'
  <1> DEFINE o == by_execution[f.exec]
  <1>0. o \in ExecutionRecord /\ f.exec \in ExecIds /\ RecordSound(o)
    BY DEF LedgerTypeOK, ExecutionFence, LedgerInv, CopySound
  <1> USE DEF CanTransition
  <1>1. CASE MarkStarted(f, Reserved)
    <2> DEFINE r == [o EXCEPT !.status = "RUNNING", !.attempt = @ + 1]
    <2>1. Live(f.exec) /\ o.status = "PREPARED" /\ Store(f, Reserved, r, "EXECUTION_RUNNING")
      BY <1>1 DEF MarkStarted, CanStart
    <2>2. r \in ExecutionRecord
      <3>1. o.attempt + 1 \in Nat /\ "RUNNING" \in ExecutionStatus
        BY <1>0 DEF ExecutionRecord, ExecutionStatus
      <3> QED BY <1>0, <3>1 DEF ExecutionRecord
    <2>3. Present(r) /\ RecordSound(r) /\ r.key = o.key /\ r.token = o.token
      BY <1>0, <2>1 DEF ExecutionRecord, RecordSound, Present
    <2>4. EventFits(o, r, "EXECUTION_RUNNING")
      BY <1>0, <2>1 DEF ExecutionRecord, RecordSound, Present, EventFits, EventTypes
    <2> QED BY <2>1, <2>2, <2>3, <2>4, StorePreserves
  <1>2. CASE MarkSucceeded(f, Reserved)
    <2> DEFINE r == [o EXCEPT !.status = "SUCCEEDED", !.result = TRUE, !.evidence = TRUE]
    <2>1. Live(f.exec) /\ o.status \in {"RUNNING", "UNKNOWN"} /\ Store(f, Reserved, r, "EXECUTION_SUCCEEDED")
      BY <1>2 DEF MarkSucceeded, CanSucceed
    <2>2. r \in ExecutionRecord
      BY <1>0 DEF ExecutionRecord, ExecutionStatus
    <2>3. Present(r) /\ RecordSound(r) /\ r.key = o.key /\ r.token = o.token
      BY <1>0, <2>1 DEF ExecutionRecord, RecordSound, Present
    <2>4. EventFits(o, r, "EXECUTION_SUCCEEDED")
      BY <1>0, <2>1 DEF ExecutionRecord, RecordSound, Present, EventFits, EventTypes
    <2> QED BY <2>1, <2>2, <2>3, <2>4, StorePreserves
  <1>3. CASE MarkFailed(f, Reserved)
    <2> DEFINE r == [o EXCEPT !.status = "FAILED"]
    <2>1. Live(f.exec) /\ o.status \in {"PREPARED", "RUNNING"} /\ Store(f, Reserved, r, "EXECUTION_FAILED")
      BY <1>3 DEF MarkFailed, CanFail
    <2>2. r \in ExecutionRecord
      BY <1>0 DEF ExecutionRecord, ExecutionStatus
    <2>3. Present(r) /\ RecordSound(r) /\ r.key = o.key /\ r.token = o.token
      BY <1>0, <2>1 DEF ExecutionRecord, RecordSound, Present
    <2>4. EventFits(o, r, "EXECUTION_FAILED")
      BY <1>0, <2>1 DEF ExecutionRecord, RecordSound, Present, EventFits, EventTypes
    <2> QED BY <2>1, <2>2, <2>3, <2>4, StorePreserves
  <1>4. CASE MarkUnknown(f, Reserved)
    <2> DEFINE r == [o EXCEPT !.status = "UNKNOWN"]
    <2>1. Live(f.exec) /\ o.status = "RUNNING" /\ Store(f, Reserved, r, "EXECUTION_UNKNOWN")
      BY <1>4 DEF MarkUnknown, CanBecomeUnknown
    <2>2. r \in ExecutionRecord
      BY <1>0 DEF ExecutionRecord, ExecutionStatus
    <2>3. Present(r) /\ RecordSound(r) /\ r.key = o.key /\ r.token = o.token
      BY <1>0, <2>1 DEF ExecutionRecord, RecordSound, Present
    <2>4. EventFits(o, r, "EXECUTION_UNKNOWN")
      BY <1>0, <2>1 DEF ExecutionRecord, RecordSound, Present, EventFits, EventTypes
    <2> QED BY <2>1, <2>2, <2>3, <2>4, StorePreserves
  <1>5. CASE MarkManualRecovery(f, Reserved)
    <2>1. Live(f.exec) /\ o.status \in {"RUNNING", "UNKNOWN", "COMPENSATION_FAILED"}
      BY <1>5 DEF MarkManualRecovery, CanEscalate
    <2>2. CASE Store(f, Reserved, [o EXCEPT !.status = "UNKNOWN", !.manual = TRUE], "EXECUTION_UNKNOWN")
      <3> DEFINE r == [o EXCEPT !.status = "UNKNOWN", !.manual = TRUE]
      <3>1. r \in ExecutionRecord
        BY <1>0 DEF ExecutionRecord, ExecutionStatus
      <3>2. Present(r) /\ RecordSound(r) /\ r.key = o.key /\ r.token = o.token
        BY <1>0, <2>1, <2>2 DEF ExecutionRecord, RecordSound, Present
      <3>3. EventFits(o, r, "EXECUTION_UNKNOWN")
        BY <1>0, <2>1 DEF ExecutionRecord, RecordSound, Present, EventFits, EventTypes
      <3> QED BY <2>1, <2>2, <3>1, <3>2, <3>3, StorePreserves
    <2>3. CASE Store(f, Reserved, [o EXCEPT !.manual = TRUE], "MANUAL_RECOVERY_REQUIRED")
      <3> DEFINE r == [o EXCEPT !.manual = TRUE]
      <3>1. r \in ExecutionRecord
        BY <1>0 DEF ExecutionRecord
      <3>2. Present(r) /\ RecordSound(r) /\ r.key = o.key /\ r.token = o.token
        BY <1>0, <2>1 DEF ExecutionRecord, RecordSound, Present
      <3>3. EventFits(o, r, "MANUAL_RECOVERY_REQUIRED")
        BY <1>0, <2>1 DEF ExecutionRecord, RecordSound, Present, EventFits, EventTypes
      <3> QED BY <2>1, <2>3, <3>1, <3>2, <3>3, StorePreserves
    <2> QED BY <1>5, <2>1, <2>2, <2>3 DEF MarkManualRecovery
  <1> QED BY <1>1, <1>2, <1>3, <1>4, <1>5

\* from_snapshot: the rebuilt index and the restarted counter fit the copy.
LEMMA RestorePreserves ==
    ASSUME IInv, Restore
    PROVE  LedgerTypeOK' /\ LedgerInv'
  <1> DEFINE recs == saved.records
  <1>1. recs \in [ExecIds -> ExecutionRecord] /\ saved.events \in [ExecIds -> Seq(EventTypes)]
    BY DEF IInv, TypeOK
  <1>2. PICK n \in 1 .. MaxFence : FenceAbove(recs, n) /\ next_fence' = n
    BY DEF Restore
  <1>3. /\ by_execution' = recs
        /\ outbox' = saved.events
        /\ by_idempotency' = RebuiltIndex(recs)
    BY DEF Restore
  <1>4. \A k \in Keys :
          \/ /\ RebuiltIndex(recs)[k] \in ExecIds
             /\ recs[RebuiltIndex(recs)[k]].status # "ABSENT"
             /\ recs[RebuiltIndex(recs)[k]].key = k
          \/ /\ RebuiltIndex(recs)[k] = None
             /\ \A e \in ExecIds : recs[e].status # "ABSENT" => recs[e].key # k
    BY DEF RebuiltIndex
  <1>5. RebuiltIndex(recs) \in [Keys -> ExecIds \cup {None}]
    BY <1>4 DEF RebuiltIndex
  <1>6. n \in Nat
    BY <1>2, MaxFenceAssumption
  <1>7. LedgerTypeOK'
    BY <1>1, <1>2, <1>3, <1>5, <1>6 DEF LedgerTypeOK
  <1>8. CopySound(recs, saved.events)
    BY DEF IInv
  <1>9. OneExecutionPerKey'
    <2>1. ASSUME NEW k \in Keys, RebuiltIndex(recs)[k] # None
          PROVE  /\ recs[RebuiltIndex(recs)[k]].status # "ABSENT"
                 /\ recs[RebuiltIndex(recs)[k]].key = k
      BY <2>1, <1>4
    <2>2. ASSUME NEW e \in ExecIds, recs[e].status # "ABSENT"
          PROVE  RebuiltIndex(recs)[recs[e].key] = e
      <3>1. recs[e].key \in Keys
        BY <1>1 DEF ExecutionRecord
      <3>2. /\ RebuiltIndex(recs)[recs[e].key] \in ExecIds
            /\ recs[RebuiltIndex(recs)[recs[e].key]].status # "ABSENT"
            /\ recs[RebuiltIndex(recs)[recs[e].key]].key = recs[e].key
        BY <2>2, <3>1, <1>4
      <3> QED BY <2>2, <3>2, <1>8 DEF CopySound, Present
    <2> QED BY <2>1, <2>2, <1>3 DEF OneExecutionPerKey, Live
  <1>10. (\A e \in ExecIds : Live(e) => by_execution[e].token < next_fence)'
    BY <1>2, <1>3 DEF FenceAbove, Live
  <1> QED BY <1>3, <1>7, <1>8, <1>9, <1>10 DEF LedgerInv, CopySound, RecordSound, EventsSound, Present

\* Steps that touch none of the ledger's state keep what holds of it.
LEMMA LedgerUnchanged ==
    ASSUME LedgerTypeOK, LedgerInv, UNCHANGED ledgerVars
    PROVE  LedgerTypeOK' /\ LedgerInv'
  BY DEF ledgerVars, LedgerTypeOK, LedgerInv, CopySound, RecordSound, EventsSound,
         Present, OneExecutionPerKey, Live

\* A step that takes no snapshot keeps the saved copy sound.
LEMMA SavedUnchanged ==
    ASSUME CopySound(saved.records, saved.events), UNCHANGED saved
    PROVE  CopySound(saved.records, saved.events)'
  BY DEF CopySound, RecordSound, EventsSound, Present

\* Every step of a caller, of the scanner or of a restart keeps the inductive
\* invariant.
LEMMA StepPreserves == IInv /\ [Next]_vars => IInv'
  <1> SUFFICES ASSUME IInv, [Next]_vars PROVE IInv'
    OBVIOUS
  <1> DEFINE savedType == saved \in [records : [ExecIds -> ExecutionRecord],
                                     events : [ExecIds -> Seq(EventTypes)]]
  <1>0. /\ LedgerTypeOK /\ LedgerInv /\ savedType
        /\ issued \in SUBSET ExecutionFence /\ scan \in SUBSET ScanEntry
        /\ CopySound(saved.records, saved.events)
    BY DEF IInv, TypeOK
  <1>1. ASSUME NEW e \in ExecIds, NEW k \in Keys, NEW h \in Hashes, Reserve(e, k, h)
        PROVE  IInv'
    <2>1. LedgerTypeOK' /\ LedgerInv'
      BY <1>0, <1>1, ReserveNewPreserves DEF Reserve
    <2>2. issued' \in SUBSET ExecutionFence
      BY <1>0, <1>1 DEF Reserve, ExecutionFence, LedgerTypeOK
    <2>3. UNCHANGED saved /\ UNCHANGED scan
      BY <1>1 DEF Reserve
    <2> QED BY <1>0, <2>1, <2>2, <2>3, SavedUnchanged DEF IInv, TypeOK
  <1>2. ASSUME NEW k \in Keys, ReserveFails(k)
        PROVE  IInv'
    <2>1. /\ UNCHANGED <<by_execution, by_idempotency, outbox, issued, saved, scan>>
          /\ next_fence' = next_fence + 1
      BY <1>2 DEF ReserveFails, ReserveAborted
    <2>2. LedgerTypeOK'
      BY <1>0, <2>1 DEF LedgerTypeOK
    <2>3. CopySound(by_execution, outbox)' /\ OneExecutionPerKey'
      BY <1>0, <2>1 DEF LedgerInv, CopySound, RecordSound, EventsSound, Present,
                        OneExecutionPerKey, Live
    <2>4. (\A e \in ExecIds : Live(e) => by_execution[e].token < next_fence)'
      BY <1>0, <2>1 DEF LedgerInv, Live, LedgerTypeOK, ExecutionRecord
    <2> QED BY <1>0, <2>1, <2>2, <2>3, <2>4, SavedUnchanged DEF IInv, TypeOK, LedgerInv
  <1>3. ASSUME NEW f \in issued, Mark(f)
        PROVE  IInv'
    <2>1. LedgerTypeOK' /\ LedgerInv'
      BY <1>0, <1>3, MarksPreserve DEF Mark
    <2>2. UNCHANGED <<issued, saved, scan>>
      BY <1>3 DEF Mark
    <2> QED BY <1>0, <2>1, <2>2, SavedUnchanged DEF IInv, TypeOK
  <1>4. CASE Snapshot
    <2>1. UNCHANGED ledgerVars /\ UNCHANGED issued /\ UNCHANGED scan
      BY <1>4 DEF Snapshot, ledgerVars
    <2>2. saved' = [records |-> by_execution, events |-> outbox]
      BY <1>4 DEF Snapshot
    <2>3. LedgerTypeOK' /\ LedgerInv'
      BY <1>0, <2>1, LedgerUnchanged
    <2>4. CopySound(saved.records, saved.events)'
      BY <1>0, <2>2 DEF LedgerInv, CopySound, RecordSound, EventsSound, Present
    <2>5. savedType'
      BY <1>0, <2>2 DEF LedgerTypeOK
    <2> QED BY <1>0, <2>1, <2>3, <2>4, <2>5 DEF IInv, TypeOK
  <1>5. CASE Restore
    <2>1. LedgerTypeOK' /\ LedgerInv'
      BY <1>5, RestorePreserves
    <2>2. UNCHANGED issued /\ UNCHANGED saved /\ scan' = {}
      BY <1>5 DEF Restore
    <2> QED BY <1>0, <2>1, <2>2, SavedUnchanged DEF IInv, TypeOK
  <1>6. CASE ScanBegin
    <2>1. UNCHANGED ledgerVars /\ UNCHANGED issued /\ UNCHANGED saved
      BY <1>6 DEF ScanBegin, ledgerVars
    <2>2. scan' \in SUBSET ScanEntry
      BY <1>0, <1>6 DEF ScanBegin, ScanEntry, LedgerTypeOK, ExecutionRecord
    <2>3. LedgerTypeOK' /\ LedgerInv'
      BY <1>0, <2>1, LedgerUnchanged
    <2> QED BY <1>0, <2>1, <2>2, <2>3, SavedUnchanged DEF IInv, TypeOK
  <1>7. ASSUME NEW r \in scan, ScanStep(r)
        PROVE  IInv'
    <2>1. EntryFence(r) \in ExecutionFence
      BY <1>0 DEF EntryFence, ScanEntry, ExecutionFence
    <2>2. UNCHANGED issued /\ UNCHANGED saved /\ scan' \in SUBSET ScanEntry
      BY <1>0, <1>7 DEF ScanStep, ScanSucceeded, ScanFailed, ScanManual, ScanSkips, ScanAborts
    <2>3. \/ \/ MarkStarted(EntryFence(r), Reserved) \/ MarkSucceeded(EntryFence(r), Reserved)
             \/ MarkFailed(EntryFence(r), Reserved) \/ MarkUnknown(EntryFence(r), Reserved)
             \/ MarkManualRecovery(EntryFence(r), Reserved)
          \/ UNCHANGED ledgerVars
      BY <1>7 DEF ScanStep, ScanSucceeded, ScanFailed, ScanManual, ScanSkips, ScanAborts
    <2>4. LedgerTypeOK' /\ LedgerInv'
      BY <1>0, <2>1, <2>3, MarksPreserve, LedgerUnchanged
    <2> QED BY <1>0, <2>2, <2>4, SavedUnchanged DEF IInv, TypeOK
  <1>8. CASE UNCHANGED vars
    <2>1. UNCHANGED ledgerVars /\ UNCHANGED <<issued, saved, scan>>
      BY <1>8 DEF vars, ledgerVars
    <2> QED BY <1>0, <2>1, LedgerUnchanged, SavedUnchanged DEF IInv, TypeOK
  <1> QED BY <1>1, <1>2, <1>3, <1>4, <1>5, <1>6, <1>7, <1>8 DEF Next

-----------------------------------------------------------------------------
\* The inductive invariant holds of every reachable state of the ledger.
THEOREM LedgerInductive == Spec => []IInv
  BY InitEstablishes, StepPreserves, PTL DEF Spec

\* Type correctness of the ledger, its index, its outbox and its callers.
THEOREM LedgerTypeCorrect == Spec => []TypeOK
  <1>1. IInv => TypeOK
    BY DEF IInv
  <1> QED BY <1>1, LedgerInductive, PTL

\* A key never owns two executions, whichever callers race, retry or restart.
THEOREM LedgerOneExecutionPerKey == Spec => []OneExecutionPerKey
  <1>1. IInv => OneExecutionPerKey
    BY DEF IInv, LedgerInv
  <1> QED BY <1>1, LedgerInductive, PTL

\* Fence tokens identify the executions the ledger knows, also after a restart
\* from an old snapshot.
THEOREM LedgerFencesDistinct == Spec => []FencesDistinct
  <1>1. IInv => FencesDistinct
    BY DEF IInv, LedgerInv, CopySound, FencesDistinct, Live, Present
  <1> QED BY <1>1, LedgerInductive, PTL

\* An execution is started at most once, and every outcome belongs to a start.
THEOREM LedgerStartedAtMostOnce == Spec => []StartedAtMostOnce
  <1>1. IInv => StartedAtMostOnce
    BY DEF IInv, LedgerInv, CopySound, RecordSound, StartedAtMostOnce, Live, Present
  <1> QED BY <1>1, LedgerInductive, PTL

\* Result and evidence are recorded exactly with success.
THEOREM LedgerSuccessCarriesEvidence == Spec => []SuccessCarriesEvidence
  <1>1. IInv => SuccessCarriesEvidence
    BY DEF IInv, LedgerInv, CopySound, RecordSound, SuccessCarriesEvidence
  <1> QED BY <1>1, LedgerInductive, PTL

\* What the events of an execution tell of its outcome is so, whichever began
\* first of the transactions that wrote them.
THEOREM LedgerEventsTellOutcome == Spec => []EventsTellOutcome
  <1>1. IInv => EventsTellOutcome
    <2> SUFFICES ASSUME IInv, NEW e \in ExecIds, Live(e)
                 PROVE  /\ StatusEventFact(e) = "EXECUTION_RESERVED"
                             <=> by_execution[e].status = "PREPARED"
                        /\ \A type : type \in ToSet(outbox[e]) <=> Told(outbox[e], type)
                        /\ EventsSound(by_execution[e], outbox[e]) /\ Present(by_execution[e])
      BY DEF EventsTellOutcome, EventsSound
    <2>1. /\ EventsSound(by_execution[e], outbox[e]) /\ Present(by_execution[e])
          /\ outbox[e] \in Seq(EventTypes)
      BY DEF IInv, LedgerInv, CopySound, Live, Present, TypeOK, LedgerTypeOK
    <2>2. \A type : type \in ToSet(outbox[e]) <=> Told(outbox[e], type)
      BY <2>1 DEF ToSet, Told
    <2>3. /\ Len(outbox[e]) = 1 => StatusEventFact(e) = "EXECUTION_RESERVED"
          /\ Len(outbox[e]) # 1 => StatusEventFact(e) # "EXECUTION_RESERVED"
      <3>1. PICK n \in Nat : n = Len(outbox[e])
        BY <2>1
      <3>2. /\ n >= 1 /\ outbox[e][1] = "EXECUTION_RESERVED"
            /\ \A i \in 2 .. n : outbox[e][i] # "EXECUTION_RESERVED"
        BY <2>1, <3>1 DEF EventsSound
      <3>3. n # 1 => n \in 2 .. n
        BY <3>2
      <3>4. StatusEventFact(e) = outbox[e][n]
        BY <3>1 DEF StatusEventFact
      <3> QED BY <3>1, <3>2, <3>3, <3>4
    <2> QED BY <2>1, <2>2, <2>3 DEF EventsSound
  <1> QED BY <1>1, LedgerInductive, PTL

-----------------------------------------------------------------------------
\* What one step does to one record, if it is not a restart.
FinalAndUnknownKept ==
    \A e \in ExecIds :
        /\ by_execution[e].status \in {"SUCCEEDED", "FAILED"}
              => by_execution'[e] = by_execution[e]
        /\ by_execution[e].status = "UNKNOWN"
              => by_execution'[e].status \in {"UNKNOWN", "SUCCEEDED"}

\* No fenced transition changes a final record or fails an UNKNOWN one.
LEMMA MarksKeep ==
    ASSUME LedgerTypeOK, LedgerInv, NEW f \in ExecutionFence,
           \/ MarkStarted(f, Reserved) \/ MarkSucceeded(f, Reserved) \/ MarkFailed(f, Reserved)
           \/ MarkUnknown(f, Reserved) \/ MarkManualRecovery(f, Reserved)
    PROVE  FinalAndUnknownKept
  <1> USE DEF CanTransition, Store, LedgerTypeOK, ExecutionFence, FinalAndUnknownKept,
              ExecutionRecord
  <1>1. CASE MarkStarted(f, Reserved)
    BY <1>1 DEF MarkStarted, CanStart
  <1>2. CASE MarkSucceeded(f, Reserved)
    BY <1>2 DEF MarkSucceeded, CanSucceed
  <1>3. CASE MarkFailed(f, Reserved)
    BY <1>3 DEF MarkFailed, CanFail
  <1>4. CASE MarkUnknown(f, Reserved)
    BY <1>4 DEF MarkUnknown, CanBecomeUnknown
  <1>5. CASE MarkManualRecovery(f, Reserved)
    <2>1. /\ f.exec \in ExecIds
          /\ by_execution[f.exec].status \in {"RUNNING", "UNKNOWN", "COMPENSATION_FAILED"}
          /\ by_execution[f.exec] \in ExecutionRecord
      BY <1>5 DEF MarkManualRecovery, CanEscalate
    <2>2. \A e \in ExecIds : e # f.exec => by_execution'[e] = by_execution[e]
      BY <1>5, <2>1 DEF MarkManualRecovery
    <2>3. by_execution[f.exec].status = "UNKNOWN" => by_execution'[f.exec].status = "UNKNOWN"
      <3>1. CASE by_execution' = [by_execution EXCEPT ![f.exec] =
                    [by_execution[f.exec] EXCEPT !.status = "UNKNOWN", !.manual = TRUE]]
        BY <2>1, <3>1
      <3>2. CASE by_execution' = [by_execution EXCEPT ![f.exec] =
                    [by_execution[f.exec] EXCEPT !.manual = TRUE]]
        BY <2>1, <3>2
      <3> QED BY <1>5, <3>1, <3>2 DEF MarkManualRecovery
    <2> QED BY <2>1, <2>2, <2>3
  <1> QED BY <1>1, <1>2, <1>3, <1>4, <1>5

\* Nor does any other step but a restart from a snapshot.
LEMMA StepKeeps ==
    ASSUME IInv, [Next]_vars, ~Restore
    PROVE  FinalAndUnknownKept
  <1>0. /\ LedgerTypeOK /\ LedgerInv
        /\ issued \in SUBSET ExecutionFence /\ scan \in SUBSET ScanEntry
    BY DEF IInv, TypeOK
  <1>1. ASSUME NEW e \in ExecIds, NEW k \in Keys, NEW h \in Hashes, Reserve(e, k, h)
        PROVE  FinalAndUnknownKept
    BY <1>0, <1>1 DEF Reserve, ReserveNew, FinalAndUnknownKept, LedgerTypeOK, Live
  <1>2. ASSUME NEW f \in issued, Mark(f)
        PROVE  FinalAndUnknownKept
    BY <1>0, <1>2, MarksKeep DEF Mark
  <1>3. ASSUME NEW r \in scan, ScanStep(r)
        PROVE  FinalAndUnknownKept
    <2>1. EntryFence(r) \in ExecutionFence
      BY <1>0 DEF EntryFence, ScanEntry, ExecutionFence
    <2>2. \/ \/ MarkSucceeded(EntryFence(r), Reserved) \/ MarkFailed(EntryFence(r), Reserved)
             \/ MarkManualRecovery(EntryFence(r), Reserved)
          \/ UNCHANGED by_execution
      BY <1>3 DEF ScanStep, ScanSucceeded, ScanFailed, ScanManual, ScanSkips, ScanAborts, ledgerVars
    <2>3. UNCHANGED by_execution => FinalAndUnknownKept
      BY DEF FinalAndUnknownKept
    <2> QED BY <1>0, <2>1, <2>2, <2>3, MarksKeep
  <1>4. CASE Snapshot \/ ScanBegin \/ (\E k \in Keys : ReserveFails(k)) \/ UNCHANGED vars
    BY <1>4 DEF Snapshot, ScanBegin, ReserveFails, ReserveAborted, vars, FinalAndUnknownKept
  <1> QED BY <1>1, <1>2, <1>3, <1>4 DEF Next

\* A SUCCEEDED or FAILED record never changes again, except by a restart from
\* a snapshot taken before it became final.
THEOREM LedgerTerminalIsFinal == Spec => TerminalIsFinal
  <1>1. IInv /\ [Next]_vars =>
          [ ~Restore => \A e \in ExecIds :
              by_execution[e].status \in {"SUCCEEDED", "FAILED"}
                 => by_execution'[e] = by_execution[e] ]_vars
    BY StepKeeps DEF FinalAndUnknownKept
  <1> QED BY <1>1, LedgerInductive, PTL DEF Spec, TerminalIsFinal

\* An UNKNOWN record is never turned into a FAILED one.
THEOREM LedgerUnknownNeverFails == Spec => UnknownNeverFails
  <1>1. IInv /\ [Next]_vars =>
          [ ~Restore => \A e \in ExecIds :
              by_execution[e].status = "UNKNOWN"
                 => by_execution'[e].status \in {"UNKNOWN", "SUCCEEDED"} ]_vars
    BY StepKeeps DEF FinalAndUnknownKept
  <1> QED BY <1>1, LedgerInductive, PTL DEF Spec, UnknownNeverFails
=============================================================================
