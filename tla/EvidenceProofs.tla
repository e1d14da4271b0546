--------------------------- MODULE EvidenceProofs ---------------------------
(***************************************************************************)
(* Safety of the evidence chain and of the delivery of decisions to it,    *)
(* for any set of decisions, alerts and workers and any number of faults.  *)
(*                                                                         *)
(* The chain grows by one transaction at a time, the holder of the         *)
(* advisory lock; the head that it reads is the head it extends, because   *)
(* nobody else writes the head, and its event is new, because nobody else  *)
(* appends.  A worker's answer is evidence of an append that is never      *)
(* undone, so it may settle its row however late it comes.                 *)
(***************************************************************************)
EXTENDS EvidenceDelivery, SequenceTheorems, TLAPS

Row == [event : Events, previous : Seq(Events)]
Writer == [op : {"append", "package"}, event : Events \cup {NoOne},
           pc : {"begun", "head_read", "chain_read"}, previous : Seq(Events), read : Seq(Events)]
Evaluator == [pc : {"requested", "locked", "chain_read", "executions_read"},
              expected : Seq(Events), read : Seq(Events),
              found : SUBSET Executions, succeeded : SUBSET Executions]
ExecutionStatuses == {"ABSENT", "PREPARED", "RUNNING", "SUCCEEDED", "FAILED", "UNKNOWN"}
OutboxRow == [state : {"undecided", "pending", "delivered"},
              owner : Workers \cup {NoOne}, live : BOOLEAN]
Delivery == {Idle} \cup [pc : {"sent", "answered", "failed"}, item : Decisions]

ChainTypeOK ==
    /\ chain \in Seq(Row)
    /\ head \in Seq(Events)
    /\ writer # NoOne => writer \in Writer
    /\ evaluator # NoOne => evaluator \in Evaluator
    /\ executions \in [Executions -> ExecutionStatuses]

DeliveryTypeOK ==
    /\ outbox \in [Decisions -> OutboxRow]
    /\ worker \in [Workers -> Delivery]
    /\ net \subseteq Decisions

\* The head covers the rows, every row covers those before it, no event is met twice.
ChainSound ==
    /\ Ids(chain) = head
    /\ \A i \in 1 .. Len(chain) : chain[i].previous = SubSeq(Ids(chain), 1, i - 1)
    /\ \A i, j \in 1 .. Len(chain) : chain[i].event = chain[j].event => i = j

\* The holder of the advisory lock brings a new event, and what it has read of the
\* head and of the events is what they are.
WriterSound ==
    writer # NoOne =>
        /\ writer.op = "append" => writer.event \in Events \ Appended
        /\ writer.pc # "begun" => writer.previous = head
        /\ writer.pc = "chain_read" => writer.read = head

AppendHoldsHead == writer # NoOne /\ writer.op = "append" /\ writer.pc = "head_read"

\* An evaluation that holds the head's row has the present head, and no append is
\* between its reading of the head and its commit.
LockedHeadStands == HeadShared => evaluator.expected = head /\ ~AppendHoldsHead

\* The events an evaluation has read are the chain, and the executions that it found
\* succeeded still are.
EvaluatorSound ==
    evaluator # NoOne =>
        /\ evaluator.pc \in {"chain_read", "executions_read"} => evaluator.read = head
        /\ \A x \in evaluator.succeeded : executions[x] = "SUCCEEDED"

\* What a worker or the outbox knows to be in the chain is in the chain.
DeliverySound ==
    /\ \A w \in Workers : worker[w].pc = "answered" => worker[w].item \in Appended
    /\ \A d \in Decisions : outbox[d].state = "delivered" => d \in Appended

ChainPart == ChainTypeOK /\ ChainSound /\ WriterSound /\ LockedHeadStands /\ EvaluatorSound
DeliveryPart == DeliveryTypeOK /\ DeliverySound

IInv == ChainPart /\ DeliveryPart

-----------------------------------------------------------------------------
(* The rows and their events *)

\* Ids is the sequence of the events of the rows.
LEMMA IdsOfRows ==
  ASSUME NEW rows \in Seq(Row)
  PROVE  /\ Ids(rows) \in Seq(Events) /\ Len(Ids(rows)) = Len(rows)
         /\ \A i \in 1 .. Len(rows) : Ids(rows)[i] = rows[i].event
         /\ Range(Ids(rows)) = {rows[i].event : i \in 1 .. Len(rows)}
  <1>1. \A i \in 1 .. Len(rows) : rows[i].event \in Events
    <2>1. \A i \in 1 .. Len(rows) : rows[i] \in Row
      BY ElementOfSeq
    <2> QED
      BY <2>1 DEF Row
  <1>2. Len(rows) \in Nat
    OBVIOUS
  <1>3. Ids(rows) \in Seq(Events) /\ Len(Ids(rows)) = Len(rows)
    BY <1>1, <1>2 DEF Ids
  <1>4. /\ DOMAIN Ids(rows) = 1 .. Len(rows)
        /\ \A i \in 1 .. Len(rows) : Ids(rows)[i] = rows[i].event
    BY DEF Ids
  <1> QED
    BY <1>3, <1>4 DEF Range

\* One more row, one more event.
LEMMA IdsOfAppend ==
  ASSUME NEW rows \in Seq(Row), NEW row \in Row
  PROVE  Ids(Append(rows, row)) = Append(Ids(rows), row.event)
  <1>1. /\ Ids(rows) \in Seq(Events) /\ Len(Ids(rows)) = Len(rows)
        /\ \A i \in 1 .. Len(rows) : Ids(rows)[i] = rows[i].event
    BY IdsOfRows
  <1>2. row.event \in Events /\ Len(rows) \in Nat
    BY DEF Row
  <1>3. /\ Append(rows, row) \in Seq(Row) /\ Len(Append(rows, row)) = Len(rows) + 1
        /\ \A i \in 1 .. Len(rows) : Append(rows, row)[i] = rows[i]
        /\ Append(rows, row)[Len(rows) + 1] = row
    BY AppendProperties
  <1>4. /\ Ids(Append(rows, row)) \in Seq(Events)
        /\ Len(Ids(Append(rows, row))) = Len(rows) + 1
        /\ \A i \in 1 .. Len(rows) + 1 : Ids(Append(rows, row))[i] = Append(rows, row)[i].event
    BY <1>3, IdsOfRows
  <1>5. /\ Append(Ids(rows), row.event) \in Seq(Events)
        /\ Len(Append(Ids(rows), row.event)) = Len(rows) + 1
        /\ \A i \in 1 .. Len(rows) : Append(Ids(rows), row.event)[i] = Ids(rows)[i]
        /\ Append(Ids(rows), row.event)[Len(rows) + 1] = row.event
    BY <1>1, <1>2, AppendProperties
  <1>6. ASSUME NEW i \in 1 .. Len(rows) + 1
        PROVE  Ids(Append(rows, row))[i] = Append(Ids(rows), row.event)[i]
    <2>1. CASE i \in 1 .. Len(rows)
      <3>1. Ids(Append(rows, row))[i] = rows[i].event
        BY <1>3, <1>4, <2>1
      <3> QED
        BY <1>1, <1>5, <2>1, <3>1
    <2>2. CASE i = Len(rows) + 1
      BY <1>3, <1>4, <1>5, <2>2
    <2>3. i \in 1 .. Len(rows) \/ i = Len(rows) + 1
      BY <1>2
    <2> QED
      BY <2>1, <2>2, <2>3
  <1> QED
    BY <1>4, <1>5, <1>6, SeqEqual

\* A prefix of a sequence is a prefix of its extension.
LEMMA PrefixOfAppend ==
  ASSUME NEW s \in Seq(Events), NEW e \in Events, NEW n \in 0 .. Len(s)
  PROVE  SubSeq(Append(s, e), 1, n) = SubSeq(s, 1, n)
  <1>1. Append(s, e) = s \o <<e>> /\ <<e>> \in Seq(Events)
    BY AppendIsConcat
  <1>2. CASE n = 0
    BY <1>1, <1>2, SubSeqEmpty, AppendProperties
  <1>3. CASE n # 0
    BY <1>1, <1>3, SubSeqOfConcat1
  <1> QED
    BY <1>2, <1>3

-----------------------------------------------------------------------------
(* The chain *)

\* The chain, its head, its two transactions and the executions are left alone.
LEMMA ChainRests ==
  ASSUME ChainPart, UNCHANGED <<chain, head, writer, evaluator, executions>>
  PROVE  ChainPart' /\ Appended' = Appended
  <1>1. Ids(chain)' = Ids(chain)
    BY DEF Ids
  <1> QED
    BY <1>1 DEF ChainPart, ChainTypeOK, ChainSound, WriterSound, LockedHeadStands, HeadShared,
                AppendHoldsHead, EvaluatorSound, Appended

\* The transaction that holds the advisory lock changes, the chain does not.
LEMMA WriterMoves ==
  ASSUME ChainPart, UNCHANGED <<chain, head, evaluator, executions>>,
         writer' # NoOne =>
           /\ writer' \in Writer
           /\ writer'.op = "append" => writer'.event \in Events \ Appended
           /\ writer'.pc # "begun" => writer'.previous = head
           /\ writer'.pc = "chain_read" => writer'.read = head,
         AppendHoldsHead' => ~HeadShared
  PROVE  ChainPart' /\ Appended' = Appended
  <1>1. Ids(chain)' = Ids(chain) /\ Appended' = Appended
    BY DEF Ids, Appended
  <1>2. ChainTypeOK'
    BY DEF ChainPart, ChainTypeOK
  <1>3. ChainSound'
    BY <1>1 DEF ChainPart, ChainSound
  <1>4. WriterSound'
    BY <1>1 DEF WriterSound
  <1>5. LockedHeadStands' /\ EvaluatorSound'
    BY DEF ChainPart, LockedHeadStands, HeadShared, EvaluatorSound
  <1> QED
    BY <1>1, <1>2, <1>3, <1>4, <1>5 DEF ChainPart

\* The evaluation changes, the chain does not.
LEMMA EvaluatorMoves ==
  ASSUME ChainPart, UNCHANGED <<chain, head, writer, executions>>,
         evaluator' # NoOne =>
           /\ evaluator' \in Evaluator
           /\ evaluator'.pc # "requested" => evaluator'.expected = head /\ ~AppendHoldsHead
           /\ evaluator'.pc \in {"chain_read", "executions_read"} => evaluator'.read = head
           /\ \A x \in evaluator'.succeeded : executions[x] = "SUCCEEDED"
  PROVE  ChainPart' /\ Appended' = Appended
  <1>1. Ids(chain)' = Ids(chain) /\ Appended' = Appended
    BY DEF Ids, Appended
  <1>2. ChainTypeOK'
    BY DEF ChainPart, ChainTypeOK
  <1>3. ChainSound' /\ WriterSound'
    BY <1>1 DEF ChainPart, ChainSound, WriterSound
  <1>4. LockedHeadStands'
    BY DEF LockedHeadStands, HeadShared, AppendHoldsHead
  <1>5. EvaluatorSound'
    BY DEF EvaluatorSound
  <1> QED
    BY <1>1, <1>2, <1>3, <1>4, <1>5 DEF ChainPart

\* An event that is new takes the advisory lock.
LEMMA BeginPreserves ==
  ASSUME ChainPart, NEW e \in Events, AppendBegin(e)
  PROVE  ChainPart' /\ Appended' = Appended
  <1> DEFINE w == [op |-> "append", event |-> e, pc |-> "begun", previous |-> <<>>,
                   read |-> <<>>]
  <1>1. w \in Writer /\ w.op = "append" /\ w.event = e /\ w.pc = "begun"
    BY EmptySeq DEF Writer
  <1>2. writer' = w /\ e \notin Appended /\ UNCHANGED <<chain, head, evaluator, executions>>
    BY DEF AppendBegin
  <1> HIDE DEF w
  <1>3. ~AppendHoldsHead'
    BY <1>1, <1>2 DEF AppendHoldsHead
  <1> QED
    BY <1>1, <1>2, <1>3, WriterMoves

\* The head is read for update.
LEMMA ReadHeadPreserves ==
  ASSUME ChainPart, AppendReadHead
  PROVE  ChainPart' /\ Appended' = Appended
  <1> DEFINE w == [writer EXCEPT !.pc = "head_read", !.previous = head]
  <1>1. writer \in Writer /\ head \in Seq(Events) /\ writer.event \in Events \ Appended
    BY DEF ChainPart, ChainTypeOK, WriterSound, AppendReadHead
  <1>2. w \in Writer /\ w.event = writer.event /\ w.previous = head /\ w.pc = "head_read"
    BY <1>1 DEF Writer
  <1>3. writer' = w /\ UNCHANGED <<chain, head, evaluator, executions>> /\ ~HeadShared
    BY DEF AppendReadHead
  <1> HIDE DEF w
  <1> QED
    BY <1>1, <1>2, <1>3, WriterMoves

\* The event is appended: it links to the head that the rows had.
LEMMA CommitPreserves ==
  ASSUME ChainPart, AppendCommit
  PROVE  ChainPart' /\ Appended \subseteq Appended'
  <1> DEFINE row == [event |-> writer.event, previous |-> writer.previous]
             n == Len(chain)
  <1>1. /\ chain \in Seq(Row) /\ head \in Seq(Events) /\ Ids(chain) = head
        /\ writer.event \in Events \ Appended /\ writer.previous = head
    BY DEF ChainPart, ChainTypeOK, ChainSound, WriterSound, AppendCommit
  <1>2. row \in Row /\ row.event = writer.event /\ row.previous = head
    BY <1>1 DEF Row
  <1>3. /\ chain' = Append(chain, row) /\ head' = Append(head, row.event)
        /\ writer' = NoOne /\ evaluator' = evaluator /\ executions' = executions
    BY <1>1, <1>2 DEF AppendCommit
  <1> HIDE DEF row, n
  <1>4. /\ n \in Nat /\ Len(head) = n
        /\ \A i \in 1 .. n : head[i] = chain[i].event
        /\ Appended = {chain[i].event : i \in 1 .. n}
    BY <1>1, IdsOfRows DEF Appended, n
  <1>5. /\ chain' \in Seq(Row) /\ Len(chain') = n + 1
        /\ \A i \in 1 .. n : chain'[i] = chain[i]
        /\ chain'[n + 1] = row
    BY <1>1, <1>2, <1>3, AppendProperties DEF n
  <1>6. head' \in Seq(Events) /\ Ids(chain') = head'
    BY <1>1, <1>2, <1>3, IdsOfAppend, AppendProperties
  <1>7. ChainTypeOK'
    BY <1>3, <1>5, <1>6 DEF ChainPart, ChainTypeOK
  <1>8. ASSUME NEW i \in 1 .. n + 1 PROVE chain'[i].previous = SubSeq(head', 1, i - 1)
    <2>1. i \in 1 .. n \/ i = n + 1
      BY <1>4
    <2>2. i - 1 \in 0 .. Len(head)
      BY <1>4
    <2>3. SubSeq(head', 1, i - 1) = SubSeq(head, 1, i - 1)
      <3>1. writer.event \in Events /\ head' = Append(head, writer.event)
        BY <1>1, <1>2, <1>3
      <3> QED
        BY <1>1, <2>2, <3>1, PrefixOfAppend
    <2>4. CASE i \in 1 .. n
      <3>1. chain[i].previous = SubSeq(head, 1, i - 1)
        BY <1>1, <2>4 DEF ChainPart, ChainSound, n
      <3> QED
        BY <1>5, <2>3, <2>4, <3>1
    <2>5. CASE i = n + 1
      <3>1. SubSeq(head, 1, n) = head
        BY <1>1, <1>4, SubSeqFull
      <3>2. i - 1 = n
        BY <1>4, <2>5
      <3> QED
        BY <1>2, <1>5, <2>3, <2>5, <3>1, <3>2
    <2> QED
      BY <2>1, <2>4, <2>5
  <1>9. ASSUME NEW i \in 1 .. n + 1, NEW j \in 1 .. n + 1, chain'[i].event = chain'[j].event
        PROVE  i = j
    <2>1. \A m \in 1 .. n : chain[m].event # row.event
      BY <1>1, <1>2, <1>4
    <2>2. (i \in 1 .. n \/ i = n + 1) /\ (j \in 1 .. n \/ j = n + 1)
      BY <1>4
    <2>3. \A l, m \in 1 .. n : chain[l].event = chain[m].event => l = m
      BY DEF ChainPart, ChainSound, n
    <2> QED
      BY <1>5, <1>9, <2>1, <2>2, <2>3
  <1>10. ChainSound'
    BY <1>5, <1>6, <1>8, <1>9 DEF ChainSound
  <1>11. WriterSound'
    BY <1>3 DEF WriterSound
  <1>12. LockedHeadStands'
    <2>1. ~HeadShared
      BY DEF ChainPart, LockedHeadStands, AppendHoldsHead, AppendCommit
    <2> QED
      BY <1>3, <2>1 DEF LockedHeadStands, HeadShared
  <1>12a. EvaluatorSound'
    <2>1. ~HeadShared /\ (evaluator # NoOne => evaluator.pc = "requested")
      BY DEF ChainPart, LockedHeadStands, HeadShared, AppendHoldsHead, AppendCommit
    <2> QED
      BY <1>3, <2>1 DEF ChainPart, EvaluatorSound
  <1>13. Appended \subseteq Appended'
    <2>1. Appended' = {chain'[i].event : i \in 1 .. n + 1}
      BY <1>5, IdsOfRows DEF Appended
    <2>2. 1 .. n \subseteq 1 .. n + 1
      BY <1>4
    <2> QED
      BY <1>4, <1>5, <2>1, <2>2
  <1> QED
    BY <1>7, <1>10, <1>11, <1>12, <1>12a, <1>13 DEF ChainPart

\* An evaluation is asked for, locks the head or is refused, reads the events and the
\* executions, and ends.
LEMMA EvaluatePreserves ==
  ASSUME ChainPart, EvaluateRequest \/ EvaluateLockHead \/ EvaluatorStep \/ EvaluatorAborts
  PROVE  ChainPart' /\ Appended' = Appended
  <1>1. UNCHANGED <<chain, head, writer, executions>>
    BY DEF EvaluateRequest, EvaluateLockHead, EvaluatorStep, EvaluateReadChain,
           EvaluateReadExecutions, EvaluateCommit, EvaluatorAborts
  <1>2. head \in Seq(Events) /\ Ids(chain) = head
    BY DEF ChainPart, ChainTypeOK, ChainSound
  <1>3. CASE EvaluateRequest
    <2> DEFINE v == [pc |-> "requested", expected |-> head, read |-> <<>>, found |-> {}, succeeded |-> {}]
    <2>1. v \in Evaluator /\ v.pc = "requested" /\ v.succeeded = {}
      BY <1>2, EmptySeq DEF Evaluator
    <2>2. evaluator' = v
      BY <1>3 DEF EvaluateRequest
    <2> HIDE DEF v
    <2> QED
      BY <1>1, <2>1, <2>2, EvaluatorMoves
  <1>4. CASE EvaluateLockHead
    <2> DEFINE v == [evaluator EXCEPT !.pc = "locked"]
    <2>1. evaluator \in Evaluator /\ \A x \in evaluator.succeeded : executions[x] = "SUCCEEDED"
      BY <1>4 DEF ChainPart, ChainTypeOK, EvaluatorSound, EvaluateLockHead
    <2>2. /\ v \in Evaluator /\ v.pc = "locked" /\ v.expected = evaluator.expected
          /\ v.succeeded = evaluator.succeeded
      BY <2>1 DEF Evaluator
    <2>3. evaluator' = (IF evaluator.expected = head THEN v ELSE NoOne) /\ ~AppendHoldsHead
      BY <1>4 DEF EvaluateLockHead, AppendHoldsHead
    <2> HIDE DEF v
    <2> QED
      BY <1>1, <2>1, <2>2, <2>3, EvaluatorMoves
  <1>5. CASE EvaluateReadChain
    <2> DEFINE v == [evaluator EXCEPT !.pc = "chain_read", !.read = Ids(chain)]
    <2>1. /\ evaluator \in Evaluator /\ evaluator.expected = head /\ ~AppendHoldsHead
          /\ \A x \in evaluator.succeeded : executions[x] = "SUCCEEDED"
      BY <1>5 DEF ChainPart, ChainTypeOK, EvaluatorSound, LockedHeadStands, HeadShared, EvaluateReadChain
    <2>2. /\ v \in Evaluator /\ v.expected = head /\ v.read = head
          /\ v.succeeded = evaluator.succeeded
      BY <1>2, <2>1 DEF Evaluator
    <2>3. evaluator' = v \/ evaluator' = NoOne
      BY <1>5 DEF EvaluateReadChain
    <2> HIDE DEF v
    <2> QED
      BY <1>1, <2>1, <2>2, <2>3, EvaluatorMoves
  <1>6. CASE EvaluateReadExecutions
    <2> DEFINE f == {x \in Executions : executions[x] # "ABSENT"}
               s == {x \in Executions : executions[x] = "SUCCEEDED"}
               v == [evaluator EXCEPT !.pc = "executions_read", !.found = f, !.succeeded = s]
    <2>1. /\ evaluator \in Evaluator /\ evaluator.expected = head /\ ~AppendHoldsHead
          /\ evaluator.read = head
      BY <1>6 DEF ChainPart, ChainTypeOK, EvaluatorSound, LockedHeadStands, HeadShared,
                  EvaluateReadExecutions
    <2>2. /\ f \in SUBSET Executions /\ s \in SUBSET Executions
          /\ \A x \in s : executions[x] = "SUCCEEDED"
      OBVIOUS
    <2>3. evaluator' = v
      BY <1>6 DEF EvaluateReadExecutions
    <2> HIDE DEF f, s
    <2>4. v \in Evaluator /\ v.expected = head /\ v.read = head /\ v.succeeded = s
      BY <2>1, <2>2 DEF Evaluator
    <2> HIDE DEF v
    <2> QED
      BY <1>1, <2>1, <2>2, <2>3, <2>4, EvaluatorMoves
  <1>7. CASE EvaluateCommit \/ EvaluatorAborts
    <2>1. evaluator' = NoOne
      BY <1>7 DEF EvaluateCommit, EvaluatorAborts
    <2> QED
      BY <1>1, <2>1, EvaluatorMoves
  <1> QED
    BY <1>3, <1>4, <1>5, <1>6, <1>7 DEF EvaluatorStep

\* A package takes the advisory lock, reads the head and the events; a transaction
\* ends and gives the lock back.
LEMMA PackagePreserves ==
  ASSUME ChainPart,
         PackageBegin \/ PackageReadHead \/ PackageReadChain \/ PackageCommit \/ WriterAborts
  PROVE  ChainPart' /\ Appended' = Appended
  <1>1. UNCHANGED <<chain, head, evaluator, executions>>
    BY DEF PackageBegin, PackageReadHead, PackageReadChain, PackageCommit, WriterAborts
  <1>2. head \in Seq(Events) /\ Ids(chain) = head /\ (writer # NoOne => writer \in Writer)
    BY DEF ChainPart, ChainTypeOK, ChainSound
  <1>3. CASE PackageBegin
    <2> DEFINE w == [op |-> "package", event |-> NoOne, pc |-> "begun", previous |-> <<>>,
                     read |-> <<>>]
    <2>1. w \in Writer /\ w.op = "package" /\ w.pc = "begun"
      BY EmptySeq DEF Writer
    <2>2. writer' = w
      BY <1>3 DEF PackageBegin
    <2> HIDE DEF w
    <2>3. ~AppendHoldsHead'
      BY <2>1, <2>2 DEF AppendHoldsHead
    <2> QED
      BY <1>1, <2>1, <2>2, <2>3, WriterMoves
  <1>4. CASE PackageReadHead
    <2> DEFINE w == [writer EXCEPT !.pc = "head_read", !.previous = head]
    <2>1. writer \in Writer /\ writer.op = "package"
      BY <1>2, <1>4 DEF PackageReadHead
    <2>2. w \in Writer /\ w.op = "package" /\ w.pc = "head_read" /\ w.previous = head
      BY <1>2, <2>1 DEF Writer
    <2>3. writer' = w \/ writer' = NoOne
      BY <1>4 DEF PackageReadHead
    <2> HIDE DEF w
    <2>4. ~AppendHoldsHead'
      BY <2>2, <2>3 DEF AppendHoldsHead
    <2> QED
      BY <1>1, <2>2, <2>3, <2>4, WriterMoves
  <1>5. CASE PackageReadChain
    <2> DEFINE w == [writer EXCEPT !.pc = "chain_read", !.read = Ids(chain)]
    <2>1. writer \in Writer /\ writer.op = "package" /\ writer.previous = head
      BY <1>2, <1>5 DEF PackageReadChain, ChainPart, WriterSound
    <2>2. w \in Writer /\ w.op = "package" /\ w.previous = head /\ w.read = head
      BY <1>2, <2>1 DEF Writer
    <2>3. writer' = w \/ writer' = NoOne
      BY <1>5 DEF PackageReadChain
    <2> HIDE DEF w
    <2>4. ~AppendHoldsHead'
      BY <2>2, <2>3 DEF AppendHoldsHead
    <2> QED
      BY <1>1, <2>2, <2>3, <2>4, WriterMoves
  <1>6. CASE PackageCommit \/ WriterAborts
    <2>1. writer' = NoOne /\ ~AppendHoldsHead'
      BY <1>6 DEF PackageCommit, WriterAborts, AppendHoldsHead
    <2> QED
      BY <1>1, <2>1, WriterMoves
  <1> QED
    BY <1>3, <1>4, <1>5, <1>6

\* The ledger moves an execution, and never one that has succeeded.
LEMMA ExecutionPreserves ==
  ASSUME ChainPart, NEW x \in Executions, NEW status, ExecutionMoves(x, status)
  PROVE  ChainPart' /\ Appended' = Appended
  <1>1. UNCHANGED <<chain, head, writer, evaluator>>
    BY DEF ExecutionMoves
  <1>2. Ids(chain)' = Ids(chain) /\ Appended' = Appended
    BY <1>1 DEF Ids, Appended
  <1>3. /\ executions \in [Executions -> ExecutionStatuses]
        /\ executions[x] # "SUCCEEDED" /\ status \in ExecutionStatuses
        /\ executions' = [executions EXCEPT ![x] = status]
    BY DEF ExecutionMoves, LedgerMayMove, ChainPart, ChainTypeOK, ExecutionStatuses
  <1>4. /\ executions' \in [Executions -> ExecutionStatuses]
        /\ \A y \in Executions : executions[y] = "SUCCEEDED" => executions'[y] = "SUCCEEDED"
    BY <1>3
  <1>5. ChainTypeOK'
    BY <1>1, <1>4 DEF ChainPart, ChainTypeOK
  <1>6. ChainSound' /\ WriterSound' /\ LockedHeadStands'
    BY <1>1, <1>2 DEF ChainPart, ChainSound, WriterSound, LockedHeadStands, HeadShared, AppendHoldsHead
  <1>7. EvaluatorSound'
    BY <1>1, <1>4 DEF ChainPart, ChainTypeOK, EvaluatorSound, Evaluator
  <1> QED
    BY <1>2, <1>5, <1>6, <1>7 DEF ChainPart

-----------------------------------------------------------------------------
(* The delivery *)

\* The workers and the outbox are left alone while the chain grows.
LEMMA DeliveryRests ==
  ASSUME DeliveryPart, UNCHANGED <<outbox, worker>>, net' \subseteq Decisions,
         Appended \subseteq Appended'
  PROVE  DeliveryPart'
  BY DEF DeliveryPart, DeliveryTypeOK, DeliverySound

\* A worker's row or the worker itself changes, on the chain as it stands.
LEMMA DeliveryMoves ==
  ASSUME DeliveryPart, DeliveryTypeOK', Appended' = Appended,
         \A w \in Workers : \/ worker'[w] = worker[w]
                            \/ worker'[w].pc = "answered" => worker'[w].item \in Appended,
         \A d \in Decisions : \/ outbox'[d].state = outbox[d].state
                              \/ outbox'[d].state = "delivered" => d \in Appended
  PROVE  DeliveryPart'
  BY DEF DeliveryPart, DeliverySound

\* A worker changes.
LEMMA WorkerType ==
  ASSUME DeliveryTypeOK, NEW w \in Workers, NEW v \in Delivery, worker' = [worker EXCEPT ![w] = v]
  PROVE  /\ worker' \in [Workers -> Delivery] /\ worker'[w] = v
         /\ \A u \in Workers : u # w => worker'[u] = worker[u]
  BY DEF DeliveryTypeOK

\* A row of the outbox changes.
LEMMA OutboxType ==
  ASSUME DeliveryTypeOK, NEW d \in Decisions, NEW row \in OutboxRow, outbox' = [outbox EXCEPT ![d] = row]
  PROVE  /\ outbox' \in [Decisions -> OutboxRow] /\ outbox'[d] = row
         /\ \A b \in Decisions : b # d => outbox'[b] = outbox[b]
  BY DEF DeliveryTypeOK

\* What a worker at work works on.
LEMMA ItemType ==
  ASSUME DeliveryTypeOK, NEW w \in Workers, worker[w].pc # "idle"
  PROVE  worker[w] \in [pc : {"sent", "answered", "failed"}, item : Decisions]
  BY DEF DeliveryTypeOK, Delivery, Idle

\* The chain is out of a step's reach.
LEMMA ChainVarsRest ==
  ASSUME ChainPart, UNCHANGED chainVars
  PROVE  ChainPart' /\ Appended' = Appended
  <1>1. UNCHANGED <<chain, head, writer, evaluator, executions>>
    BY DEF chainVars
  <1> QED
    BY <1>1, ChainRests

\* decide() writes a row, or the lease of a row ends.
LEMMA RowPreserves ==
  ASSUME IInv, NEW d \in Decisions, PersistDecisionEvidence(d) \/ LeaseExpires(d)
  PROVE  IInv'
  <1>1. UNCHANGED chainVars /\ worker' = worker /\ net' = net
    BY DEF PersistDecisionEvidence, LeaseExpires
  <1>2. ChainPart' /\ Appended' = Appended
    BY <1>1, ChainVarsRest DEF IInv
  <1>3. DeliveryTypeOK /\ DeliveryPart /\ outbox[d] \in OutboxRow
    BY DEF IInv, DeliveryPart, DeliveryTypeOK
  <1>4. \E row \in OutboxRow : /\ outbox' = [outbox EXCEPT ![d] = row]
                               /\ row.state = outbox[d].state \/ row.state = "pending"
    <2>1. CASE PersistDecisionEvidence(d)
      <3> DEFINE r == [outbox[d] EXCEPT !.state = "pending"]
      <3>1. r \in OutboxRow /\ r.state = "pending"
        BY <1>3 DEF OutboxRow
      <3>2. outbox' = [outbox EXCEPT ![d] = r]
        BY <2>1 DEF PersistDecisionEvidence
      <3> QED
        BY <3>1, <3>2
    <2>2. CASE LeaseExpires(d)
      <3> DEFINE r == [outbox[d] EXCEPT !.live = FALSE]
      <3>1. r \in OutboxRow /\ r.state = outbox[d].state
        BY <1>3 DEF OutboxRow
      <3>2. outbox' = [outbox EXCEPT ![d] = r]
        BY <2>2 DEF LeaseExpires
      <3> QED
        BY <3>1, <3>2
    <2> QED
      BY <2>1, <2>2
  <1>5. PICK row \in OutboxRow : /\ outbox' = [outbox EXCEPT ![d] = row]
                                 /\ row.state = outbox[d].state \/ row.state = "pending"
    BY <1>4
  <1>6. /\ outbox' \in [Decisions -> OutboxRow] /\ outbox'[d] = row
        /\ \A b \in Decisions : b # d => outbox'[b] = outbox[b]
    BY <1>3, <1>5, OutboxType
  <1>7. DeliveryTypeOK'
    BY <1>1, <1>3, <1>6 DEF DeliveryTypeOK
  <1>8. DeliveryPart'
    BY <1>1, <1>2, <1>3, <1>5, <1>6, <1>7, DeliveryMoves
  <1> QED
    BY <1>2, <1>8 DEF IInv

\* A worker leases a row and publishes it.
LEMMA ClaimPreserves ==
  ASSUME IInv, NEW w \in Workers, NEW d \in Decisions, ClaimDecisionEvidence(w, d)
  PROVE  IInv'
  <1> DEFINE row == [outbox[d] EXCEPT !.owner = w, !.live = TRUE]
             v == [pc |-> "sent", item |-> d]
  <1>1. ChainPart' /\ Appended' = Appended
    BY ChainVarsRest DEF IInv, ClaimDecisionEvidence
  <1>2. DeliveryTypeOK /\ DeliveryPart /\ outbox[d] \in OutboxRow
    BY DEF IInv, DeliveryPart, DeliveryTypeOK
  <1>3. row \in OutboxRow /\ row.state = outbox[d].state
    BY <1>2 DEF OutboxRow
  <1>4. v \in Delivery /\ v.pc = "sent"
    BY DEF Delivery
  <1>5. outbox' = [outbox EXCEPT ![d] = row] /\ worker' = [worker EXCEPT ![w] = v] /\ net' = net \cup {d}
    BY DEF ClaimDecisionEvidence
  <1> HIDE DEF row, v
  <1>6. /\ outbox' \in [Decisions -> OutboxRow] /\ outbox'[d] = row
        /\ \A b \in Decisions : b # d => outbox'[b] = outbox[b]
    BY <1>2, <1>3, <1>5, OutboxType
  <1>7. /\ worker' \in [Workers -> Delivery] /\ worker'[w] = v
        /\ \A u \in Workers : u # w => worker'[u] = worker[u]
    BY <1>2, <1>4, <1>5, WorkerType
  <1>8. DeliveryTypeOK'
    BY <1>2, <1>5, <1>6, <1>7 DEF DeliveryTypeOK
  <1>9. DeliveryPart'
    BY <1>1, <1>2, <1>3, <1>4, <1>6, <1>7, <1>8, DeliveryMoves
  <1> QED
    BY <1>1, <1>9 DEF IInv

\* A worker hears the receipt, gives up waiting, or dies.
LEMMA WorkerMovesPreserves ==
  ASSUME IInv, NEW w \in Workers, PublishAnswered(w) \/ PublishFails(w) \/ WorkerCrashes(w)
  PROVE  IInv'
  <1>1. UNCHANGED chainVars /\ outbox' = outbox /\ net' = net
    BY DEF PublishAnswered, PublishFails, WorkerCrashes
  <1>2. ChainPart' /\ Appended' = Appended
    BY <1>1, ChainVarsRest DEF IInv
  <1>3. DeliveryTypeOK /\ DeliveryPart
    BY DEF IInv, DeliveryPart
  <1>4. worker[w] \in [pc : {"sent", "answered", "failed"}, item : Decisions]
    BY <1>3, ItemType DEF PublishAnswered, PublishFails, WorkerCrashes
  <1>5. \E v \in Delivery : /\ worker' = [worker EXCEPT ![w] = v]
                            /\ v.pc = "answered" => v.item \in Appended
    <2>1. CASE PublishAnswered(w)
      <3> DEFINE r == [worker[w] EXCEPT !.pc = "answered"]
      <3>1. r \in Delivery /\ r.item = worker[w].item
        BY <1>4 DEF Delivery
      <3>2. worker' = [worker EXCEPT ![w] = r] /\ worker[w].item \in Appended
        BY <2>1 DEF PublishAnswered
      <3> QED
        BY <3>1, <3>2
    <2>2. CASE PublishFails(w)
      <3> DEFINE r == [worker[w] EXCEPT !.pc = "failed"]
      <3>1. r \in Delivery /\ r.pc = "failed"
        BY <1>4 DEF Delivery
      <3>2. worker' = [worker EXCEPT ![w] = r]
        BY <2>2 DEF PublishFails
      <3> QED
        BY <3>1, <3>2
    <2>3. CASE WorkerCrashes(w)
      <3>1. Idle \in Delivery /\ Idle.pc = "idle"
        BY DEF Delivery, Idle
      <3>2. worker' = [worker EXCEPT ![w] = Idle]
        BY <2>3 DEF WorkerCrashes
      <3> QED
        BY <3>1, <3>2
    <2> QED
      BY <2>1, <2>2, <2>3
  <1>6. PICK v \in Delivery : /\ worker' = [worker EXCEPT ![w] = v]
                              /\ v.pc = "answered" => v.item \in Appended
    BY <1>5
  <1>7. /\ worker' \in [Workers -> Delivery] /\ worker'[w] = v
        /\ \A u \in Workers : u # w => worker'[u] = worker[u]
    BY <1>3, <1>6, WorkerType
  <1>8. DeliveryTypeOK'
    BY <1>1, <1>3, <1>7 DEF DeliveryTypeOK
  <1>9. DeliveryPart'
    BY <1>1, <1>2, <1>3, <1>6, <1>7, <1>8, DeliveryMoves
  <1> QED
    BY <1>2, <1>9 DEF IInv

\* A worker settles its row: delivered on an answer, given back on a failure.
LEMMA SettlePreserves ==
  ASSUME IInv, NEW w \in Workers,
         MarkDecisionEvidenceDelivered(w) \/ ReleaseDecisionEvidenceForRetry(w)
  PROVE  IInv'
  <1> DEFINE d == worker[w].item
  <1>1. UNCHANGED chainVars /\ worker' = [worker EXCEPT ![w] = Idle] /\ net' = net
    BY DEF MarkDecisionEvidenceDelivered, ReleaseDecisionEvidenceForRetry
  <1>2. ChainPart' /\ Appended' = Appended
    BY <1>1, ChainVarsRest DEF IInv
  <1>3. DeliveryTypeOK /\ DeliveryPart /\ DeliverySound
    BY DEF IInv, DeliveryPart
  <1>4. worker[w] \in [pc : {"sent", "answered", "failed"}, item : Decisions]
    BY <1>3, ItemType DEF MarkDecisionEvidenceDelivered, ReleaseDecisionEvidenceForRetry
  <1>5. d \in Decisions /\ outbox[d] \in OutboxRow
    BY <1>3, <1>4 DEF DeliveryTypeOK
  <1>6. Idle \in Delivery /\ Idle.pc = "idle"
    BY DEF Delivery, Idle
  <1>7. /\ worker' \in [Workers -> Delivery] /\ worker'[w] = Idle
        /\ \A u \in Workers : u # w => worker'[u] = worker[u]
    BY <1>1, <1>3, <1>6, WorkerType
  <1>8. \/ outbox' = outbox
        \/ \E row \in OutboxRow : /\ outbox' = [outbox EXCEPT ![d] = row]
                                  /\ row.state = outbox[d].state \/ d \in Appended
    <2>1. CASE MarkDecisionEvidenceDelivered(w)
      <3> DEFINE r == [state |-> "delivered", owner |-> NoOne, live |-> FALSE]
      <3>1. r \in OutboxRow /\ d \in Appended
        BY <1>3, <2>1 DEF OutboxRow, DeliverySound, MarkDecisionEvidenceDelivered
      <3>2. outbox' = [outbox EXCEPT ![d] = r] \/ outbox' = outbox
        BY <2>1 DEF MarkDecisionEvidenceDelivered
      <3> QED
        BY <3>1, <3>2
    <2>2. CASE ReleaseDecisionEvidenceForRetry(w)
      <3> DEFINE r == [outbox[d] EXCEPT !.owner = NoOne, !.live = FALSE]
      <3>1. r \in OutboxRow /\ r.state = outbox[d].state
        BY <1>5 DEF OutboxRow
      <3>2. outbox' = [outbox EXCEPT ![d] = r] \/ outbox' = outbox
        BY <2>2 DEF ReleaseDecisionEvidenceForRetry
      <3> QED
        BY <3>1, <3>2
    <2> QED
      BY <2>1, <2>2
  <1> HIDE DEF d
  <1>9. /\ outbox' \in [Decisions -> OutboxRow]
        /\ \A b \in Decisions : outbox'[b].state = outbox[b].state \/ b \in Appended
    <2>1. CASE outbox' = outbox
      BY <1>3, <2>1 DEF DeliveryTypeOK
    <2>2. ASSUME NEW row \in OutboxRow, outbox' = [outbox EXCEPT ![d] = row],
                 row.state = outbox[d].state \/ d \in Appended
          PROVE  /\ outbox' \in [Decisions -> OutboxRow]
                 /\ \A b \in Decisions : outbox'[b].state = outbox[b].state \/ b \in Appended
      BY <1>3, <1>5, <2>2, OutboxType
    <2> QED
      BY <1>8, <2>1, <2>2
  <1>10. DeliveryTypeOK'
    BY <1>1, <1>3, <1>7, <1>9 DEF DeliveryTypeOK
  <1>11. DeliveryPart'
    BY <1>2, <1>3, <1>6, <1>7, <1>9, <1>10, DeliveryMoves
  <1> QED
    BY <1>2, <1>11 DEF IInv

\* A published decision reaches the service, or is lost on its way.
LEMMA RequestPreserves ==
  ASSUME IInv, NEW d \in Decisions, ReceiveAuthorityEvent(d) \/ RequestLost(d)
  PROVE  IInv'
  <1>1. UNCHANGED <<outbox, worker>> /\ net' \subseteq Decisions
    BY DEF ReceiveAuthorityEvent, RequestLost, IInv, DeliveryPart, DeliveryTypeOK
  <1>2. ChainPart' /\ Appended' = Appended
    <2>1. CASE UNCHANGED chainVars
      BY <2>1, ChainVarsRest DEF IInv
    <2>2. CASE AppendBegin(d)
      BY <2>2, BeginPreserves DEF IInv, Events
    <2> QED
      BY <2>1, <2>2 DEF ReceiveAuthorityEvent, RequestLost
  <1>3. DeliveryPart'
    BY <1>1, <1>2, DeliveryRests DEF IInv
  <1> QED
    BY <1>2, <1>3 DEF IInv

\* The task posts an event, or the service goes on with a transaction.
LEMMA ServicePreserves ==
  ASSUME IInv, PostLifecycle \/ PostToolExecuted \/ PostAlert \/ ServiceStep \/ ServiceAborts
  PROVE  IInv'
  <1>1. UNCHANGED <<outbox, worker>> /\ net' \subseteq Decisions
    BY DEF PostLifecycle, PostToolExecuted, PostAlert, ServiceStep, ServiceAborts, deliveryVars,
           IInv, DeliveryPart, DeliveryTypeOK
  <1>2. ChainPart' /\ Appended \subseteq Appended'
    <2>1. ASSUME NEW e \in Events, AppendBegin(e) PROVE ChainPart' /\ Appended \subseteq Appended'
      BY <2>1, BeginPreserves DEF IInv
    <2>2. Posted \subseteq Events /\ Executions \subseteq Events /\ Alerts \subseteq Events
      BY DEF Events
    <2>3. CASE PostLifecycle \/ PostToolExecuted \/ PostAlert
      BY <2>1, <2>2, <2>3 DEF PostLifecycle, PostToolExecuted, PostAlert
    <2>4. CASE AppendReadHead
      BY <2>4, ReadHeadPreserves DEF IInv
    <2>5. CASE AppendCommit
      BY <2>5, CommitPreserves DEF IInv
    <2>6. CASE PackageBegin \/ PackageReadHead \/ PackageReadChain \/ PackageCommit \/ WriterAborts
      BY <2>6, PackagePreserves DEF IInv
    <2>7. CASE EvaluateRequest \/ EvaluateLockHead \/ EvaluatorStep \/ EvaluatorAborts
      BY <2>7, EvaluatePreserves DEF IInv
    <2>8. ASSUME NEW x \in Executions, NEW s, ExecutionMoves(x, s)
          PROVE  ChainPart' /\ Appended \subseteq Appended'
      BY <2>8, ExecutionPreserves DEF IInv
    <2> QED
      BY <2>3, <2>4, <2>5, <2>6, <2>7, <2>8 DEF ServiceStep, WriterStep, ServiceAborts
  <1>3. DeliveryPart'
    BY <1>1, <1>2, DeliveryRests DEF IInv
  <1> QED
    BY <1>2, <1>3 DEF IInv

-----------------------------------------------------------------------------
\* The initial state satisfies the inductive invariant.
LEMMA InitEstablishes == Init => IInv
  <1> SUFFICES ASSUME Init PROVE IInv
    OBVIOUS
  <1> USE DEF Init, ChainInit
  <1> DEFINE n == Len(Given)
             row(i) == [event |-> Given[i], previous |-> SubSeq(Given, 1, i - 1)]
  <1>1. /\ Given \in Seq(Posted) /\ n \in Nat /\ \A i \in 1 .. n : Given[i] \in Posted
        /\ \A i, j \in 1 .. n : Given[i] = Given[j] => i = j
    <2>1. Given \in Seq(Posted) /\ IsInjective(Given)
      BY EvidenceAssumption
    <2> QED
      BY <2>1, ElementOfSeq, LenProperties DEF IsInjective
  <1>2. Given \in Seq(Events)
    <2>1. Posted \subseteq Events
      BY DEF Events
    <2> QED
      BY <1>1, <2>1
  <1>3. ASSUME NEW i \in 1 .. n PROVE row(i) \in Row
    <2>1. SubSeq(Given, 1, i - 1) \in Seq(Events) /\ Given[i] \in Events
      BY <1>1, <1>2, <1>3 DEF Events
    <2> QED
      BY <2>1 DEF Row
  <1>4. /\ chain = [i \in 1 .. n |-> row(i)] /\ head = Given
        /\ \A i \in 1 .. n : row(i).event = Given[i] /\ row(i).previous = SubSeq(Given, 1, i - 1)
    OBVIOUS
  <1> HIDE DEF n, row
  <1>5. chain \in Seq(Row) /\ Len(chain) = n /\ \A i \in 1 .. n : chain[i] = row(i)
    <2> HIDE DEF Init, ChainInit
    <2>1. chain \in [1 .. n -> Row] /\ \A i \in 1 .. n : chain[i] = row(i)
      BY <1>3, <1>4
    <2> QED
      BY <1>1, <2>1
  <1>6. Ids(chain) = head
    <2>1. /\ Ids(chain) \in Seq(Events) /\ Len(Ids(chain)) = n
          /\ \A i \in 1 .. n : Ids(chain)[i] = Given[i]
      BY <1>4, <1>5, IdsOfRows
    <2>2. Len(Given) = n
      BY DEF n
    <2> QED
      BY <1>2, <1>4, <2>1, <2>2, SeqEqual
  <1>7. ChainTypeOK
    BY <1>2, <1>4, <1>5 DEF ChainTypeOK, ExecutionStatuses
  <1>8. ChainSound
    <2>1. \A i \in 1 .. Len(chain) : chain[i].previous = SubSeq(Ids(chain), 1, i - 1)
      BY <1>4, <1>5, <1>6
    <2>2. \A i, j \in 1 .. Len(chain) : chain[i].event = chain[j].event => i = j
      BY <1>1, <1>4, <1>5
    <2> QED
      BY <1>6, <2>1, <2>2 DEF ChainSound
  <1>9. WriterSound /\ LockedHeadStands /\ EvaluatorSound
    BY DEF WriterSound, LockedHeadStands, HeadShared, EvaluatorSound
  <1>10. DeliveryTypeOK
    BY DEF DeliveryTypeOK, OutboxRow, Delivery
  <1>11. DeliverySound
    BY DEF DeliverySound, Idle
  <1> QED
    BY <1>7, <1>8, <1>9, <1>10, <1>11 DEF IInv, ChainPart, DeliveryPart

\* Every step keeps the inductive invariant.
LEMMA StepPreserves == IInv /\ [Next]_vars => IInv'
  <1> SUFFICES ASSUME IInv, [Next]_vars PROVE IInv'
    OBVIOUS
  <1>1. CASE PostLifecycle \/ PostToolExecuted \/ PostAlert \/ ServiceStep \/ ServiceAborts
    BY <1>1, ServicePreserves
  <1>2. ASSUME NEW d \in Decisions,
               PersistDecisionEvidence(d) \/ ReceiveAuthorityEvent(d) \/ LeaseExpires(d) \/ RequestLost(d)
        PROVE  IInv'
    BY <1>2, RowPreserves, RequestPreserves
  <1>3. ASSUME NEW w \in Workers, WorkerStep(w) \/ WorkerCrashes(w) PROVE IInv'
    BY <1>3, ClaimPreserves, WorkerMovesPreserves, SettlePreserves DEF WorkerStep
  <1>4. CASE UNCHANGED vars
    <2>1. UNCHANGED chainVars /\ UNCHANGED <<outbox, worker>> /\ net' \subseteq Decisions
      BY <1>4 DEF vars, deliveryVars, IInv, DeliveryPart, DeliveryTypeOK
    <2>2. ChainPart' /\ Appended' = Appended
      BY <2>1, ChainVarsRest DEF IInv
    <2>3. DeliveryPart'
      BY <2>1, <2>2, DeliveryRests DEF IInv
    <2> QED
      BY <2>2, <2>3 DEF IInv
  <1> QED
    BY <1>1, <1>2, <1>3, <1>4 DEF Next

\* The chain, the transactions on it and the deliveries to it agree in every reachable
\* state (append_event, append_authority_event, append_execution, evaluate_task,
\* build_package and the delivery loop).
THEOREM EvidenceInductive == Spec => []IInv
  BY InitEstablishes, StepPreserves, PTL DEF Spec

\* A decision is in the chain at most once however often and by however many workers it
\* is published, a delivered row is in the chain, and the chain always verifies.
THEOREM EvidenceDeliveredOnce == Spec => []DeliveredOnce
  <1>1. IInv => DeliveredOnce
    <2> SUFFICES ASSUME IInv PROVE DeliveredOnce
      OBVIOUS
    <2>1. chain \in Seq(Row) /\ ChainSound /\ DeliverySound
      BY DEF IInv, ChainPart, ChainTypeOK, DeliveryPart
    <2>2. /\ DOMAIN Ids(chain) = 1 .. Len(chain)
          /\ \A i \in 1 .. Len(chain) : Ids(chain)[i] = chain[i].event
      BY DEF Ids
    <2>3. IsInjective(Ids(chain))
      BY <2>1, <2>2 DEF IsInjective, ChainSound
    <2> QED
      BY <2>1, <2>3 DEF DeliveredOnce, ChainSnapshotValid, ChainSound, DeliverySound
  <1> QED
    BY <1>1, EvidenceInductive, PTL

\* While an evaluation holds the row of the chain head, no append is under way that has
\* read the head, and the head is the one the caller asked about: the row lock does what
\* the advisory lock, which evaluate_task does not take, would do.
THEOREM EvidenceHeadStandsUnderLock == Spec => []LockedHeadStands
  <1>1. IInv => LockedHeadStands
    BY DEF IInv, ChainPart
  <1> QED
    BY <1>1, EvidenceInductive, PTL

\* An evaluation that commits has read the chain as it stands.
LEMMA VerdictIsCurrent ==
  ASSUME IInv, EvaluateCommit
  PROVE  /\ verdict'.head = Ids(chain) /\ verdict'.events = Ids(chain)
         /\ verdict'.pass =>
              /\ Appended \cap Alerts = {}
              /\ verdict'.executions # {}
              /\ \A x \in verdict'.executions : executions[x] = "SUCCEEDED"
  <1> DEFINE pass == HardGates(evaluator.read, evaluator.found, evaluator.succeeded)
  <1>1. evaluator # NoOne /\ evaluator.pc = "executions_read"
    BY DEF EvaluateCommit
  <1>2. evaluator.expected = head
    BY <1>1 DEF IInv, ChainPart, LockedHeadStands, HeadShared
  <1>3. evaluator.read = head /\ \A x \in evaluator.succeeded : executions[x] = "SUCCEEDED"
    BY <1>1 DEF IInv, ChainPart, EvaluatorSound
  <1>4. Ids(chain) = head
    BY DEF IInv, ChainPart, ChainSound
  <1>5. verdict' = [head |-> evaluator.expected, events |-> evaluator.read,
                    executions |-> evaluator.found, pass |-> pass]
    BY DEF EvaluateCommit
  <1>6. pass => /\ Range(evaluator.read) \cap Alerts = {}
                /\ evaluator.found # {} /\ evaluator.found \subseteq evaluator.succeeded
    BY DEF HardGates
  <1> HIDE DEF pass
  <1>7. /\ verdict'.head = evaluator.expected /\ verdict'.events = evaluator.read
        /\ verdict'.executions = evaluator.found /\ (verdict'.pass => pass)
    BY <1>5
  <1> QED
    BY <1>2, <1>3, <1>4, <1>6, <1>7 DEF Appended

\* A package that is committed holds the chain as it stands.
LEMMA PackageIsCurrent ==
  ASSUME IInv, PackageCommit
  PROVE  package'.head = Ids(chain) /\ package'.events = Ids(chain)
  <1>1. writer.previous = head /\ writer.read = head /\ Ids(chain) = head
    BY DEF PackageCommit, IInv, ChainPart, WriterSound, ChainSound
  <1> QED
    BY <1>1 DEF PackageCommit

\* Verdicts and packages are written by the two commits only.
LEMMA SignedByCommit ==
  ASSUME [Next]_vars
  PROVE  (verdict' # verdict => EvaluateCommit) /\ (package' # package => PackageCommit)
  <1>1. CASE PostLifecycle \/ PostToolExecuted \/ PostAlert
    BY <1>1 DEF PostLifecycle, PostToolExecuted, PostAlert, AppendBegin
  <1>2. CASE ServiceStep
    <2>1. CASE WriterStep
      BY <2>1 DEF WriterStep, AppendReadHead, AppendCommit, PackageReadHead, PackageReadChain,
                  PackageCommit
    <2>2. CASE EvaluatorStep
      BY <2>2 DEF EvaluatorStep, EvaluateReadChain, EvaluateReadExecutions, EvaluateCommit
    <2>3. CASE PackageBegin \/ EvaluateRequest \/ EvaluateLockHead
      BY <2>3 DEF PackageBegin, EvaluateRequest, EvaluateLockHead
    <2> QED
      BY <1>2, <2>1, <2>2, <2>3 DEF ServiceStep, ExecutionMoves
  <1>3. CASE ServiceAborts
    BY <1>3 DEF ServiceAborts, WriterAborts, EvaluatorAborts, ExecutionMoves
  <1>4. ASSUME NEW d \in Decisions,
               PersistDecisionEvidence(d) \/ ReceiveAuthorityEvent(d) \/ LeaseExpires(d) \/ RequestLost(d)
        PROVE  verdict' = verdict /\ package' = package
    BY <1>4 DEF PersistDecisionEvidence, ReceiveAuthorityEvent, LeaseExpires, RequestLost,
                AppendBegin, chainVars
  <1>5. ASSUME NEW w \in Workers, WorkerStep(w) \/ WorkerCrashes(w)
        PROVE  verdict' = verdict /\ package' = package
    BY <1>5 DEF WorkerStep, WorkerCrashes, ClaimDecisionEvidence, PublishAnswered, PublishFails,
                MarkDecisionEvidenceDelivered, ReleaseDecisionEvidenceForRetry, chainVars
  <1>6. CASE UNCHANGED vars
    BY <1>6 DEF vars, chainVars
  <1> QED
    BY <1>1, <1>2, <1>3, <1>4, <1>5, <1>6 DEF Next

\* A verdict and a package are about the chain as it stands when they are committed:
\* while the head's row is share-locked, or the chain's advisory lock is held, nothing
\* is appended after the statements that read the head and the events.
THEOREM EvidenceSignedAboutCurrentChain == Spec => SignedAboutCurrentChain
  <1> DEFINE Signed ==
        /\ verdict' # verdict =>
             /\ verdict'.head = Ids(chain) /\ verdict'.events = Ids(chain)
             /\ verdict'.pass =>
                  /\ Appended \cap Alerts = {}
                  /\ verdict'.executions # {}
                  /\ \A x \in verdict'.executions : executions[x] = "SUCCEEDED"
        /\ package' # package => package'.head = Ids(chain) /\ package'.events = Ids(chain)
  <1>1. IInv /\ [Next]_vars => [Signed]_vars
    BY SignedByCommit, VerdictIsCurrent, PackageIsCurrent
  <1> QED
    BY <1>1, EvidenceInductive, PTL DEF Spec, SignedAboutCurrentChain
=============================================================================
