---------------------------- MODULE EvidenceChain ----------------------------
(***************************************************************************)
(* PostgresEvidenceStore of rust/crates/evidence-evaluator: the hash       *)
(* chain of one task, the three ways into it (lifecycle, authority and     *)
(* execution events), the evaluation of the task and its signed package.   *)
(*                                                                         *)
(* Appends and packages take the advisory lock of the chain; an evaluation *)
(* takes another one, so only the row lock of the chain head keeps it and  *)
(* an append apart.  The hash of an event is what it covers: the sequence  *)
(* of the events up to it.  Signatures, tenants and request digests are    *)
(* taken as valid.                                                         *)
(***************************************************************************)
EXTENDS Naturals, Sequences, FiniteSets, SequencesExt

CONSTANTS
    Executions,  \* executions of the task, each with its TOOL_EXECUTED event
    Decisions,   \* approval decisions, each an APPROVAL_DECISION event
    Alerts,      \* SECURITY_ALERT events
    Given,       \* the events that are in the chain at the start
    MaxSigned,   \* evaluations and packages asked for
    NoOne        \* absence of a transaction, a verdict or a package

\* ordered_names of evaluate_task, which are also the required events no caller
\* can leave out: for each name the events that bear it.
Lifecycle ==
    <<{"TASK_CREATED"}, {"PLAN_GENERATED"}, {"POLICY_EVALUATED"}, {"CREDENTIAL_ISSUED"},
      {"TOOL_PREPARED"}, Executions>>

\* The events of the first five names.
Posted ==
    {"TASK_CREATED", "PLAN_GENERATED", "POLICY_EVALUATED", "CREDENTIAL_ISSUED", "TOOL_PREPARED"}

Events == Posted \cup Executions \cup Decisions \cup Alerts

ASSUME EvidenceAssumption ==
    /\ Decisions \cap Alerts = {} /\ Executions \cap (Decisions \cup Alerts) = {}
    /\ (Executions \cup Decisions \cup Alerts) \cap Posted = {}
    /\ NoOne \notin Events
    /\ Given \in Seq(Posted) /\ IsInjective(Given)
    /\ MaxSigned \in Nat

VARIABLES
    chain,       \* audit_events of the task in sequence order
    head,        \* evidence_chain_heads.chain_hash
    writer,      \* the transaction that holds the chain's advisory lock, or NoOne
    evaluator,   \* the evaluation under way, or NoOne
    asked,       \* evaluations and packages asked for so far
    verdict,     \* the latest row of evaluation_results, or NoOne
    package,     \* the latest row of evidence_packages, or NoOne
    executions   \* executions.status of the task's executions, "ABSENT" for no row

chainVars == <<chain, head, writer, evaluator, asked, verdict, package, executions>>

\* The events of the stored rows, in order.
Ids(rows) == [i \in 1 .. Len(rows) |-> rows[i].event]

Appended == Range(Ids(chain))

\* A task under way: its executions may be reserved before any event is appended.
ChainInit ==
    /\ chain = [i \in 1 .. Len(Given) |->
                  [event |-> Given[i], previous |-> SubSeq(Given, 1, i - 1)]]
    /\ head = Given
    /\ writer = NoOne
    /\ evaluator = NoOne
    /\ verdict = NoOne
    /\ package = NoOne
    /\ asked = 0
    /\ executions = [x \in Executions |-> "ABSENT"]

-----------------------------------------------------------------------------
(* append_event, append_authority_event, append_execution *)

\* The advisory lock is granted and the request is new: the checks of the route
\* pass.  TOOL_EXECUTED needs a RUNNING execution, whose row stays share-locked.
AppendBegin(e) ==
    /\ writer = NoOne
    /\ e \notin Appended
    /\ e \in Executions => executions[e] = "RUNNING"
    /\ writer' = [op |-> "append", event |-> e, pc |-> "begun", previous |-> <<>>,
                  read |-> <<>>]
    /\ UNCHANGED <<chain, head, evaluator, asked, verdict, package, executions>>

\* Mutant: the evaluation reads the head without FOR SHARE.
HeadUnshared == FALSE

\* An evaluation holds its share lock on the head's row until it commits.
HeadShared == evaluator # NoOne /\ evaluator.pc # "requested"

\* SELECT .. FROM evidence_chain_heads .. FOR UPDATE waits for an evaluation.
AppendReadHead ==
    /\ writer # NoOne
    /\ writer.op = "append" /\ writer.pc = "begun"
    /\ ~HeadShared
    /\ writer' = [writer EXCEPT !.pc = "head_read", !.previous = head]
    /\ UNCHANGED <<chain, head, evaluator, asked, verdict, package, executions>>

\* The event, the head, the request's receipt and the outbox row are committed
\* together.
AppendCommit ==
    /\ writer # NoOne
    /\ writer.op = "append" /\ writer.pc = "head_read"
    /\ chain' = Append(chain, [event |-> writer.event, previous |-> writer.previous])
    /\ head' = Append(writer.previous, writer.event)
    /\ writer' = NoOne
    /\ UNCHANGED <<evaluator, asked, verdict, package, executions>>

\* A lost connection or a failed statement: nothing was written.
WriterAborts ==
    /\ writer # NoOne
    /\ writer' = NoOne
    /\ UNCHANGED <<chain, head, evaluator, asked, verdict, package, executions>>

-----------------------------------------------------------------------------
(* What evaluate_task and build_package compute from what they have read *)

\* first_sequence: where an event type is met first in the rows, 0 for never.
FirstSequence(ids, type) == SelectInSeq(ids, LAMBDA e : e \in type)

\* The six lifecycle events in order, and the first approval decision between the
\* policy evaluation and the credential.
LifecycleOrderValid(ids) ==
    LET at(i)    == FirstSequence(ids, Lifecycle[i])
        approval == FirstSequence(ids, Decisions)
    IN  /\ \A i \in 1 .. Len(Lifecycle) - 1 : 0 < at(i) /\ at(i) < at(i + 1)
        /\ approval # 0 => at(3) < approval /\ approval < at(4)

\* The hard gates, of the events, the executions found and those that succeeded.
HardGates(ids, found, succeeded) ==
    /\ \A i \in 1 .. Len(Lifecycle) : Lifecycle[i] \cap Range(ids) # {}
    /\ LifecycleOrderValid(ids)
    /\ found # {} /\ found \subseteq succeeded
    /\ Range(ids) \cap Alerts = {}

\* validate_chain_snapshot: sequence, links and head.
ChainSnapshotValid(rows, hash) ==
    /\ rows # <<>>
    /\ \A i \in 1 .. Len(rows) : rows[i].previous = SubSeq(Ids(rows), 1, i - 1)
    /\ Ids(rows) = hash

\* Every artifact reference must be an artifact:sha256 digest whose row exists (the
\* artifacts are taken as uploaded).  An approval decision refers to the URN of
\* its receipt, which is none.
Attestable(ids) == Range(ids) \cap Decisions = {}

-----------------------------------------------------------------------------
(* evaluate_task: every statement sees what is committed when it runs, and only  *)
(* the head's row is locked.                                                    *)

\* The caller reads the chain and asks for a verdict on the head it has seen.
EvaluateRequest ==
    /\ evaluator = NoOne
    /\ chain # <<>>
    /\ asked < MaxSigned /\ asked' = asked + 1
    /\ evaluator' = [pc |-> "requested", expected |-> head, read |-> <<>>,
                     found |-> {}, succeeded |-> {}]
    /\ UNCHANGED <<chain, head, writer, verdict, package, executions>>

\* SELECT .. FOR SHARE waits for an append that holds the row; another head than
\* the expected one is refused.
EvaluateLockHead ==
    /\ evaluator # NoOne
    /\ evaluator.pc = "requested"
    /\ ~(writer # NoOne /\ writer.op = "append" /\ writer.pc = "head_read")
    /\ evaluator' = IF evaluator.expected = head
                      THEN [evaluator EXCEPT !.pc = "locked"] ELSE NoOne
    /\ UNCHANGED <<chain, head, writer, asked, verdict, package, executions>>

\* The events are read and must be the snapshot of the head.
EvaluateReadChain ==
    /\ evaluator # NoOne
    /\ evaluator.pc = "locked"
    /\ evaluator' = IF ChainSnapshotValid(chain, evaluator.expected)
                      THEN [evaluator EXCEPT !.pc = "chain_read", !.read = Ids(chain)]
                      ELSE NoOne
    /\ UNCHANGED <<chain, head, writer, asked, verdict, package, executions>>

\* The executions of the task are read, without a lock.  (A SUCCEEDED one carries
\* its evidence_ref: SuccessCarriesEvidence of module Ledger.)
EvaluateReadExecutions ==
    /\ evaluator # NoOne
    /\ evaluator.pc = "chain_read"
    /\ evaluator' = [evaluator EXCEPT
                        !.pc = "executions_read",
                        !.found = {x \in Executions : executions[x] # "ABSENT"},
                        !.succeeded = {x \in Executions : executions[x] = "SUCCEEDED"}]
    /\ UNCHANGED <<chain, head, writer, asked, verdict, package, executions>>

\* The verdict is computed, signed, stored and committed.
EvaluateCommit ==
    /\ evaluator # NoOne
    /\ evaluator.pc = "executions_read"
    /\ verdict' = [head |-> evaluator.expected, events |-> evaluator.read,
                   executions |-> evaluator.found,
                   pass |-> HardGates(evaluator.read, evaluator.found,
                                     evaluator.succeeded)]
    /\ evaluator' = NoOne
    /\ UNCHANGED <<chain, head, writer, asked, package, executions>>

EvaluatorAborts ==
    /\ evaluator # NoOne
    /\ evaluator' = NoOne
    /\ UNCHANGED <<chain, head, writer, asked, verdict, package, executions>>

-----------------------------------------------------------------------------
(* build_package *)

\* The advisory lock is granted and the request is new.
PackageBegin ==
    /\ writer = NoOne
    /\ chain # <<>>
    /\ asked < MaxSigned /\ asked' = asked + 1
    /\ writer' = [op |-> "package", event |-> NoOne, pc |-> "begun", previous |-> <<>>,
                  read |-> <<>>]
    /\ UNCHANGED <<chain, head, evaluator, verdict, package, executions>>

\* The head is read FOR SHARE; another one than the request expects is refused.
PackageReadHead ==
    /\ writer # NoOne
    /\ writer.op = "package" /\ writer.pc = "begun"
    /\ writer' \in {[writer EXCEPT !.pc = "head_read", !.previous = head], NoOne}
    /\ UNCHANGED <<chain, head, evaluator, asked, verdict, package, executions>>

\* The events and the artifacts they refer to are read and checked.
PackageReadChain ==
    /\ writer # NoOne
    /\ writer.op = "package" /\ writer.pc = "head_read"
    /\ writer' = IF ChainSnapshotValid(chain, writer.previous) /\ Attestable(Ids(chain))
                   THEN [writer EXCEPT !.pc = "chain_read", !.read = Ids(chain)] ELSE NoOne
    /\ UNCHANGED <<chain, head, evaluator, asked, verdict, package, executions>>

\* The package is signed, stored and committed.
PackageCommit ==
    /\ writer # NoOne
    /\ writer.op = "package" /\ writer.pc = "chain_read"
    /\ package' = [head |-> writer.previous, events |-> writer.read]
    /\ writer' = NoOne
    /\ UNCHANGED <<chain, head, evaluator, asked, verdict, executions>>

-----------------------------------------------------------------------------
(* The rows of the executions, as the transaction ledger moves them.           *)

\* reserve and the marks of module Ledger.
LedgerMayMove(from) ==
    CASE from = "ABSENT"   -> {"PREPARED"}
      [] from = "PREPARED" -> {"RUNNING", "FAILED"}
      [] from = "RUNNING"  -> {"SUCCEEDED", "FAILED", "UNKNOWN"}
      [] from = "UNKNOWN"  -> {"SUCCEEDED"}
      [] OTHER             -> {}

\* The share lock of append_execution holds the row until it commits.
ExecutionMoves(x, status) ==
    /\ writer # NoOne => writer.event # x
    /\ status \in LedgerMayMove(executions[x])
    /\ executions' = [executions EXCEPT ![x] = status]
    /\ UNCHANGED <<chain, head, writer, evaluator, asked, verdict, package>>
=============================================================================
