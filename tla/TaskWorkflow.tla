---------------------------- MODULE TaskWorkflow ----------------------------
(***************************************************************************)
(* TaskWorkflow of python/durable_worker/worker.py, the Temporal workflow  *)
(* of one task, with the transition engine it calls, the orchestrator API  *)
(* that feeds it and the execution it polls.                               *)
(*                                                                         *)
(* The workflow is single threaded: signals and updates run between two    *)
(* awaits of run().  run() awaits in two places, the execution poll and    *)
(* the transition of one command.  An exception that leaves run() fails    *)
(* the workflow task, which Temporal replays, with the same result, for    *)
(* ever: the workflow is stuck.                                            *)
(***************************************************************************)
EXTENDS TransitionEngine

CONSTANTS
    Requests,        \* what API callers ask for: [id, key, type]
    StartRequest,    \* the START the workflow is created with
    RejectionLimit,  \* 1024: entries of the rejection history
    MaxReads         \* bound on the calls of the API for one request

ASSUME WorkflowAssumption ==
    /\ RejectionLimit \in Nat \ {0}
    /\ MaxReads \in Nat
    /\ StartRequest.type = "START"
    /\ \A r \in Requests : r.type \in CommandTypes

VARIABLES
    task,       \* _current: status, recovery_cursor, processed commands
    queue,      \* _commands (and the two maps of what is queued)
    rejected,   \* _rejected_command_fingerprints / _rejected_idempotency_keys
    step,       \* the command whose child workflow runs, as a set
    active,     \* _execution_active
    wpc,        \* where run() is
    why,        \* the exception that left run()
    sent,       \* commands the API built and may still (re)deliver
    admitted,   \* history: every command ever taken into the queue
    ledger,     \* the status of the task's execution (external)
    contained,  \* the supervisor has contained the runtime (external)
    revoked     \* the credential lease is revoked (external)

vars == <<task, queue, rejected, step, active, wpc, why, sent, admitted,
          ledger, contained, revoked>>
worldVars == <<ledger, contained, revoked>>

\* What command_fingerprint covers: who asks for it is part of a command.
Versioned(r, version) ==
    [id |-> r.id, key |-> r.key, type |-> r.type, by |-> "caller", version |-> version]
Elements(s) == {s[i] : i \in 1 .. Len(s)}

Init ==
    /\ task = [status |-> "CREATED", cursor |-> 0, processed |-> {}]
    /\ queue = <<Versioned(StartRequest, 0)>>
    /\ rejected = {}
    /\ step = {}
    /\ active = FALSE
    /\ wpc = "loop"
    /\ why = "none"
    /\ sent = {Versioned(StartRequest, 0)}
    /\ admitted = {Versioned(StartRequest, 0)}
    /\ ledger = "NONE"
    /\ contained = FALSE
    /\ revoked = FALSE

Live == wpc \notin {"stuck", "done"}
Stuck(reason) == wpc' = "stuck" /\ why' = reason

-----------------------------------------------------------------------------
(* _TaskWorkflowCore.command *)

\* Queued and rejected commands share one capacity; its last place is for KILL.
\* (A queue as long as its maxlen is already beyond this capacity, so the
\* eviction branch behind ORCHESTRATOR_COMMAND_QUEUE_FULL is never entered.)
HasRoom(c, waiting, history) ==
    LET used == Cardinality(history) + Len(waiting)
    IN  used < RejectionLimit - 1 \/ (c.type = "KILL" /\ used < RejectionLimit)

\* What is queued or rejected is looked up; what is in flight or processed is not.
Admissible(c, waiting, history) ==
    /\ ~Known(c, Elements(waiting))
    /\ ~Known(c, history)
    /\ HasRoom(c, waiting, history)

Enqueued(c, waiting) == IF c.type = "KILL" THEN <<c>> \o waiting ELSE Append(waiting, c)

\* Mutant: the last place of the history is never used.
RecordableBelow(commands, history) ==
    /\ \A c \in commands : ~Clashes(c, history)
    /\ Cardinality(commands \cup history) < RejectionLimit

\* record_rejection succeeds: no other fingerprint under the id or key, and the
\* history has room.
Recordable(commands, history) ==
    /\ \A c \in commands : ~Clashes(c, history)
    /\ Cardinality(commands \cup history) <= RejectionLimit

\* The reason record_rejection raises.
Raised(commands, history) ==
    IF \E c \in commands : Clashes(c, history) THEN "conflict" ELSE "history"

-----------------------------------------------------------------------------
(* OrchestratorApi.control and bff_command *)

\* bff_command looks a request up by command id and by idempotency key; control,
\* whose key is the command id, by command id only.
Undecided(r) ==
    LET decided == task.processed \cup rejected
    IN  \/ ~Known(r, decided)
        \/ r.key = r.id /\ \A d \in decided : d.id # r.id

\* The API reads the workflow's state, answers what it already finds processed
\* or rejected, and builds the command for the version it read.
ApiReads(r) ==
    /\ Live
    /\ Undecided(r)
    /\ Cardinality({c \in sent : c.id = r.id}) < MaxReads
    /\ sent' = sent \cup {Versioned(r, task.cursor)}
    /\ UNCHANGED <<task, queue, rejected, step, active, wpc, why, admitted, worldVars>>

\* The update (or signal) arrives, at any later time and more than once when
\* the caller retries.  A refused or duplicate command changes nothing.
Deliver(c) ==
    /\ Live
    /\ Admissible(c, queue, rejected)
    /\ queue' = Enqueued(c, queue)
    /\ admitted' = admitted \cup {c}
    /\ UNCHANGED <<task, rejected, step, active, wpc, why, sent, worldVars>>

-----------------------------------------------------------------------------
(* TaskWorkflow.run *)

\* _enqueue_internal: one id per task and command type, at the current version.
SystemCommand(type, version) ==
    [id |-> <<"system", type>>, key |-> <<"system", type>>, type |-> type,
     by |-> "service:durable-worker", version |-> version]

\* Nothing queued: one short call of the execution service, which dispatches
\* the action the first time and polls it afterwards.
PollBegins ==
    /\ wpc = "loop" /\ queue = <<>> /\ active
    /\ wpc' = "poll"
    /\ ledger' \in {ledger, IF ledger = "NONE" THEN "RUNNING" ELSE ledger}
    /\ UNCHANGED <<task, queue, rejected, step, active, why, sent, admitted,
                   contained, revoked>>

\* Dependency exhaustion, or an execution that is still going on.
PollAgain ==
    /\ wpc = "poll"
    /\ wpc' = "loop"
    /\ UNCHANGED <<task, queue, rejected, step, active, why, sent, admitted, worldVars>>

\* execution_followup_command, for the statuses the ledger can reach; any other
\* status is not a follow-up (PREPARED, RUNNING).
Followup == [s \in {"SUCCEEDED", "FAILED", "UNKNOWN"} |->
                IF s = "SUCCEEDED" THEN "VERIFY" ELSE "NEEDS_HUMAN"]

\* Only run() makes system commands, and a poll finds none queued: the follow-up
\* never meets itself in the queue, so `command` either takes it or raises.
PollFinds ==
    /\ wpc = "poll"
    /\ ledger \in DOMAIN Followup
    /\ LET c == SystemCommand(Followup[ledger], task.cursor)
       IN  \/ /\ Admissible(c, queue, rejected)
              /\ active' = FALSE /\ wpc' = "loop"
              /\ queue' = Enqueued(c, queue) /\ admitted' = admitted \cup {c}
              /\ UNCHANGED why
           \/ /\ ~Admissible(c, queue, rejected)
              /\ Stuck("followup")
              /\ UNCHANGED <<active, queue, admitted>>
    /\ UNCHANGED <<task, rejected, step, sent, worldVars>>

\* The next command: dropped if it was processed before, refused with an
\* exception if its id or key was processed under another fingerprint.
Pop ==
    /\ wpc = "loop" /\ queue # <<>>
    /\ LET c == Head(queue)
       IN  \/ /\ c \in task.processed
              /\ queue' = Tail(queue)
              /\ UNCHANGED <<step, wpc, why>>
           \/ /\ c \notin task.processed /\ Known(c, task.processed)
              /\ Stuck("conflict")
              /\ UNCHANGED <<queue, step>>
           \/ /\ ~Known(c, task.processed)
              /\ queue' = Tail(queue) /\ step' = {c}
              /\ wpc' = "step"
              /\ UNCHANGED why
    /\ UNCHANGED <<task, rejected, active, sent, admitted, worldVars>>

\* KILL reaches the supervisor and then the lease authority before anything
\* else is asked; either call may fail, and so may the way back.
Contain(c) ==
    /\ wpc = "step" /\ step = {c}
    /\ c.type = "KILL" /\ Applicable(task, c)
    /\ \/ ~contained /\ contained' = TRUE /\ UNCHANGED revoked
       \/ contained /\ ~revoked /\ revoked' = TRUE /\ UNCHANGED contained
    /\ UNCHANGED <<task, queue, rejected, step, active, wpc, why, sent, admitted, ledger>>

\* Mutant: a refused command goes back to the queue.
StepRetried(c) ==
    /\ wpc = "step" /\ step = {c}
    /\ queue' = Append(queue, c)
    /\ step' = {} /\ wpc' = "loop"
    /\ UNCHANGED <<task, rejected, active, why, sent, admitted, worldVars>>

\* The engine refuses, or its dependencies stay unavailable through all of the
\* child workflow's attempts: a durable rejection.
StepRejected(c) ==
    /\ wpc = "step" /\ step = {c}
    /\ \/ /\ Recordable({c}, rejected)
          /\ rejected' = rejected \cup {c}
          /\ step' = {} /\ wpc' = "loop"
          /\ UNCHANGED why
       \/ /\ ~Recordable({c}, rejected)
          /\ Stuck(Raised({c}, rejected))
          /\ UNCHANGED <<rejected, step>>
    /\ UNCHANGED <<task, queue, active, sent, admitted, worldVars>>

\* Mutant: PAUSE leaves the execution active.
ActiveAfterPause(c, status) ==
    IF c.type \in {"START", "RESUME"} /\ status = "RUNNING" THEN TRUE
    ELSE IF c.type \in {"CANCEL", "KILL", "NEEDS_HUMAN"} THEN FALSE
    ELSE active

\* _execution_active after an accepted command.
ActiveAfter(c, status) ==
    IF c.type \in {"START", "RESUME"} /\ status = "RUNNING" THEN TRUE
    ELSE IF c.type \in {"PAUSE", "CANCEL", "KILL", "NEEDS_HUMAN"} THEN FALSE
    ELSE active

\* Mutant: the queue is cleared without rejections.
StepEndsForgetting(c, next) ==
    /\ Terminal(next)
    /\ task' = next
    /\ queue' = <<>> /\ step' = {}
    /\ active' = ActiveAfter(c, next.status)
    /\ wpc' = "done"
    /\ UNCHANGED <<admitted, rejected, why>>

\* Mutant: run() does not leave its loop.
StepEndsLooping(c, next) ==
    /\ Terminal(next)
    /\ Recordable(Elements(queue), rejected)
    /\ task' = next
    /\ rejected' = rejected \cup Elements(queue)
    /\ queue' = <<>> /\ step' = {}
    /\ active' = ActiveAfter(c, next.status)
    /\ wpc' = "loop"
    /\ UNCHANGED <<admitted, why>>

\* A terminal transition rejects whatever is queued and ends the workflow.
StepEnds(c, next) ==
    /\ Terminal(next)
    /\ \/ /\ Recordable(Elements(queue), rejected)
          /\ task' = next
          /\ rejected' = rejected \cup Elements(queue)
          /\ queue' = <<>> /\ step' = {}
          /\ active' = ActiveAfter(c, next.status)
          /\ wpc' = "done"
          /\ UNCHANGED why
       \/ /\ ~Recordable(Elements(queue), rejected)
          /\ Stuck(Raised(Elements(queue), rejected))
          /\ UNCHANGED <<task, queue, rejected, step, active>>
    /\ UNCHANGED admitted

\* Any other transition; VERIFY is followed by the system's COMPLETE.
StepContinues(c, next) ==
    /\ ~Terminal(next)
    /\ LET complete == SystemCommand("COMPLETE", next.cursor)
           followed == c.type = "VERIFY"
       IN  \/ /\ followed => Admissible(complete, queue, rejected)
              /\ task' = next
              /\ step' = {} /\ wpc' = "loop"
              /\ active' = ActiveAfter(c, next.status)
              /\ queue' = IF followed THEN Enqueued(complete, queue) ELSE queue
              /\ admitted' = IF followed THEN admitted \cup {complete} ELSE admitted
              /\ UNCHANGED why
           \/ /\ followed /\ ~Admissible(complete, queue, rejected)
              /\ Stuck("followup")
              /\ UNCHANGED <<task, step, active, queue, admitted>>
    /\ UNCHANGED rejected

StepAccepted(c) ==
    /\ wpc = "step" /\ step = {c}
    /\ Applicable(task, c)
    /\ \E passed \in BOOLEAN : Permitted(task, c, ledger, passed, contained, revoked)
    /\ LET next == Applied(task, c) IN StepEnds(c, next) \/ StepContinues(c, next)
    /\ UNCHANGED <<sent, worldVars>>

\* The execution goes its way in the ledger (external).
LedgerMoves ==
    /\ \/ ledger = "RUNNING" /\ ledger' \in {"SUCCEEDED", "FAILED", "UNKNOWN"}
       \/ ledger = "UNKNOWN" /\ ledger' = "SUCCEEDED"
    /\ UNCHANGED <<task, queue, rejected, step, active, wpc, why, sent, admitted,
                   contained, revoked>>

-----------------------------------------------------------------------------
RunStep ==
    \/ PollBegins \/ PollAgain \/ PollFinds \/ Pop
    \/ \E c \in step : StepRejected(c) \/ StepAccepted(c)

Next ==
    \/ RunStep
    \/ \E c \in step : Contain(c)
    \/ \E r \in Requests : ApiReads(r)
    \/ \E c \in sent : Deliver(c)
    \/ LedgerMoves

\* Temporal schedules a runnable workflow, and both activities are bounded by
\* timeouts and retry limits, so run() always goes on.
Spec == Init /\ [][Next]_vars /\ WF_vars(RunStep)

-----------------------------------------------------------------------------
\* The optimistic lock: exactly one command was applied at every version up to
\* the cursor, and no command id or idempotency key was applied twice, however
\* often commands are redelivered, rebuilt for another version or retried.
AppliedOncePerVersion ==
    /\ {c.version : c \in task.processed} = 0 .. task.cursor - 1
    /\ Cardinality(task.processed) = task.cursor
    /\ \A c, d \in task.processed : Matches(c, d) => c = d

\* "An accepted transport signal is never silently discarded": every command
\* that was ever queued is applied, rejected, in flight or still queued.
NoCommandLost ==
    admitted \subseteq task.processed \cup rejected \cup step \cup Elements(queue)

\* "Completion requires ... ledger success for side effects": a COMPLETED task
\* was verified first, and its execution is SUCCEEDED in the ledger.
CompletedIsVerified ==
    task.status = "COMPLETED" =>
        /\ HasSideEffects => ledger = "SUCCEEDED"
        /\ \E c \in task.processed : c.type = "VERIFY"

\* "Never report the task killed until acknowledgement arrives".
KilledIsContained == task.status = "KILLED" => contained /\ revoked

\* A paused, cancelled, escalated or terminal task is not dispatched or polled.
PollsOnlyRunningTask ==
    wpc = "poll" => task.status \in {"RUNNING", "VERIFYING"}

\* A terminal task stays what it is and leaves nothing undecided behind.
TerminalIsFinal ==
    [][ Terminal(task) => task' = task /\ queue' = <<>> /\ rejected' = rejected ]_vars

\* Every request that reaches the queue is decided, whatever else keeps
\* arriving, unless run() itself fails.
QueuedIsDecided ==
    \A r \in Requests :
        Known(r, Elements(queue)) ~> (Known(r, task.processed \cup rejected) \/ wpc = "stuck")

\* An exception leaves run() only where an id or a key is used again: for another
\* command while its first one was in flight, for a follow-up that was rejected
\* before or whose name a caller took, or by the one command in flight that the
\* rejection history did not count.  A workflow that meets each id and key once and
\* leaves its history room never fails.
FailsOnlyOnReuse ==
    /\ why = "conflict" => \E c, d \in admitted : Matches(c, d) /\ c # d
    /\ why = "followup" =>
         \/ \E c \in rejected \cup (Elements(queue) \cap sent), type \in CommandTypes :
              Matches(c, SystemCommand(type, 0))
         \/ Cardinality(rejected) + Len(queue) >= RejectionLimit - 1
    /\ why = "history" => Cardinality(rejected \cup step \cup Elements(queue)) > RejectionLimit
=============================================================================
