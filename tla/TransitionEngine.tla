-------------------------- MODULE TransitionEngine --------------------------
(***************************************************************************)
(* AuthoritativeTransitionEngine (rust/crates/durable-orchestrator,        *)
(* runtime.rs) and StateTransitionGuard (rust/crates/contracts): the       *)
(* stateless judge of task transitions.  The caller passes the current     *)
(* task state and a command and gets the next state or an error.           *)
(*                                                                         *)
(* A command is its fingerprint: two commands are the same when every      *)
(* field of it is.                                                         *)
(***************************************************************************)
EXTENDS Naturals, Sequences, FiniteSets

CONSTANTS
    HasSideEffects,  \* the task's action changes the target
    MaxRoutine,      \* MAX_ROUTINE_COMMANDS (10 000)
    MaxProcessed     \* MAX_PROCESSED_COMMANDS (10 257)

ASSUME EngineAssumption ==
    /\ HasSideEffects \in BOOLEAN
    /\ MaxRoutine \in Nat
    /\ MaxProcessed \in Nat \ {0}

TaskStatus ==
    {"CREATED", "PLANNED", "POLICY_CHECKED", "APPROVAL_PENDING", "APPROVED",
     "RUNNING", "PAUSE_REQUESTED", "PAUSED", "CANCEL_REQUESTED", "CANCELLING",
     "KILL_REQUESTED", "KILLED", "VERIFYING", "COMPLETED", "DENIED", "FAILED",
     "EVALUATION_FAILED", "COMPENSATING", "ROLLED_BACK", "NEEDS_HUMAN",
     "MANUAL_RECOVERY_REQUIRED"}

CommandTypes == {"START", "PAUSE", "RESUME", "CANCEL", "KILL", "CHECKPOINT",
                 "VERIFY", "COMPLETE", "NEEDS_HUMAN"}

TerminalStatus == {"COMPLETED", "KILLED", "FAILED", "ROLLED_BACK", "DENIED"}
Terminal(task) == task.status \in TerminalStatus

\* transition_path: the statuses a command takes a task through; a pair that is
\* not here is TransitionDenied.
Path ==
    [p \in {<<"CREATED", "START">>, <<"PAUSED", "RESUME">>, <<"RUNNING", "PAUSE">>,
            <<"RUNNING", "CANCEL">>, <<"RUNNING", "KILL">>, <<"PAUSED", "KILL">>,
            <<"RUNNING", "VERIFY">>, <<"VERIFYING", "COMPLETE">>,
            <<"RUNNING", "NEEDS_HUMAN">>, <<"VERIFYING", "NEEDS_HUMAN">>,
            <<"RUNNING", "CHECKPOINT">>, <<"PAUSED", "CHECKPOINT">>} |->
        CASE p[2] = "START"       -> <<"PLANNED", "POLICY_CHECKED", "APPROVED", "RUNNING">>
          [] p[2] = "RESUME"      -> <<"RUNNING">>
          [] p[2] = "PAUSE"       -> <<"PAUSE_REQUESTED", "PAUSED">>
          [] p[2] = "CANCEL"      -> <<"CANCEL_REQUESTED", "CANCELLING">>
          [] p[2] = "KILL"        -> <<"KILL_REQUESTED", "KILLED">>
          [] p[2] = "VERIFY"      -> <<"VERIFYING">>
          [] p[2] = "COMPLETE"    -> <<"COMPLETED">>
          [] p[2] = "NEEDS_HUMAN" -> <<"NEEDS_HUMAN">>
          [] p[2] = "CHECKPOINT"  -> <<>>]

\* StateTransitionGuard::allows; passed: the evaluation passed every hard gate.
\* That the compensation is verified is the evidence service's word (external).
GuardAllows(from, to, passed) ==
    \/ <<from, to>> \in
         {<<"CREATED", "PLANNED">>, <<"PLANNED", "POLICY_CHECKED">>,
          <<"POLICY_CHECKED", "APPROVAL_PENDING">>, <<"POLICY_CHECKED", "APPROVED">>,
          <<"APPROVAL_PENDING", "APPROVED">>, <<"APPROVED", "RUNNING">>,
          <<"RUNNING", "VERIFYING">>, <<"RUNNING", "PAUSE_REQUESTED">>,
          <<"PAUSE_REQUESTED", "PAUSED">>, <<"PAUSED", "RUNNING">>,
          <<"RUNNING", "CANCEL_REQUESTED">>, <<"CANCEL_REQUESTED", "CANCELLING">>,
          <<"RUNNING", "KILL_REQUESTED">>, <<"PAUSED", "KILL_REQUESTED">>,
          <<"KILL_REQUESTED", "KILLED">>}
    \/ to \in {"DENIED", "NEEDS_HUMAN", "MANUAL_RECOVERY_REQUIRED"}
    \/ from = "VERIFYING" /\ to = "COMPLETED" /\ passed
    \/ from = "RUNNING" /\ to = "FAILED" /\ ~HasSideEffects
    \/ from \in {"RUNNING", "FAILED"} /\ to = "COMPENSATING" /\ HasSideEffects
    \/ from = "COMPENSATING" /\ to = "ROLLED_BACK"

\* The statuses visited, the current one first.
Visited(status, type) == <<status>> \o Path[<<status, type>>]

PathAllowed(status, type, passed) ==
    LET visited == Visited(status, type)
    IN  \A i \in 1 .. Len(visited) - 1 : GuardAllows(visited[i], visited[i + 1], passed)

\* The next status: the last one visited.
Target(status, type) ==
    LET visited == Visited(status, type) IN visited[Len(visited)]

-----------------------------------------------------------------------------
\* A command of the given set with the same command id or idempotency key.
Matches(c, d) == c.id = d.id \/ c.key = d.key
Known(c, commands) == \E d \in commands : Matches(c, d)
Clashes(c, commands) == \E d \in commands : Matches(c, d) /\ c # d

\* preflight_transition: the last place is for KILL, the last 256 before it for
\* lifecycle control.
HasCapacity(task, c) ==
    LET processed == Cardinality(task.processed)
    IN  \/ c.type = "KILL" /\ processed < MaxProcessed
        \/ /\ c.type # "KILL" /\ processed < MaxProcessed - 1
           /\ c.type \in {"START", "CHECKPOINT"} => processed < MaxRoutine

\* Mutant: the expected version is not compared.
ApplicableAnyVersion(task, c) ==
    /\ ~Known(c, task.processed) /\ ~Terminal(task)
    /\ <<task.status, c.type>> \in DOMAIN Path
    /\ HasCapacity(task, c)

\* What `apply` checks before it asks anybody for facts.
Applicable(task, c) ==
    /\ ~Known(c, task.processed)
    /\ c.version = task.cursor
    /\ ~Terminal(task)
    /\ <<task.status, c.type>> \in DOMAIN Path
    /\ HasCapacity(task, c)

\* Mutant: the ledger's status is not part of completion.
PermittedWithoutLedger(task, c, ledger, passed, contained, revoked) ==
    /\ PathAllowed(task.status, c.type, passed)
    /\ c.type \in {"START", "RESUME", "CHECKPOINT", "VERIFY"} => ~revoked
    /\ c.type = "KILL" => contained /\ revoked
    /\ c.type \in {"VERIFY", "COMPLETE"} => passed
    /\ c.type = "NEEDS_HUMAN" => ledger \in {"FAILED", "UNKNOWN"}

\* Mutant: the revocation of the lease is not waited for.
PermittedUnrevoked(task, c, ledger, passed, contained, revoked) ==
    /\ PathAllowed(task.status, c.type, passed)
    /\ c.type = "KILL" => contained
    /\ c.type \in {"VERIFY", "COMPLETE"} => passed /\ ledger = "SUCCEEDED"
    /\ c.type = "NEEDS_HUMAN" => ledger \in {"FAILED", "UNKNOWN"}

\* apply_resolved_transition with the facts of ProductionFactResolver: the
\* ledger's status, the evaluator's verdict, containment and revocation.
Permitted(task, c, ledger, passed, contained, revoked) ==
    /\ PathAllowed(task.status, c.type, passed)
    /\ c.type \in {"START", "RESUME", "CHECKPOINT", "VERIFY"} => ~revoked
    /\ c.type = "KILL" => contained /\ revoked
    /\ c.type \in {"VERIFY", "COMPLETE"} => passed
    /\ c.type = "COMPLETE" /\ HasSideEffects => ledger = "SUCCEEDED"
    /\ c.type = "NEEDS_HUMAN" =>
         ledger \in {"FAILED", "TIMED_OUT", "CANCELLED", "COMPENSATED",
                     "COMPENSATION_FAILED", "UNKNOWN"}
    /\ c.type \in {"CANCEL", "VERIFY", "COMPLETE"} => ledger # "NONE"

Applied(task, c) ==
    [status |-> Target(task.status, c.type), cursor |-> task.cursor + 1,
     processed |-> task.processed \cup {c}]
=============================================================================
