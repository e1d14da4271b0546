---------------------------- MODULE PolicyActivation ----------------------------
(***************************************************************************)
(* Activation of signed policy bundles across three services: the policy   *)
(* executor (rust/crates/policy-administration/src/authority.rs), the PEP  *)
(* (rust/crates/policy-pep/src/activation.rs and postgres.rs) and the PDP  *)
(* (external, idempotent by activation).  PROMOTE and ROLLBACK commit an   *)
(* intent, call the PEP, and complete in a second transaction; the PEP     *)
(* claims the request, calls the PDP and completes likewise.               *)
(*                                                                         *)
(* A transaction is one action: its row and advisory locks serialise it,   *)
(* and a deadlock victim is one of the faults.  Execution, intent and      *)
(* promotion rows of a command change in the same transactions and are one *)
(* record; a database trigger lets a policy's resource version advance     *)
(* only by one.  Bundles are signed and verify; impact reports exist.      *)
(***************************************************************************)
EXTENDS Naturals, FiniteSets

CONSTANTS
    Commands,    \* PROMOTE and ROLLBACK commands, named by their command_id
    Bundles,     \* signed bundles
    PolicyOf,    \* the policy a bundle was compiled from
    Stages,      \* environments in promotion order: 1 is DEV
    Executors,   \* calls of PolicyExecutor::execute in progress
    Handlers,    \* calls of PepAuthority::activate_policy in progress
    MaxVersion,  \* bound on the resource version of a policy
    MaxFaults,   \* bound on timeouts, crashes, refused calls and slow owners
    NoOne

Environments == 1 .. Stages

\* A row of policy_activation_intents, with its promotion and execution.
Intent ==
    [op : {"PROMOTE", "ROLLBACK"}, env : Environments, bundle : Bundles, seq : Nat,
     prev : Bundles \cup {NoOne}, expected : Nat,
     state : {"PENDING", "UNKNOWN", "ACTIVE", "SUPERSEDED", "ROLLED_BACK"},
     owner : Executors, live : BOOLEAN]

ASSUME ActivationAssumption ==
    /\ Stages \in Nat \ {0} /\ MaxVersion \in Nat /\ MaxFaults \in Nat
    /\ NoOne \notin Commands \cup Bundles \cup Executors \cup Handlers \cup Intent

VARIABLES
    version,     \* policy_resource_versions by policy
    deprecated,  \* bundles with status DEPRECATED
    intents,     \* policy_activation_intents with their promotion and execution
    executors,   \* the calls of the policy executor
    wire,        \* activation requests on their way to the PEP, with their sender
    claims,      \* pep_policy_activation_requests by command
    enforced,    \* pep_active_policy_bundles by environment
    loaded,      \* PDP: the activation in force by environment
    answered,    \* PDP: activations it has performed
    handlers,    \* the calls being served by the PEP
    faults       \* faults so far

vars == <<version, deprecated, intents, executors, wire, claims, enforced, loaded,
          answered, handlers, faults>>
adminVars == <<version, deprecated, intents>>
pepVars == <<claims, enforced>>
pdpVars == <<loaded, answered>>

Policies == {PolicyOf[b] : b \in Bundles}
Idle == [pc |-> "idle", cmd |-> NoOne]
Free == [pc |-> "free", cmd |-> NoOne, caller |-> NoOne]
NoClaim == [state |-> "NONE", owner |-> NoOne, live |-> FALSE]

\* Calls are interchangeable: the first one that is free stands for any.
Takes(x) == executors[x] = Idle /\ x = CHOOSE y \in Executors : executors[y] = Idle
Serves(h) == handlers[h] = Free /\ h = CHOOSE g \in Handlers : handlers[g] = Free

Init ==
    /\ version = [p \in Policies |-> 0]
    /\ deprecated = {}
    /\ intents = [c \in Commands |-> NoOne]
    /\ executors = [x \in Executors |-> Idle]
    /\ wire = {}
    /\ claims = [c \in Commands |-> NoClaim]
    /\ enforced = [e \in Environments |-> NoOne]
    /\ loaded = [e \in Environments |-> NoOne]
    /\ answered = {}
    /\ handlers = [h \in Handlers |-> Free]
    /\ faults = 0

Fault == faults < MaxFaults /\ faults' = faults + 1

-----------------------------------------------------------------------------
(* The administration's tables                                              *)

In(e, states) ==
    {c \in Commands : intents[c] # NoOne /\ intents[c].env = e /\ intents[c].state \in states}

Active(e) == In(e, {"ACTIVE"})
Unresolved(e) == In(e, {"PENDING", "UNKNOWN"})
WasActive(e) == In(e, {"SUPERSEDED", "ROLLED_BACK"})

Bundle(c) == IF c = NoOne THEN NoOne ELSE intents[c].bundle
Current(e) == IF Active(e) = {} THEN NoOne ELSE CHOOSE c \in Active(e) : TRUE
NextSequence(e) == 1 + Cardinality(Active(e) \cup Unresolved(e) \cup WasActive(e))
Policy(c) == PolicyOf[intents[c].bundle]

\* The executor has work to do for the command, or the PEP for the request.
Owned(c) == \E x \in Executors : executors[x].cmd = c /\ intents[c].owner = x
Handled(c) == \E h \in Handlers : handlers[h].cmd = c /\ claims[c].owner = h

\* Mutant: a promotion the PEP has not confirmed opens the next environment.
PassedEarly(b, e) ==
    e = 1 \/ \E c \in Active(e - 1) \cup Unresolved(e - 1) : intents[c].bundle = b

\* PROMOTE needs the bundle to be active in the environment before.
Passed(b, e) == e = 1 \/ \E c \in Active(e - 1) : intents[c].bundle = b

\* ROLLBACK replaces a bundle of the same policy by one that was active before.
MayRollBack(b, e) ==
    /\ Current(e) # NoOne /\ Policy(Current(e)) = PolicyOf[b]
    /\ \E c \in WasActive(e) : intents[c].bundle = b

-----------------------------------------------------------------------------
(* PolicyExecutor::execute                                                  *)

\* Every other operation of a policy: drafts, validation, simulation, reviews, signing
\* and exceptions change nothing an activation reads but the version.
Lifecycle(p) ==
    /\ version[p] < MaxVersion
    /\ version' = [version EXCEPT ![p] = @ + 1]
    /\ UNCHANGED <<deprecated, intents, executors, wire, pepVars, pdpVars, handlers, faults>>

Deprecate(b) ==
    /\ b \notin deprecated /\ version[PolicyOf[b]] < MaxVersion
    /\ \A e \in Environments : \A c \in Active(e) : intents[c].bundle # b
    /\ deprecated' = deprecated \cup {b}
    /\ version' = [version EXCEPT ![PolicyOf[b]] = @ + 1]
    /\ UNCHANGED <<intents, executors, wire, pepVars, pdpVars, handlers, faults>>

\* The first transaction of an activation.  A unique index admits one unresolved
\* promotion per environment.  A new command has a command_id nobody has used.
PrepareNew(x, op, e, b) ==
    LET c == CHOOSE d \in Commands : intents[d] = NoOne IN
    /\ Takes(x) /\ \E d \in Commands : intents[d] = NoOne
    /\ version[PolicyOf[b]] < MaxVersion
    /\ b \notin deprecated
    /\ op = "PROMOTE" => Passed(b, e)
    /\ op = "ROLLBACK" => MayRollBack(b, e)
    /\ Bundle(Current(e)) # b
    /\ Unresolved(e) = {}
    /\ intents' = [intents EXCEPT ![c] =
          [op |-> op, env |-> e, bundle |-> b, seq |-> NextSequence(e),
           prev |-> Bundle(Current(e)), expected |-> version[PolicyOf[b]],
           state |-> "PENDING", owner |-> x, live |-> TRUE]]
    /\ executors' = [executors EXCEPT ![x] = [pc |-> "prepared", cmd |-> c]]
    /\ UNCHANGED <<version, deprecated, wire, pepVars, pdpVars, handlers, faults>>

\* Mutant: a claim whose owner died is not taken over.
ReclaimableUnknown(c) == intents[c].state = "UNKNOWN"

Reclaimable(c) ==
    \/ intents[c].state = "UNKNOWN"
    \/ intents[c].state = "PENDING" /\ ~intents[c].live

\* The exact command again: the version it was admitted for is checked first.
PrepareAgain(x, c) ==
    /\ Takes(x) /\ intents[c] # NoOne
    /\ version[Policy(c)] = intents[c].expected
    /\ Reclaimable(c)
    /\ intents' = [intents EXCEPT ![c].state = "PENDING", ![c].owner = x, ![c].live = TRUE]
    /\ executors' = [executors EXCEPT ![x] = [pc |-> "prepared", cmd |-> c]]
    /\ UNCHANGED <<version, deprecated, wire, pepVars, pdpVars, handlers, faults>>

Activate(x) ==
    /\ executors[x].pc = "prepared"
    /\ executors' = [executors EXCEPT ![x].pc = "calling"]
    /\ wire' = wire \cup {[cmd |-> executors[x].cmd, caller |-> x]}
    /\ UNCHANGED <<adminVars, pepVars, pdpVars, handlers, faults>>

\* Nobody will answer x any more: its request stays on its way, or in progress.
HangsUp(x) ==
    /\ wire' = {IF m.caller = x THEN [m EXCEPT !.caller = NoOne] ELSE m : m \in wire}
    /\ handlers' = [h \in Handlers |->
          IF handlers[h].caller = x THEN [handlers[h] EXCEPT !.caller = NoOne] ELSE handlers[h]]

Awaited(x) ==
    \/ \E m \in wire : m.caller = x
    \/ \E h \in Handlers : handlers[h].caller = x

CallTimesOut(x) ==
    /\ executors[x].pc = "calling"
    /\ IF Awaited(x) THEN Fault ELSE UNCHANGED faults
    /\ executors' = [executors EXCEPT ![x].pc = "failed"]
    /\ HangsUp(x)
    /\ UNCHANGED <<adminVars, pepVars, pdpVars>>

OwnsIntent(x, c) == intents[c].state = "PENDING" /\ intents[c].owner = x

MarkUnknown(x) ==
    LET c == executors[x].cmd IN
    /\ executors[x].pc = "failed"
    /\ intents' = IF OwnsIntent(x, c) THEN [intents EXCEPT ![c].state = "UNKNOWN"] ELSE intents
    /\ executors' = [executors EXCEPT ![x] = Idle]
    /\ UNCHANGED <<version, deprecated, wire, pepVars, pdpVars, handlers, faults>>

\* The second transaction; whatever it refuses leaves the intent PENDING.
Complete(x) ==
    LET c == executors[x].cmd
        e == intents[c].env
        replaced == IF intents[c].op = "ROLLBACK" THEN "ROLLED_BACK" ELSE "SUPERSEDED"
        completes ==
            /\ OwnsIntent(x, c)
            /\ Bundle(Current(e)) = intents[c].prev
            /\ version[Policy(c)] = intents[c].expected IN
    /\ executors[x].pc = "acknowledged"
    /\ IF completes
       THEN /\ intents' = [d \in Commands |->
                  IF d = c THEN [intents[c] EXCEPT !.state = "ACTIVE"]
                  ELSE IF d = Current(e) THEN [intents[d] EXCEPT !.state = replaced]
                  ELSE intents[d]]
            /\ version' = [version EXCEPT ![Policy(c)] = @ + 1]
       ELSE UNCHANGED <<intents, version>>
    /\ executors' = [executors EXCEPT ![x] = Idle]
    /\ UNCHANGED <<deprecated, wire, pepVars, pdpVars, handlers, faults>>

\* The process dies, or the database refuses its transaction.
ExecutorStops(x) ==
    /\ executors[x] # Idle
    /\ Fault
    /\ executors' = [executors EXCEPT ![x] = Idle]
    /\ HangsUp(x)
    /\ UNCHANGED <<adminVars, pepVars, pdpVars>>

\* claim_expires_at passes; that it passes a working owner is a fault.
IntentLeaseExpires(c) ==
    /\ intents[c] # NoOne
    /\ intents[c].state = "PENDING" /\ intents[c].live
    /\ IF Owned(c) THEN Fault ELSE UNCHANGED faults
    /\ intents' = [intents EXCEPT ![c].live = FALSE]
    /\ UNCHANGED <<version, deprecated, executors, wire, pepVars, pdpVars, handlers>>

-----------------------------------------------------------------------------
(* PepAuthority::activate_policy                                            *)

\* Mutant: a conflict at the PEP is taken for an activation done before.
AnswerConflictIsDone(x, ok) ==
    executors' = IF x # NoOne THEN [executors EXCEPT ![x].pc = "acknowledged"] ELSE executors

\* The answer reaches its caller, if it still waits.
Answer(x, ok) ==
    executors' = IF x # NoOne
                 THEN [executors EXCEPT ![x].pc = IF ok THEN "acknowledged" ELSE "failed"]
                 ELSE executors

\* The request follows the activation the PEP enforces.
Follows(c) ==
    LET a == enforced[intents[c].env] IN
    /\ Bundle(a) = intents[c].prev
    /\ a # NoOne => intents[a].seq < intents[c].seq

\* The unique index pep_policy_activation_single_unresolved_idx.
SingleUnresolved(c) ==
    \A d \in Commands \ {c} :
        claims[d].state \in {"PENDING", "UNKNOWN"} => intents[d].env # intents[c].env

Claimable(c) ==
    \/ claims[c].state = "NONE" /\ Follows(c) /\ SingleUnresolved(c)
    \/ claims[c].state = "PENDING" /\ ~claims[c].live
    \/ claims[c].state = "UNKNOWN"

\* begin_policy_activation
PepBegin(h, m) ==
    /\ Serves(h) /\ m \in wire
    /\ wire' = wire \ {m}
    /\ IF Claimable(m.cmd)
       THEN /\ claims' = [claims EXCEPT ![m.cmd] =
                            [state |-> "PENDING", owner |-> h, live |-> TRUE]]
            /\ handlers' = [handlers EXCEPT ![h] =
                              [pc |-> "claimed", cmd |-> m.cmd, caller |-> m.caller]]
            /\ UNCHANGED executors
       ELSE /\ Answer(m.caller, claims[m.cmd].state = "ACTIVE")
            /\ UNCHANGED <<claims, handlers>>
    /\ UNCHANGED <<adminVars, enforced, pdpVars, faults>>

\* The PDP performs an activation once and answers every repetition alike.
PdpPerforms(c) ==
    /\ answered' = answered \cup {c}
    /\ loaded' = IF c \in answered THEN loaded ELSE [loaded EXCEPT ![intents[c].env] = c]

PdpAcknowledges(h) ==
    /\ handlers[h].pc = "claimed"
    /\ PdpPerforms(handlers[h].cmd)
    /\ handlers' = [handlers EXCEPT ![h].pc = "loaded"]
    /\ UNCHANGED <<adminVars, executors, wire, pepVars, faults>>

\* The call fails or its answer is lost, whether or not the PDP performed it.
PdpFails(h, performed) ==
    /\ handlers[h].pc = "claimed"
    /\ Fault
    /\ IF performed THEN PdpPerforms(handlers[h].cmd) ELSE UNCHANGED pdpVars
    /\ handlers' = [handlers EXCEPT ![h].pc = "failed"]
    /\ UNCHANGED <<adminVars, executors, wire, pepVars>>

OwnsClaim(h, c) == claims[c].state = "PENDING" /\ claims[c].owner = h

PepMarksUnknown(h) ==
    LET c == handlers[h].cmd IN
    /\ handlers[h].pc = "failed"
    /\ claims' = IF OwnsClaim(h, c) THEN [claims EXCEPT ![c].state = "UNKNOWN"] ELSE claims
    /\ Answer(handlers[h].caller, FALSE)
    /\ handlers' = [handlers EXCEPT ![h] = Free]
    /\ UNCHANGED <<adminVars, wire, enforced, pdpVars, faults>>

\* complete_policy_activation of the PEP
PepComplete(h) ==
    LET c == handlers[h].cmd
        completes == OwnsClaim(h, c) /\ Follows(c) IN
    /\ handlers[h].pc = "loaded"
    /\ IF completes
       THEN /\ claims' = [claims EXCEPT ![c].state = "ACTIVE"]
            /\ enforced' = [enforced EXCEPT ![intents[c].env] = c]
       ELSE UNCHANGED pepVars
    /\ Answer(handlers[h].caller, completes)
    /\ handlers' = [handlers EXCEPT ![h] = Free]
    /\ UNCHANGED <<adminVars, wire, pdpVars, faults>>

HandlerStops(h) ==
    /\ handlers[h] # Free
    /\ Fault
    /\ handlers' = [handlers EXCEPT ![h] = Free]
    /\ UNCHANGED <<adminVars, executors, wire, pepVars, pdpVars>>

ClaimLeaseExpires(c) ==
    /\ claims[c].state = "PENDING" /\ claims[c].live
    /\ IF Handled(c) THEN Fault ELSE UNCHANGED faults
    /\ claims' = [claims EXCEPT ![c].live = FALSE]
    /\ UNCHANGED <<adminVars, executors, wire, enforced, pdpVars, handlers>>

-----------------------------------------------------------------------------
ExecutorStep(x) == Activate(x) \/ CallTimesOut(x) \/ MarkUnknown(x) \/ Complete(x)

HandlerStep(h) == PdpAcknowledges(h) \/ PepMarksUnknown(h) \/ PepComplete(h)

Retry(c) == \E x \in Executors : PrepareAgain(x, c)
Receive == \E h \in Handlers, m \in wire : PepBegin(h, m)

Next ==
    \/ \E p \in Policies : Lifecycle(p)
    \/ \E b \in Bundles : Deprecate(b)
    \/ \E x \in Executors, op \in {"PROMOTE", "ROLLBACK"}, e \in Environments, b \in Bundles :
          PrepareNew(x, op, e, b)
    \/ \E c \in Commands : Retry(c) \/ IntentLeaseExpires(c) \/ ClaimLeaseExpires(c)
    \/ \E x \in Executors : ExecutorStep(x) \/ ExecutorStops(x)
    \/ Receive
    \/ \E h \in Handlers : HandlerStep(h) \/ HandlerStops(h)
    \/ \E h \in Handlers, performed \in BOOLEAN : PdpFails(h, performed)

\* Calls in progress go on, leases end with time, and an uncertain command is retried,
\* as the runbook demands.  A call that is being answered need not time out.
Fairness ==
    /\ \A x \in Executors :
          WF_vars(Activate(x) \/ (CallTimesOut(x) /\ ~Awaited(x)) \/ MarkUnknown(x) \/ Complete(x))
    /\ \A h \in Handlers : WF_vars(HandlerStep(h))
    /\ WF_vars(Receive)
    /\ \A c \in Commands :
          /\ WF_vars(IntentLeaseExpires(c) /\ ~Owned(c))
          /\ WF_vars(ClaimLeaseExpires(c) /\ ~Handled(c))
          /\ SF_vars(Retry(c))

Spec == Init /\ [][Next]_vars /\ Fairness

-----------------------------------------------------------------------------
(* Properties                                                               *)

\* The three services never drift apart by more than the one activation in progress:
\* what the administration calls ACTIVE the PEP has activated, what the PEP enforces is
\* the administration's active promotion or its one unresolved successor, and what the
\* PDP has loaded is what the PEP enforces or a request the PEP still holds open.
EnforcementFollowsAdministration ==
    \A e \in Environments :
        /\ Active(e) # {} => enforced[e] # NoOne
        /\ enforced[e] # NoOne => enforced[e] \in Active(e) \cup Unresolved(e)
        /\ enforced[e] \in Unresolved(e) => intents[enforced[e]].prev = Bundle(Current(e))
        /\ loaded[e] # enforced[e] => claims[loaded[e]].state \in {"PENDING", "UNKNOWN"}

\* No environment is skipped: what the PEP enforces was active in the environment
\* before, at the PEP and in the administration's records.
StagesInOrder ==
    \A e \in Environments \ {1} : enforced[e] # NoOne =>
        \E c \in Active(e - 1) \cup WasActive(e - 1) :
            intents[c].bundle = intents[enforced[e]].bundle /\ claims[c].state = "ACTIVE"

\* An activation is not left hanging by lost calls, crashes and expired claims: retried,
\* it is completed, unless the version of its policy has moved on meanwhile.
ActivationCompletes ==
    \A c \in Commands :
        LET open == /\ intents[c] # NoOne
                    /\ intents[c].state \in {"PENDING", "UNKNOWN"}
                    /\ version[Policy(c)] = intents[c].expected
        IN  open ~> ~open
=============================================================================
