---------------------------- MODULE LedgerSystem ----------------------------
(***************************************************************************)
(* The ledger under its most general client: callers that hold any fence   *)
(* reserve ever returned and present it at any time, in any order, however *)
(* stale; the RecoveryScanner, which works through a batch of records it   *)
(* read earlier; and, for the in-memory store, a restart from a snapshot   *)
(* that may be older than the state it replaces.                           *)
(***************************************************************************)
EXTENDS Ledger

CONSTANT MaxFence   \* bound on the fence tokens ever minted

ASSUME MaxFenceAssumption == MaxFence \in Nat

VARIABLES
    issued,  \* every fence reserve returned: what callers may still hold
    saved,   \* the last snapshot() : records and outbox
    scan     \* the records reconcile() has read and not yet worked through

vars == <<by_execution, by_idempotency, next_fence, outbox, issued, saved, scan>>

ScanEntry == [exec : ExecIds, token : Nat, status : {"RUNNING", "UNKNOWN"}]

Init ==
    /\ LedgerInit
    /\ issued = {}
    /\ saved = [records |-> by_execution, events |-> outbox]
    /\ scan = {}

\* reserve() of a new key by some caller.  Execution ids are UUIDs, so an id
\* lost by a restart is never minted again.
Reserve(e, k, h) ==
    /\ next_fence < MaxFence
    /\ \A f \in issued : f.exec # e
    /\ ReserveNew(e, k, h)
    /\ issued' = issued \cup {[exec |-> e, token |-> next_fence]}
    /\ UNCHANGED <<saved, scan>>

ReserveFails(k) ==
    /\ next_fence < MaxFence
    /\ ReserveAborted(k)
    /\ UNCHANGED <<issued, saved, scan>>

\* A holder of the fence may have begun its transaction at any time since the
\* reservation committed, and so after one event, the RESERVED one.
Reserved == 1

Mark(f) ==
    /\ \/ MarkStarted(f, Reserved)
       \/ MarkSucceeded(f, Reserved)
       \/ MarkFailed(f, Reserved)
       \/ MarkUnknown(f, Reserved)
       \/ MarkManualRecovery(f, Reserved)
    /\ UNCHANGED <<issued, saved, scan>>

-----------------------------------------------------------------------------
(* snapshot and from_snapshot of the in-memory store *)

Snapshot ==
    /\ Backend = "memory"
    /\ saved' = [records |-> by_execution, events |-> outbox]
    /\ UNCHANGED <<by_execution, by_idempotency, next_fence, outbox, issued, scan>>

\* The index is rebuilt from the records: a key points to its live record.
RebuiltIndex(records) ==
    [k \in Keys |->
        IF \E e \in ExecIds : records[e].status # "ABSENT" /\ records[e].key = k
        THEN CHOOSE e \in ExecIds :
                records[e].status # "ABSENT" /\ records[e].key = k
        ELSE None]

\* Mutant: the counter restarts at the largest restored token.
FenceAtMax(records, n) ==
    /\ \A e \in ExecIds : records[e].status # "ABSENT" => records[e].token <= n
    /\ n = 1 \/ \E e \in ExecIds : records[e].status # "ABSENT" /\ n = records[e].token

\* The counter restarts one above the largest restored token, wherever it was.
FenceAbove(records, n) ==
    /\ \A e \in ExecIds : records[e].status # "ABSENT" => records[e].token < n
    /\ \/ n = 1
       \/ \E e \in ExecIds : /\ records[e].status # "ABSENT"
                             /\ n = records[e].token + 1

Restore ==
    /\ Backend = "memory"
    /\ by_execution' = saved.records
    /\ outbox' = saved.events
    /\ by_idempotency' = RebuiltIndex(saved.records)
    /\ \E n \in 1 .. MaxFence : FenceAbove(saved.records, n) /\ next_fence' = n
    /\ scan' = {}
    /\ UNCHANGED <<issued, saved>>

-----------------------------------------------------------------------------
(* RecoveryScanner.reconcile *)

\* stale_non_terminal: the RUNNING and UNKNOWN records whose last update is
\* older than the cutoff; which ones that are is a matter of time.
ScanBegin ==
    /\ scan = {}
    /\ \E stale \in SUBSET {e \in ExecIds :
                              by_execution[e].status \in {"RUNNING", "UNKNOWN"}} :
          scan' = {[exec |-> e, token |-> by_execution[e].token,
                    status |-> by_execution[e].status] : e \in stale}
    /\ UNCHANGED <<by_execution, by_idempotency, next_fence, outbox, issued, saved>>

EntryFence(r) == [exec |-> r.exec, token |-> r.token]

\* One iteration of the loop.  The decision is the resolver's (external); the
\* status it is judged by is the one read with the batch.  An error of the
\* resolver or of the ledger (`?`) abandons the rest of the batch.
ScanSucceeded(r) ==
    /\ MarkSucceeded(EntryFence(r), Reserved)
    /\ scan' = scan \ {r}
ScanFailed(r) ==
    /\ r.status = "RUNNING"
    /\ MarkFailed(EntryFence(r), Reserved)
    /\ scan' = scan \ {r}
ScanManual(r) ==
    /\ MarkManualRecovery(EntryFence(r), Reserved)
    /\ scan' = scan \ {r}
ScanSkips(r) ==
    /\ UNCHANGED ledgerVars
    /\ scan' = scan \ {r}
ScanAborts(r) ==
    /\ UNCHANGED ledgerVars
    /\ scan' = {}

ScanStep(r) ==
    /\ \/ ScanSucceeded(r)
       \/ ScanFailed(r)
       \/ ScanManual(r)
       \/ ScanSkips(r)
       \/ ScanAborts(r)
    /\ UNCHANGED <<issued, saved>>

-----------------------------------------------------------------------------
Next ==
    \/ \E e \in ExecIds, k \in Keys, h \in Hashes : Reserve(e, k, h)
    \/ \E k \in Keys : ReserveFails(k)
    \/ \E f \in issued : Mark(f)
    \/ Snapshot
    \/ Restore
    \/ ScanBegin
    \/ \E r \in scan : ScanStep(r)

Spec == Init /\ [][Next]_vars

TypeOK ==
    /\ LedgerTypeOK
    /\ issued \in SUBSET ExecutionFence
    /\ saved \in [records : [ExecIds -> ExecutionRecord],
                  events : [ExecIds -> Seq(EventTypes)]]
    /\ scan \in SUBSET ScanEntry

-----------------------------------------------------------------------------
(* What no step may do.  Restoring an older snapshot forgets what happened  *)
(* after it was taken; every other step keeps what was recorded.            *)

\* A SUCCEEDED or FAILED record is final: no caller, however stale its fence,
\* and no scanner decision, however old its batch, changes it again.
TerminalIsFinal ==
    [][ ~Restore => \A e \in ExecIds :
            by_execution[e].status \in {"SUCCEEDED", "FAILED"}
               => by_execution'[e] = by_execution[e] ]_vars

\* "UNKNOWN external outcomes are ... never treated as ordinary failure": an
\* UNKNOWN record can only stay UNKNOWN or be reconciled to SUCCEEDED, even
\* when the scanner read it while it was still RUNNING.
UnknownNeverFails ==
    [][ ~Restore => \A e \in ExecIds :
            by_execution[e].status = "UNKNOWN"
               => by_execution'[e].status \in {"UNKNOWN", "SUCCEEDED"} ]_vars
=============================================================================
