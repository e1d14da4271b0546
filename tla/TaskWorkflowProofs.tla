------------------------- MODULE TaskWorkflowProofs -------------------------
(***************************************************************************)
(* Safety of the task workflow for any requests, any limits and any number *)
(* of redeliveries.                                                        *)
(*                                                                         *)
(* The properties of a task's status rest on three facts about run() that  *)
(* are kept together: where it stands tells what is in flight, every       *)
(* command it ever took is in exactly the places it looks them up in, and  *)
(* its own follow-ups are queued only by the transitions that need them.   *)
(***************************************************************************)
EXTENDS TaskWorkflow, FiniteSetTheorems, SequenceTheorems, TLAPS

CallerCommands == {Versioned(r, n) : r \in Requests \cup {StartRequest}, n \in Nat}
SystemCommands == {SystemCommand(type, n) : type \in CommandTypes, n \in Nat}
Commands == CallerCommands \cup SystemCommands

\* The statuses a task is left in between two commands.
Resting == {"CREATED", "RUNNING", "PAUSED", "CANCELLING", "KILLED", "VERIFYING",
            "COMPLETED", "NEEDS_HUMAN"}

TypeOK ==
    /\ task \in [status : Resting, cursor : Nat, processed : SUBSET Commands]
    /\ IsFiniteSet(task.processed)
    /\ queue \in Seq(Commands)
    /\ rejected \in SUBSET Commands /\ IsFiniteSet(rejected)
    /\ step \in SUBSET Commands
    /\ active \in BOOLEAN
    /\ wpc \in {"loop", "poll", "step", "stuck", "done"}
    /\ why \in {"none", "conflict", "followup", "history"}
    /\ sent \in SUBSET CallerCommands
    /\ admitted \in SUBSET Commands
    /\ ledger \in {"NONE", "RUNNING", "SUCCEEDED", "FAILED", "UNKNOWN"}
    /\ contained \in BOOLEAN /\ revoked \in BOOLEAN

\* A command is in flight only while run() awaits its child workflow.
InFlight == step = {} \/ wpc \in {"step", "stuck"}

\* The commands ever taken are the ones run() can still find.
Accounted == admitted = task.processed \cup rejected \cup step \cup Elements(queue)

\* Where the commands come from: a poll meets only commands of callers, and the
\* system's COMPLETE is not there before the task is VERIFYING.
Origins ==
    /\ admitted \subseteq sent \cup SystemCommands
    /\ wpc = "poll" => Elements(queue) \subseteq sent
    /\ task.status \in {"CREATED", "RUNNING", "PAUSED"} =>
         \A c \in admitted \cap SystemCommands : c.type # "COMPLETE"

\* Only an exception ends run() in the middle.
Fails == (wpc # "stuck" => why = "none") /\ FailsOnlyOnReuse

\* The life of the task: what each status tells of the rest of the state.
Lifecycle ==
    /\ task.status \in {"VERIFYING", "COMPLETED"} => \E c \in task.processed : c.type = "VERIFY"
    /\ task.status = "COMPLETED" /\ HasSideEffects => ledger = "SUCCEEDED"
    /\ KilledIsContained
    /\ active => task.status \in {"RUNNING", "VERIFYING", "COMPLETED"}
    /\ wpc = "poll" => active
    /\ Terminal(task) => wpc = "done" /\ queue = <<>>

IInv ==
    /\ TypeOK
    /\ InFlight
    /\ Accounted
    /\ Origins
    /\ Fails
    /\ AppliedOncePerVersion
    /\ Lifecycle

-----------------------------------------------------------------------------
(* The queue as a set *)

\* What is queued is a finite set of commands.
LEMMA ElementsType ==
  ASSUME NEW q \in Seq(Commands)
  PROVE  Elements(q) \in SUBSET Commands /\ IsFiniteSet(Elements(q)) /\ Len(q) \in Nat
  <1>1. Len(q) \in Nat /\ \A i \in 1 .. Len(q) : q[i] \in Commands
    BY ElementOfSeq, LenProperties
  <1>2. IsFiniteSet(1 .. Len(q))
    BY <1>1, FS_Interval
  <1> DEFINE f == [i \in 1 .. Len(q) |-> q[i]]
  <1>3. f \in Surjection(1 .. Len(q), Elements(q))
    BY DEF Elements, Surjection
  <1>4. IsFiniteSet(Elements(q))
    BY <1>2, <1>3, FS_Surjection
  <1> QED
    BY <1>1, <1>4 DEF Elements

\* An empty queue holds nothing.
LEMMA ElementsEmpty == Elements(<<>>) = {} /\ <<>> \in Seq(Commands)
  BY EmptySeq DEF Elements

\* A command goes to one end of the queue or, a KILL, to the other.
LEMMA ElementsEnqueued ==
  ASSUME NEW q \in Seq(Commands), NEW c \in Commands
  PROVE  /\ Enqueued(c, q) \in Seq(Commands)
         /\ Elements(Enqueued(c, q)) = Elements(q) \cup {c}
  <1>1. Len(q) \in Nat
    BY LenProperties
  <1>2. CASE c.type = "KILL"
    <2> DEFINE e == <<c>> \o q
    <2>0. <<c>> \in Seq(Commands) /\ Len(<<c>>) = 1 /\ <<c>>[1] = c
      OBVIOUS
    <2>1. /\ e \in Seq(Commands) /\ Len(e) = 1 + Len(q)
          /\ \A i \in 1 .. 1 + Len(q) : e[i] = IF i <= 1 THEN <<c>>[i] ELSE q[i - 1]
      BY <2>0, ConcatProperties
    <2> HIDE DEF e
    <2>2. \A i \in 1 .. Len(q) : i + 1 \in 1 .. Len(e) /\ e[i + 1] = q[i]
      BY <1>1, <2>1
    <2>3. 1 \in 1 .. Len(e) /\ e[1] = c /\ \A i \in 1 .. Len(e) : i # 1 =>
            i - 1 \in 1 .. Len(q) /\ e[i] = q[i - 1]
      BY <1>1, <2>0, <2>1
    <2>4. Elements(e) = Elements(q) \cup {c}
      BY <2>2, <2>3 DEF Elements
    <2> QED
      BY <1>2, <2>1, <2>4 DEF Enqueued, e
  <1>3. CASE c.type # "KILL"
    <2> DEFINE e == Append(q, c)
    <2>1. /\ e \in Seq(Commands) /\ Len(e) = Len(q) + 1 /\ e[Len(q) + 1] = c
          /\ \A i \in 1 .. Len(q) : e[i] = q[i]
      BY AppendProperties
    <2> HIDE DEF e
    <2>2. Len(q) + 1 \in 1 .. Len(e) /\ \A i \in 1 .. Len(e) : i \in 1 .. Len(q) \/ i = Len(q) + 1
      BY <1>1, <2>1
    <2>3. \A i \in 1 .. Len(q) : i \in 1 .. Len(e)
      BY <1>1, <2>1
    <2>4. Elements(e) = Elements(q) \cup {c}
      BY <2>1, <2>2, <2>3 DEF Elements
    <2> QED
      BY <1>3, <2>1, <2>4 DEF Enqueued, e
  <1> QED
    BY <1>2, <1>3

\* The next command and the ones behind it are what is queued.
LEMMA ElementsPopped ==
  ASSUME NEW q \in Seq(Commands), q # <<>>
  PROVE  /\ Head(q) \in Commands /\ Tail(q) \in Seq(Commands)
         /\ Elements(q) = Elements(Tail(q)) \cup {Head(q)}
  <1>1. Len(q) \in Nat \ {0}
    BY EmptySeq
  <1>2. /\ Head(q) \in Commands /\ Tail(q) \in Seq(Commands) /\ Len(Tail(q)) = Len(q) - 1
        /\ \A i \in 1 .. Len(Tail(q)) : Tail(q)[i] = q[i + 1]
    BY HeadTailProperties
  <1>3. Head(q) = q[1]
    OBVIOUS
  <1>4. \A i \in 1 .. Len(q) : i = 1 \/ (i - 1 \in 1 .. Len(Tail(q)) /\ q[i] = Tail(q)[i - 1])
    BY <1>1, <1>2
  <1>5. 1 \in 1 .. Len(q) /\ \A i \in 1 .. Len(Tail(q)) : i + 1 \in 1 .. Len(q)
    BY <1>1, <1>2
  <1> DEFINE rest == Tail(q)
  <1>6. ASSUME NEW c \in Elements(q) PROVE c \in Elements(rest) \cup {Head(q)}
    BY <1>3, <1>4 DEF Elements
  <1>7. Elements(rest) \subseteq Elements(q)
    <2> SUFFICES ASSUME NEW i \in 1 .. Len(rest) PROVE rest[i] \in Elements(q)
      BY DEF Elements
    <2>1. rest[i] = q[i + 1] /\ i + 1 \in 1 .. Len(q)
      BY <1>2, <1>5
    <2> QED
      BY <2>1 DEF Elements
  <1>8. Head(q) \in Elements(q)
    BY <1>3, <1>5 DEF Elements
  <1> QED
    BY <1>2, <1>6, <1>7, <1>8

-----------------------------------------------------------------------------
(* Transitions *)

\* The pairs of status and command that have a path.
LEMMA PathDomain ==
  DOMAIN Path =
    {<<"CREATED", "START">>, <<"PAUSED", "RESUME">>, <<"RUNNING", "PAUSE">>,
     <<"RUNNING", "CANCEL">>, <<"RUNNING", "KILL">>, <<"PAUSED", "KILL">>,
     <<"RUNNING", "VERIFY">>, <<"VERIFYING", "COMPLETE">>,
     <<"RUNNING", "NEEDS_HUMAN">>, <<"VERIFYING", "NEEDS_HUMAN">>,
     <<"RUNNING", "CHECKPOINT">>, <<"PAUSED", "CHECKPOINT">>}
  BY DEF Path

\* The status that a command leaves a task in.
LEMMA Targets ==
  ASSUME NEW status, NEW type, <<status, type>> \in DOMAIN Path
  PROVE  /\ type = "START" => Target(status, type) = "RUNNING"
         /\ type = "RESUME" => Target(status, type) = "RUNNING"
         /\ type = "PAUSE" => Target(status, type) = "PAUSED"
         /\ type = "CANCEL" => Target(status, type) = "CANCELLING"
         /\ type = "KILL" => Target(status, type) = "KILLED"
         /\ type = "VERIFY" => Target(status, type) = "VERIFYING"
         /\ type = "COMPLETE" => Target(status, type) = "COMPLETED"
         /\ type = "NEEDS_HUMAN" => Target(status, type) = "NEEDS_HUMAN"
         /\ type = "CHECKPOINT" => Target(status, type) = status
  <1>1. ASSUME NEW a, NEW b, NEW c, NEW d, NEW e
        PROVE  /\ Len(<<a>> \o <<>>) = 1 /\ (<<a>> \o <<>>)[1] = a
               /\ Len(<<a>> \o <<b>>) = 2 /\ (<<a>> \o <<b>>)[2] = b
               /\ Len(<<a>> \o <<b, c>>) = 3 /\ (<<a>> \o <<b, c>>)[3] = c
               /\ Len(<<a>> \o <<b, c, d, e>>) = 5 /\ (<<a>> \o <<b, c, d, e>>)[5] = e
    OBVIOUS
  <1> DEFINE path == Path[<<status, type>>]
  <1>2. /\ type = "START" => path = <<"PLANNED", "POLICY_CHECKED", "APPROVED", "RUNNING">>
        /\ type = "RESUME" => path = <<"RUNNING">>
        /\ type = "PAUSE" => path = <<"PAUSE_REQUESTED", "PAUSED">>
        /\ type = "CANCEL" => path = <<"CANCEL_REQUESTED", "CANCELLING">>
        /\ type = "KILL" => path = <<"KILL_REQUESTED", "KILLED">>
        /\ type = "VERIFY" => path = <<"VERIFYING">>
        /\ type = "COMPLETE" => path = <<"COMPLETED">>
        /\ type = "NEEDS_HUMAN" => path = <<"NEEDS_HUMAN">>
        /\ type = "CHECKPOINT" => path = <<>>
    BY DEF Path
  <1>3. Target(status, type) = (<<status>> \o path)[Len(<<status>> \o path)]
    BY DEF Target, Visited
  <1> HIDE DEF path
  <1>4. CASE type = "START"
    <2> DEFINE all == <<status>> \o <<"PLANNED", "POLICY_CHECKED", "APPROVED", "RUNNING">>
    <2>1. Target(status, type) = all[Len(all)]
      BY <1>2, <1>3, <1>4
    <2>2. Len(all) = 5 /\ all[5] = "RUNNING"
      BY <1>1
    <2> HIDE DEF all
    <2> QED
      BY <1>4, <2>1, <2>2
  <1>5. CASE type \in {"RESUME", "VERIFY", "COMPLETE", "NEEDS_HUMAN"}
    BY <1>1, <1>2, <1>3, <1>5
  <1>6. CASE type \in {"PAUSE", "CANCEL", "KILL"}
    BY <1>1, <1>2, <1>3, <1>6
  <1>7. CASE type = "CHECKPOINT"
    BY <1>1, <1>2, <1>3, <1>7
  <1> QED
    BY <1>4, <1>5, <1>6, <1>7

-----------------------------------------------------------------------------
\* The initial state satisfies the inductive invariant.
LEMMA InitEstablishes == Init => IInv
  <1> SUFFICES ASSUME Init PROVE IInv
    OBVIOUS
  <1> USE DEF Init
  <1> DEFINE start == Versioned(StartRequest, 0)
  <1>1. start \in CallerCommands /\ start \in Commands
    BY DEF CallerCommands, Commands
  <1> HIDE DEF start
  <1>2. queue \in Seq(Commands) /\ Elements(queue) = {start}
    BY <1>1 DEF Elements, start
  <1>3. TypeOK
    BY <1>1, <1>2, FS_EmptySet DEF TypeOK, Resting, start
  <1>4. InFlight /\ Accounted
    BY <1>2 DEF InFlight, Accounted, start
  <1>5. start.by # "service:durable-worker" /\ \A c \in SystemCommands : c.by = "service:durable-worker"
    BY DEF start, Versioned, SystemCommands, SystemCommand
  <1>6. Origins
    BY <1>5 DEF Origins, start
  <1>7. Fails
    BY DEF Fails, FailsOnlyOnReuse
  <1>8. AppliedOncePerVersion
    BY FS_EmptySet DEF AppliedOncePerVersion
  <1>9. Lifecycle
    BY DEF Lifecycle, KilledIsContained, Terminal, TerminalStatus
  <1> QED
    BY <1>3, <1>4, <1>6, <1>7, <1>8, <1>9 DEF IInv

\* A step of the world outside, or of run() between its loop and a poll.
LEMMA WorldPreserves ==
  ASSUME IInv, UNCHANGED <<task, queue, rejected, step, active, why, sent, admitted>>,
         \/ wpc' = wpc
         \/ wpc = "loop" /\ wpc' = "poll" /\ queue = <<>> /\ active
         \/ wpc = "poll" /\ wpc' = "loop",
         ledger' \in {"NONE", "RUNNING", "SUCCEEDED", "FAILED", "UNKNOWN"},
         ledger = "SUCCEEDED" => ledger' = "SUCCEEDED",
         contained' \in BOOLEAN, contained => contained',
         revoked' \in BOOLEAN, revoked => revoked'
  PROVE  IInv'
  <1>1. TypeOK'
    BY DEF IInv, TypeOK
  <1>2. InFlight' /\ Accounted'
    BY DEF IInv, InFlight, Accounted
  <1>3. Origins'
    BY ElementsEmpty DEF IInv, Origins
  <1>4. Fails'
    BY DEF IInv, Fails, FailsOnlyOnReuse
  <1>5. AppliedOncePerVersion'
    BY DEF IInv, AppliedOncePerVersion
  <1>6. Lifecycle'
    BY DEF IInv, Lifecycle, KilledIsContained, Terminal
  <1> QED
    BY <1>1, <1>2, <1>3, <1>4, <1>5, <1>6 DEF IInv

\* An exception leaves run(): everything stays as it was.
LEMMA StuckPreserves ==
  ASSUME IInv, wpc \in {"loop", "poll", "step"}, wpc' = "stuck",
         why' \in {"conflict", "followup", "history"},
         UNCHANGED <<task, queue, rejected, step, active, sent, admitted, worldVars>>,
         FailsOnlyOnReuse'
  PROVE  IInv'
  <1>1. TypeOK'
    BY DEF IInv, TypeOK, worldVars
  <1>2. InFlight' /\ Accounted' /\ Origins'
    BY DEF IInv, InFlight, Accounted, Origins
  <1>3. Fails'
    BY DEF Fails
  <1>4. AppliedOncePerVersion'
    BY DEF IInv, AppliedOncePerVersion
  <1>5. Lifecycle'
    BY DEF IInv, Lifecycle, KilledIsContained, Terminal, worldVars
  <1> QED
    BY <1>1, <1>2, <1>3, <1>4, <1>5 DEF IInv

\* While run() goes on nothing has failed and the task is not terminal.
LEMMA LiveRun ==
  ASSUME IInv, wpc \in {"loop", "poll", "step"}
  PROVE  why = "none" /\ ~Terminal(task)
  BY DEF IInv, Fails, Lifecycle

-----------------------------------------------------------------------------
(* The API *)

\* The API builds a command for the version it reads.
LEMMA ApiReadsPreserves == ASSUME IInv, NEW r \in Requests, ApiReads(r) PROVE IInv'
  <1> DEFINE c == Versioned(r, task.cursor)
  <1>1. /\ sent' = sent \cup {c}
        /\ UNCHANGED <<task, queue, rejected, step, active, wpc, why, admitted>>
        /\ UNCHANGED <<ledger, contained, revoked>> /\ Live
    BY DEF ApiReads, worldVars
  <1>2. task.cursor \in Nat
    BY DEF IInv, TypeOK
  <1>3. c \in CallerCommands
    BY <1>2 DEF CallerCommands
  <1> HIDE DEF c
  <1>4. TypeOK'
    BY <1>1, <1>3 DEF IInv, TypeOK
  <1>5. InFlight' /\ Accounted' /\ Origins'
    BY <1>1 DEF IInv, InFlight, Accounted, Origins
  <1>6. why = "none"
    BY <1>1 DEF IInv, Fails, Live
  <1>7. Fails'
    BY <1>1, <1>6 DEF Fails, FailsOnlyOnReuse
  <1>8. AppliedOncePerVersion'
    BY <1>1 DEF IInv, AppliedOncePerVersion
  <1>9. Lifecycle'
    BY <1>1 DEF IInv, Lifecycle, KilledIsContained, Terminal
  <1> QED
    BY <1>4, <1>5, <1>7, <1>8, <1>9 DEF IInv

\* A command of a caller is taken into the queue.
LEMMA DeliverPreserves == ASSUME IInv, NEW c \in sent, Deliver(c) PROVE IInv'
  <1>1. /\ queue' = Enqueued(c, queue) /\ admitted' = admitted \cup {c} /\ Live
        /\ UNCHANGED <<task, rejected, step, active, wpc, why, sent>>
        /\ UNCHANGED <<ledger, contained, revoked>>
    BY DEF Deliver, worldVars
  <1>2. c \in CallerCommands /\ c \in Commands /\ queue \in Seq(Commands)
    BY DEF IInv, TypeOK, Commands
  <1>3. queue' \in Seq(Commands) /\ Elements(queue') = Elements(queue) \cup {c}
    BY <1>1, <1>2, ElementsEnqueued
  <1>4. why = "none" /\ ~Terminal(task)
    BY <1>1 DEF IInv, Fails, Live, Lifecycle
  <1>5. c \notin SystemCommands
    BY <1>2 DEF CallerCommands, SystemCommands, Versioned, SystemCommand
  <1>6. TypeOK'
    BY <1>1, <1>2, <1>3 DEF IInv, TypeOK
  <1>7. InFlight' /\ Accounted'
    BY <1>1, <1>3 DEF IInv, InFlight, Accounted
  <1>8. Origins'
    BY <1>1, <1>3, <1>5 DEF IInv, Origins
  <1>9. Fails'
    BY <1>1, <1>4 DEF Fails, FailsOnlyOnReuse
  <1>10. AppliedOncePerVersion'
    BY <1>1 DEF IInv, AppliedOncePerVersion
  <1>11. Lifecycle'
    BY <1>1, <1>4 DEF IInv, Lifecycle, KilledIsContained, Terminal
  <1> QED
    BY <1>6, <1>7, <1>8, <1>9, <1>10, <1>11 DEF IInv

-----------------------------------------------------------------------------
(* run() *)

\* Why a command of run() itself is refused.
LEMMA FollowupRefused ==
  ASSUME IInv, NEW type \in CommandTypes, type # "KILL", NEW n \in Nat,
         ~Admissible(SystemCommand(type, n), queue, rejected),
         \A d \in Elements(queue) : Matches(SystemCommand(type, n), d) => d \in sent
  PROVE  \/ \E c \in rejected \cup (Elements(queue) \cap sent), t \in CommandTypes :
              Matches(c, SystemCommand(t, 0))
         \/ Cardinality(rejected) + Len(queue) >= RejectionLimit - 1
  <1> DEFINE sc == SystemCommand(type, n)
  <1>1. \A d : Matches(sc, d) => Matches(d, SystemCommand(type, 0))
    BY DEF Matches, SystemCommand
  <1>2. sc.type # "KILL"
    BY DEF SystemCommand
  <1>3. Cardinality(rejected) \in Nat /\ Len(queue) \in Nat /\ RejectionLimit \in Nat
    BY FS_CardinalityType, ElementsType, WorkflowAssumption DEF IInv, TypeOK
  <1> HIDE DEF sc
  <1>4. CASE Known(sc, Elements(queue)) \/ Known(sc, rejected)
    BY <1>1, <1>4 DEF Known, sc
  <1>5. CASE ~HasRoom(sc, queue, rejected)
    <2>1. ~(Cardinality(rejected) + Len(queue) < RejectionLimit - 1)
      BY <1>5 DEF HasRoom
    <2> QED
      BY <1>3, <2>1
  <1> QED
    BY <1>4, <1>5 DEF Admissible, sc

\* A poll finds the execution decided.
LEMMA PollFindsPreserves == ASSUME IInv, PollFinds PROVE IInv'
  <1> DEFINE type == Followup[ledger]
             c == SystemCommand(type, task.cursor)
  <1>1. /\ wpc = "poll" /\ ledger \in DOMAIN Followup
        /\ UNCHANGED <<task, rejected, step, sent>> /\ UNCHANGED <<ledger, contained, revoked>>
    BY DEF PollFinds, worldVars
  <1>2. type \in {"VERIFY", "NEEDS_HUMAN"} /\ task.cursor \in Nat
    BY <1>1 DEF Followup, IInv, TypeOK
  <1>3. why = "none" /\ ~Terminal(task)
    BY <1>1, LiveRun
  <1>4. \/ /\ Admissible(c, queue, rejected)
           /\ active' = FALSE /\ wpc' = "loop"
           /\ queue' = Enqueued(c, queue) /\ admitted' = admitted \cup {c}
           /\ UNCHANGED why
        \/ /\ ~Admissible(c, queue, rejected)
           /\ Stuck("followup")
           /\ UNCHANGED <<active, queue, admitted>>
    BY DEF PollFinds
  <1> HIDE DEF type
  <1>5. c \in SystemCommands /\ c \in Commands /\ c.type # "COMPLETE" /\ type \in CommandTypes
    <2>1. type \in CommandTypes
      BY <1>2 DEF CommandTypes
    <2>2. c \in SystemCommands
      BY <1>2, <2>1 DEF SystemCommands
    <2>3. c.type # "COMPLETE"
      BY <1>2 DEF SystemCommand
    <2> QED
      BY <2>1, <2>2, <2>3 DEF Commands
  <1> HIDE DEF c
  <1>6. CASE /\ active' = FALSE /\ wpc' = "loop"
             /\ queue' = Enqueued(c, queue) /\ admitted' = admitted \cup {c}
             /\ UNCHANGED why
    <2>1. queue \in Seq(Commands)
      BY DEF IInv, TypeOK
    <2>2. queue' \in Seq(Commands) /\ Elements(queue') = Elements(queue) \cup {c}
      BY <1>5, <1>6, <2>1, ElementsEnqueued
    <2>3. TypeOK'
      BY <1>1, <1>5, <1>6, <2>2 DEF IInv, TypeOK
    <2>4. InFlight' /\ Accounted'
      BY <1>1, <1>6, <2>2 DEF IInv, InFlight, Accounted
    <2>5. Origins'
      BY <1>1, <1>5, <1>6 DEF IInv, Origins
    <2>6. Fails'
      BY <1>3, <1>6 DEF Fails, FailsOnlyOnReuse
    <2>7. AppliedOncePerVersion'
      BY <1>1 DEF IInv, AppliedOncePerVersion
    <2>8. Lifecycle'
      BY <1>1, <1>3, <1>6 DEF IInv, Lifecycle, KilledIsContained, Terminal
    <2> QED
      BY <2>3, <2>4, <2>5, <2>6, <2>7, <2>8 DEF IInv
  <1>7. CASE /\ ~Admissible(c, queue, rejected)
             /\ Stuck("followup")
             /\ UNCHANGED <<active, queue, admitted>>
    <2>1. Elements(queue) \subseteq sent
      BY <1>1 DEF IInv, Origins
    <2>2. \/ \E d \in rejected \cup (Elements(queue) \cap sent), t \in CommandTypes :
               Matches(d, SystemCommand(t, 0))
          \/ Cardinality(rejected) + Len(queue) >= RejectionLimit - 1
      BY <1>2, <1>5, <1>7, <2>1, FollowupRefused DEF c
    <2>3. FailsOnlyOnReuse'
      BY <1>1, <1>7, <2>2 DEF FailsOnlyOnReuse, Stuck
    <2> QED
      BY <1>1, <1>7, <2>3, StuckPreserves DEF Stuck, worldVars
  <1> QED
    BY <1>4, <1>6, <1>7

\* The next command is dropped, refused or started.
LEMMA PopPreserves == ASSUME IInv, Pop PROVE IInv'
  <1> DEFINE c == Head(queue)
  <1>1. /\ wpc = "loop" /\ queue # <<>>
        /\ UNCHANGED <<task, rejected, active, sent, admitted>>
        /\ UNCHANGED <<ledger, contained, revoked>>
    BY DEF Pop, worldVars
  <1>2. why = "none" /\ ~Terminal(task) /\ step = {}
    BY <1>1, LiveRun DEF IInv, InFlight
  <1>3. queue \in Seq(Commands)
    BY DEF IInv, TypeOK
  <1>4. /\ c \in Commands /\ Tail(queue) \in Seq(Commands)
        /\ Elements(queue) = Elements(Tail(queue)) \cup {c}
    BY <1>1, <1>3, ElementsPopped
  <1>5. \/ c \in task.processed /\ queue' = Tail(queue) /\ UNCHANGED <<step, wpc>> /\ UNCHANGED why
        \/ /\ c \notin task.processed /\ Known(c, task.processed)
           /\ Stuck("conflict") /\ UNCHANGED <<queue, step>>
        \/ queue' = Tail(queue) /\ step' = {c} /\ wpc' = "step" /\ UNCHANGED why
    BY DEF Pop
  <1> HIDE DEF c
  <1>6. CASE /\ queue' = Tail(queue) /\ UNCHANGED why
             /\ \/ c \in task.processed /\ UNCHANGED <<step, wpc>>
                \/ step' = {c} /\ wpc' = "step"
    <2>1. TypeOK'
      BY <1>1, <1>4, <1>6 DEF IInv, TypeOK
    <2>2. InFlight' /\ Accounted'
      BY <1>1, <1>2, <1>4, <1>6 DEF IInv, InFlight, Accounted
    <2>3. Origins'
      BY <1>1, <1>6 DEF IInv, Origins
    <2>4. Fails'
      BY <1>2, <1>6 DEF Fails, FailsOnlyOnReuse
    <2>5. AppliedOncePerVersion'
      BY <1>1 DEF IInv, AppliedOncePerVersion
    <2>6. Lifecycle'
      BY <1>1, <1>2, <1>6 DEF IInv, Lifecycle, KilledIsContained, Terminal
    <2> QED
      BY <2>1, <2>2, <2>3, <2>4, <2>5, <2>6 DEF IInv
  <1>7. CASE /\ c \notin task.processed /\ Known(c, task.processed)
             /\ Stuck("conflict") /\ UNCHANGED <<queue, step>>
    <2>1. PICK d \in task.processed : Matches(c, d)
      BY <1>7 DEF Known
    <2>2. c \in admitted /\ d \in admitted /\ c # d
      BY <1>4, <1>7 DEF IInv, Accounted
    <2>3. FailsOnlyOnReuse'
      BY <1>1, <1>7, <2>1, <2>2 DEF FailsOnlyOnReuse, Stuck
    <2> QED
      BY <1>1, <1>7, <2>3, StuckPreserves DEF Stuck, worldVars
  <1> QED
    BY <1>5, <1>6, <1>7

\* A rejection that cannot be recorded: the id or the key was rejected before, or
\* the history is full.
LEMMA RecordFails ==
  ASSUME IInv, NEW commands \in SUBSET (step \cup Elements(queue)),
         ~Recordable(commands, rejected)
  PROVE  LET reason == Raised(commands, rejected)
         IN  /\ reason \in {"conflict", "history"}
             /\ reason = "conflict" => \E c, d \in admitted : Matches(c, d) /\ c # d
             /\ reason = "history" =>
                  (IsFiniteSet(step) =>
                     Cardinality(rejected \cup step \cup Elements(queue)) > RejectionLimit)
  <1> DEFINE reason == Raised(commands, rejected)
  <1>1. CASE \E c \in commands : Clashes(c, rejected)
    <2>1. reason = "conflict"
      BY <1>1 DEF Raised
    <2>2. PICK c \in commands, d \in rejected : Matches(c, d) /\ c # d
      BY <1>1 DEF Clashes
    <2>3. c \in admitted /\ d \in admitted
      BY DEF IInv, Accounted
    <2> QED
      BY <2>1, <2>2, <2>3
  <1>2. CASE ~ \E c \in commands : Clashes(c, rejected)
    <2>1. reason = "history"
      BY <1>2 DEF Raised
    <2>2. ~(Cardinality(commands \cup rejected) <= RejectionLimit)
      BY <1>2 DEF Recordable
    <2>3. ASSUME IsFiniteSet(step)
          PROVE  Cardinality(rejected \cup step \cup Elements(queue)) > RejectionLimit
      <3> DEFINE all == rejected \cup step \cup Elements(queue)
                 some == commands \cup rejected
      <3>1. IsFiniteSet(rejected) /\ IsFiniteSet(Elements(queue))
        BY ElementsType DEF IInv, TypeOK
      <3>2. IsFiniteSet(all)
        BY <2>3, <3>1, FS_Union
      <3>3. some \in SUBSET all
        OBVIOUS
      <3> HIDE DEF all, some
      <3>4. IsFiniteSet(some) /\ Cardinality(some) <= Cardinality(all)
        BY <3>2, <3>3, FS_Subset
      <3>5. Cardinality(some) \in Nat /\ Cardinality(all) \in Nat /\ RejectionLimit \in Nat
        BY <3>2, <3>4, FS_CardinalityType, WorkflowAssumption
      <3>6. ~(Cardinality(some) <= RejectionLimit)
        BY <2>2 DEF some
      <3>7. Cardinality(all) > RejectionLimit
        BY <3>4, <3>5, <3>6
      <3> QED
        BY <3>7 DEF all
    <2> QED
      BY <2>1, <2>3
  <1> QED
    BY <1>1, <1>2

\* A refused command becomes a durable rejection.
LEMMA StepRejectedPreserves == ASSUME IInv, NEW c \in step, StepRejected(c) PROVE IInv'
  <1>1. /\ wpc = "step" /\ step = {c} /\ c \in Commands
        /\ UNCHANGED <<task, queue, active, sent, admitted>>
        /\ UNCHANGED <<ledger, contained, revoked>>
    BY DEF StepRejected, worldVars, IInv, TypeOK
  <1>2. why = "none" /\ ~Terminal(task)
    BY <1>1, LiveRun
  <1>3. CASE rejected' = rejected \cup {c} /\ step' = {} /\ wpc' = "loop" /\ UNCHANGED why
    <2>1. IsFiniteSet(rejected')
      BY <1>3, FS_AddElement DEF IInv, TypeOK
    <2>2. TypeOK'
      BY <1>1, <1>3, <2>1 DEF IInv, TypeOK
    <2>3. InFlight' /\ Accounted'
      BY <1>1, <1>3 DEF IInv, InFlight, Accounted
    <2>4. Origins'
      BY <1>1, <1>3 DEF IInv, Origins
    <2>5. Fails'
      BY <1>2, <1>3 DEF Fails, FailsOnlyOnReuse
    <2>6. AppliedOncePerVersion'
      BY <1>1 DEF IInv, AppliedOncePerVersion
    <2>7. Lifecycle'
      BY <1>1, <1>2, <1>3 DEF IInv, Lifecycle, KilledIsContained, Terminal
    <2> QED
      BY <2>2, <2>3, <2>4, <2>5, <2>6, <2>7 DEF IInv
  <1>4. CASE /\ ~Recordable({c}, rejected)
             /\ Stuck(Raised({c}, rejected)) /\ UNCHANGED <<rejected, step>>
    <2>1. {c} \in SUBSET (step \cup Elements(queue)) /\ IsFiniteSet(step)
      BY <1>1, FS_Singleton
    <2> DEFINE reason == Raised({c}, rejected)
    <2>2. /\ reason \in {"conflict", "history"}
          /\ reason = "conflict" => \E a, d \in admitted : Matches(a, d) /\ a # d
          /\ reason = "history" =>
               Cardinality(rejected \cup step \cup Elements(queue)) > RejectionLimit
      BY <1>4, <2>1, RecordFails
    <2>3. why' = reason /\ wpc' = "stuck"
      BY <1>4 DEF Stuck
    <2> HIDE DEF reason
    <2>4. FailsOnlyOnReuse'
      BY <1>1, <1>4, <2>2, <2>3 DEF FailsOnlyOnReuse
    <2> QED
      BY <1>1, <1>4, <2>2, <2>3, <2>4, StuckPreserves DEF worldVars
  <1> QED
    BY <1>3, <1>4 DEF StepRejected

-----------------------------------------------------------------------------
(* A transition *)

\* The command that is applied takes the version it names, and no other had it.
LEMMA AppliedPreserves ==
  ASSUME IInv, NEW c \in Commands, Applicable(task, c), task' = Applied(task, c)
  PROVE  /\ AppliedOncePerVersion'
         /\ task'.processed \in SUBSET Commands /\ IsFiniteSet(task'.processed)
  <1>1. task'.processed = task.processed \cup {c} /\ task'.cursor = task.cursor + 1
    BY DEF Applied
  <1>2. task.cursor \in Nat /\ IsFiniteSet(task.processed) /\ task.processed \in SUBSET Commands
    BY DEF IInv, TypeOK
  <1>3. c.version = task.cursor /\ ~Known(c, task.processed)
    BY DEF Applicable
  <1>4. c \notin task.processed
    BY <1>3 DEF Known, Matches
  <1>5. IsFiniteSet(task'.processed) /\ Cardinality(task'.processed) = task'.cursor
    <2>1. Cardinality(task.processed) = task.cursor
      BY DEF IInv, AppliedOncePerVersion
    <2>2. /\ IsFiniteSet(task.processed \cup {c})
          /\ Cardinality(task.processed \cup {c}) = Cardinality(task.processed) + 1
      BY <1>2, <1>4, FS_AddElement
    <2> QED
      BY <1>1, <2>1, <2>2
  <1>6. 0 .. task'.cursor - 1 = (0 .. task.cursor - 1) \cup {task.cursor}
    BY <1>1, <1>2
  <1>7. {d.version : d \in task'.processed} = 0 .. task'.cursor - 1
    BY <1>1, <1>3, <1>6 DEF IInv, AppliedOncePerVersion
  <1>8. \A a, d \in task'.processed : Matches(a, d) => a = d
    BY <1>1, <1>3 DEF IInv, AppliedOncePerVersion, Known, Matches
  <1> QED
    BY <1>1, <1>2, <1>5, <1>7, <1>8 DEF AppliedOncePerVersion

\* What the engine's answer tells of the status before and after it.
LEMMA AcceptedFacts ==
  ASSUME IInv, NEW c \in step, StepAccepted(c)
  PROVE  /\ wpc = "step" /\ step = {c} /\ c \in Commands /\ Applicable(task, c)
         /\ UNCHANGED <<sent, ledger, contained, revoked>>
         /\ \/ c.type = "START" /\ task.status = "CREATED"
            \/ c.type = "RESUME" /\ task.status = "PAUSED"
            \/ c.type \in {"PAUSE", "CANCEL", "VERIFY"} /\ task.status = "RUNNING"
            \/ c.type \in {"KILL", "CHECKPOINT"} /\ task.status \in {"RUNNING", "PAUSED"}
            \/ c.type = "COMPLETE" /\ task.status = "VERIFYING"
            \/ c.type = "NEEDS_HUMAN" /\ task.status \in {"RUNNING", "VERIFYING"}
         /\ c.type = "KILL" => contained /\ revoked
         /\ c.type = "COMPLETE" /\ HasSideEffects => ledger = "SUCCEEDED"
         /\ StepEnds(c, Applied(task, c)) \/ StepContinues(c, Applied(task, c))
  <1>1. /\ wpc = "step" /\ step = {c} /\ Applicable(task, c)
        /\ UNCHANGED <<sent, ledger, contained, revoked>>
        /\ StepEnds(c, Applied(task, c)) \/ StepContinues(c, Applied(task, c))
    BY DEF StepAccepted, worldVars
  <1>2. /\ c.type = "KILL" => contained /\ revoked
        /\ c.type = "COMPLETE" /\ HasSideEffects => ledger = "SUCCEEDED"
    BY DEF StepAccepted, Permitted
  <1>3. c \in Commands
    BY DEF IInv, TypeOK
  <1>4. <<task.status, c.type>> \in DOMAIN Path
    BY <1>1 DEF Applicable
  <1> QED
    BY <1>1, <1>2, <1>3, <1>4, PathDomain

\* The status after a command.
LEMMA AppliedStatus ==
  ASSUME IInv, NEW c, Applicable(task, c)
  PROVE  LET status == Applied(task, c).status
         IN  /\ c.type \in {"START", "RESUME"} => status = "RUNNING"
             /\ c.type = "PAUSE" => status = "PAUSED"
             /\ c.type = "CANCEL" => status = "CANCELLING"
             /\ c.type = "KILL" => status = "KILLED"
             /\ c.type = "VERIFY" => status = "VERIFYING"
             /\ c.type = "COMPLETE" => status = "COMPLETED"
             /\ c.type = "NEEDS_HUMAN" => status = "NEEDS_HUMAN"
             /\ c.type = "CHECKPOINT" => status = task.status
  <1>1. <<task.status, c.type>> \in DOMAIN Path
    BY DEF Applicable
  <1>2. Applied(task, c).status = Target(task.status, c.type)
    BY DEF Applied
  <1> QED
    BY <1>1, <1>2, Targets

\* A transition that ends the workflow.
LEMMA StepEndsPreserves ==
  ASSUME IInv, NEW c \in step, StepAccepted(c), StepEnds(c, Applied(task, c))
  PROVE  IInv'
  <1> DEFINE next == Applied(task, c)
  <1>1. /\ wpc = "step" /\ step = {c} /\ c \in Commands /\ Applicable(task, c)
        /\ UNCHANGED <<sent, ledger, contained, revoked>> /\ admitted' = admitted
        /\ c.type = "COMPLETE" => task.status = "VERIFYING"
        /\ c.type = "KILL" => contained /\ revoked
        /\ c.type = "COMPLETE" /\ HasSideEffects => ledger = "SUCCEEDED"
    BY AcceptedFacts DEF StepEnds
  <1>2. \/ c.type = "KILL" /\ next.status = "KILLED"
        \/ c.type = "COMPLETE" /\ next.status = "COMPLETED"
    <2>1. next.status \in TerminalStatus
      BY DEF StepEnds, Terminal
    <2>2. /\ c.type \in {"START", "RESUME"} => next.status = "RUNNING"
          /\ c.type = "PAUSE" => next.status = "PAUSED"
          /\ c.type = "CANCEL" => next.status = "CANCELLING"
          /\ c.type = "KILL" => next.status = "KILLED"
          /\ c.type = "VERIFY" => next.status = "VERIFYING"
          /\ c.type = "COMPLETE" => next.status = "COMPLETED"
          /\ c.type = "NEEDS_HUMAN" => next.status = "NEEDS_HUMAN"
          /\ c.type = "CHECKPOINT" => next.status = task.status
      BY <1>1, AppliedStatus
    <2> HIDE DEF next
    <2>3. /\ c.type \in {"START", "RESUME", "PAUSE", "CANCEL", "VERIFY", "KILL", "CHECKPOINT",
                         "COMPLETE", "NEEDS_HUMAN"}
          /\ c.type = "CHECKPOINT" => task.status \in {"RUNNING", "PAUSED"}
      BY AcceptedFacts
    <2> QED
      BY <2>1, <2>2, <2>3 DEF TerminalStatus
  <1>3. why = "none"
    BY <1>1, LiveRun
  <1>4. CASE /\ task' = next /\ rejected' = rejected \cup Elements(queue)
             /\ queue' = <<>> /\ step' = {}
             /\ active' = ActiveAfter(c, next.status)
             /\ wpc' = "done" /\ UNCHANGED why
    <2>1. AppliedOncePerVersion' /\ task'.processed \in SUBSET Commands /\ IsFiniteSet(task'.processed)
      BY <1>1, <1>4, AppliedPreserves
    <2>2. task'.processed = task.processed \cup {c} /\ task'.cursor \in Nat
          /\ task' = [status |-> next.status, cursor |-> task'.cursor, processed |-> task'.processed]
      BY <1>4 DEF Applied, IInv, TypeOK
    <2>3. task' \in [status : Resting, cursor : Nat, processed : SUBSET Commands]
      BY <1>2, <2>1, <2>2 DEF Resting
    <2>4. task'.status = next.status
      BY <1>4
    <2> HIDE DEF next
    <2>5. IsFiniteSet(rejected') /\ rejected' \in SUBSET Commands
      BY <1>4, ElementsType, FS_Union DEF IInv, TypeOK
    <2>6. active' = IF c.type = "KILL" THEN FALSE ELSE active
      BY <1>2, <1>4 DEF ActiveAfter
    <2>7. Elements(queue') = {} /\ queue' \in Seq(Commands)
      BY <1>4, ElementsEmpty
    <2>8. TypeOK'
      BY <1>1, <1>4, <2>1, <2>3, <2>5, <2>6, <2>7 DEF IInv, TypeOK
    <2>9. InFlight' /\ Accounted'
      BY <1>1, <1>4, <2>2, <2>7 DEF IInv, InFlight, Accounted
    <2>10. Origins'
      BY <1>1, <1>2, <1>4, <2>4 DEF IInv, Origins
    <2>11. Fails'
      BY <1>3, <1>4 DEF Fails, FailsOnlyOnReuse
    <2>12. task'.status = "COMPLETED" => \E d \in task'.processed : d.type = "VERIFY"
      BY <1>1, <1>2, <2>2, <2>4 DEF IInv, Lifecycle
    <2>13. Lifecycle'
      BY <1>1, <1>2, <1>4, <2>4, <2>6, <2>12
         DEF IInv, Lifecycle, KilledIsContained, Terminal
    <2> QED
      BY <2>1, <2>8, <2>9, <2>10, <2>11, <2>13 DEF IInv
  <1>5. CASE /\ ~Recordable(Elements(queue), rejected)
             /\ Stuck(Raised(Elements(queue), rejected))
             /\ UNCHANGED <<task, queue, rejected, step, active>>
    <2>1. Elements(queue) \in SUBSET (step \cup Elements(queue)) /\ IsFiniteSet(step)
      BY <1>1, FS_Singleton
    <2> DEFINE reason == Raised(Elements(queue), rejected)
    <2>2. /\ reason \in {"conflict", "history"}
          /\ reason = "conflict" => \E a, d \in admitted : Matches(a, d) /\ a # d
          /\ reason = "history" =>
               Cardinality(rejected \cup step \cup Elements(queue)) > RejectionLimit
      BY <1>5, <2>1, RecordFails
    <2>3. why' = reason /\ wpc' = "stuck"
      BY <1>5 DEF Stuck
    <2> HIDE DEF reason
    <2>4. FailsOnlyOnReuse'
      BY <1>1, <1>5, <2>2, <2>3 DEF FailsOnlyOnReuse
    <2> QED
      BY <1>1, <1>5, <2>2, <2>3, <2>4, StuckPreserves DEF worldVars
  <1> QED
    BY <1>4, <1>5 DEF StepEnds

\* A transition after which run() goes on.
LEMMA StepContinuesPreserves ==
  ASSUME IInv, NEW c \in step, StepAccepted(c), StepContinues(c, Applied(task, c))
  PROVE  IInv'
  <1> DEFINE next == Applied(task, c)
             complete == SystemCommand("COMPLETE", next.cursor)
             followed == c.type = "VERIFY"
  <1>1. /\ wpc = "step" /\ step = {c} /\ c \in Commands /\ Applicable(task, c)
        /\ UNCHANGED <<sent, ledger, contained, revoked>> /\ rejected' = rejected
    BY AcceptedFacts DEF StepContinues
  <1>2. \/ c.type = "START" /\ task.status = "CREATED" /\ next.status = "RUNNING"
        \/ c.type = "RESUME" /\ task.status = "PAUSED" /\ next.status = "RUNNING"
        \/ c.type = "PAUSE" /\ task.status = "RUNNING" /\ next.status = "PAUSED"
        \/ c.type = "CANCEL" /\ task.status = "RUNNING" /\ next.status = "CANCELLING"
        \/ c.type = "VERIFY" /\ task.status = "RUNNING" /\ next.status = "VERIFYING"
        \/ /\ c.type = "CHECKPOINT" /\ task.status \in {"RUNNING", "PAUSED"}
           /\ next.status = task.status
        \/ c.type = "NEEDS_HUMAN" /\ next.status = "NEEDS_HUMAN"
    BY <1>1, AcceptedFacts, AppliedStatus DEF StepContinues, Terminal, TerminalStatus
  <1>3. why = "none"
    BY <1>1, LiveRun
  <1>4. next.cursor = task.cursor + 1 /\ task.cursor \in Nat /\ next.cursor \in Nat
    BY DEF Applied, IInv, TypeOK
  <1>5. complete \in SystemCommands /\ complete \in Commands
    BY <1>4 DEF SystemCommands, Commands, CommandTypes
  <1>6. CASE /\ task' = next /\ step' = {} /\ wpc' = "loop"
             /\ active' = ActiveAfter(c, next.status)
             /\ queue' = IF followed THEN Enqueued(complete, queue) ELSE queue
             /\ admitted' = IF followed THEN admitted \cup {complete} ELSE admitted
             /\ UNCHANGED why
    <2>1. AppliedOncePerVersion' /\ task'.processed \in SUBSET Commands /\ IsFiniteSet(task'.processed)
      BY <1>1, <1>6, AppliedPreserves
    <2>2. task'.processed = task.processed \cup {c} /\ task'.cursor \in Nat
          /\ task' = [status |-> next.status, cursor |-> task'.cursor, processed |-> task'.processed]
      BY <1>4, <1>6 DEF Applied
    <2>3. task' \in [status : Resting, cursor : Nat, processed : SUBSET Commands]
      BY <1>2, <2>1, <2>2 DEF Resting
    <2>4. task'.status = next.status
      BY <1>6
    <2> HIDE DEF next, complete
    <2>5. /\ c.type \in {"START", "RESUME"} => active' = TRUE
          /\ c.type \in {"PAUSE", "CANCEL", "NEEDS_HUMAN"} => active' = FALSE
          /\ c.type \in {"CHECKPOINT", "VERIFY"} => active' = active
      BY <1>2, <1>6 DEF ActiveAfter
    <2>6. /\ queue' \in Seq(Commands)
          /\ Elements(queue') = IF followed THEN Elements(queue) \cup {complete} ELSE Elements(queue)
      BY <1>5, <1>6, ElementsEnqueued DEF IInv, TypeOK
    <2>7. active' \in BOOLEAN
      BY <1>2, <2>5 DEF IInv, TypeOK
    <2>8. TypeOK'
      BY <1>1, <1>5, <1>6, <2>1, <2>3, <2>6, <2>7 DEF IInv, TypeOK
    <2>9. InFlight' /\ Accounted'
      BY <1>1, <1>6, <2>2, <2>6 DEF IInv, InFlight, Accounted
    <2>10. Origins'
      BY <1>1, <1>2, <1>5, <1>6, <2>4 DEF IInv, Origins
    <2>11. Fails'
      BY <1>3, <1>6 DEF Fails, FailsOnlyOnReuse
    <2>12. task'.status \in {"VERIFYING", "COMPLETED"} => \E d \in task'.processed : d.type = "VERIFY"
      BY <1>2, <2>2, <2>4
    <2>13. active' => task'.status \in {"RUNNING", "VERIFYING", "COMPLETED"}
      BY <1>2, <2>4, <2>5 DEF IInv, Lifecycle
    <2>14. Lifecycle'
      BY <1>1, <1>2, <1>6, <2>4, <2>12, <2>13
         DEF IInv, Lifecycle, KilledIsContained, Terminal, TerminalStatus
    <2> QED
      BY <2>1, <2>8, <2>9, <2>10, <2>11, <2>14 DEF IInv
  <1>7. CASE /\ followed /\ ~Admissible(complete, queue, rejected)
             /\ Stuck("followup")
             /\ UNCHANGED <<task, step, active, queue, admitted>>
    <2>1. task.status = "RUNNING"
      BY <1>2, <1>7
    <2>2. ASSUME NEW d \in Elements(queue), Matches(complete, d) PROVE d \in sent
      <3>1. d \in admitted
        BY DEF IInv, Accounted
      <3>2. CASE d \in SystemCommands
        <4>1. PICK type \in CommandTypes, n \in Nat : d = SystemCommand(type, n)
          BY <3>2 DEF SystemCommands
        <4>2. d.type = type /\ type = "COMPLETE"
          BY <2>2, <4>1 DEF Matches, SystemCommand
        <4> QED
          BY <2>1, <3>1, <3>2, <4>2 DEF IInv, Origins
      <3> QED
        BY <3>1, <3>2 DEF IInv, Origins
    <2>3. \/ \E d \in rejected \cup (Elements(queue) \cap sent), t \in CommandTypes :
               Matches(d, SystemCommand(t, 0))
          \/ Cardinality(rejected) + Len(queue) >= RejectionLimit - 1
      BY <1>4, <1>7, <2>2, FollowupRefused DEF CommandTypes
    <2>4. FailsOnlyOnReuse'
      BY <1>1, <1>7, <2>3 DEF FailsOnlyOnReuse, Stuck
    <2> QED
      BY <1>1, <1>7, <2>4, StuckPreserves DEF Stuck, worldVars
  <1> QED
    BY <1>6, <1>7 DEF StepContinues

-----------------------------------------------------------------------------
(* Every step *)

\* The polls, the containment and the execution itself.
LEMMA OutsidePreserves ==
  ASSUME IInv, PollBegins \/ PollAgain \/ LedgerMoves \/ \E c \in step : Contain(c)
  PROVE  IInv'
  <1>1. /\ ledger \in {"NONE", "RUNNING", "SUCCEEDED", "FAILED", "UNKNOWN"}
        /\ contained \in BOOLEAN /\ revoked \in BOOLEAN
    BY DEF IInv, TypeOK
  <1>2. CASE PollBegins
    BY <1>1, <1>2, WorldPreserves DEF PollBegins
  <1>3. CASE PollAgain
    BY <1>1, <1>3, WorldPreserves DEF PollAgain, worldVars
  <1>4. CASE LedgerMoves
    BY <1>1, <1>4, WorldPreserves DEF LedgerMoves
  <1>5. ASSUME NEW c \in step, Contain(c) PROVE IInv'
    <2>1. /\ UNCHANGED <<task, queue, rejected, step, active, why, sent, admitted>>
          /\ wpc' = wpc /\ ledger' = ledger
          /\ (contained' = TRUE /\ revoked' = revoked) \/ (revoked' = TRUE /\ contained' = contained)
      BY <1>5 DEF Contain
    <2>2. contained' \in BOOLEAN /\ revoked' \in BOOLEAN
      BY <1>1, <2>1
    <2>3. (contained => contained') /\ (revoked => revoked')
      BY <2>1
    <2>4. ledger = "SUCCEEDED" => ledger' = "SUCCEEDED"
      BY <2>1
    <2> QED
      BY <1>1, <2>1, <2>2, <2>3, <2>4, WorldPreserves
  <1> QED
    BY <1>2, <1>3, <1>4, <1>5

\* Every step preserves the inductive invariant.
LEMMA StepPreserves == IInv /\ [Next]_vars => IInv'
  <1> SUFFICES ASSUME IInv, [Next]_vars PROVE IInv'
    OBVIOUS
  <1>1. ASSUME NEW c \in step, StepAccepted(c) PROVE IInv'
    BY <1>1, AcceptedFacts, StepEndsPreserves, StepContinuesPreserves
  <1>2. CASE UNCHANGED vars
    <2>1. /\ UNCHANGED <<task, queue, rejected, step, active, why, sent, admitted>>
          /\ wpc' = wpc /\ UNCHANGED <<ledger, contained, revoked>>
      BY <1>2 DEF vars
    <2>2. /\ ledger \in {"NONE", "RUNNING", "SUCCEEDED", "FAILED", "UNKNOWN"}
          /\ contained \in BOOLEAN /\ revoked \in BOOLEAN
      BY DEF IInv, TypeOK
    <2> QED
      BY <2>1, <2>2, WorldPreserves
  <1>3. CASE RunStep
    BY <1>1, <1>3, OutsidePreserves, PollFindsPreserves, PopPreserves, StepRejectedPreserves
       DEF RunStep
  <1> QED
    BY <1>2, <1>3, OutsidePreserves, ApiReadsPreserves, DeliverPreserves DEF Next

-----------------------------------------------------------------------------
(* Theorems *)

\* run(), the API and the redeliveries keep the inductive invariant, whatever the
\* requests and the limits are.
THEOREM WorkflowInductive == Spec => []IInv
  BY InitEstablishes, StepPreserves, PTL DEF Spec

\* The optimistic lock of the transition engine: one command per version, and no
\* command id or idempotency key applied twice.
THEOREM WorkflowAppliedOncePerVersion == Spec => []AppliedOncePerVersion
  <1>1. IInv => AppliedOncePerVersion
    BY DEF IInv
  <1> QED
    BY <1>1, WorkflowInductive, PTL

\* No command that `command` took into the queue is ever forgotten.
THEOREM WorkflowNoCommandLost == Spec => []NoCommandLost
  <1>1. IInv => NoCommandLost
    BY DEF IInv, Accounted, NoCommandLost
  <1> QED
    BY <1>1, WorkflowInductive, PTL

\* A COMPLETED task was verified, and its side effect is SUCCEEDED in the ledger.
THEOREM WorkflowCompletedIsVerified == Spec => []CompletedIsVerified
  <1>1. IInv => CompletedIsVerified
    BY DEF IInv, Lifecycle, CompletedIsVerified
  <1> QED
    BY <1>1, WorkflowInductive, PTL

\* A KILLED task is contained and its lease revoked.
THEOREM WorkflowKilledIsContained == Spec => []KilledIsContained
  <1>1. IInv => KilledIsContained
    BY DEF IInv, Lifecycle
  <1> QED
    BY <1>1, WorkflowInductive, PTL

\* run() dispatches and polls only a task that is running or being verified.
THEOREM WorkflowPollsOnlyRunningTask == Spec => []PollsOnlyRunningTask
  <1>1. IInv => PollsOnlyRunningTask
    BY DEF IInv, Lifecycle, PollsOnlyRunningTask, Terminal, TerminalStatus
  <1> QED
    BY <1>1, WorkflowInductive, PTL

\* run() fails only where an id or a key is used again, or where the history of
\* rejections has no place left for the command in flight.
THEOREM WorkflowFailsOnlyOnReuse == Spec => []FailsOnlyOnReuse
  <1>1. IInv => FailsOnlyOnReuse
    BY DEF IInv, Fails
  <1> QED
    BY <1>1, WorkflowInductive, PTL

\* A terminal task stays what it is and leaves nothing undecided behind.
THEOREM WorkflowTerminalIsFinal == Spec => TerminalIsFinal
  <1> DEFINE Final == Terminal(task) => task' = task /\ queue' = <<>> /\ rejected' = rejected
  <1>1. ASSUME IInv, Next, Terminal(task)
        PROVE  task' = task /\ queue' = <<>> /\ rejected' = rejected
    <2>1. wpc = "done" /\ queue = <<>>
      BY <1>1 DEF IInv, Lifecycle
    <2>2. ~RunStep /\ (\A c : ~Contain(c)) /\ (\A r : ~ApiReads(r)) /\ (\A c : ~Deliver(c))
      BY <2>1 DEF RunStep, PollBegins, PollAgain, PollFinds, Pop, StepRejected, StepAccepted,
         Contain, ApiReads, Deliver, Live
    <2>3. LedgerMoves
      BY <1>1, <2>2 DEF Next
    <2> QED
      BY <2>1, <2>3 DEF LedgerMoves
  <1>2. IInv /\ [Next]_vars => [Final]_vars
    BY <1>1
  <1> QED
    BY <1>2, WorkflowInductive, PTL DEF Spec, TerminalIsFinal
=============================================================================
