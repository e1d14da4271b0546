----------------------- MODULE PolicyActivationProofs -----------------------
(***************************************************************************)
(* Safety of policy activation for any number of commands, bundles,        *)
(* environments, calls and faults.                                         *)
(*                                                                         *)
(* The administration, the PEP and the PDP agree because an environment    *)
(* has one unresolved command at a time: every claim the PEP holds open    *)
(* and every activation the PDP performs anew is that command's, for a     *)
(* resolved command was acknowledged by the PEP and is never reclaimed.    *)
(* An acknowledgement is believed because it can only reach the call that  *)
(* waits for it.                                                           *)
(***************************************************************************)
EXTENDS PolicyActivation, FiniteSetTheorems, TLAPS

Open == {"PENDING", "UNKNOWN"}
Resolved == {"ACTIVE", "SUPERSEDED", "ROLLED_BACK"}

Executor == {Idle} \cup [pc : {"prepared", "calling", "failed", "acknowledged"}, cmd : Commands]
Handler == {Free} \cup [pc : {"claimed", "loaded", "failed"}, cmd : Commands,
                        caller : Executors \cup {NoOne}]
Request == [cmd : Commands, caller : Executors \cup {NoOne}]
PepClaim == [state : {"NONE", "PENDING", "UNKNOWN", "ACTIVE"}, owner : Handlers \cup {NoOne},
             live : BOOLEAN]

Admitted == {c \in Commands : intents[c] # NoOne}

StoreTypeOK ==
    /\ version \in [Policies -> Nat]
    /\ intents \in [Commands -> Intent \cup {NoOne}]
    /\ claims \in [Commands -> PepClaim]
    /\ enforced \in [Environments -> Commands \cup {NoOne}]
    /\ loaded \in [Environments -> Commands \cup {NoOne}]
    /\ answered \subseteq Commands
    /\ IsFiniteSet(Admitted)

\* What the rows of a command say of each other: the PEP and the PDP know only admitted
\* commands, a resolved one was activated at the PEP, and what is active at the PEP was
\* performed by the PDP.
CommandSound(c) ==
    /\ intents[c] = NoOne => claims[c].state = "NONE" /\ c \notin answered
    /\ claims[c].state = "ACTIVE" => c \in answered
    /\ intents[c] # NoOne /\ intents[c].state \in Resolved => claims[c].state = "ACTIVE"

\* The bundle of a command was active in the environment before, e.
Staged(c, e) ==
    intents[c] # NoOne /\ intents[c].env = e + 1 =>
        \E d \in Active(e) \cup WasActive(e) : intents[d].bundle = intents[c].bundle

\* An environment has one active and one open command, which was admitted to replace
\* the active one; it enforces one of them, and has loaded what it enforces or the open
\* one; an open command that was activated or loaded is the last to have been.
EnvironmentSound(e) ==
    /\ \A c, d \in Active(e) : c = d
    /\ \A c, d \in Unresolved(e) : c = d
    /\ \A c \in Unresolved(e) :
         /\ intents[c].prev = Bundle(Current(e))
         /\ claims[c].state = "ACTIVE" => enforced[e] = c
         /\ c \in answered => loaded[e] = c
    /\ Active(e) # {} => enforced[e] # NoOne
    /\ enforced[e] # NoOne => enforced[e] \in Active(e) \cup Unresolved(e)
    /\ loaded[e] # enforced[e] => loaded[e] \in Unresolved(e) /\ claims[loaded[e]].state \in Open

StoreSound ==
    /\ StoreTypeOK
    /\ \A c \in Commands : CommandSound(c)
    /\ \A c \in Commands, e \in Environments : Staged(c, e)
    /\ \A e \in Environments : EnvironmentSound(e)

\* The call of the executor that waits for an answer about a command.
Waits(x, c) == executors[x] = [pc |-> "calling", cmd |-> c]

\* Every request and every handler is about an admitted command, and its caller waits
\* for nothing else.
CallsSound ==
    /\ executors \in [Executors -> Executor]
    /\ wire \subseteq Request
    /\ handlers \in [Handlers -> Handler]
    /\ \A x \in Executors : executors[x] # Idle => executors[x].cmd \in Admitted
    /\ \A x \in Executors : executors[x].pc = "acknowledged" =>
                              claims[executors[x].cmd].state = "ACTIVE"
    /\ \A m \in wire : m.cmd \in Admitted /\ (m.caller # NoOne => Waits(m.caller, m.cmd))
    /\ \A h \in Handlers : handlers[h] # Free => claims[handlers[h].cmd].state # "NONE"
    /\ \A h \in Handlers : handlers[h].pc = "loaded" => handlers[h].cmd \in answered
    /\ \A h \in Handlers : handlers[h].caller # NoOne => Waits(handlers[h].caller, handlers[h].cmd)

\* A call is answered once.
AnsweredOnce ==
    /\ \A h \in Handlers, m \in wire : handlers[h].caller # NoOne => m.caller # handlers[h].caller
    /\ \A g, h \in Handlers : handlers[g].caller # NoOne /\ handlers[g].caller = handlers[h].caller
                                => g = h

IInv == StoreSound /\ CallsSound /\ AnsweredOnce

-----------------------------------------------------------------------------
(* The administration's tables *)

\* What the sets of commands of an environment hold.
LEMMA InSets ==
  ASSUME NEW e, NEW c
  PROVE  /\ c \in Active(e) <=> c \in Admitted /\ intents[c].env = e /\ intents[c].state = "ACTIVE"
         /\ c \in Unresolved(e) <=> c \in Admitted /\ intents[c].env = e /\ intents[c].state \in Open
         /\ c \in WasActive(e) <=> /\ c \in Admitted /\ intents[c].env = e
                                   /\ intents[c].state \in {"SUPERSEDED", "ROLLED_BACK"}
  BY DEF Active, Unresolved, WasActive, In, Admitted, Open

\* The same, of the next state.
LEMMA InSetsNext ==
  ASSUME NEW CONSTANT e, NEW CONSTANT c
  PROVE  /\ c \in Active(e)' <=> c \in Admitted' /\ intents'[c].env = e /\ intents'[c].state = "ACTIVE"
         /\ c \in Unresolved(e)' <=> c \in Admitted' /\ intents'[c].env = e /\ intents'[c].state \in Open
         /\ c \in WasActive(e)' <=> /\ c \in Admitted' /\ intents'[c].env = e
                                    /\ intents'[c].state \in {"SUPERSEDED", "ROLLED_BACK"}
  BY DEF Active, Unresolved, WasActive, In, Admitted, Open

\* The current promotion of an environment.
LEMMA CurrentIs ==
  ASSUME NEW e
  PROVE  IF Active(e) = {} THEN Current(e) = NoOne ELSE Current(e) \in Active(e)
  BY DEF Current

\* The current promotion stands as long as the active ones do.
LEMMA CurrentStands ==
  ASSUME NEW e \in Environments, Active(e)' = Active(e),
         \A c \in Active(e) : intents'[c].bundle = intents[c].bundle
  PROVE  Current(e)' = Current(e) /\ Bundle(Current(e))' = Bundle(Current(e))
  <1> DEFINE Pick(S) == IF S = {} THEN NoOne ELSE CHOOSE c \in S : TRUE
  <1>1. Current(e) = Pick(Active(e)) /\ Current(e)' = Pick(Active(e)')
    BY DEF Current
  <1> HIDE DEF Pick
  <1>2. Current(e)' = Current(e)
    BY <1>1
  <1>3. Current(e) # NoOne => Current(e) \in Active(e)
    BY CurrentIs
  <1> QED
    BY <1>2, <1>3 DEF Bundle

\* An admitted command has a row.
LEMMA AdmittedRow ==
  ASSUME StoreTypeOK, NEW c \in Admitted
  PROVE  c \in Commands /\ c # NoOne /\ intents[c] # NoOne /\ intents[c] \in Intent
  BY ActivationAssumption DEF StoreTypeOK, Admitted

\* The rows of the commands change, if at all, within what an environment tells apart.
LEMMA TablesRest ==
  ASSUME \A c \in Commands :
           /\ intents'[c] = NoOne <=> intents[c] = NoOne
           /\ intents[c] # NoOne =>
                /\ intents'[c].env = intents[c].env /\ intents'[c].bundle = intents[c].bundle
                /\ \/ intents'[c].state = intents[c].state
                   \/ intents[c].state \in Open /\ intents'[c].state \in Open
  PROVE  /\ Admitted' = Admitted
         /\ \A e \in Environments : /\ Active(e)' = Active(e) /\ Unresolved(e)' = Unresolved(e)
                                    /\ WasActive(e)' = WasActive(e) /\ Current(e)' = Current(e)
                                    /\ Bundle(Current(e))' = Bundle(Current(e))
  <1>1. Admitted' = Admitted
    BY DEF Admitted
  <1>2. ASSUME NEW e \in Environments
        PROVE  /\ Active(e)' = Active(e) /\ Unresolved(e)' = Unresolved(e)
               /\ WasActive(e)' = WasActive(e)
    BY DEF Active, Unresolved, WasActive, In, Open
  <1>3. ASSUME NEW e \in Environments
        PROVE  Current(e)' = Current(e) /\ Bundle(Current(e))' = Bundle(Current(e))
    <2>1. \A c \in Active(e) : intents'[c].bundle = intents[c].bundle
      BY DEF Active, In
    <2> QED
      BY <1>2, <2>1, CurrentStands
  <1> QED
    BY <1>1, <1>2, <1>3

\* The tables stay as an environment sees them and the PEP and the PDP are left alone.
LEMMA OpenRowMoves ==
  ASSUME StoreSound, version' \in [Policies -> Nat],
         UNCHANGED <<claims, enforced, loaded, answered>>,
         intents' \in [Commands -> Intent \cup {NoOne}],
         \A c \in Commands :
           /\ intents'[c] = NoOne <=> intents[c] = NoOne
           /\ intents[c] # NoOne =>
                /\ intents'[c].env = intents[c].env /\ intents'[c].bundle = intents[c].bundle
                /\ intents'[c].prev = intents[c].prev
                /\ \/ intents'[c].state = intents[c].state
                   \/ intents[c].state \in Open /\ intents'[c].state \in Open
  PROVE  StoreSound' /\ Admitted' = Admitted
  <1>1. Admitted' = Admitted
    BY TablesRest
  <1>2. \A e \in Environments : /\ Active(e)' = Active(e) /\ Unresolved(e)' = Unresolved(e)
                                /\ WasActive(e)' = WasActive(e)
                                /\ Bundle(Current(e))' = Bundle(Current(e))
    BY TablesRest
  <1>3. StoreTypeOK'
    BY <1>1 DEF StoreSound, StoreTypeOK
  <1>4. ASSUME NEW e \in Environments PROVE EnvironmentSound(e)'
    <2>1. \A c \in Unresolved(e) : intents'[c].prev = intents[c].prev
      BY DEF Unresolved, In
    <2> QED
      BY <1>2, <2>1 DEF StoreSound, EnvironmentSound
  <1>5. ASSUME NEW c \in Commands PROVE CommandSound(c)'
    <2>1. intents'[c] # NoOne /\ intents'[c].state \in Resolved =>
            intents[c] # NoOne /\ intents[c].state \in Resolved
      BY DEF Open, Resolved
    <2> QED
      BY <2>1 DEF StoreSound, CommandSound
  <1>6. ASSUME NEW c \in Commands, NEW e \in Environments PROVE Staged(c, e)'
    <2>1. \A d \in Active(e) \cup WasActive(e) : intents'[d].bundle = intents[d].bundle
      BY DEF Active, WasActive, In
    <2> QED
      BY <1>2, <2>1 DEF StoreSound, Staged
  <1> QED
    BY <1>1, <1>3, <1>4, <1>5, <1>6 DEF StoreSound

\* The tables of the administration are left alone.
LEMMA TablesStand ==
  ASSUME UNCHANGED intents
  PROVE  /\ Admitted' = Admitted
         /\ \A e \in Environments : /\ Active(e)' = Active(e) /\ Unresolved(e)' = Unresolved(e)
                                    /\ WasActive(e)' = WasActive(e)
                                    /\ Bundle(Current(e))' = Bundle(Current(e))
         /\ \A c \in Commands, e \in Environments : Staged(c, e)' <=> Staged(c, e)
  <1>1. /\ Admitted' = Admitted
        /\ \A e \in Environments : /\ Active(e)' = Active(e) /\ Unresolved(e)' = Unresolved(e)
                                   /\ WasActive(e)' = WasActive(e)
                                   /\ Bundle(Current(e))' = Bundle(Current(e))
    BY TablesRest
  <1>2. \A c \in Commands, e \in Environments : Staged(c, e)' <=> Staged(c, e)
    BY <1>1 DEF Staged
  <1> QED
    BY <1>1, <1>2

\* What is held open at the PEP is the open command of its environment.
LEMMA OpenClaim ==
  ASSUME StoreSound, NEW c \in Commands, claims[c].state \in Open
  PROVE  c \in Admitted /\ intents[c].env \in Environments /\ c \in Unresolved(intents[c].env)
  <1>1. intents[c] # NoOne
    BY DEF StoreSound, CommandSound, Open
  <1>2. intents[c] \in Intent
    BY <1>1 DEF StoreSound, StoreTypeOK
  <1>3. intents[c].env \in Environments /\ intents[c].state \in Open \cup Resolved
    BY <1>2 DEF Intent, Open, Resolved
  <1>4. intents[c].state \in Open
    BY <1>1, <1>3 DEF StoreSound, CommandSound, Open
  <1> QED
    BY <1>1, <1>3, <1>4 DEF Unresolved, In, Open, Admitted

\* A claim of the PEP that was not resolved is taken or given up.
LEMMA ClaimMoves ==
  ASSUME StoreSound, NEW c \in Admitted, NEW claim \in PepClaim,
         claims[c].state # "ACTIVE", claim.state \in Open,
         claims' = [claims EXCEPT ![c] = claim],
         UNCHANGED <<version, intents, enforced, loaded, answered>>
  PROVE  StoreSound'
  <1>1. /\ \A e \in Environments : /\ Active(e)' = Active(e) /\ Unresolved(e)' = Unresolved(e)
                                   /\ Bundle(Current(e))' = Bundle(Current(e))
        /\ Admitted' = Admitted
        /\ \A d \in Commands, e \in Environments : Staged(d, e)' <=> Staged(d, e)
    BY TablesStand
  <1>2. c \in Commands /\ intents[c] # NoOne /\ StoreTypeOK
    BY DEF Admitted, StoreSound
  <1>3. /\ claims' \in [Commands -> PepClaim] /\ claims'[c] = claim
        /\ \A d \in Commands : d # c => claims'[d] = claims[d]
    BY <1>2 DEF StoreTypeOK
  <1>4. StoreTypeOK'
    BY <1>1, <1>2, <1>3 DEF StoreTypeOK
  <1>5. ASSUME NEW d \in Commands PROVE CommandSound(d)'
    BY <1>2, <1>3 DEF StoreSound, CommandSound, Open
  <1>6. ASSUME NEW e \in Environments PROVE EnvironmentSound(e)'
    <2>1. EnvironmentSound(e)
      BY DEF StoreSound
    <2>2. \A d \in Commands : /\ claims'[d].state = "ACTIVE" => claims[d].state = "ACTIVE"
                              /\ claims[d].state \in Open => claims'[d].state \in Open
      BY <1>3 DEF Open
    <2>3. Unresolved(e) \subseteq Commands
      BY DEF Unresolved, In
    <2> QED
      BY <1>1, <2>1, <2>2, <2>3 DEF EnvironmentSound
  <1> QED
    BY <1>1, <1>4, <1>5, <1>6 DEF StoreSound

\* The PDP performs a command whose request the PEP holds, or has answered it before.
LEMMA PdpPreserves ==
  ASSUME StoreSound, NEW c \in Commands, claims[c].state # "NONE", PdpPerforms(c),
         UNCHANGED <<version, intents, enforced, claims>>
  PROVE  StoreSound'
  <1>1. /\ \A e \in Environments : /\ Active(e)' = Active(e) /\ Unresolved(e)' = Unresolved(e)
                                   /\ Bundle(Current(e))' = Bundle(Current(e))
        /\ Admitted' = Admitted
        /\ \A d \in Commands, e \in Environments : Staged(d, e)' <=> Staged(d, e)
    BY TablesStand
  <1>2. StoreTypeOK /\ claims[c] \in PepClaim
    BY DEF StoreSound, StoreTypeOK
  <1>3. CASE c \in answered
    <2>1. UNCHANGED <<loaded, answered>>
      BY <1>3 DEF PdpPerforms
    <2>2. StoreTypeOK'
      BY <1>1, <1>2, <2>1 DEF StoreTypeOK
    <2>3. \A d \in Commands : CommandSound(d)'
      BY <2>1 DEF StoreSound, CommandSound
    <2>4. \A e \in Environments : EnvironmentSound(e)'
      BY <1>1, <2>1 DEF StoreSound, EnvironmentSound
    <2> QED
      BY <1>1, <2>2, <2>3, <2>4 DEF StoreSound
  <1>4. CASE c \notin answered
    <2> DEFINE env == intents[c].env
    <2>1. claims[c].state \in Open
      BY <1>2, <1>4 DEF StoreSound, CommandSound, PepClaim, Open
    <2>2. c \in Admitted /\ env \in Environments /\ c \in Unresolved(env)
      BY <2>1, OpenClaim
    <2>3. answered' = answered \cup {c} /\ loaded' = [loaded EXCEPT ![env] = c]
      BY <1>4 DEF PdpPerforms
    <2>4. PICK e0 \in Environments : e0 = env
      BY <2>2
    <2> HIDE DEF env
    <2>5. /\ loaded' \in [Environments -> Commands \cup {NoOne}] /\ loaded'[e0] = c
          /\ \A e \in Environments : e # e0 => loaded'[e] = loaded[e]
      BY <1>2, <2>3, <2>4 DEF StoreTypeOK
    <2>6. StoreTypeOK'
      BY <1>1, <1>2, <2>3, <2>5 DEF StoreTypeOK
    <2>7. \A d \in Commands : CommandSound(d)'
      BY <2>2, <2>3 DEF StoreSound, CommandSound, Admitted
    <2>8. ASSUME NEW e \in Environments PROVE EnvironmentSound(e)'
      <3>1. EnvironmentSound(e)
        BY DEF StoreSound
      <3>2. CASE e = e0
        <4>1. \A d \in Unresolved(e) : d = c
          BY <2>2, <2>4, <3>1, <3>2 DEF EnvironmentSound
        <4>2. loaded'[e] = c /\ c \in Unresolved(e) /\ claims'[c].state \in Open
          BY <2>1, <2>2, <2>4, <2>5, <3>2
        <4> QED
          BY <1>1, <3>1, <4>1, <4>2 DEF EnvironmentSound
      <3>3. CASE e # e0
        <4>1. c \notin Unresolved(e) /\ loaded'[e] = loaded[e]
          BY <2>4, <2>5, <3>3 DEF Unresolved, In, env
        <4> QED
          BY <1>1, <2>3, <3>1, <4>1 DEF EnvironmentSound
      <3> QED
        BY <3>2, <3>3
    <2> QED
      BY <1>1, <2>6, <2>7, <2>8 DEF StoreSound
  <1> QED
    BY <1>3, <1>4

\* The PEP enforces the command whose request it holds and the PDP has performed.
LEMMA EnforcePreserves ==
  ASSUME StoreSound, NEW c \in Commands, claims[c].state = "PENDING", c \in answered,
         claims' = [claims EXCEPT ![c].state = "ACTIVE"],
         enforced' = [enforced EXCEPT ![intents[c].env] = c],
         UNCHANGED <<version, intents, loaded, answered>>
  PROVE  StoreSound'
  <1> DEFINE env == intents[c].env
             claim == [claims[c] EXCEPT !.state = "ACTIVE"]
  <1>1. /\ \A e \in Environments : /\ Active(e)' = Active(e) /\ Unresolved(e)' = Unresolved(e)
                                   /\ Bundle(Current(e))' = Bundle(Current(e))
        /\ Admitted' = Admitted
        /\ \A d \in Commands, e \in Environments : Staged(d, e)' <=> Staged(d, e)
    BY TablesStand
  <1>2. StoreTypeOK /\ claims[c] \in PepClaim /\ c # NoOne
    BY ActivationAssumption DEF StoreSound, StoreTypeOK
  <1>3. c \in Admitted /\ env \in Environments /\ c \in Unresolved(env)
    BY OpenClaim DEF Open
  <1>4. claim \in PepClaim /\ claim.state = "ACTIVE"
    BY <1>2 DEF PepClaim
  <1>5. claims' = [claims EXCEPT ![c] = claim]
    OBVIOUS
  <1>6. PICK e0 \in Environments : e0 = env
    BY <1>3
  <1>7. enforced' = [enforced EXCEPT ![e0] = c] /\ intents[c].env = e0
    BY <1>6
  <1> HIDE DEF env, claim
  <1>8. /\ claims' \in [Commands -> PepClaim] /\ claims'[c] = claim
        /\ \A d \in Commands : d # c => claims'[d] = claims[d]
    BY <1>2, <1>4, <1>5 DEF StoreTypeOK
  <1>9. /\ enforced' \in [Environments -> Commands \cup {NoOne}] /\ enforced'[e0] = c
        /\ \A e \in Environments : e # e0 => enforced'[e] = enforced[e]
    BY <1>2, <1>7 DEF StoreTypeOK
  <1>10. StoreTypeOK'
    BY <1>1, <1>2, <1>8, <1>9 DEF StoreTypeOK
  <1>11. ASSUME NEW d \in Commands PROVE CommandSound(d)'
    BY <1>3, <1>4, <1>8 DEF StoreSound, CommandSound, Admitted
  <1>12. ASSUME NEW e \in Environments PROVE EnvironmentSound(e)'
    <2>1. EnvironmentSound(e)
      BY DEF StoreSound
    <2>2. CASE e = e0
      <3>1. c \in Unresolved(e) /\ \A d \in Unresolved(e) : d = c
        BY <1>3, <1>6, <2>1, <2>2 DEF EnvironmentSound
      <3>2. loaded[e] = c /\ enforced'[e] = c
        BY <1>9, <2>1, <2>2, <3>1 DEF EnvironmentSound
      <3> QED
        BY <1>1, <1>2, <2>1, <3>1, <3>2 DEF EnvironmentSound
    <2>3. CASE e # e0
      <3>1. c \notin Unresolved(e) /\ enforced'[e] = enforced[e]
        BY <1>7, <1>9, <2>3 DEF Unresolved, In
      <3>2. \A d \in Unresolved(e) : claims'[d] = claims[d]
        BY <1>8, <3>1 DEF Unresolved, In
      <3> QED
        BY <1>1, <2>1, <3>1, <3>2 DEF EnvironmentSound
    <2> QED
      BY <2>2, <2>3
  <1> QED
    BY <1>1, <1>10, <1>11, <1>12 DEF StoreSound

\* A new command is admitted to an environment without an open one.
LEMMA AdmitPreserves ==
  ASSUME StoreSound, NEW c \in Commands, NEW row \in Intent, NEW e \in Environments,
         intents[c] = NoOne, Unresolved(e) = {},
         row.env = e, row.state = "PENDING", row.prev = Bundle(Current(e)),
         \A f \in Environments : e = f + 1 =>
            \E d \in Active(f) \cup WasActive(f) : intents[d].bundle = row.bundle,
         intents' = [intents EXCEPT ![c] = row],
         UNCHANGED <<version, claims, enforced, loaded, answered>>
  PROVE  StoreSound' /\ Admitted' = Admitted \cup {c}
  <1>1. StoreTypeOK /\ row # NoOne /\ c \notin Admitted
    BY ActivationAssumption DEF StoreSound, Admitted
  <1>2. /\ intents' \in [Commands -> Intent \cup {NoOne}] /\ intents'[c] = row
        /\ \A d \in Commands : d # c => intents'[d] = intents[d]
    BY <1>1 DEF StoreTypeOK
  <1>3. Admitted' = Admitted \cup {c}
    BY <1>1, <1>2 DEF Admitted
  <1>4. StoreTypeOK'
    <2>1. IsFiniteSet(Admitted')
      BY <1>1, <1>3, FS_AddElement DEF StoreTypeOK
    <2> QED
      BY <1>1, <1>2, <2>1 DEF StoreTypeOK
  <1>5. ASSUME NEW f \in Environments
        PROVE  /\ Active(f)' = Active(f) /\ WasActive(f)' = WasActive(f)
               /\ Unresolved(f)' = Unresolved(f) \cup (IF f = e THEN {c} ELSE {})
    BY <1>1, <1>2 DEF Active, WasActive, Unresolved, In, Admitted
  <1>6. ASSUME NEW f \in Environments, NEW d \in Active(f) \cup WasActive(f) \cup Unresolved(f)
        PROVE  intents'[d] = intents[d] /\ d # c
    BY <1>1, <1>2 DEF Active, WasActive, Unresolved, In, Admitted
  <1>7. ASSUME NEW d \in Commands PROVE CommandSound(d)'
    BY <1>1, <1>2 DEF StoreSound, CommandSound, Resolved
  <1>8. ASSUME NEW d \in Commands, NEW f \in Environments PROVE Staged(d, f)'
    <2>1. \A g \in Active(f) \cup WasActive(f) : intents'[g].bundle = intents[g].bundle
      BY <1>6
    <2>2. CASE d = c
      BY <1>2, <1>5, <2>1, <2>2 DEF Staged
    <2>3. CASE d # c
      <3>1. Staged(d, f) /\ intents'[d] = intents[d]
        BY <1>2, <2>3 DEF StoreSound
      <3> QED
        BY <1>5, <2>1, <3>1 DEF Staged
    <2> QED
      BY <2>2, <2>3
  <1>9. ASSUME NEW f \in Environments PROVE EnvironmentSound(f)'
    <2>1. EnvironmentSound(f) /\ Bundle(Current(f))' = Bundle(Current(f))
      BY <1>5, <1>6, CurrentStands DEF StoreSound
    <2>2. CASE f = e
      <3>1. Unresolved(f)' = {c} /\ Active(f)' = Active(f)
        BY <1>5, <2>2
      <3>2. claims'[c].state = "NONE" /\ c \notin answered' /\ intents'[c].prev = Bundle(Current(f))'
        BY <1>2, <2>1, <2>2 DEF StoreSound, CommandSound
      <3>3. loaded'[f] = enforced'[f]
        BY <2>1, <2>2 DEF EnvironmentSound
      <3>4. \A d \in Unresolved(f)' : d = c
        BY <3>1
      <3> QED
        BY <2>1, <2>2, <3>1, <3>2, <3>3, <3>4 DEF EnvironmentSound
    <2>3. CASE f # e
      <3>1. Unresolved(f)' = Unresolved(f) /\ Active(f)' = Active(f)
        BY <1>5, <2>3
      <3>2. \A d \in Unresolved(f) : intents'[d] = intents[d]
        BY <1>6
      <3> QED
        BY <2>1, <3>1, <3>2 DEF EnvironmentSound
    <2> QED
      BY <2>2, <2>3
  <1> QED
    BY <1>3, <1>4, <1>7, <1>8, <1>9 DEF StoreSound

\* The second transaction: the open command takes the place of the current one.
LEMMA ResolvePreserves ==
  ASSUME StoreSound, NEW c \in Commands, NEW e \in Environments, c \in Unresolved(e),
         claims[c].state = "ACTIVE", NEW replaced \in {"SUPERSEDED", "ROLLED_BACK"},
         intents' = [d \in Commands |->
                       IF d = c THEN [intents[c] EXCEPT !.state = "ACTIVE"]
                       ELSE IF d = Current(e) THEN [intents[d] EXCEPT !.state = replaced]
                       ELSE intents[d]],
         version' \in [Policies -> Nat],
         UNCHANGED <<claims, enforced, loaded, answered>>
  PROVE  StoreSound' /\ Admitted' = Admitted
  <1>1. StoreTypeOK /\ EnvironmentSound(e)
    BY DEF StoreSound
  <1>2. c \in Admitted /\ intents[c].env = e /\ intents[c].state \in Open
    BY InSets
  <1>3. \A d \in Active(e) : d \in Admitted /\ intents[d].env = e /\ intents[d].state = "ACTIVE"
                             /\ d = Current(e)
    <2>1. \A d \in Active(e) : d \in Admitted /\ intents[d].env = e /\ intents[d].state = "ACTIVE"
      BY InSets
    <2>2. Active(e) # {} => Current(e) \in Active(e)
      BY CurrentIs
    <2> QED
      BY <1>1, <2>1, <2>2 DEF EnvironmentSound
  <1>4. \A d \in Commands : d = Current(e) => d \in Active(e)
    BY CurrentIs, ActivationAssumption
  <1>5. ASSUME NEW d \in Admitted
        PROVE  /\ intents'[d] \in Intent /\ intents'[d] # NoOne
               /\ intents'[d].env = intents[d].env /\ intents'[d].bundle = intents[d].bundle
               /\ intents'[d].prev = intents[d].prev
               /\ intents'[d].state = IF d = c THEN "ACTIVE"
                                      ELSE IF d = Current(e) THEN replaced ELSE intents[d].state
    <2>1. d \in Commands /\ intents[d] \in Intent /\ intents[d] # NoOne
      BY <1>1, AdmittedRow
    <2>2. CASE d = c
      <3> DEFINE r == [intents[d] EXCEPT !.state = "ACTIVE"]
      <3>1. /\ r \in Intent /\ r.env = intents[d].env /\ r.bundle = intents[d].bundle
            /\ r.prev = intents[d].prev /\ r.state = "ACTIVE"
        BY <2>1 DEF Intent
      <3>2. intents'[d] = r
        BY <2>1, <2>2
      <3> HIDE DEF r
      <3> QED
        BY <2>2, <3>1, <3>2, ActivationAssumption
    <2>3. CASE d # c /\ d = Current(e)
      <3> DEFINE r == [intents[d] EXCEPT !.state = replaced]
      <3>1. /\ r \in Intent /\ r.env = intents[d].env /\ r.bundle = intents[d].bundle
            /\ r.prev = intents[d].prev /\ r.state = replaced
        BY <2>1 DEF Intent
      <3>2. intents'[d] = r
        BY <2>1, <2>3
      <3> HIDE DEF r
      <3> QED
        BY <2>3, <3>1, <3>2, ActivationAssumption
    <2>4. CASE d # c /\ d # Current(e)
      <3>1. intents'[d] = intents[d]
        BY <2>1, <2>4
      <3> QED
        BY <2>1, <2>4, <3>1
    <2> QED
      BY <2>2, <2>3, <2>4
  <1>6. ASSUME NEW d \in Commands, d \notin Admitted
        PROVE  intents'[d] = NoOne /\ intents[d] = NoOne
    <2>1. d # c /\ d # Current(e)
      BY <1>2, <1>3, <1>4, <1>6
    <2> QED
      BY <1>6, <2>1 DEF Admitted
  <1>7. Admitted' = Admitted
    BY <1>5, <1>6 DEF Admitted
  <1>8. StoreTypeOK'
    <2>1. intents' \in [Commands -> Intent \cup {NoOne}]
      BY <1>5, <1>6
    <2> QED
      BY <1>1, <1>7, <2>1 DEF StoreTypeOK
  <1>9. ASSUME NEW d \in Commands PROVE CommandSound(d)'
    <2>1. CommandSound(d)
      BY DEF StoreSound
    <2>2. CASE d \notin Admitted
      BY <1>6, <2>1, <2>2 DEF CommandSound
    <2>3. CASE d \in Admitted
      <3>1. d = Current(e) => intents[d].state \in Resolved
        BY <1>3, <1>4 DEF Resolved
      <3>2. intents'[d].state \in Resolved => d = c \/ intents[d].state \in Resolved
        BY <1>5, <2>3, <3>1
      <3> QED
        BY <1>5, <2>1, <2>3, <3>2 DEF CommandSound, Admitted
    <2> QED
      BY <2>2, <2>3
  <1>10. ASSUME NEW d \in Commands, NEW f \in Environments PROVE Staged(d, f)'
    <2>1. ASSUME NEW g \in Active(f) \cup WasActive(f)
          PROVE  g \in Active(f)' \cup WasActive(f)' /\ intents'[g].bundle = intents[g].bundle
      <3>1. /\ g \in Admitted /\ intents[g].env = f
            /\ intents[g].state \in {"ACTIVE", "SUPERSEDED", "ROLLED_BACK"}
        BY <2>1, InSets
      <3>2. intents'[g].state \in {"ACTIVE", "SUPERSEDED", "ROLLED_BACK"}
        BY <1>5, <3>1
      <3> QED
        BY <1>5, <1>7, <3>1, <3>2, InSetsNext
    <2>2. Staged(d, f)
      BY DEF StoreSound
    <2>3. intents'[d] # NoOne => intents[d] # NoOne /\ intents'[d].env = intents[d].env
                                 /\ intents'[d].bundle = intents[d].bundle
      BY <1>5, <1>6 DEF Admitted
    <2> QED
      BY <2>1, <2>2, <2>3 DEF Staged
  <1>11. EnvironmentSound(e)'
    <2>1. enforced[e] = c /\ loaded[e] = c /\ c # NoOne
      BY <1>1, ActivationAssumption DEF EnvironmentSound
    <2>2. \A d : d \in Unresolved(e)' => FALSE
      <3> SUFFICES ASSUME NEW CONSTANT d, d \in Unresolved(e)' PROVE FALSE
        OBVIOUS
      <3>1. d \in Admitted /\ intents'[d].env = e /\ intents'[d].state \in Open
        BY <1>7, InSetsNext
      <3>2. d # c /\ d # Current(e) /\ intents[d].state \in Open /\ intents[d].env = e
        BY <1>5, <3>1 DEF Open
      <3>3. d \in Unresolved(e)
        BY <3>1, <3>2, InSets
      <3> QED
        BY <1>1, <3>2, <3>3 DEF EnvironmentSound
    <2>3. \A d : d \in Active(e)' <=> d = c
      <3>1. c \in Active(e)'
        BY <1>2, <1>5, <1>7, InSetsNext
      <3>2. ASSUME NEW CONSTANT d, d \in Active(e)' PROVE d = c
        <4>1. d \in Admitted /\ intents'[d].env = e /\ intents'[d].state = "ACTIVE"
          BY <1>7, <3>2, InSetsNext
        <4>2. CASE d # c
          <5>1. d # Current(e) /\ intents[d].state = "ACTIVE" /\ intents[d].env = e
            BY <1>5, <4>1, <4>2
          <5>2. d \in Active(e)
            BY <4>1, <5>1, InSets
          <5> QED
            BY <1>3, <5>1, <5>2
        <4> QED
          BY <4>2
      <3> QED
        BY <3>1, <3>2
    <2> QED
      BY <2>1, <2>2, <2>3 DEF EnvironmentSound
  <1>12. ASSUME NEW f \in Environments, f # e PROVE EnvironmentSound(f)'
    <2>1. ASSUME NEW CONSTANT d, d \in Admitted, intents[d].env = f
          PROVE  intents'[d].state = intents[d].state
      BY <1>2, <1>3, <1>4, <1>5, <1>12, <2>1 DEF Admitted
    <2>2. Active(f)' = Active(f) /\ Unresolved(f)' = Unresolved(f)
      <3>1. ASSUME NEW CONSTANT d
            PROVE  (d \in Active(f)' <=> d \in Active(f)) /\ (d \in Unresolved(f)' <=> d \in Unresolved(f))
        <4>1. d \in Admitted => intents'[d].env = intents[d].env
          BY <1>5
        <4>2. d \in Admitted /\ intents[d].env = f => intents'[d].state = intents[d].state
          BY <2>1
        <4>3. /\ d \in Active(f) <=> d \in Admitted /\ intents[d].env = f /\ intents[d].state = "ACTIVE"
              /\ d \in Active(f)' <=> d \in Admitted /\ intents'[d].env = f /\ intents'[d].state = "ACTIVE"
          BY <1>7, InSets, InSetsNext
        <4>4. /\ d \in Unresolved(f) <=> d \in Admitted /\ intents[d].env = f /\ intents[d].state \in Open
              /\ d \in Unresolved(f)' <=> d \in Admitted /\ intents'[d].env = f /\ intents'[d].state \in Open
          BY <1>7, InSets, InSetsNext
        <4> QED
          BY <4>1, <4>2, <4>3, <4>4
      <3> QED
        BY <3>1
    <2>3. \A d \in Active(f) \cup Unresolved(f) : /\ intents'[d].bundle = intents[d].bundle
                                                  /\ intents'[d].prev = intents[d].prev
      BY <1>5, InSets
    <2>4. Bundle(Current(f))' = Bundle(Current(f))
      BY <2>2, <2>3, CurrentStands
    <2>5. EnvironmentSound(f)
      BY DEF StoreSound
    <2> QED
      BY <2>2, <2>3, <2>4, <2>5 DEF EnvironmentSound
  <1> QED
    BY <1>7, <1>8, <1>9, <1>10, <1>11, <1>12 DEF StoreSound

-----------------------------------------------------------------------------
(* The calls in progress *)

CallsPart == CallsSound /\ AnsweredOnce

\* Nothing the calls rely on is taken back.
StoreGrows ==
    /\ Admitted \subseteq Admitted'
    /\ answered \subseteq answered'
    /\ \A c \in Commands : /\ claims[c].state # "NONE" => claims'[c].state # "NONE"
                           /\ claims[c].state = "ACTIVE" => claims'[c].state = "ACTIVE"

\* The points of a call and of a handler.
LEMMA Points ==
  /\ Idle \in Executor /\ Idle.pc = "idle" /\ Idle.cmd = NoOne
  /\ Free \in Handler /\ Free.pc = "free" /\ Free.cmd = NoOne /\ Free.caller = NoOne
  BY DEF Executor, Handler, Idle, Free

\* A call or a handler at work has a command.
LEMMA AtWork ==
  ASSUME CallsPart
  PROVE  /\ \A x \in Executors : executors[x].pc # "idle" =>
              /\ executors[x] # Idle /\ executors[x].cmd \in Admitted /\ executors[x].cmd \in Commands
              /\ executors[x] \in [pc : {"prepared", "calling", "failed", "acknowledged"}, cmd : Commands]
         /\ \A h \in Handlers : handlers[h].pc # "free" =>
              /\ handlers[h] # Free /\ handlers[h].cmd \in Commands
              /\ claims[handlers[h].cmd].state # "NONE"
              /\ handlers[h] \in [pc : {"claimed", "loaded", "failed"}, cmd : Commands,
                                  caller : Executors \cup {NoOne}]
  <1>1. ASSUME NEW x \in Executors, executors[x].pc # "idle"
        PROVE  /\ executors[x] # Idle /\ executors[x].cmd \in Admitted /\ executors[x].cmd \in Commands
               /\ executors[x] \in [pc : {"prepared", "calling", "failed", "acknowledged"}, cmd : Commands]
    BY <1>1, Points DEF CallsPart, CallsSound, Executor
  <1>2. ASSUME NEW h \in Handlers, handlers[h].pc # "free"
        PROVE  /\ handlers[h] # Free /\ handlers[h].cmd \in Commands
               /\ claims[handlers[h].cmd].state # "NONE"
               /\ handlers[h] \in [pc : {"claimed", "loaded", "failed"}, cmd : Commands,
                                   caller : Executors \cup {NoOne}]
    BY <1>2, Points DEF CallsPart, CallsSound, Handler
  <1> QED
    BY <1>1, <1>2

\* No caller is left alone by name: what has a caller has one that waits.
LEMMA Callers ==
  ASSUME CallsPart, NEW x \in Executors, executors[x].pc # "calling"
  PROVE  /\ \A m \in wire : m.caller # x
         /\ \A h \in Handlers : handlers[h].caller # x
  <1>1. x # NoOne
    BY ActivationAssumption
  <1>2. \A c : ~Waits(x, c)
    BY DEF Waits
  <1> QED
    BY <1>1, <1>2 DEF CallsPart, CallsSound

\* The calls are left alone.
LEMMA CallsRest ==
  ASSUME CallsPart, StoreGrows, UNCHANGED <<executors, wire, handlers>>
  PROVE  CallsPart'
  <1>1. \A x \in Executors : executors[x] # Idle => executors[x].cmd \in Commands
    BY Points DEF CallsPart, CallsSound, Executor
  <1>2. \A h \in Handlers : handlers[h] # Free => handlers[h].cmd \in Commands
    BY Points DEF CallsPart, CallsSound, Handler
  <1>3. \A x \in Executors : executors[x].pc = "acknowledged" => executors[x] # Idle
    BY Points
  <1>4. CallsSound'
    BY <1>1, <1>2, <1>3 DEF CallsPart, CallsSound, StoreGrows, Waits
  <1>5. AnsweredOnce'
    BY DEF CallsPart, AnsweredOnce
  <1> QED
    BY <1>4, <1>5 DEF CallsPart

\* What the calls of the executor say of the store, when those that change say it anew.
LEMMA ExecutorsKeep ==
  ASSUME CallsPart, StoreGrows,
         \A y \in Executors :
           \/ executors'[y] = executors[y]
           \/ /\ executors'[y] # Idle => executors'[y].cmd \in Admitted'
              /\ executors'[y].pc = "acknowledged" => claims'[executors'[y].cmd].state = "ACTIVE"
  PROVE  /\ \A y \in Executors : executors'[y] # Idle => executors'[y].cmd \in Admitted'
         /\ \A y \in Executors : executors'[y].pc = "acknowledged" =>
                                   claims'[executors'[y].cmd].state = "ACTIVE"
  <1>1. ASSUME NEW y \in Executors, executors[y] # Idle
        PROVE  /\ executors[y].cmd \in Admitted'
               /\ executors[y].pc = "acknowledged" => claims'[executors[y].cmd].state = "ACTIVE"
    <2>1. executors[y].cmd \in Commands
      BY <1>1, Points DEF CallsPart, CallsSound, Executor
    <2> QED
      BY <1>1, <2>1 DEF CallsPart, CallsSound, StoreGrows
  <1>2. \A y \in Executors : executors[y].pc = "acknowledged" => executors[y] # Idle
    BY Points
  <1> QED
    BY <1>1, <1>2

\* The same of the handlers.
LEMMA HandlersKeep ==
  ASSUME CallsPart, StoreGrows,
         \A h \in Handlers :
           \/ handlers'[h] = handlers[h]
           \/ /\ handlers'[h] # Free => claims'[handlers'[h].cmd].state # "NONE"
              /\ handlers'[h].pc = "loaded" => handlers'[h].cmd \in answered'
  PROVE  /\ \A h \in Handlers : handlers'[h] # Free => claims'[handlers'[h].cmd].state # "NONE"
         /\ \A h \in Handlers : handlers'[h].pc = "loaded" => handlers'[h].cmd \in answered'
  <1>1. ASSUME NEW h \in Handlers
        PROVE  /\ handlers[h] # Free => claims'[handlers[h].cmd].state # "NONE"
               /\ handlers[h].pc = "loaded" => handlers[h].cmd \in answered'
    <2>1. handlers[h] # Free => handlers[h].cmd \in Commands
      BY Points DEF CallsPart, CallsSound, Handler
    <2> QED
      BY <2>1 DEF CallsPart, CallsSound, StoreGrows
  <1> QED
    BY <1>1

\* A call that nobody is to answer moves on.
LEMMA CallMoves ==
  ASSUME CallsPart, StoreGrows, NEW x \in Executors, executors[x].pc # "calling",
         NEW r \in Executor, r # Idle => r.cmd \in Admitted', r.pc # "acknowledged",
         executors' = [executors EXCEPT ![x] = r], UNCHANGED <<wire, handlers>>
  PROVE  CallsPart'
  <1>1. /\ executors' \in [Executors -> Executor] /\ executors'[x] = r
        /\ \A y \in Executors : y # x => executors'[y] = executors[y]
    BY DEF CallsPart, CallsSound
  <1>2. /\ \A m \in wire : m.caller # x
        /\ \A h \in Handlers : handlers[h].caller # x
    BY Callers
  <1>3. /\ \A y \in Executors : executors'[y] # Idle => executors'[y].cmd \in Admitted'
        /\ \A y \in Executors : executors'[y].pc = "acknowledged" =>
                                  claims'[executors'[y].cmd].state = "ACTIVE"
    BY <1>1, ExecutorsKeep
  <1>4. ASSUME NEW m \in wire
        PROVE  m.cmd \in Admitted' /\ (m.caller # NoOne => Waits(m.caller, m.cmd)')
    <2>1. m.caller # NoOne => m.caller \in Executors
      BY DEF CallsPart, CallsSound, Request
    <2> QED
      BY <1>1, <1>2, <2>1 DEF CallsPart, CallsSound, StoreGrows, Waits
  <1>5. ASSUME NEW h \in Handlers
        PROVE  /\ handlers[h] # Free => claims'[handlers[h].cmd].state # "NONE"
               /\ handlers[h].pc = "loaded" => handlers[h].cmd \in answered'
               /\ handlers[h].caller # NoOne => Waits(handlers[h].caller, handlers[h].cmd)'
    <2>1. /\ handlers[h].caller # NoOne => handlers[h].caller \in Executors
          /\ handlers[h] # Free => handlers[h].cmd \in Commands
      BY Points DEF CallsPart, CallsSound, Handler
    <2> QED
      BY <1>1, <1>2, <2>1 DEF CallsPart, CallsSound, StoreGrows, Waits
  <1>6. CallsSound'
    BY <1>1, <1>3, <1>4, <1>5 DEF CallsPart, CallsSound
  <1>7. AnsweredOnce'
    BY DEF CallsPart, AnsweredOnce
  <1> QED
    BY <1>6, <1>7 DEF CallsPart

\* A call sends its request to the PEP.
LEMMA SendPreserves ==
  ASSUME CallsPart, StoreGrows, NEW x \in Executors, Activate(x)
  PROVE  CallsPart'
  <1> DEFINE c == executors[x].cmd
             r == [executors[x] EXCEPT !.pc = "calling"]
             m0 == [cmd |-> c, caller |-> x]
  <1>1. executors[x].pc = "prepared" /\ c \in Admitted /\ c \in Commands
        /\ executors[x] \in [pc : {"prepared", "calling", "failed", "acknowledged"}, cmd : Commands]
    BY AtWork DEF Activate
  <1>2. /\ r \in [pc : {"prepared", "calling", "failed", "acknowledged"}, cmd : Commands]
        /\ r = [pc |-> "calling", cmd |-> c] /\ r.pc = "calling" /\ r.cmd = c
    BY <1>1
  <1>3. r \in Executor
    BY <1>2 DEF Executor
  <1>4. m0 \in Request /\ m0.cmd = c /\ m0.caller = x /\ x # NoOne
    BY <1>1, ActivationAssumption DEF Request
  <1>5. executors' = [executors EXCEPT ![x] = r] /\ wire' = wire \cup {m0} /\ handlers' = handlers
    BY DEF Activate
  <1> HIDE DEF c, r, m0
  <1>6. /\ executors' \in [Executors -> Executor] /\ executors'[x] = r
        /\ \A y \in Executors : y # x => executors'[y] = executors[y]
    BY <1>3, <1>5 DEF CallsPart, CallsSound
  <1>7. /\ \A m \in wire : m.caller # x
        /\ \A h \in Handlers : handlers[h].caller # x
    BY <1>1, Callers
  <1>8. /\ \A y \in Executors : executors'[y] # Idle => executors'[y].cmd \in Admitted'
        /\ \A y \in Executors : executors'[y].pc = "acknowledged" =>
                                  claims'[executors'[y].cmd].state = "ACTIVE"
    <2>1. c \in Admitted'
      BY <1>1 DEF StoreGrows
    <2> QED
      BY <1>2, <1>6, <2>1, ExecutorsKeep
  <1>9. /\ \A h \in Handlers : handlers'[h] # Free => claims'[handlers'[h].cmd].state # "NONE"
        /\ \A h \in Handlers : handlers'[h].pc = "loaded" => handlers'[h].cmd \in answered'
    BY <1>5, HandlersKeep
  <1>10. ASSUME NEW m \in wire'
         PROVE  m.cmd \in Admitted' /\ (m.caller # NoOne => Waits(m.caller, m.cmd)')
    <2>1. CASE m = m0
      BY <1>1, <1>2, <1>4, <1>6, <2>1 DEF StoreGrows, Waits
    <2>2. CASE m \in wire
      <3>1. m.caller # NoOne => m.caller \in Executors
        BY <2>2 DEF CallsPart, CallsSound, Request
      <3> QED
        BY <1>6, <1>7, <2>2, <3>1 DEF CallsPart, CallsSound, StoreGrows, Waits
    <2> QED
      BY <1>5, <2>1, <2>2
  <1>11. ASSUME NEW h \in Handlers, handlers'[h].caller # NoOne
         PROVE  Waits(handlers[h].caller, handlers[h].cmd)'
    <2>1. handlers[h].caller \in Executors /\ handlers[h].caller # x
      BY <1>5, <1>7, <1>11, Points DEF CallsPart, CallsSound, Handler
    <2> QED
      BY <1>5, <1>6, <1>11, <2>1 DEF CallsPart, CallsSound, Waits
  <1>12. CallsSound'
    <2>1. wire' \subseteq Request /\ handlers' \in [Handlers -> Handler]
      BY <1>4, <1>5 DEF CallsPart, CallsSound
    <2> QED
      BY <1>6, <1>8, <1>9, <1>10, <1>11, <2>1 DEF CallsSound
  <1>13. AnsweredOnce'
    BY <1>4, <1>5, <1>7 DEF CallsPart, AnsweredOnce
  <1> QED
    BY <1>12, <1>13 DEF CallsPart

\* A call gives up: its request and its handler lose their caller.
LEMMA HangUpPreserves ==
  ASSUME CallsPart, StoreGrows, NEW x \in Executors, HangsUp(x),
         NEW r \in Executor, r # Idle => r.cmd \in Admitted', r.pc # "acknowledged",
         executors' = [executors EXCEPT ![x] = r]
  PROVE  CallsPart'
  <1>1. /\ executors' \in [Executors -> Executor] /\ executors'[x] = r
        /\ \A y \in Executors : y # x => executors'[y] = executors[y]
    BY DEF CallsPart, CallsSound
  <1>2. x # NoOne
    BY ActivationAssumption
  <1>3. ASSUME NEW m \in wire'
        PROVE  /\ m \in Request /\ m.caller # x
               /\ \E n \in wire : n.cmd = m.cmd /\ (m.caller = NoOne \/ m.caller = n.caller)
    <2>1. PICK n \in wire : m = IF n.caller = x THEN [n EXCEPT !.caller = NoOne] ELSE n
      BY DEF HangsUp
    <2>2. n \in Request
      BY DEF CallsPart, CallsSound
    <2>3. CASE n.caller = x
      <3> DEFINE q == [n EXCEPT !.caller = NoOne]
      <3>1. q \in Request /\ q.cmd = n.cmd /\ q.caller = NoOne
        BY <2>2 DEF Request
      <3> HIDE DEF q
      <3>2. m = q
        BY <2>1, <2>3 DEF q
      <3> QED
        BY <1>2, <3>1, <3>2
    <2>4. CASE n.caller # x
      BY <2>1, <2>2, <2>4
    <2> QED
      BY <2>3, <2>4
  <1>4. ASSUME NEW h \in Handlers
        PROVE  /\ handlers'[h] \in Handler /\ handlers'[h].caller # x
               /\ handlers'[h].pc = handlers[h].pc /\ handlers'[h].cmd = handlers[h].cmd
               /\ handlers'[h].caller = NoOne \/ handlers'[h] = handlers[h]
               /\ handlers'[h] # Free => handlers[h] # Free
    <2>1. handlers[h] \in Handler
      BY DEF CallsPart, CallsSound
    <2>2. CASE handlers[h].caller = x
      <3> DEFINE q == [handlers[h] EXCEPT !.caller = NoOne]
      <3>1. handlers[h] # Free
        BY <1>2, <2>2, Points
      <3>2. q \in Handler /\ q.pc = handlers[h].pc /\ q.cmd = handlers[h].cmd /\ q.caller = NoOne
        BY <2>1, <3>1 DEF Handler
      <3> HIDE DEF q
      <3>3. handlers'[h] = q
        BY <2>2 DEF HangsUp, q
      <3> QED
        BY <1>2, <3>1, <3>2, <3>3
    <2>3. CASE handlers[h].caller # x
      BY <2>1, <2>3 DEF HangsUp
    <2> QED
      BY <2>2, <2>3
  <1>5. handlers' \in [Handlers -> Handler]
    <2>1. handlers' = [h \in Handlers |-> handlers'[h]]
      BY DEF HangsUp
    <2> QED
      BY <1>4, <2>1
  <1>6. /\ \A y \in Executors : executors'[y] # Idle => executors'[y].cmd \in Admitted'
        /\ \A y \in Executors : executors'[y].pc = "acknowledged" =>
                                  claims'[executors'[y].cmd].state = "ACTIVE"
    BY <1>1, ExecutorsKeep
  <1>7. ASSUME NEW h \in Handlers
        PROVE  /\ handlers'[h] # Free => claims'[handlers'[h].cmd].state # "NONE"
               /\ handlers'[h].pc = "loaded" => handlers'[h].cmd \in answered'
    <2>1. handlers[h] # Free => handlers[h].cmd \in Commands
      BY Points DEF CallsPart, CallsSound, Handler
    <2> QED
      BY <1>4, <2>1 DEF CallsPart, CallsSound, StoreGrows
  <1>8. ASSUME NEW m \in wire'
        PROVE  m.cmd \in Admitted' /\ (m.caller # NoOne => Waits(m.caller, m.cmd)')
    <2>1. PICK n \in wire : n.cmd = m.cmd /\ (m.caller = NoOne \/ m.caller = n.caller)
      BY <1>3
    <2>2. m.caller # NoOne => m.caller \in Executors /\ m.caller # x
      BY <1>3 DEF Request
    <2> QED
      BY <1>1, <2>1, <2>2 DEF CallsPart, CallsSound, StoreGrows, Waits
  <1>9. ASSUME NEW h \in Handlers, handlers'[h].caller # NoOne
        PROVE  executors'[handlers'[h].caller] = [pc |-> "calling", cmd |-> handlers'[h].cmd]
    <2>1. handlers'[h] = handlers[h] /\ handlers[h].caller \in Executors /\ handlers[h].caller # x
      BY <1>4, <1>9, Points DEF Handler
    <2> QED
      BY <1>1, <1>9, <2>1 DEF CallsPart, CallsSound, Waits
  <1>10. CallsSound'
    <2>1. wire' \subseteq Request
      BY <1>3
    <2> QED
      BY <1>1, <1>5, <1>6, <1>7, <1>8, <1>9, <2>1 DEF CallsSound, Waits
  <1>11. AnsweredOnce'
    <2>1. ASSUME NEW h \in Handlers, NEW m \in wire', handlers'[h].caller # NoOne
          PROVE  m.caller # handlers'[h].caller
      BY <1>3, <1>4, <2>1 DEF CallsPart, AnsweredOnce
    <2>2. ASSUME NEW g \in Handlers, NEW h \in Handlers, handlers'[g].caller # NoOne,
                 handlers'[g].caller = handlers'[h].caller
          PROVE  g = h
      BY <1>4, <2>2 DEF CallsPart, AnsweredOnce
    <2> QED
      BY <2>1, <2>2 DEF AnsweredOnce
  <1> QED
    BY <1>10, <1>11 DEF CallsPart

\* A call has one request on the wire.
LEMMA WireUnique ==
  ASSUME CallsPart, NEW m \in wire, NEW n \in wire, n # m, m.caller # NoOne
  PROVE  n.caller # m.caller
  <1> SUFFICES ASSUME n.caller = m.caller PROVE FALSE
    OBVIOUS
  <1>1. m \in Request /\ n \in Request /\ Waits(m.caller, m.cmd) /\ Waits(m.caller, n.cmd)
    BY DEF CallsPart, CallsSound
  <1>2. n.cmd = m.cmd
    <2> DEFINE a == [pc |-> "calling", cmd |-> n.cmd]
               b == [pc |-> "calling", cmd |-> m.cmd]
    <2>1. a = b
      BY <1>1 DEF Waits
    <2>2. a.cmd = n.cmd /\ b.cmd = m.cmd
      OBVIOUS
    <2> HIDE DEF a, b
    <2> QED
      BY <2>1, <2>2
  <1> QED
    BY <1>1, <1>2 DEF Request

\* A handler takes a request off the wire.
LEMMA TakePreserves ==
  ASSUME CallsPart, StoreGrows, NEW h \in Handlers, NEW m \in wire, handlers[h] = Free,
         wire' = wire \ {m}, executors' = executors, claims'[m.cmd].state # "NONE",
         handlers' = [handlers EXCEPT ![h] = [pc |-> "claimed", cmd |-> m.cmd, caller |-> m.caller]]
  PROVE  CallsPart'
  <1> DEFINE r == [pc |-> "claimed", cmd |-> m.cmd, caller |-> m.caller]
  <1>1. m \in Request /\ (m.caller # NoOne => m.caller \in Executors /\ Waits(m.caller, m.cmd))
    BY DEF CallsPart, CallsSound, Request
  <1>2. r \in Handler /\ r.pc = "claimed" /\ r.cmd = m.cmd /\ r.caller = m.caller
    BY <1>1 DEF Handler, Request
  <1>3. handlers' = [handlers EXCEPT ![h] = r]
    OBVIOUS
  <1> HIDE DEF r
  <1>4. /\ handlers' \in [Handlers -> Handler] /\ handlers'[h] = r
        /\ \A g \in Handlers : g # h => handlers'[g] = handlers[g]
    BY <1>2, <1>3 DEF CallsPart, CallsSound
  <1>5. /\ \A y \in Executors : executors'[y] # Idle => executors'[y].cmd \in Admitted'
        /\ \A y \in Executors : executors'[y].pc = "acknowledged" =>
                                  claims'[executors'[y].cmd].state = "ACTIVE"
    BY ExecutorsKeep
  <1>6. /\ \A g \in Handlers : handlers'[g] # Free => claims'[handlers'[g].cmd].state # "NONE"
        /\ \A g \in Handlers : handlers'[g].pc = "loaded" => handlers'[g].cmd \in answered'
    BY <1>2, <1>4, HandlersKeep
  <1>7. CallsSound'
    BY <1>1, <1>2, <1>4, <1>5, <1>6 DEF CallsPart, CallsSound, StoreGrows, Waits
  <1>8. \A n \in wire : n # m /\ m.caller # NoOne => n.caller # m.caller
    BY WireUnique
  <1>9. AnsweredOnce'
    <2>1. ASSUME NEW g \in Handlers, NEW n \in wire', handlers'[g].caller # NoOne
          PROVE  n.caller # handlers'[g].caller
      BY <1>2, <1>4, <1>8, <2>1 DEF CallsPart, AnsweredOnce
    <2>2. ASSUME NEW f \in Handlers, NEW g \in Handlers, handlers'[f].caller # NoOne,
                 handlers'[f].caller = handlers'[g].caller
          PROVE  f = g
      BY <1>2, <1>4, <2>2 DEF CallsPart, AnsweredOnce
    <2> QED
      BY <2>1, <2>2 DEF AnsweredOnce
  <1> QED
    BY <1>7, <1>9 DEF CallsPart

\* A handler goes on, or dies without an answer.
LEMMA HandlerMoves ==
  ASSUME CallsPart, StoreGrows, NEW h \in Handlers, NEW r \in Handler,
         \/ r = Free
         \/ /\ handlers[h] # Free /\ r.cmd = handlers[h].cmd /\ r.caller = handlers[h].caller
            /\ r.pc = "loaded" => r.cmd \in answered',
         handlers' = [handlers EXCEPT ![h] = r], UNCHANGED <<executors, wire>>
  PROVE  CallsPart'
  <1>1. /\ handlers' \in [Handlers -> Handler] /\ handlers'[h] = r
        /\ \A g \in Handlers : g # h => handlers'[g] = handlers[g]
    BY DEF CallsPart, CallsSound
  <1>2. /\ \A y \in Executors : executors'[y] # Idle => executors'[y].cmd \in Admitted'
        /\ \A y \in Executors : executors'[y].pc = "acknowledged" =>
                                  claims'[executors'[y].cmd].state = "ACTIVE"
    BY ExecutorsKeep
  <1>3. handlers[h] # Free => handlers[h].cmd \in Commands /\ claims'[handlers[h].cmd].state # "NONE"
    BY Points DEF CallsPart, CallsSound, StoreGrows, Handler
  <1>4. /\ \A g \in Handlers : handlers'[g] # Free => claims'[handlers'[g].cmd].state # "NONE"
        /\ \A g \in Handlers : handlers'[g].pc = "loaded" => handlers'[g].cmd \in answered'
    <2>1. r # Free => claims'[r.cmd].state # "NONE"
      BY <1>3
    <2>2. r.pc = "loaded" => r.cmd \in answered'
      BY Points
    <2> QED
      BY <1>1, <2>1, <2>2, HandlersKeep
  <1>5. r.caller = NoOne \/ (r.caller = handlers[h].caller /\ r.cmd = handlers[h].cmd)
    BY Points
  <1>6. CallsSound'
    BY <1>1, <1>2, <1>4, <1>5 DEF CallsPart, CallsSound, StoreGrows, Waits
  <1>7. AnsweredOnce'
    BY <1>1, <1>5 DEF CallsPart, AnsweredOnce
  <1> QED
    BY <1>6, <1>7 DEF CallsPart

\* The answer reaches the call that waits for it, which nobody else will answer.
LEMMA AnswerPreserves ==
  ASSUME CallsPart, StoreGrows, NEW x \in Executors \cup {NoOne}, NEW c \in Commands,
         NEW pc \in {"failed", "acknowledged"},
         x # NoOne => Waits(x, c), pc = "acknowledged" => claims'[c].state = "ACTIVE",
         executors' = IF x # NoOne THEN [executors EXCEPT ![x].pc = pc] ELSE executors,
         wire' \subseteq wire, handlers' \in [Handlers -> Handler],
         \A g \in Handlers : handlers'[g] = handlers[g] \/ handlers'[g] = Free,
         x # NoOne => \A m \in wire' : m.caller # x,
         x # NoOne => \A g \in Handlers : handlers'[g].caller # x
  PROVE  CallsPart'
  <1>1. /\ executors' \in [Executors -> Executor]
        /\ \A y \in Executors : y # x => executors'[y] = executors[y]
        /\ x # NoOne => /\ executors'[x].cmd = c /\ c \in Admitted
                        /\ executors'[x].pc = pc /\ executors'[x] # Idle
    <2>1. executors \in [Executors -> Executor]
      BY DEF CallsPart, CallsSound
    <2>2. CASE x = NoOne
      BY <2>1, <2>2
    <2>3. CASE x # NoOne
      <3> DEFINE r == [executors[x] EXCEPT !.pc = pc]
      <3>1. executors[x] = [pc |-> "calling", cmd |-> c] /\ x \in Executors
        BY <2>3 DEF Waits
      <3>2. executors[x].pc = "calling" /\ executors[x].cmd = c
        BY <3>1
      <3>3. c \in Admitted
        BY <3>1, <3>2, AtWork
      <3>4. /\ r \in [pc : {"prepared", "calling", "failed", "acknowledged"}, cmd : Commands]
            /\ r.cmd = c /\ r.pc = pc
        BY <3>1
      <3>5. executors' = [executors EXCEPT ![x] = r]
        BY <2>3
      <3> HIDE DEF r
      <3>6. r \in Executor /\ r # Idle
        BY <3>4, Points DEF Executor
      <3> QED
        BY <2>1, <2>3, <3>1, <3>3, <3>4, <3>5, <3>6
    <2> QED
      BY <2>2, <2>3
  <1>2. /\ \A y \in Executors : executors'[y] # Idle => executors'[y].cmd \in Admitted'
        /\ \A y \in Executors : executors'[y].pc = "acknowledged" =>
                                  claims'[executors'[y].cmd].state = "ACTIVE"
    <2>1. ASSUME NEW y \in Executors
          PROVE  \/ executors'[y] = executors[y]
                 \/ /\ executors'[y] # Idle => executors'[y].cmd \in Admitted'
                    /\ executors'[y].pc = "acknowledged" => claims'[executors'[y].cmd].state = "ACTIVE"
      <3>1. CASE y # x
        BY <1>1, <3>1
      <3>2. CASE y = x
        <4>1. x # NoOne
          BY <3>2, ActivationAssumption
        <4> QED
          BY <1>1, <3>2, <4>1 DEF StoreGrows
      <3> QED
        BY <3>1, <3>2
    <2> QED
      BY <2>1, ExecutorsKeep
  <1>3. /\ \A g \in Handlers : handlers'[g] # Free => claims'[handlers'[g].cmd].state # "NONE"
        /\ \A g \in Handlers : handlers'[g].pc = "loaded" => handlers'[g].cmd \in answered'
    BY Points, HandlersKeep
  <1>4. ASSUME NEW m \in wire'
        PROVE  m.cmd \in Admitted' /\ (m.caller # NoOne => Waits(m.caller, m.cmd)')
    <2>1. m \in wire /\ (m.caller # NoOne => m.caller \in Executors /\ m.caller # x)
      BY DEF CallsPart, CallsSound, Request
    <2> QED
      BY <1>1, <2>1 DEF CallsPart, CallsSound, StoreGrows, Waits
  <1>5. ASSUME NEW g \in Handlers, handlers'[g].caller # NoOne
        PROVE  executors'[handlers'[g].caller] = [pc |-> "calling", cmd |-> handlers'[g].cmd]
    <2>1. handlers'[g] = handlers[g] /\ handlers[g].caller # x
      BY <1>5, Points
    <2>2. handlers[g].caller \in Executors
      BY <1>5, <2>1, Points DEF CallsPart, CallsSound, Handler
    <2> QED
      BY <1>1, <1>5, <2>1, <2>2 DEF CallsPart, CallsSound, Waits
  <1>6. CallsSound'
    <2>1. wire' \subseteq Request
      BY DEF CallsPart, CallsSound
    <2> QED
      BY <1>1, <1>2, <1>3, <1>4, <1>5, <2>1 DEF CallsSound, Waits
  <1>7. AnsweredOnce'
    <2>1. ASSUME NEW g \in Handlers, NEW m \in wire', handlers'[g].caller # NoOne
          PROVE  m.caller # handlers'[g].caller
      BY <2>1, Points DEF CallsPart, AnsweredOnce
    <2>2. ASSUME NEW f \in Handlers, NEW g \in Handlers, handlers'[f].caller # NoOne,
                 handlers'[f].caller = handlers'[g].caller
          PROVE  f = g
      BY <2>2, Points DEF CallsPart, AnsweredOnce
    <2> QED
      BY <2>1, <2>2 DEF AnsweredOnce
  <1> QED
    BY <1>6, <1>7 DEF CallsPart

-----------------------------------------------------------------------------
(* The steps of the policy executor *)

\* The parts make the whole.
LEMMA Parts == (IInv <=> StoreSound /\ CallsPart) /\ (IInv' <=> StoreSound' /\ CallsPart')
  BY DEF IInv, CallsPart

\* The store is left alone, but for the versions.
LEMMA StoreRests ==
  ASSUME StoreSound, version' \in [Policies -> Nat],
         UNCHANGED <<intents, claims, enforced, loaded, answered>>
  PROVE  StoreSound' /\ StoreGrows
  <1>1. intents' \in [Commands -> Intent \cup {NoOne}]
    BY DEF StoreSound, StoreTypeOK
  <1>2. StoreSound' /\ Admitted' = Admitted
    BY <1>1, OpenRowMoves
  <1> QED
    BY <1>2 DEF StoreGrows

\* The other operations of a policy.
LEMMA LifecyclePreserves ==
  ASSUME IInv, (\E p \in Policies : Lifecycle(p)) \/ (\E b \in Bundles : Deprecate(b))
  PROVE  IInv'
  <1>1. /\ UNCHANGED <<intents, claims, enforced, loaded, answered>>
        /\ UNCHANGED <<executors, wire, handlers>>
    BY DEF Lifecycle, Deprecate, pepVars, pdpVars
  <1>2. StoreSound /\ CallsPart /\ version \in [Policies -> Nat]
    BY Parts DEF StoreSound, StoreTypeOK
  <1>3. version' \in [Policies -> Nat]
    <2>1. PICK p \in Policies : version' = [version EXCEPT ![p] = @ + 1]
      BY DEF Lifecycle, Deprecate, Policies
    <2>2. version[p] + 1 \in Nat
      BY <1>2
    <2> QED
      BY <1>2, <2>1, <2>2
  <1>4. StoreSound' /\ StoreGrows
    BY <1>1, <1>2, <1>3, StoreRests
  <1> QED
    BY <1>1, <1>2, <1>4, CallsRest, Parts

\* The row of an open command is claimed, given up or left by its lease.
LEMMA OpenRowPreserves ==
  ASSUME StoreSound, NEW c \in Commands, NEW row \in Intent,
         intents[c] # NoOne, intents[c].state \in Open, row.state \in Open,
         row.env = intents[c].env, row.bundle = intents[c].bundle, row.prev = intents[c].prev,
         intents' = [intents EXCEPT ![c] = row],
         UNCHANGED <<version, claims, enforced, loaded, answered>>
  PROVE  StoreSound' /\ StoreGrows
  <1>1. StoreTypeOK /\ row # NoOne
    BY ActivationAssumption DEF StoreSound
  <1>2. /\ intents' \in [Commands -> Intent \cup {NoOne}] /\ intents'[c] = row
        /\ \A d \in Commands : d # c => intents'[d] = intents[d]
    BY <1>1 DEF StoreTypeOK
  <1>3. version' \in [Policies -> Nat]
    BY <1>1 DEF StoreTypeOK
  <1>4. StoreSound' /\ Admitted' = Admitted
    BY <1>1, <1>2, <1>3, OpenRowMoves
  <1> QED
    BY <1>4 DEF StoreGrows

\* The bundle of a new command has passed the environment before.
LEMMA AdmissionIsStaged ==
  ASSUME StoreSound, NEW e \in Environments, NEW b, NEW f \in Environments, e = f + 1,
         Passed(b, e) \/ MayRollBack(b, e)
  PROVE  \E d \in Active(f) \cup WasActive(f) : intents[d].bundle = b
  <1>1. f = e - 1 /\ e # 1
    BY ActivationAssumption DEF Environments
  <1>2. CASE Passed(b, e)
    BY <1>1, <1>2 DEF Passed
  <1>3. CASE MayRollBack(b, e)
    <2>1. PICK c \in WasActive(e) : intents[c].bundle = b
      BY <1>3 DEF MayRollBack
    <2>2. c \in Admitted /\ intents[c].env = e
      BY <2>1, InSets
    <2>3. c \in Commands /\ intents[c] # NoOne /\ Staged(c, f)
      BY <2>2 DEF Admitted, StoreSound
    <2> QED
      BY <2>1, <2>2, <2>3 DEF Staged
  <1> QED
    BY <1>2, <1>3

\* What an environment's current promotion was about.
LEMMA PreviousType ==
  ASSUME StoreSound, NEW e \in Environments
  PROVE  Bundle(Current(e)) \in Bundles \cup {NoOne} /\ NextSequence(e) \in Nat
  <1>1. Bundle(Current(e)) \in Bundles \cup {NoOne}
    <2>1. Current(e) # NoOne => Current(e) \in Admitted
      BY CurrentIs, InSets
    <2>2. Current(e) # NoOne => intents[Current(e)].bundle \in Bundles
      BY <2>1, AdmittedRow DEF StoreSound, Intent
    <2> QED
      BY <2>2 DEF Bundle
  <1>2. NextSequence(e) \in Nat
    <2>1. Active(e) \cup Unresolved(e) \cup WasActive(e) \subseteq Admitted
      BY DEF Active, Unresolved, WasActive, In, Admitted
    <2>2. IsFiniteSet(Active(e) \cup Unresolved(e) \cup WasActive(e))
      BY <2>1, FS_Subset DEF StoreSound, StoreTypeOK
    <2>3. Cardinality(Active(e) \cup Unresolved(e) \cup WasActive(e)) \in Nat
      BY <2>2, FS_CardinalityType
    <2> QED
      BY <2>3 DEF NextSequence
  <1> QED
    BY <1>1, <1>2

\* A new command is admitted.
LEMMA PrepareNewPreserves ==
  ASSUME IInv, NEW x \in Executors, NEW op \in {"PROMOTE", "ROLLBACK"}, NEW e \in Environments,
         NEW b \in Bundles, PrepareNew(x, op, e, b)
  PROVE  IInv'
  <1> DEFINE c == CHOOSE d \in Commands : intents[d] = NoOne
             row == [op |-> op, env |-> e, bundle |-> b, seq |-> NextSequence(e),
                     prev |-> Bundle(Current(e)), expected |-> version[PolicyOf[b]],
                     state |-> "PENDING", owner |-> x, live |-> TRUE]
             r == [pc |-> "prepared", cmd |-> c]
  <1>1. StoreSound /\ CallsPart
    BY Parts
  <1>2. c \in Commands /\ intents[c] = NoOne
    BY DEF PrepareNew
  <1>3. /\ UNCHANGED <<version, claims, enforced, loaded, answered>>
        /\ UNCHANGED <<wire, handlers>> /\ Unresolved(e) = {} /\ executors[x] = Idle
        /\ Passed(b, e) \/ MayRollBack(b, e)
    BY DEF PrepareNew, pepVars, pdpVars, Takes
  <1>4. intents' = [intents EXCEPT ![c] = row] /\ executors' = [executors EXCEPT ![x] = r]
    BY DEF PrepareNew
  <1> HIDE DEF c
  <1>5. row \in Intent /\ row.env = e /\ row.state = "PENDING" /\ row.prev = Bundle(Current(e))
        /\ row.bundle = b
    <2>1. version[PolicyOf[b]] \in Nat
      BY <1>1 DEF StoreSound, StoreTypeOK, Policies
    <2>2. Bundle(Current(e)) \in Bundles \cup {NoOne} /\ NextSequence(e) \in Nat
      BY <1>1, PreviousType
    <2> QED
      BY <2>1, <2>2 DEF Intent
  <1>6. r \in Executor /\ r.cmd = c /\ r.pc = "prepared"
    BY <1>2 DEF Executor
  <1> HIDE DEF row, r
  <1>7. \A f \in Environments : e = f + 1 =>
           \E d \in Active(f) \cup WasActive(f) : intents[d].bundle = row.bundle
    BY <1>1, <1>3, <1>5, AdmissionIsStaged
  <1>8. StoreSound' /\ Admitted' = Admitted \cup {c}
    BY <1>1, <1>2, <1>3, <1>4, <1>5, <1>7, AdmitPreserves
  <1>9. StoreGrows
    BY <1>3, <1>8 DEF StoreGrows
  <1>10. executors[x].pc # "calling"
    BY <1>3, Points
  <1>11. CallsPart'
    BY <1>1, <1>3, <1>4, <1>6, <1>8, <1>9, <1>10, CallMoves
  <1> QED
    BY <1>8, <1>11, Parts

\* An open command is retried.
LEMMA PrepareAgainPreserves ==
  ASSUME IInv, NEW x \in Executors, NEW c \in Commands, PrepareAgain(x, c)
  PROVE  IInv'
  <1> DEFINE row == [intents[c] EXCEPT !.state = "PENDING", !.owner = x, !.live = TRUE]
             r == [pc |-> "prepared", cmd |-> c]
  <1>1. StoreSound /\ CallsPart
    BY Parts
  <1>2. intents[c] # NoOne /\ intents[c].state \in Open /\ executors[x] = Idle
    BY DEF PrepareAgain, Reclaimable, Open, Takes
  <1>3. intents[c] \in Intent /\ c \in Admitted
    BY <1>1, <1>2 DEF StoreSound, StoreTypeOK, Admitted
  <1>4. /\ UNCHANGED <<version, claims, enforced, loaded, answered>>
        /\ UNCHANGED <<wire, handlers>>
        /\ intents' = [intents EXCEPT ![c] = row] /\ executors' = [executors EXCEPT ![x] = r]
    BY DEF PrepareAgain, pepVars, pdpVars
  <1>5. /\ row \in Intent /\ row.state \in Open /\ row.env = intents[c].env
        /\ row.bundle = intents[c].bundle /\ row.prev = intents[c].prev
    BY <1>3 DEF Intent, Open
  <1>6. r \in Executor /\ r.cmd = c /\ r.pc = "prepared"
    BY DEF Executor
  <1> HIDE DEF row, r
  <1>7. StoreSound' /\ StoreGrows
    BY <1>1, <1>2, <1>4, <1>5, OpenRowPreserves
  <1>8. c \in Admitted' /\ executors[x].pc # "calling"
    BY <1>2, <1>3, <1>7, Points DEF StoreGrows
  <1>9. CallsPart'
    BY <1>1, <1>4, <1>6, <1>7, <1>8, CallMoves
  <1> QED
    BY <1>7, <1>9, Parts

\* The lease of an open command ends.
LEMMA IntentLeasePreserves == ASSUME IInv, NEW c \in Commands, IntentLeaseExpires(c) PROVE IInv'
  <1> DEFINE row == [intents[c] EXCEPT !.live = FALSE]
  <1>1. StoreSound /\ CallsPart
    BY Parts
  <1>2. intents[c] # NoOne /\ intents[c].state \in Open
    BY DEF IntentLeaseExpires, Open
  <1>3. intents[c] \in Intent
    BY <1>1, <1>2 DEF StoreSound, StoreTypeOK
  <1>4. /\ UNCHANGED <<version, claims, enforced, loaded, answered>>
        /\ UNCHANGED <<executors, wire, handlers>>
        /\ intents' = [intents EXCEPT ![c] = row]
    BY DEF IntentLeaseExpires, pepVars, pdpVars
  <1>5. /\ row \in Intent /\ row.state \in Open /\ row.env = intents[c].env
        /\ row.bundle = intents[c].bundle /\ row.prev = intents[c].prev
    BY <1>2, <1>3 DEF Intent
  <1> HIDE DEF row
  <1>6. StoreSound' /\ StoreGrows
    BY <1>1, <1>2, <1>4, <1>5, OpenRowPreserves
  <1> QED
    BY <1>1, <1>4, <1>6, CallsRest, Parts

\* A failed call leaves its command UNKNOWN, if it still owns it.
LEMMA MarkUnknownPreserves == ASSUME IInv, NEW x \in Executors, MarkUnknown(x) PROVE IInv'
  <1> DEFINE c == executors[x].cmd
             row == [intents[c] EXCEPT !.state = "UNKNOWN"]
  <1>1. StoreSound /\ CallsPart
    BY Parts
  <1>2. executors[x].pc = "failed" /\ c \in Admitted
    BY <1>1, AtWork DEF MarkUnknown
  <1>3. c \in Commands /\ intents[c] # NoOne /\ intents[c] \in Intent
    BY <1>1, <1>2, AdmittedRow DEF StoreSound
  <1>4. /\ UNCHANGED <<version, claims, enforced, loaded, answered>>
        /\ UNCHANGED <<wire, handlers>> /\ executors' = [executors EXCEPT ![x] = Idle]
    BY DEF MarkUnknown, pepVars, pdpVars
  <1>5. StoreSound' /\ StoreGrows
    <2>1. CASE OwnsIntent(x, c)
      <3>1. intents' = [intents EXCEPT ![c] = row] /\ intents[c].state \in Open
        BY <2>1 DEF MarkUnknown, OwnsIntent, Open
      <3>2. /\ row \in Intent /\ row.state \in Open /\ row.env = intents[c].env
            /\ row.bundle = intents[c].bundle /\ row.prev = intents[c].prev
        BY <1>3 DEF Intent, Open
      <3> HIDE DEF row, c
      <3> QED
        BY <1>1, <1>3, <1>4, <3>1, <3>2, OpenRowPreserves
    <2>2. CASE ~OwnsIntent(x, c)
      <3>1. intents' = intents /\ version' \in [Policies -> Nat]
        BY <1>1, <1>4, <2>2 DEF MarkUnknown, StoreSound, StoreTypeOK
      <3> QED
        BY <1>1, <1>4, <3>1, StoreRests
    <2> QED
      BY <2>1, <2>2
  <1>6. CallsPart'
    <2>1. Idle \in Executor /\ Idle.pc # "acknowledged" /\ executors[x].pc # "calling"
      BY <1>2, Points
    <2> QED
      BY <1>1, <1>4, <1>5, <2>1, CallMoves
  <1> QED
    BY <1>5, <1>6, Parts

\* The request is sent, or its call gives up.
LEMMA CallPreserves ==
  ASSUME IInv, NEW x \in Executors, Activate(x) \/ CallTimesOut(x) \/ ExecutorStops(x)
  PROVE  IInv'
  <1>1. StoreSound /\ CallsPart
    BY Parts
  <1>2. UNCHANGED <<version, intents, claims, enforced, loaded, answered>>
    BY DEF Activate, CallTimesOut, ExecutorStops, adminVars, pepVars, pdpVars
  <1>3. version' \in [Policies -> Nat]
    BY <1>1, <1>2 DEF StoreSound, StoreTypeOK
  <1>4. StoreSound' /\ StoreGrows
    BY <1>1, <1>2, <1>3, StoreRests
  <1>5. CASE Activate(x)
    BY <1>1, <1>4, <1>5, SendPreserves, Parts
  <1>6. CASE CallTimesOut(x)
    <2> DEFINE r == [executors[x] EXCEPT !.pc = "failed"]
    <2>1. /\ executors[x] \in [pc : {"prepared", "calling", "failed", "acknowledged"}, cmd : Commands]
          /\ executors[x].cmd \in Admitted
      BY <1>1, <1>6, AtWork DEF CallTimesOut
    <2>2. /\ r \in [pc : {"prepared", "calling", "failed", "acknowledged"}, cmd : Commands]
          /\ r.pc = "failed" /\ r.cmd = executors[x].cmd
      BY <2>1
    <2>3. executors' = [executors EXCEPT ![x] = r] /\ HangsUp(x)
      BY <1>6 DEF CallTimesOut
    <2> HIDE DEF r
    <2>4. r \in Executor /\ r.cmd \in Admitted'
      BY <1>4, <2>1, <2>2 DEF Executor, StoreGrows
    <2>5. CallsPart'
      BY <1>1, <1>4, <2>2, <2>3, <2>4, HangUpPreserves
    <2> QED
      BY <1>4, <2>5, Parts
  <1>7. CASE ExecutorStops(x)
    <2>1. executors' = [executors EXCEPT ![x] = Idle] /\ HangsUp(x)
      BY <1>7 DEF ExecutorStops
    <2>2. Idle \in Executor /\ Idle.pc # "acknowledged"
      BY Points
    <2>3. CallsPart'
      BY <1>1, <1>4, <2>1, <2>2, HangUpPreserves
    <2> QED
      BY <1>4, <2>3, Parts
  <1> QED
    BY <1>5, <1>6, <1>7

\* The second transaction completes the command the PEP acknowledged, or refuses it.
LEMMA CompletePreserves == ASSUME IInv, NEW x \in Executors, Complete(x) PROVE IInv'
  <1> DEFINE c == executors[x].cmd
             replaced == IF intents[c].op = "ROLLBACK" THEN "ROLLED_BACK" ELSE "SUPERSEDED"
  <1>1. StoreSound /\ CallsPart
    BY Parts
  <1>2. executors[x].pc = "acknowledged" /\ c \in Admitted /\ claims[c].state = "ACTIVE"
    BY <1>1, AtWork DEF Complete, CallsPart, CallsSound
  <1>3. c \in Commands /\ intents[c] # NoOne /\ intents[c] \in Intent
    BY <1>1, <1>2, AdmittedRow DEF StoreSound
  <1>4. /\ UNCHANGED <<claims, enforced, loaded, answered>>
        /\ UNCHANGED <<wire, handlers>> /\ executors' = [executors EXCEPT ![x] = Idle]
    BY DEF Complete, pepVars, pdpVars
  <1>5. StoreSound' /\ StoreGrows
    <2>1. CASE UNCHANGED <<intents, version>>
      <3>1. version' \in [Policies -> Nat]
        BY <1>1, <2>1 DEF StoreSound, StoreTypeOK
      <3> QED
        BY <1>1, <1>4, <2>1, <3>1, StoreRests
    <2>2. CASE /\ OwnsIntent(x, c)
               /\ intents' = [d \in Commands |->
                    IF d = c THEN [intents[c] EXCEPT !.state = "ACTIVE"]
                    ELSE IF d = Current(intents[c].env) THEN [intents[d] EXCEPT !.state = replaced]
                    ELSE intents[d]]
               /\ version' = [version EXCEPT ![Policy(c)] = @ + 1]
      <3>1. replaced \in {"SUPERSEDED", "ROLLED_BACK"}
        OBVIOUS
      <3>2. intents[c].env \in Environments /\ intents[c].bundle \in Bundles
        BY <1>3 DEF Intent
      <3>3. PICK e \in Environments : e = intents[c].env
        BY <3>2
      <3>4. version' \in [Policies -> Nat]
        <4>1. version \in [Policies -> Nat] /\ Policy(c) \in Policies
          BY <1>1, <3>2 DEF StoreSound, StoreTypeOK, Policy, Policies
        <4>2. version[Policy(c)] + 1 \in Nat
          BY <4>1
        <4> QED
          BY <2>2, <4>1, <4>2
      <3>5. c \in Unresolved(e)
        BY <1>2, <2>2, <3>3, InSets DEF OwnsIntent, Open
      <3> HIDE DEF replaced, c
      <3>6. intents' = [d \in Commands |->
                    IF d = c THEN [intents[c] EXCEPT !.state = "ACTIVE"]
                    ELSE IF d = Current(e) THEN [intents[d] EXCEPT !.state = replaced]
                    ELSE intents[d]]
        BY <2>2, <3>3
      <3>7. StoreSound' /\ Admitted' = Admitted
        BY <1>1, <1>2, <1>3, <1>4, <3>1, <3>4, <3>5, <3>6, ResolvePreserves
      <3> QED
        BY <1>4, <3>7 DEF StoreGrows
    <2> QED
      BY <2>1, <2>2 DEF Complete
  <1>6. CallsPart'
    <2>1. Idle \in Executor /\ Idle.pc # "acknowledged" /\ executors[x].pc # "calling"
      BY <1>2, Points
    <2> QED
      BY <1>1, <1>4, <1>5, <2>1, CallMoves
  <1> QED
    BY <1>5, <1>6, Parts

-----------------------------------------------------------------------------
(* The steps of the PEP *)

\* A claim the PEP has not resolved changes.
LEMMA ClaimGrows ==
  ASSUME StoreSound, NEW c \in Admitted, NEW claim \in PepClaim,
         claims[c].state # "ACTIVE", claim.state \in Open,
         claims' = [claims EXCEPT ![c] = claim],
         UNCHANGED <<version, intents, enforced, loaded, answered>>
  PROVE  StoreSound' /\ StoreGrows /\ claims'[c] = claim
  <1>1. StoreSound'
    BY ClaimMoves
  <1>2. claims \in [Commands -> PepClaim] /\ c \in Commands
    BY DEF StoreSound, StoreTypeOK, Admitted
  <1>3. Admitted' = Admitted
    BY DEF Admitted
  <1>4. claims'[c] = claim /\ \A d \in Commands : d # c => claims'[d] = claims[d]
    BY <1>2
  <1>5. claim.state # "NONE"
    BY DEF Open
  <1> QED
    BY <1>1, <1>3, <1>4, <1>5 DEF StoreGrows

\* begin_policy_activation: the request is claimed, or answered as it stands.
LEMMA PepBeginPreserves ==
  ASSUME IInv, NEW h \in Handlers, NEW m \in wire, PepBegin(h, m)
  PROVE  IInv'
  <1>1. StoreSound /\ CallsPart
    BY Parts
  <1>2. /\ m \in Request /\ m.cmd \in Commands /\ m.cmd \in Admitted
        /\ m.caller \in Executors \cup {NoOne} /\ (m.caller # NoOne => Waits(m.caller, m.cmd))
    BY <1>1 DEF CallsPart, CallsSound, Request
  <1>3. /\ UNCHANGED <<version, intents, enforced, loaded, answered>>
        /\ wire' = wire \ {m} /\ handlers[h] = Free
    BY DEF PepBegin, adminVars, pdpVars, Serves
  <1>4. CASE Claimable(m.cmd)
    <2> DEFINE claim == [state |-> "PENDING", owner |-> h, live |-> TRUE]
    <2>1. claim \in PepClaim /\ claim.state = "PENDING"
      BY DEF PepClaim
    <2>2. /\ claims' = [claims EXCEPT ![m.cmd] = claim] /\ executors' = executors
          /\ handlers' = [handlers EXCEPT ![h] =
                            [pc |-> "claimed", cmd |-> m.cmd, caller |-> m.caller]]
      BY <1>4 DEF PepBegin
    <2>3. claims[m.cmd].state # "ACTIVE"
      BY <1>4 DEF Claimable
    <2> HIDE DEF claim
    <2>4. StoreSound' /\ StoreGrows /\ claims'[m.cmd] = claim
      <3> DEFINE c == m.cmd
      <3>1. c \in Admitted /\ claims[c].state # "ACTIVE" /\ claims' = [claims EXCEPT ![c] = claim]
        BY <1>2, <2>2, <2>3
      <3> HIDE DEF c
      <3>2. StoreSound' /\ StoreGrows /\ claims'[c] = claim
        BY <1>1, <1>3, <2>1, <3>1, ClaimGrows DEF Open
      <3> QED
        BY <3>2 DEF c
    <2>5. CallsPart'
      BY <1>1, <1>3, <2>1, <2>2, <2>4, TakePreserves
    <2> QED
      BY <2>4, <2>5, Parts
  <1>5. CASE ~Claimable(m.cmd)
    <2> DEFINE pc == IF claims[m.cmd].state = "ACTIVE" THEN "acknowledged" ELSE "failed"
               x == m.caller
               c == m.cmd
    <2>1. /\ executors' = IF x # NoOne THEN [executors EXCEPT ![x].pc = pc] ELSE executors
          /\ UNCHANGED <<claims, handlers>>
      BY <1>5 DEF PepBegin, Answer
    <2>2. version' \in [Policies -> Nat]
      BY <1>1, <1>3 DEF StoreSound, StoreTypeOK
    <2>3. StoreSound' /\ StoreGrows
      BY <1>1, <1>3, <2>1, <2>2, StoreRests
    <2>4. pc \in {"failed", "acknowledged"} /\ (pc = "acknowledged" => claims'[c].state = "ACTIVE")
      BY <2>1
    <2>5. x # NoOne => \A n \in wire' : n.caller # x
      BY <1>1, <1>3, WireUnique
    <2>6. x # NoOne => \A g \in Handlers : handlers'[g].caller # x
      BY <1>1, <2>1 DEF CallsPart, AnsweredOnce
    <2>7. /\ x \in Executors \cup {NoOne} /\ c \in Commands /\ (x # NoOne => Waits(x, c))
          /\ wire' \subseteq wire /\ handlers' \in [Handlers -> Handler]
          /\ \A g \in Handlers : handlers'[g] = handlers[g]
      BY <1>1, <1>2, <1>3, <2>1 DEF CallsPart, CallsSound
    <2> HIDE DEF pc, x, c
    <2>8. CallsPart'
      BY <1>1, <2>1, <2>3, <2>4, <2>5, <2>6, <2>7, AnswerPreserves
    <2> QED
      BY <2>3, <2>8, Parts
  <1> QED
    BY <1>4, <1>5

\* The PDP is called, or its call fails, or the handler dies.
LEMMA PdpStepPreserves ==
  ASSUME IInv, NEW h \in Handlers,
         PdpAcknowledges(h) \/ HandlerStops(h) \/ \E performed \in BOOLEAN : PdpFails(h, performed)
  PROVE  IInv'
  <1> DEFINE c == handlers[h].cmd
  <1>1. StoreSound /\ CallsPart
    BY Parts
  <1>2. /\ UNCHANGED <<version, intents, enforced, claims>> /\ UNCHANGED <<executors, wire>>
    BY DEF PdpAcknowledges, HandlerStops, PdpFails, adminVars, pepVars
  <1>3. version' \in [Policies -> Nat]
    BY <1>1, <1>2 DEF StoreSound, StoreTypeOK
  <1>4. handlers[h].pc # "free"
    <2>1. handlers[h] \in Handler
      BY <1>1 DEF CallsPart, CallsSound
    <2> QED
      BY <2>1 DEF PdpAcknowledges, HandlerStops, PdpFails, Handler
  <1>5. /\ handlers[h] # Free /\ c \in Commands /\ claims[c].state # "NONE"
        /\ handlers[h] \in [pc : {"claimed", "loaded", "failed"}, cmd : Commands,
                            caller : Executors \cup {NoOne}]
    BY <1>1, <1>4, AtWork
  <1>6. UNCHANGED <<loaded, answered>> \/ PdpPerforms(c)
    BY DEF PdpAcknowledges, HandlerStops, PdpFails, pdpVars
  <1>7. StoreSound' /\ StoreGrows
    <2>1. CASE UNCHANGED <<loaded, answered>>
      BY <1>1, <1>2, <1>3, <2>1, StoreRests
    <2>2. CASE PdpPerforms(c)
      <3>1. StoreSound'
        BY <1>1, <1>2, <1>5, <2>2, PdpPreserves
      <3>2. answered \subseteq answered' /\ Admitted' = Admitted
        BY <1>2, <2>2 DEF PdpPerforms, Admitted
      <3> QED
        BY <1>2, <3>1, <3>2 DEF StoreGrows
    <2> QED
      BY <1>6, <2>1, <2>2
  <1>8. \E r \in Handler :
          /\ handlers' = [handlers EXCEPT ![h] = r]
          /\ \/ r = Free
             \/ /\ r.cmd = handlers[h].cmd /\ r.caller = handlers[h].caller
                /\ r.pc = "loaded" => r.cmd \in answered'
    <2>1. CASE PdpAcknowledges(h)
      <3> DEFINE q == [handlers[h] EXCEPT !.pc = "loaded"]
      <3>1. q \in Handler /\ q.cmd = handlers[h].cmd /\ q.caller = handlers[h].caller
        BY <1>5 DEF Handler
      <3>2. handlers' = [handlers EXCEPT ![h] = q] /\ handlers[h].cmd \in answered'
        BY <2>1 DEF PdpAcknowledges, PdpPerforms
      <3> QED
        BY <3>1, <3>2
    <2>2. CASE \E performed \in BOOLEAN : PdpFails(h, performed)
      <3> DEFINE q == [handlers[h] EXCEPT !.pc = "failed"]
      <3>1. q \in Handler /\ q.cmd = handlers[h].cmd /\ q.caller = handlers[h].caller /\ q.pc = "failed"
        BY <1>5 DEF Handler
      <3>2. handlers' = [handlers EXCEPT ![h] = q]
        BY <2>2 DEF PdpFails
      <3> QED
        BY <3>1, <3>2
    <2>3. CASE HandlerStops(h)
      <3>1. handlers' = [handlers EXCEPT ![h] = Free]
        BY <2>3 DEF HandlerStops
      <3> QED
        BY <3>1, Points
    <2> QED
      BY <2>1, <2>2, <2>3
  <1>9. CallsPart'
    <2>1. PICK r \in Handler :
            /\ handlers' = [handlers EXCEPT ![h] = r]
            /\ \/ r = Free
               \/ /\ r.cmd = handlers[h].cmd /\ r.caller = handlers[h].caller
                  /\ r.pc = "loaded" => r.cmd \in answered'
      BY <1>8
    <2> QED
      BY <1>1, <1>2, <1>5, <1>7, <2>1, HandlerMoves
  <1> QED
    BY <1>7, <1>9, Parts

\* A handler answers its caller and is free.
LEMMA HandlerAnswers ==
  ASSUME CallsPart, StoreGrows, NEW h \in Handlers, handlers[h].pc # "free",
         NEW pc \in {"failed", "acknowledged"},
         pc = "acknowledged" => claims'[handlers[h].cmd].state = "ACTIVE",
         executors' = IF handlers[h].caller # NoOne
                      THEN [executors EXCEPT ![handlers[h].caller].pc = pc] ELSE executors,
         handlers' = [handlers EXCEPT ![h] = Free], wire' = wire
  PROVE  CallsPart'
  <1> DEFINE x == handlers[h].caller
             c == handlers[h].cmd
  <1>1. c \in Commands /\ x \in Executors \cup {NoOne}
    BY AtWork
  <1>2. x # NoOne => Waits(x, c)
    BY DEF CallsPart, CallsSound
  <1>3. /\ handlers' \in [Handlers -> Handler] /\ handlers'[h] = Free
        /\ \A g \in Handlers : g # h => handlers'[g] = handlers[g]
    BY Points DEF CallsPart, CallsSound
  <1>4. x # NoOne => \A m \in wire' : m.caller # x
    BY DEF CallsPart, AnsweredOnce
  <1>5. x # NoOne => \A g \in Handlers : handlers'[g].caller # x
    BY <1>3, Points DEF CallsPart, AnsweredOnce
  <1>6. /\ executors' = IF x # NoOne THEN [executors EXCEPT ![x].pc = pc] ELSE executors
        /\ pc = "acknowledged" => claims'[c].state = "ACTIVE"
        /\ wire' \subseteq wire
    OBVIOUS
  <1> HIDE DEF x, c
  <1> QED
    BY <1>1, <1>2, <1>3, <1>4, <1>5, <1>6, AnswerPreserves

\* A failed handler leaves the request UNKNOWN, if it still owns it.
LEMMA PepUnknownPreserves == ASSUME IInv, NEW h \in Handlers, PepMarksUnknown(h) PROVE IInv'
  <1> DEFINE c == handlers[h].cmd
             claim == [claims[c] EXCEPT !.state = "UNKNOWN"]
  <1>1. StoreSound /\ CallsPart
    BY Parts
  <1>2. handlers[h].pc # "free" /\ c \in Commands /\ claims[c] \in PepClaim
    BY <1>1, AtWork DEF PepMarksUnknown, StoreSound, StoreTypeOK
  <1>3. /\ UNCHANGED <<version, intents, enforced, loaded, answered>> /\ wire' = wire
        /\ handlers' = [handlers EXCEPT ![h] = Free]
        /\ executors' = IF handlers[h].caller # NoOne
                        THEN [executors EXCEPT ![handlers[h].caller].pc = "failed"] ELSE executors
    BY DEF PepMarksUnknown, Answer, adminVars, pdpVars
  <1>4. StoreSound' /\ StoreGrows
    <2>1. CASE OwnsClaim(h, c)
      <3>1. claims' = [claims EXCEPT ![c] = claim] /\ claims[c].state = "PENDING"
        BY <2>1 DEF PepMarksUnknown, OwnsClaim
      <3>2. claim \in PepClaim /\ claim.state = "UNKNOWN"
        BY <1>2 DEF PepClaim
      <3>3. c \in Admitted
        BY <1>1, <1>2, <3>1, OpenClaim DEF Open
      <3> HIDE DEF claim, c
      <3> QED
        BY <1>1, <1>3, <3>1, <3>2, <3>3, ClaimGrows DEF Open
    <2>2. CASE ~OwnsClaim(h, c)
      <3>1. claims' = claims /\ version' \in [Policies -> Nat]
        BY <1>1, <1>3, <2>2 DEF PepMarksUnknown, StoreSound, StoreTypeOK
      <3> QED
        BY <1>1, <1>3, <3>1, StoreRests
    <2> QED
      BY <2>1, <2>2
  <1>5. CallsPart'
    BY <1>1, <1>2, <1>3, <1>4, HandlerAnswers
  <1> QED
    BY <1>4, <1>5, Parts

\* complete_policy_activation of the PEP: the bundle is enforced, or the request refused.
LEMMA PepCompletePreserves == ASSUME IInv, NEW h \in Handlers, PepComplete(h) PROVE IInv'
  <1> DEFINE c == handlers[h].cmd
             completes == OwnsClaim(h, c) /\ Follows(c)
             pc == IF completes THEN "acknowledged" ELSE "failed"
  <1>1. StoreSound /\ CallsPart
    BY Parts
  <1>2. handlers[h].pc # "free" /\ c \in Commands /\ claims[c] \in PepClaim /\ c \in answered
    BY <1>1, AtWork DEF PepComplete, StoreSound, StoreTypeOK, CallsPart, CallsSound
  <1>3. /\ UNCHANGED <<version, intents, loaded, answered>> /\ wire' = wire
        /\ handlers' = [handlers EXCEPT ![h] = Free]
        /\ executors' = IF handlers[h].caller # NoOne
                        THEN [executors EXCEPT ![handlers[h].caller].pc = pc] ELSE executors
    BY DEF PepComplete, Answer, adminVars, pdpVars
  <1>4. StoreSound' /\ StoreGrows /\ (completes => claims'[c].state = "ACTIVE")
    <2>1. CASE completes
      <3>1. /\ claims[c].state = "PENDING" /\ claims' = [claims EXCEPT ![c].state = "ACTIVE"]
            /\ enforced' = [enforced EXCEPT ![intents[c].env] = c]
        BY <2>1 DEF PepComplete, OwnsClaim
      <3> HIDE DEF c
      <3>2. StoreSound'
        BY <1>1, <1>2, <1>3, <3>1, EnforcePreserves
      <3>3. Admitted' = Admitted
        BY <1>3 DEF Admitted
      <3>4. claims'[c].state = "ACTIVE" /\ \A d \in Commands : d # c => claims'[d] = claims[d]
        BY <1>1, <1>2, <3>1 DEF StoreSound, StoreTypeOK, PepClaim
      <3> QED
        BY <1>3, <3>2, <3>3, <3>4 DEF StoreGrows
    <2>2. CASE ~completes
      <3>1. UNCHANGED <<claims, enforced>> /\ version' \in [Policies -> Nat]
        BY <1>1, <1>3, <2>2 DEF PepComplete, pepVars, StoreSound, StoreTypeOK
      <3> QED
        BY <1>1, <1>3, <2>2, <3>1, StoreRests
    <2> QED
      BY <2>1, <2>2
  <1>5. pc \in {"failed", "acknowledged"} /\ (pc = "acknowledged" => claims'[handlers[h].cmd].state = "ACTIVE")
    BY <1>4
  <1> HIDE DEF completes, pc
  <1>6. CallsPart'
    BY <1>1, <1>2, <1>3, <1>4, <1>5, HandlerAnswers
  <1> QED
    BY <1>4, <1>6, Parts

\* The lease of a claim ends.
LEMMA ClaimLeasePreserves == ASSUME IInv, NEW c \in Commands, ClaimLeaseExpires(c) PROVE IInv'
  <1> DEFINE claim == [claims[c] EXCEPT !.live = FALSE]
  <1>1. StoreSound /\ CallsPart
    BY Parts
  <1>2. claims[c].state = "PENDING" /\ claims[c] \in PepClaim
    BY <1>1 DEF ClaimLeaseExpires, StoreSound, StoreTypeOK
  <1>3. c \in Admitted
    BY <1>1, <1>2, OpenClaim DEF Open
  <1>4. /\ UNCHANGED <<version, intents, enforced, loaded, answered>>
        /\ UNCHANGED <<executors, wire, handlers>> /\ claims' = [claims EXCEPT ![c] = claim]
    BY DEF ClaimLeaseExpires, adminVars, pdpVars
  <1>5. claim \in PepClaim /\ claim.state = "PENDING"
    BY <1>2 DEF PepClaim
  <1> HIDE DEF claim
  <1>6. StoreSound' /\ StoreGrows
    BY <1>1, <1>2, <1>3, <1>4, <1>5, ClaimGrows DEF Open
  <1> QED
    BY <1>1, <1>4, <1>6, CallsRest, Parts

-----------------------------------------------------------------------------
\* The initial state satisfies the inductive invariant.
LEMMA InitEstablishes == Init => IInv
  <1> SUFFICES ASSUME Init PROVE IInv
    OBVIOUS
  <1> USE DEF Init
  <1>1. Admitted = {}
    BY DEF Admitted
  <1>2. \A e \in Environments : Active(e) = {} /\ Unresolved(e) = {}
    BY DEF Active, Unresolved, In
  <1>3. NoClaim \in PepClaim /\ NoClaim.state = "NONE"
    BY DEF NoClaim, PepClaim
  <1>4. StoreTypeOK
    BY <1>1, <1>3, FS_EmptySet DEF StoreTypeOK
  <1>5. \A c \in Commands : CommandSound(c)
    BY <1>3 DEF CommandSound
  <1>6. \A c \in Commands, e \in Environments : Staged(c, e)
    BY DEF Staged
  <1>7. \A e \in Environments : EnvironmentSound(e)
    BY <1>2 DEF EnvironmentSound
  <1>8. CallsSound
    BY Points DEF CallsSound
  <1>9. AnsweredOnce
    BY Points DEF AnsweredOnce
  <1> QED
    BY <1>4, <1>5, <1>6, <1>7, <1>8, <1>9 DEF IInv, StoreSound

\* Every step keeps the inductive invariant.
LEMMA StepPreserves == IInv /\ [Next]_vars => IInv'
  <1> SUFFICES ASSUME IInv, [Next]_vars PROVE IInv'
    OBVIOUS
  <1>1. CASE (\E p \in Policies : Lifecycle(p)) \/ (\E b \in Bundles : Deprecate(b))
    BY <1>1, LifecyclePreserves
  <1>2. ASSUME NEW x \in Executors, NEW op \in {"PROMOTE", "ROLLBACK"}, NEW e \in Environments,
               NEW b \in Bundles, PrepareNew(x, op, e, b)
        PROVE  IInv'
    BY <1>2, PrepareNewPreserves
  <1>3. ASSUME NEW c \in Commands, Retry(c) \/ IntentLeaseExpires(c) \/ ClaimLeaseExpires(c)
        PROVE  IInv'
    BY <1>3, PrepareAgainPreserves, IntentLeasePreserves, ClaimLeasePreserves DEF Retry
  <1>4. ASSUME NEW x \in Executors, ExecutorStep(x) \/ ExecutorStops(x) PROVE IInv'
    BY <1>4, CallPreserves, MarkUnknownPreserves, CompletePreserves DEF ExecutorStep
  <1>5. CASE Receive
    BY <1>5, PepBeginPreserves DEF Receive
  <1>6. ASSUME NEW h \in Handlers, HandlerStep(h) \/ HandlerStops(h) PROVE IInv'
    BY <1>6, PdpStepPreserves, PepUnknownPreserves, PepCompletePreserves DEF HandlerStep
  <1>7. ASSUME NEW h \in Handlers, NEW performed \in BOOLEAN, PdpFails(h, performed) PROVE IInv'
    BY <1>7, PdpStepPreserves
  <1>8. CASE UNCHANGED vars
    <2>1. /\ UNCHANGED <<version, intents, claims, enforced, loaded, answered>>
          /\ UNCHANGED <<executors, wire, handlers>>
      BY <1>8 DEF vars
    <2>2. StoreSound /\ CallsPart /\ version' \in [Policies -> Nat]
      BY <2>1, Parts DEF StoreSound, StoreTypeOK
    <2>3. StoreSound' /\ StoreGrows
      BY <2>1, <2>2, StoreRests
    <2> QED
      BY <2>1, <2>2, <2>3, CallsRest, Parts
  <1> QED
    BY <1>1, <1>2, <1>3, <1>4, <1>5, <1>6, <1>7, <1>8 DEF Next

\* The tables of the administration, the PEP and the PDP and the calls between them agree
\* in every reachable state (PolicyExecutor::execute, PepAuthority::activate_policy).
THEOREM ActivationInductive == Spec => []IInv
  BY InitEstablishes, StepPreserves, PTL DEF Spec

\* The three services never drift apart by more than the one activation in progress,
\* for any number of commands, environments, calls, crashes and lost answers.
THEOREM ActivationEnforcementFollows == Spec => []EnforcementFollowsAdministration
  <1>1. IInv => EnforcementFollowsAdministration
    <2> SUFFICES ASSUME IInv, NEW e \in Environments
                 PROVE  /\ Active(e) # {} => enforced[e] # NoOne
                        /\ enforced[e] # NoOne => enforced[e] \in Active(e) \cup Unresolved(e)
                        /\ enforced[e] \in Unresolved(e) =>
                             intents[enforced[e]].prev = Bundle(Current(e))
                        /\ loaded[e] # enforced[e] =>
                             claims[loaded[e]].state \in {"PENDING", "UNKNOWN"}
      BY DEF EnforcementFollowsAdministration
    <2>1. EnvironmentSound(e)
      BY DEF IInv, StoreSound
    <2> QED
      BY <2>1 DEF EnvironmentSound, Open
  <1> QED
    BY <1>1, ActivationInductive, PTL

\* No environment is skipped, neither by a promotion nor by a rollback.
THEOREM ActivationStagesInOrder == Spec => []StagesInOrder
  <1>1. IInv => StagesInOrder
    <2> SUFFICES ASSUME IInv, NEW e \in Environments \ {1}, enforced[e] # NoOne
                 PROVE  \E c \in Active(e - 1) \cup WasActive(e - 1) :
                           /\ intents[c].bundle = intents[enforced[e]].bundle
                           /\ claims[c].state = "ACTIVE"
      BY DEF StagesInOrder
    <2>1. e - 1 \in Environments /\ e = (e - 1) + 1
      BY ActivationAssumption DEF Environments
    <2>2. enforced[e] \in Active(e) \cup Unresolved(e)
      BY DEF IInv, StoreSound, EnvironmentSound
    <2>3. enforced[e] \in Admitted /\ intents[enforced[e]].env = e
      BY <2>2, InSets
    <2>4. PICK d \in Active(e - 1) \cup WasActive(e - 1) :
            intents[d].bundle = intents[enforced[e]].bundle
      <3>1. Staged(enforced[e], e - 1) /\ intents[enforced[e]] # NoOne
        BY <2>1, <2>3 DEF IInv, StoreSound, Admitted
      <3> QED
        BY <2>1, <2>3, <3>1 DEF Staged
    <2>5. d \in Commands /\ intents[d] # NoOne /\ intents[d].state \in Resolved
      BY <2>4 DEF Active, WasActive, In, Resolved
    <2>6. claims[d].state = "ACTIVE"
      BY <2>5 DEF IInv, StoreSound, CommandSound
    <2> QED
      BY <2>4, <2>6
  <1> QED
    BY <1>1, ActivationInductive, PTL
=============================================================================
