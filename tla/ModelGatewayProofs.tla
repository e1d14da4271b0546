------------------------- MODULE ModelGatewayProofs -------------------------
(***************************************************************************)
(* Safety of the model execution authority for any number of callers,      *)
(* processes and keys, any limit and any maximum cost.                     *)
(*                                                                         *)
(* The account is a counter that four operations move by a difference; it  *)
(* balances because the request row and the reservation row of a key never *)
(* disagree, so that no operation meets a reservation another has settled. *)
(***************************************************************************)
EXTENDS ModelGateway, FiniteSetTheorems, SequenceTheorems, TLAPS

RequestStates == {"NONE", "PREPARED", "FAILED", "EXECUTING", "SUCCEEDED", "UNKNOWN"}
ReservationStates == {"NONE", "RESERVED", "RELEASED", "FINALIZED", "UNKNOWN"}
Reservation == [state : ReservationStates, actual : Costs]
Points == {"away", "planning", "planned", "denied", "failing", "claimed", "answered",
           "completed", "succeeding", "unknown"}
Caller == [pc : Points, key : Keys \cup {NoKey}, cost : Costs, live : BOOLEAN]

TypeOK ==
    /\ account \in [reserved : Nat, spent : Nat]
    /\ requests \in [Keys -> RequestStates]
    /\ leased \in [Keys -> BOOLEAN]
    /\ reservations \in [Keys -> Reservation]
    /\ callers \in [Callers -> Caller]
    /\ calls \in [Keys -> 0 .. 1]
    /\ recovery \in [Processes -> Seq(Keys)]

\* The states of a request that was claimed.
ClaimedStates == {"EXECUTING", "SUCCEEDED", "UNKNOWN"}

\* The reservation a request of the given state has.
ReservationFor(state) ==
    CASE state = "NONE" -> "NONE"
      [] state \in {"PREPARED", "EXECUTING"} -> "RESERVED"
      [] state = "FAILED" -> "RELEASED"
      [] state = "SUCCEEDED" -> "FINALIZED"
      [] state = "UNKNOWN" -> "UNKNOWN"

\* The two rows of a key agree, nothing is charged before it is settled, and the
\* provider is called for nothing but a claimed request.
KeySound(k) ==
    /\ reservations[k].state = ReservationFor(requests[k])
    /\ requests[k] \notin {"SUCCEEDED", "UNKNOWN"} => reservations[k].actual = 0
    /\ calls[k] = 1 => requests[k] \in ClaimedStates

\* A caller at work has a key; one that has claimed its request has yet to call
\* the provider.
CallerSound(c) ==
    /\ callers[c].pc # "away" => callers[c].key \in Keys
    /\ callers[c].pc = "claimed" =>
         calls[callers[c].key] = 0 /\ requests[callers[c].key] \in ClaimedStates

\* A request is claimed by one caller.
ClaimedOnce ==
    \A c, d \in Callers :
        callers[c].pc = "claimed" /\ callers[d].pc = "claimed" /\ callers[c].key = callers[d].key
          => c = d

AccountSound == IsFiniteSet(Held) /\ IsFiniteSet(Charged) /\ BudgetBalances

IInv ==
    /\ TypeOK
    /\ \A k \in Keys : KeySound(k)
    /\ \A c \in Callers : CallerSound(c)
    /\ ClaimedOnce
    /\ AccountSound

-----------------------------------------------------------------------------
(* Counting what is held and what is charged *)

\* An interval of microunits of one key.
LEMMA BlockCount ==
  ASSUME NEW k, NEW n \in Nat
  PROVE  /\ IsFiniteSet({<<k, i>> : i \in 1 .. n})
         /\ Cardinality({<<k, i>> : i \in 1 .. n}) = n
  <1> DEFINE block == {<<k, i>> : i \in 1 .. n}
             f == [i \in 1 .. n |-> <<k, i>>]
  <1>1. f \in Bijection(1 .. n, block)
    BY DEF Bijection, Injection, Surjection, IsInjective
  <1>2. ExistsBijection(1 .. n, block)
    BY <1>1 DEF ExistsBijection
  <1>3. IsFiniteSet(1 .. n) /\ Cardinality(1 .. n) = n
    BY FS_Interval
  <1> HIDE DEF block
  <1>4. IsFiniteSet(block) /\ Cardinality(block) = n
    BY <1>2, <1>3, FS_Bijection
  <1> QED
    BY <1>4 DEF block

\* A first charge of n microunits to a key.
LEMMA ChargeCounts ==
  ASSUME IsFiniteSet(Charged), NEW k \in Keys, NEW n \in Costs,
         reservations[k].actual = 0,
         \A j \in Keys : reservations'[j].actual =
                           IF j = k THEN n ELSE reservations[j].actual
  PROVE  IsFiniteSet(Charged') /\ Cardinality(Charged') = Cardinality(Charged) + n
  <1> DEFINE block == {<<k, i>> : i \in 1 .. n}
  <1>1. n \in Nat /\ n <= MaxCost /\ MaxCost \in Nat
    BY GatewayAssumption DEF Costs
  <1>2. IsFiniteSet(block) /\ Cardinality(block) = n
    <2>1. \A m \in Nat : IsFiniteSet({<<k, i>> : i \in 1 .. m})
                         /\ Cardinality({<<k, i>> : i \in 1 .. m}) = m
      BY BlockCount
    <2> QED
      BY <1>1, <2>1
  <1>3. ASSUME NEW u \in Charged PROVE u \in Charged' /\ u \notin block
    <2>1. u \in Keys \X (1 .. MaxCost) /\ u[2] <= reservations[u[1]].actual
      BY DEF Charged
    <2>2. u[1] # k
      BY <1>1, <2>1
    <2> QED
      BY <2>1, <2>2 DEF Charged
  <1>4. ASSUME NEW u \in block PROVE u \in Charged'
    <2>1. PICK i \in 1 .. n : u = <<k, i>>
      OBVIOUS
    <2> QED
      BY <1>1, <2>1 DEF Charged
  <1>5. ASSUME NEW u \in Charged', u \notin Charged PROVE u \in block
    <2>1. u \in Keys \X (1 .. MaxCost) /\ u[2] <= reservations'[u[1]].actual
      BY DEF Charged
    <2>2. u[1] = k
      BY <1>5, <2>1 DEF Charged
    <2>3. u = <<k, u[2]>> /\ u[2] \in 1 .. n
      BY <1>1, <2>1, <2>2
    <2> QED
      BY <2>3
  <1> HIDE DEF block
  <1>6. Charged' = Charged \cup block /\ Charged \cap block = {}
    BY <1>3, <1>4, <1>5
  <1>7. IsFiniteSet(Charged \cup block) /\ Cardinality(Charged \cup block) =
          Cardinality(Charged) + Cardinality(block) - Cardinality(Charged \cap block)
    BY <1>2, FS_Union
  <1>8. Cardinality(Charged \cap block) = 0 /\ Cardinality(Charged) \in Nat
    BY <1>6, FS_EmptySet, FS_CardinalityType
  <1> QED
    BY <1>1, <1>2, <1>6, <1>7, <1>8

\* Charges that are left alone.
LEMMA ChargedRests ==
  ASSUME \A j \in Keys : reservations'[j].actual = reservations[j].actual
  PROVE  Charged' = Charged
  BY DEF Charged

\* A reservation is held.
LEMMA HeldGrows ==
  ASSUME IsFiniteSet(Held), NEW k \in Keys, k \notin Held,
         \A j \in Keys : reservations'[j].state =
                           IF j = k THEN "RESERVED" ELSE reservations[j].state
  PROVE  IsFiniteSet(Held') /\ Cardinality(Held') = Cardinality(Held) + 1
  <1>1. Held' = Held \cup {k}
    BY DEF Held
  <1> QED
    BY <1>1, FS_AddElement

\* A reservation is settled.
LEMMA HeldShrinks ==
  ASSUME IsFiniteSet(Held), NEW k \in Keys, k \in Held, NEW state, state # "RESERVED",
         \A j \in Keys : reservations'[j].state =
                           IF j = k THEN state ELSE reservations[j].state
  PROVE  /\ IsFiniteSet(Held') /\ Cardinality(Held') = Cardinality(Held) - 1
         /\ Cardinality(Held) \in Nat \ {0}
  <1>1. Held' = Held \ {k}
    BY DEF Held
  <1>2. IsFiniteSet(Held') /\ Cardinality(Held') = Cardinality(Held) - 1
    BY <1>1, FS_RemoveElement
  <1>3. Cardinality(Held) \in Nat /\ Cardinality(Held) # 0
    BY FS_CardinalityType, FS_EmptySet
  <1> QED
    BY <1>2, <1>3

\* One more, and one less, reservation at the maximum cost.
LEMMA Products ==
  ASSUME NEW m \in Nat, NEW n \in Nat
  PROVE  m * (n + 1) = m * n + m /\ m * n \in Nat /\ (n # 0 => m * (n - 1) = m * n - m /\ m * n >= m)
  <1>1. m * (n + 1) = m * n + m /\ m * n \in Nat
    OBVIOUS
  <1>2. ASSUME n # 0 PROVE m * (n - 1) = m * n - m /\ m * n >= m
    <2>1. n - 1 \in Nat /\ m * (n - 1) \in Nat /\ m * n = m * ((n - 1) + 1)
      BY <1>2
    <2>2. m * ((n - 1) + 1) = m * (n - 1) + m
      BY <2>1
    <2> QED
      BY <2>1, <2>2
  <1> QED
    BY <1>1, <1>2

-----------------------------------------------------------------------------
\* The initial state satisfies the inductive invariant.
LEMMA InitEstablishes == Init => IInv
  <1> SUFFICES ASSUME Init PROVE IInv
    OBVIOUS
  <1> USE DEF Init
  <1>0. MaxCost \in Nat /\ Limit \in Nat /\ 0 \in Costs
    BY GatewayAssumption DEF Costs
  <1>1. TypeOK
    BY <1>0, EmptySeq DEF TypeOK, RequestStates, ReservationStates, Reservation, Caller, Points, Away
  <1>2. \A k \in Keys : KeySound(k)
    BY DEF KeySound, ReservationFor, ClaimedStates
  <1>3. (\A c \in Callers : CallerSound(c)) /\ ClaimedOnce
    BY DEF CallerSound, ClaimedOnce, Away
  <1>4. Held = {}
    BY DEF Held
  <1>5. Charged = {}
    BY <1>0 DEF Charged
  <1>6. AccountSound
    BY <1>0, <1>4, <1>5, FS_EmptySet DEF AccountSound, BudgetBalances
  <1> QED
    BY <1>1, <1>2, <1>3, <1>6 DEF IInv

\* The part of the invariant that is about the rows.
RowsSound ==
    /\ account \in [reserved : Nat, spent : Nat]
    /\ requests \in [Keys -> RequestStates]
    /\ leased \in [Keys -> BOOLEAN]
    /\ reservations \in [Keys -> Reservation]
    /\ calls \in [Keys -> 0 .. 1]
    /\ \A k \in Keys : KeySound(k)
    /\ AccountSound

\* The part that is about the calls in progress.
CallsSound ==
    /\ callers \in [Callers -> Caller]
    /\ \A c \in Callers : CallerSound(c)
    /\ ClaimedOnce

\* The parts make the whole.
LEMMA Parts ==
  /\ IInv <=> RowsSound /\ CallsSound /\ recovery \in [Processes -> Seq(Keys)]
  /\ IInv' <=> RowsSound' /\ CallsSound' /\ (recovery \in [Processes -> Seq(Keys)])'
  BY DEF IInv, TypeOK, RowsSound, CallsSound

\* Rows that are left alone.
LEMMA RowsRest == ASSUME RowsSound, UNCHANGED <<storeVars, calls>> PROVE RowsSound'
  <1>1. UNCHANGED <<account, requests, leased, reservations, calls>>
    BY DEF storeVars
  <1>2. Held' = Held /\ Charged' = Charged
    BY <1>1 DEF Held, Charged
  <1>3. AccountSound'
    BY <1>1, <1>2 DEF RowsSound, AccountSound, BudgetBalances
  <1>4. \A k \in Keys : KeySound(k)'
    BY <1>1 DEF RowsSound, KeySound
  <1> QED
    BY <1>1, <1>3, <1>4 DEF RowsSound

\* Callers that are left alone, while the requests move on.
LEMMA CallsRest ==
  ASSUME CallsSound, UNCHANGED <<callers, calls>>,
         \A k \in Keys : requests[k] \in ClaimedStates => requests'[k] \in ClaimedStates
  PROVE  CallsSound'
  BY DEF CallsSound, CallerSound, ClaimedOnce

\* A caller goes on, and calls the provider only from its claim.
LEMMA CallerMoves ==
  ASSUME CallsSound, NEW c \in Callers,
         callers' = [callers EXCEPT ![c] = callers'[c]], callers'[c] \in Caller,
         callers'[c].pc # "claimed", callers'[c].pc # "away" => callers'[c].key \in Keys,
         \A k \in Keys : requests[k] \in ClaimedStates => requests'[k] \in ClaimedStates,
         \A k \in Keys : \/ calls'[k] = calls[k]
                         \/ k = callers[c].key /\ callers[c].pc = "claimed"
  PROVE  CallsSound'
  <1>1. callers' \in [Callers -> Caller]
    BY DEF CallsSound
  <1>2. ASSUME NEW d \in Callers, d # c PROVE CallerSound(d)'
    <2>1. callers'[d] = callers[d] /\ CallerSound(d)
      BY <1>2 DEF CallsSound
    <2>2. ASSUME callers[d].pc = "claimed"
          PROVE  /\ callers[d].key \in Keys
                 /\ ~(callers[d].key = callers[c].key /\ callers[c].pc = "claimed")
      BY <1>2, <2>1, <2>2 DEF CallsSound, CallerSound, ClaimedOnce
    <2> QED
      BY <2>1, <2>2 DEF CallerSound
  <1>3. CallerSound(c)'
    BY DEF CallerSound
  <1>4. ClaimedOnce'
    BY <1>1 DEF CallsSound, ClaimedOnce
  <1> QED
    BY <1>1, <1>2, <1>3, <1>4 DEF CallsSound

\* A caller returns, or goes to a point other than the claim.
LEMMA GoesOn ==
  ASSUME CallsSound, NEW c \in Callers, NEW pc \in Points \ {"claimed"},
         Returns(c) \/ (Goto(c, pc) /\ callers[c].pc # "away"),
         UNCHANGED calls,
         \A k \in Keys : requests[k] \in ClaimedStates => requests'[k] \in ClaimedStates
  PROVE  CallsSound'
  <1>1. callers \in [Callers -> Caller] /\ callers[c] \in Caller /\ CallerSound(c)
    BY DEF CallsSound
  <1>2. Away \in Caller /\ Away.pc = "away"
    BY GatewayAssumption DEF Away, Caller, Points, Costs
  <1>3. CASE Returns(c)
    <2>1. callers'[c] = Away /\ callers' = [callers EXCEPT ![c] = callers'[c]]
      BY <1>1, <1>3 DEF Returns
    <2> QED
      BY <1>2, <2>1, CallerMoves
  <1>4. CASE Goto(c, pc) /\ callers[c].pc # "away"
    <2> DEFINE rec == [callers[c] EXCEPT !.pc = pc]
    <2>1. rec \in Caller /\ rec.pc = pc /\ rec.key = callers[c].key /\ callers[c].key \in Keys
      BY <1>1, <1>4 DEF Caller, CallerSound
    <2>2. callers' = [callers EXCEPT ![c] = rec]
      BY <1>4 DEF Goto
    <2> HIDE DEF rec
    <2>3. callers'[c] = rec /\ callers' = [callers EXCEPT ![c] = callers'[c]]
      BY <1>1, <2>2
    <2> QED
      BY <2>1, <2>3, CallerMoves
  <1> QED
    BY <1>3, <1>4

-----------------------------------------------------------------------------
(* Changes of the rows of one key *)

\* prepare: the maximum cost is reserved with the request.
LEMMA ReservePreserves ==
  ASSUME RowsSound, NEW k \in Keys, requests[k] = "NONE", FitsBudget,
         requests' = [requests EXCEPT ![k] = "PREPARED"],
         reservations' = [reservations EXCEPT ![k].state = "RESERVED"],
         account' = [account EXCEPT !.reserved = @ + MaxCost],
         UNCHANGED <<leased, calls>>
  PROVE  RowsSound'
  <1> DEFINE row == [reservations[k] EXCEPT !.state = "RESERVED"]
  <1>1. /\ reservations \in [Keys -> Reservation] /\ requests \in [Keys -> RequestStates]
        /\ account \in [reserved : Nat, spent : Nat] /\ KeySound(k) /\ reservations[k] \in Reservation
        /\ MaxCost \in Nat /\ Limit \in Nat
    BY GatewayAssumption DEF RowsSound
  <1>2. reservations[k].state = "NONE" /\ reservations[k].actual = 0 /\ calls[k] # 1
    BY <1>1 DEF KeySound, ReservationFor, ClaimedStates
  <1>3. row \in Reservation /\ row.state = "RESERVED" /\ row.actual = 0
    BY <1>1, <1>2 DEF Reservation, ReservationStates
  <1>4. reservations' = [reservations EXCEPT ![k] = row]
    OBVIOUS
  <1> HIDE DEF row
  <1>5. /\ reservations' \in [Keys -> Reservation] /\ requests' \in [Keys -> RequestStates]
        /\ \A j \in Keys : reservations'[j] = IF j = k THEN row ELSE reservations[j]
        /\ \A j \in Keys : requests'[j] = IF j = k THEN "PREPARED" ELSE requests[j]
    BY <1>1, <1>3, <1>4 DEF RequestStates
  <1>6. \A j \in Keys : KeySound(j)'
    BY <1>2, <1>3, <1>5 DEF RowsSound, KeySound, ReservationFor
  <1>7. Charged' = Charged
    BY <1>2, <1>3, <1>5, ChargedRests
  <1>8. k \notin Held /\ IsFiniteSet(Held) /\ IsFiniteSet(Charged) /\ BudgetBalances
    BY <1>2 DEF Held, RowsSound, AccountSound
  <1>9. IsFiniteSet(Held') /\ Cardinality(Held') = Cardinality(Held) + 1
    BY <1>3, <1>5, <1>8, HeldGrows
  <1>10. Cardinality(Held) \in Nat
    BY <1>8, FS_CardinalityType
  <1>11. MaxCost * (Cardinality(Held) + 1) = MaxCost * Cardinality(Held) + MaxCost
    BY <1>1, <1>10, Products
  <1>12. account'.reserved = account.reserved + MaxCost /\ account'.spent = account.spent
         /\ account' \in [reserved : Nat, spent : Nat]
    BY <1>1
  <1>13. AccountSound'
    BY <1>1, <1>7, <1>8, <1>9, <1>11, <1>12 DEF AccountSound, BudgetBalances, FitsBudget
  <1> QED
    BY <1>5, <1>6, <1>12, <1>13 DEF RowsSound

\* A reservation is settled: released before any call, finalized at its cost, or
\* charged in full.
LEMMA SettlePreserves ==
  ASSUME RowsSound, NEW k \in Keys,
         \/ requests[k] = "PREPARED" /\ requests'[k] = "FAILED" /\ reservations'[k].actual = 0
         \/ requests[k] = "EXECUTING" /\ requests'[k] \in {"SUCCEEDED", "UNKNOWN"},
         requests' = [requests EXCEPT ![k] = requests'[k]],
         reservations' = [reservations EXCEPT ![k] = reservations'[k]],
         reservations'[k] \in Reservation,
         reservations'[k].state = ReservationFor(requests'[k]),
         account' = [reserved |-> account.reserved - MaxCost,
                     spent |-> account.spent + reservations'[k].actual],
         leased' \in [Keys -> BOOLEAN],
         UNCHANGED calls
  PROVE  RowsSound'
  <1> DEFINE row == reservations'[k]
  <1>1. /\ reservations \in [Keys -> Reservation] /\ requests \in [Keys -> RequestStates]
        /\ account \in [reserved : Nat, spent : Nat] /\ KeySound(k)
        /\ MaxCost \in Nat /\ Limit \in Nat
    BY GatewayAssumption DEF RowsSound
  <1>2. reservations[k].state = "RESERVED" /\ reservations[k].actual = 0
    BY <1>1 DEF KeySound, ReservationFor
  <1>3. row.actual \in Costs /\ row.actual \in Nat /\ row.actual <= MaxCost
        /\ row.state # "RESERVED"
    BY <1>1 DEF Reservation, Costs, ReservationFor
  <1>4. requests'[k] \in RequestStates
    BY DEF RequestStates
  <1>5. /\ reservations' \in [Keys -> Reservation] /\ requests' \in [Keys -> RequestStates]
        /\ \A j \in Keys : j # k => reservations'[j] = reservations[j] /\ requests'[j] = requests[j]
    BY <1>1, <1>4
  <1>6. \A j \in Keys : KeySound(j)'
    <2>1. ASSUME NEW j \in Keys, j # k PROVE KeySound(j)'
      BY <1>5, <2>1 DEF RowsSound, KeySound
    <2>2. calls'[k] = 1 => requests'[k] \in ClaimedStates
      BY <1>1 DEF KeySound, ClaimedStates
    <2>3. requests'[k] \notin {"SUCCEEDED", "UNKNOWN"} => reservations'[k].actual = 0
      OBVIOUS
    <2>4. KeySound(k)'
      BY <2>2, <2>3 DEF KeySound
    <2> QED
      BY <2>1, <2>4
  <1> HIDE DEF row
  <1>7. \A j \in Keys : /\ reservations'[j].actual = IF j = k THEN row.actual ELSE reservations[j].actual
                        /\ reservations'[j].state = IF j = k THEN row.state ELSE reservations[j].state
    BY <1>5 DEF row
  <1>8. k \in Held /\ IsFiniteSet(Held) /\ IsFiniteSet(Charged) /\ BudgetBalances
    BY <1>2 DEF Held, RowsSound, AccountSound
  <1>9. IsFiniteSet(Charged') /\ Cardinality(Charged') = Cardinality(Charged) + row.actual
    <2>1. \A j \in Keys : reservations'[j].actual = IF j = k THEN row.actual ELSE reservations[j].actual
      BY <1>7
    <2> DEFINE n == row.actual
    <2>2. n \in Costs
      BY <1>3
    <2> HIDE DEF n
    <2>3. \A j \in Keys : reservations'[j].actual = IF j = k THEN n ELSE reservations[j].actual
      BY <2>1 DEF n
    <2>4. IsFiniteSet(Charged') /\ Cardinality(Charged') = Cardinality(Charged) + n
      BY <1>2, <1>8, <2>2, <2>3, ChargeCounts
    <2> QED
      BY <2>4 DEF n
  <1>10. /\ IsFiniteSet(Held') /\ Cardinality(Held') = Cardinality(Held) - 1
         /\ Cardinality(Held) \in Nat \ {0}
    <2> DEFINE state == row.state
    <2>1. \A j \in Keys : reservations'[j].state = IF j = k THEN state ELSE reservations[j].state
      BY <1>7
    <2>2. state # "RESERVED"
      BY <1>3
    <2> HIDE DEF state
    <2> QED
      BY <1>8, <2>1, <2>2, HeldShrinks
  <1>11. /\ MaxCost * (Cardinality(Held) - 1) = MaxCost * Cardinality(Held) - MaxCost
         /\ MaxCost * Cardinality(Held) >= MaxCost /\ MaxCost * Cardinality(Held) \in Nat
    BY <1>1, <1>10, Products
  <1>12. account'.reserved = account.reserved - MaxCost /\ account'.spent = account.spent + row.actual
    BY DEF row
  <1>13. /\ account.reserved = MaxCost * Cardinality(Held) /\ account.spent = Cardinality(Charged)
         /\ account.reserved + account.spent <= Limit
    BY <1>8 DEF BudgetBalances
  <1>14. account' \in [reserved : Nat, spent : Nat]
    <2>1. account.reserved - MaxCost \in Nat /\ account.spent + row.actual \in Nat
      BY <1>1, <1>3, <1>11, <1>13
    <2> QED
      BY <2>1 DEF row
  <1>15. account'.reserved = MaxCost * Cardinality(Held') /\ account'.spent = Cardinality(Charged')
    BY <1>9, <1>10, <1>11, <1>12, <1>13
  <1>16. account'.reserved + account'.spent <= Limit
    BY <1>1, <1>3, <1>12, <1>13
  <1>17. AccountSound'
    BY <1>9, <1>10, <1>15, <1>16 DEF AccountSound, BudgetBalances
  <1> QED
    BY <1>5, <1>6, <1>14, <1>17 DEF RowsSound

-----------------------------------------------------------------------------
(* Calls of execute() *)

\* A call takes up a key: a new one, or one that is PREPARED.
LEMMA PreparePreserves ==
  ASSUME IInv, NEW c \in Callers, NEW k \in Keys, PrepareNew(c, k) \/ RetryPrepared(c, k)
  PROVE  IInv'
  <1> DEFINE rec == [Away EXCEPT !.pc = "planning", !.key = k]
  <1>1. RowsSound /\ CallsSound /\ recovery \in [Processes -> Seq(Keys)]
    BY Parts
  <1>2. callers' = [callers EXCEPT ![c] = rec] /\ UNCHANGED <<calls, recovery>>
    BY DEF PrepareNew, RetryPrepared
  <1>3. rec \in Caller /\ rec.pc = "planning" /\ rec.key = k
    <2>1. Away \in Caller
      BY GatewayAssumption DEF Away, Caller, Points, Costs
    <2> QED
      BY <2>1 DEF Caller, Points
  <1> HIDE DEF rec
  <1>4. callers'[c] = rec /\ callers' = [callers EXCEPT ![c] = callers'[c]]
    BY <1>1, <1>2 DEF CallsSound
  <1>5. RowsSound'
    <2>1. CASE PrepareNew(c, k)
      BY <1>1, <2>1, ReservePreserves DEF PrepareNew
    <2>2. CASE RetryPrepared(c, k)
      BY <1>1, <2>2, RowsRest DEF RetryPrepared
    <2> QED
      BY <2>1, <2>2
  <1>6. \A j \in Keys : requests[j] \in ClaimedStates => requests'[j] \in ClaimedStates
    <2>1. requests' = requests \/ (requests[k] = "NONE" /\ requests' = [requests EXCEPT ![k] = "PREPARED"])
      BY DEF PrepareNew, RetryPrepared, storeVars
    <2> QED
      BY <1>1, <2>1 DEF RowsSound, ClaimedStates
  <1>7. CallsSound'
    BY <1>1, <1>2, <1>3, <1>4, <1>6, CallerMoves
  <1> QED
    BY <1>1, <1>2, <1>5, <1>7, Parts

\* A step of a call that touches no row.
LEMMA QuietPreserves ==
  ASSUME IInv, NEW c \in Callers, NEW pc \in Points \ {"claimed"},
         Returns(c) \/ (Goto(c, pc) /\ callers[c].pc # "away"),
         UNCHANGED <<storeVars, calls, recovery>>
  PROVE  IInv'
  <1>1. RowsSound /\ CallsSound /\ recovery \in [Processes -> Seq(Keys)]
    BY Parts
  <1>2. UNCHANGED calls /\ requests' = requests /\ recovery' = recovery
    BY DEF storeVars
  <1>3. CallsSound'
    BY <1>1, <1>2, GoesOn
  <1>4. RowsSound'
    BY <1>1, RowsRest
  <1> QED
    BY <1>1, <1>2, <1>3, <1>4, Parts

\* Steps of a call that only move it.
LEMMA CallGoesOnPreserves ==
  ASSUME IInv, NEW c \in Callers
  PROVE  /\ \A valid \in BOOLEAN : Plan(c, valid) \/ Complete(c, valid) => IInv'
         /\ FailLocksReservation(c) \/ CallerStops(c) => IInv'
  <1>1. ASSUME NEW valid \in BOOLEAN, Plan(c, valid) PROVE IInv'
    <2> DEFINE pc == IF valid THEN "planned" ELSE "denied"
    <2>1. Goto(c, pc) /\ callers[c].pc # "away" /\ UNCHANGED <<storeVars, calls, recovery>>
      BY <1>1 DEF Plan
    <2>2. pc \in Points \ {"claimed"}
      BY DEF Points
    <2> QED
      BY <2>1, <2>2, QuietPreserves
  <1>2. ASSUME NEW valid \in BOOLEAN, Complete(c, valid) PROVE IInv'
    <2> DEFINE pc == IF valid THEN "completed" ELSE "unknown"
    <2>1. Goto(c, pc) /\ callers[c].pc # "away" /\ UNCHANGED <<storeVars, calls, recovery>>
      BY <1>2 DEF Complete
    <2>2. pc \in Points \ {"claimed"}
      BY DEF Points
    <2> QED
      BY <2>1, <2>2, QuietPreserves
  <1>3. ASSUME FailLocksReservation(c) \/ CallerStops(c) PROVE IInv'
    <2>1. /\ Returns(c) \/ (Goto(c, "failing") /\ callers[c].pc # "away")
          /\ UNCHANGED <<storeVars, calls, recovery>>
      BY <1>3 DEF FailLocksReservation, CallerStops
    <2>2. "failing" \in Points \ {"claimed"}
      BY DEF Points
    <2> QED
      BY <2>1, <2>2, QuietPreserves
  <1> QED
    BY <1>1, <1>2, <1>3

\* succeed() begins.
LEMMA SucceedBeginsPreserves == ASSUME IInv, NEW c \in Callers, SucceedBegins(c) PROVE IInv'
  <1>1. RowsSound /\ CallsSound /\ recovery \in [Processes -> Seq(Keys)]
    BY Parts
  <1>2. callers \in [Callers -> Caller] /\ callers[c] \in Caller /\ callers[c].key \in Keys
    BY <1>1 DEF CallsSound, CallerSound, SucceedBegins
  <1> DEFINE rec == [callers[c] EXCEPT !.pc = "succeeding", !.live = leased[callers[c].key]]
  <1>3. leased[callers[c].key] \in BOOLEAN
    BY <1>1, <1>2 DEF RowsSound
  <1>4. rec \in Caller /\ rec.pc = "succeeding" /\ rec.key = callers[c].key
    BY <1>2, <1>3 DEF Caller, Points
  <1>5. callers' = [callers EXCEPT ![c] = rec] /\ UNCHANGED <<storeVars, calls, recovery>>
    BY DEF SucceedBegins
  <1> HIDE DEF rec
  <1>6. callers'[c] = rec /\ callers' = [callers EXCEPT ![c] = callers'[c]]
    BY <1>2, <1>5
  <1>7. UNCHANGED calls /\ requests' = requests /\ recovery' = recovery
    BY <1>5 DEF storeVars
  <1>8. CallsSound'
    BY <1>1, <1>2, <1>4, <1>6, <1>7, CallerMoves
  <1>9. RowsSound'
    BY <1>1, <1>5, RowsRest
  <1> QED
    BY <1>1, <1>7, <1>8, <1>9, Parts

\* The claim: the request was PREPARED, so nobody else has claimed it.
LEMMA ClaimPreserves == ASSUME IInv, NEW c \in Callers, Claim(c) PROVE IInv'
  <1> DEFINE k == callers[c].key
  <1>1. RowsSound /\ CallsSound /\ recovery \in [Processes -> Seq(Keys)]
    BY Parts
  <1>2. /\ callers \in [Callers -> Caller] /\ callers[c] \in Caller /\ k \in Keys
        /\ requests \in [Keys -> RequestStates] /\ leased \in [Keys -> BOOLEAN]
    BY <1>1 DEF CallsSound, CallerSound, RowsSound, Claim
  <1>3. UNCHANGED <<account, reservations, calls, recovery>>
    BY DEF Claim
  <1>4. CASE UNCHANGED <<requests, leased>> /\ Returns(c)
    <2>1. UNCHANGED <<storeVars, calls, recovery>>
      BY <1>3, <1>4 DEF storeVars
    <2>2. "planned" \in Points \ {"claimed"}
      BY DEF Points
    <2> QED
      BY <1>4, <2>1, <2>2, QuietPreserves
  <1>5. CASE /\ Claimable(k) /\ requests' = [requests EXCEPT ![k] = "EXECUTING"]
             /\ leased' = [leased EXCEPT ![k] = TRUE] /\ Goto(c, "claimed")
    <2> DEFINE rec == [callers[c] EXCEPT !.pc = "claimed"]
    <2>1. rec \in Caller /\ rec.pc = "claimed" /\ rec.key = k
      BY <1>2 DEF Caller, Points
    <2>2. callers' = [callers EXCEPT ![c] = rec]
      BY <1>5 DEF Goto
    <2>3. requests[k] = "PREPARED" /\ KeySound(k)
      BY <1>1, <1>2, <1>5 DEF Claimable, RowsSound
    <2>4. /\ requests' \in [Keys -> RequestStates] /\ leased' \in [Keys -> BOOLEAN]
          /\ \A j \in Keys : requests'[j] = IF j = k THEN "EXECUTING" ELSE requests[j]
      BY <1>2, <1>5 DEF RequestStates
    <2>5. calls[k] = 0
      BY <1>1, <1>2, <2>3 DEF RowsSound, KeySound, ClaimedStates
    <2> HIDE DEF rec, k
    <2>6. \A j \in Keys : KeySound(j)'
      BY <1>1, <1>3, <2>3, <2>4 DEF RowsSound, KeySound, ReservationFor, ClaimedStates
    <2>7. Held' = Held /\ Charged' = Charged
      BY <1>3 DEF Held, Charged
    <2>8. RowsSound'
      BY <1>1, <1>3, <2>4, <2>6, <2>7 DEF RowsSound, AccountSound, BudgetBalances
    <2>9. /\ callers' \in [Callers -> Caller] /\ callers'[c] = rec
          /\ \A d \in Callers : d # c => callers'[d] = callers[d]
      BY <1>2, <2>1, <2>2
    <2>10. ASSUME NEW d \in Callers, d # c
           PROVE  CallerSound(d)' /\ (callers'[d].pc = "claimed" => callers'[d].key # k)
      <3>1. CallerSound(d) /\ callers'[d] = callers[d]
        BY <1>1, <2>9, <2>10 DEF CallsSound
      <3> QED
        BY <1>3, <2>3, <2>4, <3>1 DEF CallerSound, ClaimedStates
    <2>11. CallerSound(c)'
      BY <1>2, <1>3, <2>1, <2>4, <2>5, <2>9 DEF CallerSound, ClaimedStates
    <2>12. ClaimedOnce'
      BY <1>1, <2>1, <2>9, <2>10 DEF CallsSound, ClaimedOnce
    <2>13. CallsSound'
      BY <2>9, <2>10, <2>11, <2>12 DEF CallsSound
    <2> QED
      BY <1>1, <1>3, <2>8, <2>13, Parts
  <1> QED
    BY <1>4, <1>5 DEF Claim

\* The provider is called, or the call fails on its way.
LEMMA InvokePreserves ==
  ASSUME IInv, NEW c \in Callers,
         (\E cost \in Costs : InvokeSucceeds(c, cost)) \/ (\E reached \in BOOLEAN : InvokeFails(c, reached))
  PROVE  IInv'
  <1> DEFINE k == callers[c].key
  <1>1. RowsSound /\ CallsSound /\ recovery \in [Processes -> Seq(Keys)]
    BY Parts
  <1>2. /\ callers \in [Callers -> Caller] /\ callers[c] \in Caller /\ k \in Keys
        /\ callers[c].pc = "claimed" /\ calls[k] = 0 /\ requests[k] \in ClaimedStates
        /\ calls \in [Keys -> 0 .. 1]
    BY <1>1 DEF CallsSound, CallerSound, RowsSound, InvokeSucceeds, InvokeFails
  <1>3. UNCHANGED <<account, requests, leased, reservations, recovery>>
    BY DEF InvokeSucceeds, InvokeFails, storeVars
  <1>4. PICK n \in 0 .. 1 : calls' = [calls EXCEPT ![k] = @ + n]
    BY DEF InvokeSucceeds, InvokeFails
  <1>5. \E rec \in Caller : /\ callers' = [callers EXCEPT ![c] = rec]
                            /\ rec.pc # "claimed" /\ rec.key = k
    <2>1. ASSUME NEW cost \in Costs, InvokeSucceeds(c, cost)
          PROVE  \E rec \in Caller : /\ callers' = [callers EXCEPT ![c] = rec]
                                     /\ rec.pc # "claimed" /\ rec.key = k
      <3> DEFINE r == [callers[c] EXCEPT !.pc = "answered", !.cost = cost]
      <3>1. r \in Caller /\ r.pc # "claimed" /\ r.key = k
        BY <1>2 DEF Caller, Points
      <3>2. callers' = [callers EXCEPT ![c] = r]
        BY <2>1 DEF InvokeSucceeds
      <3> QED
        BY <3>1, <3>2
    <2>2. ASSUME NEW reached \in BOOLEAN, InvokeFails(c, reached)
          PROVE  \E rec \in Caller : /\ callers' = [callers EXCEPT ![c] = rec]
                                     /\ rec.pc # "claimed" /\ rec.key = k
      <3> DEFINE r == [callers[c] EXCEPT !.pc = "unknown"]
      <3>1. r \in Caller /\ r.pc # "claimed" /\ r.key = k
        BY <1>2 DEF Caller, Points
      <3>2. callers' = [callers EXCEPT ![c] = r]
        BY <2>2 DEF InvokeFails, Goto
      <3> QED
        BY <3>1, <3>2
    <2> QED
      BY <2>1, <2>2
  <1>6. PICK rec \in Caller : callers' = [callers EXCEPT ![c] = rec] /\ rec.pc # "claimed" /\ rec.key = k
    BY <1>5
  <1>7. callers'[c] = rec /\ callers' = [callers EXCEPT ![c] = callers'[c]]
    BY <1>2, <1>6
  <1>8. /\ calls' \in [Keys -> 0 .. 1]
        /\ \A j \in Keys : j # k => calls'[j] = calls[j]
    BY <1>2, <1>4
  <1> HIDE DEF k
  <1>9. CallsSound'
    BY <1>1, <1>2, <1>3, <1>6, <1>7, <1>8, CallerMoves DEF k
  <1>10. \A j \in Keys : KeySound(j)'
    BY <1>1, <1>2, <1>3, <1>8 DEF RowsSound, KeySound
  <1>11. Held' = Held /\ Charged' = Charged
    BY <1>3 DEF Held, Charged
  <1>12. RowsSound'
    BY <1>1, <1>3, <1>8, <1>10, <1>11 DEF RowsSound, AccountSound, BudgetBalances
  <1> QED
    BY <1>1, <1>3, <1>9, <1>12, Parts

\* Requests that only settle stay claimed.
LEMMA SettledStaysClaimed ==
  ASSUME requests \in [Keys -> RequestStates], NEW k \in Keys,
         requests' = [requests EXCEPT ![k] = requests'[k]],
         requests[k] = "PREPARED" \/ requests'[k] \in {"SUCCEEDED", "UNKNOWN"}
  PROVE  \A j \in Keys : requests[j] \in ClaimedStates => requests'[j] \in ClaimedStates
  BY DEF ClaimedStates

\* fail_before_provider releases the reservation of a request nobody has claimed.
LEMMA FailPreserves == ASSUME IInv, NEW c \in Callers, FailBeforeProvider(c) PROVE IInv'
  <1> DEFINE k == callers[c].key
  <1>1. RowsSound /\ CallsSound /\ recovery \in [Processes -> Seq(Keys)]
    BY Parts
  <1>2. /\ k \in Keys /\ requests \in [Keys -> RequestStates] /\ leased \in [Keys -> BOOLEAN]
        /\ reservations \in [Keys -> Reservation] /\ account \in [reserved : Nat, spent : Nat]
        /\ MaxCost \in Nat /\ 0 \in Costs
    BY <1>1, GatewayAssumption DEF CallsSound, CallerSound, RowsSound, FailBeforeProvider, Costs
  <1>3. "away" \in Points \ {"claimed"} /\ Returns(c) /\ UNCHANGED <<leased, calls, recovery>>
    BY DEF Points, FailBeforeProvider
  <1>4. CASE UNCHANGED <<requests, reservations, account>>
    <2>1. UNCHANGED <<storeVars, calls, recovery>>
      BY <1>3, <1>4 DEF storeVars
    <2> QED
      BY <1>3, <2>1, QuietPreserves
  <1>5. CASE /\ MayFail(k) /\ requests' = [requests EXCEPT ![k] = "FAILED"]
             /\ reservations' = [reservations EXCEPT ![k] = [state |-> "RELEASED", actual |-> 0]]
             /\ account' = [account EXCEPT !.reserved = @ - MaxCost]
    <2> DEFINE row == [state |-> "RELEASED", actual |-> 0]
    <2>1. row \in Reservation /\ row.state = "RELEASED" /\ row.actual = 0
      BY <1>2 DEF Reservation, ReservationStates
    <2> HIDE DEF k
    <2>2. requests[k] = "PREPARED" /\ requests'[k] = "FAILED"
          /\ requests' = [requests EXCEPT ![k] = requests'[k]]
      BY <1>2, <1>5 DEF MayFail
    <2>3. reservations' = [reservations EXCEPT ![k] = row]
      BY <1>5
    <2>4. account' = [reserved |-> account.reserved - MaxCost, spent |-> account.spent + 0]
      BY <1>2, <1>5
    <2> HIDE DEF row
    <2>5. reservations'[k] = row /\ reservations' = [reservations EXCEPT ![k] = reservations'[k]]
      BY <1>2, <2>3
    <2>6. reservations'[k].state = ReservationFor(requests'[k])
      BY <2>1, <2>2, <2>5 DEF ReservationFor
    <2>7. RowsSound'
      BY <1>1, <1>2, <1>3, <2>1, <2>2, <2>4, <2>5, <2>6, SettlePreserves
    <2>8. \A j \in Keys : requests[j] \in ClaimedStates => requests'[j] \in ClaimedStates
      BY <1>2, <2>2, SettledStaysClaimed
    <2>9. CallsSound'
      BY <1>1, <1>3, <2>8, GoesOn
    <2> QED
      BY <1>1, <1>3, <2>7, <2>9, Parts
  <1> QED
    BY <1>4, <1>5 DEF FailBeforeProvider

\* succeed finalizes the reservation of a request that is still EXECUTING.
LEMMA SucceedPreserves == ASSUME IInv, NEW c \in Callers, Succeed(c) PROVE IInv'
  <1> DEFINE k == callers[c].key
             cost == callers[c].cost
  <1>1. RowsSound /\ CallsSound /\ recovery \in [Processes -> Seq(Keys)]
    BY Parts
  <1>2. /\ k \in Keys /\ requests \in [Keys -> RequestStates] /\ leased \in [Keys -> BOOLEAN]
        /\ reservations \in [Keys -> Reservation]
    BY <1>1 DEF CallsSound, CallerSound, RowsSound, Succeed
  <1>3. cost \in Costs
    BY <1>1 DEF CallsSound, Caller
  <1>4. "away" \in Points \ {"claimed"} /\ Returns(c) /\ UNCHANGED <<calls, recovery>>
    BY DEF Points, Succeed
  <1>5. CASE UNCHANGED storeVars
    <2>1. UNCHANGED <<storeVars, calls, recovery>>
      BY <1>4, <1>5
    <2> QED
      BY <1>4, <2>1, QuietPreserves
  <1>6. CASE /\ LockRunning(k) /\ requests' = [requests EXCEPT ![k] = "SUCCEEDED"]
             /\ leased' = [leased EXCEPT ![k] = FALSE]
             /\ reservations' = [reservations EXCEPT ![k] = [state |-> "FINALIZED", actual |-> cost]]
             /\ account' = [reserved |-> account.reserved - MaxCost, spent |-> account.spent + cost]
    <2> DEFINE row == [state |-> "FINALIZED", actual |-> cost]
    <2> HIDE DEF k, cost
    <2>1. row \in Reservation /\ row.state = "FINALIZED" /\ row.actual = cost
      BY <1>3 DEF Reservation, ReservationStates
    <2>2. requests[k] = "EXECUTING" /\ requests'[k] = "SUCCEEDED"
          /\ requests' = [requests EXCEPT ![k] = requests'[k]] /\ leased' \in [Keys -> BOOLEAN]
      BY <1>2, <1>6 DEF LockRunning
    <2>3. reservations' = [reservations EXCEPT ![k] = row]
      BY <1>6
    <2> HIDE DEF row
    <2>4. reservations'[k] = row /\ reservations' = [reservations EXCEPT ![k] = reservations'[k]]
      BY <1>2, <2>3
    <2>5. reservations'[k].state = ReservationFor(requests'[k])
      BY <2>1, <2>2, <2>4 DEF ReservationFor
    <2>6. RowsSound'
      BY <1>1, <1>2, <1>4, <1>6, <2>1, <2>2, <2>4, <2>5, SettlePreserves
    <2>7. \A j \in Keys : requests[j] \in ClaimedStates => requests'[j] \in ClaimedStates
      BY <1>2, <2>2, SettledStaysClaimed
    <2>8. CallsSound'
      BY <1>1, <1>4, <2>7, GoesOn
    <2> QED
      BY <1>1, <1>4, <2>6, <2>8, Parts
  <1> QED
    BY <1>5, <1>6 DEF Succeed

\* mark_unknown charges the whole reservation of a request that is still EXECUTING.
LEMMA UnknownPreserves ==
  ASSUME RowsSound, NEW k \in Keys, MarkUnknown(k), UNCHANGED calls
  PROVE  /\ RowsSound'
         /\ \A j \in Keys : requests[j] \in ClaimedStates => requests'[j] \in ClaimedStates
  <1> DEFINE row == [state |-> "UNKNOWN", actual |-> MaxCost]
  <1>1. /\ requests \in [Keys -> RequestStates] /\ leased \in [Keys -> BOOLEAN]
        /\ reservations \in [Keys -> Reservation] /\ MaxCost \in Costs
    BY GatewayAssumption DEF RowsSound, Costs
  <1>2. row \in Reservation /\ row.state = "UNKNOWN" /\ row.actual = MaxCost
    BY <1>1 DEF Reservation, ReservationStates
  <1>3. requests[k] = "EXECUTING" /\ requests'[k] = "UNKNOWN"
        /\ requests' = [requests EXCEPT ![k] = requests'[k]] /\ leased' \in [Keys -> BOOLEAN]
    BY <1>1 DEF LockRunning, MarkUnknown
  <1>4. /\ reservations' = [reservations EXCEPT ![k] = row]
        /\ account' = [reserved |-> account.reserved - MaxCost, spent |-> account.spent + MaxCost]
    BY DEF MarkUnknown, ChargeReservation
  <1> HIDE DEF row
  <1>5. reservations'[k] = row /\ reservations' = [reservations EXCEPT ![k] = reservations'[k]]
    BY <1>1, <1>4
  <1>6. reservations'[k].state = ReservationFor(requests'[k])
    BY <1>2, <1>3, <1>5 DEF ReservationFor
  <1>7. RowsSound'
    BY <1>2, <1>3, <1>4, <1>5, <1>6, SettlePreserves
  <1> QED
    BY <1>1, <1>3, <1>7, SettledStaysClaimed

\* The caller that does not know the outcome settles its request.
LEMMA CallerUnknownPreserves == ASSUME IInv, NEW c \in Callers, CallerMarksUnknown(c) PROVE IInv'
  <1> DEFINE k == callers[c].key
  <1>1. RowsSound /\ CallsSound /\ recovery \in [Processes -> Seq(Keys)]
    BY Parts
  <1>2. k \in Keys
    BY <1>1 DEF CallsSound, CallerSound, CallerMarksUnknown
  <1>3. "away" \in Points \ {"claimed"} /\ Returns(c) /\ UNCHANGED <<calls, recovery>>
    BY DEF Points, CallerMarksUnknown
  <1>4. CASE UNCHANGED storeVars
    <2>1. UNCHANGED <<storeVars, calls, recovery>>
      BY <1>3, <1>4
    <2> QED
      BY <1>3, <2>1, QuietPreserves
  <1>5. CASE MarkUnknown(k)
    <2> HIDE DEF k
    <2>1. RowsSound' /\ \A j \in Keys : requests[j] \in ClaimedStates => requests'[j] \in ClaimedStates
      BY <1>1, <1>2, <1>3, <1>5, UnknownPreserves
    <2>2. CallsSound'
      BY <1>1, <1>3, <2>1, GoesOn
    <2> QED
      BY <1>1, <1>3, <2>1, <2>2, Parts
  <1> QED
    BY <1>4, <1>5 DEF CallerMarksUnknown

-----------------------------------------------------------------------------
(* Time and the recovery loop *)

\* A lease ends.
LEMMA LeasePreserves == ASSUME IInv, NEW k \in Keys, LeaseExpires(k) PROVE IInv'
  <1>1. RowsSound /\ CallsSound /\ recovery \in [Processes -> Seq(Keys)]
    BY Parts
  <1>2. UNCHANGED <<account, requests, reservations, callers, calls, recovery>>
    BY DEF LeaseExpires
  <1>3. leased' \in [Keys -> BOOLEAN]
    BY <1>1 DEF RowsSound, LeaseExpires
  <1>4. Held' = Held /\ Charged' = Charged
    BY <1>2 DEF Held, Charged
  <1>5. \A j \in Keys : KeySound(j)'
    BY <1>1, <1>2 DEF RowsSound, KeySound
  <1>6. RowsSound'
    BY <1>1, <1>2, <1>3, <1>4, <1>5 DEF RowsSound, AccountSound, BudgetBalances
  <1>7. CallsSound'
    BY <1>1, <1>2, CallsRest
  <1> QED
    BY <1>1, <1>2, <1>6, <1>7, Parts

\* A recovery task reads the expired requests: finitely many, for each is held.
LEMMA ScanPreserves == ASSUME IInv, NEW p \in Processes, RecoverScans(p) PROVE IInv'
  <1>1. RowsSound /\ CallsSound /\ recovery \in [Processes -> Seq(Keys)]
    BY Parts
  <1>2. UNCHANGED <<storeVars, callers, calls>> /\ UNCHANGED calls /\ requests' = requests
    BY DEF RecoverScans, storeVars
  <1>3. Expired \subseteq Held /\ Expired \subseteq Keys
    BY <1>1 DEF Expired, Held, RowsSound, KeySound, ReservationFor
  <1>4. Cardinality(Expired) \in Nat
    BY <1>1, <1>3, FS_Subset, FS_CardinalityType DEF RowsSound, AccountSound
  <1>5. PICK batch \in SetToSeqs(Expired) : recovery' = [recovery EXCEPT ![p] = batch]
    BY DEF RecoverScans
  <1>6. batch \in [1 .. Cardinality(Expired) -> Expired]
    BY <1>5 DEF SetToSeqs
  <1>7. batch \in Seq(Keys)
    BY <1>3, <1>4, <1>6
  <1>8. recovery' \in [Processes -> Seq(Keys)]
    BY <1>1, <1>5, <1>7
  <1>9. RowsSound' /\ CallsSound'
    BY <1>1, <1>2, RowsRest, CallsRest
  <1> QED
    BY <1>8, <1>9, Parts

\* A recovery task settles the next request of its list, or ends its round.
LEMMA RecoverPreserves ==
  ASSUME IInv, NEW p \in Processes, RecoverNext(p) \/ RecoveryStops(p)
  PROVE  IInv'
  <1> DEFINE k == Head(recovery[p])
  <1>1. RowsSound /\ CallsSound /\ recovery \in [Processes -> Seq(Keys)]
    BY Parts
  <1>2. UNCHANGED callers /\ UNCHANGED calls
    BY DEF RecoverNext, RecoveryStops
  <1>3. recovery[p] \in Seq(Keys) /\ recovery[p] # <<>>
    BY <1>1 DEF RecoverNext, RecoveryStops
  <1>4. k \in Keys /\ Tail(recovery[p]) \in Seq(Keys) /\ <<>> \in Seq(Keys)
    BY <1>3, HeadTailProperties, EmptySeq
  <1>5. recovery' \in [Processes -> Seq(Keys)]
    <2>1. recovery' = [recovery EXCEPT ![p] = Tail(recovery[p])] \/ recovery' = [recovery EXCEPT ![p] = <<>>]
      BY DEF RecoverNext, RecoveryStops
    <2> QED
      BY <1>1, <1>4, <2>1
  <1>6. CASE UNCHANGED storeVars
    <2>1. requests' = requests /\ UNCHANGED <<storeVars, calls>>
      BY <1>2, <1>6 DEF storeVars
    <2> QED
      BY <1>1, <1>2, <1>5, <2>1, RowsRest, CallsRest, Parts
  <1>7. CASE MarkUnknown(k)
    <2> HIDE DEF k
    <2>1. RowsSound' /\ \A j \in Keys : requests[j] \in ClaimedStates => requests'[j] \in ClaimedStates
      BY <1>1, <1>2, <1>4, <1>7, UnknownPreserves
    <2> QED
      BY <1>1, <1>2, <1>5, <2>1, CallsRest, Parts
  <1> QED
    BY <1>6, <1>7 DEF RecoverNext, RecoveryStops

-----------------------------------------------------------------------------
\* Every step keeps the inductive invariant.
LEMMA StepPreserves == IInv /\ [Next]_vars => IInv'
  <1> SUFFICES ASSUME IInv, [Next]_vars PROVE IInv'
    OBVIOUS
  <1>1. ASSUME NEW c \in Callers, Execute(c) \/ CallerStops(c) PROVE IInv'
    BY <1>1, PreparePreserves, CallGoesOnPreserves, SucceedBeginsPreserves, ClaimPreserves,
       InvokePreserves, FailPreserves, SucceedPreserves, CallerUnknownPreserves DEF Execute
  <1>2. ASSUME NEW k \in Keys, LeaseExpires(k) PROVE IInv'
    BY <1>2, LeasePreserves
  <1>3. ASSUME NEW p \in Processes, RecoverScans(p) \/ RecoverNext(p) \/ RecoveryStops(p) PROVE IInv'
    BY <1>3, ScanPreserves, RecoverPreserves
  <1>4. CASE UNCHANGED vars
    <2>1. UNCHANGED <<storeVars, calls>> /\ UNCHANGED <<callers, calls>> /\ requests' = requests
          /\ recovery' = recovery
      BY <1>4 DEF vars, storeVars
    <2> QED
      BY <2>1, RowsRest, CallsRest, Parts
  <1> QED
    BY <1>1, <1>2, <1>3, <1>4 DEF Next

\* The request row, the reservation row and the account of every reachable state agree
\* (authority.rs: prepare, fail_before_provider, claim, succeed, mark_unknown).
THEOREM ModelGatewayInductive == Spec => []IInv
  BY InitEstablishes, StepPreserves, PTL DEF Spec

\* The account is the sum of the reservations and stays within the limit, for any number
\* of concurrent calls, retries, late answers and recovery rounds.
THEOREM ModelGatewayBudgetBalances == Spec => []BudgetBalances
  <1>1. IInv => BudgetBalances
    BY DEF IInv, AccountSound
  <1> QED
    BY <1>1, ModelGatewayInductive, PTL

\* The provider is called at most once for an idempotency key, and a call is never
\* released unpaid.
THEOREM ModelGatewayProviderCallIsPaidFor == Spec => []ProviderCallIsPaidFor
  <1>1. IInv => ProviderCallIsPaidFor
    <2> SUFFICES ASSUME IInv, NEW k \in Keys
                 PROVE  /\ calls[k] <= 1
                        /\ calls[k] = 1 =>
                             /\ reservations[k].state \in {"RESERVED", "FINALIZED", "UNKNOWN"}
                             /\ requests[k] \in {"EXECUTING", "SUCCEEDED", "UNKNOWN"}
      BY DEF ProviderCallIsPaidFor
    <2>1. calls[k] \in 0 .. 1 /\ KeySound(k)
      BY DEF IInv, TypeOK
    <2> QED
      BY <2>1 DEF KeySound, ReservationFor, ClaimedStates
  <1> QED
    BY <1>1, ModelGatewayInductive, PTL
=============================================================================
