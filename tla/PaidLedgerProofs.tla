-------------------------- MODULE PaidLedgerProofs --------------------------
(***************************************************************************)
(* The paid request and the ledger it spends from, together: every step of *)
(* a request is a step of the ledger or leaves it alone, and so the        *)
(* ledger's invariants hold under the middleware; with them, types, and    *)
(* the capacity of a request in flight is its own.                         *)
(***************************************************************************)
EXTENDS PaidRequestProofs, AllowanceLedgerProofs

-----------------------------------------------------------------------------
(* The middleware calls the ledger with arguments that its methods take.   *)

\* The guard's reservation is one the ledger allows: the snapshot's expiry is
\* what keeps the hold within the clock.
LEMMA GuardReserves ==
    ASSUME LedgerInv, PaidInv, NEW q \in Request, NEW r \in ReservationId,
           ReserveBudget(q, r)
    PROVE  LedgerNext
<1>1. payload[q] \in Payload
  BY DEF ReserveBudget, PaidInv, CarriesPayload
<1>2. KeyOf[payload[q]] \in PaymentKey /\ View.address \in Address /\ Price \in Amount
  BY <1>1, PaidRequestAssumption
<1>3. HoldExpiry \in Time
  <2>1. View.expiresAt \in Nat /\ MaxTime \in Nat /\ View.expiresAt <= MaxTime
    BY PaidRequestAssumption, BoundsAssumption DEF Time
  <2>2. now \in Nat /\ MaxHold \in Nat
    BY BoundsAssumption DEF LedgerInv, LedgerTypeOK, Time
  <2> QED
    BY <2>1, <2>2 DEF HoldExpiry, Time
<1>4. Reserve(r, View.address, KeyOf[payload[q]], Price, HoldExpiry)
  BY DEF ReserveBudget
<1>5. SpendStep
  BY <1>2, <1>3, <1>4 DEF SpendStep
<1> QED
  BY <1>5 DEF LedgerNext

\* Every step of the middleware is a step of the ledger, or none.
LEMMA MiddlewareStepsAreTheLedgers ==
    ASSUME LedgerInv, PaidInv, BudgetInv, [PaidNext]_paidVars
    PROVE  [LedgerNext]_ledgerVars
<1>1. ASSUME NEW q \in Request, RequestStep(q)
      PROVE  [LedgerNext]_ledgerVars
  <2>1. ASSUME NEW r \in ReservationId, ReserveBudget(q, r)
        PROVE  LedgerNext
    BY <2>1, GuardReserves
  <2>2. CASE ConsumeBudget(q)
    <3>1. hold[q] \in ReservationId /\ Consume(hold[q])
      BY <2>2 DEF ConsumeBudget, BudgetInv
    <3> QED
      BY <3>1 DEF LedgerNext, SpendStep
  <2>3. CASE ReleaseBudget(q)
    <3>1. CASE ReleaseOnFailure(q)
      <4>1. hold[q] \in ReservationId /\ Release(hold[q])
        BY <3>1 DEF ReleaseOnFailure, BudgetInv
      <4> QED
        BY <4>1 DEF LedgerNext, SpendStep
    <3> QED
      BY <2>3, <3>1 DEF ReleaseBudget
  <2>4. CASE SkipBudget(q) \/ Refuse(q) \/ RefuseReplay(q) \/ ReserveAuthorization(q)
    BY <2>4 DEF SkipBudget, Refuse, RefuseReplay, ReserveAuthorization
  <2>5. CASE RunHandler(q) \/ FacilitatorSettle(q) \/ Validate(q)
    BY <2>5 DEF RunHandler, FacilitatorSettle, Validate
  <2>6. CASE Save(q) \/ SaveThrows(q) \/ DeliverWithoutConsuming(q)
    BY <2>6 DEF Save, SaveThrows, DeliverWithoutConsuming
  <2> QED
    BY <1>1, <2>1, <2>2, <2>3, <2>4, <2>5, <2>6 DEF RequestStep
<1>2. ASSUME NEW q \in Request, NEW p \in Payload, Receive(q, p)
      PROVE  UNCHANGED ledgerVars
  BY <1>2 DEF Receive
<1>3. ASSUME NEW x \in Process, Crash(x)
      PROVE  UNCHANGED ledgerVars
  BY <1>3 DEF Crash
<1>4. CASE LedgerAlone
  BY <1>4 DEF LedgerAlone, LedgerNext
<1>5. CASE UNCHANGED paidVars
  BY <1>5 DEF paidVars
<1> QED
  BY <1>1, <1>2, <1>3, <1>4, <1>5 DEF PaidNext

-----------------------------------------------------------------------------
(* Types.                                                                  *)

PaidTypes ==
    /\ \A q \in Request \ Budgeted : hold[q] = NoHold
    /\ authorized \subseteq ({Store} \cup Process) \X Payload
    /\ handled \subseteq Request
    /\ payments \subseteq Transaction

\* A request carries a payload from its first step on.
LEMMA StartedCarries ==
    ASSUME PaidInv, NEW q \in Request, stage[q] # "idle"
    PROVE  payload[q] \in Payload /\ TransactionFor(q) \in Transaction
BY PaidRequestAssumption DEF PaidInv, CarriesPayload, TransactionFor

\* Every action keeps the types of what only the middleware writes.
LEMMA NextTypesSafe ==
    ASSUME PaidTypes, PaidInv, BudgetInv, [PaidNext]_paidVars
    PROVE  PaidTypes'
<1> USE DEF PaidTypes
<1>1. ASSUME NEW q \in Request, RequestStep(q)
      PROVE  PaidTypes'
  <2>1. ASSUME NEW r \in ReservationId, ReserveBudget(q, r)
        PROVE  PaidTypes'
    <3>1. q \in Budgeted /\ hold' \in {hold, [hold EXCEPT ![q] = r]}
          /\ UNCHANGED <<authorized, handled, payments>>
      BY <2>1 DEF ReserveBudget
    <3>2. \A other \in Request \ Budgeted : hold'[other] = hold[other]
      BY <3>1 DEF BudgetInv
    <3> QED
      BY <3>1, <3>2
  <2>2. CASE ReserveAuthorization(q)
    <3>1. payload[q] \in Payload
      BY <2>2, StartedCarries DEF ReserveAuthorization
    <3>2. Scope(q) \in {Store} \cup Process
      BY PaidRequestAssumption DEF Scope
    <3> QED
      BY <2>2, <3>1, <3>2 DEF ReserveAuthorization
  <2>3. CASE SkipBudget(q) \/ Refuse(q) \/ RefuseReplay(q)
    BY <2>3 DEF SkipBudget, Refuse, RefuseReplay
  <2>4. CASE RunHandler(q) \/ FacilitatorSettle(q) \/ Validate(q)
    BY <2>4 DEF RunHandler, FacilitatorSettle, Validate
  <2>5. CASE Save(q)
    BY <2>5, StartedCarries DEF Save
  <2>6. CASE SaveThrows(q) \/ DeliverWithoutConsuming(q) \/ ConsumeBudget(q) \/ ReleaseBudget(q)
    BY <2>6 DEF SaveThrows, DeliverWithoutConsuming, ConsumeBudget, ReleaseBudget
  <2> QED
    BY <1>1, <2>1, <2>2, <2>3, <2>4, <2>5, <2>6 DEF RequestStep
<1>2. ASSUME NEW q \in Request, NEW p \in Payload, Receive(q, p)
      PROVE  PaidTypes'
  BY <1>2 DEF Receive
<1>3. ASSUME NEW x \in Process, Crash(x)
      PROVE  PaidTypes'
  BY <1>3 DEF Crash
<1>4. CASE LedgerAlone
  BY <1>4 DEF LedgerAlone, requestVars
<1>5. CASE UNCHANGED paidVars
  BY <1>5 DEF paidVars, requestVars
<1> QED
  BY <1>1, <1>2, <1>3, <1>4, <1>5 DEF PaidNext

-----------------------------------------------------------------------------
(* The capacity of a request in flight.                                    *)

Withheld(q) ==
    stage[q] \in InFlight /\ HasRow(q) =>
        hold[q] \in Held \/ reservations[hold[q]].expiresAt <= now

\* What the ledger does by itself leaves a row as it is, takes it away, or
\* releases it when it has expired.
RowKept(r) ==
    r \in DOMAIN reservations' =>
        /\ r \in DOMAIN reservations
        /\ \/ reservations'[r] = reservations[r]
           \/ /\ reservations'[r].expiresAt = reservations[r].expiresAt
              /\ reservations[r].expiresAt <= now

\* The owner, the cleanup and the clock keep every row in that sense.
LEMMA LedgerKeepsRows ==
    ASSUME LedgerInv, OwnerStep \/ CleanupExpired \/ Tick \/ UNCHANGED ledgerVars, NEW r
    PROVE  RowKept(r)
<1> USE DEF RowKept
<1>1. CASE UNCHANGED reservations
  BY <1>1
<1>2. ASSUME NEW a \in Address, NEW w \in Wallet, DeleteAllowanceMetadata(a, w)
      PROVE  RowKept(r)
  BY <1>2 DEF DeleteAllowanceMetadata, Restrict
<1>3. CASE OwnerStep
  BY <1>1, <1>2, <1>3
     DEF OwnerStep, SaveAllowance, BeginAllowanceRevocation, RevokeAllowance
<1>4. CASE CleanupExpired
  <2>1. PICK B \in SUBSET Expired : CleanupBatch(B)
    BY <1>4 DEF CleanupExpired
  <2> QED
    BY <2>1 DEF CleanupBatch, Expired, Held, LedgerInv, LedgerTypeOK, ReservationRow
<1> QED
  BY <1>1, <1>3, <1>4 DEF Tick, ledgerVars

\* The clock does not go back.
LEMMA TimePasses ==
    ASSUME LedgerInv, [LedgerNext]_ledgerVars
    PROVE  now \in Nat /\ now' \in Nat /\ now <= now'
<1>1. now \in Nat
  BY BoundsAssumption DEF LedgerInv, LedgerTypeOK, Time
<1>2. CASE OwnerStep \/ ObserverStep
  <2>1. ASSUME NEW a \in Address, NEW w \in Wallet, NEW s \in Approval,
               NEW max \in Amount, NEW perRequest \in Amount, NEW expiry \in Time,
               SaveAllowance(a, w, s, max, perRequest, expiry)
        PROVE  now' = now
    BY <2>1 DEF SaveAllowance
  <2>2. ASSUME NEW a \in Address, NEW w \in Wallet,
               \/ DeleteAllowanceMetadata(a, w)
               \/ BeginAllowanceRevocation(a, w)
               \/ RevokeAllowance(a, w)
        PROVE  now' = now
    BY <2>2 DEF DeleteAllowanceMetadata, BeginAllowanceRevocation, RevokeAllowance
  <2>3. CASE ObserverStep
    BY <1>1, <2>3 DEF ObserverStep, SetAllowanceObservationStatus
  <2> QED
    BY <1>1, <1>2, <2>1, <2>2, <2>3 DEF OwnerStep
<1>3. CASE SpendStep
  <2>1. ASSUME NEW r \in ReservationId, Consume(r) \/ Release(r)
        PROVE  now' = now
    BY <2>1 DEF Consume, Release, Finish
  <2>2. ASSUME NEW r \in ReservationId, NEW a \in Address, NEW key \in PaymentKey,
               NEW amount \in Amount, NEW expiry \in Time,
               Reserve(r, a, key, amount, expiry)
        PROVE  now' = now
    BY <2>2 DEF Reserve
  <2> QED
    BY <1>1, <1>3, <2>1, <2>2 DEF SpendStep
<1>4. CASE CleanupExpired \/ Tick
  BY <1>1, <1>4 DEF CleanupExpired, CleanupBatch, Tick
<1>5. CASE UNCHANGED ledgerVars
  BY <1>1, <1>5 DEF ledgerVars
<1> QED
  BY <1>2, <1>3, <1>4, <1>5 DEF LedgerNext

\* A request whose row is kept keeps its capacity while it is in flight.
LEMMA KeptRowWithheld ==
    ASSUME LedgerInv, NEW q \in Request, Withheld(q), RowKept(hold[q]),
           hold'[q] = hold[q],
           stage'[q] \in InFlight => stage[q] \in InFlight,
           now \in Nat, now' \in Nat, now <= now'
    PROVE  Withheld(q)'
<1> SUFFICES ASSUME stage'[q] \in InFlight, hold[q] \in DOMAIN reservations'
             PROVE  hold[q] \in Held' \/ reservations'[hold[q]].expiresAt <= now'
  BY DEF Withheld, HasRow
<1>1. hold[q] \in DOMAIN reservations /\ stage[q] \in InFlight
  BY DEF RowKept
<1>2. reservations[hold[q]].expiresAt \in Nat
  BY <1>1, BoundsAssumption DEF LedgerInv, LedgerTypeOK, ReservationRow, Time
<1>3. hold[q] \in Held \/ reservations[hold[q]].expiresAt <= now
  BY <1>1 DEF Withheld, HasRow
<1> QED
  BY <1>1, <1>2, <1>3 DEF RowKept, Held

\* A request that reserves has its own new row; the others keep theirs, since
\* nobody else knows the new identifier.
LEMMA ReserveKeepsWithheld ==
    ASSUME LedgerInv, PaidInv, BudgetInv, HeldWhileInFlight,
           NEW q \in Request, NEW r \in ReservationId, ReserveBudget(q, r)
    PROVE  HeldWhileInFlight'
<1>1. /\ hold' = hold \/ hold' = [hold EXCEPT ![q] = r]
      /\ hold[q] = NoHold
      /\ \A other \in Request : hold[other] # r
      /\ \A other \in Request : other # q => stage'[other] = stage[other]
  BY DEF ReserveBudget, SetStage, PaidInv, CarriesPayload, BudgetInv
<1>2. /\ DOMAIN reservations' = DOMAIN reservations \cup {r}
      /\ reservations'[r].status = "reserved"
      /\ \A other \in DOMAIN reservations :
            other # r => reservations'[other] = reservations[other]
      /\ now' = now
  BY DEF ReserveBudget, Reserve, Put
<1>3. NoHold \notin DOMAIN reservations'
  BY <1>2, PaidRequestAssumption DEF BudgetInv
<1>4. Withheld(q)'
  <2>1. hold'[q] \in {NoHold, r}
    BY <1>1 DEF BudgetInv
  <2> QED
    BY <1>2, <1>3, <2>1 DEF Withheld, HasRow, Held
<1>5. ASSUME NEW other \in Request, other # q
      PROVE  Withheld(other)'
  <2>1. hold'[other] = hold[other] /\ hold[other] # r
    BY <1>1, <1>5 DEF BudgetInv
  <2> QED
    BY <1>1, <1>2, <1>5, <2>1 DEF HeldWhileInFlight, Withheld, HasRow, Held
<1> QED
  BY <1>4, <1>5 DEF HeldWhileInFlight, Withheld

\* A request that ends gives up its own row only.
LEMMA FinishKeepsWithheld ==
    ASSUME BudgetInv, HeldWhileInFlight, NEW q \in Request, stage'[q] \notin InFlight,
           \A other \in Request : other # q => stage'[other] = stage[other],
           Consume(hold[q]) \/ Release(hold[q]), hold' = hold
    PROVE  HeldWhileInFlight'
<1>1. /\ DOMAIN reservations' = DOMAIN reservations /\ now' = now
      /\ \A r \in DOMAIN reservations :
            r # hold[q] => reservations'[r] = reservations[r]
      /\ hold[q] \in DOMAIN reservations
  BY DEF Consume, Release, Finish, CanFinish, Held
<1>2. hold[q] # NoHold
  BY <1>1, PaidRequestAssumption DEF BudgetInv
<1>3. \A other \in Request : other # q => hold[other] # hold[q]
  BY <1>2 DEF BudgetInv
<1> QED
  BY <1>1, <1>3 DEF HeldWhileInFlight, HasRow, Held

\* The slot of a request outlives every step of the others.
LEMMA NextWithheldSafe ==
    ASSUME LedgerInv, PaidInv, BudgetInv, HeldWhileInFlight, [PaidNext]_paidVars
    PROVE  HeldWhileInFlight'
<1>1. now \in Nat /\ now' \in Nat /\ now <= now'
  BY MiddlewareStepsAreTheLedgers, TimePasses
<1>2. ASSUME hold' = hold,
             \A q \in Request : stage'[q] \in InFlight => stage[q] \in InFlight,
             \A r : RowKept(r)
      PROVE  HeldWhileInFlight'
  BY <1>1, <1>2, KeptRowWithheld DEF HeldWhileInFlight, Withheld
<1>3. UNCHANGED ledgerVars => \A r : RowKept(r)
  BY LedgerKeepsRows
<1>4. ASSUME NEW q \in Request, NEW s, SetStage(q, s)
      PROVE  /\ \A other \in Request : other # q => stage'[other] = stage[other]
             /\ stage'[q] = s
  BY <1>4 DEF SetStage, PaidInv, CarriesPayload
<1>5. ASSUME NEW q \in Request, RequestStep(q)
      PROVE  HeldWhileInFlight'
  <2>1. ASSUME NEW r \in ReservationId, ReserveBudget(q, r)
        PROVE  HeldWhileInFlight'
    BY <2>1, ReserveKeepsWithheld
  <2>2. CASE SkipBudget(q) \/ Refuse(q) \/ RefuseReplay(q) \/ ReserveAuthorization(q)
    <3>1. stage[q] \in InFlight
      BY <2>2 DEF SkipBudget, Refuse, RefuseReplay, ReserveAuthorization, InFlight
    <3> QED
      BY <1>2, <1>3, <1>4, <2>2, <3>1
         DEF SkipBudget, Refuse, RefuseReplay, ReserveAuthorization
  <2>3. CASE RunHandler(q) \/ FacilitatorSettle(q) \/ Validate(q)
    <3>1. stage[q] \in InFlight
      BY <2>3 DEF RunHandler, FacilitatorSettle, Validate, InFlight
    <3> QED
      BY <1>2, <1>3, <1>4, <2>3, <3>1 DEF RunHandler, FacilitatorSettle, Validate
  <2>4. CASE Save(q) \/ SaveThrows(q) \/ DeliverWithoutConsuming(q)
    <3>1. stage[q] \in InFlight
      BY <2>4 DEF Save, SaveThrows, DeliverWithoutConsuming, InFlight
    <3> QED
      BY <1>2, <1>3, <1>4, <2>4, <3>1 DEF Save, SaveThrows, DeliverWithoutConsuming
  <2>5. CASE ConsumeBudget(q)
    BY <1>4, <2>5, FinishKeepsWithheld DEF ConsumeBudget, InFlight
  <2>6. CASE ReleaseBudget(q)
    <3>1. CASE ReleaseOnFailure(q)
      BY <1>4, <2>6, <3>1, FinishKeepsWithheld DEF ReleaseBudget, ReleaseOnFailure, InFlight
    <3>2. CASE UNCHANGED ledgerVars
      <4>1. stage[q] \in InFlight
        BY <2>6 DEF ReleaseBudget, InFlight
      <4> QED
        BY <1>2, <1>3, <1>4, <2>6, <3>2, <4>1 DEF ReleaseBudget
    <3> QED
      BY <2>6, <3>1, <3>2 DEF ReleaseBudget
  <2> QED
    BY <1>5, <2>1, <2>2, <2>3, <2>4, <2>5, <2>6 DEF RequestStep
<1>6. ASSUME NEW q \in Request, NEW p \in Payload, Receive(q, p)
      PROVE  HeldWhileInFlight'
  <2>1. hold[q] = NoHold /\ NoHold \notin DOMAIN reservations
    BY <1>6, PaidRequestAssumption DEF Receive, BudgetInv
  <2>2. /\ \A other \in Request : other # q => stage'[other] = stage[other]
        /\ hold' = hold /\ reservations' = reservations /\ now' = now
    BY <1>4, <1>6 DEF Receive, ledgerVars
  <2> QED
    BY <2>1, <2>2 DEF HeldWhileInFlight, HasRow, Held
<1>7. ASSUME NEW x \in Process, Crash(x)
      PROVE  HeldWhileInFlight'
  <2>1. \A q \in Request : stage'[q] \in {stage[q], "crashed"}
    BY <1>7 DEF Crash
  <2>2. "crashed" \notin InFlight
    BY DEF InFlight
  <2> QED
    BY <1>2, <1>3, <1>7, <2>1, <2>2 DEF Crash
<1>8. CASE LedgerAlone
  BY <1>2, <1>8, LedgerKeepsRows DEF LedgerAlone, requestVars
<1>9. CASE UNCHANGED paidVars
  BY <1>2, <1>3, <1>9 DEF paidVars, requestVars
<1> QED
  BY <1>5, <1>6, <1>7, <1>8, <1>9 DEF PaidNext

-----------------------------------------------------------------------------

Together == LedgerInv /\ PaidInv /\ BudgetInv /\ PaidTypes /\ HeldWhileInFlight

\* Ledger and middleware keep their invariants together, in every state that
\* races, lost answers and crashes lead to.
THEOREM TogetherInvariant == PaidSpec => []Together
<1>1. PaidInit => Together
  <2> SUFFICES ASSUME PaidInit PROVE Together
    OBVIOUS
  <2>1. LedgerInv
    BY InitSafe DEF PaidInit
  <2>2. PaidInv
    BY PaidInitSafe
  <2>3. BudgetInv /\ PaidTypes /\ HeldWhileInFlight
    BY PaidRequestAssumption
       DEF PaidInit, LedgerInit, BudgetInv, Consumed, PaidTypes, HeldWhileInFlight, HasRow
  <2> QED
    BY <2>1, <2>2, <2>3 DEF Together
<1>2. Together /\ [PaidNext]_paidVars => Together'
  <2> SUFFICES ASSUME Together, [PaidNext]_paidVars PROVE Together'
    OBVIOUS
  <2>1. LedgerInv'
    BY MiddlewareStepsAreTheLedgers, NextSafe DEF Together
  <2>2. PaidInv' /\ BudgetInv'
    BY PaidNextSafe, NextBudgetSafe DEF Together
  <2>3. PaidTypes' /\ HeldWhileInFlight'
    BY NextTypesSafe, NextWithheldSafe DEF Together
  <2> QED
    BY <2>1, <2>2, <2>3 DEF Together
<1> QED
  BY <1>1, <1>2, PTL DEF PaidSpec

\* Whatever requests, owner and cleanup do to one ledger, types are kept, and
\* only requests of a server with a budget ever have a reservation.
THEOREM PaidTypeCorrect == PaidSpec => []PaidTypeOK
<1>1. Together => PaidTypeOK
  BY DEF Together, PaidTypeOK, LedgerInv, PaidInv, CarriesPayload, BudgetInv, PaidTypes
<1> QED
  BY <1>1, TogetherInvariant, PTL

\* The capacity of a request in flight is taken by no other request's hook and
\* by no cleanup before the hold expires.
THEOREM CapacityIsWithheld == PaidSpec => []HeldWhileInFlight
<1>1. Together => HeldWhileInFlight
  BY DEF Together
<1> QED
  BY <1>1, TogetherInvariant, PTL

\* Behind the middleware the ledger is the one of `AllowanceLedger`: hooks, retries, lost
\* answers and crashes drive it by its own operations and change nothing otherwise.
THEOREM MiddlewareImplementsTheLedger == PaidSpec => LedgerSpec
<1>1. PaidInit => LedgerInit
  BY DEF PaidInit
<1>2. Together /\ [PaidNext]_paidVars => [LedgerNext]_ledgerVars
  BY MiddlewareStepsAreTheLedgers DEF Together
<1> QED
  BY <1>1, <1>2, TogetherInvariant, PTL DEF PaidSpec, LedgerSpec

\* So, with any number of processes that crash, the caps hold, the totals are the sums of
\* the reservations, statuses are honest, and what was consumed or released stays so.
THEOREM MiddlewareKeepsTheLedger ==
    PaidSpec =>
        /\ [](LedgerBalanced /\ NoOverspend)
        /\ [](RevokedIsNeverActive /\ ExhaustedIsFullySpent)
        /\ OutcomesAreFinal
  BY MiddlewareImplementsTheLedger, LedgerIsBalanced, NeverOverspent, RevocationsHold,
     ExhaustionIsFinal, OutcomesStayFinal, PTL

=============================================================================
