------------------------- MODULE PaidRequestProofs -------------------------
(***************************************************************************)
(* The middleware implements PaymentPromise for any number of requests,    *)
(* processes, payloads and transfers, with or without a store that         *)
(* reserves authorizations; with one, a payload runs the handler once.     *)
(***************************************************************************)
EXTENDS PaidRequest, FiniteSetTheorems, TLAPS

-----------------------------------------------------------------------------
(* The inductive invariant.  A delivery is owed to the row its request     *)
(* inserted: requests that saved are told apart by the transfers they      *)
(* saved, because a second save of one transfer is refused.  The payments  *)
(* table may hold more than the saved requests: a save whose answer was    *)
(* lost, or whose process died, stays in it.                               *)

Saved == {q \in Request : stage[q] \in {"saved", "delivered"}}

CarriesPayload ==
    /\ stage \in [Request -> Stage]
    /\ payload \in [Request -> Payload \cup {NoPayload}]
    /\ chain \subseteq Transaction
    /\ \A q \in Request : stage[q] # "idle" => payload[q] \in Payload

ValidatedIsOnChain ==
    \A q \in Request : stage[q] = "validated" \/ q \in Saved => TransactionFor(q) \in chain

SavedIsRecorded == \A q \in Saved : TransactionFor(q) \in payments

SavedOnce ==
    \A q1, q2 \in Saved : TransactionFor(q1) = TransactionFor(q2) => q1 = q2

PaidInv == CarriesPayload /\ ValidatedIsOnChain /\ SavedIsRecorded /\ SavedOnce

\* No request has arrived: the invariant holds of the initial state.
LEMMA PaidInitSafe == PaidInit => PaidInv
  BY DEF PaidInit, PaidInv, CarriesPayload, ValidatedIsOnChain, SavedIsRecorded,
         SavedOnce, Saved, Stage, InFlight

\* A step that moves one request along, neither to saved nor to delivered nor
\* to validated, and takes nothing off the chain or the table, is harmless.
LEMMA MoveSafe ==
    ASSUME PaidInv, NEW q \in Request, NEW s \in Stage, SetStage(q, s),
           stage[q] # "idle", s # "idle",
           s = "validated" => TransactionFor(q) \in chain,
           s \in {"saved", "delivered"} => q \in Saved,
           payload' = payload, payments' = payments,
           chain \subseteq chain', chain' \subseteq Transaction
    PROVE  PaidInv'
<1>1. /\ stage' \in [Request -> Stage]
      /\ stage'[q] = s
      /\ \A other \in Request : other # q => stage'[other] = stage[other]
      /\ Saved' \subseteq Saved
  BY DEF SetStage, PaidInv, CarriesPayload, Saved
<1>2. CarriesPayload'
  BY <1>1 DEF PaidInv, CarriesPayload
<1>3. ValidatedIsOnChain'
  BY <1>1 DEF PaidInv, ValidatedIsOnChain, TransactionFor
<1>4. SavedIsRecorded' /\ SavedOnce'
  BY <1>1 DEF PaidInv, SavedIsRecorded, SavedOnce, TransactionFor
<1> QED
  BY <1>2, <1>3, <1>4 DEF PaidInv

\* Receive gives a payload to a request that had none.
LEMMA ReceiveSafe ==
    ASSUME PaidInv, NEW q \in Request, NEW p \in Payload, Receive(q, p)
    PROVE  PaidInv'
<1>1. /\ stage'[q] = "verified" /\ payload'[q] = p
      /\ \A other \in Request :
            other # q => stage'[other] = stage[other] /\ payload'[other] = payload[other]
      /\ stage' \in [Request -> Stage]
      /\ payload' \in [Request -> Payload \cup {NoPayload}]
      /\ chain' = chain /\ payments' = payments
  BY DEF Receive, SetStage, PaidInv, CarriesPayload, Stage, InFlight
<1>2. Saved' = Saved /\ q \notin Saved
  BY <1>1 DEF Saved, Receive
<1>3. CarriesPayload'
  BY <1>1 DEF PaidInv, CarriesPayload
<1>4. ValidatedIsOnChain'
  BY <1>1, <1>2 DEF PaidInv, ValidatedIsOnChain, TransactionFor
<1>5. SavedIsRecorded' /\ SavedOnce'
  BY <1>1, <1>2 DEF PaidInv, SavedIsRecorded, SavedOnce, TransactionFor, Saved
<1> QED
  BY <1>3, <1>4, <1>5 DEF PaidInv

\* Save inserts a transfer that no saved request carries.
LEMMA PaidSaveSafe ==
    ASSUME PaidInv, NEW q \in Request, Save(q)
    PROVE  PaidInv'
<1>1. /\ stage[q] = "validated"
      /\ TransactionFor(q) \notin payments
      /\ payments' = payments \cup {TransactionFor(q)}
      /\ payload' = payload /\ chain' = chain
      /\ stage'[q] \in {"saved", "releasing"}
      /\ stage' \in [Request -> Stage]
      /\ \A other \in Request : other # q => stage'[other] = stage[other]
  BY DEF Save, SetStage, NotRecorded, PaidInv, CarriesPayload, Stage, InFlight
<1>2. q \notin Saved /\ Saved' \subseteq Saved \cup {q}
  BY <1>1 DEF Saved
<1>3. \A other \in Saved : TransactionFor(other) # TransactionFor(q)
  BY <1>1 DEF PaidInv, SavedIsRecorded
<1>4. CarriesPayload'
  BY <1>1 DEF PaidInv, CarriesPayload
<1>5. ValidatedIsOnChain'
  BY <1>1, <1>2 DEF PaidInv, ValidatedIsOnChain, TransactionFor
<1>6. SavedIsRecorded'
  BY <1>1, <1>2 DEF PaidInv, SavedIsRecorded, TransactionFor
<1>7. SavedOnce'
  BY <1>1, <1>2, <1>3 DEF PaidInv, SavedOnce, TransactionFor
<1> QED
  BY <1>4, <1>5, <1>6, <1>7 DEF PaidInv

\* A crash ends requests and remembers what they recorded.
LEMMA CrashSafe ==
    ASSUME PaidInv, NEW x, Crash(x)
    PROVE  PaidInv'
<1>1. /\ stage' \in [Request -> Stage]
      /\ \A q \in Request : stage'[q] \in {stage[q], "crashed"}
                              /\ (stage'[q] = "crashed" => stage[q] # "idle")
      /\ payload' = payload /\ chain' = chain /\ payments' = payments
  BY DEF Crash, PaidInv, CarriesPayload, Stage, InFlight
<1>2. Saved' \subseteq Saved
  BY <1>1 DEF Saved
<1>3. CarriesPayload'
  BY <1>1 DEF PaidInv, CarriesPayload
<1>4. ValidatedIsOnChain'
  BY <1>1, <1>2 DEF PaidInv, ValidatedIsOnChain, TransactionFor
<1>5. SavedIsRecorded' /\ SavedOnce'
  BY <1>1, <1>2 DEF PaidInv, SavedIsRecorded, SavedOnce, TransactionFor
<1> QED
  BY <1>3, <1>4, <1>5 DEF PaidInv

-----------------------------------------------------------------------------

\* Every action preserves the invariant: all but the arrival, the save and the
\* crash are moves of one request.
LEMMA PaidNextSafe ==
    ASSUME PaidInv, [PaidNext]_paidVars
    PROVE  PaidInv'
<1>1. ASSUME NEW q \in Request, RequestStep(q)
      PROVE  PaidInv'
  <2>0. /\ "budgeted" \in Stage /\ "authorized" \in Stage /\ "handled" \in Stage
        /\ "settled" \in Stage /\ "validated" \in Stage /\ "saved" \in Stage
        /\ "releasing" \in Stage /\ "delivered" \in Stage /\ "rejected" \in Stage
    BY DEF Stage, InFlight
  <2>1. chain \subseteq Transaction
    BY DEF PaidInv, CarriesPayload
  <2>2. ASSUME NEW s \in Stage, SetStage(q, s), stage[q] # "idle", s # "idle",
               s \notin {"validated", "saved", "delivered"},
               payload' = payload, payments' = payments, chain' = chain
        PROVE  PaidInv'
    BY <2>1, <2>2, MoveSafe
  <2>3. ASSUME NEW r \in ReservationId, ReserveBudget(q, r)
        PROVE  PaidInv'
    BY <2>0, <2>2, <2>3 DEF ReserveBudget
  <2>4. CASE SkipBudget(q) \/ Refuse(q) \/ ReserveAuthorization(q) \/ RefuseReplay(q)
    BY <2>0, <2>2, <2>4 DEF SkipBudget, Refuse, ReserveAuthorization, RefuseReplay
  <2>5. CASE RunHandler(q) \/ SaveThrows(q) \/ ReleaseBudget(q)
    BY <2>0, <2>2, <2>5 DEF RunHandler, SaveThrows, ReleaseBudget
  <2>6. CASE FacilitatorSettle(q)
    <3>1. stage[q] # "idle" /\ payload' = payload /\ payments' = payments
      BY <2>6 DEF FacilitatorSettle
    <3>2. TransactionFor(q) \in Transaction
      BY <3>1, PaidRequestAssumption DEF PaidInv, CarriesPayload, TransactionFor
    <3>3. chain \subseteq chain' /\ chain' \subseteq Transaction
      BY <2>1, <2>6, <3>2 DEF FacilitatorSettle
    <3>4. PICK s \in {"settled", "releasing", "rejected"} : SetStage(q, s)
      BY <2>6 DEF FacilitatorSettle
    <3> QED
      BY <2>0, <3>1, <3>3, <3>4, MoveSafe
  <2>7. CASE Validate(q)
    <3>1. /\ stage[q] # "idle" /\ payload' = payload
          /\ payments' = payments /\ chain' = chain
      BY <2>7 DEF Validate
    <3>2. CASE TransactionFor(q) \in chain /\ SetStage(q, "validated")
      BY <2>0, <2>1, <3>1, <3>2, MoveSafe
    <3>3. CASE SetStage(q, "releasing")
      BY <2>0, <2>2, <3>1, <3>3
    <3> QED
      BY <2>7, <3>2, <3>3 DEF Validate, SeenOnChain
  <2>8. CASE Save(q)
    BY <2>8, PaidSaveSafe
  <2>9. CASE ConsumeBudget(q) \/ DeliverWithoutConsuming(q)
    <3>1. /\ stage[q] = "saved" /\ SetStage(q, "delivered")
          /\ payload' = payload /\ payments' = payments /\ chain' = chain
      BY <2>9 DEF ConsumeBudget, DeliverWithoutConsuming
    <3>2. q \in Saved
      BY <3>1 DEF Saved
    <3> QED
      BY <2>0, <2>1, <3>1, <3>2, MoveSafe
  <2> QED
    BY <1>1, <2>3, <2>4, <2>5, <2>6, <2>7, <2>8, <2>9 DEF RequestStep
<1>2. ASSUME NEW q \in Request, NEW p \in Payload, Receive(q, p)
      PROVE  PaidInv'
  BY <1>2, ReceiveSafe
<1>3. ASSUME NEW x \in Process, Crash(x)
      PROVE  PaidInv'
  BY <1>3, CrashSafe
<1>4. CASE LedgerAlone \/ UNCHANGED paidVars
  BY <1>4 DEF LedgerAlone, paidVars, requestVars, PaidInv, CarriesPayload,
              ValidatedIsOnChain, SavedIsRecorded, SavedOnce, Saved, TransactionFor
<1> QED
  BY <1>1, <1>2, <1>3, <1>4 DEF PaidNext

\* The invariant holds throughout: every response sent was validated on chain
\* and owns the payments row of its transfer.
THEOREM PaidInvariant == PaidSpec => []PaidInv
<1>1. PaidInit => PaidInv
  BY PaidInitSafe
<1>2. PaidInv /\ [PaidNext]_paidVars => PaidInv'
  BY PaidNextSafe
<1> QED
  BY <1>1, <1>2, PTL DEF PaidSpec

-----------------------------------------------------------------------------
(* The refinement.  Of a step only two things are seen by the promise: the *)
(* chain, and who has been delivered to.                                   *)

\* While nobody is delivered to, and the delivered keep their payloads, the
\* promise's deliveries stay what they are.
LEMMA DeliveriesStay ==
    ASSUME Delivered' = Delivered, \A q \in Delivered : payload'[q] = payload[q]
    PROVE  Deliveries' = Deliveries
<1>1. ASSUME NEW t \in Transaction
      PROVE  Buyers(t)' = Buyers(t)
  BY DEF Buyers, TransactionFor
<1>2. ASSUME NEW t \in Transaction
      PROVE  Cardinality(Buyers(t)') = Cardinality(Buyers(t))
  BY <1>1, <1>2, Zenon
<1>3. ASSUME NEW t \in Transaction
      PROVE  Cardinality(Buyers(t))' = Cardinality(Buyers(t))
  BY <1>2
<1> QED
  BY <1>3 DEF Deliveries

\* A request that is delivered to is the first buyer of its transfer, because
\* no two saved requests carry the same one.
LEMMA DeliverSafe ==
    ASSUME PaidInv, NEW q \in Request, stage[q] = "saved", SetStage(q, "delivered"),
           payload' = payload, chain' = chain
    PROVE  \E t \in Transaction : Promise!Deliver(t)
<1> DEFINE t == TransactionFor(q)
<1>1. q \in Saved /\ q \notin Delivered /\ Delivered \subseteq Saved
  BY DEF Saved, Delivered
<1>2. Delivered' = Delivered \cup {q}
  BY DEF Delivered, SetStage, PaidInv, CarriesPayload
<1>3. t \in Transaction /\ t \in chain
  BY <1>1, PaidRequestAssumption
     DEF PaidInv, CarriesPayload, ValidatedIsOnChain, TransactionFor
<1>4. Buyers(t) = {}
  BY <1>1 DEF Buyers, PaidInv, SavedOnce
<1>5. \A u \in Transaction :
         Buyers(u)' = IF u = t THEN {q} ELSE Buyers(u)
  <2> SUFFICES ASSUME NEW u \in Transaction
               PROVE  Buyers(u)' = IF u = t THEN {q} ELSE Buyers(u)
    OBVIOUS
  <2>1. Buyers(u)' = {other \in Delivered \cup {q} : TransactionFor(other) = u}
    BY <1>2 DEF Buyers, TransactionFor
  <2> QED
    BY <2>1, <1>4 DEF Buyers
<1>6. Cardinality({}) = 0 /\ Cardinality({q}) = 1
  BY FS_EmptySet, FS_Singleton
<1>7. Deliveries[t] = 0
  <2>1. Cardinality(Buyers(t)) = 0
    BY <1>4, <1>6, Zenon
  <2> QED
    BY <2>1, <1>3 DEF Deliveries
<1>8. \A u \in Transaction :
         Cardinality(Buyers(u)') = IF u = t THEN 1 ELSE Cardinality(Buyers(u))
  BY <1>5, <1>6, Zenon
<1>9. Deliveries' = [Deliveries EXCEPT ![t] = 1]
  BY <1>8 DEF Deliveries
<1> QED
  BY <1>3, <1>7, <1>9 DEF Promise!Deliver

\* A step of one request that is not its delivery leaves the delivered alone.
LEMMA OthersStay ==
    ASSUME PaidInv, NEW q \in Request, NEW s \in Stage, SetStage(q, s),
           stage[q] # "delivered", s # "delivered", payload' = payload
    PROVE  Deliveries' = Deliveries
<1>1. Delivered' = Delivered
  BY DEF Delivered, SetStage, PaidInv, CarriesPayload
<1> QED
  BY <1>1, DeliveriesStay

\* Every step of the middleware is a step of the promise, or invisible to it.
LEMMA StepKeepsPromise ==
    ASSUME PaidInv, [PaidNext]_paidVars
    PROVE  [Promise!PromiseNext]_(Promise!promiseVars)
<1> USE DEF Promise!promiseVars
<1>1. ASSUME NEW q \in Request, RequestStep(q)
      PROVE  [Promise!PromiseNext]_(Promise!promiseVars)
  <2>0. /\ "budgeted" \in Stage /\ "authorized" \in Stage /\ "handled" \in Stage
        /\ "settled" \in Stage /\ "validated" \in Stage /\ "saved" \in Stage
        /\ "releasing" \in Stage /\ "rejected" \in Stage
    BY DEF Stage, InFlight
  <2>1. ASSUME NEW s \in Stage, SetStage(q, s), stage[q] # "delivered",
               s # "delivered", payload' = payload, chain' = chain
        PROVE  UNCHANGED <<chain, Deliveries>>
    BY <2>1, OthersStay
  <2>2. ASSUME NEW r \in ReservationId, ReserveBudget(q, r)
        PROVE  UNCHANGED <<chain, Deliveries>>
    BY <2>0, <2>1, <2>2 DEF ReserveBudget
  <2>3. CASE SkipBudget(q) \/ Refuse(q) \/ ReserveAuthorization(q) \/ RefuseReplay(q)
    BY <2>0, <2>1, <2>3 DEF SkipBudget, Refuse, ReserveAuthorization, RefuseReplay
  <2>4. CASE RunHandler(q) \/ SaveThrows(q) \/ ReleaseBudget(q)
    BY <2>0, <2>1, <2>4 DEF RunHandler, SaveThrows, ReleaseBudget
  <2>5. CASE Validate(q) \/ Save(q)
    BY <2>0, <2>1, <2>5 DEF Validate, Save
  <2>6. CASE FacilitatorSettle(q)
    <3>1. Deliveries' = Deliveries
      BY <2>0, <2>6, OthersStay DEF FacilitatorSettle
    <3>2. TransactionFor(q) \in Transaction
      BY <2>6, PaidRequestAssumption
         DEF FacilitatorSettle, PaidInv, CarriesPayload, TransactionFor
    <3>3. chain' \in {chain, chain \cup {TransactionFor(q)}}
      BY <2>6 DEF FacilitatorSettle
    <3> QED
      BY <3>1, <3>2, <3>3 DEF Promise!PromiseNext, Promise!Pay
  <2>7. CASE ConsumeBudget(q) \/ DeliverWithoutConsuming(q)
    <3>1. /\ stage[q] = "saved" /\ SetStage(q, "delivered")
          /\ payload' = payload /\ chain' = chain
      BY <2>7 DEF ConsumeBudget, DeliverWithoutConsuming
    <3> QED
      BY <3>1, DeliverSafe DEF Promise!PromiseNext
  <2> QED
    BY <1>1, <2>2, <2>3, <2>4, <2>5, <2>6, <2>7 DEF RequestStep
<1>2. ASSUME NEW q \in Request, NEW p \in Payload, Receive(q, p)
      PROVE  UNCHANGED <<chain, Deliveries>>
  <2>1. /\ Delivered' = Delivered /\ q \notin Delivered
        /\ \A other \in Delivered : payload'[other] = payload[other]
    BY <1>2 DEF Receive, SetStage, Delivered, PaidInv, CarriesPayload
  <2> QED
    BY <1>2, <2>1, DeliveriesStay DEF Receive
<1>3. ASSUME NEW x \in Process, Crash(x)
      PROVE  UNCHANGED <<chain, Deliveries>>
  <2>1. Delivered' = Delivered
    BY <1>3 DEF Crash, Delivered, InFlight
  <2>2. \A q \in Delivered : payload'[q] = payload[q]
    BY <1>3 DEF Crash
  <2> QED
    BY <1>3, <2>1, <2>2, DeliveriesStay DEF Crash
<1>4. CASE LedgerAlone \/ UNCHANGED paidVars
  <2>1. stage' = stage /\ payload' = payload /\ chain' = chain
    BY <1>4 DEF LedgerAlone, paidVars, requestVars
  <2>2. Delivered' = Delivered
    BY <2>1 DEF Delivered
  <2> QED
    BY <2>1, <2>2, DeliveriesStay
<1> QED
  BY <1>1, <1>2, <1>3, <1>4 DEF PaidNext

\* Nothing is on chain and nobody is delivered to at the start.
LEMMA InitKeepsPromise == PaidInit => Promise!PromiseInit
<1> SUFFICES ASSUME PaidInit PROVE Promise!PromiseInit
  OBVIOUS
<1>1. \A t \in Transaction : Buyers(t) = {}
  BY DEF PaidInit, Buyers, Delivered
<1>2. Cardinality({}) = 0
  BY FS_EmptySet
<1>3. \A t \in Transaction : Cardinality(Buyers(t)) = 0
  BY <1>1, <1>2, Zenon
<1> QED
  BY <1>3 DEF PaidInit, Promise!PromiseInit, Deliveries

\* createMeterKitResourceServer implements PaymentPromise: a transfer is never
\* sold twice and nothing is sold before its transfer is on chain, whatever the
\* replicas, crashes, lost answers and encodings of one payment.
THEOREM PaidRequestKeepsPromise == PaidSpec => PromiseKept
<1>1. PaidInit => Promise!PromiseInit
  BY InitKeepsPromise
<1>2. PaidInv /\ [PaidNext]_paidVars => [Promise!PromiseNext]_(Promise!promiseVars)
  BY StepKeepsPromise
<1> QED
  BY <1>1, <1>2, PaidInvariant, PTL DEF PaidSpec, PromiseKept, Promise!PromiseSpec

-----------------------------------------------------------------------------
(* The handler.  A request that may run it, or has run it, owns its        *)
(* payload's entry in the store, and the store's scope outlives every      *)
(* process.                                                                *)

Admitted == handled \cup {q \in Request : stage[q] = "authorized"}

Early == {"idle", "verified", "budgeted", "authorized"}

HandlerInv ==
    /\ stage \in [Request -> Stage]
    /\ payload \in [Request -> Payload \cup {NoPayload}]
    /\ handled \subseteq Request
    /\ \A q \in handled : stage[q] \notin Early
    /\ ReservesInStore =>
         /\ \A q \in Admitted : <<Store, payload[q]>> \in authorized
         /\ \A q1, q2 \in Admitted : payload[q1] = payload[q2] => q1 = q2

\* A step that admits nobody and forgets nothing the store knows is harmless.
LEMMA NobodyAdmitted ==
    ASSUME HandlerInv, stage' \in [Request -> Stage],
           \A q \in Request : stage'[q] # stage[q] =>
               stage'[q] # "authorized" /\ (q \in handled => stage'[q] \notin Early),
           payload' = payload, handled' = handled,
           \A p \in Payload \cup {NoPayload} :
               <<Store, p>> \in authorized => <<Store, p>> \in authorized'
    PROVE  HandlerInv'
<1>1. Admitted' \subseteq Admitted
  BY DEF Admitted
<1>2. \A q \in Admitted : q \in Request /\ payload[q] \in Payload \cup {NoPayload}
  BY DEF HandlerInv, Admitted
<1>3. \A q \in handled' : stage'[q] \notin Early
  BY DEF HandlerInv
<1>4. ReservesInStore =>
        /\ \A q \in Admitted' : <<Store, payload'[q]>> \in authorized'
        /\ \A q1, q2 \in Admitted' : payload'[q1] = payload'[q2] => q1 = q2
  BY <1>1, <1>2 DEF HandlerInv
<1> QED
  BY <1>3, <1>4 DEF HandlerInv, Early

\* The same for a step that only moves one request along.
LEMMA MoveAdmitsNobody ==
    ASSUME HandlerInv, NEW q \in Request, NEW s \in Stage \ Early, SetStage(q, s),
           payload' = payload, handled' = handled, authorized' = authorized
    PROVE  HandlerInv'
<1>1. /\ stage' \in [Request -> Stage]
      /\ \A other \in Request : stage'[other] # stage[other] => other = q /\ stage'[other] = s
  BY DEF SetStage, HandlerInv
<1>2. \A other \in Request : stage'[other] # stage[other] =>
          stage'[other] # "authorized" /\ stage'[other] \notin Early
  BY <1>1 DEF Early
<1> QED
  BY <1>1, <1>2, NobodyAdmitted

\* A request that moves up to its reservation has not run the handler.
LEMMA EarlyMoveAdmitsNobody ==
    ASSUME HandlerInv, NEW q \in Request, stage[q] \in {"verified", "budgeted"},
           NEW s \in Stage, s # "authorized", SetStage(q, s),
           payload' = payload, handled' = handled, authorized' = authorized
    PROVE  HandlerInv'
<1>1. /\ stage' \in [Request -> Stage]
      /\ \A other \in Request : stage'[other] # stage[other] => other = q /\ stage'[other] = s
  BY DEF SetStage, HandlerInv
<1>2. q \notin handled
  BY DEF HandlerInv, Early
<1> QED
  BY <1>1, <1>2, NobodyAdmitted

\* The reservation admits a request whose payload nobody was admitted with.
LEMMA ReservationSafe ==
    ASSUME HandlerInv, NEW q \in Request, ReserveAuthorization(q)
    PROVE  HandlerInv'
<1>1. /\ stage' \in [Request -> Stage] /\ stage'[q] = "authorized"
      /\ \A other \in Request : other # q => stage'[other] = stage[other]
      /\ payload' = payload /\ handled' = handled
      /\ authorized' = authorized \cup {<<Scope(q), payload[q]>>}
      /\ <<Scope(q), payload[q]>> \notin authorized
  BY DEF ReserveAuthorization, SetStage, Unreserved, HandlerInv, Stage, InFlight
<1>2. q \notin handled /\ Admitted' = Admitted \cup {q}
  BY <1>1 DEF Admitted, HandlerInv, Early, ReserveAuthorization
<1>3. \A other \in handled' : stage'[other] \notin Early
  BY <1>1, <1>2 DEF HandlerInv
<1>4. ASSUME ReservesInStore
      PROVE  /\ \A other \in Admitted' : <<Store, payload'[other]>> \in authorized'
             /\ \A q1, q2 \in Admitted' : payload'[q1] = payload'[q2] => q1 = q2
  <2>1. Scope(q) = Store
    BY <1>4 DEF Scope
  <2>2. \A other \in Admitted : payload[other] # payload[q]
    BY <1>1, <1>4, <2>1 DEF HandlerInv
  <2> QED
    BY <1>1, <1>2, <1>4, <2>1, <2>2 DEF HandlerInv
<1> QED
  BY <1>1, <1>3, <1>4 DEF HandlerInv, Early

\* Running the handler admits nobody new.
LEMMA HandlerSafe ==
    ASSUME HandlerInv, NEW q \in Request, RunHandler(q)
    PROVE  HandlerInv'
<1>1. /\ stage[q] = "authorized" /\ handled' = handled \cup {q}
      /\ stage' \in [Request -> Stage] /\ stage'[q] \in {"handled", "releasing"}
      /\ \A other \in Request : other # q => stage'[other] = stage[other]
      /\ payload' = payload /\ authorized' = authorized
  BY DEF RunHandler, SetStage, HandlerInv, Stage, InFlight
<1>2. Admitted' = Admitted
  BY <1>1 DEF Admitted
<1>3. \A other \in handled' : stage'[other] \notin Early
  BY <1>1 DEF HandlerInv, Early
<1> QED
  BY <1>1, <1>2, <1>3 DEF HandlerInv, Early

\* Every action preserves the handler's invariant.
LEMMA NextHandlerSafe ==
    ASSUME HandlerInv, [PaidNext]_paidVars
    PROVE  HandlerInv'
<1>0. /\ {"handled", "settled", "validated", "saved", "releasing", "delivered",
          "rejected", "crashed"} \subseteq Stage \ Early
      /\ "budgeted" \in Stage /\ "verified" \in Stage
  BY DEF Stage, InFlight, Early
<1>1. ASSUME NEW q \in Request, RequestStep(q)
      PROVE  HandlerInv'
  <2>1. ASSUME NEW r \in ReservationId, ReserveBudget(q, r)
        PROVE  HandlerInv'
    BY <1>0, <2>1, EarlyMoveAdmitsNobody DEF ReserveBudget
  <2>2. CASE SkipBudget(q) \/ Refuse(q) \/ RefuseReplay(q)
    BY <1>0, <2>2, EarlyMoveAdmitsNobody DEF SkipBudget, Refuse, RefuseReplay
  <2>3. CASE ReserveAuthorization(q)
    BY <2>3, ReservationSafe
  <2>4. CASE RunHandler(q)
    BY <2>4, HandlerSafe
  <2>5. CASE FacilitatorSettle(q) \/ Validate(q) \/ Save(q) \/ SaveThrows(q)
    BY <1>0, <2>5, MoveAdmitsNobody DEF FacilitatorSettle, Validate, Save, SaveThrows
  <2>6. CASE ConsumeBudget(q) \/ DeliverWithoutConsuming(q) \/ ReleaseBudget(q)
    BY <1>0, <2>6, MoveAdmitsNobody DEF ConsumeBudget, DeliverWithoutConsuming, ReleaseBudget
  <2> QED
    BY <1>1, <2>1, <2>2, <2>3, <2>4, <2>5, <2>6 DEF RequestStep
<1>2. ASSUME NEW q \in Request, NEW p \in Payload, Receive(q, p)
      PROVE  HandlerInv'
  <2>1. /\ stage[q] = "idle" /\ stage'[q] = "verified"
        /\ stage' \in [Request -> Stage]
        /\ payload' \in [Request -> Payload \cup {NoPayload}]
        /\ \A other \in Request :
              other # q => stage'[other] = stage[other] /\ payload'[other] = payload[other]
        /\ handled' = handled /\ authorized' = authorized
    BY <1>0, <1>2 DEF Receive, SetStage, HandlerInv
  <2>2. q \notin Admitted /\ Admitted' = Admitted
    BY <2>1 DEF Admitted, HandlerInv, Early
  <2>3. handled \subseteq Admitted
    BY DEF Admitted
  <2>4. \A other \in handled' : stage'[other] \notin Early
    BY <2>1, <2>2, <2>3 DEF HandlerInv
  <2>5. \A other \in Admitted : other \in Request /\ payload'[other] = payload[other]
    BY <2>1, <2>2 DEF Admitted, HandlerInv
  <2> QED
    BY <2>1, <2>2, <2>4, <2>5 DEF HandlerInv, Early
<1>3. ASSUME NEW x \in Process, Crash(x)
      PROVE  HandlerInv'
  <2>1. /\ stage' \in [Request -> Stage]
        /\ \A q \in Request : stage'[q] # stage[q] => stage'[q] = "crashed"
        /\ payload' = payload /\ handled' = handled
    BY <1>0, <1>3 DEF Crash, HandlerInv
  <2>2. \A p \in Payload \cup {NoPayload} :
            <<Store, p>> \in authorized => <<Store, p>> \in authorized'
    <3>1. Store # x
      BY PaidRequestAssumption
    <3> QED
      BY <1>3, <3>1 DEF Crash
  <2>3. \A q \in Request : stage'[q] # stage[q] =>
            stage'[q] # "authorized" /\ stage'[q] \notin Early
    BY <2>1 DEF Early
  <2> QED
    BY <2>1, <2>2, <2>3, NobodyAdmitted
<1>4. CASE LedgerAlone \/ UNCHANGED paidVars
  <2>1. stage' = stage /\ payload' = payload /\ handled' = handled /\ authorized' = authorized
    BY <1>4 DEF LedgerAlone, paidVars, requestVars
  <2> QED
    BY <2>1 DEF HandlerInv, Admitted, Early
<1> QED
  BY <1>1, <1>2, <1>3, <1>4 DEF PaidNext

\* With a store that reserves authorizations, the protected handler runs at most
\* once for a payload, on any number of processes and across any crashes.
THEOREM HandlerRunsOncePerPayload == PaidSpec => []HandlerOncePerPayload
<1>1. PaidInit => HandlerInv
  BY DEF PaidInit, HandlerInv, Admitted, Early, Stage, InFlight
<1>2. HandlerInv /\ [PaidNext]_paidVars => HandlerInv'
  BY NextHandlerSafe
<1>3. HandlerInv => HandlerOncePerPayload
  BY DEF HandlerInv, HandlerOncePerPayload, Admitted
<1> QED
  BY <1>1, <1>2, <1>3, PTL DEF PaidSpec

-----------------------------------------------------------------------------
(* The budget.  A reservation is known to one request at most, and only    *)
(* the hook after that request's save consumes it.                         *)

Consumed == {r \in DOMAIN reservations : reservations[r].status = "consumed"}

BudgetInv ==
    /\ hold \in [Request -> ReservationId \cup {NoHold}]
    /\ \A q \in Request : hold[q] # NoHold => stage[q] \notin {"idle", "verified"}
    /\ \A q1, q2 \in Request : hold[q1] # NoHold /\ hold[q1] = hold[q2] => q1 = q2
    /\ DOMAIN reservations \subseteq ReservationId
    /\ \A q \in Request : hold[q] \in Consumed => TransactionFor(q) \in payments

NoNewConsumption ==
    Consumed' \subseteq Consumed /\ (DOMAIN reservations)' \subseteq ReservationId

\* Of the ledger's methods only consume makes a reservation consumed.
LEMMA LedgerConsumesNothing ==
    ASSUME BudgetInv,
           OwnerStep \/ CleanupExpired \/ Tick \/ UNCHANGED ledgerVars
             \/ \E r \in ReservationId : Release(r)
    PROVE  NoNewConsumption
<1> USE DEF NoNewConsumption, Consumed, BudgetInv
<1>1. CASE UNCHANGED reservations
  BY <1>1
<1>2. ASSUME NEW a \in Address, NEW w \in Wallet, DeleteAllowanceMetadata(a, w)
      PROVE  NoNewConsumption
  BY <1>2 DEF DeleteAllowanceMetadata, Restrict
<1>3. CASE OwnerStep
  BY <1>1, <1>2, <1>3
     DEF OwnerStep, SaveAllowance, BeginAllowanceRevocation, RevokeAllowance
<1>4. CASE CleanupExpired
  <2>1. PICK B \in SUBSET Expired : CleanupBatch(B)
    BY <1>4 DEF CleanupExpired
  <2> QED
    BY <2>1 DEF CleanupBatch
<1>5. CASE \E r \in ReservationId : Release(r)
  BY <1>5 DEF Release, Finish, CanFinish, Held
<1> QED
  BY <1>1, <1>3, <1>4, <1>5 DEF Tick, ledgerVars

\* A step that consumes nothing, gives no request a hold and takes no row out
\* of the payments table keeps what was recorded.
LEMMA NothingConsumed ==
    ASSUME BudgetInv, NoNewConsumption, hold' = hold, payload' = payload,
           payments \subseteq payments',
           \A q \in Request : stage[q] \notin {"idle", "verified"} =>
               stage'[q] \notin {"idle", "verified"}
    PROVE  BudgetInv'
BY DEF BudgetInv, NoNewConsumption, Consumed, TransactionFor

\* The same for a step that moves one request to another stage.
LEMMA MoveConsumesNothing ==
    ASSUME BudgetInv, PaidInv, NoNewConsumption, hold' = hold, payload' = payload,
           payments \subseteq payments',
           NEW q \in Request, NEW s, s \notin {"idle", "verified"}, SetStage(q, s)
    PROVE  BudgetInv'
<1>1. \A other \in Request : stage'[other] \in {stage[other], s}
  BY DEF SetStage, PaidInv, CarriesPayload
<1> QED
  BY <1>1, NothingConsumed

\* reserve: the request gets an identifier no other request has, for a row that
\* is not consumed.
LEMMA ReserveBudgetSafe ==
    ASSUME BudgetInv, PaidInv, NEW q \in Request, NEW r \in ReservationId,
           ReserveBudget(q, r)
    PROVE  BudgetInv'
<1>1. /\ stage[q] = "verified" /\ stage'[q] \in {"budgeted", "rejected"}
      /\ \A other \in Request : other # q => stage'[other] = stage[other]
      /\ hold' = hold \/ hold' = [hold EXCEPT ![q] = r]
      /\ payload' = payload /\ payments' = payments
      /\ \A other \in Request : hold[other] # r
  BY DEF ReserveBudget, SetStage, PaidInv, CarriesPayload
<1>2. /\ DOMAIN reservations' = DOMAIN reservations \cup {r}
      /\ reservations'[r].status = "reserved"
      /\ \A other \in DOMAIN reservations :
            other # r => reservations'[other] = reservations[other]
      /\ r \notin DOMAIN reservations
  BY DEF ReserveBudget, Reserve, Put
<1>3. Consumed' = Consumed /\ r \notin Consumed
  BY <1>2 DEF Consumed
<1>4. NoHold \notin ReservationId
  BY PaidRequestAssumption
<1>5. hold[q] = NoHold
  BY <1>1 DEF BudgetInv
<1>6. \A other \in Request : other # q => hold'[other] = hold[other]
  BY <1>1 DEF BudgetInv
<1>7. hold'[q] \in {NoHold, r} /\ hold' \in [Request -> ReservationId \cup {NoHold}]
  BY <1>1, <1>5 DEF BudgetInv
<1>8. \A other \in Request : hold'[other] # NoHold => stage'[other] \notin {"idle", "verified"}
  BY <1>1, <1>6 DEF BudgetInv
<1>9. \A q1, q2 \in Request : hold'[q1] # NoHold /\ hold'[q1] = hold'[q2] => q1 = q2
  BY <1>1, <1>6, <1>7 DEF BudgetInv
<1>10. \A other \in Request :
          hold'[other] \in Consumed' => TransactionFor(other)' \in payments'
  <2>1. NoHold \notin Consumed
    BY <1>4 DEF BudgetInv, Consumed
  <2> QED
    BY <1>1, <1>3, <1>6, <1>7, <2>1 DEF BudgetInv, TransactionFor
<1> QED
  BY <1>2, <1>7, <1>8, <1>9, <1>10 DEF BudgetInv

\* consume: the request has saved, so its transfer is in the payments table.
LEMMA ConsumeBudgetSafe ==
    ASSUME BudgetInv, PaidInv, NEW q \in Request, ConsumeBudget(q)
    PROVE  BudgetInv'
<1>1. /\ stage[q] = "saved" /\ hold[q] # NoHold /\ hold' = hold
      /\ payload' = payload /\ payments' = payments
      /\ \A other \in Request : stage'[other] \in {stage[other], "delivered"}
  BY DEF ConsumeBudget, SetStage, PaidInv, CarriesPayload
<1>2. Consumed' \subseteq Consumed \cup {hold[q]} /\ DOMAIN reservations' = DOMAIN reservations
  BY DEF ConsumeBudget, Consume, Finish, CanFinish, Held, Consumed
<1>3. TransactionFor(q) \in payments
  BY <1>1 DEF PaidInv, SavedIsRecorded, Saved
<1>4. \A other \in Request :
         hold'[other] \in Consumed' => TransactionFor(other)' \in payments'
  BY <1>1, <1>2, <1>3 DEF BudgetInv, TransactionFor
<1> QED
  BY <1>1, <1>2, <1>4 DEF BudgetInv

\* Every action preserves the budget's invariant.
LEMMA NextBudgetSafe ==
    ASSUME BudgetInv, PaidInv, [PaidNext]_paidVars
    PROVE  BudgetInv'
<1>0. UNCHANGED ledgerVars => NoNewConsumption
  BY LedgerConsumesNothing
<1>1. ASSUME NEW q \in Request, RequestStep(q)
      PROVE  BudgetInv'
  <2>1. ASSUME NEW r \in ReservationId, ReserveBudget(q, r)
        PROVE  BudgetInv'
    BY <2>1, ReserveBudgetSafe
  <2>2. CASE SkipBudget(q) \/ Refuse(q) \/ RefuseReplay(q) \/ ReserveAuthorization(q)
    BY <1>0, <2>2, MoveConsumesNothing
       DEF SkipBudget, Refuse, RefuseReplay, ReserveAuthorization
  <2>3. CASE RunHandler(q) \/ FacilitatorSettle(q) \/ Validate(q)
    BY <1>0, <2>3, MoveConsumesNothing DEF RunHandler, FacilitatorSettle, Validate
  <2>4. CASE Save(q) \/ SaveThrows(q) \/ DeliverWithoutConsuming(q)
    BY <1>0, <2>4, MoveConsumesNothing DEF Save, SaveThrows, DeliverWithoutConsuming
  <2>5. CASE ConsumeBudget(q)
    BY <2>5, ConsumeBudgetSafe
  <2>6. CASE ReleaseBudget(q)
    <3>1. UNCHANGED ledgerVars \/ \E r \in ReservationId : Release(r)
      BY <2>6 DEF ReleaseBudget, ReleaseOnFailure, CanFinish, Held, BudgetInv
    <3>2. NoNewConsumption
      BY <3>1, LedgerConsumesNothing
    <3> QED
      BY <2>6, <3>2, MoveConsumesNothing DEF ReleaseBudget
  <2> QED
    BY <1>1, <2>1, <2>2, <2>3, <2>4, <2>5, <2>6 DEF RequestStep
<1>2. ASSUME NEW q \in Request, NEW p \in Payload, Receive(q, p)
      PROVE  BudgetInv'
  <2>1. /\ stage[q] = "idle" /\ stage'[q] = "verified"
        /\ \A other \in Request :
              other # q => stage'[other] = stage[other] /\ payload'[other] = payload[other]
        /\ hold' = hold /\ payments' = payments /\ reservations' = reservations
    BY <1>2 DEF Receive, SetStage, PaidInv, CarriesPayload, ledgerVars
  <2>2. hold[q] = NoHold /\ NoHold \notin Consumed /\ Consumed' = Consumed
    BY <2>1, PaidRequestAssumption DEF BudgetInv, Consumed
  <2> QED
    BY <2>1, <2>2 DEF BudgetInv, TransactionFor
<1>3. ASSUME NEW x \in Process, Crash(x)
      PROVE  BudgetInv'
  <2>1. \A q \in Request : stage'[q] \in {stage[q], "crashed"}
    BY <1>3 DEF Crash
  <2> QED
    BY <1>0, <1>3, <2>1, NothingConsumed DEF Crash
<1>4. CASE LedgerAlone
  <2>1. NoNewConsumption
    BY <1>4, LedgerConsumesNothing DEF LedgerAlone
  <2> QED
    BY <1>4, <2>1, NothingConsumed DEF LedgerAlone, requestVars
<1>5. CASE UNCHANGED paidVars
  BY <1>0, <1>5, NothingConsumed DEF paidVars, requestVars
<1> QED
  BY <1>1, <1>2, <1>3, <1>4, <1>5 DEF PaidNext

\* The budget is spent only on recorded payments: no release, cleanup, retry or
\* crash, and no other request's hook, consumes what a request reserved.
THEOREM BudgetSpentOnRecordedPayments == PaidSpec => []ConsumedIsRecorded
<1>1. PaidInit => PaidInv /\ BudgetInv
  BY PaidInitSafe, PaidRequestAssumption DEF PaidInit, LedgerInit, BudgetInv, Consumed
<1>2. PaidInv /\ BudgetInv /\ [PaidNext]_paidVars => PaidInv' /\ BudgetInv'
  BY PaidNextSafe, NextBudgetSafe
<1>3. BudgetInv => ConsumedIsRecorded
  BY DEF BudgetInv, ConsumedIsRecorded, HasRow, Consumed
<1> QED
  BY <1>1, <1>2, <1>3, PTL DEF PaidSpec

=============================================================================
