---------------------------- MODULE PaidRequest ----------------------------
(***************************************************************************)
(* The life of a paid HTTP request in createMeterKitResourceServer, over   *)
(* the allowance ledger: the hooks it hangs on the x402 resource server,   *)
(* the durable settle it wraps around the facilitator, and the agent       *)
(* budget guard.  Every await is a point where other requests, the ledger's*)
(* cleanup, the owner and the clock may act.                               *)
(*                                                                         *)
(* x402 itself, the facilitator, the chain and the RPC are outside the     *)
(* repository.  x402 verifies, runs the handler into a buffer, settles and *)
(* sends the buffer; it swallows what an after-settle hook throws.         *)
(***************************************************************************)
EXTENDS AllowanceLedger

CONSTANTS
    Request,            \* HTTP requests that carry a payment
    Process,            \* server processes (replicas, restarts)
    RunsAt,             \* the process each request reaches
    Budgeted,           \* the requests whose server has an agentBudget
    Payload,            \* payment payloads, by their JSON text
    KeyOf,              \* the payload's canonical fingerprint: payment_key
    Transaction,        \* Solana transfers, by signature
    TransactionOf,      \* the transfer a payload carries
    Price,              \* the product's price in atomic units
    View,               \* the authorization snapshot the guard was built with
    Store,              \* the scope of reservations made in the payment store
    ReservesInStore,    \* the payment store has reserveAuthorization
    NoPayload,
    NoHold

ASSUME PaidRequestAssumption ==
    /\ RunsAt \in [Request -> Process]
    /\ Budgeted \subseteq Request
    /\ KeyOf \in [Payload -> PaymentKey]
    /\ TransactionOf \in [Payload -> Transaction]
    /\ Price \in Amount
    /\ View \in [ address : Address, status : AllowanceStatus, spent : Nat,
                  max : Amount, perRequest : Amount, expiresAt : Time ]
    /\ ReservesInStore \in BOOLEAN
    /\ Store \notin Process
    /\ NoHold \notin ReservationId
    /\ NoPayload \notin Payload

VARIABLES
    stage,              \* where each request is
    payload,            \* the payment it carries
    hold,               \* budgetReservations: its reservation in the ledger
    authorized,         \* payloads reserved, by the scope that remembers them
    handled,            \* requests whose protected handler has run
    chain,              \* transfers on chain
    payments            \* signatures in the payments table

requestVars == <<stage, payload, hold, authorized, handled>>
paidVars == <<requestVars, chain, payments, ledgerVars>>

InFlight ==
    {"verified", "budgeted", "authorized", "handled", "settled", "validated",
     "saved", "releasing"}

Stage == {"idle", "delivered", "rejected", "crashed"} \cup InFlight

SetStage(q, s) == stage' = [stage EXCEPT ![q] = s]

TransactionFor(q) == TransactionOf[payload[q]]

-----------------------------------------------------------------------------
(* onAfterVerify.                                                          *)

\* a request arrives and the facilitator's verify accepts its payload
Receive(q, p) ==
    /\ stage[q] = "idle"
    /\ SetStage(q, "verified")
    /\ payload' = [payload EXCEPT ![q] = p]
    /\ UNCHANGED <<hold, authorized, handled, chain, payments, ledgerVars>>

\* AgentBudgetGuard.reserve: its own checks read the snapshot, never the ledger
GuardAccepts ==
    /\ View.status = "active"
    /\ View.expiresAt > now
    /\ Price <= View.perRequest
    /\ View.spent + Price <= View.max

\* the earlier of the snapshot's expiry and five minutes from now
HoldExpiry ==
    IF View.expiresAt < now + MaxHold THEN View.expiresAt ELSE now + MaxHold

ReserveBudget(q, r) ==
    /\ stage[q] = "verified"
    /\ q \in Budgeted
    /\ GuardAccepts
    /\ \A other \in Request : hold[other] # r        \* randomUUID
    /\ Reserve(r, View.address, KeyOf[payload[q]], Price, HoldExpiry)
    /\ \/ SetStage(q, "budgeted") /\ hold' = [hold EXCEPT ![q] = r]
       \/ SetStage(q, "rejected") /\ UNCHANGED hold   \* the COMMIT's answer was lost
    /\ UNCHANGED <<payload, authorized, handled, chain, payments>>

SkipBudget(q) ==
    /\ stage[q] = "verified"
    /\ q \notin Budgeted
    /\ SetStage(q, "budgeted")
    /\ UNCHANGED <<payload, hold, authorized, handled, chain, payments, ledgerVars>>

\* a policy denies, or the budget does: any error of the ledger is a denial
Refuse(q) ==
    /\ stage[q] = "verified"
    /\ SetStage(q, "rejected")
    /\ UNCHANGED <<payload, hold, authorized, handled, chain, payments, ledgerVars>>

Scope(q) == IF ReservesInStore THEN Store ELSE RunsAt[q]

\* a slip: the process's own set is consulted although the store is written
UnreservedHere(q) == <<RunsAt[q], payload[q]>> \notin authorized

Unreserved(q) == <<Scope(q), payload[q]>> \notin authorized

ReserveAuthorization(q) ==
    /\ stage[q] = "budgeted"
    /\ Unreserved(q)
    /\ authorized' = authorized \cup {<<Scope(q), payload[q]>>}
    /\ SetStage(q, "authorized")
    /\ UNCHANGED <<payload, hold, handled, chain, payments, ledgerVars>>

\* the abort that x402 turns into a refusal; no hook of this server runs then
RefuseReplay(q) ==
    /\ stage[q] = "budgeted"
    /\ ~Unreserved(q)
    /\ SetStage(q, "rejected")
    /\ UNCHANGED <<payload, hold, authorized, handled, chain, payments, ledgerVars>>

-----------------------------------------------------------------------------
(* The protected handler, into x402's buffer.                              *)

RunHandler(q) ==
    /\ stage[q] = "authorized"
    /\ handled' = handled \cup {q}
    /\ \/ SetStage(q, "handled")
       \/ SetStage(q, "releasing")     \* it failed: onVerifiedPaymentCanceled
    /\ UNCHANGED <<payload, hold, authorized, chain, payments, ledgerVars>>

-----------------------------------------------------------------------------
(* durableFacilitator.settle.                                              *)

\* The facilitator's answer and what happened on chain: success is reported
\* for a transfer that is there, or is not there (yet); an exception says
\* nothing about the chain; a refusal has moved nothing.  Whether a refused
\* result reaches onSettleFailure is x402's choice.
FacilitatorSettle(q) ==
    /\ stage[q] = "handled"
    /\ \/ /\ chain' \in {chain, chain \cup {TransactionFor(q)}}
          /\ \/ SetStage(q, "settled")
             \/ SetStage(q, "releasing")
       \/ /\ SetStage(q, "rejected")
          /\ UNCHANGED chain
    /\ UNCHANGED <<payload, hold, authorized, handled, payments, ledgerVars>>

\* a slip: the validator is not awaited
SeenSomehow(q) == TRUE

\* getTransaction at commitment confirmed finds the transfer and it matches
SeenOnChain(q) == TransactionFor(q) \in chain

\* validate may also throw for a transfer that is there: the RPC is down, or
\* the node has not seen it in thirty attempts
Validate(q) ==
    /\ stage[q] = "settled"
    /\ \/ SeenOnChain(q) /\ SetStage(q, "validated")
       \/ SetStage(q, "releasing")
    /\ UNCHANGED <<payload, hold, authorized, handled, chain, payments, ledgerVars>>

\* a slip: ON CONFLICT DO NOTHING in place of the unique violation
RecordedBySomeoneElse(q) == TRUE

\* UNIQUE (network, signature)
NotRecorded(q) == TransactionFor(q) \notin payments

Save(q) ==
    /\ stage[q] = "validated"
    /\ NotRecorded(q)
    /\ payments' = payments \cup {TransactionFor(q)}
    /\ \/ SetStage(q, "saved")
       \/ SetStage(q, "releasing")     \* committed, but the answer was lost
    /\ UNCHANGED <<payload, hold, authorized, handled, chain, ledgerVars>>

\* PAYMENT_REPLAYED, or the database did not take the row
SaveThrows(q) ==
    /\ stage[q] = "validated"
    /\ SetStage(q, "releasing")
    /\ UNCHANGED <<payload, hold, authorized, handled, chain, payments, ledgerVars>>

-----------------------------------------------------------------------------
(* The hooks after settlement.                                             *)

\* onAfterSettle: consume, and the response goes out
ConsumeBudget(q) ==
    /\ stage[q] = "saved"
    /\ hold[q] # NoHold
    /\ Consume(hold[q])
    /\ SetStage(q, "delivered")
    /\ UNCHANGED <<payload, hold, authorized, handled, chain, payments>>

\* there is no hold, or consume returned false or threw: the hook's exception
\* is swallowed and the response goes out all the same
DeliverWithoutConsuming(q) ==
    /\ stage[q] = "saved"
    /\ SetStage(q, "delivered")
    /\ UNCHANGED <<payload, hold, authorized, handled, chain, payments, ledgerVars>>

\* a slip: the failure hook calls consume
ConsumeOnFailure(q) ==
    hold[q] # NoHold /\ CanFinish(hold[q]) /\ Consume(hold[q])

ReleaseOnFailure(q) ==
    hold[q] # NoHold /\ CanFinish(hold[q]) /\ Release(hold[q])

\* onSettleFailure and onVerifiedPaymentCanceled: release what is still held;
\* a release that fails in the database leaves it to the cleanup
ReleaseBudget(q) ==
    /\ stage[q] = "releasing"
    /\ \/ ReleaseOnFailure(q)
       \/ UNCHANGED ledgerVars
    /\ SetStage(q, "rejected")
    /\ UNCHANGED <<payload, hold, authorized, handled, chain, payments>>

\* a process dies with its requests, its WeakMaps and its local reservations
Crash(x) ==
    /\ \E q \in Request : RunsAt[q] = x /\ stage[q] \in InFlight
    /\ stage' =
         [q \in Request |->
            IF RunsAt[q] = x /\ stage[q] \in InFlight THEN "crashed" ELSE stage[q]]
    /\ authorized' = {e \in authorized : e[1] # x}
    /\ UNCHANGED <<payload, hold, handled, chain, payments, ledgerVars>>

-----------------------------------------------------------------------------

PaidInit ==
    /\ LedgerInit
    /\ stage = [q \in Request |-> "idle"]
    /\ payload = [q \in Request |-> NoPayload]
    /\ hold = [q \in Request |-> NoHold]
    /\ authorized = {}
    /\ handled = {}
    /\ chain = {}
    /\ payments = {}

RequestStep(q) ==
    \/ \E r \in ReservationId : ReserveBudget(q, r)
    \/ SkipBudget(q)
    \/ Refuse(q)
    \/ ReserveAuthorization(q)
    \/ RefuseReplay(q)
    \/ RunHandler(q)
    \/ FacilitatorSettle(q)
    \/ Validate(q)
    \/ Save(q)
    \/ SaveThrows(q)
    \/ ConsumeBudget(q)
    \/ DeliverWithoutConsuming(q)
    \/ ReleaseBudget(q)

LedgerAlone ==
    /\ OwnerStep \/ CleanupExpired \/ Tick
    /\ UNCHANGED <<requestVars, chain, payments>>

PaidNext ==
    \/ \E q \in Request : RequestStep(q) \/ \E p \in Payload : Receive(q, p)
    \/ \E x \in Process : Crash(x)
    \/ LedgerAlone

PaidSpec == PaidInit /\ [][PaidNext]_paidVars

(* Every await of a request resolves, by an answer or an error; the clock  *)
(* and the hourly cleanup go on whatever requests do.  Nothing makes a     *)
(* request arrive or a process crash.                                      *)
FairPaidSpec ==
    /\ PaidSpec
    /\ \A q \in Request : WF_paidVars(RequestStep(q))
    /\ WF_paidVars(Tick /\ UNCHANGED <<requestVars, chain, payments>>)
    /\ WF_paidVars(CleanupExpired /\ UNCHANGED <<requestVars, chain, payments>>)

-----------------------------------------------------------------------------
(* Properties.                                                             *)

Ended(q) == stage[q] \in {"delivered", "rejected", "crashed"}

Delivered == {q \in Request : stage[q] = "delivered"}

\* the requests a transfer paid for
Buyers(t) == {q \in Delivered : TransactionFor(q) = t}

HasRow(q) == hold[q] \in DOMAIN reservations

\* Types, and a hold is in the request's WeakMap only when it has a budget.
PaidTypeOK ==
    /\ LedgerTypeOK
    /\ stage \in [Request -> Stage]
    /\ payload \in [Request -> Payload \cup {NoPayload}]
    /\ hold \in [Request -> ReservationId \cup {NoHold}]
    /\ \A q \in Request \ Budgeted : hold[q] = NoHold
    /\ authorized \subseteq ({Store} \cup Process) \X Payload
    /\ handled \subseteq Request
    /\ chain \subseteq Transaction
    /\ payments \subseteq Transaction

Deliveries == [t \in Transaction |-> Cardinality(Buyers(t))]

Promise == INSTANCE PaymentPromise WITH paid <- chain, deliveries <- Deliveries

\* The middleware implements the abstract promise: concurrent requests, other
\* encodings of one transfer, crashed replicas, a facilitator that reports a
\* transfer that is not there, and lost answers never sell a transfer twice or
\* deliver before it is on chain.
PromiseKept == Promise!PromiseSpec

\* A budget is only spent on a payment whose row is in the payments table:
\* "consume tras settlement durable" (docs/security.md:38).
ConsumedIsRecorded ==
    \A q \in Request :
        HasRow(q) /\ reservations[hold[q]].status = "consumed" =>
            TransactionFor(q) \in payments

\* With a store that reserves authorizations the protected handler runs at most
\* once for a payload, on any number of processes and across their restarts.
HandlerOncePerPayload ==
    ReservesInStore =>
        \A q1, q2 \in handled : payload[q1] = payload[q2] => q1 = q2

\* The capacity a request in flight holds stays its own until the hold expires:
\* nobody else's consume, release or cleanup takes it.
HeldWhileInFlight ==
    \A q \in Request :
        stage[q] \in InFlight /\ HasRow(q) =>
            \/ hold[q] \in Held
            \/ reservations[hold[q]].expiresAt <= now

\* A request that took capacity ends, and the capacity it took is not held for
\* ever: not by a crash, a lost answer, a refused replay or a swallowed error.
RequestsEndUnheld ==
    \A q \in Request : (stage[q] = "budgeted") ~> (Ended(q) /\ hold[q] \notin Held)

\* docs/architecture.md:5-6: "una respuesta ambigua permanece reservada y
\* recuperable".  A transfer that is on chain keeps its unexpired hold.
AmbiguousStaysReserved ==
    \A q \in Request :
        /\ HasRow(q)
        /\ TransactionFor(q) \in chain
        /\ reservations[hold[q]].status = "released"
        => reservations[hold[q]].expiresAt <= now

\* specs/002 contracts/agent-authorization.md:32: "`spentAtomic <=
\* aggregateLimitAtomic` for accepted operations."
AcceptedWithinLimit ==
    \A a \in DOMAIN allowances :
        Cardinality({q \in Delivered : HasRow(q) /\ reservations[hold[q]].address = a}) * Price
            <= allowances[a].max

=============================================================================
