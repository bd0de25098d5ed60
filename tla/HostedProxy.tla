----------------------------- MODULE HostedProxy -----------------------------
(***************************************************************************)
(* The gateway's proxy route and the two middlewares that do not wrap the  *)
(* facilitator's settle: createDynamicX402Middleware, which asks the       *)
(* catalog for the price, for the recipient, in the handler and in its     *)
(* after-settle hook, and whose hook x402 runs with its errors swallowed;  *)
(* and createMeterKitMiddleware, which settles before it serves.  Products *)
(* are published and updated between any two of these steps.               *)
(*                                                                         *)
(* One slug, which several owners and the gateway's own product may have.  *)
(* x402, the facilitator, the chain and the upstream are outside.          *)
(***************************************************************************)
EXTENDS Naturals, Sequences, FiniteSets

CONSTANTS
    Visitor,            \* requests
    Seller,             \* owners that may have a product with the slug
    Tag,                \* prices
    Transfer,           \* Solana transfers
    HostSeller, HostTag,\* the configured product of the gateway
    AnyOwner,           \* the scope of a legacy path, without an owner
    NoTerms,
    MaxServed           \* bound on the responses

ASSUME HostedAssumption ==
    /\ HostSeller \in Seller /\ HostTag \in Tag
    /\ AnyOwner \notin Seller
    /\ NoTerms \notin [payTo : Seller, tag : Tag]
    /\ "middleware" \notin Seller \cup {AnyOwner}
    /\ MaxServed \in Nat

VARIABLES
    shop,           \* the products with the slug
    visit,          \* what each request is doing
    terms,          \* what the payer signed in each transfer
    settled,        \* transfers on chain
    rows,           \* the payments table
    served          \* history: the protected responses sent, in order

hostedProxyVars == <<shop, visit, terms, settled, rows, served>>

Path == Seller \cup {AnyOwner}
Away == [phase |-> "away"]
At(v, phase) == visit[v].phase = phase
Go(v, record) == visit' = [visit EXCEPT ![v] = record]

-----------------------------------------------------------------------------
(* resolveScopedProduct.                                                   *)

Product == [seller : Seller, tag : Tag]
Configured == [seller |-> HostSeller, tag |-> HostTag]

Found(path) ==
    IF path = AnyOwner
      THEN IF Cardinality(shop) = 1 THEN shop ELSE {}     \* getUniqueBySlug
      ELSE {p \in shop : p.seller = path}                 \* getByOwnerSlug

\* a slip: the owner in the path is not looked at
ResolveSlug(path) == IF Cardinality(shop) = 1 THEN shop ELSE {Configured}

\* without a row, or with more than one, the configured product if it fits
Resolve(path) ==
    IF Found(path) # {} THEN Found(path)
    ELSE IF path \in {AnyOwner, HostSeller} THEN {Configured} ELSE {}

\* what Catalog does to the table, for this slug
PublishProduct(o, tag) ==
    /\ shop' = {p \in shop : p.seller # o} \cup {[seller |-> o, tag |-> tag]}
    /\ UNCHANGED <<visit, terms, settled, rows, served>>

-----------------------------------------------------------------------------
(* createDynamicX402Middleware around the proxy's handler.                 *)

AskPrice(v, path) ==
    /\ At(v, "away")
    /\ \E p \in Resolve(path) :
         Go(v, [phase |-> "priced", path |-> path, tag |-> p.tag])
    /\ UNCHANGED <<shop, terms, settled, rows, served>>

AskPayTo(v) ==
    /\ At(v, "priced")
    /\ \E p \in Resolve(visit[v].path) :
         Go(v, [phase |-> "quoted", path |-> visit[v].path,
                quote |-> [payTo |-> p.seller, tag |-> visit[v].tag]])
    /\ UNCHANGED <<shop, terms, settled, rows, served>>

\* the 402 answer, and the client signs a transfer for it
SignTransfer(v, t) ==
    /\ At(v, "quoted")
    /\ terms[t] = NoTerms
    /\ terms' = [terms EXCEPT ![t] = visit[v].quote]
    /\ Go(v, Away)
    /\ UNCHANGED <<shop, settled, rows, served>>

\* verify accepts a payment for exactly these requirements
VerifyPayment(v, t) ==
    /\ At(v, "quoted")
    /\ terms[t] = visit[v].quote
    /\ Go(v, [phase |-> "verified", path |-> visit[v].path, transfer |-> t])
    /\ UNCHANGED <<shop, terms, settled, rows, served>>

\* the handler runs into a buffer, before the settlement
FetchUpstream(v) ==
    /\ At(v, "verified")
    /\ \E p \in Resolve(visit[v].path) :
         Go(v, [phase |-> "fetched", path |-> visit[v].path,
                transfer |-> visit[v].transfer, from |-> p.seller])
    /\ UNCHANGED <<shop, terms, settled, rows, served>>

FacilitatorSays(t) == settled' \in {settled, settled \cup {t}}

SettleHosted(v) ==
    /\ At(v, "fetched")
    /\ FacilitatorSays(visit[v].transfer)
    /\ Go(v, [visit[v] EXCEPT !.phase = "settled"])
    /\ UNCHANGED <<shop, terms, rows, served>>

ResolveInHook(v) ==
    /\ At(v, "settled")
    /\ \E p \in Resolve(visit[v].path) :
         Go(v, [phase |-> "hooked", path |-> visit[v].path, transfer |-> visit[v].transfer,
                from |-> visit[v].from, product |-> p.seller])
    /\ UNCHANGED <<shop, terms, settled, rows, served>>

\* a slip: the validator is not awaited
OnChainSomehow(t) == TRUE

OnChain(t) == t \in settled

Unrecorded(t) == \A r \in rows : r.transfer # t

SaveInHook(v) ==
    /\ At(v, "hooked")
    /\ OnChain(visit[v].transfer)
    /\ Unrecorded(visit[v].transfer)
    /\ rows' = rows \cup {[transfer |-> visit[v].transfer, path |-> visit[v].path,
                           product |-> visit[v].product, validated |-> TRUE]}
    /\ Go(v, [visit[v] EXCEPT !.phase = "saved"])
    /\ UNCHANGED <<shop, terms, settled, served>>

\* whatever became of the hook, x402 sends the buffer
Deliver(v) ==
    /\ visit[v].phase \in {"settled", "hooked", "saved"}
    /\ Len(served) < MaxServed
    /\ served' = Append(served, [transfer |-> visit[v].transfer, path |-> visit[v].path,
                                 from |-> visit[v].from])
    /\ Go(v, Away)
    /\ UNCHANGED <<shop, terms, settled, rows>>

-----------------------------------------------------------------------------
(* createMeterKitMiddleware, for the configured product.                   *)

\* of the product the middleware was made for
Requirements == [payTo |-> HostSeller, tag |-> HostTag]

SettleFirst(v, t) ==
    /\ At(v, "away")
    /\ terms[t] = Requirements
    /\ FacilitatorSays(t)
    /\ Go(v, [phase |-> "paid", transfer |-> t])
    /\ UNCHANGED <<shop, terms, rows, served>>

LookForReplay(v) ==
    /\ At(v, "paid")
    /\ Go(v, IF Unrecorded(visit[v].transfer) THEN [visit[v] EXCEPT !.phase = "new"] ELSE Away)
    /\ UNCHANGED <<shop, terms, settled, rows, served>>

\* PAYMENT_REPLAYED when another request has saved it meanwhile
SaveAndServe(v) ==
    /\ At(v, "new")
    /\ Len(served) < MaxServed
    /\ IF Unrecorded(visit[v].transfer)
         THEN /\ rows' = rows \cup {[transfer |-> visit[v].transfer, path |-> HostSeller,
                                     product |-> HostSeller, validated |-> FALSE]}
              /\ served' = Append(served, [transfer |-> visit[v].transfer, path |-> "middleware",
                                           from |-> HostSeller])
         ELSE UNCHANGED <<rows, served>>
    /\ Go(v, Away)
    /\ UNCHANGED <<shop, terms, settled>>

-----------------------------------------------------------------------------

\* what the owner's dashboard lists: the rows of the owner's products
ListPaymentsForOwner(w) == {r \in rows : r.product = w}

\* an answer without content: an error, a refusal or the end of the process
Drop(v) ==
    /\ ~At(v, "away")
    /\ Go(v, Away)
    /\ UNCHANGED <<shop, terms, settled, rows, served>>

HostedInit ==
    /\ shop = {} /\ settled = {} /\ rows = {} /\ served = <<>>
    /\ visit = [v \in Visitor |-> Away]
    /\ terms = [t \in Transfer |-> NoTerms]

HostedNext ==
    \/ \E o \in Seller, tag \in Tag : PublishProduct(o, tag)
    \/ \E v \in Visitor :
         \/ \E path \in Path : AskPrice(v, path)
         \/ AskPayTo(v)
         \/ \E t \in Transfer : SignTransfer(v, t) \/ VerifyPayment(v, t) \/ SettleFirst(v, t)
         \/ FetchUpstream(v)
         \/ SettleHosted(v)
         \/ ResolveInHook(v)
         \/ SaveInHook(v)
         \/ Deliver(v)
         \/ LookForReplay(v)
         \/ SaveAndServe(v)
         \/ Drop(v)

HostedSpec == HostedInit /\ [][HostedNext]_hostedProxyVars

-----------------------------------------------------------------------------
(* Properties.                                                             *)

\* On a path that names its owner, what is served and what an owner's list shows
\* belong to the owner who was paid, however the catalog changes during the request.
ScopedPaymentsStayWithOwner ==
    /\ \A w \in Seller : \A r \in ListPaymentsForOwner(w) :
         r.path \in Seller => {r.path, terms[r.transfer].payTo} = {w}
    /\ \A i \in DOMAIN served :
         served[i].path \in Seller =>
            {served[i].from, terms[served[i].transfer].payTo} = {served[i].path}

\* What the dynamic middleware records was seen on chain; a transfer has one row,
\* whichever of the two middlewares wrote it; and the middleware that settles first
\* serves it once, however requests race between its look and its save.
RowsAreProven ==
    /\ \A r \in rows : r.validated => r.transfer \in settled
    /\ \A r, s \in rows : r.transfer = s.transfer => r = s
    /\ \A i, j \in DOMAIN served :
         (served[i].path = "middleware" /\ served[j] = served[i]) => i = j

\* A protected response follows the second validation of its transfer
\* (docs/en/architecture.md).
ServedIsValidated ==
    \A i \in DOMAIN served :
        served[i].path \in Path =>
            \E r \in rows : r.validated /\ r.transfer = served[i].transfer

=============================================================================
