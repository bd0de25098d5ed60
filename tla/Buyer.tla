-------------------------------- MODULE Buyer --------------------------------
(***************************************************************************)
(* Buyers with a budget.  A devnet payment client (examples/client) shares *)
(* one session limit among concurrent calls, which it queues; a pay        *)
(* command (packages/cli) has a client of its own, makes one call and may  *)
(* replay its payment; a proof is a payment that is signed and kept.  An   *)
(* x402 client answers 402 by filtering the offers, signing one, charging  *)
(* it to the session and sending the request again.  The seller is         *)
(* outside: it answers anything.                                           *)
(***************************************************************************)
EXTENDS Naturals, Sequences, FiniteSets

CONSTANTS
    Call,           \* calls of fetch on one client
    Command,        \* pay commands
    Proof,          \* calls of createDevnetPaymentProof
    Amount,         \* amounts a seller may ask for
    MaxPerRequest, MaxSession,
    AllowSubpaths,  \* the client's resource prefix covers the paths below it
    Unasked         \* no amount yet

ASSUME BuyerAssumption ==
    /\ Amount \subseteq Nat /\ MaxPerRequest \in Nat /\ MaxSession \in Nat
    /\ AllowSubpaths \in BOOLEAN /\ Unasked \notin Nat
    /\ Call \cap Command = {} /\ (Call \cup Command) \cap Proof = {}

VARIABLES
    step,           \* where each buyer is
    pending,        \* the queue of the client's calls
    authorized,     \* the client's session: what has been signed
    amount,         \* the amount a buyer signs
    options,        \* of each pay command
    taken           \* outside: how often the seller served a buyer's payment

buyerVars == <<step, pending, authorized, amount, options, taken>>

Buyers == Call \cup Command \cup Proof
Stands(b, s) == step[b] = s
Moves(b, s) == step' = [step EXCEPT ![b] = s]

\* network, mint and recipient as expected, or not; a requirement may name
\* its own resource
Offers == [expected : BOOLEAN, amount : Amount, elsewhere : BOOLEAN]

\* the resource of the challenge: its origin and credentials, and its path
\* after trailing slashes are dropped
Resources == [origin : BOOLEAN, path : {"same", "below", "other"}]

Option == [request : Amount, session : Amount, replay : BOOLEAN]

IsResourceAllowed(u, subpaths) ==
    u.origin /\ (u.path = "same" \/ (subpaths /\ u.path = "below"))

MayUse(b, o) ==
    /\ o.expected
    /\ CASE b \in Call -> o.amount <= MaxPerRequest /\ authorized + o.amount <= MaxSession
         [] b \in Command -> /\ ~o.elsewhere
                             /\ o.amount <= options[b].request
                             /\ o.amount <= options[b].session
         [] b \in Proof -> o.amount <= MaxPerRequest

-----------------------------------------------------------------------------

\* budgetedFetch
CallFetch(c) ==
    /\ Stands(c, "idle")
    /\ Moves(c, "queued")
    /\ pending' = Append(pending, c)
    /\ UNCHANGED <<authorized, amount, options, taken>>

\* a regular file, private, of 64 bytes
ReadKeypairFile(p, found) == found \/ Moves(p, "failed")

\* payEndpoint up to its request
StartCommand(p, o) ==
    /\ Stands(p, "idle")
    /\ options' = [options EXCEPT ![p] = o]
    /\ IF o.session < o.request
         THEN Moves(p, "failed")
         ELSE ReadKeypairFile(p, Moves(p, "asking"))
    /\ UNCHANGED <<pending, authorized, amount, taken>>

StartProof(q) ==
    /\ Stands(q, "idle") /\ Moves(q, "asking")
    /\ UNCHANGED <<pending, authorized, amount, options, taken>>

\* a slip: calls run as they come
AtOnce(c) == TRUE

IsTurnOf(c) == pending # <<>> /\ Head(pending) = c

TakeTurn(c) ==
    /\ Stands(c, "queued") /\ IsTurnOf(c)
    /\ Moves(c, "asking")
    /\ UNCHANGED <<pending, authorized, amount, options, taken>>

\* the call at the head has ended, either way, and lets the next one go
Leaves(b) == pending' = IF b \in Call THEN Tail(pending) ELSE pending

\* 402: the policies filter, the hook checks the resource; of several offers
\* only the one that is chosen matters
SelectOffer(b, offer, resource) ==
    /\ Stands(b, "asking")
    /\ IF MayUse(b, offer) /\ IsResourceAllowed(resource, AllowSubpaths /\ b \notin Command)
         THEN /\ amount' = [amount EXCEPT ![b] = offer.amount]
              /\ Moves(b, "signing") /\ UNCHANGED pending
         ELSE Moves(b, "failed") /\ Leaves(b) /\ UNCHANGED amount
    /\ UNCHANGED <<authorized, options, taken>>

\* another status, or none
AnswerUnpaid(b) ==
    /\ Stands(b, "asking")
    /\ Moves(b, IF b \in Call THEN "returned" ELSE "failed") \/ Moves(b, "failed")
    /\ Leaves(b)
    /\ UNCHANGED <<authorized, amount, options, taken>>

\* the payload is created, which asks the RPC, and charged to the session
CreatePayment(b) ==
    /\ Stands(b, "signing")
    /\ \/ /\ Moves(b, "paying") /\ UNCHANGED pending
          /\ authorized' = authorized + (IF b \in Call THEN amount[b] ELSE 0)
       \/ Moves(b, "failed") /\ Leaves(b) /\ UNCHANGED authorized
    /\ UNCHANGED <<amount, options, taken>>

\* PAYMENT-RESPONSE is there and well-formed, or not
ParsePaymentResponse(p, parsed) == parsed \/ Moves(p, "failed")

\* the request with the payment; the seller may have served it when the answer
\* is an error or is lost
ResendPaid(b) ==
    /\ Stands(b, "paying") /\ b \notin Proof
    /\ \/ /\ taken' = [taken EXCEPT ![b] = @ + 1]
          /\ IF b \in Call
               THEN Moves(b, "returned")
               ELSE ParsePaymentResponse(b,
                      Moves(b, IF options[b].replay THEN "replaying" ELSE "reported"))
       \/ Moves(b, "failed") /\ taken' \in {taken, [taken EXCEPT ![b] = @ + 1]}
    /\ Leaves(b)
    /\ UNCHANGED <<authorized, amount, options>>

\* captureFetch keeps the payment to itself
CaptureProof(q) ==
    /\ Stands(q, "paying") /\ q \in Proof
    /\ Moves(q, "returned")
    /\ UNCHANGED <<pending, authorized, amount, options, taken>>

Replay(p) ==
    /\ Stands(p, "replaying")
    /\ \E served \in BOOLEAN :
         /\ taken' = [taken EXCEPT ![p] = @ + (IF served THEN 1 ELSE 0)]
         /\ Moves(p, IF served THEN "failed" ELSE "reported")
    /\ UNCHANGED <<pending, authorized, amount, options>>

BuyerInit ==
    /\ step = [b \in Buyers |-> "idle"]
    /\ pending = <<>> /\ authorized = 0
    /\ amount = [b \in Buyers |-> Unasked]
    /\ options = [p \in Command |-> Unasked]
    /\ taken = [b \in Buyers |-> 0]

BuyerNext ==
    \/ \E c \in Call : CallFetch(c) \/ TakeTurn(c)
    \/ \E p \in Command : Replay(p) \/ \E o \in Option : StartCommand(p, o)
    \/ \E q \in Proof : StartProof(q) \/ CaptureProof(q)
    \/ \E b \in Buyers :
         \/ \E o \in Offers, u \in Resources : SelectOffer(b, o, u)
         \/ AnswerUnpaid(b) \/ CreatePayment(b) \/ ResendPaid(b)

BuyerSpec == BuyerInit /\ [][BuyerNext]_buyerVars

-----------------------------------------------------------------------------
(* Properties.                                                             *)

\* the payment is with the buyer, or with the seller
Signed(b) == step[b] \in {"paying", "replaying", "reported"} \/ taken[b] > 0

\* what buyers pay, unit by unit
Units(B) == UNION {{b} \X (1 .. amount[b]) : b \in {c \in B : Signed(c)}}

\* However its calls overlap and fail, and although the budget is checked before
\* the payment is signed and charged after it, the payments one client has signed
\* stay within its session and request limits, a command's within its own, and a
\* captured proof never reaches the seller.
SpendStaysInBudget ==
    /\ Cardinality(Units(Call)) <= MaxSession
    /\ \A c \in Call : Signed(c) => amount[c] <= MaxPerRequest
    /\ \A p \in Command : Signed(p) => amount[p] <= options[p].request
    /\ \A q \in Proof : taken[q] = 0

=============================================================================
