------------------------------- MODULE Catalog -------------------------------
(***************************************************************************)
(* POST /v1/products: an authorized request creates or updates a product   *)
(* of its wallet, once per idempotency key.  The transaction either finds  *)
(* its key free and commits key, product and response together, or finds   *)
(* the key taken and then reads what the key holds, a statement later.     *)
(* A second transaction with the same key waits for the first one to end.  *)
(* One slug stands for each slug of a wallet: they do not touch each other.*)
(***************************************************************************)
EXTENDS WalletAuth

CONSTANTS
    KeyLife,        \* how long an idempotency key is kept
    Merchant,       \* the wallet of the gateway's own product
    OwnVersion,     \* what its configuration says
    NoProduct,
    MaxWrites       \* bound on the writes of requests

ASSUME CatalogAssumption ==
    /\ Merchant \in Account /\ OwnVersion \in Version /\ NoProduct \notin Version
    /\ {KeyLife, MaxWrites} \subseteq Nat

VARIABLES
    products,       \* the products table: what each wallet's slug says
    keys,           \* the idempotency_keys table
    writes,         \* history: the product writes of requests, in order
    answers         \* history: the 201 responses, with their requests

catalogVars == <<authVars, products, keys, writes, answers>>

-----------------------------------------------------------------------------

KeyRow(k) == {row \in keys : row.key = k}

\* a slip: the retry is executed again
RetryRunsAgain(k) == TRUE

\* INSERT ... ON CONFLICT (key) DO NOTHING: a row past its expiry still counts
KeyFree(k) == KeyRow(k) = {}

CreateProduct(h) ==
    /\ In(h, "authorized")
    /\ serving[h].request.purpose \in Order
    /\ LET r == serving[h].request
           o == r.purpose
           body == [owner |-> r.account, version |-> o.version]
       IN  /\ KeyFree(o.key)
           /\ Len(writes) < MaxWrites
           /\ keys' = keys \cup {[key |-> o.key, request |-> r, body |-> body,
                                  expires |-> authTime + KeyLife]}
           /\ products' = [products EXCEPT ![r.account] = o.version]
           /\ writes' = Append(writes, [key |-> o.key, at |-> authTime])
           /\ answers' = answers \cup {[request |-> r, body |-> body]}
    /\ Set(h, Idle)
    /\ UNCHANGED <<authTime, challenges, sessions, issued, signed, grants>>

KeyTaken(h) ==
    /\ In(h, "authorized")
    /\ serving[h].request.purpose \in Order
    /\ ~KeyFree(serving[h].request.purpose.key)
    /\ Set(h, [serving[h] EXCEPT !.phase = "conflicted"])
    /\ UNCHANGED <<authTime, challenges, sessions, issued, signed, grants>>
    /\ UNCHANGED <<products, keys, writes, answers>>

\* a slip: whoever presents the key gets its response
AnyHash(row, r) == TRUE

SameHash(row, r) == row.request = r

\* SELECT ... FOR UPDATE: without a row of that hash the answer is 409
ReplayResponse(h) ==
    /\ In(h, "conflicted")
    /\ LET r == serving[h].request
           same == {row \in KeyRow(r.purpose.key) : SameHash(row, r)}
       IN  answers' = answers \cup {[request |-> r, body |-> row.body] : row \in same}
    /\ Set(h, Idle)
    /\ UNCHANGED <<authTime, challenges, sessions, issued, signed, grants>>
    /\ UNCHANGED <<products, keys, writes>>

ExpiredKeys == {row \in keys : row.expires <= authTime}

CleanupCatalog ==
    /\ SweepAuth
    /\ keys' = keys \ ExpiredKeys
    /\ UNCHANGED <<products, writes, answers>>

\* start(): every start of a gateway writes the configured product
StartGateway ==
    /\ products' = [products EXCEPT ![Merchant] = OwnVersion]
    /\ UNCHANGED <<authVars, keys, writes, answers>>

CatalogInit ==
    /\ AuthInit
    /\ products = [a \in Account |-> NoProduct]
    /\ keys = {} /\ answers = {}
    /\ writes = <<>>

CatalogNext ==
    \/ /\ \/ \E h \in Handler : AuthStep(h) \/ GiveUp(h)
          \/ \E n \in Nonce : Sign(n)
          \/ PassAuthTime
       /\ UNCHANGED <<products, keys, writes, answers>>
    \/ \E h \in Handler : CreateProduct(h) \/ KeyTaken(h) \/ ReplayResponse(h)
    \/ CleanupCatalog
    \/ StartGateway

CatalogSpec == CatalogInit /\ [][CatalogNext]_catalogVars

-----------------------------------------------------------------------------
(* Properties.                                                             *)

\* A key writes once while it lives, however its requests are repeated, raced or
\* cut off by a crash: only after its expiry and a cleanup may it write again.
WritesPerKeyAreApart ==
    \A i, j \in DOMAIN writes :
        (i < j /\ writes[i].key = writes[j].key) => writes[j].at >= writes[i].at + KeyLife

\* A 201 response, replayed or not, describes the product that its own request
\* asked for: a key that another wallet or another body took first answers 409.
AnswersMatchRequests ==
    \A a \in answers :
        a.body = [owner |-> a.request.account, version |-> a.request.purpose.version]

=============================================================================
