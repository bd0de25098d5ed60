------------------------- MODULE AllowanceLifecycle -------------------------
(***************************************************************************)
(* An authorization between the chain and the ledger: the owner approves   *)
(* and revokes a delegation on chain, and tells the gateway about each by  *)
(* posting the transaction's signature.  A handler first asks the RPC      *)
(* whether the signature proves the claim and writes the ledger after that *)
(* answer, so other handlers run between the two; and a client that lost   *)
(* the response posts again.  The revocation handler's two steps are one   *)
(* here: what its RPC call reads, a finalized transaction, never changes.  *)
(*                                                                         *)
(* Wallets, the subscriptions program and the RPC are outside src/.        *)
(***************************************************************************)
EXTENDS AllowanceLedger

VARIABLES
    finalized,      \* finalized transactions of the subscriptions program
    live,           \* delegation accounts that exist on chain
    posted,         \* POST /v1/allowances handlers past their verification
    observed        \* approvals whose revocation the gateway has recorded

lifecycleVars == <<finalized, live, posted, observed, ledgerVars>>

\* a revocation carries the signature of the approval it ends: every account
\* is approved at most once, so the pair names the transaction
Tx(kind, s, a, w) == [kind |-> kind, approval |-> s, address |-> a, owner |-> w]

Approve(a, w, s) ==
    /\ a \notin live
    /\ \A tx \in finalized : tx.approval # s
    /\ finalized' = finalized \cup {Tx("approve", s, a, w)}
    /\ live' = live \cup {a}
    /\ UNCHANGED <<posted, observed, ledgerVars>>

RevokeOnChain(tx) ==
    /\ tx.kind = "approve"
    /\ tx.address \in live
    /\ \A other \in finalized :
         other.approval = tx.approval => other.kind = "approve"
    /\ finalized' = finalized \cup {[tx EXCEPT !.kind = "revoke"]}
    /\ live' = live \ {tx.address}
    /\ UNCHANGED <<posted, observed, ledgerVars>>

-----------------------------------------------------------------------------
(* POST /v1/allowances.                                                    *)

\* a slip: the account keys are searched for the account but not for its owner
AccountIsEnough(tx, a, w) == tx.kind = "approve" /\ tx.address = a

\* the finalized transaction's account keys include the owner, the account, the
\* delegate, the mint and the program: only an approval has them all.  Whether
\* the account still exists is not asked.
AllowanceReceiptVerified(tx, a, w) ==
    tx.kind = "approve" /\ tx.address = a /\ tx.owner = w

VerifyPost(tx, a, w, max, expiry) ==
    /\ expiry > now
    /\ AllowanceReceiptVerified(tx, a, w)
    /\ posted' = posted \cup
         {[ address |-> a, owner |-> w, approval |-> tx.approval,
            max |-> max, expiresAt |-> expiry ]}
    /\ UNCHANGED <<finalized, live, observed, ledgerVars>>

\* saveAllowance with perRequestAtomic = maxAtomic; the CHECK constraint or
\* another owner's row makes it fail, and the handler ends either way
FinishPost(post) ==
    /\ \/ SaveAllowance(post.address, post.owner, post.approval,
                        post.max, post.max, post.expiresAt)
       \/ UNCHANGED ledgerVars
    /\ posted' = posted \ {post}
    /\ UNCHANGED <<finalized, live, observed>>

-----------------------------------------------------------------------------
(* POST /v1/allowances/:address/revoked.                                   *)

\* the keys asked for are the owner, the account and the program
RevocationReceiptVerified(tx, a, w) == tx.address = a /\ tx.owner = w

PostRevoked(tx, a, w) ==
    /\ RevocationReceiptVerified(tx, a, w)
    /\ RevokeAllowance(a, w)
    /\ observed' = observed \cup {allowances[a].signature}
    /\ UNCHANGED <<finalized, live, posted>>

\* GET /v1/allowances/export, for the wallet of the session
ExportHostedAllowanceMetadata(w) ==
    {a \in DOMAIN allowances : allowances[a].owner = w}

\* DELETE /v1/allowances/:address/metadata, for the wallet of the session; 404
\* when there is no row of that wallet
DeleteHostedAllowanceMetadata(a, w) == DeleteAllowanceMetadata(a, w)

-----------------------------------------------------------------------------

LifecycleInit ==
    /\ LedgerInit
    /\ finalized = {}
    /\ live = {}
    /\ posted = {}
    /\ observed = {}

ChainStep ==
    \/ \E a \in Address, w \in Wallet, s \in Approval : Approve(a, w, s)
    \/ \E tx \in finalized : RevokeOnChain(tx)

GatewayStep ==
    \/ \E tx \in finalized, a \in Address, w \in Wallet :
         \/ \E max \in Amount, expiry \in Time : VerifyPost(tx, a, w, max, expiry)
         \/ PostRevoked(tx, a, w)
    \/ \E post \in posted : FinishPost(post)

LedgerAlone ==
    /\ \/ \E a \in Address, w \in Wallet :
             \/ DeleteHostedAllowanceMetadata(a, w)
             \/ BeginAllowanceRevocation(a, w)
       \/ SpendStep
       \/ CleanupExpired
       \/ Tick
    /\ UNCHANGED <<finalized, live, posted, observed>>

LifecycleNext == ChainStep \/ GatewayStep \/ LedgerAlone

LifecycleSpec == LifecycleInit /\ [][LifecycleNext]_lifecycleVars

-----------------------------------------------------------------------------
(* Properties.                                                             *)

\* What a wallet lists or exports, through every save, retry, revocation and
\* deletion, are accounts it approved itself, each in the transaction the row names.
RowsAreApproved ==
    \A w \in Wallet : \A a \in ExportHostedAllowanceMetadata(w) :
        Tx("approve", allowances[a].signature, a, w) \in finalized

\* specs/002 contracts/agent-authorization.md:27-28: "Once revocation is
\* observed, all later spend attempts fail before protected execution."
ObservedRevocationHolds ==
    [][\A r \in DOMAIN reservations' \ DOMAIN reservations :
          LET a == reservations'[r].address
          IN  ~ /\ allowances[a].signature \in observed
                /\ Tx("revoke", allowances[a].signature, a, allowances[a].owner)
                     \in finalized]_lifecycleVars

=============================================================================
