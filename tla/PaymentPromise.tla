--------------------------- MODULE PaymentPromise ---------------------------
(***************************************************************************)
(* What a paid endpoint promises its buyers and its seller, without its    *)
(* middleware, its stores or its failures: a transfer is made once, and it *)
(* buys at most one response, never before it is made.                     *)
(***************************************************************************)
EXTENDS Integers

CONSTANT Transaction    \* Solana transfers, named by their signatures

VARIABLES
    paid,               \* the transfers that are on chain
    deliveries          \* how many protected responses each of them bought

promiseVars == <<paid, deliveries>>

PromiseInit ==
    /\ paid = {}
    /\ deliveries = [t \in Transaction |-> 0]

Pay(t) ==
    /\ t \notin paid
    /\ paid' = paid \cup {t}
    /\ UNCHANGED deliveries

Deliver(t) ==
    /\ t \in paid
    /\ deliveries[t] = 0
    /\ deliveries' = [deliveries EXCEPT ![t] = 1]
    /\ UNCHANGED paid

PromiseNext == \E t \in Transaction : Pay(t) \/ Deliver(t)

PromiseSpec == PromiseInit /\ [][PromiseNext]_promiseVars

=============================================================================
