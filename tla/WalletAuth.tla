----------------------------- MODULE WalletAuth -----------------------------
(***************************************************************************)
(* Challenges and sessions: a wallet proves itself to the gateway by       *)
(* signing the message of a challenge, which names one request: opening a  *)
(* session, or creating one product under one idempotency key.  Requests   *)
(* are served concurrently; each stops at its database calls.              *)
(*                                                                         *)
(* A request hash with its idempotency key is the purpose of a challenge.  *)
(* Hashing, encoding and the format of addresses are left out; a signature *)
(* is the fact that the owner of the wallet signed that message.           *)
(***************************************************************************)
EXTENDS Naturals, Sequences, FiniteSets

CONSTANTS
    Account,        \* wallets
    Nonce,          \* the nonces of all challenges
    Handler,        \* requests served at once
    Key, Version,   \* idempotency keys, and what a product may say
    OpenSession,    \* the purpose that opens a session
    NoRequest,
    MaxActive,      \* challenges a wallet may have open
    ChallengeLife, SessionLife, MaxAuthTime

VARIABLES
    authTime,       \* wall clock
    challenges,     \* the wallet_challenges table
    sessions,       \* the wallet_sessions table
    serving,        \* what each handler is doing
    issued,         \* history: what the challenge of each nonce names
    signed,         \* the nonces whose message its wallet signed
    grants          \* history: the requests each nonce has authorized

authVars == <<authTime, challenges, sessions, serving, issued, signed, grants>>

Order == [key : Key, version : Version]
Purpose == Order \cup {OpenSession}
Request == [account : Account, purpose : Purpose]
Idle == [phase |-> "idle"]

ASSUME WalletAuthAssumption ==
    /\ OpenSession \notin Order /\ NoRequest \notin Request
    /\ MaxActive \in Nat \ {0}
    /\ {ChallengeLife, SessionLife, MaxAuthTime} \subseteq Nat

Set(h, record) == serving' = [serving EXCEPT ![h] = record]
In(h, phase) == serving[h].phase = phase

-----------------------------------------------------------------------------
(* POST /v1/auth/session/challenge and /v1/auth/challenge.                 *)

Unexpired(a) == {c \in challenges : c.request.account = a /\ c.expires > authTime}

\* a slip: the count and the insert of two requests interleave
LockIgnored(a) == TRUE

\* pg_advisory_xact_lock of the wallet, until the transaction ends
LockFree(a) ==
    \A h \in Handler : serving[h].phase \in {"locked", "counted"} => serving[h].request.account # a

AskChallenge(h, r) ==
    /\ In(h, "idle")
    /\ LockFree(r.account)
    /\ Set(h, [phase |-> "locked", request |-> r, expires |-> authTime + ChallengeLife])
    /\ UNCHANGED <<authTime, challenges, sessions, issued, signed, grants>>

CountChallenges(h) ==
    /\ In(h, "locked")
    /\ IF Cardinality(Unexpired(serving[h].request.account)) >= MaxActive
         THEN Set(h, Idle)
         ELSE Set(h, [serving[h] EXCEPT !.phase = "counted"])
    /\ UNCHANGED <<authTime, challenges, sessions, issued, signed, grants>>

\* the delete of the wallet's expired challenges commits with the insert
SaveChallenge(h) ==
    /\ In(h, "counted")
    /\ LET r == serving[h].request
           expired == {c \in challenges : c.request.account = r.account /\ c.expires <= authTime}
       IN  \E n \in Nonce :
             /\ issued[n] = NoRequest
             /\ issued' = [issued EXCEPT ![n] = r]
             /\ challenges' = (challenges \ expired) \cup
                    {[nonce |-> n, request |-> r, expires |-> serving[h].expires]}
    /\ Set(h, Idle)
    /\ UNCHANGED <<authTime, sessions, signed, grants>>

\* the owner signs what the wallet shows
Sign(n) ==
    /\ issued[n] # NoRequest
    /\ signed' = signed \cup {n}
    /\ UNCHANGED <<authTime, challenges, sessions, serving, issued, grants>>

-----------------------------------------------------------------------------
(* WalletChallenges.verify: its clock is read before the row is consumed.  *)

\* a nonce that was never drawn finds no row and is left out
Present(h, n, r) ==
    /\ In(h, "idle")
    /\ issued[n] # NoRequest
    /\ Set(h, [phase |-> "verifying", nonce |-> n, request |-> r, at |-> authTime])
    /\ UNCHANGED <<authTime, challenges, sessions, issued, signed, grants>>

Row(n) == {c \in challenges : c.nonce = n}

\* a slip: any purpose of the wallet will do
NamesTheWallet(c, r) == c.request.account = r.account

\* wallet, requestHash and idempotencyKey
Names(c, r) == c.request = r

Consumed(n) == challenges \ Row(n)

ConsumeChallenge(h) ==
    /\ In(h, "verifying")
    /\ LET n == serving[h].nonce
           r == serving[h].request
           valid == \E c \in Row(n) : Names(c, r) /\ c.expires >= serving[h].at /\ n \in signed
       IN  /\ challenges' = Consumed(n)
           /\ IF valid
                THEN /\ Set(h, [phase |-> "authorized", request |-> r])
                     /\ grants' = [grants EXCEPT ![n] = Append(@, r)]
                ELSE Set(h, Idle) /\ UNCHANGED grants
    /\ UNCHANGED <<authTime, sessions, issued, signed>>

SessionRow(a) == [owner |-> a, expires |-> authTime + SessionLife]

\* whose requests a bearer token may make
HasSession(a) == \E s \in sessions : s.owner = a /\ s.expires > authTime

\* POST /v1/auth/session, after the verification
CreateSession(h) ==
    /\ In(h, "authorized")
    /\ serving[h].request.purpose = OpenSession
    /\ sessions' = sessions \cup {SessionRow(serving[h].request.account)}
    /\ Set(h, Idle)
    /\ UNCHANGED <<authTime, challenges, issued, signed, grants>>

\* a database error or the end of the process rolls back and answers nothing
GiveUp(h) ==
    /\ ~In(h, "idle")
    /\ Set(h, Idle)
    /\ UNCHANGED <<authTime, challenges, sessions, issued, signed, grants>>

\* cleanupExpired, every hour
SweepAuth ==
    /\ challenges' = {c \in challenges : c.expires > authTime}
    /\ sessions' = {s \in sessions : s.expires > authTime}
    /\ UNCHANGED <<authTime, serving, issued, signed, grants>>

PassAuthTime ==
    /\ authTime < MaxAuthTime
    /\ authTime' = authTime + 1
    /\ UNCHANGED <<challenges, sessions, serving, issued, signed, grants>>

AuthInit ==
    /\ authTime = 0
    /\ challenges = {} /\ sessions = {} /\ signed = {}
    /\ serving = [h \in Handler |-> Idle]
    /\ issued = [n \in Nonce |-> NoRequest]
    /\ grants = [n \in Nonce |-> <<>>]

AuthStep(h) ==
    \/ \E r \in Request : AskChallenge(h, r) \/ \E n \in Nonce : Present(h, n, r)
    \/ CountChallenges(h)
    \/ SaveChallenge(h)
    \/ ConsumeChallenge(h)
    \/ CreateSession(h)

-----------------------------------------------------------------------------
(* Properties.                                                             *)

\* However many requests of a wallet arrive at once, it never has more open
\* challenges than the quota (saveWalletChallenge's advisory lock).
ActiveWithinQuota == \A a \in Account : Cardinality(Unexpired(a)) <= MaxActive

\* A challenge authorizes at most one request, the one its message names, and only
\* when the wallet's owner signed it: two verifications that race, a retry of a
\* lost answer or another purpose of the same wallet get nothing; and no wallet
\* has a session that its owner did not sign for.
AuthorizedAsSigned ==
    /\ \A n \in Nonce :
         /\ Len(grants[n]) <= 1
         /\ \A i \in DOMAIN grants[n] : grants[n][i] = issued[n] /\ n \in signed
    /\ \A a \in Account : HasSession(a) =>
         \E n \in signed : issued[n] = [account |-> a, purpose |-> OpenSession]

=============================================================================
