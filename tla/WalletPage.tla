----------------------------- MODULE WalletPage ------------------------------
(***************************************************************************)
(* What the pages of the web application share: a wallet is connected at   *)
(* once and signed in later, and a sign-in that ends late sets the session *)
(* whatever wallet is connected by then.  What the gateway does about a    *)
(* sign-in is module WalletAuth's.                                         *)
(***************************************************************************)
EXTENDS Naturals, FiniteSets

CONSTANTS
    Visitors,       \* wallets of the person at the page
    SignIn,         \* sign-ins
    Nobody          \* no wallet, no session

VARIABLES
    connection,     \* the wallet that is connected
    session,        \* the wallet and the sign-in of the session
    signingIn       \* the wallet each sign-in that is under way is for

walletPageVars == <<connection, session, signingIn>>

NoSession == [wallet |-> Nobody, by |-> Nobody]
Session == [wallet : Visitors, by : SignIn] \cup {NoSession}

\* a sign-in happens once
Fresh(x) == signingIn[x] = "idle"

\* onConnect: the connection is set before the sign-in has begun
Connect(w) ==
    /\ connection' = w
    /\ \E x \in SignIn : Fresh(x) /\ signingIn' = [signingIn EXCEPT ![x] = w]
    /\ UNCHANGED session

\* authenticateWallet, then setSessionToken: a challenge, a signature, a session
Authenticate(x) ==
    /\ signingIn[x] \in Visitors
    /\ session' = [wallet |-> signingIn[x], by |-> x]
    /\ signingIn' = [signingIn EXCEPT ![x] = "ended"]
    /\ UNCHANGED connection

\* any of its steps is refused, cancelled or not answered
FailToAuthenticate(x) ==
    /\ signingIn[x] \in Visitors
    /\ signingIn' = [signingIn EXCEPT ![x] = "ended"]
    /\ UNCHANGED <<connection, session>>

WalletPageInit ==
    /\ connection = Nobody
    /\ session = NoSession
    /\ signingIn = [x \in SignIn |-> "idle"]

=============================================================================
