------------------------------ MODULE OAuthLink ------------------------------
(***************************************************************************)
(* Linking a GitHub identity to a wallet: the wallet's session asks for a  *)
(* link state, the browser returns from GitHub with it, and the callback   *)
(* consumes the state, exchanges the code and upserts the identity.        *)
(* A wallet stands for its user: ensureUserForWallet makes one for it.     *)
(***************************************************************************)
EXTENDS Naturals, Sequences

CONSTANTS
    LinkWallet, Subject,    \* wallets and GitHub identities
    LinkState,              \* the states of all link requests
    LinkHandler,            \* requests served at once
    StateLife, MaxLinkTime,
    Nobody                  \* no wallet, no identity

ASSUME OAuthLinkAssumption ==
    Nobody \notin LinkWallet \cup Subject /\ {StateLife, MaxLinkTime} \subseteq Nat

VARIABLES
    linkTime,
    userWallets,    \* the user_wallets table: wallets that have a user
    linkStates,     \* the oauth_link_states table
    linking,        \* what each handler is doing
    identities,     \* the linked_identities table: the subject of each wallet
    askedBy,        \* history: the wallet that asked for each state
    links           \* history: the links made, in order

linkVars == <<linkTime, userWallets, linkStates, linking, identities, askedBy, links>>

NotLinking == [phase |-> "idle"]
Linking(h, phase) == linking[h].phase = phase
Enter(h, record) == linking' = [linking EXCEPT ![h] = record]

-----------------------------------------------------------------------------

\* POST /v1/auth/github/link: ensureUserForWallet looks for the user first
FindUser(h, w) ==
    /\ Linking(h, "idle")
    /\ Enter(h, [phase |-> "found", wallet |-> w, known |-> w \in userWallets,
                 expires |-> linkTime + StateLife])
    /\ UNCHANGED <<linkTime, userWallets, linkStates, identities, askedBy, links>>

\* user_wallets.wallet is unique: the slower of two first links fails
CreateOAuthLinkState(h) ==
    /\ Linking(h, "found")
    /\ LET s == linking[h]
       IN  IF ~s.known /\ s.wallet \in userWallets
             THEN UNCHANGED <<userWallets, linkStates, askedBy>>
             ELSE /\ userWallets' = userWallets \cup {s.wallet}
                  /\ \E state \in {t \in LinkState : askedBy[t] = Nobody} :
                       /\ askedBy' = [askedBy EXCEPT ![state] = s.wallet]
                       /\ linkStates' = linkStates \cup
                            {[state |-> state, wallet |-> s.wallet, expires |-> s.expires]}
    /\ Enter(h, NotLinking)
    /\ UNCHANGED <<linkTime, identities, links>>

\* a slip: the state is looked up and left for the cleanup
KeptStates(state) == linkStates

RemainingStates(state) == {row \in linkStates : row.state # state}

\* GET /v1/auth/github/callback: DELETE ... RETURNING decides who may go on
ConsumeOAuthLinkState(h, state) ==
    /\ Linking(h, "idle")
    /\ \E row \in linkStates :
         /\ row.state = state
         /\ row.expires > linkTime
         /\ linkStates' = RemainingStates(state)
         /\ Enter(h, [phase |-> "exchanging", state |-> state, wallet |-> row.wallet])
    /\ UNCHANGED <<linkTime, userWallets, identities, askedBy, links>>

\* the code and the profile are fetched; whoever authorized it is the subject
ExchangeGitHubIdentity(h, subject) ==
    /\ Linking(h, "exchanging")
    /\ Enter(h, [phase |-> "exchanged", state |-> linking[h].state,
                 wallet |-> linking[h].wallet, subject |-> subject])
    /\ UNCHANGED <<linkTime, userWallets, linkStates, identities, askedBy, links>>

\* a slip: only the row of the same wallet is looked at
NoOtherRow(wallet, subject) == TRUE

\* PRIMARY KEY (provider, provider_subject)
SubjectFree(wallet, subject) == \A w \in LinkWallet \ {wallet} : identities[w] # subject

LinkGitHubIdentity(h) ==
    /\ Linking(h, "exchanged")
    /\ LET s == linking[h]
       IN  /\ SubjectFree(s.wallet, s.subject)
           /\ identities' = [identities EXCEPT ![s.wallet] = s.subject]
           /\ links' = Append(links, [state |-> s.state, wallet |-> s.wallet])
    /\ Enter(h, NotLinking)
    /\ UNCHANGED <<linkTime, userWallets, linkStates, askedBy>>

\* the identity of the wallet's user
GetGitHubIdentity(w) == IF w \in userWallets THEN identities[w] ELSE Nobody

\* GitHub or the database fails, the identity is taken, or the process ends
AbandonLink(h) ==
    /\ ~Linking(h, "idle")
    /\ Enter(h, NotLinking)
    /\ UNCHANGED <<linkTime, userWallets, linkStates, identities, askedBy, links>>

CleanupLinkStates ==
    /\ linkStates' = {row \in linkStates : row.expires > linkTime}
    /\ UNCHANGED <<linkTime, userWallets, linking, identities, askedBy, links>>

PassLinkTime ==
    /\ linkTime < MaxLinkTime
    /\ linkTime' = linkTime + 1
    /\ UNCHANGED <<userWallets, linkStates, linking, identities, askedBy, links>>

LinkInit ==
    /\ linkTime = 0
    /\ userWallets = {} /\ linkStates = {} /\ links = <<>>
    /\ linking = [h \in LinkHandler |-> NotLinking]
    /\ identities = [w \in LinkWallet |-> Nobody]
    /\ askedBy = [s \in LinkState |-> Nobody]

LinkNext ==
    \/ \E h \in LinkHandler :
         \/ \E w \in LinkWallet : FindUser(h, w)
         \/ CreateOAuthLinkState(h)
         \/ \E s \in LinkState : ConsumeOAuthLinkState(h, s)
         \/ \E s \in Subject : ExchangeGitHubIdentity(h, s)
         \/ LinkGitHubIdentity(h)
         \/ AbandonLink(h)
    \/ CleanupLinkStates
    \/ PassLinkTime

LinkSpec == LinkInit /\ [][LinkNext]_linkVars

-----------------------------------------------------------------------------
(* Properties.                                                             *)

\* Two wallets never show one GitHub identity, however their callbacks race, and
\* an identity that is linked shows.
IdentityHasOneWallet ==
    \A w \in LinkWallet :
        LET shown == GetGitHubIdentity(w)
        IN /\ shown = identities[w]
           /\ shown # Nobody => \A v \in LinkWallet \ {w} : GetGitHubIdentity(v) # shown

\* A link state makes at most one link, of the wallet whose session asked for it,
\* whatever is repeated, raced or cut off between the state and the identity.
StateLinksOnce ==
    \A i \in DOMAIN links :
        /\ links[i].wallet = askedBy[links[i].state]
        /\ \A j \in DOMAIN links : links[i].state = links[j].state => i = j

=============================================================================
