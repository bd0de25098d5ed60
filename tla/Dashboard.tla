------------------------------ MODULE Dashboard ------------------------------
(***************************************************************************)
(* The provider's dashboard.  Its products and payments are read again on  *)
(* a timer, by a button, when the session changes and after a product was  *)
(* created; its GitHub identity when the session changes and after it was  *)
(* linked.  Answers come back in any order, or not at all.                 *)
(***************************************************************************)
EXTENDS WalletPage

CONSTANTS
    MaxRefreshes    \* bound: reads of products and payments

VARIABLES
    refreshSequence,    \* the number of the latest read, or of a cleanup
    reads,              \* reads that are not answered
    page,               \* the read whose answer the page shows
    pageError,          \* the page says that a read failed, and which
    form,               \* the product form
    identity,           \* the session whose GitHub identity is shown
    identityReads,      \* sessions for which the identity is being read
    githubPending       \* a link to GitHub is being asked for

gitHubVars == <<identity, identityReads, githubPending>>
readVars == <<refreshSequence, reads, page, pageError>>
ownDashboardVars == <<readVars, form, gitHubVars>>
dashboardVars == <<walletPageVars, ownDashboardVars>>

Read(number, of, timed) ==
    [number |-> number, session |-> of, timed |-> timed, aborted |-> FALSE]

ClosedForm == [step |-> "closed", wallet |-> Nobody, session |-> NoSession, read |-> 0]

\* what abort leaves of the reads: only a read of the timer has a signal
AbortTimed == {[r EXCEPT !.aborted = r.timed] : r \in reads}

-----------------------------------------------------------------------------
(* Products and payments.                                                  *)

\* refresh: a number is taken before anything is asked
Refresh(of) ==
    /\ refreshSequence < MaxRefreshes
    /\ refreshSequence' = refreshSequence + 1
    /\ reads' = reads \cup {Read(refreshSequence + 1, of, FALSE)}

RefreshByButton ==
    /\ Refresh(session)
    /\ UNCHANGED <<walletPageVars, page, pageError, form, gitHubVars>>

\* run: the timer aborts its own last read
Tick ==
    /\ refreshSequence < MaxRefreshes
    /\ refreshSequence' = refreshSequence + 1
    /\ reads' = AbortTimed \cup {Read(refreshSequence + 1, session, TRUE)}
    /\ UNCHANGED <<walletPageVars, page, pageError, form, gitHubVars>>

\* a slip: answers count unless they were aborted
NotAborted(r) == ~r.aborted

Counts(r) == r.number = refreshSequence /\ ~r.aborted

\* an answer, or an error, of a read that something newer has overtaken is dropped
AnswerRead(r) ==
    /\ reads' = reads \ {r}
    /\ IF Counts(r)
         THEN \/ page' = r /\ pageError' = 0
              \/ pageError' = r.number /\ UNCHANGED page
         ELSE UNCHANGED <<page, pageError>>
    /\ form' = IF form.step = "refreshing" /\ form.read = r.number THEN ClosedForm ELSE form
    /\ UNCHANGED <<walletPageVars, refreshSequence, gitHubVars>>

-----------------------------------------------------------------------------
(* The session, and the effects that depend on it.                         *)

ConnectWallet(w) ==
    /\ Connect(w)
    /\ UNCHANGED <<readVars, form, gitHubVars>>

\* the cleanup of the timer's effect takes a number too, the effect runs again,
\* and so does the one that reads the identity
SignedIn(x) ==
    /\ Authenticate(x)
    /\ refreshSequence + 1 < MaxRefreshes
    /\ refreshSequence' = refreshSequence + 2
    /\ reads' = AbortTimed \cup {Read(refreshSequence + 2, session', TRUE)}
    /\ identityReads' = identityReads \cup {session'}
    /\ UNCHANGED <<page, pageError, form, identity, githubPending>>

NotSignedIn(x) ==
    /\ FailToAuthenticate(x)
    /\ UNCHANGED <<readVars, form, gitHubVars>>

-----------------------------------------------------------------------------
(* GitHub: these reads are not numbered.                                   *)

AnswerIdentity(s) ==
    /\ identityReads' = identityReads \ {s}
    /\ identity' \in {s, NoSession, identity}
    /\ UNCHANGED <<walletPageVars, readVars, form, githubPending>>

AskForLink ==
    /\ session # NoSession /\ identity = NoSession /\ ~githubPending
    /\ githubPending' = TRUE
    /\ UNCHANGED <<walletPageVars, readVars, form, identity, identityReads>>

LinkAnswered ==
    /\ githubPending /\ githubPending' = FALSE
    /\ UNCHANGED <<walletPageVars, readVars, form, identity, identityReads>>

\* the popup's message
LinkedInPopup ==
    /\ session # NoSession
    /\ identityReads' = identityReads \cup {session}
    /\ UNCHANGED <<walletPageVars, readVars, form, identity, githubPending>>

-----------------------------------------------------------------------------
(* ProductForm: it works with the wallet and the refresh it was given when *)
(* it was submitted.                                                       *)

SubmitProduct ==
    /\ connection # Nobody /\ form.step = "closed"
    /\ form' = [form EXCEPT !.step = "saving", !.wallet = connection, !.session = session]
    /\ UNCHANGED <<walletPageVars, readVars, gitHubVars>>

\* a challenge, a signature and the product; then onCreated
ProductCreated ==
    /\ form.step = "saving"
    /\ Refresh(form.session)
    /\ form' = [form EXCEPT !.step = "refreshing", !.read = refreshSequence + 1]
    /\ UNCHANGED <<walletPageVars, page, pageError, gitHubVars>>

ProductNotCreated ==
    /\ form.step = "saving"
    /\ form' = ClosedForm
    /\ UNCHANGED <<walletPageVars, readVars, gitHubVars>>

DashboardInit ==
    /\ WalletPageInit
    /\ refreshSequence = 1 /\ reads = {Read(1, NoSession, TRUE)}
    /\ page = Read(0, NoSession, FALSE) /\ pageError = 0
    /\ form = ClosedForm
    /\ identity = NoSession /\ identityReads = {} /\ githubPending = FALSE

DashboardNext ==
    \/ RefreshByButton \/ Tick
    \/ \E r \in reads : AnswerRead(r)
    \/ \E w \in Visitors : ConnectWallet(w)
    \/ \E x \in SignIn : SignedIn(x) \/ NotSignedIn(x)
    \/ \E s \in identityReads : AnswerIdentity(s)
    \/ AskForLink \/ LinkAnswered \/ LinkedInPopup
    \/ SubmitProduct \/ ProductCreated \/ ProductNotCreated

DashboardSpec == DashboardInit /\ [][DashboardNext]_dashboardVars

-----------------------------------------------------------------------------
(* Properties.                                                             *)

\* Whatever order answers come in, and whether a read was of the timer, the button
\* or the form: products and payments are never replaced by those of an earlier
\* read, and no error of an earlier read covers the answer to a later one.
PageNeverGoesBack ==
    [][page'.number >= page.number /\ pageError' \notin 1 .. page'.number]_dashboardVars

=============================================================================
