---------------------------- MODULE AllowancePanel ---------------------------
(***************************************************************************)
(* The payer's page: allowances are created and revoked by transactions of *)
(* the connected wallet, which the gateway is then told of under the       *)
(* page's session.  The two need not be of one wallet, transactions may be *)
(* late or fail, answers may be lost, and the page may be closed or loaded *)
(* again at any time.  The chain and the gateway are outside; what the     *)
(* gateway checks is module AllowanceLifecycle's.                          *)
(***************************************************************************)
EXTENDS WalletPage

CONSTANTS
    Grant,          \* allowances, by the address that the nonce gives them
    Attempts,       \* how often the page asks whether a transaction is final
    NoGrant

VARIABLES
    panel,          \* what create or revoke is doing: the page's pending flag
    allowances,     \* the allowances the page lists, with their status
    lists,          \* sessions for which a list is being read
    said,           \* the status line: "active" or "revoked", and of which
    ledger,         \* outside: on the chain, who owns a grant and what it is
    inGateway       \* outside: the gateway's rows

outsideVars == <<ledger, inGateway>>
ownPanelVars == <<panel, allowances, lists, said, outsideVars>>
panelVars == <<walletPageVars, ownPanelVars>>

AtRest == [step |-> "rest", grant |-> NoGrant, wallet |-> Nobody,
           session |-> NoSession, polls |-> 0]

Silent == [word |-> "", grant |-> NoGrant]

Working(s) == panel.step = s
Onto(s) ==
    panel' = [step |-> s, grant |-> panel.grant, wallet |-> panel.wallet,
              session |-> panel.session, polls |-> 0]
GiveUpWith(line) == panel' = AtRest /\ said' = line

-----------------------------------------------------------------------------
(* The list.                                                               *)

ConnectPayer(w) ==
    /\ Connect(w)
    /\ UNCHANGED <<panel, allowances, lists, said, outsideVars>>

\* the effect reads the list of the new session
PayerSignedIn(x) ==
    /\ Authenticate(x)
    /\ lists' = lists \cup {session'}
    /\ UNCHANGED <<panel, allowances, said, outsideVars>>

PayerNotSignedIn(x) ==
    /\ FailToAuthenticate(x)
    /\ UNCHANGED <<panel, allowances, lists, said, outsideVars>>

RefreshAllowances ==
    /\ session # NoSession
    /\ lists' = lists \cup {session}
    /\ UNCHANGED <<walletPageVars, panel, allowances, said, outsideVars>>

Listed(s) ==
    {<<g, inGateway[g].status>> : g \in {h \in Grant : inGateway[h].wallet = s.wallet}}

\* answers are not numbered: the list is that of the read that ends last; an error
\* empties it or leaves it
AnswerList(s) ==
    /\ lists' = lists \ {s}
    /\ allowances' \in {Listed(s), {}, allowances}
    /\ UNCHANGED <<walletPageVars, panel, said, outsideVars>>

-----------------------------------------------------------------------------
(* Create and revoke: one at a time.                                       *)

Start(phase, g) ==
    /\ Working("rest") /\ connection # Nobody /\ session # NoSession
    /\ panel' = [step |-> phase, grant |-> g, wallet |-> connection,
                 session |-> session, polls |-> 0]
    /\ UNCHANGED <<walletPageVars, allowances, lists, said, outsideVars>>

\* the nonce is the time, so the grant is new
SubmitAllowance(g) == ledger[g].state = "none" /\ Start("creating", g)

Revocable == {g \in Grant : \E a \in allowances :
                 a[1] = g /\ a[2] \notin {"revoked", "revocation_pending"}}

RevokeAllowance(g) == g \in Revocable /\ Start("revoking", g)

\* a block hash for the transaction, or an error
GetLatestBlockhash ==
    /\ panel.step \in {"creating", "revoking"}
    /\ \/ Onto(IF Working("creating") THEN "signing" ELSE "signing revocation")
          /\ UNCHANGED said
       \/ GiveUpWith(Silent)
    /\ UNCHANGED <<walletPageVars, allowances, lists, outsideVars>>

\* the wallet signs the transaction and sends it; it may send it and fail to say so
SignAndSend(may, then, next) ==
    /\ \/ may /\ ledger' = [ledger EXCEPT ![panel.grant] = then] /\ Onto(next)
          /\ UNCHANGED said
       \/ /\ GiveUpWith(Silent)
          /\ ledger' = ledger \/ (may /\ ledger' = [ledger EXCEPT ![panel.grant] = then])
    /\ UNCHANGED <<walletPageVars, allowances, lists, inGateway>>

OpeningBy(w) == [owner |-> w, state |-> "opening"]

SendAllowance ==
    /\ Working("signing")
    /\ SignAndSend(TRUE, OpeningBy(panel.wallet), "opening")

ClosingBy(w) == [owner |-> w, state |-> "closing"]

\* preflight refuses it for another wallet's grant and for one that is not open
SendRevocation ==
    /\ Working("signing revocation")
    /\ SignAndSend(ledger[panel.grant] = [owner |-> panel.wallet, state |-> "open"],
                   ClosingBy(panel.wallet), "announcing")

\* the chain: a transaction becomes final, or fails
Finalize(g) ==
    /\ \/ /\ ledger[g].state = "opening"
          /\ \E s \in {"open", "failed"} : ledger' = [ledger EXCEPT ![g].state = s]
       \/ /\ ledger[g].state = "closing"
          /\ \E s \in {"closed", "open"} : ledger' = [ledger EXCEPT ![g].state = s]
    /\ UNCHANGED <<walletPageVars, panel, allowances, lists, said, inGateway>>

\* waitForFinalizedSignature: an error, a failure or too many attempts end it
WaitForFinality ==
    /\ panel.step \in {"opening", "closing"}
    /\ LET late == ledger[panel.grant].state = panel.step
           done == ledger[panel.grant].state = (IF Working("opening") THEN "open" ELSE "closed")
       IN \/ done /\ Onto(IF Working("opening") THEN "recording" ELSE "recording close")
             /\ UNCHANGED said
          \/ late /\ panel.polls + 1 < Attempts
             /\ panel' = [panel EXCEPT !.polls = @ + 1] /\ UNCHANGED said
          \/ GiveUpWith(Silent)
    /\ UNCHANGED <<walletPageVars, allowances, lists, outsideVars>>

\* a slip: a response is a response
AnyResponse(accepted) == TRUE

ResponseOk(accepted) == accepted

\* a POST under the operation's session, by which the gateway sets a row's status if
\* it accepts; the answer may be lost although it did
TellGateway(accepts, status, next) ==
    LET told == [inGateway EXCEPT ![panel.grant] =
                    [wallet |-> panel.session.wallet, status |-> status]]
        row == IF accepts THEN told ELSE inGateway
    IN /\ \/ ResponseOk(accepts) /\ inGateway' = row /\ Onto(next) /\ UNCHANGED said
          \/ inGateway' \in {inGateway, row} /\ GiveUpWith(Silent)
       /\ UNCHANGED <<walletPageVars, allowances, lists, ledger>>

\* the session's wallet has created the grant, by a final transaction
CreationIsProven(s, g) ==
    s.wallet = ledger[g].owner /\ ledger[g].state \in {"open", "closing", "closed"}

RecordAllowance ==
    /\ Working("recording")
    /\ TellGateway(CreationIsProven(panel.session, panel.grant), "active", "listing active")

MayAnnounce(s, g) ==
    inGateway[g].wallet = s.wallet /\ inGateway[g].status \in {"active", "revocation_pending"}

AnnounceRevocation ==
    /\ Working("announcing")
    /\ TellGateway(MayAnnounce(panel.session, panel.grant), "revocation_pending", "closing")

RevocationIsProven(s, g) == inGateway[g].wallet = s.wallet /\ ledger[g].state = "closed"

RecordRevocation ==
    /\ Working("recording close")
    /\ TellGateway(RevocationIsProven(panel.session, panel.grant), "revoked", "listing revoked")

\* the list of the operation's own session, then the status line
Conclude ==
    /\ panel.step \in {"listing active", "listing revoked"}
    /\ \/ /\ allowances' = Listed(panel.session)
          /\ GiveUpWith([word |-> IF Working("listing active") THEN "active" ELSE "revoked",
                         grant |-> panel.grant])
       \/ GiveUpWith(Silent) /\ UNCHANGED allowances
    /\ UNCHANGED <<walletPageVars, lists, outsideVars>>

\* the page is closed, or loaded again
Reload ==
    /\ connection' = Nobody /\ session' = NoSession
    /\ signingIn' = [x \in SignIn |-> IF Fresh(x) THEN "idle" ELSE "ended"]
    /\ panel' = AtRest /\ allowances' = {} /\ lists' = {} /\ said' = Silent
    /\ UNCHANGED outsideVars

PanelInit ==
    /\ WalletPageInit
    /\ panel = AtRest /\ allowances = {} /\ lists = {} /\ said = Silent
    /\ ledger = [g \in Grant |-> [owner |-> Nobody, state |-> "none"]]
    /\ inGateway = [g \in Grant |-> [wallet |-> Nobody, status |-> "none"]]

PanelNext ==
    \/ \E w \in Visitors : ConnectPayer(w)
    \/ \E x \in SignIn : PayerSignedIn(x) \/ PayerNotSignedIn(x)
    \/ RefreshAllowances
    \/ \E s \in lists : AnswerList(s)
    \/ \E g \in Grant : SubmitAllowance(g) \/ RevokeAllowance(g) \/ Finalize(g)
    \/ GetLatestBlockhash \/ SendAllowance \/ SendRevocation \/ WaitForFinality
    \/ RecordAllowance \/ AnnounceRevocation \/ RecordRevocation \/ Conclude
    \/ Reload

PanelSpec == PanelInit /\ [][PanelNext]_panelVars

-----------------------------------------------------------------------------
(* Properties.                                                             *)

\* Whichever wallet is connected and whichever is signed in, and whatever was lost
\* or late: the status line says active or revoked only of a grant that is so on
\* the chain and in the gateway, and in the gateway under the wallet that owns it.
StatusTellsTheOutcome ==
    LET g == said.grant
    IN /\ said.word = "active" =>
            /\ inGateway[g].wallet = ledger[g].owner
            /\ ledger[g].state \in {"open", "closing", "closed"}
       /\ said.word = "revoked" =>
            inGateway[g].status = "revoked" /\ ledger[g].state = "closed"

=============================================================================
