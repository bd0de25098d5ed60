------------------------------- MODULE McpScout ------------------------------
(***************************************************************************)
(* The scout example: MCP servers that share one directory of claim files  *)
(* and receipts, sell a report on a repository and give one preview away;  *)
(* and a buyer that pays for a report once and then tries its payment      *)
(* again.  The x402 wrapper, the facilitator, the chain and GitHub are     *)
(* outside.  A server may be killed between any two calls.                 *)
(***************************************************************************)
EXTENDS Naturals, FiniteSets

CONSTANTS
    ToolCall,       \* calls of a tool, on any of the servers
    Payload,        \* signed payments, one transaction each
    Own,            \* the buyer's payload
    PreviewScope,   \* one preview each
    SessionSpend    \* what the buyer may authorize, in prices

ASSUME ScoutAssumption ==
    /\ Own \in Payload /\ SessionSpend \in Nat
    /\ Payload \cap PreviewScope = {}

VARIABLES
    calls,          \* what each call is about, and where it is
    settled,        \* outside: transactions on the chain
    claims,         \* claim files, of payments and previews
    published,      \* receipts of each payment
    given,          \* history: previews given
    client          \* the buyer

scoutVars == <<calls, settled, claims, published, given, client>>

CallIs(c, at) == calls[c].at = at
Goto(c, at) == calls' = [calls EXCEPT ![c].at = at]
Unused == [at |-> "idle", of |-> Own]

-----------------------------------------------------------------------------
(* The server.                                                             *)

AskPreview(c, scope) ==
    /\ CallIs(c, "idle")
    /\ calls' = [calls EXCEPT ![c] = [at |-> "claiming", of |-> scope]]
    /\ UNCHANGED <<settled, claims, published, given, client>>

\* the wrapper asks for a payment, or passes on one that the facilitator verified
AskReport(c, p) ==
    /\ CallIs(c, "idle") /\ (p = Own => client.at = "waiting")
    /\ calls' = [calls EXCEPT ![c] = [at |-> "fetching", of |-> p]]
    /\ UNCHANGED <<settled, claims, published, given, client>>

\* a slip: opened with "w"
Writable(claim) == TRUE

\* open with "wx"
Unclaimed(claim) == claim \notin claims

\* claimOnce, before a preview and in the hook; what else the file system refuses
\* fails a call too
ClaimOnce(c) ==
    /\ CallIs(c, "claiming")
    /\ \/ /\ Unclaimed(calls[c].of)
          /\ claims' = claims \cup {calls[c].of}
          /\ \/ Goto(c, IF calls[c].of \in Payload THEN "saving" ELSE "fetching")
             \/ Goto(c, "failing")
       \/ /\ Goto(c, "failing")
          /\ UNCHANGED claims
    /\ UNCHANGED <<settled, published, given, client>>

\* the repository, and its latest release unless there is none
FetchProject(c) ==
    /\ CallIs(c, "fetching")
    /\ \E repository \in {"found", "refused"}, release \in {"found", "none", "refused"} :
         LET report == repository = "found" /\ release # "refused"
         IN IF calls[c].of \in PreviewScope
              THEN /\ Goto(c, IF report THEN "answered" ELSE "failed")
                   /\ given' = [given EXCEPT ![calls[c].of] = @ + (IF report THEN 1 ELSE 0)]
              ELSE Goto(c, IF report THEN "settling" ELSE "failed") /\ UNCHANGED given
    /\ UNCHANGED <<settled, claims, published, client>>

\* the facilitator settles, or says so again, or does not
Settle(c) ==
    /\ CallIs(c, "settling")
    /\ \/ settled' = settled \cup {calls[c].of} /\ Goto(c, "validating")
       \/ settled' \in {settled, settled \cup {calls[c].of}} /\ Goto(c, "failed")
       \/ Goto(c, "validating") /\ UNCHANGED settled    \* a success that is none
    /\ UNCHANGED <<claims, published, given, client>>

Validated(p) == p \in settled

\* onAfterSettle: the RPC is asked, the payment claimed, a receipt saved
ValidateSettlement(c) ==
    /\ CallIs(c, "validating")
    /\ \/ Validated(calls[c].of) /\ Goto(c, "claiming")
       \/ Goto(c, "failing")
    /\ UNCHANGED <<settled, claims, published, given, client>>

SavePublicReceipt(c) ==
    /\ CallIs(c, "saving")
    /\ \/ published' = [published EXCEPT ![calls[c].of] = @ + 1] /\ Goto(c, "answered")
       \/ Goto(c, "failing") /\ UNCHANGED published
    /\ UNCHANGED <<settled, claims, given, client>>

\* an error of a hook need not reach the buyer
Answer(c) ==
    /\ CallIs(c, "failing")
    /\ \/ Goto(c, "failed")
       \/ calls[c].of \in Payload /\ Goto(c, "answered")
    /\ UNCHANGED <<settled, claims, published, given, client>>

KillServer(c) ==
    /\ ~CallIs(c, "idle") /\ Goto(c, "failed")
    /\ UNCHANGED <<settled, claims, published, given, client>>

-----------------------------------------------------------------------------
(* The buyer.                                                              *)

OwnCalls(at) == {c \in ToolCall : calls[c].of = Own /\ CallIs(c, at)}

\* a requirement is as expected or not; it is charged when it is approved
RequestPayment(expected) ==
    /\ client.at = "start"
    /\ client' = IF expected /\ client.authorized + 1 <= SessionSpend
                   THEN [client EXCEPT !.at = "waiting", !.authorized = @ + 1]
                   ELSE [client EXCEPT !.at = "failed"]
    /\ UNCHANGED <<calls, settled, claims, published, given>>

\* once answered, the payload goes out a second time, at no charge
ReplayPayload ==
    /\ client.at = "waiting" /\ ~client.replaying
    /\ \E c \in OwnCalls("answered") :
         calls' = [calls EXCEPT ![c] = Unused]
    /\ client' = [client EXCEPT !.replaying = TRUE]
    /\ UNCHANGED <<settled, claims, published, given>>

\* the replay is refused and the evidence written, or the run fails
EndPurchase ==
    /\ client.at = "waiting"
    /\ \E c \in OwnCalls("failed") \cup OwnCalls("answered") :
         /\ calls' = [calls EXCEPT ![c] = Unused]
         /\ CallIs(c, "answered") => client.replaying
         /\ client' = [client EXCEPT !.at =
                IF client.replaying /\ CallIs(c, "failed") THEN "evidence" ELSE "failed"]
    /\ UNCHANGED <<settled, claims, published, given>>

ScoutInit ==
    /\ calls = [c \in ToolCall |-> Unused]
    /\ settled = {} /\ claims = {}
    /\ published = [p \in Payload |-> 0]
    /\ given = [s \in PreviewScope |-> 0]
    /\ client = [at |-> "start", authorized |-> 0, replaying |-> FALSE]

ScoutNext ==
    \/ \E c \in ToolCall :
         \/ \E scope \in PreviewScope : AskPreview(c, scope)
         \/ \E p \in Payload : AskReport(c, p)
         \/ ClaimOnce(c) \/ FetchProject(c)
         \/ Settle(c) \/ ValidateSettlement(c) \/ SavePublicReceipt(c)
         \/ Answer(c) \/ KillServer(c)
    \/ \E expected \in BOOLEAN : RequestPayment(expected)
    \/ ReplayPayload \/ EndPurchase

ScoutSpec == ScoutInit /\ [][ScoutNext]_scoutVars

-----------------------------------------------------------------------------
(* Properties.                                                             *)

\* Whichever servers get a payment, at once, again or after a crash, and whatever
\* the facilitator says of it, it has one receipt at most and only when it is on
\* the chain; and a preview is given once.
ReceiptsAreUnique ==
    /\ \A p \in Payload :
         published[p] <= 1 /\ (published[p] = 1 => p \in settled /\ p \in claims)
    /\ \A s \in PreviewScope : given[s] <= 1

=============================================================================
