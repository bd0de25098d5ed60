------------------------------- MODULE Commands ------------------------------
(***************************************************************************)
(* meterkit check, doctor, verify and pay, and the readiness page, which   *)
(* has the gateway run verify: five ways to read one endpoint's address    *)
(* and payment challenge and to tell, by an exit code or a certificate,    *)
(* whether it can be used.  The endpoint and the project around them are   *)
(* outside and stay as they are meanwhile.  What pay does after its choice *)
(* is module Buyer's.                                                      *)
(***************************************************************************)
EXTENDS Naturals, Sequences, Selection

CONSTANTS
    Endpoints,      \* what an endpoint may answer to an unpaid request
    Surroundings,   \* projects, with what the doctor's options point to
    MaxPrice,       \* --max-amount
    NotRun          \* no exit code yet

VARIABLES
    endpoint,
    surroundings,
    exit            \* the exit code of each command, the page's certificate

commandsVars == <<endpoint, surroundings, exit>>

Commands == {"check", "doctor", "verify", "pay", "page"}

\* one entry of a challenge's accepts: well-formed but for its amount, of the
\* exact scheme, at a price, and what of it is as the policy says: all, or not
\* the recipient, or not even devnet and its USDC
Entries ==
    [formed : BOOLEAN, exact : BOOLEAN, price : 0 .. MaxPrice + 1,
     fits : {"policy", "devnet", "nothing"}]

\* where an endpoint is: a public host; this host, by a loopback address or by
\* another name; a host that is private or resolves to one; behind credentials
Places == {"https", "http", "loopback", "localname", "private", "credentials"}

\* an endpoint: its place; it answers 402; the header is there and is JSON; the
\* version is one this build settles; the resource is the endpoint; the entries
EndpointOf(accepts) ==
    [at : Places, paywalled : BOOLEAN, header : BOOLEAN, version : BOOLEAN,
     same : BOOLEAN, accepts : accepts]

ASSUME CommandsAssumption ==
    /\ MaxPrice \in Nat \ {0} /\ NotRun \notin 0..4
    /\ Endpoints \subseteq EndpointOf(Seq(Entries))

EntryIndexes(e) == 1 .. Len(e.accepts)

Exits(c, code) ==
    /\ exit[c] = NotRun
    /\ exit' = [exit EXCEPT ![c] = code]
    /\ UNCHANGED <<endpoint, surroundings>>

Success == 0
CheckFailed == 1
InvalidInput == 2
EnvironmentUnavailable == 3
PaymentFailed == 4

\* an argument that is required is missing
RunIncomplete(c) == c \notin {"doctor", "page"} /\ Exits(c, InvalidInput)

\* parsePublicUrl
Parses(e) == e.at # "credentials"


-----------------------------------------------------------------------------
(* check: every entry has to be right, and the first one is reported.      *)

\* it knows this host by its loopback address only
MayDiscover(e, allowLocalhost) ==
    Parses(e) /\ (e.at = "loopback" => allowLocalhost)

CheckEndpoint(e, allowLocalhost) ==
    /\ MayDiscover(e, allowLocalhost)
    /\ e.paywalled /\ e.header /\ e.version
    /\ e.accepts # <<>>
    /\ \A i \in EntryIndexes(e) :
         LET a == e.accepts[i] IN a.formed /\ a.price >= 1 /\ a.exact

RunCheck ==
    Exits("check", IF CheckEndpoint(endpoint, surroundings.localhost)
                     THEN Success ELSE CheckFailed)

-----------------------------------------------------------------------------
(* verify: malformed entries are skipped, the best candidate is judged.    *)

\* parseRequirement
Accepted(a) == a.formed /\ a.price >= 1

Candidates(e) == Selected(e.accepts, {a \in Entries : Accepted(a)})

WithinPolicy(a) == a.fits = "policy" /\ a.price <= MaxPrice

Exact == {a \in Entries : a.exact}
Payable == {a \in Exact : WithinPolicy(a)}

\* a slip: the first entry is the one that is judged
FirstCandidate(candidates, given) == Head(candidates)

\* given: whether there is a policy
SelectRequirement(candidates, given) ==
    Head(Selected(candidates, IF given THEN Payable ELSE Exact)
         \o Selected(candidates, Exact)
         \o candidates)

\* public hosts by https and none that is private
ParseEndpoint(e, allowLocalhost) ==
    e.at = "https" \/ (e.at \in {"loopback", "localname"} /\ allowLocalhost)

\* every check but those of the policy
ProtocolChecks(e, allowLocalhost, given) ==
    /\ ParseEndpoint(e, allowLocalhost)
    /\ e.paywalled /\ e.header
    /\ Candidates(e) # <<>>
    /\ LET requirement == SelectRequirement(Candidates(e), given)
       IN e.version /\ requirement.exact /\ requirement.fits # "nothing"

VerifyEndpoint(e, allowLocalhost) ==
    /\ ProtocolChecks(e, allowLocalhost, TRUE)
    /\ WithinPolicy(SelectRequirement(Candidates(e), TRUE))

RunVerify ==
    Exits("verify", IF VerifyEndpoint(endpoint, surroundings.localhost)
                      THEN Success ELSE CheckFailed)

-----------------------------------------------------------------------------
(* The readiness page: the gateway verifies without a policy, so the checks *)
(* of the policy fail as not enforced, and the page sets those aside.      *)

HostedVerify(e) == ProtocolChecks(e, FALSE, FALSE)

\* limited, not a URL, failed or out of reach: an error and no certificate
NotVerified == Exits("page", EnvironmentUnavailable)

RunPage ==
    \/ NotVerified
    \/ Exits("page", IF HostedVerify(endpoint) THEN Success ELSE CheckFailed)

-----------------------------------------------------------------------------
(* pay: the offers its client may sign.                                    *)

\* the x402 client reads a challenge of its version and knows the exact scheme;
\* it does not look at the form of the rest
MayPay(e) ==
    /\ Parses(e) /\ e.paywalled /\ e.header /\ e.version /\ e.same
    /\ \E i \in EntryIndexes(e) : e.accepts[i].exact /\ WithinPolicy(e.accepts[i])

\* confirmed by --yes or on a terminal, or refused
RunPay ==
    \/ Exits("pay", PaymentFailed)
    \/ Exits("pay", InvalidInput)
    \/ MayPay(endpoint) /\ Exits("pay", Success)

-----------------------------------------------------------------------------
(* doctor: findings about the project and its surroundings.                *)

Finding(passed, otherwise) == IF passed THEN "passed" ELSE otherwise

\* the SDK is declared and installed
DependenciesFinding(s) == Finding(s.dependencies, "failed")

\* connect with a timeout, and only in postgres mode
DatabaseFinding(s) ==
    CASE s.database = "unset" -> "failed"
      [] s.database = "down" -> "unavailable"
      [] OTHER -> "passed"

EnvironmentFindings(s) ==
    {Finding(s.recipient = "address", "failed"),
     CASE s.durability = "memory" -> "unknown"
       [] s.durability = "postgres" -> "passed"
       [] OTHER -> "failed"}
    \cup (IF s.durability = "postgres" THEN {DatabaseFinding(s)} ELSE {})

\* any call that fails leaves only that it failed; without a recipient nothing
\* is asked but the network
SolanaFindings(s) ==
    CASE s.rpc = "down" -> {"unavailable"}
      [] s.rpc = "other" -> {"failed"}
      [] OTHER -> {"passed"} \cup
           (IF s.recipient = "none" THEN {}
            ELSE {Finding(s.tokenAccount, "failed")} \cup
                 (IF s.payer = "none" THEN {} ELSE {Finding(s.payer = "funded", "failed")}))

\* the first entry against the recipient of the environment file
PolicyMatches(s, e) ==
    s.env /\ s.recipient = "address" /\ WithinPolicy(Head(e.accepts))

EndpointFindings(s, e) ==
    IF ~s.url THEN {}
    ELSE {Finding(CheckEndpoint(e, s.localhost) /\ PolicyMatches(s, e), "failed")}

\* settlement and replay in a payment result; neither ever fails
PaymentResultFindings(s) ==
    CASE s.result = "none" -> {"unknown"}
      [] s.result = "conflict" -> {"unknown", Finding(s.replayed, "unknown")}
      [] OTHER -> {"passed", Finding(s.replayed, "unknown")}

Findings(s, e) ==
    {Finding(s.node, "failed"), DependenciesFinding(s),
     Finding(s.facilitator, "unavailable")}
    \cup (IF s.env THEN EnvironmentFindings(s) \cup SolanaFindings(s) ELSE {"failed"})
    \cup EndpointFindings(s, e)
    \cup PaymentResultFindings(s)

RunDoctor ==
    LET findings == Findings(surroundings, endpoint)
    IN Exits("doctor", CASE "failed" \in findings -> CheckFailed
                         [] "unavailable" \in findings -> EnvironmentUnavailable
                         [] OTHER -> Success)

CommandsInit ==
    /\ endpoint \in Endpoints
    /\ surroundings \in Surroundings
    /\ exit = [c \in Commands |-> NotRun]

CommandsNext ==
    \/ \E c \in Commands : RunIncomplete(c)
    \/ RunCheck \/ RunVerify \/ RunPage \/ RunPay \/ RunDoctor

CommandsSpec == CommandsInit /\ [][CommandsNext]_commandsVars

-----------------------------------------------------------------------------
(* Properties.                                                             *)

\* entries that verify does not skip and a client could sign
Sound(e) ==
    {i \in EntryIndexes(e) : LET a == e.accepts[i] IN Accepted(a) /\ a.exact}

\* The five agree though each reads the endpoint its own way.  Of an endpoint that
\* verify may contact: what the doctor finds ready verify passes, and what pay has
\* signed it fails only if that entry is malformed or free.  What verify passes pay
\* can sign, if the challenge is for this endpoint.  What the page certifies
\* verify fails for its policy only; what verify passes the page refuses only for
\* being local or for an earlier exact entry on another network or mint.
ReadinessAgrees ==
    LET contacted == ParseEndpoint(endpoint, surroundings.localhost)
        fitting == {i \in Sound(endpoint) : WithinPolicy(endpoint.accepts[i])}
    IN /\ (exit["doctor"] = Success /\ surroundings.url /\ contacted) =>
            exit["verify"] # CheckFailed
       /\ (exit["pay"] = Success /\ exit["verify"] = CheckFailed /\ contacted) => fitting = {}
       /\ (exit["verify"] = Success /\ endpoint.same) => MayPay(endpoint)
       /\ (exit["page"] = Success /\ exit["verify"] = CheckFailed) => fitting = {}
       /\ (exit["page"] = CheckFailed /\ exit["verify"] = Success) =>
            \/ endpoint.at # "https"
            \/ \E i \in Sound(endpoint) :
                 /\ endpoint.accepts[i].fits = "nothing"
                 /\ \A j \in fitting : i < j

=============================================================================
