--------------------------- MODULE PilotEngagement ---------------------------
(***************************************************************************)
(* A paid pilot's evidence: the participant keeps it in files, each made   *)
(* from an earlier one by a command of the pilot CLI, and posts a file to  *)
(* the gateway, which saves it statement by statement, without a           *)
(* transaction.  Posts overlap, stop halfway and are repeated; an older    *)
(* file may arrive after a newer one.                                      *)
(*                                                                         *)
(* One engagement of an independent participant.  Commercial payments are  *)
(* kept elsewhere: no command adds one, and a post with one is refused.    *)
(***************************************************************************)
EXTENDS Naturals, Sequences, Selection

CONSTANTS
    PilotWallet,        \* wallets whose session may post
    Stage,              \* the stages that a completed activation passed
    Required,           \* the consents that completion asks for
    FollowUp,           \* the consents to be asked again on day seven
    Post,               \* posts the gateway serves at once
    Result,             \* how a stage may go
    Outcome,            \* what may be observed on day seven
    Response,           \* what may be answered about the price
    DueAfter,           \* seven days
    Instant,            \* moments at which a stage may be recorded
    Told,               \* moments the participant may name
    MaxCommands, MaxPosts, \* bounds on the commands and the posts
    None

Scope == Required \cup FollowUp
EvidenceKinds == {"intervention", "event", "observation", "answer"}

\* what all the schemas of a file's items have in common
PilotItem ==
    [id : Nat, kind : EvidenceKinds \cup {"consent"},
     name : Stage \cup Scope \cup {"day7", "price"},
     value : Result \cup Outcome \cup Response \cup {"support", "granted", "denied", "withdrawn"},
     at : Instant \cup Told \cup {0}]

ASSUME PilotAssumption ==
    /\ None \notin PilotItem
    /\ FollowUp \cap Required = {}
    /\ Result \subseteq {"passed", "failed", "unknown"}
    /\ Outcome \subseteq {"retained", "removed", "unknown", "ineligible"}
    /\ Response \subseteq {"yes", "maybe", "no", "declined", "unknown"}
    /\ {DueAfter, MaxCommands, MaxPosts} \cup Instant \cup Told \subseteq Nat

VARIABLES
    files,          \* the engagement files of the participant
    commands,       \* how many commands were run: the identifiers of what they add
    engagement,     \* the owner of the pilot_engagements row
    evidence,       \* the rows of the other tables, under the ids of their items
    consents,       \* pilot_consents: the item of each scope
    posts,          \* what each post still has to save
    postCount,      \* how many posts there were
    recorded,       \* history: the items but consents that were answered with 202
    alone           \* history: the file of the last post, if it met no other

localVars == <<files, commands>>
hostedVars == <<engagement, evidence, consents>>
pilotVars == <<localVars, hostedVars, posts, postCount, recorded, alone>>

Items(f) == {f[i] : i \in DOMAIN f}
OfKind(f, k) == Selected(f, {i \in Items(f) : i.kind = k})

-----------------------------------------------------------------------------
(* The pilot CLI: a file is the sequence of its items.                     *)

Item(k, name, value, at) ==
    [id |-> commands + 1, kind |-> k, name |-> name, value |-> value, at |-> at]

\* every mutation reads one file and writes another that did not exist
WriteExclusive(f) ==
    /\ files' = files \cup {f}
    /\ commands' = commands + 1
    /\ UNCHANGED <<hostedVars, posts, postCount, recorded, alone>>

AddActivationEvent(f, milestone, outcome, at) ==
    WriteExclusive(Append(f, Item("event", milestone, outcome, at)))

AddIntervention(f, milestone) ==
    WriteExclusive(Append(f, Item("intervention", milestone, "support", 0)))

AddConsent(f, scope, granted) ==
    /\ \A i \in Items(f) : i.kind = "consent" => i.name # scope
    /\ WriteExclusive(Append(f,
           Item("consent", scope, IF granted THEN "granted" ELSE "denied", 0)))

WithdrawConsent(f, scope) ==
    /\ \E i \in Items(f) : i.kind = "consent" /\ i.name = scope
    /\ WriteExclusive([n \in DOMAIN f |->
           IF f[n].kind = "consent" /\ f[n].name = scope
             THEN [f[n] EXCEPT !.value = "withdrawn"] ELSE f[n]])

\* the participant says when it was observed
ObserveDaySevenRetention(f, outcome, at) ==
    /\ outcome = "retained" => at >= DueAfter
    /\ WriteExclusive(Append(f, Item("observation", "day7", outcome, at)))

\* the first file discloses a price; the participant says when it was answered
RecordWillingnessToPay(f, response, at) ==
    WriteExclusive(Append(f, Item("answer", "price", response, at)))

Granted(items, scope) ==
    \E i \in items : i.kind = "consent" /\ i.name = scope /\ i.value = "granted"

Passed(items) == {i.name : i \in {j \in items : j.kind = "event" /\ j.value = "passed"}}

DeriveActivationStatus(items) ==
    (\A s \in Required : Granted(items, s)) /\ Stage \subseteq Passed(items)

\* what the file says last of a kind
LastValue(f, k, default) ==
    LET g == OfKind(f, k) IN IF g = <<>> THEN default ELSE g[Len(g)].value

DerivePilotConversionSummary(f) ==
    [completed |-> DeriveActivationStatus(Items(f)),
     helped |-> OfKind(f, "intervention") # <<>>,
     daySeven |-> LastValue(f, "observation", "ineligible"),
     willingness |-> LastValue(f, "answer", "unknown")]

\* engagement-delete: the receipt is written, then the file is unlinked; a crash
\* between the two leaves the file
DeleteEngagement(f) ==
    /\ files' = files \ {f}
    /\ commands' = commands + 1
    /\ UNCHANGED <<hostedVars, posts, postCount, recorded, alone>>

-----------------------------------------------------------------------------
(* POST /v1/pilots/engagements, one statement at a time.                   *)

Statements(w, f) ==
    <<[kind |-> "engagement", owner |-> w]>>
        \o OfKind(f, "intervention") \o OfKind(f, "event") \o OfKind(f, "consent")
        \o OfKind(f, "observation") \o OfKind(f, "answer")

Serving == {p \in Post : posts[p] # None}

StartPost(p, w, f) ==
    /\ posts[p] = None
    /\ postCount < MaxPosts
    /\ postCount' = postCount + 1
    /\ posts' = [q \in Post |->
           IF q = p THEN [file |-> f, todo |-> Statements(w, f), met |-> Serving # {}]
           ELSE IF q \in Serving THEN [posts[q] EXCEPT !.met = TRUE] ELSE None]
    /\ alone' = None
    /\ UNCHANGED <<localVars, hostedVars, recorded>>

\* ON CONFLICT (engagement_id) DO UPDATE ... WHERE the owner is the same: no
\* error when it is not
SavePilotEngagement(w) ==
    /\ engagement' = IF engagement = None THEN w ELSE engagement
    /\ UNCHANGED <<evidence, consents>>

\* UNIQUE (engagement_id, stage, occurred_at): the statement fails
Refused(i) ==
    /\ i.kind = "event"
    /\ \E e \in evidence : e.kind = "event" /\ e.id # i.id /\ e.name = i.name /\ e.at = i.at

\* ON CONFLICT of the id DO NOTHING
Insert(i) ==
    /\ evidence' = IF \E e \in evidence : e.id = i.id THEN evidence ELSE evidence \cup {i}
    /\ UNCHANGED <<engagement, consents>>

\* a slip: DO NOTHING on a conflict of any key
AppendUnlessConflict(i) ==
    /\ evidence' = IF Refused(i) THEN evidence ELSE evidence \cup {i}
    /\ UNCHANGED <<engagement, consents>>

AppendActivationEvent(i) == ~Refused(i) /\ Insert(i)

SaveSupportIntervention(i) == Insert(i)

\* CHECK: retained only when observed after it was due
SaveRetentionObservation(i) == (i.value = "retained" => i.at >= DueAfter) /\ Insert(i)

SaveWillingnessToPay(i) == Insert(i)

\* a slip: the first answer about a scope is kept
KeepConsent(i) == IF consents[i.name] = None THEN i ELSE consents[i.name]

\* ON CONFLICT (engagement_id, scope) DO UPDATE of the status
MergeConsent(i) ==
    IF consents[i.name] = None THEN i ELSE [consents[i.name] EXCEPT !.value = i.value]

SaveConsentGrant(i) ==
    /\ consents' = [consents EXCEPT ![i.name] = MergeConsent(i)]
    /\ UNCHANGED <<engagement, evidence>>

SaveStatement(p) ==
    /\ posts[p] # None
    /\ posts[p].todo # <<>>
    /\ LET i == Head(posts[p].todo)
       IN  CASE i.kind = "engagement" -> SavePilotEngagement(i.owner)
             [] i.kind = "intervention" -> SaveSupportIntervention(i)
             [] i.kind = "event" -> AppendActivationEvent(i)
             [] i.kind = "consent" -> SaveConsentGrant(i)
             [] i.kind = "observation" -> SaveRetentionObservation(i)
             [] i.kind = "answer" -> SaveWillingnessToPay(i)
    /\ posts' = [posts EXCEPT ![p].todo = Tail(@)]
    /\ UNCHANGED <<localVars, postCount, recorded, alone>>

AnswerRecorded(p) ==
    /\ posts[p] # None
    /\ posts[p].todo = <<>>
    /\ recorded' = recorded \cup {i.id : i \in {j \in Items(posts[p].file) : j.kind # "consent"}}
    /\ alone' = IF posts[p].met THEN None ELSE posts[p].file
    /\ posts' = [posts EXCEPT ![p] = None]
    /\ UNCHANGED <<localVars, hostedVars, postCount>>

\* a refused statement, a database error or the end of the process
BreakOff(p) ==
    /\ posts[p] # None
    /\ posts' = [posts EXCEPT ![p] = None]
    /\ UNCHANGED <<localVars, hostedVars, postCount, recorded, alone>>

\* engagement-init has written the first file
PilotInit ==
    /\ commands = 0 /\ postCount = 0
    /\ files = {<<>>} /\ recorded = {} /\ evidence = {}
    /\ engagement = None /\ alone = None
    /\ consents = [s \in Scope |-> None]
    /\ posts = [p \in Post |-> None]

PilotNext ==
    \/ \E f \in files :
         \/ /\ commands < MaxCommands
            /\ \/ \E s \in Stage, o \in Result, at \in Instant :
                    AddActivationEvent(f, s, o, at)
               \/ \E s \in Scope : AddConsent(f, s, TRUE) \/ AddConsent(f, s, FALSE)
               \/ \E s \in Scope : WithdrawConsent(f, s)
               \/ \E s \in Stage : AddIntervention(f, s)
               \/ \E o \in Outcome, at \in Told : ObserveDaySevenRetention(f, o, at)
               \/ \E o \in Response, at \in Told : RecordWillingnessToPay(f, o, at)
               \/ DeleteEngagement(f)
         \/ \E p \in Post, w \in PilotWallet : StartPost(p, w, f)
    \/ \E p \in Post : SaveStatement(p) \/ AnswerRecorded(p) \/ BreakOff(p)

PilotSpec == PilotInit /\ [][PilotNext]_pilotVars

-----------------------------------------------------------------------------
(* Properties.                                                             *)

\* A 202 means that everything of the file but its consents is in the tables,
\* whatever earlier posts broke off halfway or ran beside it.
RecordedIsStored == \A id \in recorded : \E e \in evidence : e.id = id

HostedItems == evidence \cup {consents[s] : s \in {t \in Scope : consents[t] # None}}

\* DISTINCT ON (engagement_id) ... ORDER BY the time that the row names
Latest(k) == {e \in evidence : e.kind = k /\
                 \A d \in evidence : d.kind = k => d.at <= e.at}

LatestValues(k, default) ==
    IF Latest(k) = {} THEN {default} ELSE {e.value : e \in Latest(k)}

\* any of the summaries that the query may answer with
GetPilotConversionSummary(w) ==
    IF engagement # w THEN {}
    ELSE [completed : {DeriveActivationStatus(HostedItems)},
          helped : {\E e \in evidence : e.kind = "intervention"},
          daySeven : LatestValues("observation", "ineligible"),
          willingness : LatestValues("answer", "unknown")]

\* the times that the participant named follow the order of the file
InOrder(f, k) ==
    LET g == OfKind(f, k) IN \A m, n \in DOMAIN g : m < n => g[m].at < g[n].at

\* After a post that met no other, of a file that knows everything the gateway does,
\* the gateway's summary is the participant's own: a withdrawal that was posted last
\* is not undone, and what was observed or answered last is what counts, if it was
\* the last by its own time, too.
HostedAgreesWithFile ==
    (/\ alone # None
     /\ \A h \in HostedItems : \E i \in Items(alone) : i.id = h.id
     /\ InOrder(alone, "observation") /\ InOrder(alone, "answer")
     /\ engagement \in PilotWallet) =>
        GetPilotConversionSummary(engagement) = {DerivePilotConversionSummary(alone)}

\* Only an independently completed activation whose participant agreed to be asked
\* again is counted as retained (specs/003-paid-pilot-activation).
RetainedIsEligible ==
    (engagement # None /\ "retained" \in LatestValues("observation", "ineligible")) =>
        DeriveActivationStatus(HostedItems) /\ \A s \in FollowUp : Granted(HostedItems, s)

=============================================================================
