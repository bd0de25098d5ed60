---------------------------- MODULE CatalogProofs ----------------------------
(***************************************************************************)
(* Challenges, sessions and the creation of products, for any number of    *)
(* wallets, handlers, nonces, keys and gateway restarts: what is signed is *)
(* what is done, the quota holds, and a key acts once while it lives.      *)
(***************************************************************************)
EXTENDS Catalog, FiniteSetTheorems, TLAPS

-----------------------------------------------------------------------------
(* The inductive invariant of challenges and sessions.                     *)

Counting == {"locked", "counted"}

Doing ==
    {Idle} \cup
    [phase : Counting, request : Request, expires : Nat] \cup
    [phase : {"verifying"}, nonce : Nonce, request : Request, at : Nat] \cup
    [phase : {"authorized", "conflicted"}, request : Request]

AuthTyped ==
    /\ authTime \in Nat
    /\ challenges \subseteq [nonce : Nonce, request : Request, expires : Nat]
    /\ issued \in [Nonce -> Request \cup {NoRequest}]
    /\ signed \subseteq Nonce
    /\ grants \in [Nonce -> Seq(Request)]
    /\ serving \in [Handler -> Doing]

RowsAsIssued ==
    \A c \in challenges : c.request = issued[c.nonce] /\ grants[c.nonce] = <<>>

GrantsAsSigned ==
    /\ \A n \in signed : issued[n] # NoRequest
    /\ \A n \in Nonce : grants[n] = <<>> \/ (n \in signed /\ grants[n] = <<issued[n]>>)

SignedFor(r) == \E n \in signed : issued[n] = r

SignaturesKept ==
    /\ \A h \in Handler : In(h, "authorized") => SignedFor(serving[h].request)
    /\ \A s \in sessions : SignedFor([account |-> s.owner, purpose |-> OpenSession])

AuthInv == AuthTyped /\ RowsAsIssued /\ GrantsAsSigned /\ SignaturesKept

\* A handler's new record leaves the other handlers where they are.
LEMMA SetMovesOne ==
    ASSUME AuthTyped, NEW h \in Handler, NEW doing, Set(h, doing)
    PROVE  /\ serving'[h] = doing
           /\ \A other \in Handler : other # h => serving'[other] = serving[other]
           /\ doing \in Doing => serving' \in [Handler -> Doing]
BY DEF AuthTyped, Set

\* What a handler in each phase remembers.
LEMMA DoingFields ==
    ASSUME NEW d \in Doing
    PROVE  /\ d.phase \in Counting =>
                d \in [phase : Counting, request : Request, expires : Nat]
           /\ d.phase = "verifying" =>
                d \in [phase : {"verifying"}, nonce : Nonce, request : Request, at : Nat]
           /\ d.phase \in {"authorized", "conflicted"} =>
                d \in [phase : {"authorized", "conflicted"}, request : Request]
BY DEF Doing, Counting, Idle

\* A handler that moves on without being authorized, and no new rows, grants or
\* sessions: nothing is claimed that was not signed for.
LEMMA UnauthorizedMoveSafe ==
    ASSUME AuthInv, NEW h \in Handler, NEW doing \in Doing, Set(h, doing),
           doing.phase # "authorized", challenges' \subseteq challenges,
           UNCHANGED <<authTime, sessions, issued, signed, grants>>
    PROVE  AuthInv'
<1>1. AuthTyped'
  BY SetMovesOne DEF AuthInv, AuthTyped
<1>2. RowsAsIssued' /\ GrantsAsSigned'
  BY DEF AuthInv, RowsAsIssued, GrantsAsSigned
<1>3. SignaturesKept'
  BY SetMovesOne DEF AuthInv, SignaturesKept, SignedFor, In
<1> QED
  BY <1>1, <1>2, <1>3 DEF AuthInv

\* The same for a handler that gives its place back.
LEMMA IdleSafe ==
    ASSUME AuthInv, NEW h \in Handler, Set(h, Idle), challenges' \subseteq challenges,
           UNCHANGED <<authTime, sessions, issued, signed, grants>>
    PROVE  AuthInv'
BY UnauthorizedMoveSafe DEF Doing, Idle

\* A new challenge names its request, under a nonce that authorized nothing.
LEMMA SaveChallengeSafe ==
    ASSUME AuthInv, NEW h \in Handler, SaveChallenge(h)
    PROVE  AuthInv'
<1> DEFINE r == serving[h].request
<1>1. r \in Request /\ serving[h].expires \in Nat
  BY DoingFields DEF SaveChallenge, In, Counting, AuthInv, AuthTyped
<1>2. PICK n \in Nonce :
         /\ issued[n] = NoRequest
         /\ issued' = [issued EXCEPT ![n] = r]
         /\ challenges' \subseteq challenges \cup
              {[nonce |-> n, request |-> r, expires |-> serving[h].expires]}
  BY DEF SaveChallenge
<1>3. /\ issued'[n] = r /\ n \notin signed /\ grants[n] = <<>>
      /\ \A m \in Nonce : m # n => issued'[m] = issued[m]
      /\ UNCHANGED <<authTime, sessions, signed, grants>>
  BY <1>2 DEF SaveChallenge, AuthInv, AuthTyped, GrantsAsSigned
<1>4. /\ serving'[h] = Idle /\ serving' \in [Handler -> Doing]
      /\ \A other \in Handler : other # h => serving'[other] = serving[other]
  BY SetMovesOne DEF SaveChallenge, AuthInv, Doing
<1>5. AuthTyped'
  BY <1>1, <1>2, <1>3, <1>4 DEF AuthInv, AuthTyped
<1>6. RowsAsIssued'
  <2> SUFFICES ASSUME NEW c \in challenges'
               PROVE  c.request = issued'[c.nonce] /\ grants'[c.nonce] = <<>>
    BY DEF RowsAsIssued
  <2>1. CASE c \in challenges
    <3>1. c.nonce \in Nonce /\ c.request \in Request /\ c.request = issued[c.nonce]
      BY <2>1 DEF AuthInv, AuthTyped, RowsAsIssued
    <3>2. c.nonce # n
      BY <1>2, <3>1, WalletAuthAssumption
    <3> QED
      BY <1>3, <2>1, <3>1, <3>2 DEF AuthInv, RowsAsIssued
  <2>2. CASE c = [nonce |-> n, request |-> r, expires |-> serving[h].expires]
    BY <1>3, <2>2
  <2> QED
    BY <1>2, <2>1, <2>2
<1>7. GrantsAsSigned'
  BY <1>3 DEF AuthInv, AuthTyped, GrantsAsSigned
<1>8. ASSUME NEW x, SignedFor(x)
      PROVE  SignedFor(x)'
  BY <1>3, <1>8 DEF AuthInv, AuthTyped, SignedFor
<1>9. SignaturesKept'
  <2>1. ASSUME NEW other \in Handler, In(other, "authorized")'
        PROVE  SignedFor(serving[other].request) /\ serving'[other] = serving[other]
    BY <1>4, <2>1 DEF AuthInv, SignaturesKept, In, Idle
  <2>2. \A s \in sessions : SignedFor([account |-> s.owner, purpose |-> OpenSession])
    BY DEF AuthInv, SignaturesKept
  <2> QED
    BY <1>3, <1>8, <2>1, <2>2 DEF SignaturesKept
<1> QED
  BY <1>5, <1>6, <1>7, <1>9 DEF AuthInv

\* A verification authorizes the request its row names, once: the row goes, and
\* a nonce with a row has authorized nothing before.
LEMMA ConsumeChallengeSafe ==
    ASSUME AuthInv, NEW h \in Handler, ConsumeChallenge(h)
    PROVE  AuthInv'
<1> DEFINE n == serving[h].nonce
           r == serving[h].request
           valid == \E c \in Row(n) : Names(c, r) /\ c.expires >= serving[h].at /\ n \in signed
<1>1. n \in Nonce /\ r \in Request
  BY DoingFields DEF ConsumeChallenge, In, AuthInv, AuthTyped
<1>2. /\ challenges' = {c \in challenges : c.nonce # n}
      /\ UNCHANGED <<authTime, sessions, issued, signed>>
  BY DEF ConsumeChallenge, Consumed, Row
<1>3. CASE ~valid
  <2>1. Set(h, Idle) /\ UNCHANGED grants
    BY <1>3 DEF ConsumeChallenge
  <2> QED
    BY <1>2, <2>1, IdleSafe
<1>4. CASE valid
  <2>1. issued[n] = r /\ grants[n] = <<>> /\ n \in signed
    BY <1>4 DEF Row, Names, AuthInv, RowsAsIssued
  <2>2. /\ Set(h, [phase |-> "authorized", request |-> r])
        /\ grants' = [grants EXCEPT ![n] = Append(@, r)]
    BY <1>4 DEF ConsumeChallenge
  <2>3. /\ grants'[n] = <<r>>
        /\ \A m \in Nonce : m # n => grants'[m] = grants[m]
        /\ grants' \in [Nonce -> Seq(Request)]
    <3>1. Append(<<>>, r) = <<r>> /\ <<r>> \in Seq(Request)
      BY <1>1
    <3> QED
      BY <1>1, <2>1, <2>2, <3>1 DEF AuthInv, AuthTyped
  <2>4. [phase |-> "authorized", request |-> r] \in Doing
    BY <1>1 DEF Doing
  <2>5. /\ serving'[h] = [phase |-> "authorized", request |-> r]
        /\ serving' \in [Handler -> Doing]
        /\ \A other \in Handler : other # h => serving'[other] = serving[other]
    BY <2>2, <2>4, SetMovesOne DEF AuthInv
  <2>6. AuthTyped'
    BY <1>2, <2>3, <2>5 DEF AuthInv, AuthTyped
  <2>7. RowsAsIssued'
    BY <1>2, <2>3 DEF AuthInv, AuthTyped, RowsAsIssued
  <2>8. GrantsAsSigned'
    BY <1>2, <2>1, <2>3 DEF AuthInv, GrantsAsSigned
  <2>9. SignaturesKept'
    BY <1>2, <2>1, <2>5 DEF AuthInv, SignaturesKept, SignedFor, In
  <2> QED
    BY <2>6, <2>7, <2>8, <2>9 DEF AuthInv
<1> QED
  BY <1>3, <1>4

\* A session opens for the wallet of an authorized request.
LEMMA CreateSessionSafe ==
    ASSUME AuthInv, NEW h \in Handler, CreateSession(h)
    PROVE  AuthInv'
<1> DEFINE r == serving[h].request
<1>1. r \in Request /\ r.purpose = OpenSession /\ SignedFor(r)
  BY DoingFields DEF CreateSession, In, AuthInv, AuthTyped, SignaturesKept
<1>2. r = [account |-> r.account, purpose |-> OpenSession]
  BY <1>1 DEF Request
<1>3. sessions' = sessions \cup {SessionRow(r.account)} /\ SessionRow(r.account).owner = r.account
  BY DEF CreateSession, SessionRow
<1>4. /\ serving'[h] = Idle /\ serving' \in [Handler -> Doing]
      /\ \A other \in Handler : other # h => serving'[other] = serving[other]
      /\ UNCHANGED <<authTime, challenges, issued, signed, grants>>
  BY SetMovesOne DEF CreateSession, AuthInv, Doing
<1>5. AuthTyped' /\ RowsAsIssued' /\ GrantsAsSigned'
  BY <1>4 DEF AuthInv, AuthTyped, RowsAsIssued, GrantsAsSigned
<1>6. SignaturesKept'
  BY <1>1, <1>2, <1>3, <1>4 DEF AuthInv, SignaturesKept, SignedFor, In, Idle
<1> QED
  BY <1>5, <1>6 DEF AuthInv

\* A signature, a sweep of expired rows and the clock change nobody's request.
LEMMA WorldStepSafe ==
    ASSUME AuthInv,
           (\E n \in Nonce : Sign(n)) \/ SweepAuth \/ PassAuthTime \/ UNCHANGED authVars
    PROVE  AuthInv'
<1>1. CASE \E n \in Nonce : Sign(n)
  <2>1. PICK n \in Nonce : Sign(n)
    BY <1>1
  <2>2. AuthTyped' /\ RowsAsIssued' /\ GrantsAsSigned'
    BY <2>1 DEF Sign, AuthInv, AuthTyped, RowsAsIssued, GrantsAsSigned
  <2>3. SignaturesKept'
    BY <2>1 DEF Sign, AuthInv, SignaturesKept, SignedFor, In
  <2> QED
    BY <2>2, <2>3 DEF AuthInv
<1>2. CASE SweepAuth \/ UNCHANGED authVars
  BY <1>2 DEF SweepAuth, authVars, AuthInv, AuthTyped, RowsAsIssued, GrantsAsSigned,
              SignaturesKept, SignedFor, In
<1>3. CASE PassAuthTime
  BY <1>3 DEF PassAuthTime, AuthInv, AuthTyped, RowsAsIssued, GrantsAsSigned,
              SignaturesKept, SignedFor, In
<1> QED
  BY <1>1, <1>2, <1>3

\* What the catalog's own statements do to challenges and sessions.
LEMMA CatalogLeavesSignatures ==
    ASSUME AuthInv, NEW h \in Handler, CreateProduct(h) \/ KeyTaken(h) \/ ReplayResponse(h)
    PROVE  AuthInv'
<1>1. CASE CreateProduct(h) \/ ReplayResponse(h)
  BY <1>1, IdleSafe DEF CreateProduct, ReplayResponse
<1>2. CASE KeyTaken(h)
  <2>1. serving[h] \in [phase : {"authorized", "conflicted"}, request : Request]
    BY <1>2, DoingFields DEF KeyTaken, In, AuthInv, AuthTyped
  <2>2. [serving[h] EXCEPT !.phase = "conflicted"] \in
          [phase : {"conflicted"}, request : Request]
    BY <2>1
  <2> QED
    BY <1>2, <2>2, UnauthorizedMoveSafe DEF KeyTaken, Doing
<1> QED
  BY <1>1, <1>2

\* Every step of the gateway keeps the signatures.
LEMMA NextAuthSafe ==
    ASSUME AuthInv, [CatalogNext]_catalogVars
    PROVE  AuthInv'
<1>1. ASSUME NEW h \in Handler, AuthStep(h)
      PROVE  AuthInv'
  <2>1. ASSUME NEW r \in Request, AskChallenge(h, r)
        PROVE  AuthInv'
    <3>1. [phase |-> "locked", request |-> r, expires |-> authTime + ChallengeLife] \in Doing
      <4>1. authTime + ChallengeLife \in Nat
        BY WalletAuthAssumption DEF AuthInv, AuthTyped
      <4> QED
        BY <4>1 DEF Doing, Counting
    <3> QED
      BY <2>1, <3>1, UnauthorizedMoveSafe DEF AskChallenge
  <2>2. ASSUME NEW r \in Request, NEW n \in Nonce, Present(h, n, r)
        PROVE  AuthInv'
    <3>1. [phase |-> "verifying", nonce |-> n, request |-> r, at |-> authTime] \in Doing
      BY DEF Doing, AuthInv, AuthTyped
    <3> QED
      BY <2>2, <3>1, UnauthorizedMoveSafe DEF Present
  <2>3. CASE CountChallenges(h)
    <3>1. serving[h] \in [phase : Counting, request : Request, expires : Nat]
      BY <2>3, DoingFields DEF CountChallenges, In, Counting, AuthInv, AuthTyped
    <3>2. [serving[h] EXCEPT !.phase = "counted"] \in
            [phase : {"counted"}, request : Request, expires : Nat]
      BY <3>1
    <3>3. CASE Set(h, Idle)
      BY <2>3, <3>3, IdleSafe DEF CountChallenges
    <3>4. CASE Set(h, [serving[h] EXCEPT !.phase = "counted"])
      BY <2>3, <3>2, <3>4, UnauthorizedMoveSafe DEF CountChallenges, Doing, Counting
    <3> QED
      BY <2>3, <3>3, <3>4 DEF CountChallenges
  <2>4. CASE SaveChallenge(h)
    BY <2>4, SaveChallengeSafe
  <2>5. CASE ConsumeChallenge(h)
    BY <2>5, ConsumeChallengeSafe
  <2>6. CASE CreateSession(h)
    BY <2>6, CreateSessionSafe
  <2> QED
    BY <1>1, <2>1, <2>2, <2>3, <2>4, <2>5, <2>6 DEF AuthStep
<1>2. ASSUME NEW h \in Handler, GiveUp(h)
      PROVE  AuthInv'
  BY <1>2, IdleSafe DEF GiveUp
<1>3. ASSUME NEW h \in Handler, CreateProduct(h) \/ KeyTaken(h) \/ ReplayResponse(h)
      PROVE  AuthInv'
  BY <1>3, CatalogLeavesSignatures
<1>4. CASE (\E n \in Nonce : Sign(n)) \/ PassAuthTime \/ CleanupCatalog \/ StartGateway
  BY <1>4, WorldStepSafe DEF CleanupCatalog, StartGateway
<1>5. CASE UNCHANGED catalogVars
  BY <1>5, WorldStepSafe DEF catalogVars
<1> QED
  BY <1>1, <1>2, <1>3, <1>4, <1>5 DEF CatalogNext

\* At the start there is nothing to be signed for.
LEMMA AuthInitSafe == CatalogInit => AuthInv
BY DEF CatalogInit, AuthInit, AuthInv, AuthTyped, RowsAsIssued, GrantsAsSigned,
       SignaturesKept, SignedFor, In, Doing, Idle

\* What a challenge authorizes is what its wallet's owner signed, once, and a
\* session belongs to a wallet that asked for it: whatever races or is repeated.
THEOREM OnlySignedIsAuthorized == CatalogSpec => []AuthorizedAsSigned
<1>1. AuthInv => AuthorizedAsSigned
  <2> SUFFICES ASSUME AuthInv PROVE AuthorizedAsSigned
    OBVIOUS
  <2>1. ASSUME NEW n \in Nonce
        PROVE  /\ Len(grants[n]) <= 1
               /\ \A i \in DOMAIN grants[n] : grants[n][i] = issued[n] /\ n \in signed
    <3>1. CASE grants[n] = <<>>
      BY <3>1
    <3>2. CASE n \in signed /\ grants[n] = <<issued[n]>>
      BY <3>2
    <3> QED
      BY <3>1, <3>2 DEF AuthInv, GrantsAsSigned
  <2>2. ASSUME NEW a \in Account, HasSession(a)
        PROVE  \E n \in signed : issued[n] = [account |-> a, purpose |-> OpenSession]
    BY <2>2 DEF HasSession, AuthInv, SignaturesKept, SignedFor
  <2> QED
    BY <2>1, <2>2 DEF AuthorizedAsSigned
<1> QED
  BY <1>1, AuthInitSafe, NextAuthSafe, PTL DEF CatalogSpec

-----------------------------------------------------------------------------
(* The quota.  Between the count and the insert only the holder of the     *)
(* wallet's lock adds to its challenges.                                   *)

LocksApart ==
    \A h1, h2 \in Handler :
        /\ serving[h1].phase \in Counting
        /\ serving[h2].phase \in Counting
        /\ serving[h1].request.account = serving[h2].request.account
        => h1 = h2

RoomCounted ==
    \A h \in Handler :
        In(h, "counted") => Cardinality(Unexpired(serving[h].request.account)) < MaxActive

QuotaInv == IsFiniteSet(challenges) /\ LocksApart /\ RoomCounted /\ ActiveWithinQuota

\* the wallet's open challenges after a step
OpenNext(a) == {c \in challenges' : c.request.account = a /\ c.expires > authTime'}

\* Challenges that go, or expire, are no longer open.
LEMMA FewerOpen ==
    ASSUME AuthInv, IsFiniteSet(challenges), challenges' \subseteq challenges,
           authTime' \in Nat, authTime <= authTime', NEW a
    PROVE  /\ Cardinality(OpenNext(a)) \in Nat
           /\ Cardinality(Unexpired(a)) \in Nat
           /\ Cardinality(OpenNext(a)) <= Cardinality(Unexpired(a))
<1>1. IsFiniteSet(Unexpired(a))
  BY FS_Subset DEF Unexpired, OpenNext
<1>2. OpenNext(a) \subseteq Unexpired(a)
  BY DEF Unexpired, OpenNext, AuthInv, AuthTyped
<1> QED
  BY <1>1, <1>2, FS_Subset, FS_CardinalityType

\* A step in which no handler starts to count, and nothing is added, keeps it.
LEMMA NoCountSafe ==
    ASSUME AuthInv, QuotaInv, challenges' \subseteq challenges,
           authTime' \in Nat, authTime <= authTime',
           \A h \in Handler : serving'[h] = serving[h] \/ serving'[h].phase \notin Counting
    PROVE  QuotaInv'
<1>1. \A a : /\ Cardinality(OpenNext(a)) \in Nat
             /\ Cardinality(Unexpired(a)) \in Nat
             /\ Cardinality(OpenNext(a)) <= Cardinality(Unexpired(a))
  BY FewerOpen DEF QuotaInv
<1>2. IsFiniteSet(challenges') /\ LocksApart'
  BY FS_Subset DEF QuotaInv, LocksApart
<1>3. RoomCounted'
  <2> SUFFICES ASSUME NEW h \in Handler, serving'[h].phase = "counted"
               PROVE  Cardinality(OpenNext(serving'[h].request.account)) < MaxActive
    BY DEF RoomCounted, In, Unexpired, OpenNext
  <2>1. serving'[h] = serving[h]
    BY DEF Counting
  <2>2. Cardinality(Unexpired(serving[h].request.account)) < MaxActive
    BY <2>1 DEF QuotaInv, RoomCounted, In
  <2> QED
    BY <1>1, <2>1, <2>2, WalletAuthAssumption
<1>4. ActiveWithinQuota'
  <2> SUFFICES ASSUME NEW a \in Account PROVE Cardinality(OpenNext(a)) <= MaxActive
    BY DEF ActiveWithinQuota, Unexpired, OpenNext
  <2>1. Cardinality(Unexpired(a)) <= MaxActive
    BY DEF QuotaInv, ActiveWithinQuota
  <2> QED
    BY <1>1, <2>1, WalletAuthAssumption
<1> QED
  BY <1>2, <1>3, <1>4 DEF QuotaInv

\* The advisory lock: a handler starts to count when nobody else counts.
LEMMA AskChallengeQuota ==
    ASSUME AuthInv, QuotaInv, NEW h \in Handler, NEW r \in Request, AskChallenge(h, r)
    PROVE  QuotaInv'
<1>1. /\ serving'[h].phase = "locked" /\ serving'[h].request = r
      /\ \A other \in Handler : other # h => serving'[other] = serving[other]
      /\ UNCHANGED <<challenges, authTime>>
  BY SetMovesOne DEF AskChallenge, AuthInv
<1>2. LocksApart'
  BY <1>1 DEF AskChallenge, LockFree, QuotaInv, LocksApart, Counting
<1>3. RoomCounted'
  BY <1>1 DEF QuotaInv, RoomCounted, In, Unexpired, OpenNext
<1> QED
  BY <1>1, <1>2, <1>3 DEF QuotaInv, ActiveWithinQuota, Unexpired, OpenNext

\* A count that finds room remembers it, one that does not ends the request.
LEMMA CountQuota ==
    ASSUME AuthInv, QuotaInv, NEW h \in Handler, CountChallenges(h)
    PROVE  QuotaInv'
<1>1. serving[h] \in [phase : Counting, request : Request, expires : Nat]
  BY DoingFields DEF CountChallenges, In, Counting, AuthInv, AuthTyped
<1>2. UNCHANGED <<challenges, authTime>> /\ authTime \in Nat
  BY DEF CountChallenges, AuthInv, AuthTyped
<1>3. CASE Set(h, Idle)
  <2>1. \A other \in Handler :
          serving'[other] = serving[other] \/ serving'[other].phase \notin Counting
    BY <1>3, SetMovesOne DEF AuthInv, Idle, Counting
  <2> QED
    BY <1>2, <2>1, NoCountSafe
<1>4. CASE ~(Cardinality(Unexpired(serving[h].request.account)) >= MaxActive)
  <2>1. Set(h, [serving[h] EXCEPT !.phase = "counted"])
    BY <1>4 DEF CountChallenges
  <2>2. /\ serving'[h].phase = "counted" /\ serving'[h].request = serving[h].request
        /\ \A other \in Handler : other # h => serving'[other] = serving[other]
    BY <1>1, <2>1, SetMovesOne DEF AuthInv
  <2>3. LocksApart'
    BY <1>1, <2>2 DEF QuotaInv, LocksApart, Counting
  <2>4. Cardinality(Unexpired(serving[h].request.account)) < MaxActive
    <3>1. Cardinality(Unexpired(serving[h].request.account)) \in Nat
      BY <1>2, FewerOpen DEF QuotaInv
    <3> QED
      BY <1>4, <3>1, WalletAuthAssumption
  <2>5. RoomCounted'
    BY <1>2, <2>2, <2>4 DEF QuotaInv, RoomCounted, In, Unexpired, OpenNext
  <2> QED
    BY <1>2, <2>3, <2>5 DEF QuotaInv, ActiveWithinQuota, Unexpired, OpenNext
<1> QED
  BY <1>3, <1>4 DEF CountChallenges

\* The insert takes the room that was counted under the same lock.
LEMMA SaveQuota ==
    ASSUME AuthInv, QuotaInv, NEW h \in Handler, SaveChallenge(h)
    PROVE  QuotaInv'
<1> DEFINE r == serving[h].request
<1>1. PICK new :
         /\ challenges' \subseteq challenges \cup {new}
         /\ new.request = r
  BY DEF SaveChallenge
<1>2. authTime' = authTime /\ authTime \in Nat /\ IsFiniteSet(challenges)
  BY DEF SaveChallenge, AuthInv, AuthTyped, QuotaInv
<1>3. \A other \in Handler :
         /\ other # h => serving'[other] = serving[other]
         /\ other = h => serving'[other].phase \notin Counting
  BY SetMovesOne DEF SaveChallenge, AuthInv, Idle, Counting
<1>4. ASSUME NEW a, a # r.account
      PROVE  OpenNext(a) \subseteq Unexpired(a)
  BY <1>1, <1>2, <1>4 DEF Unexpired, OpenNext
<1>5. ASSUME NEW a
      PROVE  IsFiniteSet(Unexpired(a)) /\ Cardinality(Unexpired(a)) \in Nat
  BY <1>2, FS_Subset, FS_CardinalityType DEF Unexpired, OpenNext
<1>6. ASSUME NEW a, a # r.account
      PROVE  /\ Cardinality(OpenNext(a)) \in Nat
             /\ Cardinality(OpenNext(a)) <= Cardinality(Unexpired(a))
  BY <1>4, <1>5, <1>6, FS_Subset, FS_CardinalityType
<1>7. Cardinality(OpenNext(r.account)) <= MaxActive
  <2>1. Cardinality(Unexpired(r.account)) < MaxActive
    BY DEF SaveChallenge, QuotaInv, RoomCounted, In
  <2>2. OpenNext(r.account) \subseteq Unexpired(r.account) \cup {new}
    BY <1>1, <1>2 DEF Unexpired, OpenNext
  <2>3. /\ IsFiniteSet(Unexpired(r.account) \cup {new})
        /\ Cardinality(Unexpired(r.account) \cup {new})
             \in {Cardinality(Unexpired(r.account)), Cardinality(Unexpired(r.account)) + 1}
    BY <1>5, FS_AddElement
  <2>4. /\ Cardinality(OpenNext(r.account)) \in Nat
        /\ Cardinality(OpenNext(r.account)) <= Cardinality(Unexpired(r.account) \cup {new})
    BY <2>2, <2>3, FS_Subset, FS_CardinalityType
  <2> QED
    BY <1>5, <2>1, <2>3, <2>4, WalletAuthAssumption
<1>8. IsFiniteSet(challenges')
  BY <1>1, <1>2, FS_AddElement, FS_Subset
<1>9. LocksApart'
  BY <1>3 DEF QuotaInv, LocksApart
<1>10. RoomCounted'
  <2> SUFFICES ASSUME NEW other \in Handler, serving'[other].phase = "counted"
               PROVE  Cardinality(OpenNext(serving'[other].request.account)) < MaxActive
    BY DEF RoomCounted, In, Unexpired, OpenNext
  <2>1. other # h /\ serving'[other] = serving[other]
    BY <1>3 DEF Counting
  <2>2. serving[other].request.account # r.account
    BY <2>1 DEF SaveChallenge, QuotaInv, LocksApart, In, Counting
  <2>3. Cardinality(Unexpired(serving[other].request.account)) < MaxActive
    BY <2>1 DEF QuotaInv, RoomCounted, In
  <2> QED
    BY <1>5, <1>6, <2>1, <2>2, <2>3, WalletAuthAssumption
<1>11. ActiveWithinQuota'
  <2> SUFFICES ASSUME NEW a \in Account PROVE Cardinality(OpenNext(a)) <= MaxActive
    BY DEF ActiveWithinQuota, Unexpired, OpenNext
  <2>1. Cardinality(Unexpired(a)) <= MaxActive
    BY DEF QuotaInv, ActiveWithinQuota
  <2> QED
    BY <1>5, <1>6, <1>7, <2>1, WalletAuthAssumption
<1> QED
  BY <1>8, <1>9, <1>10, <1>11 DEF QuotaInv

\* Every step of the gateway keeps the quota.
LEMMA NextQuotaSafe ==
    ASSUME AuthInv, QuotaInv, [CatalogNext]_catalogVars
    PROVE  QuotaInv'
<1>1. authTime \in Nat
  BY DEF AuthInv, AuthTyped
<1>2. ASSUME NEW h \in Handler, NEW doing, Set(h, doing), doing.phase \notin Counting,
             challenges' \subseteq challenges, authTime' = authTime
      PROVE  QuotaInv'
  <2>1. \A other \in Handler :
          serving'[other] = serving[other] \/ serving'[other].phase \notin Counting
    BY <1>2, SetMovesOne DEF AuthInv
  <2> QED
    BY <1>1, <1>2, <2>1, NoCountSafe
<1>3. ASSUME challenges' \subseteq challenges, authTime' \in {authTime, authTime + 1},
             serving' = serving
      PROVE  QuotaInv'
  BY <1>1, <1>3, NoCountSafe
<1>4. Idle.phase \notin Counting
  BY DEF Idle, Counting
<1>5. ASSUME NEW h \in Handler, AuthStep(h)
      PROVE  QuotaInv'
  <2>1. ASSUME NEW r \in Request, AskChallenge(h, r)
        PROVE  QuotaInv'
    BY <2>1, AskChallengeQuota
  <2>2. ASSUME NEW r \in Request, NEW n \in Nonce, Present(h, n, r)
        PROVE  QuotaInv'
    BY <1>2, <2>2 DEF Present, Counting
  <2>3. CASE CountChallenges(h)
    BY <2>3, CountQuota
  <2>4. CASE SaveChallenge(h)
    BY <2>4, SaveQuota
  <2>5. CASE ConsumeChallenge(h)
    <3>1. \/ Set(h, Idle)
          \/ Set(h, [phase |-> "authorized", request |-> serving[h].request])
      BY <2>5 DEF ConsumeChallenge
    <3>2. challenges' \subseteq challenges /\ authTime' = authTime
      BY <2>5 DEF ConsumeChallenge, Consumed
    <3> QED
      BY <1>2, <1>4, <3>1, <3>2 DEF Counting
  <2>6. CASE CreateSession(h)
    BY <1>2, <1>4, <2>6 DEF CreateSession
  <2> QED
    BY <1>5, <2>1, <2>2, <2>3, <2>4, <2>5, <2>6 DEF AuthStep
<1>6. ASSUME NEW h \in Handler, GiveUp(h) \/ CreateProduct(h) \/ ReplayResponse(h)
      PROVE  QuotaInv'
  BY <1>2, <1>4, <1>6 DEF GiveUp, CreateProduct, ReplayResponse
<1>7. ASSUME NEW h \in Handler, KeyTaken(h)
      PROVE  QuotaInv'
  <2>1. serving[h] \in [phase : {"authorized", "conflicted"}, request : Request]
    BY <1>7, DoingFields DEF KeyTaken, In, AuthInv, AuthTyped
  <2>2. [serving[h] EXCEPT !.phase = "conflicted"].phase \notin Counting
    BY <2>1 DEF Counting
  <2> QED
    BY <1>2, <1>7, <2>2 DEF KeyTaken
<1>8. CASE (\E n \in Nonce : Sign(n)) \/ PassAuthTime \/ CleanupCatalog \/ StartGateway
  BY <1>3, <1>8 DEF Sign, PassAuthTime, CleanupCatalog, SweepAuth, StartGateway, authVars
<1>9. CASE UNCHANGED catalogVars
  BY <1>3, <1>9 DEF catalogVars, authVars
<1> QED
  BY <1>5, <1>6, <1>7, <1>8, <1>9 DEF CatalogNext

\* Without challenges the quota holds.
LEMMA QuotaInitSafe == CatalogInit => QuotaInv
<1> SUFFICES ASSUME CatalogInit PROVE QuotaInv
  OBVIOUS
<1>1. \A a : Unexpired(a) = {}
  BY DEF CatalogInit, AuthInit, Unexpired
<1>2. IsFiniteSet(challenges) /\ Cardinality({}) = 0
  BY FS_EmptySet DEF CatalogInit, AuthInit
<1>3. \A h \in Handler : serving[h].phase \notin Counting
  BY DEF CatalogInit, AuthInit, Idle, Counting
<1> QED
  BY <1>1, <1>2, <1>3, WalletAuthAssumption
     DEF QuotaInv, LocksApart, RoomCounted, ActiveWithinQuota, In, Counting

\* However many requests of a wallet are counted at once, its quota holds.
THEOREM QuotaHolds == CatalogSpec => []ActiveWithinQuota
<1>1. AuthInv /\ QuotaInv /\ [CatalogNext]_catalogVars => AuthInv' /\ QuotaInv'
  BY NextAuthSafe, NextQuotaSafe
<1>2. QuotaInv => ActiveWithinQuota
  BY DEF QuotaInv
<1> QED
  BY <1>1, <1>2, AuthInitSafe, QuotaInitSafe, PTL DEF CatalogSpec

-----------------------------------------------------------------------------
(* Idempotent creation.  A key's row outlives every write made under it,   *)
(* so a key that is free again belongs to writes that are old enough.      *)

Describes(body, r) == body = [owner |-> r.account, version |-> r.purpose.version]

KeysTyped ==
    /\ writes \in Seq([key : Key, at : Nat])
    /\ keys \subseteq [key : Key, request : Request,
                      body : [owner : Account, version : Version], expires : Nat]

KeysDescribe ==
    /\ \A row \in keys : Describes(row.body, row.request)
    /\ \A a \in answers : Describes(a.body, a.request)

WritesCovered ==
    \A i \in DOMAIN writes :
        /\ writes[i].at <= authTime
        /\ \A row \in KeyRow(writes[i].key) : writes[i].at + KeyLife <= row.expires
        /\ KeyRow(writes[i].key) = {} => writes[i].at + KeyLife <= authTime

KeysInv == KeysTyped /\ KeysDescribe /\ WritesCovered /\ WritesPerKeyAreApart

\* What is in a sequence.
LEMMA ElementOfSequence ==
    ASSUME NEW S, NEW seq \in Seq(S), NEW i \in DOMAIN seq
    PROVE  seq[i] \in S
OBVIOUS

\* The time of a write.
LEMMA WriteHasTime ==
    ASSUME KeysTyped, NEW i \in DOMAIN writes
    PROVE  writes[i].at \in Nat
<1>1. writes \in Seq([key : Key, at : Nat])
  BY DEF KeysTyped
<1>2. writes[i] \in [key : Key, at : Nat]
  BY <1>1, ElementOfSequence
<1> QED
  BY <1>2

\* A write under a free key comes after the life of all earlier ones.
LEMMA CreateKeysSafe ==
    ASSUME AuthInv, KeysInv, NEW h \in Handler, CreateProduct(h)
    PROVE  KeysInv'
<1> DEFINE r == serving[h].request
           k == r.purpose.key
           body == [owner |-> r.account, version |-> r.purpose.version]
           row == [key |-> k, request |-> r, body |-> body, expires |-> authTime + KeyLife]
           n == Len(writes) + 1
<1>1. r \in Request /\ r.purpose \in Order
  BY DoingFields DEF CreateProduct, In, AuthInv, AuthTyped
<1>2. k \in Key /\ body \in [owner : Account, version : Version]
  BY <1>1 DEF Request, Order
<1>3. authTime \in Nat /\ KeyLife \in Nat /\ authTime' = authTime
  BY CatalogAssumption DEF CreateProduct, AuthInv, AuthTyped
<1>4. /\ \A old \in keys : old.key # k
      /\ keys' = keys \cup {row}
      /\ writes' = Append(writes, [key |-> k, at |-> authTime])
      /\ answers' = answers \cup {[request |-> r, body |-> body]}
  BY DEF CreateProduct, KeyFree, KeyRow
<1>5. writes \in Seq([key : Key, at : Nat]) /\ [key |-> k, at |-> authTime] \in [key : Key, at : Nat]
  BY <1>2, <1>3 DEF KeysInv, KeysTyped
<1>6. /\ writes' \in Seq([key : Key, at : Nat])
      /\ DOMAIN writes' = DOMAIN writes \cup {n}
      /\ writes'[n] = [key |-> k, at |-> authTime]
      /\ \A i \in DOMAIN writes :
            /\ writes'[i] = writes[i] /\ i < n /\ i \in Nat
            /\ writes[i] \in [key : Key, at : Nat]
  <2>1. writes' \in Seq([key : Key, at : Nat])
    BY <1>4, <1>5
  <2>2. Len(writes) \in Nat /\ DOMAIN writes = 1 .. Len(writes)
    BY <1>5
  <2>3. Len(writes') = n /\ DOMAIN writes' = 1 .. Len(writes')
    BY <1>4, <1>5
  <2>4. writes'[n] = [key |-> k, at |-> authTime]
    BY <1>4, <1>5
  <2>5. \A i \in 1 .. Len(writes) : writes'[i] = writes[i]
    BY <1>4, <1>5
  <2>6. \A i \in DOMAIN writes : writes[i] \in [key : Key, at : Nat]
    BY <1>5, ElementOfSequence
  <2> QED
    BY <2>1, <2>2, <2>3, <2>4, <2>5, <2>6
<1>7. KeysTyped'
  BY <1>1, <1>2, <1>3, <1>4, <1>6 DEF KeysInv, KeysTyped
<1>8. KeysDescribe'
  BY <1>4 DEF KeysInv, KeysDescribe, Describes
<1>9. \A i \in DOMAIN writes :
         writes[i].key = k => writes[i].at + KeyLife <= authTime
  BY <1>4 DEF KeysInv, WritesCovered, KeyRow
<1>10. WritesCovered'
  <2> SUFFICES ASSUME NEW i \in DOMAIN writes'
               PROVE  /\ writes'[i].at <= authTime'
                      /\ \A new \in keys' : new.key = writes'[i].key =>
                            writes'[i].at + KeyLife <= new.expires
                      /\ (\A new \in keys' : new.key # writes'[i].key) =>
                            writes'[i].at + KeyLife <= authTime'
    BY DEF WritesCovered, KeyRow
  <2>1. CASE i = n
    <3>1. writes'[i].at = authTime /\ writes'[i].key = k
      BY <1>6, <2>1
    <3>2. row \in keys' /\ row.key = k /\ row.expires = authTime + KeyLife
      BY <1>4
    <3>3. \A new \in keys' : new.key = k => new = row
      BY <1>4
    <3> QED
      BY <1>3, <3>1, <3>2, <3>3
  <2>2. CASE i \in DOMAIN writes
    <3>1. writes'[i] = writes[i] /\ writes[i].at \in Nat
      BY <1>6, <2>2
    <3>2. writes[i].at <= authTime
      BY <2>2 DEF KeysInv, WritesCovered
    <3>3. ASSUME NEW new \in keys', new.key = writes[i].key
          PROVE  writes[i].at + KeyLife <= new.expires
      <4>1. CASE new \in keys
        BY <2>2, <3>3, <4>1 DEF KeysInv, WritesCovered, KeyRow
      <4>2. CASE new = row
        BY <1>3, <3>1, <3>2, <4>2
      <4> QED
        BY <1>4, <3>3, <4>1, <4>2
    <3>4. ASSUME \A new \in keys' : new.key # writes[i].key
          PROVE  writes[i].at + KeyLife <= authTime
      BY <1>4, <2>2, <3>4 DEF KeysInv, WritesCovered, KeyRow
    <3> QED
      BY <1>3, <3>1, <3>2, <3>3, <3>4
  <2> QED
    BY <1>6, <2>1, <2>2
<1>11. WritesPerKeyAreApart'
  <2> SUFFICES ASSUME NEW i \in DOMAIN writes', NEW j \in DOMAIN writes', i < j,
                      writes'[i].key = writes'[j].key
               PROVE  writes'[j].at >= writes'[i].at + KeyLife
    BY DEF WritesPerKeyAreApart
  <2>1. i \in DOMAIN writes
    BY <1>6
  <2>2. CASE j = n
    BY <1>3, <1>6, <1>9, <2>1, <2>2
  <2>3. CASE j \in DOMAIN writes
    BY <1>6, <2>1, <2>3 DEF KeysInv, WritesPerKeyAreApart
  <2> QED
    BY <1>6, <2>2, <2>3
<1> QED
  BY <1>7, <1>8, <1>10, <1>11 DEF KeysInv

\* Rows that go have expired, and with them every write under their key.
LEMMA SweepKeysSafe ==
    ASSUME AuthInv, KeysInv, CleanupCatalog
    PROVE  KeysInv'
<1>1. /\ keys' = {row \in keys : ~(row.expires <= authTime)}
      /\ UNCHANGED <<authTime, writes, answers>>
  BY DEF CleanupCatalog, SweepAuth, ExpiredKeys
<1>2. KeysTyped' /\ KeysDescribe' /\ WritesPerKeyAreApart'
  BY <1>1 DEF KeysInv, KeysTyped, KeysDescribe, WritesPerKeyAreApart
<1>3. WritesCovered'
  <2> SUFFICES ASSUME NEW i \in DOMAIN writes
               PROVE  /\ writes[i].at <= authTime
                      /\ \A row \in keys' : row.key = writes[i].key =>
                            writes[i].at + KeyLife <= row.expires
                      /\ (\A row \in keys' : row.key # writes[i].key) =>
                            writes[i].at + KeyLife <= authTime
    BY <1>1 DEF WritesCovered, KeyRow
  <2>1. /\ writes[i].at <= authTime
        /\ \A row \in keys : row.key = writes[i].key =>
              writes[i].at + KeyLife <= row.expires
    BY DEF KeysInv, WritesCovered, KeyRow
  <2>2. ASSUME \A row \in keys' : row.key # writes[i].key
        PROVE  writes[i].at + KeyLife <= authTime
    <3>1. CASE KeyRow(writes[i].key) = {}
      BY <3>1 DEF KeysInv, WritesCovered
    <3>2. CASE \E row \in keys : row.key = writes[i].key
      <4>1. PICK row \in keys : row.key = writes[i].key
        BY <3>2
      <4>2. row.expires <= authTime /\ writes[i].at + KeyLife <= row.expires
        BY <1>1, <2>1, <2>2, <4>1
      <4>3. row.expires \in Nat /\ authTime \in Nat /\ KeyLife \in Nat /\ writes[i].at \in Nat
        BY CatalogAssumption, WriteHasTime DEF KeysInv, KeysTyped, AuthInv, AuthTyped
      <4> QED
        BY <4>2, <4>3
    <3> QED
      BY <3>1, <3>2 DEF KeyRow
  <2> QED
    BY <1>1, <2>1, <2>2
<1> QED
  BY <1>2, <1>3 DEF KeysInv

\* A step that leaves keys, writes and answers alone, the clock included.
LEMMA KeysAloneSafe ==
    ASSUME AuthInv, KeysInv, UNCHANGED <<keys, writes, answers>>,
           authTime' \in {authTime, authTime + 1}
    PROVE  KeysInv'
<1>1. KeysTyped' /\ KeysDescribe' /\ WritesPerKeyAreApart'
  BY DEF KeysInv, KeysTyped, KeysDescribe, WritesPerKeyAreApart
<1>2. WritesCovered'
  <2>1. \A i \in DOMAIN writes : writes[i].at \in Nat
    BY WriteHasTime DEF KeysInv
  <2>2. authTime \in Nat /\ KeyLife \in Nat
    BY CatalogAssumption DEF AuthInv, AuthTyped
  <2> QED
    BY <2>1, <2>2 DEF KeysInv, WritesCovered, KeyRow
<1> QED
  BY <1>1, <1>2 DEF KeysInv

\* A replayed response was stored for the same request.
LEMMA ReplayKeysSafe ==
    ASSUME AuthInv, KeysInv, NEW h \in Handler, ReplayResponse(h)
    PROVE  KeysInv'
<1>1. UNCHANGED <<authTime, keys, writes>>
  BY DEF ReplayResponse
<1>2. \A a \in answers' : a \in answers \/
         \E row \in keys : a.body = row.body /\ a.request = row.request
  BY DEF ReplayResponse, SameHash, KeyRow
<1>3. KeysDescribe'
  BY <1>1, <1>2 DEF KeysInv, KeysDescribe, Describes
<1> QED
  BY <1>1, <1>3 DEF KeysInv, KeysTyped, WritesCovered, WritesPerKeyAreApart, KeyRow

\* Every step of the gateway keeps keys, writes and answers together.
LEMMA NextKeysSafe ==
    ASSUME AuthInv, KeysInv, [CatalogNext]_catalogVars
    PROVE  KeysInv'
<1>1. ASSUME NEW h \in Handler, AuthStep(h) \/ GiveUp(h)
      PROVE  authTime' = authTime
  <2>1. CASE GiveUp(h)
    BY <2>1 DEF GiveUp
  <2>2. CASE AuthStep(h)
    BY <2>2 DEF AuthStep, AskChallenge, Present, CountChallenges, SaveChallenge,
                ConsumeChallenge, CreateSession
  <2> QED
    BY <1>1, <2>1, <2>2
<1>2. ASSUME NEW h \in Handler, AuthStep(h) \/ GiveUp(h), UNCHANGED <<keys, writes, answers>>
      PROVE  KeysInv'
  BY <1>1, <1>2, KeysAloneSafe
<1>3. CASE ((\E n \in Nonce : Sign(n)) \/ PassAuthTime) /\ UNCHANGED <<keys, writes, answers>>
  BY <1>3, KeysAloneSafe DEF Sign, PassAuthTime
<1>4. ASSUME NEW h \in Handler, CreateProduct(h)
      PROVE  KeysInv'
  BY <1>4, CreateKeysSafe
<1>5. ASSUME NEW h \in Handler, KeyTaken(h)
      PROVE  KeysInv'
  BY <1>5, KeysAloneSafe DEF KeyTaken
<1>6. ASSUME NEW h \in Handler, ReplayResponse(h)
      PROVE  KeysInv'
  BY <1>6, ReplayKeysSafe
<1>7. CASE CleanupCatalog
  BY <1>7, SweepKeysSafe
<1>8. CASE StartGateway \/ UNCHANGED catalogVars
  BY <1>8, KeysAloneSafe DEF StartGateway, catalogVars, authVars
<1> QED
  BY <1>2, <1>3, <1>4, <1>5, <1>6, <1>7, <1>8 DEF CatalogNext

\* Nothing is written yet.
LEMMA KeysInitSafe == CatalogInit => KeysInv
BY DEF CatalogInit, KeysInv, KeysTyped, KeysDescribe, WritesCovered, WritesPerKeyAreApart

\* The invariants of the catalog hold together.
THEOREM CatalogInvariant == CatalogSpec => [](AuthInv /\ KeysInv)
<1>1. AuthInv /\ KeysInv /\ [CatalogNext]_catalogVars => AuthInv' /\ KeysInv'
  BY NextAuthSafe, NextKeysSafe
<1> QED
  BY <1>1, AuthInitSafe, KeysInitSafe, PTL DEF CatalogSpec

\* A key acts again only after its life, however its requests are repeated,
\* raced, or cut off by the end of a gateway.
THEOREM KeysWriteOnce == CatalogSpec => []WritesPerKeyAreApart
<1>1. KeysInv => WritesPerKeyAreApart
  BY DEF KeysInv
<1> QED
  BY <1>1, CatalogInvariant, PTL

\* Nobody is answered with what another request made.
THEOREM AnswersAreOwn == CatalogSpec => []AnswersMatchRequests
<1>1. KeysInv => AnswersMatchRequests
  BY DEF KeysInv, KeysDescribe, Describes, AnswersMatchRequests
<1> QED
  BY <1>1, CatalogInvariant, PTL

=============================================================================
