--------------------------- MODULE ServicesProofs ----------------------------
(***************************************************************************)
(* What the gateway's smaller services promise, for all their constants:   *)
(* the owner who is paid is the owner who is served and shown, public      *)
(* records stand, a link state links once, a verdict is earned, and a row   *)
(* of the allowances is of the wallet that approved it.                     *)
(***************************************************************************)
EXTENDS HostedProxy, OAuthLink, Receipts, PolicyRunner, AllowanceLifecycle,
        AllowanceLedgerProofs, TLAPS

-----------------------------------------------------------------------------
(* The two hosted middlewares.  The catalog may change between any two     *)
(* steps of a request, so nothing a request holds can be checked against   *)
(* the shop: what is kept is that on a path that names its owner every     *)
(* product resolved has that owner, and that a signed transfer keeps its   *)
(* terms.                                                                  *)

Quote == [payTo : Seller, tag : Tag]

Visits ==
    [phase : {"away"}]
    \cup [phase : {"priced"}, path : Path, tag : Tag]
    \cup [phase : {"quoted"}, path : Path, quote : Quote]
    \cup [phase : {"verified"}, path : Path, transfer : Transfer]
    \cup [phase : {"fetched", "settled"}, path : Path, transfer : Transfer, from : Seller]
    \cup [phase : {"hooked", "saved"}, path : Path, transfer : Transfer, from : Seller,
          product : Seller]
    \cup [phase : {"paid", "new"}, transfer : Transfer]

Rows == [transfer : Transfer, path : Path, product : Seller, validated : BOOLEAN]
Servings == [transfer : Transfer, path : Path \cup {"middleware"}, from : Seller]

HostedTyped ==
    /\ shop \subseteq Product
    /\ visit \in [Visitor -> Visits]
    /\ terms \in [Transfer -> Quote \cup {NoTerms}]
    /\ rows \subseteq Rows
    /\ served \in Seq(Servings)

\* a scoped path names who it belongs to
Owned(path, who) == path \in Seller => who = path
PaidFor(path, t) == terms[t] # NoTerms /\ (path \in Seller => terms[t].payTo = path)

VisitFits(s) ==
    /\ s.phase = "quoted" => Owned(s.path, s.quote.payTo)
    /\ s.phase \in {"verified", "fetched", "settled", "hooked", "saved"} =>
         PaidFor(s.path, s.transfer)
    /\ s.phase \in {"fetched", "settled", "hooked", "saved"} => Owned(s.path, s.from)
    /\ s.phase \in {"hooked", "saved"} => Owned(s.path, s.product)
    /\ s.phase \in {"paid", "new"} => terms[s.transfer] = Requirements

RowFits(r) == Owned(r.path, r.product) /\ PaidFor(r.path, r.transfer)
ServingFits(a) ==
    a.path \in Seller => Owned(a.path, a.from) /\ PaidFor(a.path, a.transfer)

HostedInv ==
    /\ HostedTyped
    /\ \A v \in Visitor : VisitFits(visit[v])
    /\ \A r \in rows : RowFits(r)
    /\ \A i \in DOMAIN served : ServingFits(served[i])

\* A path that names its owner resolves to products of that owner only.
LEMMA ResolvesToItsOwner ==
    ASSUME shop \subseteq Product, NEW path \in Path, NEW p \in Resolve(path)
    PROVE  p \in Product /\ Owned(path, p.seller)
<1>1. Configured \in Product /\ Configured.seller = HostSeller
  BY HostedAssumption DEF Configured, Product
<1>2. Found(path) \subseteq Product
  BY DEF Found
<1>3. \A q \in Found(path) : Owned(path, q.seller)
  BY HostedAssumption DEF Found, Owned
<1>4. CASE Found(path) # {}
  BY <1>2, <1>3, <1>4 DEF Resolve
<1>5. CASE Found(path) = {}
  <2>1. path \in {AnyOwner, HostSeller} /\ p = Configured
    BY <1>5 DEF Resolve
  <2> QED
    BY <1>1, <2>1, HostedAssumption DEF Owned
<1> QED
  BY <1>4, <1>5

\* What has been signed stays signed for the same terms.
TermsStand == \A t \in Transfer : terms[t] # NoTerms => terms'[t] = terms[t]

\* Nothing that fits the terms stops fitting when they stand.
LEMMA FitsWhileTermsStand ==
    ASSUME HostedTyped, TermsStand
    PROVE  /\ \A s \in Visits : VisitFits(s) => VisitFits(s)'
           /\ \A r \in Rows : RowFits(r) => RowFits(r)'
           /\ \A a \in Servings : ServingFits(a) => ServingFits(a)'
<1>1. \A path \in Path, t \in Transfer : PaidFor(path, t) => PaidFor(path, t)'
  BY DEF TermsStand, PaidFor
<1>2. ASSUME NEW s \in Visits, VisitFits(s) PROVE VisitFits(s)'
  <2>1. s.phase \in {"verified", "fetched", "settled", "hooked", "saved"} =>
          s.path \in Path /\ s.transfer \in Transfer
    BY DEF Visits
  <2>2. s.phase \in {"paid", "new"} => s.transfer \in Transfer
    BY DEF Visits
  <2>3. Requirements # NoTerms
    BY HostedAssumption DEF Requirements
  <2>4. s.phase \in {"paid", "new"} => (terms[s.transfer] = Requirements)'
    BY <1>2, <2>2, <2>3 DEF VisitFits, TermsStand, Requirements
  <2>5. s.phase \in {"verified", "fetched", "settled", "hooked", "saved"} =>
          PaidFor(s.path, s.transfer)'
    BY <1>1, <1>2, <2>1 DEF VisitFits
  <2> QED
    BY <1>2, <2>4, <2>5 DEF VisitFits, Owned, Requirements
<1>3. ASSUME NEW r \in Rows, RowFits(r) PROVE RowFits(r)'
  BY <1>1, <1>3 DEF RowFits, Rows, Owned
<1>4. ASSUME NEW a \in Servings, ServingFits(a) PROVE ServingFits(a)'
  BY <1>1, <1>4 DEF ServingFits, Servings, Owned, Path
<1> QED
  BY <1>2, <1>3, <1>4

\* A request that moves to a state that fits keeps the invariant, if what it
\* writes fits too.
LEMMA VisitMoves ==
    ASSUME HostedInv, NEW v \in Visitor, NEW s \in Visits,
           visit' = [visit EXCEPT ![v] = s], VisitFits(s)',
           shop' = shop, TermsStand, terms' \in [Transfer -> Quote \cup {NoTerms}],
           rows' \subseteq Rows, \A r \in rows' : r \in rows \/ RowFits(r)',
           served' \in Seq(Servings),
           \A i \in DOMAIN served' :
             \/ i \in DOMAIN served /\ served'[i] = served[i]
             \/ \E a \in Servings : served'[i] = a /\ ServingFits(a)'
    PROVE  HostedInv'
<1>1. HostedTyped'
  BY DEF HostedInv, HostedTyped
<1>2. ASSUME NEW u \in Visitor PROVE VisitFits(visit[u])'
  <2> PICK old \in Visits : old = visit[u]
    BY DEF HostedInv, HostedTyped
  <2>1. VisitFits(old)'
    BY FitsWhileTermsStand DEF HostedInv
  <2>2. visit'[u] = IF u = v THEN s ELSE old
    BY DEF HostedInv, HostedTyped
  <2> QED
    BY <2>1, <2>2 DEF VisitFits
<1>3. ASSUME NEW r \in rows' PROVE RowFits(r)'
  BY FitsWhileTermsStand DEF HostedInv, HostedTyped
<1>4. ASSUME NEW i \in DOMAIN served' PROVE ServingFits(served[i])'
  <2>1. CASE i \in DOMAIN served /\ served'[i] = served[i]
    <3> PICK a \in Servings : a = served[i]
      BY <2>1 DEF HostedInv, HostedTyped
    <3>1. ServingFits(a)'
      BY <2>1, FitsWhileTermsStand DEF HostedInv
    <3> QED
      BY <2>1, <3>1
  <2>2. CASE \E a \in Servings : served'[i] = a /\ ServingFits(a)'
    <3> PICK a \in Servings : served'[i] = a /\ ServingFits(a)'
      BY <2>2
    <3> QED
      OBVIOUS
  <2> QED
    BY <2>1, <2>2
<1> QED
  BY <1>1, <1>2, <1>3, <1>4 DEF HostedInv

\* The same when only the request moves.
LEMMA OnlyVisitMoves ==
    ASSUME HostedInv, NEW v \in Visitor, NEW s \in Visits,
           visit' = [visit EXCEPT ![v] = s], VisitFits(s),
           UNCHANGED <<shop, terms, rows, served>>
    PROVE  HostedInv'
<1>1. TermsStand /\ terms' \in [Transfer -> Quote \cup {NoTerms}]
  BY DEF HostedInv, HostedTyped, TermsStand
<1>2. VisitFits(s)'
  BY <1>1, FitsWhileTermsStand DEF HostedInv
<1> QED
  BY <1>1, <1>2, VisitMoves DEF HostedInv, HostedTyped

\* A request that leaves holds nothing.
LEMMA AwayFits == Away \in Visits /\ VisitFits(Away) /\ VisitFits(Away)'
  BY DEF Away, Visits, VisitFits

\* What the phase of a request says about what it holds.
LEMMA VisitHolds ==
    ASSUME HostedInv, NEW v \in Visitor
    PROVE  /\ visit[v] \in Visits /\ VisitFits(visit[v])
           /\ At(v, "priced") => visit[v].path \in Path /\ visit[v].tag \in Tag
           /\ At(v, "quoted") => visit[v].path \in Path /\ visit[v].quote \in Quote
           /\ visit[v].phase \in {"verified", "fetched", "settled", "hooked", "saved"} =>
                visit[v].path \in Path /\ visit[v].transfer \in Transfer
           /\ visit[v].phase \in {"fetched", "settled", "hooked", "saved"} =>
                visit[v].from \in Seller
           /\ visit[v].phase \in {"hooked", "saved"} => visit[v].product \in Seller
           /\ visit[v].phase \in {"paid", "new"} => visit[v].transfer \in Transfer
<1>1. visit[v] \in Visits /\ VisitFits(visit[v])
  BY DEF HostedInv, HostedTyped
<1> QED
  BY <1>1 DEF Visits, At

\* The price is asked of one product, the recipient of another.
LEMMA QuotingSafe ==
    ASSUME HostedInv, NEW v \in Visitor,
           (\E path \in Path : AskPrice(v, path)) \/ AskPayTo(v)
    PROVE  HostedInv'
<1>1. ASSUME NEW path \in Path, AskPrice(v, path) PROVE HostedInv'
  <2> PICK p \in Resolve(path) : visit' = [visit EXCEPT ![v] =
                                   [phase |-> "priced", path |-> path, tag |-> p.tag]]
    BY <1>1 DEF AskPrice, Go
  <2>1. p \in Product
    BY ResolvesToItsOwner DEF HostedInv, HostedTyped
  <2> DEFINE s == [phase |-> "priced", path |-> path, tag |-> p.tag]
  <2>2. s \in Visits /\ VisitFits(s)
    BY <2>1 DEF Visits, VisitFits, Product
  <2> QED
    BY <1>1, <2>2, OnlyVisitMoves DEF AskPrice
<1>2. ASSUME AskPayTo(v) PROVE HostedInv'
  <2> PICK path \in Path, tag \in Tag : path = visit[v].path /\ tag = visit[v].tag
    BY <1>2, VisitHolds DEF AskPayTo
  <2> PICK p \in Resolve(path) : visit' = [visit EXCEPT ![v] =
        [phase |-> "quoted", path |-> path, quote |-> [payTo |-> p.seller, tag |-> tag]]]
    BY <1>2 DEF AskPayTo, Go
  <2>1. p.seller \in Seller /\ Owned(path, p.seller)
    BY ResolvesToItsOwner DEF HostedInv, HostedTyped, Product
  <2> DEFINE s == [phase |-> "quoted", path |-> path, quote |-> [payTo |-> p.seller, tag |-> tag]]
  <2>2. s \in Visits /\ VisitFits(s)
    BY <2>1 DEF Visits, VisitFits, Quote
  <2> QED
    BY <1>2, <2>2, OnlyVisitMoves DEF AskPayTo
<1> QED
  BY <1>1, <1>2

\* A signature fixes the terms of its transfer, once.
LEMMA SignTransferSafe ==
    ASSUME HostedInv, NEW v \in Visitor, NEW t \in Transfer, SignTransfer(v, t)
    PROVE  HostedInv'
<1>1. visit[v].quote \in Quote
  BY VisitHolds DEF SignTransfer
<1>2. TermsStand /\ terms' \in [Transfer -> Quote \cup {NoTerms}]
  BY <1>1 DEF SignTransfer, TermsStand, HostedInv, HostedTyped
<1> QED
  BY <1>2, AwayFits, VisitMoves DEF SignTransfer, Go, HostedInv, HostedTyped

\* The payment is verified against what was quoted; the handler resolves again.
LEMMA ServingSafe ==
    ASSUME HostedInv, NEW v \in Visitor,
           (\E t \in Transfer : VerifyPayment(v, t)) \/ FetchUpstream(v)
    PROVE  HostedInv'
<1>1. ASSUME NEW t \in Transfer, VerifyPayment(v, t) PROVE HostedInv'
  <2> PICK path \in Path, quote \in Quote : path = visit[v].path /\ quote = visit[v].quote
    BY <1>1, VisitHolds DEF VerifyPayment
  <2> DEFINE s == [phase |-> "verified", path |-> path, transfer |-> t]
  <2>1. Owned(path, quote.payTo) /\ terms[t] = quote /\ quote # NoTerms
    BY <1>1, VisitHolds, HostedAssumption DEF VerifyPayment, VisitFits, At, Quote
  <2>2. s \in Visits /\ VisitFits(s)
    BY <2>1 DEF Visits, VisitFits, PaidFor, Owned
  <2> QED
    BY <1>1, <2>2, OnlyVisitMoves DEF VerifyPayment, Go
<1>2. ASSUME FetchUpstream(v) PROVE HostedInv'
  <2> PICK path \in Path, t \in Transfer : path = visit[v].path /\ t = visit[v].transfer
    BY <1>2, VisitHolds DEF FetchUpstream, At
  <2>1. PaidFor(path, t)
    BY <1>2, VisitHolds DEF FetchUpstream, At, VisitFits
  <2> PICK p \in Resolve(path) : visit' = [visit EXCEPT ![v] =
        [phase |-> "fetched", path |-> path, transfer |-> t, from |-> p.seller]]
    BY <1>2 DEF FetchUpstream, Go
  <2>2. p.seller \in Seller /\ Owned(path, p.seller)
    BY ResolvesToItsOwner DEF HostedInv, HostedTyped, Product
  <2> DEFINE s == [phase |-> "fetched", path |-> path, transfer |-> t, from |-> p.seller]
  <2>3. s \in Visits /\ VisitFits(s)
    BY <2>1, <2>2 DEF Visits, VisitFits
  <2> QED
    BY <1>2, <2>3, OnlyVisitMoves DEF FetchUpstream
<1> QED
  BY <1>1, <1>2

\* Settling and the hook's own look at the catalog change no table.
LEMMA HookSafe ==
    ASSUME HostedInv, NEW v \in Visitor, SettleHosted(v) \/ ResolveInHook(v)
    PROVE  HostedInv'
<1> PICK path \in Path, t \in Transfer, from \in Seller :
      path = visit[v].path /\ t = visit[v].transfer /\ from = visit[v].from
  BY VisitHolds DEF SettleHosted, ResolveInHook, At
<1>1. PaidFor(path, t) /\ Owned(path, from)
  BY VisitHolds DEF SettleHosted, ResolveInHook, At, VisitFits
<1>2. CASE SettleHosted(v)
  <2> DEFINE s == [phase |-> "settled", path |-> path, transfer |-> t, from |-> from]
  <2>1. visit[v] = [phase |-> "fetched", path |-> path, transfer |-> t, from |-> from]
    BY <1>2, VisitHolds DEF SettleHosted, At, Visits
  <2>2. [visit[v] EXCEPT !.phase = "settled"] = s
    BY <2>1
  <2>3. s \in Visits /\ VisitFits(s)
    BY <1>1 DEF Visits, VisitFits
  <2> QED
    BY <1>2, <2>2, <2>3, OnlyVisitMoves DEF SettleHosted, Go
<1>3. CASE ResolveInHook(v)
  <2> PICK p \in Resolve(path) : visit' = [visit EXCEPT ![v] =
        [phase |-> "hooked", path |-> path, transfer |-> t, from |-> from,
         product |-> p.seller]]
    BY <1>3 DEF ResolveInHook, Go
  <2>1. p.seller \in Seller /\ Owned(path, p.seller)
    BY ResolvesToItsOwner DEF HostedInv, HostedTyped, Product
  <2> DEFINE s == [phase |-> "hooked", path |-> path, transfer |-> t, from |-> from,
                   product |-> p.seller]
  <2>2. s \in Visits /\ VisitFits(s)
    BY <1>1, <2>1 DEF Visits, VisitFits
  <2> QED
    BY <1>3, <2>2, OnlyVisitMoves DEF ResolveInHook
<1> QED
  BY <1>2, <1>3

\* An appended element is the last; the others stay.
LEMMA ElementOfSequence ==
    ASSUME NEW S, NEW old \in Seq(S), NEW e \in S, NEW new, new = Append(old, e)
    PROVE  /\ new \in Seq(S)
           /\ \A i \in DOMAIN new : \/ i \in DOMAIN old /\ new[i] = old[i]
                                    \/ i = Len(old) + 1 /\ new[i] = e
           /\ DOMAIN old \subseteq DOMAIN new /\ Len(old) + 1 \in DOMAIN new
           /\ Len(old) + 1 \notin DOMAIN old
  OBVIOUS

\* What the hook saves carries what the request holds.
LEMMA SaveInHookSafe ==
    ASSUME HostedInv, NEW v \in Visitor, SaveInHook(v)
    PROVE  HostedInv'
<1> PICK path \in Path, t \in Transfer, from \in Seller, product \in Seller :
      /\ path = visit[v].path /\ t = visit[v].transfer
      /\ from = visit[v].from /\ product = visit[v].product
  BY VisitHolds DEF SaveInHook, At
<1>1. PaidFor(path, t) /\ Owned(path, from) /\ Owned(path, product)
  BY VisitHolds DEF SaveInHook, At, VisitFits
<1> DEFINE s == [phase |-> "saved", path |-> path, transfer |-> t, from |-> from,
                 product |-> product]
           row == [transfer |-> t, path |-> path, product |-> product, validated |-> TRUE]
<1>2. visit[v] = [phase |-> "hooked", path |-> path, transfer |-> t, from |-> from,
                  product |-> product]
  BY VisitHolds DEF SaveInHook, At, Visits
<1>3. [visit[v] EXCEPT !.phase = "saved"] = s
  BY <1>2
<1>4. TermsStand /\ terms' \in [Transfer -> Quote \cup {NoTerms}]
  BY DEF SaveInHook, TermsStand, HostedInv, HostedTyped
<1>5. s \in Visits /\ VisitFits(s) /\ row \in Rows /\ RowFits(row)
  BY <1>1 DEF Visits, VisitFits, Rows, RowFits
<1>6. VisitFits(s)' /\ RowFits(row)'
  BY <1>4, <1>5, FitsWhileTermsStand DEF HostedInv
<1>7. rows' = rows \cup {row}
  BY DEF SaveInHook
<1>8. rows' \subseteq Rows /\ \A r \in rows' : r \in rows \/ RowFits(r)'
  BY <1>5, <1>6, <1>7 DEF HostedInv, HostedTyped
<1>9. visit' = [visit EXCEPT ![v] = s]
  BY <1>3 DEF SaveInHook, Go
<1> HIDE DEF s, row
<1> QED
  BY <1>4, <1>5, <1>6, <1>8, <1>9, VisitMoves DEF SaveInHook, HostedInv, HostedTyped

\* The buffer that is sent is of the product that was paid for.
LEMMA DeliverSafe ==
    ASSUME HostedInv, NEW v \in Visitor, Deliver(v)
    PROVE  HostedInv'
<1> PICK path \in Path, t \in Transfer, from \in Seller :
      path = visit[v].path /\ t = visit[v].transfer /\ from = visit[v].from
  BY VisitHolds DEF Deliver
<1>1. PaidFor(path, t) /\ Owned(path, from)
  BY VisitHolds DEF Deliver, VisitFits
<1> DEFINE a == [transfer |-> t, path |-> path, from |-> from]
<1>2. TermsStand /\ terms' \in [Transfer -> Quote \cup {NoTerms}]
  BY DEF Deliver, TermsStand, HostedInv, HostedTyped
<1>3. a \in Servings /\ ServingFits(a)
  BY <1>1 DEF Servings, ServingFits
<1>4. ServingFits(a)'
  BY <1>2, <1>3, FitsWhileTermsStand DEF HostedInv
<1>5. served' = Append(served, a)
  BY DEF Deliver
<1> HIDE DEF a
<1>6. /\ served' \in Seq(Servings)
      /\ \A i \in DOMAIN served' :
           \/ i \in DOMAIN served /\ served'[i] = served[i]
           \/ served'[i] = a
  BY <1>3, <1>5, ElementOfSequence DEF HostedInv, HostedTyped
<1> QED
  BY <1>2, <1>3, <1>4, <1>6, AwayFits, VisitMoves DEF Deliver, Go, HostedInv, HostedTyped

\* The middleware that settles first knows one product: its own.
LEMMA MiddlewareSafe ==
    ASSUME HostedInv, NEW v \in Visitor,
           (\E t \in Transfer : SettleFirst(v, t)) \/ LookForReplay(v) \/ SaveAndServe(v)
    PROVE  HostedInv'
<1>1. ASSUME NEW t \in Transfer, SettleFirst(v, t) PROVE HostedInv'
  <2> DEFINE s == [phase |-> "paid", transfer |-> t]
  <2>1. s \in Visits /\ VisitFits(s)
    BY <1>1 DEF SettleFirst, Visits, VisitFits
  <2> QED
    BY <1>1, <2>1, OnlyVisitMoves DEF SettleFirst, Go
<1>2. ASSUME LookForReplay(v) PROVE HostedInv'
  <2> PICK t \in Transfer : t = visit[v].transfer
    BY <1>2, VisitHolds DEF LookForReplay, At
  <2> DEFINE s == [phase |-> "new", transfer |-> t]
  <2>1. visit[v] = [phase |-> "paid", transfer |-> t] /\ terms[t] = Requirements
    BY <1>2, VisitHolds DEF LookForReplay, At, Visits, VisitFits
  <2>2. [visit[v] EXCEPT !.phase = "new"] = s
    BY <2>1
  <2>3. s \in Visits /\ VisitFits(s)
    BY <2>1 DEF Visits, VisitFits
  <2>4. visit' = [visit EXCEPT ![v] = s] \/ visit' = [visit EXCEPT ![v] = Away]
    BY <1>2, <2>2 DEF LookForReplay, Go
  <2> QED
    BY <1>2, <2>3, <2>4, AwayFits, OnlyVisitMoves DEF LookForReplay
<1>3. ASSUME SaveAndServe(v) PROVE HostedInv'
  <2> PICK t \in Transfer : t = visit[v].transfer
    BY <1>3, VisitHolds DEF SaveAndServe, At
  <2> DEFINE row == [transfer |-> t, path |-> HostSeller, product |-> HostSeller,
                     validated |-> FALSE]
             a == [transfer |-> t, path |-> "middleware", from |-> HostSeller]
  <2>1. terms[t] = Requirements /\ Requirements # NoTerms
    BY <1>3, VisitHolds, HostedAssumption DEF SaveAndServe, At, VisitFits, Requirements
  <2>2. row \in Rows /\ RowFits(row) /\ a \in Servings /\ ServingFits(a)
    <3>1. HostSeller \in Seller /\ "middleware" \notin Seller
      BY HostedAssumption
    <3>2. PaidFor(HostSeller, t)
      BY <2>1 DEF PaidFor, Requirements
    <3> QED
      BY <3>1, <3>2 DEF Rows, RowFits, Servings, ServingFits, Owned, Path
  <2>3. TermsStand /\ terms' \in [Transfer -> Quote \cup {NoTerms}]
    BY <1>3 DEF SaveAndServe, TermsStand, HostedInv, HostedTyped
  <2>4. RowFits(row)' /\ ServingFits(a)'
    BY <2>2, <2>3, FitsWhileTermsStand DEF HostedInv
  <2>5. \/ rows' = rows \cup {row} /\ served' = Append(served, a)
        \/ rows' = rows /\ served' = served
    BY <1>3 DEF SaveAndServe
  <2> HIDE DEF row, a
  <2>6. rows' \subseteq Rows /\ \A r \in rows' : r \in rows \/ RowFits(r)'
    BY <2>2, <2>4, <2>5 DEF HostedInv, HostedTyped
  <2>7. /\ served' \in Seq(Servings)
        /\ \A i \in DOMAIN served' :
             \/ i \in DOMAIN served /\ served'[i] = served[i]
             \/ served'[i] = a
    <3>1. CASE served' = Append(served, a)
      BY <2>2, <3>1, ElementOfSequence DEF HostedInv, HostedTyped
    <3>2. CASE served' = served
      BY <3>2 DEF HostedInv, HostedTyped
    <3> QED
      BY <2>5, <3>1, <3>2
  <2> QED
    BY <1>3, <2>2, <2>3, <2>4, <2>6, <2>7, AwayFits, VisitMoves DEF SaveAndServe, Go
<1> QED
  BY <1>1, <1>2, <1>3

\* A product that is published or updated touches no request.
LEMMA PublishSafe ==
    ASSUME HostedInv, NEW o \in Seller, NEW tag \in Tag, PublishProduct(o, tag)
    PROVE  HostedInv'
<1>1. TermsStand
  BY DEF PublishProduct, TermsStand
<1>2. HostedTyped'
  BY DEF PublishProduct, HostedInv, HostedTyped, Product
<1>3. ASSUME NEW u \in Visitor PROVE VisitFits(visit[u])'
  BY DEF HostedInv, PublishProduct, VisitFits, PaidFor, Owned, Requirements
<1>4. (\A r \in rows : RowFits(r))' /\ (\A i \in DOMAIN served : ServingFits(served[i]))'
  BY DEF HostedInv, PublishProduct, RowFits, ServingFits, PaidFor, Owned
<1> QED
  BY <1>2, <1>3, <1>4 DEF HostedInv

\* No product, no request, no transfer.
LEMMA HostedInitSafe == HostedInit => HostedInv
<1> SUFFICES ASSUME HostedInit PROVE HostedInv
  OBVIOUS
<1>1. HostedTyped
  BY AwayFits DEF HostedInit, HostedTyped
<1> QED
  BY <1>1, AwayFits DEF HostedInit, HostedInv

LEMMA HostedNextSafe == HostedInv /\ [HostedNext]_hostedProxyVars => HostedInv'
<1> SUFFICES ASSUME HostedInv, [HostedNext]_hostedProxyVars PROVE HostedInv'
  OBVIOUS
<1>1. ASSUME NEW v \in Visitor, Drop(v) PROVE HostedInv'
  BY <1>1, AwayFits, OnlyVisitMoves DEF Drop, Go
<1>2. CASE UNCHANGED hostedProxyVars
  BY <1>2 DEF hostedProxyVars, HostedInv, HostedTyped, VisitFits, RowFits, ServingFits,
              PaidFor, Owned, Requirements
<1> QED
  BY <1>1, <1>2, PublishSafe, QuotingSafe, SignTransferSafe, ServingSafe, HookSafe,
     SaveInHookSafe, DeliverSafe, MiddlewareSafe DEF HostedNext

\* What a request, a row and a response hold belongs to the owner their path names.
THEOREM HostedInvariant == HostedSpec => []HostedInv
  BY HostedInitSafe, HostedNextSafe, PTL DEF HostedSpec

\* On a path that names its owner, what is served and what the owner's list shows
\* belong to the owner who was paid, for any catalog that changes meanwhile.
THEOREM PaymentsStayWithTheirOwner == HostedSpec => []ScopedPaymentsStayWithOwner
<1>1. HostedInv => ScopedPaymentsStayWithOwner
  <2> SUFFICES ASSUME HostedInv PROVE ScopedPaymentsStayWithOwner
    OBVIOUS
  <2>1. ASSUME NEW w \in Seller, NEW r \in ListPaymentsForOwner(w), r.path \in Seller
        PROVE  {r.path, terms[r.transfer].payTo} = {w}
    BY <2>1 DEF ListPaymentsForOwner, HostedInv, RowFits, PaidFor, Owned
  <2>2. ASSUME NEW i \in DOMAIN served, served[i].path \in Seller
        PROVE  {served[i].from, terms[served[i].transfer].payTo} = {served[i].path}
    BY <2>2 DEF HostedInv, ServingFits, PaidFor, Owned
  <2> QED
    BY <2>1, <2>2 DEF ScopedPaymentsStayWithOwner
<1> QED
  BY <1>1, HostedInvariant, PTL

-----------------------------------------------------------------------------
(* The payments table.  A transfer the middleware has served has a row, and *)
(* a row bars the next save: this is what makes the unique column enough.   *)

ServedHaveRows ==
    \A i \in DOMAIN served :
        served[i].path = "middleware" => ~Unrecorded(served[i].transfer)

ProvenInv == RowsAreProven /\ ServedHaveRows

\* Rows and settled transfers only grow, and rows one transfer at a time.
LEMMA ProvenStaysSafe ==
    ASSUME ProvenInv, served \in Seq(Servings), settled \subseteq settled',
           rows \subseteq rows',
           \A r \in rows' \ rows : /\ r.validated => r.transfer \in settled'
                                   /\ Unrecorded(r.transfer)
                                   /\ \A s \in rows' \ rows : s = r,
           \/ served' = served
           \/ \E a \in Servings :
                /\ served' = Append(served, a)
                /\ a.path = "middleware" =>
                     Unrecorded(a.transfer) /\ \E r \in rows' : r.transfer = a.transfer
    PROVE  ProvenInv'
<1>1. \A r \in rows' : r.validated => r.transfer \in settled'
  BY DEF ProvenInv, RowsAreProven
<1>2. \A r, s \in rows' : r.transfer = s.transfer => r = s
  BY DEF ProvenInv, RowsAreProven, Unrecorded
<1>3. \A t : ~Unrecorded(t) => ~(\A r \in rows' : r.transfer # t)
  BY DEF Unrecorded
<1>4. /\ ServedHaveRows'
      /\ \A i, j \in DOMAIN served' :
           (served'[i].path = "middleware" /\ served'[j] = served'[i]) => i = j
  <2>1. CASE served' = served
    BY <1>3, <2>1 DEF ProvenInv, RowsAreProven, ServedHaveRows, Unrecorded
  <2>2. ASSUME NEW a \in Servings, served' = Append(served, a),
               a.path = "middleware" =>
                 Unrecorded(a.transfer) /\ \E r \in rows' : r.transfer = a.transfer
        PROVE  <1>4
    <3>1. \A i \in DOMAIN served' :
            \/ i \in DOMAIN served /\ served'[i] = served[i]
            \/ i = Len(served) + 1 /\ served'[i] = a
      BY <2>2, ElementOfSequence
    <3>2. ServedHaveRows'
      BY <1>3, <2>2, <3>1 DEF ProvenInv, ServedHaveRows, Unrecorded
    <3>3. \A i \in DOMAIN served :
            (served[i].path = "middleware" \/ a.path = "middleware") => served[i] # a
      BY <2>2 DEF ProvenInv, ServedHaveRows
    <3>4. ASSUME NEW i \in DOMAIN served', NEW j \in DOMAIN served',
                 served'[i].path = "middleware", served'[j] = served'[i]
          PROVE  i = j
      BY <3>1, <3>3, <3>4 DEF ProvenInv, RowsAreProven
    <3> QED
      BY <3>2, <3>4
  <2> QED
    BY <2>1, <2>2
<1> QED
  BY <1>1, <1>2, <1>4 DEF ProvenInv, RowsAreProven

LEMMA ProvenNextSafe ==
    HostedInv /\ ProvenInv /\ [HostedNext]_hostedProxyVars => ProvenInv'
<1> SUFFICES ASSUME HostedInv, ProvenInv, [HostedNext]_hostedProxyVars PROVE ProvenInv'
  OBVIOUS
<1> served \in Seq(Servings)
  BY DEF HostedInv, HostedTyped
<1>1. ASSUME NEW v \in Visitor, SaveInHook(v) PROVE ProvenInv'
  <2> PICK row : /\ rows' = rows \cup {row}
                 /\ row = [transfer |-> visit[v].transfer, path |-> visit[v].path,
                           product |-> visit[v].product, validated |-> TRUE]
    BY <1>1 DEF SaveInHook
  <2>1. row.transfer \in settled' /\ Unrecorded(row.transfer)
    BY <1>1 DEF SaveInHook, OnChain
  <2> QED
    BY <1>1, <2>1, ProvenStaysSafe DEF SaveInHook
<1>2. ASSUME NEW v \in Visitor, SaveAndServe(v) PROVE ProvenInv'
  <2> PICK t \in Transfer : t = visit[v].transfer
    BY <1>2, VisitHolds DEF SaveAndServe, At
  <2> DEFINE a == [transfer |-> t, path |-> "middleware", from |-> HostSeller]
  <2>1. CASE Unrecorded(t)
    <3> DEFINE row == [transfer |-> t, path |-> HostSeller, product |-> HostSeller,
                       validated |-> FALSE]
    <3>0. /\ rows' = rows \cup {row}
          /\ row.transfer = t /\ row.validated = FALSE
      BY <1>2, <2>1 DEF SaveAndServe
    <3>1. served' = Append(served, a) /\ settled' = settled
      BY <1>2, <2>1 DEF SaveAndServe
    <3>2. a \in Servings /\ a.transfer = t
      BY HostedAssumption DEF Servings
    <3>3. Unrecorded(a.transfer) /\ \E r \in rows' : r.transfer = a.transfer
      BY <2>1, <3>0, <3>2
    <3> HIDE DEF a, row
    <3> QED
      BY <2>1, <3>0, <3>1, <3>2, <3>3, ProvenStaysSafe
  <2>2. CASE ~Unrecorded(t)
    BY <1>2, <2>2, ProvenStaysSafe DEF SaveAndServe
  <2> QED
    BY <2>1, <2>2
<1>3. ASSUME NEW v \in Visitor, Deliver(v) PROVE ProvenInv'
  <2> PICK path \in Path, t \in Transfer, from \in Seller :
        path = visit[v].path /\ t = visit[v].transfer /\ from = visit[v].from
    BY <1>3, VisitHolds DEF Deliver
  <2> DEFINE a == [transfer |-> t, path |-> path, from |-> from]
  <2>1. served' = Append(served, a) /\ a \in Servings /\ a.path # "middleware"
    BY <1>3, HostedAssumption DEF Deliver, Servings, Path
  <2> QED
    BY <1>3, <2>1, ProvenStaysSafe DEF Deliver
<1>4. ASSUME NEW v \in Visitor, NEW t, FacilitatorSays(t), UNCHANGED <<rows, served>>
      PROVE  ProvenInv'
  <2>1. settled \subseteq settled'
    BY <1>4 DEF FacilitatorSays
  <2> QED
    BY <1>4, <2>1, ProvenStaysSafe
<1>5. ASSUME UNCHANGED <<rows, served, settled>> PROVE ProvenInv'
  BY <1>5, ProvenStaysSafe
<1>6. ASSUME NEW o \in Seller, NEW tag \in Tag, PublishProduct(o, tag) PROVE ProvenInv'
  BY <1>5, <1>6 DEF PublishProduct
<1>7. ASSUME NEW v \in Visitor, (\E path \in Path : AskPrice(v, path)) \/ AskPayTo(v)
      PROVE  ProvenInv'
  BY <1>5, <1>7 DEF AskPrice, AskPayTo
<1>8. ASSUME NEW v \in Visitor, NEW t \in Transfer,
             SignTransfer(v, t) \/ VerifyPayment(v, t) \/ SettleFirst(v, t)
      PROVE  ProvenInv'
  BY <1>4, <1>5, <1>8 DEF SignTransfer, VerifyPayment, SettleFirst
<1>9. ASSUME NEW v \in Visitor,
             \/ FetchUpstream(v) \/ SettleHosted(v) \/ ResolveInHook(v)
             \/ LookForReplay(v) \/ Drop(v)
      PROVE  ProvenInv'
  BY <1>4, <1>5, <1>9 DEF FetchUpstream, SettleHosted, ResolveInHook, LookForReplay, Drop
<1>10. CASE UNCHANGED hostedProxyVars
  BY <1>5, <1>10 DEF hostedProxyVars
<1> QED
  BY <1>1, <1>2, <1>3, <1>6, <1>7, <1>8, <1>9, <1>10 DEF HostedNext

\* Whatever the requests interleave, a transfer has one row, a validated row is of a
\* settled transfer, and the middleware that settles first serves a transfer once.
THEOREM RowsStayProven == HostedSpec => []RowsAreProven
<1>1. HostedInit => ProvenInv
  BY DEF HostedInit, ProvenInv, RowsAreProven, ServedHaveRows
<1>2. ProvenInv => RowsAreProven
  BY DEF ProvenInv
<1> QED
  BY <1>1, <1>2, HostedInvariant, ProvenNextSafe, PTL DEF HostedSpec

-----------------------------------------------------------------------------
(* The public records.  The upsert compares a report with the row only; it *)
(* is right because the reports of one payment are in order among          *)
(* themselves: what is further was never said earlier.                     *)

RecordTyped ==
    /\ recordTime \in 0 .. MaxRecordTime
    /\ stage \in [Terms -> Settlement]
    /\ reports \subseteq Receipt
    /\ delivered \subseteq reports
    /\ receipt \in delivered \cup {NoRecord}
    /\ receipt = NoRecord => delivered = {}

ReportsInOrder ==
    /\ \A a \in reports : /\ a.updated <= recordTime
                          /\ Rank(a.settlement) <= Rank(stage[a.terms])
    /\ \A a, b \in reports :
         a.terms = b.terms =>
           /\ Rank(a.settlement) < Rank(b.settlement) => a.updated <= b.updated
           /\ {a.settlement, b.settlement} \subseteq Terminal => a = b

\* b says at least as much as a
Newer(a, b) ==
    \/ a.updated < b.updated
    \/ a.updated = b.updated /\ Rank(a.settlement) <= Rank(b.settlement)

ReceiptIsNewest ==
    \A d \in delivered : (receipt # NoRecord /\ d.terms = receipt.terms) => Newer(d, receipt)

EvidenceStands ==
    /\ published \subseteq [kind : {"release", "benchmark"}, is : Evidence]
    /\ \A p \in published : p.is = IF p.kind = "release" THEN manifest ELSE benchmark

ReceiptInv == RecordTyped /\ ReportsInOrder /\ ReceiptIsNewest

\* How far a settlement has come, and what may follow it.
LEMMA Ranks ==
    /\ \A s \in Settlement : Rank(s) \in 0 .. 2
    /\ \A s \in Settlement : s \in Terminal <=> Rank(s) = 2
    /\ \A s \in Settlement : s = "confirmed" <=> Rank(s) = 1
    /\ \A s \in Settlement : \A f \in Follows(s) :
         f \in Settlement /\ Rank(s) <= Rank(f) /\ Rank(s) < 2
<1>1. \A s \in Settlement : /\ Rank(s) \in 0 .. 2
                            /\ s \in Terminal <=> Rank(s) = 2
                            /\ s = "confirmed" <=> Rank(s) = 1
  BY DEF Rank, Settlement, Terminal
<1>2. ASSUME NEW s \in Settlement, NEW f \in Follows(s)
      PROVE  f \in Settlement /\ Rank(s) <= Rank(f) /\ Rank(s) < 2
  <2>1. CASE s = "not_started"
    BY <2>1 DEF Follows, Rank, Settlement, Terminal
  <2>2. CASE s = "pending"
    BY <2>2 DEF Follows, Rank, Settlement, Terminal
  <2>3. CASE s = "unknown"
    BY <2>3 DEF Follows, Rank, Settlement, Terminal
  <2>4. CASE s = "confirmed"
    BY <2>4 DEF Follows, Rank, Settlement, Terminal
  <2>5. CASE s \in {"finalized", "failed"}
    BY <2>5 DEF Follows
  <2> QED
    BY <2>1, <2>2, <2>3, <2>4, <2>5 DEF Settlement
<1> QED
  BY <1>1, <1>2

\* A settlement moves on: its report is the furthest and the latest.
LEMMA ReportSafe ==
    ASSUME ReceiptInv, NEW t \in Terms, NEW s \in Settlement, Report(t, s)
    PROVE  ReceiptInv'
<1> DEFINE new == [terms |-> t, settlement |-> s, updated |-> recordTime]
<1>1. /\ reports' = reports \cup {new} /\ stage' = [stage EXCEPT ![t] = s]
      /\ UNCHANGED <<recordTime, receipt, delivered>>
      /\ s \in Follows(stage[t]) /\ stage[t] \in Settlement
  BY DEF Report, ReceiptInv, RecordTyped
<1>2. new \in Receipt
  BY DEF Receipt, ReceiptInv, RecordTyped
<1>3. RecordTyped'
  BY <1>1, <1>2 DEF ReceiptInv, RecordTyped
<1>4. Rank(stage[t]) <= Rank(s) /\ Rank(stage[t]) < 2 /\ Rank(s) \in 0 .. 2
      /\ Rank(stage[t]) \in 0 .. 2
  BY <1>1, Ranks
<1>5. \A a \in reports : a.terms = t => Rank(a.settlement) <= Rank(stage[t])
  BY DEF ReceiptInv, ReportsInOrder
<1>6. \A a \in reports : /\ a.terms \in Terms /\ a.settlement \in Settlement
                         /\ a.updated \in Nat /\ Rank(a.settlement) \in 0 .. 2
  BY Ranks, ReceiptsAssumption DEF ReceiptInv, RecordTyped, Receipt
<1>7. \A a \in reports : a.terms = t => Rank(a.settlement) <= Rank(s) /\ a.settlement \notin Terminal
  BY <1>4, <1>5, <1>6, Ranks
<1>8. \A a \in reports' : a.updated <= recordTime' /\ Rank(a.settlement) <= Rank(stage'[a.terms])
  <2>1. new.updated <= recordTime /\ Rank(new.settlement) <= Rank(stage'[new.terms])
    BY <1>1, <1>4 DEF ReceiptInv, RecordTyped
  <2>2. ASSUME NEW a \in reports
        PROVE  a.updated <= recordTime /\ Rank(a.settlement) <= Rank(stage'[a.terms])
    BY <1>1, <1>6, <1>7 DEF ReceiptInv, ReportsInOrder, RecordTyped
  <2> QED
    BY <1>1, <2>1, <2>2
<1>9. ASSUME NEW a \in reports', NEW b \in reports', a.terms = b.terms
      PROVE  /\ Rank(a.settlement) < Rank(b.settlement) => a.updated <= b.updated
             /\ {a.settlement, b.settlement} \subseteq Terminal => a = b
  <2>1. CASE a \in reports /\ b \in reports
    BY <1>9, <2>1 DEF ReceiptInv, ReportsInOrder
  <2>2. CASE a \in reports /\ b = new
    BY <1>7, <1>9, <2>2 DEF ReceiptInv, ReportsInOrder
  <2>3. CASE a = new /\ b \in reports
    BY <1>4, <1>6, <1>7, <1>9, <2>3 DEF ReceiptInv, ReportsInOrder
  <2>4. CASE a = new /\ b = new
    BY <1>4, <2>4
  <2> QED
    BY <1>1, <2>1, <2>2, <2>3, <2>4
<1>10. ReportsInOrder'
  BY <1>8, <1>9 DEF ReportsInOrder, Rank
<1>11. ReceiptIsNewest'
  BY <1>1 DEF ReceiptInv, ReceiptIsNewest, Newer, Rank
<1> QED
  BY <1>3, <1>10, <1>11 DEF ReceiptInv

\* A report that is saved is the newest, and one that is refused is not.
LEMMA SavePublicReceiptSafe ==
    ASSUME ReceiptInv, NEW r \in reports, SavePublicReceipt(r)
    PROVE  ReceiptInv'
<1>1. /\ delivered' = delivered \cup {r} /\ UNCHANGED <<recordTime, stage, reports>>
      /\ receipt' = IF receipt = NoRecord \/ MayReplace(receipt, r) THEN r ELSE receipt
  BY DEF SavePublicReceipt
<1>2. r \in Receipt /\ r # NoRecord
  BY ReceiptsAssumption DEF ReceiptInv, RecordTyped
<1>3. RecordTyped'
  BY <1>1, <1>2 DEF ReceiptInv, RecordTyped
<1>4. ReportsInOrder'
  BY <1>1 DEF ReceiptInv, ReportsInOrder, Rank
<1>5. \A a \in reports : /\ a.terms \in Terms /\ a.settlement \in Settlement
                         /\ a.updated \in Nat /\ Rank(a.settlement) \in 0 .. 2
  BY Ranks, ReceiptsAssumption DEF ReceiptInv, RecordTyped, Receipt
<1>6. Newer(r, r)
  BY <1>5 DEF Newer
<1>7. CASE receipt = NoRecord
  <2>1. delivered' = {r} /\ receipt' = r
    BY <1>1, <1>7 DEF ReceiptInv, RecordTyped
  <2>2. ReceiptIsNewest'
    BY <1>6, <2>1 DEF ReceiptIsNewest, Newer, Rank
  <2> QED
    BY <1>3, <1>4, <2>2 DEF ReceiptInv
<1>8. CASE receipt # NoRecord
  <2> PICK row \in reports : row = receipt
    BY <1>8 DEF ReceiptInv, RecordTyped
  <2>1. \A d \in delivered : d \in reports /\ (d.terms = row.terms => Newer(d, row))
    BY <1>8 DEF ReceiptInv, ReceiptIsNewest, RecordTyped
  <2>2. row.terms = r.terms =>
          /\ Rank(r.settlement) < Rank(row.settlement) => r.updated <= row.updated
          /\ {row.settlement, r.settlement} \subseteq Terminal => row = r
    BY DEF ReceiptInv, ReportsInOrder
  <2>3. CASE MayReplace(row, r)
    <3>1. r.terms = row.terms /\ row.updated <= r.updated
          /\ Rank(row.settlement) <= Rank(r.settlement)
      BY <1>5, <2>3, Ranks DEF MayReplace
    <3>2. \A d \in delivered : d.terms = r.terms => Newer(d, r)
      BY <1>5, <2>1, <3>1 DEF Newer
    <3>3. receipt' = r
      BY <1>1, <2>3
    <3>4. ReceiptIsNewest'
      BY <1>1, <1>6, <3>2, <3>3 DEF ReceiptIsNewest, Newer, Rank
    <3> QED
      BY <1>3, <1>4, <3>4 DEF ReceiptInv
  <2>4. CASE ~MayReplace(row, r)
    <3>1. receipt' = row
      BY <1>1, <1>8, <2>4
    <3>2. ASSUME r.terms = row.terms PROVE Newer(r, row)
      <4>1. CASE r.updated < row.updated
        BY <4>1 DEF Newer
      <4>2. CASE row.updated <= r.updated
        <5>1. Rank(r.settlement) < Rank(row.settlement)
          BY <1>5, <2>2, <2>4, <3>2, <4>2, Ranks DEF MayReplace
        <5> QED
          BY <1>5, <2>2, <3>2, <4>2, <5>1 DEF Newer
      <4> QED
        BY <1>5, <4>1, <4>2
    <3>3. ReceiptIsNewest'
      BY <1>1, <2>1, <3>1, <3>2 DEF ReceiptIsNewest, Newer, Rank
    <3> QED
      BY <1>3, <1>4, <3>3 DEF ReceiptInv
  <2> QED
    BY <2>3, <2>4
<1> QED
  BY <1>7, <1>8

\* Evidence that is published is in its row, and its row is never written again.
LEMMA EvidenceSafe ==
    ASSUME EvidenceStands, EvidenceStep
    PROVE  EvidenceStands'
<1>1. \A p \in published : p.is # NoRecord
  BY ReceiptsAssumption DEF EvidenceStands
<1>2. ASSUME NEW e \in Evidence, SaveReleaseManifest(e) PROVE EvidenceStands'
  <2>1. CASE manifest = NoRecord
    <3>1. manifest' = e /\ benchmark' = benchmark
          /\ published' = published \cup {[kind |-> "release", is |-> e]}
      BY <1>2, <2>1 DEF SaveReleaseManifest, FirstWriterWins
    <3>2. \A p \in published : p.kind # "release"
      BY <1>1, <2>1 DEF EvidenceStands
    <3> QED
      BY <3>1, <3>2 DEF EvidenceStands
  <2>2. CASE manifest # NoRecord
    <3>1. UNCHANGED evidenceVars
      BY <1>2, <2>2 DEF SaveReleaseManifest, FirstWriterWins, evidenceVars
    <3> QED
      BY <3>1 DEF EvidenceStands, evidenceVars
  <2> QED
    BY <2>1, <2>2
<1>3. ASSUME NEW e \in Evidence, SaveBenchmarkRun(e) PROVE EvidenceStands'
  <2>1. CASE benchmark = NoRecord
    <3>1. benchmark' = e /\ manifest' = manifest
          /\ published' = published \cup {[kind |-> "benchmark", is |-> e]}
      BY <1>3, <2>1 DEF SaveBenchmarkRun, FirstWriterWins
    <3>2. \A p \in published : p.kind = "release"
      BY <1>1, <2>1 DEF EvidenceStands
    <3> QED
      BY <3>1, <3>2 DEF EvidenceStands
  <2>2. CASE benchmark # NoRecord
    <3>1. UNCHANGED evidenceVars
      BY <1>3, <2>2 DEF SaveBenchmarkRun, FirstWriterWins, evidenceVars
    <3> QED
      BY <3>1 DEF EvidenceStands, evidenceVars
  <2> QED
    BY <2>1, <2>2
<1>4. ASSUME UNCHANGED evidenceVars PROVE EvidenceStands'
  BY <1>4 DEF EvidenceStands, evidenceVars
<1> QED
  BY <1>2, <1>3, <1>4 DEF EvidenceStep, CreateHostedMetadataRequest, CleanupRequests

\* Nothing has been saved.
LEMMA RecordInitSafe == RecordInit => ReceiptInv /\ EvidenceStands
<1> SUFFICES ASSUME RecordInit PROVE ReceiptInv /\ EvidenceStands
  OBVIOUS
<1>1. \A r \in reports : /\ r \in Receipt /\ r.settlement = "not_started" /\ r.updated = 0
                         /\ Rank(stage[r.terms]) = 0
  BY ReceiptsAssumption DEF RecordInit, Receipt, Settlement, Rank, Terminal
<1>2. RecordTyped
  BY <1>1, ReceiptsAssumption DEF RecordInit, RecordTyped, Settlement
<1>3. ReportsInOrder
  BY <1>1 DEF RecordInit, ReportsInOrder, Rank, Terminal
<1> QED
  BY <1>2, <1>3 DEF RecordInit, ReceiptInv, ReceiptIsNewest, EvidenceStands

LEMMA RecordNextSafe ==
    ReceiptInv /\ EvidenceStands /\ [RecordNext]_recordVars => (ReceiptInv /\ EvidenceStands)'
<1> SUFFICES ASSUME ReceiptInv, EvidenceStands, [RecordNext]_recordVars
             PROVE  (ReceiptInv /\ EvidenceStands)'
  OBVIOUS
<1>1. ASSUME UNCHANGED receiptVars, recordTime' \in 0 .. MaxRecordTime, recordTime <= recordTime'
      PROVE  ReceiptInv'
  <2>1. \A a \in reports : a.updated \in Nat
    BY ReceiptsAssumption DEF ReceiptInv, RecordTyped, Receipt
  <2>2. RecordTyped'
    BY <1>1 DEF ReceiptInv, RecordTyped, receiptVars
  <2>3. \A a \in reports : a.updated <= recordTime'
    BY <1>1, <2>1, ReceiptsAssumption DEF ReceiptInv, RecordTyped, ReportsInOrder
  <2>4. ReportsInOrder'
    BY <1>1, <2>3 DEF ReceiptInv, ReportsInOrder, receiptVars, Rank
  <2>5. ReceiptIsNewest'
    BY <1>1 DEF ReceiptInv, ReceiptIsNewest, receiptVars, Newer, Rank
  <2> QED
    BY <2>2, <2>4, <2>5 DEF ReceiptInv
<1>2. recordTime \in 0 .. MaxRecordTime
  BY DEF ReceiptInv, RecordTyped
<1>3. ASSUME UNCHANGED evidenceVars PROVE EvidenceStands'
  BY <1>3 DEF EvidenceStands, evidenceVars
<1>4. CASE PassRecordTime
  <2>1. recordTime' \in 0 .. MaxRecordTime /\ recordTime <= recordTime'
    BY <1>2, <1>4, ReceiptsAssumption DEF PassRecordTime
  <2> QED
    BY <1>1, <1>3, <1>4, <2>1 DEF PassRecordTime
<1>5. CASE ReceiptStep
  <2>1. UNCHANGED evidenceVars
    BY <1>5 DEF ReceiptStep, Report, SavePublicReceipt
  <2> QED
    BY <1>3, <1>5, <2>1, ReportSafe, SavePublicReceiptSafe DEF ReceiptStep
<1>6. CASE EvidenceStep
  <2>1. UNCHANGED <<recordTime, receiptVars>>
    BY <1>6 DEF EvidenceStep, SaveReleaseManifest, SaveBenchmarkRun,
                CreateHostedMetadataRequest, CleanupRequests
  <2> QED
    BY <1>1, <1>2, <1>6, <2>1, EvidenceSafe
<1>7. CASE UNCHANGED recordVars
  BY <1>1, <1>2, <1>3, <1>7 DEF recordVars
<1> QED
  BY <1>4, <1>5, <1>6, <1>7 DEF RecordNext

\* The receipt is the newest report that arrived, however late, often and out of
\* order they come; evidence stays as first published.
THEOREM RecordsAlwaysStand == RecordSpec => []RecordsStand
<1>1. ReceiptInv /\ EvidenceStands => RecordsStand
  BY DEF ReceiptInv, ReceiptIsNewest, Newer, EvidenceStands, RecordsStand
<1> QED
  BY <1>1, RecordInitSafe, RecordNextSafe, PTL DEF RecordSpec

-----------------------------------------------------------------------------
(* OAuth links.  A link state is in one place: in the table, with the one   *)
(* handler that deleted it from there, or in the link it made.              *)

LinkRow == [state : LinkState, wallet : LinkWallet, expires : Nat]
Made == [state : LinkState, wallet : LinkWallet]
Handling ==
    [phase : {"idle"}]
    \cup [phase : {"found"}, wallet : LinkWallet, known : BOOLEAN, expires : Nat]
    \cup [phase : {"exchanging"}, state : LinkState, wallet : LinkWallet]
    \cup [phase : {"exchanged"}, state : LinkState, wallet : LinkWallet, subject : Subject]

LinkTyped ==
    /\ linkTime \in Nat
    /\ userWallets \subseteq LinkWallet
    /\ linkStates \subseteq LinkRow
    /\ linking \in [LinkHandler -> Handling]
    /\ identities \in [LinkWallet -> Subject \cup {Nobody}]
    /\ askedBy \in [LinkState -> LinkWallet \cup {Nobody}]
    /\ links \in Seq(Made)

\* h has taken state s from the table
Carries(h, s) == linking[h].phase \in {"exchanging", "exchanged"} /\ linking[h].state = s
Linked(s) == \E i \in DOMAIN links : links[i].state = s

HandlersKnowTheirUser ==
    \A h \in LinkHandler :
        /\ linking[h].phase \in {"exchanging", "exchanged"} =>
             /\ linking[h].wallet \in userWallets
             /\ askedBy[linking[h].state] = linking[h].wallet
        /\ (linking[h].phase = "found" /\ linking[h].known) => linking[h].wallet \in userWallets

StatesAreInOnePlace ==
    /\ \A row \in linkStates :
         /\ row.wallet \in userWallets /\ askedBy[row.state] = row.wallet
         /\ \A other \in linkStates : other.state = row.state => other = row
         /\ ~Linked(row.state)
    /\ \A h \in LinkHandler, s \in LinkState : Carries(h, s) =>
         /\ ~Linked(s) /\ \A row \in linkStates : row.state # s
         /\ \A g \in LinkHandler : Carries(g, s) => g = h

IdentitiesInv ==
    \A w \in LinkWallet : identities[w] # Nobody =>
        /\ w \in userWallets
        /\ \A v \in LinkWallet \ {w} : identities[v] # identities[w]

LinkInv ==
    /\ LinkTyped
    /\ HandlersKnowTheirUser
    /\ StatesAreInOnePlace
    /\ StateLinksOnce
    /\ IdentitiesInv

\* What the phase of a handler says about what it holds.
LEMMA HandlingHolds ==
    ASSUME LinkTyped, NEW h \in LinkHandler
    PROVE  /\ linking[h] \in Handling
           /\ linking[h].phase = "found" =>
                /\ linking[h].wallet \in LinkWallet /\ linking[h].known \in BOOLEAN
                /\ linking[h].expires \in Nat
           /\ linking[h].phase \in {"exchanging", "exchanged"} =>
                linking[h].state \in LinkState /\ linking[h].wallet \in LinkWallet
           /\ linking[h].phase = "exchanged" => linking[h].subject \in Subject
<1>1. linking[h] \in Handling
  BY DEF LinkTyped
<1> QED
  BY <1>1 DEF Handling

\* A handler that carries no more than before keeps the invariant, if the tables
\* and the history stand.
LEMMA HandlerMoves ==
    ASSUME LinkInv, NEW h \in LinkHandler, NEW next \in Handling,
           linking' = [linking EXCEPT ![h] = next],
           UNCHANGED <<linkTime, userWallets, linkStates, identities, askedBy, links>>,
           next.phase \in {"exchanging", "exchanged"} =>
             /\ linking[h].phase \in {"exchanging", "exchanged"}
             /\ next.state = linking[h].state /\ next.wallet = linking[h].wallet,
           (next.phase = "found" /\ next.known) => next.wallet \in userWallets
    PROVE  LinkInv'
<1>1. LinkTyped'
  BY DEF LinkInv, LinkTyped
<1>2. \A g \in LinkHandler : linking'[g] = IF g = h THEN next ELSE linking[g]
  BY DEF LinkInv, LinkTyped
<1>3. \A g \in LinkHandler, s \in LinkState : Carries(g, s)' => Carries(g, s)
  BY <1>2 DEF Carries
<1>4. HandlersKnowTheirUser'
  BY <1>2 DEF LinkInv, HandlersKnowTheirUser
<1>5. \A s : Linked(s)' <=> Linked(s)
  BY DEF Linked
<1>6. StatesAreInOnePlace'
  <2>1. \A row \in linkStates' :
          /\ row.wallet \in userWallets' /\ askedBy'[row.state] = row.wallet
          /\ \A other \in linkStates' : other.state = row.state => other = row
          /\ ~Linked(row.state)'
    BY <1>5 DEF LinkInv, StatesAreInOnePlace
  <2>2. \A g \in LinkHandler, s \in LinkState : Carries(g, s)' =>
          /\ ~Linked(s)' /\ \A row \in linkStates' : row.state # s
          /\ \A f \in LinkHandler : Carries(f, s)' => f = g
    BY <1>3, <1>5 DEF LinkInv, StatesAreInOnePlace
  <2> QED
    BY <2>1, <2>2 DEF StatesAreInOnePlace, Linked, Carries
<1>7. StateLinksOnce' /\ IdentitiesInv'
  BY DEF LinkInv, StateLinksOnce, IdentitiesInv
<1> QED
  BY <1>1, <1>4, <1>6, <1>7 DEF LinkInv

\* A new state is in no place yet: nobody has asked for it.
LEMMA FreshState ==
    ASSUME LinkInv, NEW t \in LinkState, askedBy[t] = Nobody
    PROVE  /\ \A row \in linkStates : row.state # t
           /\ \A h \in LinkHandler : ~Carries(h, t)
           /\ ~Linked(t)
<1>1. \A row \in linkStates : row.state # t
  BY OAuthLinkAssumption DEF LinkInv, LinkTyped, LinkRow, StatesAreInOnePlace
<1>2. \A h \in LinkHandler : ~Carries(h, t)
  BY HandlingHolds, OAuthLinkAssumption DEF LinkInv, Carries, HandlersKnowTheirUser
<1>3. ~Linked(t)
  <2> SUFFICES ASSUME NEW i \in DOMAIN links, links[i].state = t PROVE FALSE
    BY DEF Linked
  <2>1. links[i] \in Made
    BY DEF LinkInv, LinkTyped
  <2>2. links[i].wallet \in LinkWallet /\ links[i].wallet = askedBy[t]
    BY <2>1 DEF LinkInv, StateLinksOnce, Made
  <2> QED
    BY <2>2, OAuthLinkAssumption
<1> QED
  BY <1>1, <1>2, <1>3

\* The user and the state are written together.
LEMMA CreateOAuthLinkStateSafe ==
    ASSUME LinkInv, NEW h \in LinkHandler, CreateOAuthLinkState(h)
    PROVE  LinkInv'
<1> PICK w \in LinkWallet, known \in BOOLEAN, expires \in Nat :
      w = linking[h].wallet /\ known = linking[h].known /\ expires = linking[h].expires
  BY HandlingHolds DEF CreateOAuthLinkState, Linking, LinkInv
<1>1. /\ linking' = [linking EXCEPT ![h] = NotLinking]
      /\ UNCHANGED <<linkTime, identities, links>>
      /\ NotLinking \in Handling /\ NotLinking.phase = "idle"
  BY DEF CreateOAuthLinkState, Enter, NotLinking, Handling
<1>2. CASE UNCHANGED <<userWallets, linkStates, askedBy>>
  BY <1>1, <1>2, HandlerMoves
<1>3. CASE ~UNCHANGED <<userWallets, linkStates, askedBy>>
  <2> DEFINE Row(t) == [state |-> t, wallet |-> w, expires |-> expires]
  <2> PICK t \in LinkState :
        /\ askedBy[t] = Nobody
        /\ userWallets' = userWallets \cup {w}
        /\ askedBy' = [askedBy EXCEPT ![t] = w]
        /\ linkStates' = linkStates \cup {Row(t)}
    BY <1>3 DEF CreateOAuthLinkState
  <2> DEFINE row == Row(t)
  <2>1. row \in LinkRow /\ row.state = t /\ row.wallet = w
    BY DEF LinkRow
  <2>2. LinkTyped'
    BY <1>1, <2>1 DEF LinkInv, LinkTyped
  <2>3. /\ \A r \in linkStates : r.state # t
        /\ \A g \in LinkHandler : ~Carries(g, t)
        /\ ~Linked(t)
    BY FreshState
  <2>4. \A g \in LinkHandler : linking'[g] = IF g = h THEN NotLinking ELSE linking[g]
    BY <1>1 DEF LinkInv, LinkTyped
  <2>5. \A g \in LinkHandler : \A s : Carries(g, s)' => Carries(g, s) /\ s # t
    BY <1>1, <2>3, <2>4 DEF Carries
  <2>6. \A s : Linked(s)' <=> Linked(s)
    BY <1>1 DEF Linked
  <2>7. \A s \in LinkState : askedBy'[s] = IF s = t THEN w ELSE askedBy[s]
    BY DEF LinkInv, LinkTyped
  <2>8. HandlersKnowTheirUser'
    <3> SUFFICES ASSUME NEW g \in LinkHandler
                 PROVE  /\ linking'[g].phase \in {"exchanging", "exchanged"} =>
                             /\ linking'[g].wallet \in userWallets'
                             /\ askedBy'[linking'[g].state] = linking'[g].wallet
                        /\ (linking'[g].phase = "found" /\ linking'[g].known) =>
                             linking'[g].wallet \in userWallets'
      BY DEF HandlersKnowTheirUser
    <3>1. CASE g = h
      BY <1>1, <2>4, <3>1
    <3>2. CASE g # h
      <4>1. linking[g].phase \in {"exchanging", "exchanged"} =>
              linking[g].state \in LinkState \ {t}
        BY <2>3, HandlingHolds DEF Carries, LinkInv
      <4> QED
        BY <2>4, <2>7, <3>2, <4>1 DEF LinkInv, HandlersKnowTheirUser
    <3> QED
      BY <3>1, <3>2
  <2>9. StatesAreInOnePlace'
    <3>1. \A r \in linkStates : r.state \in LinkState \ {t}
      BY <2>3 DEF LinkInv, LinkTyped, LinkRow
    <3>2. \A r \in linkStates' :
            /\ r.wallet \in userWallets' /\ askedBy'[r.state] = r.wallet
            /\ \A other \in linkStates' : other.state = r.state => other = r
            /\ ~Linked(r.state)'
      BY <2>1, <2>3, <2>6, <2>7, <3>1 DEF LinkInv, StatesAreInOnePlace
    <3>3. \A g \in LinkHandler, s \in LinkState : Carries(g, s)' =>
            /\ ~Linked(s)' /\ \A r \in linkStates' : r.state # s
            /\ \A f \in LinkHandler : Carries(f, s)' => f = g
      BY <2>1, <2>5, <2>6 DEF LinkInv, StatesAreInOnePlace
    <3> QED
      BY <3>2, <3>3 DEF StatesAreInOnePlace, Linked, Carries
  <2>10. StateLinksOnce'
    <3>1. \A i \in DOMAIN links : links[i] \in Made
      BY DEF LinkInv, LinkTyped
    <3>2. \A i \in DOMAIN links : links[i].state \in LinkState \ {t}
      BY <2>3, <3>1 DEF Made, Linked
    <3> QED
      BY <1>1, <2>7, <3>2 DEF LinkInv, StateLinksOnce
  <2>11. IdentitiesInv'
    BY <1>1 DEF LinkInv, IdentitiesInv
  <2> QED
    BY <2>2, <2>8, <2>9, <2>10, <2>11 DEF LinkInv
<1> QED
  BY <1>2, <1>3

\* DELETE ... RETURNING moves the state from the table to one handler.
LEMMA ConsumeOAuthLinkStateSafe ==
    ASSUME LinkInv, NEW h \in LinkHandler, NEW state \in LinkState,
           ConsumeOAuthLinkState(h, state)
    PROVE  LinkInv'
<1> PICK row \in linkStates :
      /\ row.state = state
      /\ linkStates' = {r \in linkStates : r.state # state}
      /\ linking' = [linking EXCEPT ![h] =
                       [phase |-> "exchanging", state |-> state, wallet |-> row.wallet]]
  BY DEF ConsumeOAuthLinkState, RemainingStates, Enter
<1> DEFINE next == [phase |-> "exchanging", state |-> state, wallet |-> row.wallet]
<1>1. /\ UNCHANGED <<linkTime, userWallets, identities, askedBy, links>>
      /\ next \in Handling /\ next.phase = "exchanging"
      /\ next.state = state /\ next.wallet = row.wallet
  BY DEF ConsumeOAuthLinkState, LinkInv, LinkTyped, LinkRow, Handling
<1>2. /\ row.wallet \in userWallets /\ askedBy[state] = row.wallet
      /\ ~Linked(state)
      /\ \A g \in LinkHandler : ~Carries(g, state)
  BY DEF LinkInv, StatesAreInOnePlace
<1> HIDE DEF next
<1>3. LinkTyped'
  BY <1>1 DEF LinkInv, LinkTyped, next
<1>4. \A g \in LinkHandler : linking'[g] = IF g = h THEN next ELSE linking[g]
  BY DEF LinkInv, LinkTyped, next
<1>5. HandlersKnowTheirUser'
  BY <1>1, <1>2, <1>4 DEF LinkInv, HandlersKnowTheirUser
<1>6. \A g \in LinkHandler : \A s : Carries(g, s)' => (g = h /\ s = state) \/ Carries(g, s)
  BY <1>1, <1>4 DEF Carries
<1>7. \A s : Linked(s)' <=> Linked(s)
  BY <1>1 DEF Linked
<1>8. StatesAreInOnePlace'
  <2>1. \A r \in linkStates' :
          /\ r.wallet \in userWallets' /\ askedBy'[r.state] = r.wallet
          /\ \A other \in linkStates' : other.state = r.state => other = r
          /\ ~Linked(r.state)'
    BY <1>1, <1>7 DEF LinkInv, StatesAreInOnePlace
  <2>2. \A g \in LinkHandler, s \in LinkState : Carries(g, s)' =>
          /\ ~Linked(s)' /\ \A r \in linkStates' : r.state # s
          /\ \A f \in LinkHandler : Carries(f, s)' => f = g
    BY <1>2, <1>6, <1>7 DEF LinkInv, StatesAreInOnePlace
  <2> QED
    BY <2>1, <2>2 DEF StatesAreInOnePlace, Linked, Carries
<1>9. StateLinksOnce' /\ IdentitiesInv'
  BY <1>1 DEF LinkInv, StateLinksOnce, IdentitiesInv
<1> QED
  BY <1>3, <1>5, <1>8, <1>9 DEF LinkInv

\* The link ends the handler's hold on its state; the primary key keeps the
\* identity to one wallet.
LEMMA LinkGitHubIdentitySafe ==
    ASSUME LinkInv, NEW h \in LinkHandler, LinkGitHubIdentity(h)
    PROVE  LinkInv'
<1> PICK state \in LinkState, w \in LinkWallet, subject \in Subject :
      /\ state = linking[h].state /\ w = linking[h].wallet /\ subject = linking[h].subject
  BY HandlingHolds DEF LinkGitHubIdentity, Linking, LinkInv
<1> DEFINE made == [state |-> state, wallet |-> w]
<1>1. /\ linking' = [linking EXCEPT ![h] = NotLinking]
      /\ UNCHANGED <<linkTime, userWallets, linkStates, askedBy>>
      /\ identities' = [identities EXCEPT ![w] = subject]
      /\ links' = Append(links, made)
      /\ \A v \in LinkWallet \ {w} : identities[v] # subject
      /\ NotLinking \in Handling /\ NotLinking.phase = "idle"
      /\ linking[h].phase = "exchanged"
  BY DEF LinkGitHubIdentity, Linking, Enter, SubjectFree, NotLinking, Handling
<1>2. made \in Made /\ made.state = state /\ made.wallet = w
  BY DEF Made
<1>3. /\ w \in userWallets /\ askedBy[state] = w
      /\ ~Linked(state) /\ \A row \in linkStates : row.state # state
      /\ Carries(h, state) /\ \A g \in LinkHandler : Carries(g, state) => g = h
  BY <1>1 DEF LinkInv, HandlersKnowTheirUser, StatesAreInOnePlace, Carries
<1> HIDE DEF made
<1>4. /\ links' \in Seq(Made)
      /\ \A i \in DOMAIN links' : \/ i \in DOMAIN links /\ links'[i] = links[i]
                                  \/ i = Len(links) + 1 /\ links'[i] = made
  BY <1>1, <1>2, ElementOfSequence DEF LinkInv, LinkTyped
<1>5. LinkTyped'
  BY <1>1, <1>4 DEF LinkInv, LinkTyped
<1>6. \A g \in LinkHandler : linking'[g] = IF g = h THEN NotLinking ELSE linking[g]
  BY <1>1 DEF LinkInv, LinkTyped
<1>7. HandlersKnowTheirUser'
  BY <1>1, <1>6 DEF LinkInv, HandlersKnowTheirUser
<1>8. \A s : Linked(s)' => Linked(s) \/ s = state
  BY <1>2, <1>4 DEF Linked
<1>9. \A g \in LinkHandler : \A s : Carries(g, s)' => Carries(g, s) /\ s # state
  BY <1>1, <1>3, <1>6 DEF Carries
<1>10. StatesAreInOnePlace'
  <2>1. \A r \in linkStates' :
          /\ r.wallet \in userWallets' /\ askedBy'[r.state] = r.wallet
          /\ \A other \in linkStates' : other.state = r.state => other = r
          /\ ~Linked(r.state)'
    BY <1>1, <1>3, <1>8 DEF LinkInv, StatesAreInOnePlace
  <2>2. \A g \in LinkHandler, s \in LinkState : Carries(g, s)' =>
          /\ ~Linked(s)' /\ \A r \in linkStates' : r.state # s
          /\ \A f \in LinkHandler : Carries(f, s)' => f = g
    BY <1>1, <1>8, <1>9 DEF LinkInv, StatesAreInOnePlace
  <2> QED
    BY <2>1, <2>2 DEF StatesAreInOnePlace, Linked, Carries
<1>11. StateLinksOnce'
  <2>1. \A i \in DOMAIN links : links[i].state # state
    BY <1>3 DEF Linked
  <2> QED
    BY <1>1, <1>2, <1>3, <1>4, <2>1 DEF LinkInv, StateLinksOnce
<1>12. IdentitiesInv'
  <2>1. \A v \in LinkWallet : identities'[v] = IF v = w THEN subject ELSE identities[v]
    BY <1>1 DEF LinkInv, LinkTyped
  <2> QED
    BY <1>1, <1>3, <2>1 DEF LinkInv, IdentitiesInv
<1> QED
  BY <1>5, <1>7, <1>10, <1>11, <1>12 DEF LinkInv

\* Nothing is linked.
LEMMA LinkInitSafe == LinkInit => LinkInv
<1> SUFFICES ASSUME LinkInit PROVE LinkInv
  OBVIOUS
<1>1. \A h \in LinkHandler : linking[h] = NotLinking /\ linking[h].phase = "idle"
  BY DEF LinkInit, NotLinking
<1>2. LinkTyped
  <2>1. NotLinking \in Handling
    BY DEF NotLinking, Handling
  <2> QED
    BY <2>1 DEF LinkInit, LinkTyped
<1>3. HandlersKnowTheirUser /\ StatesAreInOnePlace
  BY <1>1 DEF LinkInit, HandlersKnowTheirUser, StatesAreInOnePlace, Carries
<1>4. StateLinksOnce /\ IdentitiesInv
  BY DEF LinkInit, StateLinksOnce, IdentitiesInv
<1> QED
  BY <1>2, <1>3, <1>4 DEF LinkInv

LEMMA LinkNextSafe == LinkInv /\ [LinkNext]_linkVars => LinkInv'
<1> SUFFICES ASSUME LinkInv, [LinkNext]_linkVars PROVE LinkInv'
  OBVIOUS
<1>1. ASSUME NEW h \in LinkHandler, NEW w \in LinkWallet, FindUser(h, w) PROVE LinkInv'
  <2> DEFINE known == w \in userWallets
  <2>0. known \in BOOLEAN /\ (known => w \in userWallets)
    OBVIOUS
  <2> DEFINE next == [phase |-> "found", wallet |-> w, known |-> known,
                      expires |-> linkTime + StateLife]
  <2>1. linking' = [linking EXCEPT ![h] = next]
    BY <1>1 DEF FindUser, Enter
  <2> HIDE DEF known
  <2>2. linkTime + StateLife \in Nat
    BY OAuthLinkAssumption DEF LinkInv, LinkTyped
  <2>3. next \in Handling
    BY <2>0, <2>2 DEF Handling
  <2> QED
    BY <1>1, <2>0, <2>1, <2>3, HandlerMoves DEF FindUser
<1>2. ASSUME NEW h \in LinkHandler, NEW subject \in Subject, ExchangeGitHubIdentity(h, subject)
      PROVE  LinkInv'
  <2> PICK state \in LinkState, w \in LinkWallet :
        state = linking[h].state /\ w = linking[h].wallet
    BY <1>2, HandlingHolds DEF ExchangeGitHubIdentity, Linking, LinkInv
  <2> DEFINE next == [phase |-> "exchanged", state |-> state, wallet |-> w,
                      subject |-> subject]
  <2>1. next \in Handling /\ linking' = [linking EXCEPT ![h] = next]
    BY <1>2 DEF ExchangeGitHubIdentity, Enter, Handling
  <2> QED
    BY <1>2, <2>1, HandlerMoves DEF ExchangeGitHubIdentity, Linking
<1>3. ASSUME NEW h \in LinkHandler, AbandonLink(h) PROVE LinkInv'
  <2>1. NotLinking \in Handling /\ NotLinking.phase = "idle"
    BY DEF NotLinking, Handling
  <2> QED
    BY <1>3, <2>1, HandlerMoves DEF AbandonLink, Enter
<1>4. ASSUME linkStates' \subseteq linkStates, linkTime' \in Nat,
             UNCHANGED <<userWallets, linking, identities, askedBy, links>>
      PROVE  LinkInv'
  <2>1. LinkTyped' /\ HandlersKnowTheirUser' /\ StateLinksOnce' /\ IdentitiesInv'
    BY <1>4 DEF LinkInv, LinkTyped, HandlersKnowTheirUser, StateLinksOnce, IdentitiesInv
  <2>2. StatesAreInOnePlace'
    BY <1>4 DEF LinkInv, StatesAreInOnePlace, Linked, Carries
  <2> QED
    BY <2>1, <2>2 DEF LinkInv
<1>5. CASE CleanupLinkStates
  BY <1>4, <1>5 DEF CleanupLinkStates, LinkInv, LinkTyped
<1>6. CASE PassLinkTime
  <2>1. linkTime' \in Nat
    BY <1>6 DEF PassLinkTime, LinkInv, LinkTyped
  <2> QED
    BY <1>4, <1>6, <2>1 DEF PassLinkTime
<1>7. CASE UNCHANGED linkVars
  <2>1. linkTime' \in Nat
    BY <1>7 DEF linkVars, LinkInv, LinkTyped
  <2> QED
    BY <1>4, <1>7, <2>1 DEF linkVars
<1> QED
  BY <1>1, <1>2, <1>3, <1>5, <1>6, <1>7, CreateOAuthLinkStateSafe,
     ConsumeOAuthLinkStateSafe, LinkGitHubIdentitySafe DEF LinkNext

\* A link state is in the table, with one handler or in one link, and a linked
\* identity is of a wallet that has a user.
THEOREM LinkInvariant == LinkSpec => []LinkInv
  BY LinkInitSafe, LinkNextSafe, PTL DEF LinkSpec

\* Two wallets never show one GitHub identity, for any number of racing callbacks.
THEOREM IdentitiesStayApart == LinkSpec => []IdentityHasOneWallet
<1>1. LinkInv => IdentityHasOneWallet
  <2> SUFFICES ASSUME LinkInv PROVE IdentityHasOneWallet
    OBVIOUS
  <2>1. \A w \in LinkWallet : GetGitHubIdentity(w) = identities[w]
    BY DEF LinkInv, IdentitiesInv, GetGitHubIdentity
  <2> QED
    BY <2>1 DEF LinkInv, IdentitiesInv, IdentityHasOneWallet
<1> QED
  BY <1>1, LinkInvariant, PTL

\* A link state makes at most one link, of the wallet whose session asked for it.
THEOREM StatesLinkOnce == LinkSpec => []StateLinksOnce
<1>1. LinkInv => StateLinksOnce
  BY DEF LinkInv
<1> QED
  BY <1>1, LinkInvariant, PTL

-----------------------------------------------------------------------------
(* The policy runner.  The loop keeps one flag for the policies so far: it  *)
(* is up exactly while each of them cleared the payment; the verdict is the *)
(* flag after the last one.                                                *)

Risks == 0 .. MaxRisk + 1

WellFormed ==
    /\ policies \in Seq(Policy)
    /\ decisions \in Seq({"allow", "warn", "deny", "error"})
    /\ heard \in Seq(Risks)
    /\ allowed \in BOOLEAN
    /\ Len(heard) = Len(decisions)
    /\ Len(decisions) <= Len(policies)
    /\ phase \in {"asking", "reading"} => Len(decisions) < Len(policies)
    /\ phase \in {"passed", "refused"} => Len(decisions) = Len(policies)

AllowedIfCleared == allowed <=> \A i \in 1 .. Len(decisions) : Clears(i)

VerdictIsTheFlag ==
    /\ phase = "passed" => allowed
    /\ phase = "refused" => ~allowed

PolicyInv == WellFormed /\ AllowedIfCleared /\ VerdictIsTheFlag

\* Nothing has been asked yet.
LEMMA PolicyInitSafe == PolicyInit => PolicyInv
<1> SUFFICES ASSUME PolicyInit PROVE PolicyInv
  OBVIOUS
<1>1. WellFormed
  BY PolicySetsAssumption DEF PolicyInit, WellFormed
<1>2. AllowedIfCleared /\ VerdictIsTheFlag
  BY DEF PolicyInit, AllowedIfCleared, VerdictIsTheFlag
<1> QED
  BY <1>1, <1>2 DEF PolicyInv

\* A decision refuses exactly when its policy did not clear the payment, if the
\* risk that was heard fits what was said.
LEMMA DecideSafe ==
    ASSUME PolicyInv, phase \in {"asking", "reading"},
           NEW said \in {"allow", "warn", "deny", "error"}, NEW risk \in Risks,
           said = "error" <=> risk = Unheard,
           said = "allow" <=> risk < Alarming(Asked),
           Decide(said, risk)
    PROVE  PolicyInv'
<1> PICK n \in Nat : n = Len(decisions) + 1
  BY DEF PolicyInv, WellFormed
<1> DEFINE outcome == IF policies[n].named THEN said ELSE "error"
<1>1. /\ decisions' = Append(decisions, outcome)
      /\ heard' = Append(heard, risk)
      /\ allowed' = (allowed /\ ~Forbids(policies[n], outcome))
      /\ phase' = "deciding"
      /\ policies' = policies
  BY DEF Decide, Asked
<1>2. n \in 1 .. Len(policies) /\ policies[n] \in Policy
  BY DEF PolicyInv, WellFormed
<1>3. /\ Len(decisions') = n /\ Len(heard') = n
      /\ heard'[n] = risk
      /\ \A i \in 1 .. Len(decisions) : heard'[i] = heard[i]
  BY <1>1 DEF PolicyInv, WellFormed
<1>4. WellFormed'
  <2>1. outcome \in {"allow", "warn", "deny", "error"}
    OBVIOUS
  <2>2. allowed' \in BOOLEAN
    BY <1>1 DEF PolicyInv, WellFormed
  <2> QED
    BY <1>1, <1>2, <1>3, <2>1, <2>2 DEF PolicyInv, WellFormed
<1>5. Clears(n)' <=> ~Forbids(policies[n], outcome)
  <2>1. Alarming(policies[n]) \in Nat /\ Alarming(policies[n]) < Unheard
    BY PolicyAssumption DEF Unheard, Alarming
  <2> QED
    BY <1>1, <1>2, <1>3, <2>1 DEF Clears, Forbids, Policy, Risks, Unheard, Asked, Alarming
<1>6. \A i \in 1 .. Len(decisions) : Clears(i)' <=> Clears(i)
  BY <1>1, <1>3 DEF Clears, Unheard, Alarming
<1>7. AllowedIfCleared'
  <2>1. 1 .. Len(decisions') = 1 .. Len(decisions) \cup {n}
    BY <1>3 DEF PolicyInv, WellFormed
  <2>2. (\A i \in 1 .. Len(decisions') : Clears(i)')
          <=> (\A i \in 1 .. Len(decisions) : Clears(i)) /\ Clears(n)'
    BY <1>6, <2>1
  <2> QED
    BY <1>1, <1>5, <2>2 DEF PolicyInv, AllowedIfCleared
<1>8. VerdictIsTheFlag'
  BY <1>1 DEF VerdictIsTheFlag
<1> QED
  BY <1>4, <1>7, <1>8 DEF PolicyInv

\* What Webacy reports is judged by the thresholds.
LEMMA OutcomeFitsRisk ==
    ASSUME NEW risk \in 0 .. MaxRisk
    PROVE  /\ OutcomeOf(risk) \in {"allow", "warn", "deny"}
           /\ OutcomeOf(risk) = "allow" <=> risk < WarnAt
  BY PolicyAssumption DEF OutcomeOf

\* Every step keeps the invariant.
LEMMA PolicyNextSafe == PolicyInv /\ [PolicyNext]_policyVars => PolicyInv'
<1> SUFFICES ASSUME PolicyInv, [PolicyNext]_policyVars PROVE PolicyInv'
  OBVIOUS
<1>1. ASSUME UNCHANGED <<policies, decisions, allowed, heard>>,
             phase' \in {"asking", "reading"} => Len(decisions) < Len(policies),
             phase' \in {"passed", "refused"} => Len(decisions) = Len(policies),
             VerdictIsTheFlag'
      PROVE  PolicyInv'
  <2>1. WellFormed'
    BY <1>1 DEF PolicyInv, WellFormed
  <2>2. \A i \in 1 .. Len(decisions) : Clears(i)' <=> Clears(i)
    BY <1>1 DEF Clears, Unheard, Alarming
  <2>3. AllowedIfCleared'
    BY <1>1, <2>2 DEF PolicyInv, AllowedIfCleared
  <2> QED
    BY <1>1, <2>1, <2>3 DEF PolicyInv
<1>2. CASE AskNext
  BY <1>1, <1>2 DEF AskNext, VerdictIsTheFlag
<1>3. CASE PassDeadline
  BY <1>1, <1>3 DEF PassDeadline, VerdictIsTheFlag, PolicyInv, WellFormed
<1>4. CASE Conclude
  BY <1>1, <1>4 DEF Conclude, VerdictIsTheFlag
<1>5. CASE MerchantEvaluates
  <2>1. {0, 1, Unheard} \subseteq Risks /\ 1 < Unheard /\ ~(Unheard < 1)
    BY PolicyAssumption DEF Risks, Unheard
  <2>2. phase \in {"asking", "reading"} /\ Alarming(Asked) = 1
    BY <1>5 DEF MerchantEvaluates, IsAsked, Alarming
  <2>3. CASE Decide("allow", 0)
    BY <2>1, <2>2, <2>3, DecideSafe
  <2>4. CASE Decide("warn", 1)
    BY <2>1, <2>2, <2>4, DecideSafe
  <2>5. CASE Decide("deny", 1)
    BY <2>1, <2>2, <2>5, DecideSafe
  <2>6. CASE Decide("error", Unheard)
    BY <2>1, <2>2, <2>6, DecideSafe
  <2> QED
    BY <1>5, <2>3, <2>4, <2>5, <2>6 DEF MerchantEvaluates
<1>6. CASE WebacyResponds
  BY <1>1, <1>6 DEF WebacyResponds, VerdictIsTheFlag, PolicyInv, WellFormed
<1>7. CASE WebacyFails
  <2>1. phase \in {"asking", "reading"} /\ Decide("error", Unheard)
    BY <1>7 DEF WebacyFails, IsAsked
  <2>2. Unheard \in Risks /\ ~(Unheard < Alarming(Asked))
    BY <1>7, PolicyAssumption DEF Risks, Unheard, Alarming, WebacyFails, IsAsked
  <2> QED
    BY <2>1, <2>2, DecideSafe
<1>8. CASE \E risk \in 0 .. MaxRisk : WebacyReports(risk)
  <2> PICK risk \in 0 .. MaxRisk : WebacyReports(risk)
    BY <1>8
  <2>1. /\ phase \in {"asking", "reading"} /\ Alarming(Asked) = WarnAt
        /\ Decide(OutcomeOf(risk), risk)
    BY DEF WebacyReports, IsAsked, Alarming
  <2>2. risk \in Risks /\ risk # Unheard
    BY PolicyAssumption DEF Risks, Unheard
  <2> QED
    BY <2>1, <2>2, OutcomeFitsRisk, DecideSafe
<1>9. CASE UNCHANGED policyVars
  BY <1>1, <1>9 DEF policyVars, VerdictIsTheFlag, PolicyInv, WellFormed
<1> QED
  BY <1>2, <1>3, <1>4, <1>5, <1>6, <1>7, <1>8, <1>9 DEF PolicyNext

\* A payment passes only if every policy cleared it, and is refused only if one
\* did not, for all policies and thresholds.
THEOREM VerdictsAreEarned == PolicySpec => []VerdictIsEarned
<1>1. PolicyInv => VerdictIsEarned
  <2> SUFFICES ASSUME PolicyInv PROVE VerdictIsEarned
    OBVIOUS
  <2>1. phase \in {"passed", "refused"} => DOMAIN policies = 1 .. Len(decisions)
    BY DEF PolicyInv, WellFormed
  <2> QED
    BY <2>1 DEF PolicyInv, AllowedIfCleared, VerdictIsTheFlag, VerdictIsEarned
<1> QED
  BY <1>1, PolicyInitSafe, PolicyNextSafe, PTL DEF PolicySpec

-----------------------------------------------------------------------------
(* Allowances, between chain and ledger.  A handler writes what it verified *)
(* before its await; that the row is approved follows although the world    *)
(* has moved on, because a finalized transaction stays finalized.  The      *)
(* ledger's own invariant comes from its own proofs.                        *)

Approved(s, a, w) == Tx("approve", s, a, w) \in finalized

ChainTyped ==
    finalized \subseteq
        [kind : {"approve", "revoke"}, approval : Approval, address : Address, owner : Wallet]

PostsAreApproved ==
    /\ posted \subseteq [address : Address, owner : Wallet, approval : Approval,
                         max : Amount, expiresAt : Time]
    /\ \A post \in posted : Approved(post.approval, post.address, post.owner)

EveryRowIsApproved ==
    \A a \in DOMAIN allowances : Approved(allowances[a].signature, a, allowances[a].owner)

LifecycleInv == LedgerInv /\ ChainTyped /\ PostsAreApproved /\ EveryRowIsApproved

\* what every statement but the upsert leaves of the rows
NamesKept ==
    /\ DOMAIN allowances' \subseteq DOMAIN allowances
    /\ \A a \in DOMAIN allowances' :
         /\ allowances'[a].owner = allowances[a].owner
         /\ allowances'[a].signature = allowances[a].signature

\* There are no rows and no posts.
LEMMA LifecycleInitSafe == LifecycleInit => LifecycleInv
<1> SUFFICES ASSUME LifecycleInit PROVE LifecycleInv
  OBVIOUS
<1>1. LedgerInv
  BY InitSafe DEF LifecycleInit
<1>2. ChainTyped /\ PostsAreApproved
  BY DEF LifecycleInit, ChainTyped, PostsAreApproved
<1>3. EveryRowIsApproved
  BY DEF LifecycleInit, LedgerInit, EveryRowIsApproved
<1> QED
  BY <1>1, <1>2, <1>3 DEF LifecycleInv

\* Transactions are only added to the chain, and rows keep their names.
LEMMA KeepingNamesIsSafe ==
    ASSUME LifecycleInv, LedgerInv', NamesKept, ChainTyped',
           finalized \subseteq finalized', posted' \subseteq posted
    PROVE  LifecycleInv'
<1>1. PostsAreApproved'
  BY DEF LifecycleInv, PostsAreApproved, Approved
<1>2. EveryRowIsApproved'
  BY DEF LifecycleInv, EveryRowIsApproved, Approved, NamesKept
<1> QED
  BY <1>1, <1>2 DEF LifecycleInv

\* The ledger's other statements write no owner and no signature.
LEMMA LedgerAloneKeepsNames ==
    ASSUME LedgerInv, LedgerAlone
    PROVE  NamesKept
<1>1. allowances \in [DOMAIN allowances -> AllowanceRow]
  BY DEF LedgerInv, LedgerTypeOK
<1>2. ASSUME NEW a \in Address, NEW w \in Wallet, DeleteHostedAllowanceMetadata(a, w)
      PROVE  NamesKept
  BY <1>2 DEF DeleteHostedAllowanceMetadata, DeleteAllowanceMetadata, Restrict, NamesKept
<1>3. ASSUME NEW a \in Address, NEW w \in Wallet, BeginAllowanceRevocation(a, w)
      PROVE  NamesKept
  BY <1>1, <1>3 DEF BeginAllowanceRevocation, NamesKept, AllowanceRow
<1>4. ASSUME NEW r \in ReservationId, NEW a \in Address, NEW key \in PaymentKey,
             NEW amount \in Amount, NEW expiry \in Time, Reserve(r, a, key, amount, expiry)
      PROVE  NamesKept
  BY <1>1, <1>4 DEF Reserve, NamesKept, AllowanceRow
<1>5. ASSUME NEW r \in ReservationId, NEW outcome, Finish(r, outcome)
      PROVE  NamesKept
  BY <1>1, <1>5 DEF Finish, FinishedRow, NamesKept, AllowanceRow
<1>6. ASSUME NEW B, CleanupBatch(B)
      PROVE  NamesKept
  BY <1>1, <1>6 DEF CleanupBatch, NamesKept, AllowanceRow
<1>7. CASE Tick
  BY <1>7 DEF Tick, NamesKept
<1> QED
  BY <1>2, <1>3, <1>4, <1>5, <1>6, <1>7
     DEF LedgerAlone, SpendStep, Consume, Release, CleanupExpired

\* Revoking writes the status and its date only.
LEMMA RevokeKeepsNames ==
    ASSUME LedgerInv, NEW a, NEW w, RevokeAllowance(a, w)
    PROVE  NamesKept
<1>1. allowances \in [DOMAIN allowances -> AllowanceRow]
  BY DEF LedgerInv, LedgerTypeOK
<1> QED
  BY <1>1 DEF RevokeAllowance, NamesKept, AllowanceRow

\* The upsert writes the names of an approved post.
LEMMA FinishPostSafe ==
    ASSUME LifecycleInv, NEW post \in posted, FinishPost(post)
    PROVE  LifecycleInv'
<1>1. /\ post \in [address : Address, owner : Wallet, approval : Approval,
                   max : Amount, expiresAt : Time]
      /\ Approved(post.approval, post.address, post.owner)
  BY DEF LifecycleInv, PostsAreApproved
<1>2. finalized' = finalized /\ posted' \subseteq posted
  BY DEF FinishPost
<1>3. ChainTyped'
  BY <1>2 DEF LifecycleInv, ChainTyped
<1>4. CASE SaveAllowance(post.address, post.owner, post.approval,
                         post.max, post.max, post.expiresAt)
  <2>1. LedgerInv'
    BY <1>1, <1>4, SaveSafe DEF LifecycleInv
  <2>2. EveryRowIsApproved'
    <3> SUFFICES ASSUME NEW a \in DOMAIN allowances'
                 PROVE  Approved(allowances[a].signature, a, allowances[a].owner)'
      BY DEF EveryRowIsApproved
    <3>1. CASE a = post.address
      BY <1>1, <1>2, <1>4, <3>1
         DEF SaveAllowance, Put, Upsert, FreshRow, Approved
    <3>2. CASE a # post.address
      BY <1>2, <1>4, <3>2
         DEF SaveAllowance, Put, LifecycleInv, EveryRowIsApproved, Approved
    <3> QED
      BY <3>1, <3>2
  <2>3. PostsAreApproved'
    BY <1>2 DEF LifecycleInv, PostsAreApproved, Approved
  <2> QED
    BY <1>3, <2>1, <2>2, <2>3 DEF LifecycleInv
<1>5. CASE UNCHANGED ledgerVars
  <2>1. LedgerInv'
    BY <1>5, StutterSafe DEF LifecycleInv
  <2>2. NamesKept
    BY <1>5 DEF ledgerVars, NamesKept
  <2> QED
    BY <1>2, <1>3, <2>1, <2>2, KeepingNamesIsSafe
<1> QED
  BY <1>4, <1>5 DEF FinishPost

\* A post is verified against a finalized approval.
LEMMA VerifyPostSafe ==
    ASSUME LifecycleInv, NEW tx \in finalized, NEW a \in Address, NEW w \in Wallet,
           NEW max \in Amount, NEW expiry \in Time, VerifyPost(tx, a, w, max, expiry)
    PROVE  LifecycleInv'
<1> DEFINE post == [ address |-> a, owner |-> w, approval |-> tx.approval,
                     max |-> max, expiresAt |-> expiry ]
<1>1. /\ posted' = posted \cup {post}
      /\ UNCHANGED <<finalized, ledgerVars>>
  BY DEF VerifyPost
<1>2. tx.approval \in Approval /\ tx = Tx("approve", tx.approval, a, w)
  BY DEF VerifyPost, AllowanceReceiptVerified, LifecycleInv, ChainTyped, Tx
<1>3. PostsAreApproved'
  BY <1>1, <1>2 DEF LifecycleInv, PostsAreApproved, Approved
<1>4. LedgerInv'
  BY <1>1, StutterSafe DEF LifecycleInv
<1>5. ChainTyped' /\ EveryRowIsApproved'
  BY <1>1 DEF LifecycleInv, ChainTyped, EveryRowIsApproved, Approved, ledgerVars
<1> QED
  BY <1>3, <1>4, <1>5 DEF LifecycleInv

\* Approving and revoking on chain add a transaction.
LEMMA ChainStepSafe ==
    ASSUME LifecycleInv, ChainStep
    PROVE  LifecycleInv'
<1>1. UNCHANGED <<posted, ledgerVars>>
  BY DEF ChainStep, Approve, RevokeOnChain
<1>2. finalized \subseteq finalized' /\ ChainTyped'
  BY DEF ChainStep, Approve, RevokeOnChain, Tx, LifecycleInv, ChainTyped
<1>3. LedgerInv'
  BY <1>1, StutterSafe DEF LifecycleInv
<1>4. NamesKept
  BY <1>1 DEF ledgerVars, NamesKept
<1> QED
  BY <1>1, <1>2, <1>3, <1>4, KeepingNamesIsSafe

\* Every step keeps the invariant.
LEMMA LifecycleNextSafe ==
    LifecycleInv /\ [LifecycleNext]_lifecycleVars => LifecycleInv'
<1> SUFFICES ASSUME LifecycleInv, [LifecycleNext]_lifecycleVars PROVE LifecycleInv'
  OBVIOUS
<1>1. CASE ChainStep
  BY <1>1, ChainStepSafe
<1>2. CASE GatewayStep
  <2>1. ASSUME NEW tx \in finalized, NEW a \in Address, NEW w \in Wallet,
               PostRevoked(tx, a, w)
        PROVE  LifecycleInv'
    <3>1. RevokeAllowance(a, w) /\ UNCHANGED <<finalized, posted>>
      BY <2>1 DEF PostRevoked
    <3>2. LedgerInv' /\ NamesKept
      BY <3>1, RevokeSafe, RevokeKeepsNames DEF LifecycleInv
    <3>3. ChainTyped'
      BY <3>1 DEF LifecycleInv, ChainTyped
    <3> QED
      BY <3>1, <3>2, <3>3, KeepingNamesIsSafe
  <2> QED
    BY <1>2, <2>1, VerifyPostSafe, FinishPostSafe DEF GatewayStep
<1>3. CASE LedgerAlone
  <2>1. LedgerNext
    BY <1>3 DEF LedgerAlone, DeleteHostedAllowanceMetadata, LedgerNext, OwnerStep
  <2>2. LedgerInv'
    BY <2>1, NextSafe DEF LifecycleInv
  <2>3. NamesKept
    BY <1>3, LedgerAloneKeepsNames DEF LifecycleInv
  <2>4. UNCHANGED <<finalized, posted>>
    BY <1>3 DEF LedgerAlone
  <2>5. ChainTyped'
    BY <2>4 DEF LifecycleInv, ChainTyped
  <2> QED
    BY <2>2, <2>3, <2>4, <2>5, KeepingNamesIsSafe
<1>4. CASE UNCHANGED lifecycleVars
  <2>1. LedgerInv'
    BY <1>4, StutterSafe DEF LifecycleInv, lifecycleVars
  <2>2. NamesKept /\ ChainTyped'
    BY <1>4 DEF lifecycleVars, ledgerVars, NamesKept, LifecycleInv, ChainTyped
  <2> QED
    BY <1>4, <2>1, <2>2, KeepingNamesIsSafe DEF lifecycleVars
<1> QED
  BY <1>1, <1>2, <1>3, <1>4 DEF LifecycleNext

\* The invariant holds in every reachable state.
THEOREM LifecycleInvariant == LifecycleSpec => []LifecycleInv
  BY LifecycleInitSafe, LifecycleNextSafe, PTL DEF LifecycleSpec

\* What a wallet is shown are accounts it approved itself.
THEOREM RowsStayApproved == LifecycleSpec => []RowsAreApproved
<1>1. LifecycleInv => RowsAreApproved
  BY DEF LifecycleInv, EveryRowIsApproved, Approved, RowsAreApproved,
         ExportHostedAllowanceMetadata
<1> QED
  BY <1>1, LifecycleInvariant, PTL

\* A step of the routes is one of the ledger's operations or leaves it alone.
LEMMA RouteStepsAreTheLedgers ==
    ASSUME LifecycleInv, [LifecycleNext]_lifecycleVars
    PROVE  [LedgerNext]_ledgerVars
<1>1. CASE ChainStep
  BY <1>1 DEF ChainStep, Approve, RevokeOnChain
<1>2. CASE GatewayStep
  <2>1. ASSUME NEW tx \in finalized, NEW a \in Address, NEW w \in Wallet,
               PostRevoked(tx, a, w)
        PROVE  LedgerNext
    BY <2>1 DEF PostRevoked, LedgerNext, OwnerStep
  <2>2. ASSUME NEW post \in posted, FinishPost(post)
        PROVE  [LedgerNext]_ledgerVars
    <3>1. post \in [address : Address, owner : Wallet, approval : Approval,
                    max : Amount, expiresAt : Time]
      BY DEF LifecycleInv, PostsAreApproved
    <3>2. CASE SaveAllowance(post.address, post.owner, post.approval,
                             post.max, post.max, post.expiresAt)
      BY <3>1, <3>2 DEF LedgerNext, OwnerStep
    <3> QED
      BY <2>2, <3>2 DEF FinishPost
  <2> QED
    BY <1>2, <2>1, <2>2 DEF GatewayStep, VerifyPost
<1>3. CASE LedgerAlone
  BY <1>3 DEF LedgerAlone, DeleteHostedAllowanceMetadata, LedgerNext, OwnerStep
<1>4. CASE UNCHANGED lifecycleVars
  BY <1>4 DEF lifecycleVars
<1> QED
  BY <1>1, <1>2, <1>3, <1>4 DEF LifecycleNext

\* Behind the routes, too, the ledger is the one of `AllowanceLedger`, whatever changes
\* during their RPC calls and however often a post is repeated.
THEOREM RoutesImplementTheLedger == LifecycleSpec => LedgerSpec
<1>1. LifecycleInit => LedgerInit
  BY DEF LifecycleInit
<1> QED
  BY <1>1, RouteStepsAreTheLedgers, LifecycleInvariant, PTL DEF LifecycleSpec, LedgerSpec

\* So the routes keep its accounting, its caps, its statuses and its outcomes.
THEOREM LifecycleKeepsTheLedger ==
    LifecycleSpec =>
        /\ [](LedgerBalanced /\ NoOverspend)
        /\ [](RevokedIsNeverActive /\ ExhaustedIsFullySpent)
        /\ OutcomesAreFinal
  BY RoutesImplementTheLedger, LedgerIsBalanced, NeverOverspent, RevocationsHold,
     ExhaustionIsFinal, OutcomesStayFinal, PTL

=============================================================================
