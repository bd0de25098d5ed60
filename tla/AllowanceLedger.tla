-------------------------- MODULE AllowanceLedger --------------------------
(***************************************************************************)
(* The hosted agent-spending ledger: the tables agent_allowances and       *)
(* allowance_spend_reservations of packages/database, with one action for  *)
(* each PostgresStore method that writes them.  Every method is one SQL    *)
(* transaction (or one statement), so here it is one atomic step.          *)
(*                                                                         *)
(* A table is a function from the primary keys present in it to its rows.  *)
(* Timestamps are readings of one clock, now, in abstract ticks.           *)
(***************************************************************************)
EXTENDS Integers, FiniteSets, Functions

CONSTANTS
    Address,        \* delegation accounts, the primary key of agent_allowances
    Wallet,         \* owner wallets
    Approval,       \* on-chain approval transactions: the signature column
    ReservationId,  \* the UUIDs that name reservations
    PaymentKey,     \* fingerprints of payment payloads: the payment_key column
    MaxAtomic,      \* the largest cap the gateway accepts, in atomic units
    MaxTime,        \* bound on the clock
    MaxHold,        \* the longest a reservation is held, in ticks
    BatchLimit      \* the LIMIT of the cleanup's SELECT

ASSUME ReservationIdAssumption == IsFiniteSet(ReservationId)

ASSUME BoundsAssumption ==
    /\ MaxAtomic \in Nat \ {0}
    /\ MaxTime \in Nat
    /\ MaxHold \in Nat \ {0}
    /\ BatchLimit \in Nat \ {0}

VARIABLES
    allowances,     \* the rows of agent_allowances
    reservations,   \* the rows of allowance_spend_reservations
    now             \* the clock

ledgerVars == <<allowances, reservations, now>>

Amount == 1 .. MaxAtomic
Time == 0 .. MaxTime

\* those some statement writes: nothing ever stores pending or expired
AllowanceStatus ==
    {"active", "exhausted", "revocation_pending", "revoked", "unknown", "failed"}

\* revoked stands for revoked_at IS NOT NULL; the delegate, mint and scope
\* columns are never read by the ledger's own guards and are left out.
AllowanceRow ==
    [ owner : Wallet, signature : Approval, max : Amount, perRequest : Amount,
      spent : Nat, reserved : Nat, expiresAt : Time, revoked : BOOLEAN,
      status : AllowanceStatus ]

ReservationRow ==
    [ address : Address, paymentKey : PaymentKey, amount : Amount,
      expiresAt : Time, status : {"reserved", "consumed", "released"} ]

Put(table, key, row) ==
    [k \in DOMAIN table \cup {key} |-> IF k = key THEN row ELSE table[k]]

-----------------------------------------------------------------------------
(* What the reservations R of a table amount to: the SUM of a ledger query, *)
(* as the number of atomic units they stand for.                            *)

AtomicUnits(table, R) == {u \in R \X Amount : u[2] <= table[u[1]].amount}

Atomic(table, R) == Cardinality(AtomicUnits(table, R))

HeldBy(a) ==
    {r \in DOMAIN reservations :
        reservations[r].address = a /\ reservations[r].status = "reserved"}

ConsumedBy(a) ==
    {r \in DOMAIN reservations :
        reservations[r].address = a /\ reservations[r].status = "consumed"}

Held == {r \in DOMAIN reservations : reservations[r].status = "reserved"}

-----------------------------------------------------------------------------
(* saveAllowance: INSERT, or UPDATE on conflict of the address when the    *)
(* stored row has the same owner.  spent and reserved are not among the    *)
(* updated columns; status becomes active and revoked_at NULL, which is    *)
(* what POST /v1/allowances passes.  The CHECK constraint of migration 005 *)
(* aborts the statement when the new cap is below what is committed.  The  *)
(* method does not look at the expiry: its caller did, before it awaited   *)
(* the RPC.                                                                *)

FreshRow(w, s, max, perRequest, expiry) ==
    [ owner |-> w, signature |-> s, max |-> max, perRequest |-> perRequest,
      spent |-> 0, reserved |-> 0, expiresAt |-> expiry, revoked |-> FALSE,
      status |-> "active" ]

\* a slip: the upsert overwrites every column with the insert's values
UpsertForgettingSpend(row, fresh) == fresh

\* a slip: the upsert leaves the old status out of its SET list
UpsertKeepingStatus(row, fresh) ==
    [fresh EXCEPT !.spent = row.spent, !.reserved = row.reserved,
                  !.status = row.status]

Upsert(row, fresh) ==
    [fresh EXCEPT !.spent = row.spent, !.reserved = row.reserved]

AmountsCheck(row) == row.spent + row.reserved <= row.max

SaveAllowance(a, w, s, max, perRequest, expiry) ==
    LET fresh == FreshRow(w, s, max, perRequest, expiry)
        row == IF a \in DOMAIN allowances
                 THEN Upsert(allowances[a], fresh)
                 ELSE fresh
    IN  /\ perRequest <= max
        /\ a \in DOMAIN allowances => allowances[a].owner = w
        /\ AmountsCheck(row)
        /\ allowances' = Put(allowances, a, row)
        /\ UNCHANGED <<reservations, now>>

(* deleteAllowanceMetadata: the row goes, and ON DELETE CASCADE takes its  *)
(* reservations of every status with it.                                   *)

DeleteAllowanceMetadata(a, w) ==
    /\ a \in DOMAIN allowances
    /\ allowances[a].owner = w
    /\ allowances' = Restrict(allowances, DOMAIN allowances \ {a})
    /\ reservations' =
         Restrict(reservations,
                  {r \in DOMAIN reservations : reservations[r].address # a})
    /\ UNCHANGED now

-----------------------------------------------------------------------------
(* reserveAllowanceSpend: one transaction under FOR UPDATE of the row.     *)

\* a slip: the cap is compared with what was spent, not with what is held too
FitsIgnoringHolds(a, amount) ==
    /\ amount <= allowances[a].perRequest
    /\ allowances[a].spent + amount <= allowances[a].max

Fits(a, amount) ==
    /\ amount <= allowances[a].perRequest
    /\ allowances[a].spent + allowances[a].reserved + amount <= allowances[a].max

\* payment_key is UNIQUE over the whole table, not per allowance
NotReplayed(key) == \A r \in DOMAIN reservations : reservations[r].paymentKey # key

Reserve(r, a, key, amount, expiry) ==
    /\ expiry \in now + 1 .. now + MaxHold
    /\ a \in DOMAIN allowances
    /\ NotReplayed(key)
    /\ r \notin DOMAIN reservations
    /\ allowances[a].status = "active"
    /\ allowances[a].expiresAt > now
    /\ Fits(a, amount)
    /\ allowances' = [allowances EXCEPT ![a].reserved = @ + amount]
    /\ reservations' =
         Put(reservations, r,
             [ address |-> a, paymentKey |-> key, amount |-> amount,
               expiresAt |-> expiry, status |-> "reserved" ])
    /\ UNCHANGED now

(* finishAllowanceReservation: consume or release.  A reservation that is  *)
(* missing or no longer reserved makes it return false without a write.    *)

\* a slip: the reservation's status is not looked at
CanFinishAlways(r) == r \in DOMAIN reservations

CanFinish(r) == r \in Held

FinishedRow(row, amount, outcome) ==
    [row EXCEPT
        !.reserved = @ - amount,
        !.spent = IF outcome = "consumed" THEN @ + amount ELSE @,
        !.status = IF outcome = "consumed" /\ row.spent + amount = row.max
                     THEN "exhausted" ELSE @]

Finish(r, outcome) ==
    /\ CanFinish(r)
    /\ LET a == reservations[r].address
       IN  allowances' =
             [allowances EXCEPT
                ![a] = FinishedRow(@, reservations[r].amount, outcome)]
    /\ reservations' = [reservations EXCEPT ![r].status = outcome]
    /\ UNCHANGED now

Consume(r) == Finish(r, "consumed")
Release(r) == Finish(r, "released")

-----------------------------------------------------------------------------
(* cleanupExpired, the part that touches the ledger: the expired holds,    *)
(* earliest first and at most BatchLimit of them, are released in one      *)
(* transaction, and each is taken off its allowance's reserved column.     *)

\* slips in the WHERE clause: the status is left out, the expiry is left out,
\* or the allowance is asked to be active
ExpiredOfAnyStatus ==
    {r \in DOMAIN reservations : reservations[r].expiresAt <= now}

ExpiredOfAnyAge == Held

ExpiredOfActiveAllowances ==
    {r \in Held : /\ reservations[r].expiresAt <= now
                  /\ allowances[reservations[r].address].status = "active"}

Expired == {r \in Held : reservations[r].expiresAt <= now}

IsCleanupBatch(B) ==
    /\ B # {}
    /\ Cardinality(B) <= BatchLimit
    /\ B = Expired \/ Cardinality(B) = BatchLimit
    /\ \A r \in B, q \in Expired \ B :
         reservations[r].expiresAt <= reservations[q].expiresAt

CleanupBatch(B) ==
    /\ allowances' =
         [a \in DOMAIN allowances |->
            [allowances[a] EXCEPT
               !.reserved = @ - Atomic(reservations, {r \in B : reservations[r].address = a})]]
    /\ reservations' =
         [r \in DOMAIN reservations |->
            IF r \in B THEN [reservations[r] EXCEPT !.status = "released"]
                       ELSE reservations[r]]
    /\ UNCHANGED now

CleanupExpired == \E B \in SUBSET Expired : IsCleanupBatch(B) /\ CleanupBatch(B)

-----------------------------------------------------------------------------
(* The status writers.                                                     *)

BeginAllowanceRevocation(a, w) ==
    /\ a \in DOMAIN allowances
    /\ allowances[a].owner = w
    /\ allowances[a].status = "active"
    /\ allowances' = [allowances EXCEPT ![a].status = "revocation_pending"]
    /\ UNCHANGED <<reservations, now>>

RevokeAllowance(a, w) ==
    /\ a \in DOMAIN allowances
    /\ allowances[a].owner = w
    /\ ~allowances[a].revoked
    /\ allowances' = [allowances EXCEPT ![a].revoked = TRUE, ![a].status = "revoked"]
    /\ UNCHANGED <<reservations, now>>

\* a slip: the UPDATE names only the new status
ObservationFromAnyStatus(from, to) == from # to

ObservationAllowed(from, to) ==
    \/ from = "active" /\ to \in {"unknown", "failed"}
    \/ from = "unknown" /\ to \in {"active", "failed"}

SetAllowanceObservationStatus(a, status) ==
    /\ a \in DOMAIN allowances
    /\ ObservationAllowed(allowances[a].status, status)
    /\ allowances' = [allowances EXCEPT ![a].status = status]
    /\ UNCHANGED <<reservations, now>>

Tick ==
    /\ now < MaxTime
    /\ now' = now + 1
    /\ UNCHANGED <<allowances, reservations>>

-----------------------------------------------------------------------------

LedgerInit ==
    /\ allowances = [a \in {} |-> {}]
    /\ reservations = [r \in {} |-> {}]
    /\ now = 0

OwnerStep ==
    \E a \in Address, w \in Wallet :
        \/ \E s \in Approval, max, perRequest \in Amount, expiry \in Time :
              SaveAllowance(a, w, s, max, perRequest, expiry)
        \/ DeleteAllowanceMetadata(a, w)
        \/ BeginAllowanceRevocation(a, w)
        \/ RevokeAllowance(a, w)

ObserverStep ==
    \E a \in Address, status \in {"active", "unknown", "failed"} :
        SetAllowanceObservationStatus(a, status)

SpendStep ==
    \E r \in ReservationId :
        \/ \E a \in Address, key \in PaymentKey, amount \in Amount, expiry \in Time :
              Reserve(r, a, key, amount, expiry)
        \/ Consume(r)
        \/ Release(r)

LedgerNext == OwnerStep \/ ObserverStep \/ SpendStep \/ CleanupExpired \/ Tick

LedgerSpec == LedgerInit /\ [][LedgerNext]_ledgerVars

(* The clock runs, and the gateway's hourly timer calls the cleanup again  *)
(* whatever the previous call did: weak fairness for both.  Nobody is      *)
(* obliged to consume or release what was reserved.                        *)
FairLedgerSpec == LedgerSpec /\ WF_ledgerVars(Tick) /\ WF_ledgerVars(CleanupExpired)

-----------------------------------------------------------------------------
(* Properties.                                                             *)

\* Every row is well typed, and every reservation's allowance exists (the
\* foreign key of migration 005): the columns never go below zero.
LedgerTypeOK ==
    /\ DOMAIN allowances \subseteq Address
    /\ allowances \in [DOMAIN allowances -> AllowanceRow]
    /\ DOMAIN reservations \subseteq ReservationId
    /\ reservations \in [DOMAIN reservations -> ReservationRow]
    /\ \A r \in DOMAIN reservations : reservations[r].address \in DOMAIN allowances
    /\ now \in Time

\* The two running totals kept on the allowance row are, at every moment, the
\* sums over the reservation rows: nothing is released or consumed twice,
\* whatever order reserve, consume, release and cleanup arrive in.
LedgerBalanced ==
    \A a \in DOMAIN allowances :
        /\ allowances[a].reserved = Atomic(reservations, HeldBy(a))
        /\ allowances[a].spent = Atomic(reservations, ConsumedBy(a))

\* What was consumed plus what is still held never passes the cap.  The reserve
\* transaction's own comparison is what keeps it: the CHECK constraint of
\* migration 005 is a guard of SaveAllowance alone in this module.
NoOverspend ==
    \A a \in DOMAIN allowances : AmountsCheck(allowances[a])

\* A revoked authorization is never in the one status that admits a reservation.
\* The reserve transaction reads status and not revoked_at, and consume may
\* overwrite the status of a row that was revoked while the payment settled.
RevokedIsNeverActive ==
    \A a \in DOMAIN allowances :
        allowances[a].revoked => allowances[a].status \in {"revoked", "exhausted"}

\* A row says exhausted exactly because its whole cap was spent, so nothing it
\* still holds can be consumed on top.
ExhaustedIsFullySpent ==
    \A a \in DOMAIN allowances :
        allowances[a].status = "exhausted" =>
            /\ allowances[a].spent = allowances[a].max
            /\ HeldBy(a) = {}

\* consumed and released are final while the allowance exists: a late consume
\* after the cleanup, or a cleanup after the consume, changes nothing.
OutcomesAreFinal ==
    [][\A r \in DOMAIN reservations \ Held :
          r \in DOMAIN reservations' => reservations'[r] = reservations[r]]_ledgerVars

\* Capacity held for a payment that nobody finishes comes back: every reservation
\* is eventually consumed, released, cleaned up or deleted with its allowance.
HeldCapacityReturns ==
    \A r \in ReservationId : (r \in Held) ~> (r \notin Held)

=============================================================================
