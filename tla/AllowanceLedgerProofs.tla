----------------------- MODULE AllowanceLedgerProofs -----------------------
(***************************************************************************)
(* Safety of AllowanceLedger for every set of accounts, reservations and   *)
(* payment keys and every bound: the ledger stays balanced, within its     *)
(* caps and well typed, and its terminal rows stay as they are.            *)
(***************************************************************************)
EXTENDS AllowanceLedger, FiniteSetTheorems, TLAPS

-----------------------------------------------------------------------------
(* The arithmetic of sums: Atomic is additive over disjoint sets.          *)

Priced(table, R) == IsFiniteSet(R) /\ \A r \in R : table[r].amount \in Amount

\* A finite set of priced reservations stands for a number of units.
LEMMA AtomicUnitsFinite ==
    ASSUME NEW table, NEW R, Priced(table, R)
    PROVE  IsFiniteSet(AtomicUnits(table, R)) /\ Atomic(table, R) \in Nat
<1>1. IsFiniteSet(Amount)
  BY BoundsAssumption, FS_Interval DEF Amount
<1>2. IsFiniteSet(R \X Amount)
  BY <1>1, FS_Product DEF Priced
<1>3. AtomicUnits(table, R) \in SUBSET (R \X Amount)
  BY DEF AtomicUnits
<1>4. IsFiniteSet(AtomicUnits(table, R))
  BY <1>2, <1>3, FS_Subset
<1> QED
  BY <1>4, FS_CardinalityType DEF Atomic

\* No reservations amount to nothing.
LEMMA AtomicOfNone ==
    ASSUME NEW table
    PROVE  Atomic(table, {}) = 0
<1>1. AtomicUnits(table, {}) = {}
  BY DEF AtomicUnits
<1> QED
  BY <1>1, FS_EmptySet DEF Atomic

\* One reservation amounts to its own amount: what consume and release move.
LEMMA AtomicOfOne ==
    ASSUME NEW table, NEW r, table[r].amount \in Amount
    PROVE  Atomic(table, {r}) = table[r].amount
<1> DEFINE n == table[r].amount
<1>1. n \in Nat /\ n <= MaxAtomic /\ n >= 1 /\ MaxAtomic \in Nat
  BY BoundsAssumption DEF Amount
<1>2. AtomicUnits(table, {r}) = {r} \X (1 .. n)
  BY <1>1 DEF AtomicUnits, Amount
<1> HIDE DEF n
<1>3. IsFiniteSet(1 .. n) /\ Cardinality(1 .. n) = n
  <2>1. /\ IsFiniteSet(1 .. n)
        /\ Cardinality(1 .. n) = IF 1 > n THEN 0 ELSE n - 1 + 1
    <3>1. 1 \in Int /\ n \in Int
      BY <1>1
    <3> QED
      BY <3>1, FS_Interval
  <2> QED
    BY <1>1, <2>1
<1>4. IsFiniteSet({r}) /\ Cardinality({r}) = 1
  BY FS_Singleton
<1>5. Cardinality({r} \X (1 .. n)) = 1 * n
  BY <1>3, <1>4, FS_Product
<1>6. Atomic(table, {r}) = Cardinality({r} \X (1 .. n))
  BY <1>2, Zenon DEF Atomic
<1> QED
  BY <1>1, <1>5, <1>6 DEF n

\* A sum over two disjoint sets of reservations is the sum of their sums.
LEMMA AtomicOfDisjointUnion ==
    ASSUME NEW table, NEW R, NEW Q, Priced(table, R), Priced(table, Q), R \cap Q = {}
    PROVE  Atomic(table, R \cup Q) = Atomic(table, R) + Atomic(table, Q)
<1> DEFINE A == AtomicUnits(table, R)
           B == AtomicUnits(table, Q)
<1>1. Atomic(table, R \cup Q) = Cardinality(A \cup B)
  <2>1. AtomicUnits(table, R \cup Q) = A \cup B
    BY DEF AtomicUnits
  <2> QED
    BY <2>1, Zenon DEF Atomic
<1>2. Atomic(table, R) = Cardinality(A) /\ Atomic(table, Q) = Cardinality(B)
  BY DEF Atomic
<1>3. /\ IsFiniteSet(A) /\ IsFiniteSet(B)
      /\ Cardinality(A) \in Nat /\ Cardinality(B) \in Nat
  BY AtomicUnitsFinite DEF Atomic
<1>4. Cardinality(A \cap B) = 0
  <2>1. A \cap B = {}
    BY DEF AtomicUnits
  <2> QED
    BY <2>1, FS_EmptySet
<1> HIDE DEF A, B
<1>5. Cardinality(A \cup B) = Cardinality(A) + Cardinality(B) - Cardinality(A \cap B)
  BY <1>3, FS_Union
<1>6. Cardinality(A \cup B) = Cardinality(A) + Cardinality(B)
  BY <1>3, <1>4, <1>5
<1> QED
  BY <1>1, <1>2, <1>6

\* Taking reservations out of a set takes their sum off its sum, which covered it.
LEMMA AtomicOfDifference ==
    ASSUME NEW table, NEW R, NEW Q \in SUBSET R, Priced(table, R)
    PROVE  /\ Atomic(table, R \ Q) = Atomic(table, R) - Atomic(table, Q)
           /\ Atomic(table, Q) <= Atomic(table, R)
           /\ Priced(table, Q) /\ Priced(table, R \ Q)
<1>1. IsFiniteSet(Q) /\ IsFiniteSet(R \ Q)
  BY FS_Subset DEF Priced
<1>2. Priced(table, Q) /\ Priced(table, R \ Q)
  BY <1>1 DEF Priced
<1>3. Q \cup (R \ Q) = R /\ Q \cap (R \ Q) = {}
  OBVIOUS
<1>4. Atomic(table, R) = Atomic(table, Q) + Atomic(table, R \ Q)
  BY <1>2, <1>3, AtomicOfDisjointUnion
<1>5. Atomic(table, Q) \in Nat /\ Atomic(table, R \ Q) \in Nat
  BY <1>2, AtomicUnitsFinite
<1> QED
  BY <1>2, <1>4, <1>5

\* a sum depends only on the amounts, which no transaction ever rewrites
LEMMA AtomicOfSameAmounts ==
    ASSUME NEW table, NEW other, NEW R,
           \A r \in R : table[r].amount = other[r].amount
    PROVE  Atomic(table, R) = Atomic(other, R)
<1>1. AtomicUnits(table, R) = AtomicUnits(other, R)
  BY DEF AtomicUnits
<1> QED
  BY <1>1 DEF Atomic

\* Amounts are positive, so only the empty set of reservations amounts to zero.
LEMMA NothingForNothing ==
    ASSUME NEW table, NEW R, Priced(table, R), Atomic(table, R) = 0
    PROVE  R = {}
<1> SUFFICES ASSUME NEW r \in R PROVE FALSE
  OBVIOUS
<1>1. Atomic(table, {r}) <= Atomic(table, R)
  BY AtomicOfDifference
<1>2. Atomic(table, {r}) = table[r].amount /\ table[r].amount \in Amount
  BY AtomicOfOne DEF Priced
<1> QED
  BY <1>1, <1>2, BoundsAssumption DEF Amount

-----------------------------------------------------------------------------
(* The inductive invariant.  LedgerBalanced needs the types, to know that   *)
(* every amount is a positive number; the types need LedgerBalanced, to     *)
(* know that a reserved column covers the hold taken off it; and the        *)
(* statuses need NoOverspend, to know that a row spent in full holds none.  *)

LedgerInv ==
    /\ LedgerTypeOK
    /\ LedgerBalanced
    /\ NoOverspend
    /\ RevokedIsNeverActive
    /\ ExhaustedIsFullySpent

\* The table is finite and every row has a positive amount (its CHECK).
LEMMA EveryReservationIsPriced ==
    ASSUME LedgerTypeOK, NEW R \in SUBSET DOMAIN reservations
    PROVE  Priced(reservations, R)
<1>1. IsFiniteSet(R)
  BY ReservationIdAssumption, FS_Subset DEF LedgerTypeOK
<1>2. \A r \in R : reservations[r].amount \in Amount
  BY DEF LedgerTypeOK, ReservationRow
<1> QED
  BY <1>1, <1>2 DEF Priced

\* The empty tables satisfy the invariant.
LEMMA InitSafe == LedgerInit => LedgerInv
<1> SUFFICES ASSUME LedgerInit PROVE LedgerInv
  OBVIOUS
<1>1. DOMAIN allowances = {} /\ DOMAIN reservations = {}
  BY DEF LedgerInit
<1>2. LedgerTypeOK
  BY <1>1, BoundsAssumption DEF LedgerInit, LedgerTypeOK, Time
<1> QED
  BY <1>1, <1>2 DEF LedgerInv, LedgerBalanced, NoOverspend, RevokedIsNeverActive,
                    ExhaustedIsFullySpent

\* a step that only writes statuses, the revoked flag or the clock
LEMMA StatusStepSafe ==
    ASSUME LedgerInv,
           reservations' = reservations,
           now' \in Time,
           DOMAIN allowances' = DOMAIN allowances,
           allowances' \in [DOMAIN allowances' -> AllowanceRow],
           \A a \in DOMAIN allowances :
              /\ allowances'[a].spent = allowances[a].spent
              /\ allowances'[a].reserved = allowances[a].reserved
              /\ allowances'[a].max = allowances[a].max
              /\ allowances'[a].status = "exhausted" => allowances[a].status = "exhausted",
           RevokedIsNeverActive'
    PROVE  LedgerInv'
<1>1. LedgerTypeOK'
  BY DEF LedgerInv, LedgerTypeOK
<1>2. LedgerBalanced'
  BY DEF LedgerInv, LedgerBalanced, HeldBy, ConsumedBy
<1>3. NoOverspend'
  BY DEF LedgerInv, NoOverspend, AmountsCheck
<1>4. ExhaustedIsFullySpent'
  BY DEF LedgerInv, ExhaustedIsFullySpent, HeldBy
<1> QED
  BY <1>1, <1>2, <1>3, <1>4 DEF LedgerInv

\* beginAllowanceRevocation preserves the invariant.
LEMMA BeginRevocationSafe ==
    ASSUME LedgerInv, NEW a, NEW w, BeginAllowanceRevocation(a, w)
    PROVE  LedgerInv'
<1> USE DEF BeginAllowanceRevocation
<1>1. allowances' \in [DOMAIN allowances -> AllowanceRow]
  BY DEF LedgerInv, LedgerTypeOK, AllowanceRow, AllowanceStatus
<1>2. RevokedIsNeverActive'
  BY DEF LedgerInv, LedgerTypeOK, AllowanceRow, RevokedIsNeverActive
<1>3. now' \in Time
  BY DEF LedgerInv, LedgerTypeOK
<1> QED
  BY <1>1, <1>2, <1>3, StatusStepSafe DEF LedgerInv, LedgerTypeOK, AllowanceRow

\* revokeAllowance preserves the invariant, whatever status it overwrites.
LEMMA RevokeSafe ==
    ASSUME LedgerInv, NEW a, NEW w, RevokeAllowance(a, w)
    PROVE  LedgerInv'
<1> USE DEF RevokeAllowance
<1>1. allowances' \in [DOMAIN allowances -> AllowanceRow]
  BY DEF LedgerInv, LedgerTypeOK, AllowanceRow, AllowanceStatus
<1>2. RevokedIsNeverActive'
  BY DEF LedgerInv, LedgerTypeOK, AllowanceRow, RevokedIsNeverActive
<1>3. now' \in Time
  BY DEF LedgerInv, LedgerTypeOK
<1> QED
  BY <1>1, <1>2, <1>3, StatusStepSafe DEF LedgerInv, LedgerTypeOK, AllowanceRow

\* setAllowanceObservationStatus cannot bring a revoked row back to active.
LEMMA ObserveSafe ==
    ASSUME LedgerInv, NEW a, NEW status, SetAllowanceObservationStatus(a, status)
    PROVE  LedgerInv'
<1> USE DEF SetAllowanceObservationStatus, ObservationAllowed
<1>1. allowances' \in [DOMAIN allowances -> AllowanceRow]
  BY DEF LedgerInv, LedgerTypeOK, AllowanceRow, AllowanceStatus
<1>2. RevokedIsNeverActive'
  BY DEF LedgerInv, LedgerTypeOK, AllowanceRow, RevokedIsNeverActive
<1>3. now' \in Time
  BY DEF LedgerInv, LedgerTypeOK
<1> QED
  BY <1>1, <1>2, <1>3, StatusStepSafe DEF LedgerInv, LedgerTypeOK, AllowanceRow

\* The passing of time preserves the invariant.
LEMMA TickSafe ==
    ASSUME LedgerInv, Tick
    PROVE  LedgerInv'
<1>1. now' \in Time
  BY BoundsAssumption DEF Tick, LedgerInv, LedgerTypeOK, Time
<1>2. RevokedIsNeverActive'
  BY DEF Tick, LedgerInv, RevokedIsNeverActive
<1> QED
  BY <1>1, <1>2, StatusStepSafe DEF Tick, LedgerInv, LedgerTypeOK

\* A step that leaves both tables and the clock alone preserves the invariant.
LEMMA StutterSafe ==
    ASSUME LedgerInv, UNCHANGED ledgerVars
    PROVE  LedgerInv'
  BY DEF LedgerInv, ledgerVars, LedgerTypeOK, LedgerBalanced, NoOverspend,
         RevokedIsNeverActive, ExhaustedIsFullySpent, HeldBy, ConsumedBy, AmountsCheck

\* saveAllowance keeps the running totals, and so the invariant, on every upsert.
LEMMA SaveSafe ==
    ASSUME LedgerInv, NEW a \in Address, NEW w \in Wallet, NEW s \in Approval,
           NEW max \in Amount, NEW perRequest \in Amount, NEW expiry \in Time,
           SaveAllowance(a, w, s, max, perRequest, expiry)
    PROVE  LedgerInv'
<1> DEFINE fresh == FreshRow(w, s, max, perRequest, expiry)
           row == IF a \in DOMAIN allowances THEN Upsert(allowances[a], fresh) ELSE fresh
<1>1. /\ allowances' = Put(allowances, a, row)
      /\ reservations' = reservations /\ now' = now
      /\ AmountsCheck(row)
  BY DEF SaveAllowance
<1>2. /\ row \in AllowanceRow
      /\ row.status = "active" /\ row.revoked = FALSE
      /\ a \in DOMAIN allowances => /\ row.spent = allowances[a].spent
                                    /\ row.reserved = allowances[a].reserved
      /\ a \notin DOMAIN allowances => row.spent = 0 /\ row.reserved = 0
  BY DEF Upsert, FreshRow, AllowanceRow, AllowanceStatus, LedgerInv, LedgerTypeOK
<1> HIDE DEF row
<1>3. /\ DOMAIN allowances' = DOMAIN allowances \cup {a}
      /\ allowances'[a] = row
      /\ \A b \in DOMAIN allowances : b # a => allowances'[b] = allowances[b]
      /\ allowances' = [b \in DOMAIN allowances' |-> allowances'[b]]
  BY <1>1 DEF Put
<1>4. LedgerTypeOK'
  <2>1. allowances' \in [DOMAIN allowances' -> AllowanceRow]
    BY <1>2, <1>3 DEF LedgerInv, LedgerTypeOK
  <2> QED
    BY <1>1, <1>3, <2>1 DEF LedgerInv, LedgerTypeOK
<1>5. LedgerBalanced'
  <2> SUFFICES ASSUME NEW b \in DOMAIN allowances'
               PROVE  /\ allowances'[b].reserved = Atomic(reservations, HeldBy(b))
                      /\ allowances'[b].spent = Atomic(reservations, ConsumedBy(b))
    BY <1>1 DEF LedgerBalanced, HeldBy, ConsumedBy
  <2>1. CASE b \in DOMAIN allowances
    BY <1>2, <1>3, <2>1 DEF LedgerInv, LedgerBalanced
  <2>2. CASE b \notin DOMAIN allowances
    <3>1. HeldBy(b) = {} /\ ConsumedBy(b) = {}
      BY <2>2 DEF LedgerInv, LedgerTypeOK, HeldBy, ConsumedBy
    <3> QED
      BY <1>2, <1>3, <2>2, <3>1, AtomicOfNone
  <2> QED
    BY <2>1, <2>2
<1>6. NoOverspend'
  BY <1>1, <1>3 DEF LedgerInv, NoOverspend, AmountsCheck
<1>7. RevokedIsNeverActive'
  BY <1>2, <1>3 DEF LedgerInv, RevokedIsNeverActive
<1>8. ExhaustedIsFullySpent'
  BY <1>1, <1>2, <1>3 DEF LedgerInv, ExhaustedIsFullySpent, HeldBy
<1> QED
  BY <1>4, <1>5, <1>6, <1>7, <1>8 DEF LedgerInv

\* The cascade of deleteAllowanceMetadata leaves the other rows balanced.
LEMMA DeleteSafe ==
    ASSUME LedgerInv, NEW a, NEW w, DeleteAllowanceMetadata(a, w)
    PROVE  LedgerInv'
<1>1. /\ DOMAIN allowances' = DOMAIN allowances \ {a}
      /\ \A b \in DOMAIN allowances' : allowances'[b] = allowances[b]
      /\ allowances' = [b \in DOMAIN allowances' |-> allowances'[b]]
      /\ DOMAIN reservations' = {r \in DOMAIN reservations : reservations[r].address # a}
      /\ \A r \in DOMAIN reservations' : reservations'[r] = reservations[r]
      /\ reservations' = [r \in DOMAIN reservations' |-> reservations'[r]]
      /\ now' = now
  BY DEF DeleteAllowanceMetadata, Restrict
<1>2. LedgerTypeOK'
  BY <1>1 DEF LedgerInv, LedgerTypeOK, ReservationRow
<1>3. \A b \in DOMAIN allowances' :
         HeldBy(b)' = HeldBy(b) /\ ConsumedBy(b)' = ConsumedBy(b)
  BY <1>1 DEF HeldBy, ConsumedBy
<1>4. \A b \in DOMAIN allowances' :
         /\ Atomic(reservations', HeldBy(b)') = Atomic(reservations, HeldBy(b))
         /\ Atomic(reservations', ConsumedBy(b)') = Atomic(reservations, ConsumedBy(b))
  <2> SUFFICES ASSUME NEW b \in DOMAIN allowances'
               PROVE  /\ Atomic(reservations', HeldBy(b)) = Atomic(reservations, HeldBy(b))
                      /\ Atomic(reservations', ConsumedBy(b)) = Atomic(reservations, ConsumedBy(b))
    BY <1>3
  <2>1. \A r \in HeldBy(b) \cup ConsumedBy(b) : reservations'[r].amount = reservations[r].amount
    BY <1>1 DEF HeldBy, ConsumedBy
  <2> QED
    BY <2>1, AtomicOfSameAmounts
<1>5. LedgerBalanced'
  BY <1>1, <1>4 DEF LedgerInv, LedgerBalanced
<1>6. NoOverspend' /\ RevokedIsNeverActive'
  BY <1>1 DEF LedgerInv, NoOverspend, AmountsCheck, RevokedIsNeverActive
<1>7. ExhaustedIsFullySpent'
  BY <1>1, <1>3 DEF LedgerInv, ExhaustedIsFullySpent
<1> QED
  BY <1>2, <1>5, <1>6, <1>7 DEF LedgerInv

\* reserveAllowanceSpend adds the same amount to the column and to the table.
LEMMA ReserveSafe ==
    ASSUME LedgerInv, NEW r \in ReservationId, NEW a \in Address,
           NEW key \in PaymentKey, NEW amount \in Amount, NEW expiry \in Time,
           Reserve(r, a, key, amount, expiry)
    PROVE  LedgerInv'
<1>1. /\ a \in DOMAIN allowances /\ allowances[a].status = "active" /\ Fits(a, amount)
      /\ r \notin DOMAIN reservations
      /\ now' = now
      /\ allowances' = [allowances EXCEPT ![a].reserved = @ + amount]
  BY DEF Reserve
<1>2. /\ DOMAIN reservations' = DOMAIN reservations \cup {r}
      /\ reservations'[r] = [ address |-> a, paymentKey |-> key, amount |-> amount,
                              expiresAt |-> expiry, status |-> "reserved" ]
      /\ \A q \in DOMAIN reservations : reservations'[q] = reservations[q]
      /\ reservations' = [q \in DOMAIN reservations' |-> reservations'[q]]
  BY <1>1 DEF Reserve, Put
<1>3. /\ DOMAIN allowances' = DOMAIN allowances
      /\ allowances'[a].reserved = allowances[a].reserved + amount
      /\ \A b \in DOMAIN allowances :
            /\ b # a => allowances'[b] = allowances[b]
            /\ allowances'[b].spent = allowances[b].spent
            /\ allowances'[b].max = allowances[b].max
            /\ allowances'[b].revoked = allowances[b].revoked
            /\ allowances'[b].status = allowances[b].status
  BY <1>1 DEF LedgerInv, LedgerTypeOK, AllowanceRow
<1>4. LedgerTypeOK'
  <2>1. allowances' \in [DOMAIN allowances' -> AllowanceRow]
    BY <1>1 DEF LedgerInv, LedgerTypeOK, AllowanceRow, Amount
  <2>2. reservations' \in [DOMAIN reservations' -> ReservationRow]
    BY <1>2 DEF LedgerInv, LedgerTypeOK, ReservationRow
  <2> QED
    BY <1>1, <1>2, <1>3, <2>1, <2>2 DEF LedgerInv, LedgerTypeOK
<1>5. LedgerBalanced'
  <2>1. \A R \in SUBSET DOMAIN reservations : Atomic(reservations', R) = Atomic(reservations, R)
    BY <1>2, AtomicOfSameAmounts
  <2> SUFFICES ASSUME NEW b \in DOMAIN allowances
               PROVE  /\ allowances'[b].reserved = Atomic(reservations', HeldBy(b)')
                      /\ allowances'[b].spent = Atomic(reservations', ConsumedBy(b)')
    BY <1>3 DEF LedgerBalanced
  <2>2. /\ allowances[b].reserved = Atomic(reservations, HeldBy(b))
        /\ allowances[b].spent = Atomic(reservations, ConsumedBy(b))
    BY DEF LedgerInv, LedgerBalanced
  <2>3. ConsumedBy(b)' = ConsumedBy(b) /\ ConsumedBy(b) \in SUBSET DOMAIN reservations
    BY <1>1, <1>2 DEF ConsumedBy
  <2>4. allowances'[b].spent = Atomic(reservations', ConsumedBy(b)')
    BY <1>3, <2>1, <2>2, <2>3
  <2>5. HeldBy(b) \in SUBSET DOMAIN reservations
    BY DEF HeldBy
  <2>6. CASE b # a
    <3>1. HeldBy(b)' = HeldBy(b)
      BY <1>1, <1>2, <2>6 DEF HeldBy
    <3> QED
      BY <1>3, <2>1, <2>2, <2>4, <2>5, <2>6, <3>1
  <2>7. CASE b = a
    <3>1. HeldBy(a)' = HeldBy(a) \cup {r} /\ HeldBy(a) \cap {r} = {}
      BY <1>1, <1>2 DEF HeldBy
    <3>2. Priced(reservations', HeldBy(a)) /\ Priced(reservations', {r})
      <4>1. Priced(reservations, HeldBy(a))
        BY <2>5, <2>7, EveryReservationIsPriced DEF LedgerInv
      <4>2. IsFiniteSet({r})
        BY FS_Singleton
      <4>3. \A q \in HeldBy(a) \cup {r} : reservations'[q].amount \in Amount
        BY <1>2, <4>1 DEF Priced, HeldBy
      <4> QED
        BY <4>1, <4>2, <4>3 DEF Priced
    <3>3. Atomic(reservations', {r}) = amount
      BY <1>2, AtomicOfOne
    <3>4. Atomic(reservations', HeldBy(a) \cup {r})
            = Atomic(reservations', HeldBy(a)) + Atomic(reservations', {r})
      BY <3>1, <3>2, AtomicOfDisjointUnion
    <3> QED
      BY <1>3, <2>1, <2>2, <2>4, <2>5, <2>7, <3>1, <3>3, <3>4
  <2> QED
    BY <2>6, <2>7
<1>6. NoOverspend'
  BY <1>1, <1>3 DEF LedgerInv, NoOverspend, AmountsCheck, Fits, LedgerTypeOK, AllowanceRow, Amount
<1>7. RevokedIsNeverActive'
  BY <1>3 DEF LedgerInv, RevokedIsNeverActive
<1>8. ExhaustedIsFullySpent'
  BY <1>1, <1>2, <1>3 DEF LedgerInv, ExhaustedIsFullySpent, HeldBy
<1> QED
  BY <1>4, <1>5, <1>6, <1>7, <1>8 DEF LedgerInv

\* consume and release move one reservation between the sums; a row that consume
\* marks exhausted has nothing left to hold, since its cap covers both totals.
LEMMA FinishSafe ==
    ASSUME LedgerInv, NEW r, NEW outcome \in {"consumed", "released"},
           Finish(r, outcome)
    PROVE  LedgerInv'
<1>a. PICK a : a = reservations[r].address
  OBVIOUS
<1>b. PICK amount : amount = reservations[r].amount
  OBVIOUS
<1>1. /\ r \in DOMAIN reservations /\ reservations[r].status = "reserved"
      /\ a \in DOMAIN allowances /\ amount \in Amount
      /\ r \in HeldBy(a)
  BY <1>a, <1>b DEF Finish, CanFinish, Held, HeldBy, LedgerInv, LedgerTypeOK, ReservationRow
<1>2. /\ allowances' = [allowances EXCEPT ![a] = FinishedRow(@, amount, outcome)]
      /\ reservations' = [reservations EXCEPT ![r].status = outcome]
      /\ now' = now
  BY <1>a, <1>b DEF Finish
<1>3. /\ DOMAIN reservations' = DOMAIN reservations
      /\ \A q \in DOMAIN reservations :
            /\ q # r => reservations'[q] = reservations[q]
            /\ reservations'[q].amount = reservations[q].amount
            /\ reservations'[q].address = reservations[q].address
      /\ reservations'[r].status = outcome
      /\ reservations' \in [DOMAIN reservations -> ReservationRow]
  BY <1>1, <1>2 DEF LedgerInv, LedgerTypeOK, ReservationRow
<1>4. /\ DOMAIN allowances' = DOMAIN allowances
      /\ allowances'[a] = FinishedRow(allowances[a], amount, outcome)
      /\ \A b \in DOMAIN allowances : b # a => allowances'[b] = allowances[b]
      /\ allowances' = [b \in DOMAIN allowances |-> allowances'[b]]
  BY <1>1, <1>2
<1>5. /\ Priced(reservations, HeldBy(a)) /\ Priced(reservations, ConsumedBy(a))
      /\ Atomic(reservations, {r}) = amount
      /\ {r} \in SUBSET HeldBy(a)
  BY <1>b, <1>1, EveryReservationIsPriced, AtomicOfOne DEF LedgerInv, HeldBy, ConsumedBy
<1>6. /\ Atomic(reservations, HeldBy(a) \ {r}) = allowances[a].reserved - amount
      /\ amount <= allowances[a].reserved
  BY <1>1, <1>5, AtomicOfDifference DEF LedgerInv, LedgerBalanced
<1>7. allowances[a] \in AllowanceRow
  BY <1>1 DEF LedgerInv, LedgerTypeOK
<1>8. /\ allowances'[a].max = allowances[a].max
      /\ allowances'[a].revoked = allowances[a].revoked
      /\ allowances'[a].reserved = allowances[a].reserved - amount
      /\ allowances'[a].spent = IF outcome = "consumed" THEN allowances[a].spent + amount
                                                       ELSE allowances[a].spent
      /\ allowances'[a].status =
            IF outcome = "consumed" /\ allowances[a].spent + amount = allowances[a].max
              THEN "exhausted" ELSE allowances[a].status
  BY <1>4, <1>7 DEF FinishedRow, AllowanceRow
<1>9. LedgerTypeOK'
  <2>1. allowances'[a] \in AllowanceRow
    <3>1. /\ allowances[a].reserved - amount \in Nat
          /\ allowances[a].spent + amount \in Nat
      BY <1>1, <1>6, <1>7 DEF AllowanceRow, Amount
    <3> QED
      BY <1>4, <1>7, <3>1 DEF FinishedRow, AllowanceRow, AllowanceStatus
  <2> QED
    BY <1>2, <1>3, <1>4, <2>1 DEF LedgerInv, LedgerTypeOK
<1>10. LedgerBalanced'
  <2>1. \A R \in SUBSET DOMAIN reservations : Atomic(reservations', R) = Atomic(reservations, R)
    BY <1>3, AtomicOfSameAmounts
  <2> SUFFICES ASSUME NEW b \in DOMAIN allowances
               PROVE  /\ allowances'[b].reserved = Atomic(reservations', HeldBy(b)')
                      /\ allowances'[b].spent = Atomic(reservations', ConsumedBy(b)')
    BY <1>4 DEF LedgerBalanced
  <2>2. /\ allowances[b].reserved = Atomic(reservations, HeldBy(b))
        /\ allowances[b].spent = Atomic(reservations, ConsumedBy(b))
        /\ HeldBy(b) \in SUBSET DOMAIN reservations
        /\ ConsumedBy(b) \in SUBSET DOMAIN reservations
    BY DEF LedgerInv, LedgerBalanced, HeldBy, ConsumedBy
  <2>3. CASE b # a
    <3>1. HeldBy(b)' = HeldBy(b) /\ ConsumedBy(b)' = ConsumedBy(b)
      BY <1>a, <1>1, <1>3, <2>3 DEF HeldBy, ConsumedBy
    <3> QED
      BY <1>4, <2>1, <2>2, <2>3, <3>1
  <2>4. CASE b = a
    <3>1. HeldBy(a)' = HeldBy(a) \ {r}
      BY <1>1, <1>3 DEF HeldBy
    <3>2. allowances'[a].reserved = Atomic(reservations', HeldBy(a)')
      BY <1>6, <1>8, <2>1, <2>2, <2>4, <3>1
    <3>3. CASE outcome = "consumed"
      <4>1. ConsumedBy(a)' = ConsumedBy(a) \cup {r} /\ ConsumedBy(a) \cap {r} = {}
        BY <1>1, <1>3, <3>3 DEF ConsumedBy, HeldBy
      <4>2. Priced(reservations, {r})
        BY <1>5, AtomicOfDifference
      <4>3. Atomic(reservations, ConsumedBy(a) \cup {r}) = Atomic(reservations, ConsumedBy(a)) + amount
        BY <1>5, <4>1, <4>2, AtomicOfDisjointUnion
      <4>4. ConsumedBy(a) \cup {r} \in SUBSET DOMAIN reservations
        BY <1>1 DEF ConsumedBy
      <4> QED
        BY <1>8, <2>1, <2>2, <2>4, <3>2, <3>3, <4>1, <4>3, <4>4
    <3>4. CASE outcome = "released"
      <4>1. ConsumedBy(a)' = ConsumedBy(a)
        BY <1>1, <1>3, <3>4 DEF ConsumedBy, HeldBy
      <4> QED
        BY <1>8, <2>1, <2>2, <2>4, <3>2, <3>4, <4>1
    <3> QED
      BY <3>3, <3>4, <2>4
  <2> QED
    BY <2>3, <2>4
<1>11. NoOverspend'
  BY <1>1, <1>4, <1>6, <1>7, <1>8 DEF LedgerInv, NoOverspend, AmountsCheck, AllowanceRow, Amount
<1>12. RevokedIsNeverActive'
  BY <1>4, <1>8 DEF LedgerInv, RevokedIsNeverActive
<1>13. ExhaustedIsFullySpent'
  <2> SUFFICES ASSUME NEW b \in DOMAIN allowances, allowances'[b].status = "exhausted"
               PROVE  /\ allowances'[b].spent = allowances'[b].max
                      /\ HeldBy(b)' = {}
    BY <1>4 DEF ExhaustedIsFullySpent
  <2>1. allowances'[b].spent = allowances'[b].max
    <3>1. CASE b = a
      <4>1. allowances[a].status # "exhausted"
        BY <1>1 DEF LedgerInv, ExhaustedIsFullySpent
      <4> QED
        BY <1>8, <3>1, <4>1
    <3>2. CASE b # a
      BY <1>4, <3>2 DEF LedgerInv, ExhaustedIsFullySpent
    <3> QED
      BY <3>1, <3>2
  <2>2. Priced(reservations', HeldBy(b)')
    <3>1. HeldBy(b)' \in SUBSET DOMAIN reservations
      BY <1>3 DEF HeldBy
    <3>2. Priced(reservations, HeldBy(b)')
      BY <3>1, EveryReservationIsPriced DEF LedgerInv
    <3> QED
      BY <1>3, <3>1, <3>2 DEF Priced
  <2>3. allowances'[b].reserved = 0
    <3>1. allowances'[b] \in AllowanceRow
      BY <1>9, <1>4 DEF LedgerTypeOK
    <3>2. allowances'[b].spent + allowances'[b].reserved <= allowances'[b].max
      BY <1>11, <1>4 DEF NoOverspend, AmountsCheck
    <3> QED
      BY <2>1, <3>1, <3>2 DEF AllowanceRow, Amount
  <2>4. Atomic(reservations', HeldBy(b)') = 0
    BY <1>4, <1>10, <2>3 DEF LedgerBalanced
  <2> QED
    BY <2>1, <2>2, <2>4, NothingForNothing
<1> QED
  BY <1>9, <1>10, <1>11, <1>12, <1>13 DEF LedgerInv

\* The cleanup takes off each reserved column the sum of that row's batch.
LEMMA CleanupSafe ==
    ASSUME LedgerInv, NEW B \in SUBSET Held, CleanupBatch(B)
    PROVE  LedgerInv'
<1> DEFINE Of(b) == {r \in B : reservations[r].address = b}
<1>1. /\ now' = now
      /\ DOMAIN reservations' = DOMAIN reservations
      /\ \A r \in DOMAIN reservations :
            /\ reservations'[r] = IF r \in B THEN [reservations[r] EXCEPT !.status = "released"]
                                             ELSE reservations[r]
            /\ reservations'[r].amount = reservations[r].amount
            /\ reservations'[r].address = reservations[r].address
      /\ reservations' \in [DOMAIN reservations -> ReservationRow]
  BY DEF CleanupBatch, LedgerInv, LedgerTypeOK, ReservationRow
<1>2. /\ DOMAIN allowances' = DOMAIN allowances
      /\ allowances' = [b \in DOMAIN allowances |-> allowances'[b]]
      /\ \A b \in DOMAIN allowances :
            allowances'[b] =
              [allowances[b] EXCEPT !.reserved = @ - Atomic(reservations, Of(b))]
  BY DEF CleanupBatch
<1>3. \A b \in DOMAIN allowances :
        /\ Atomic(reservations, HeldBy(b) \ Of(b))
             = allowances[b].reserved - Atomic(reservations, Of(b))
        /\ Atomic(reservations, Of(b)) <= allowances[b].reserved
        /\ Atomic(reservations, Of(b)) \in Nat
  <2> SUFFICES ASSUME NEW b \in DOMAIN allowances
               PROVE  /\ Atomic(reservations, HeldBy(b) \ Of(b))
                           = allowances[b].reserved - Atomic(reservations, Of(b))
                      /\ Atomic(reservations, Of(b)) <= allowances[b].reserved
                      /\ Atomic(reservations, Of(b)) \in Nat
    OBVIOUS
  <2>1. Of(b) \in SUBSET HeldBy(b)
    BY DEF Held, HeldBy
  <2>2. Priced(reservations, HeldBy(b))
    BY EveryReservationIsPriced DEF HeldBy, LedgerInv
  <2>3. allowances[b].reserved = Atomic(reservations, HeldBy(b))
    BY DEF LedgerInv, LedgerBalanced
  <2> HIDE DEF Of
  <2>4. /\ Atomic(reservations, HeldBy(b) \ Of(b))
              = Atomic(reservations, HeldBy(b)) - Atomic(reservations, Of(b))
        /\ Atomic(reservations, Of(b)) <= Atomic(reservations, HeldBy(b))
        /\ Priced(reservations, Of(b))
    BY <2>1, <2>2, AtomicOfDifference
  <2>5. Atomic(reservations, Of(b)) \in Nat
    BY <2>4, AtomicUnitsFinite
  <2> QED
    BY <2>3, <2>4, <2>5
<1> HIDE DEF Of
<1>4. \A b \in DOMAIN allowances :
        /\ allowances'[b] \in AllowanceRow
        /\ allowances'[b].reserved = allowances[b].reserved - Atomic(reservations, Of(b))
        /\ allowances'[b].spent = allowances[b].spent
        /\ allowances'[b].max = allowances[b].max
        /\ allowances'[b].revoked = allowances[b].revoked
        /\ allowances'[b].status = allowances[b].status
  <2> SUFFICES ASSUME NEW b \in DOMAIN allowances
               PROVE  /\ allowances'[b] \in AllowanceRow
                      /\ allowances'[b].reserved = allowances[b].reserved - Atomic(reservations, Of(b))
                      /\ allowances'[b].spent = allowances[b].spent
                      /\ allowances'[b].max = allowances[b].max
                      /\ allowances'[b].revoked = allowances[b].revoked
                      /\ allowances'[b].status = allowances[b].status
    OBVIOUS
  <2>1. allowances[b] \in AllowanceRow
    BY DEF LedgerInv, LedgerTypeOK
  <2>2. allowances[b].reserved - Atomic(reservations, Of(b)) \in Nat
    <3>1. allowances[b].reserved \in Nat
      BY <2>1 DEF AllowanceRow
    <3>2. /\ Atomic(reservations, Of(b)) <= allowances[b].reserved
          /\ Atomic(reservations, Of(b)) \in Nat
      BY <1>3
    <3> QED
      BY <3>1, <3>2
  <2> QED
    BY <1>2, <2>1, <2>2 DEF AllowanceRow
<1>5. LedgerTypeOK'
  BY <1>1, <1>2, <1>4 DEF LedgerInv, LedgerTypeOK
<1>6. \A b \in DOMAIN allowances :
        HeldBy(b)' = HeldBy(b) \ Of(b) /\ ConsumedBy(b)' = ConsumedBy(b)
  <2>1. B \subseteq DOMAIN reservations /\ \A r \in B : reservations[r].status = "reserved"
    BY DEF Held
  <2>2. \A r \in DOMAIN reservations :
          reservations'[r].status = IF r \in B THEN "released" ELSE reservations[r].status
    BY <1>1 DEF LedgerInv, LedgerTypeOK, ReservationRow
  <2> SUFFICES ASSUME NEW b \in DOMAIN allowances
               PROVE  HeldBy(b)' = HeldBy(b) \ Of(b) /\ ConsumedBy(b)' = ConsumedBy(b)
    OBVIOUS
  <2>3. HeldBy(b)' = HeldBy(b) \ Of(b)
    BY <1>1, <2>1, <2>2 DEF HeldBy, Of
  <2>4. ConsumedBy(b)' = ConsumedBy(b)
    BY <1>1, <2>1, <2>2 DEF ConsumedBy
  <2> QED
    BY <2>3, <2>4
<1>7. LedgerBalanced'
  <2>1. \A R \in SUBSET DOMAIN reservations : Atomic(reservations', R) = Atomic(reservations, R)
    BY <1>1, AtomicOfSameAmounts
  <2>2. \A b \in DOMAIN allowances :
          /\ HeldBy(b) \ Of(b) \in SUBSET DOMAIN reservations
          /\ ConsumedBy(b) \in SUBSET DOMAIN reservations
    BY DEF HeldBy, ConsumedBy
  <2> QED
    BY <1>2, <1>3, <1>4, <1>6, <2>1, <2>2 DEF LedgerInv, LedgerBalanced
<1>8. NoOverspend'
  <2> SUFFICES ASSUME NEW b \in DOMAIN allowances
               PROVE  allowances'[b].spent + allowances'[b].reserved <= allowances'[b].max
    BY <1>2 DEF NoOverspend, AmountsCheck
  <2>1. /\ allowances[b] \in AllowanceRow
        /\ allowances[b].spent + allowances[b].reserved <= allowances[b].max
    BY DEF LedgerInv, LedgerTypeOK, NoOverspend, AmountsCheck
  <2>2. /\ allowances'[b].spent = allowances[b].spent
        /\ allowances'[b].max = allowances[b].max
        /\ allowances'[b].reserved = allowances[b].reserved - Atomic(reservations, Of(b))
        /\ Atomic(reservations, Of(b)) \in Nat
    BY <1>3, <1>4
  <2>3. /\ allowances[b].spent \in Nat /\ allowances[b].reserved \in Nat
        /\ allowances[b].max \in Nat
    BY <2>1 DEF AllowanceRow, Amount
  <2> QED
    BY <2>1, <2>2, <2>3
<1>9. RevokedIsNeverActive'
  BY <1>2, <1>4 DEF LedgerInv, RevokedIsNeverActive
<1>10. ExhaustedIsFullySpent'
  BY <1>2, <1>4, <1>6 DEF LedgerInv, ExhaustedIsFullySpent
<1> QED
  BY <1>5, <1>7, <1>8, <1>9, <1>10 DEF LedgerInv

-----------------------------------------------------------------------------

\* Every step of the ledger preserves the invariant.
LEMMA NextSafe == LedgerInv /\ [LedgerNext]_ledgerVars => LedgerInv'
<1> SUFFICES ASSUME LedgerInv, [LedgerNext]_ledgerVars PROVE LedgerInv'
  OBVIOUS
<1>1. CASE OwnerStep
  BY <1>1, SaveSafe, DeleteSafe, BeginRevocationSafe, RevokeSafe DEF OwnerStep
<1>2. CASE ObserverStep
  BY <1>2, ObserveSafe DEF ObserverStep
<1>3. CASE SpendStep
  BY <1>3, ReserveSafe, FinishSafe DEF SpendStep, Consume, Release
<1>4. CASE CleanupExpired
  BY <1>4, CleanupSafe DEF CleanupExpired, Expired
<1>5. CASE Tick
  BY <1>5, TickSafe
<1>6. CASE UNCHANGED ledgerVars
  BY <1>6, StutterSafe
<1> QED
  BY <1>1, <1>2, <1>3, <1>4, <1>5, <1>6 DEF LedgerNext

\* The inductive invariant holds in every reachable state of the ledger.
THEOREM LedgerInvariant == LedgerSpec => []LedgerInv
  BY InitSafe, NextSafe, PTL DEF LedgerSpec

\* Rows stay well typed: no column of agent_allowances goes below zero and no
\* reservation outlives its allowance, without the help of the CHECK constraint.
THEOREM LedgerTypeCorrect == LedgerSpec => []LedgerTypeOK
<1>1. LedgerInv => LedgerTypeOK
  BY DEF LedgerInv
<1> QED
  BY <1>1, LedgerInvariant, PTL

\* The totals on the allowance row are the sums over its reservation rows.
THEOREM LedgerIsBalanced == LedgerSpec => []LedgerBalanced
<1>1. LedgerInv => LedgerBalanced
  BY DEF LedgerInv
<1> QED
  BY <1>1, LedgerInvariant, PTL

\* Whatever the number of concurrent reservations, a cap is never passed.
THEOREM NeverOverspent == LedgerSpec => []NoOverspend
<1>1. LedgerInv => NoOverspend
  BY DEF LedgerInv
<1> QED
  BY <1>1, LedgerInvariant, PTL

\* A revoked row cannot come back to the status that admits reservations.
THEOREM RevocationsHold == LedgerSpec => []RevokedIsNeverActive
<1>1. LedgerInv => RevokedIsNeverActive
  BY DEF LedgerInv
<1> QED
  BY <1>1, LedgerInvariant, PTL

\* A row marked exhausted has spent its cap and holds nothing: it is the balance
\* with the cap that leaves no held reservation on it.
THEOREM ExhaustionIsFinal == LedgerSpec => []ExhaustedIsFullySpent
<1>1. LedgerInv => ExhaustedIsFullySpent
  BY DEF LedgerInv
<1> QED
  BY <1>1, LedgerInvariant, PTL

\* A consumed or released reservation is never written again.
THEOREM OutcomesStayFinal == LedgerSpec => OutcomesAreFinal
<1> DEFINE Final == \A r \in DOMAIN reservations \ Held :
                      r \in DOMAIN reservations' => reservations'[r] = reservations[r]
<1>1. LedgerInv /\ [LedgerNext]_ledgerVars => [Final]_ledgerVars
  <2> SUFFICES ASSUME LedgerInv, LedgerNext,
                      NEW r \in DOMAIN reservations \ Held, r \in DOMAIN reservations'
               PROVE  reservations'[r] = reservations[r]
    OBVIOUS
  <2>1. CASE OwnerStep
    BY <2>1 DEF OwnerStep, SaveAllowance, DeleteAllowanceMetadata, Restrict,
                BeginAllowanceRevocation, RevokeAllowance
  <2>2. CASE ObserverStep
    BY <2>2 DEF ObserverStep, SetAllowanceObservationStatus
  <2>3. CASE SpendStep
    BY <2>3 DEF SpendStep, Reserve, Put, Consume, Release, Finish, CanFinish, Held
  <2>4. CASE CleanupExpired
    BY <2>4 DEF CleanupExpired, CleanupBatch, Expired
  <2>5. CASE Tick
    BY <2>5 DEF Tick
  <2> QED
    BY <2>1, <2>2, <2>3, <2>4, <2>5 DEF LedgerNext
<1> QED
  BY <1>1, LedgerInvariant, PTL DEF LedgerSpec, OutcomesAreFinal

=============================================================================
