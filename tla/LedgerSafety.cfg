\* Three payments race for one account with two competing owners.
SPECIFICATION LedgerSpec
CONSTANTS
    Address = {a1}
    Wallet = {w1, w2}
    Approval = {s1}
    ReservationId = {r1, r2, r3}
    PaymentKey = {k1, k2, k3}
    MaxAtomic = 3
    MaxTime = 2
    MaxHold = 2
    BatchLimit = 2
SYMMETRY LedgerSymmetry
INVARIANTS
    LedgerTypeOK
    LedgerBalanced
    NoOverspend
    RevokedIsNeverActive
    ExhaustedIsFullySpent
PROPERTY OutcomesAreFinal
CHECK_DEADLOCK FALSE
