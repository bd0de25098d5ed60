\* One authorization, revoked on chain and reported, and one repeated post.
SPECIFICATION LifecycleSpec
CONSTANTS
    Address = {a1}
    Wallet = {w1}
    Approval = {s1}
    ReservationId = {r1}
    PaymentKey = {k1}
    MaxAtomic = 1
    MaxTime = 1
    MaxHold = 1
    BatchLimit = 1
PROPERTY ObservedRevocationHolds
CHECK_DEADLOCK FALSE
