\* Two replays race in one process whose store is memory; crashes, lost answers
\* and expiry included.
SPECIFICATION FairPaidSpec
CONSTANTS
    a1 = a1
    x1 = x1
    x2 = x2
    q1 = q1
    q2 = q2
    q3 = q3
    p1 = p1
    p2 = p2
    p3 = p3
    k1 = k1
    k2 = k2
    t1 = t1
    t2 = t2
    Address = {a1}
    Wallet = {w1}
    Approval = {s1}
    ReservationId = {r1, r2}
    PaymentKey = {k1, k2}
    MaxAtomic = 1
    MaxTime = 1
    MaxHold = 1
    BatchLimit = 1
    Request = {q1, q3}
    Process = {x1}
    Budgeted = {q1}
    Payload = {p1, p2}
    Transaction = {t1, t2}
    Price = 1
    Store = Store
    ReservesInStore = FALSE
    NoHold = NoHold
    NoPayload = NoPayload
    RunsAt <- MCRunsAt
    KeyOf <- MCKeyOf
    TransactionOf <- MCTransactionOf
    View <- MCView
PROPERTIES
    RequestsEndUnheld
    PromiseKept
    HeldCapacityReturns
CHECK_DEADLOCK FALSE
