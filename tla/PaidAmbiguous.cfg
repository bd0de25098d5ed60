\* One payment whose settlement answer is lost is enough.
SPECIFICATION PaidSpec
CONSTANTS
    a1 = a1
    x1 = x1
    x2 = x2
    q1 = q1
    q2 = q2
    q3 = q3
    p1 = p1
    p2 = p2
    p3 = p3
    k1 = k1
    k2 = k2
    t1 = t1
    t2 = t2
    Address = {a1}
    Wallet = {w1}
    Approval = {s1}
    ReservationId = {r1, r2}
    PaymentKey = {k1, k2}
    MaxAtomic = 1
    MaxTime = 2
    MaxHold = 1
    BatchLimit = 1
    Request = {q1, q2}
    Process = {x1, x2}
    Budgeted = {q1, q2}
    Payload = {p1, p3}
    Transaction = {t1, t2}
    Price = 1
    Store = Store
    ReservesInStore = TRUE
    NoHold = NoHold
    NoPayload = NoPayload
    RunsAt <- MCRunsAt
    KeyOf <- MCKeyOf
    TransactionOf <- MCTransactionOf
    View <- MCView
INVARIANT AmbiguousStaysReserved
CHECK_DEADLOCK FALSE
