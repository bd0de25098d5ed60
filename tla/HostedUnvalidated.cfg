\* One request, one transfer, and the gateway's own product alone.
SPECIFICATION HostedSpec
CONSTANTS
    Visitor = {v1}
    Seller = {a}
    Tag = {g1}
    Transfer = {t1}
    HostSeller = a
    HostTag = g1
    AnyOwner = AnyOwner
    NoTerms = NoTerms
    MaxServed = 1
INVARIANT ServedIsValidated
CHECK_DEADLOCK FALSE
