\* Two overlapping runs, two providers, and a batch smaller than the table.
SPECIFICATION FairFinalitySpec
CONSTANTS
    Signature = {s1, s2}
    Run = {n1, n2}
    Providers = 2
    Limit = 1
    MaxDropped = 1
INVARIANTS
    FinalityTypeOK
    VerdictsAreProven
 
CHECK_DEADLOCK FALSE
