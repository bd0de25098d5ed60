\* One payment whose transaction was dropped fills the batch.
SPECIFICATION FairFinalitySpec
CONSTANTS
    Signature = {s1, s2}
    Run = {n1}
    Providers = 1
    Limit = 1
    MaxDropped = 1
PROPERTY DecidedIsRecorded
CHECK_DEADLOCK FALSE
