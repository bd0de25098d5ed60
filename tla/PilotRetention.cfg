\* A consent to follow up is needed and one item is all that is written.
SPECIFICATION PilotSpec
CONSTANTS
    PilotWallet = {w1}
    Stage = {s1}
    Required = {tech}
    FollowUp = {day7}
    Post = {p1, p2}
    Result = {"passed"}
    Outcome = {"retained"}
    Response = {"yes"}
    DueAfter = 1
    Instant = {1}
    Told = {1}
    MaxCommands = 1
    MaxPosts = 2
    None = None
INVARIANT RetainedIsEligible
CHECK_DEADLOCK FALSE
