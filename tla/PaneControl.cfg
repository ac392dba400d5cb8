CONSTANTS
    Me = Me
    Rival = Rival
    Nobody = Nobody
    Sizes = {1, 2}
    DefaultSize = 1
    MaxCalls = 3
    Budgets <- Scenarios
SPECIFICATION Spec
CHECK_DEADLOCK FALSE
INVARIANTS TypeOK AttachmentFollowsLease QuietPaneAgrees
