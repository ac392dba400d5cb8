SPECIFICATION FairSpec
CONSTANTS
    Clients = {a, b}
    Nobody = Nobody
    Budgets <- Scenarios
CHECK_DEADLOCK FALSE
INVARIANTS TypeOK EditsKept UploadedIsStored
PROPERTY EditsReachHost
