SPECIFICATION Spec
CONSTANTS
    Clients = {a, b}
    Nobody = Nobody
    Budgets <- Handoff
CHECK_DEADLOCK FALSE
INVARIANT DraftsReachNextEditor
