SPECIFICATION FairSpec
CONSTANTS
    Panes = {p}
    Workers = {v, w}
    MaxEpochs = 2
    MaxLags = 1
    NoPane = NoPane
CONSTRAINT Followed
CHECK_DEADLOCK FALSE
INVARIANTS TypeOK OneProcess NoOrphan ExitWillMatch
PROPERTIES ExitsAreTrue PaneSettles PaneRestarts
