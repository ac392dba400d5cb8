CONSTANTS
    Lanes = {l1, l2}
    NoLane = NoLane
    InteractiveItems = 1
    ReliableItems = 2
    ReliableBytes = 3
    LaneBytes = 2
    Budgets <- Scenarios
    Capacity = 2
SPECIFICATION FairSpec
CHECK_DEADLOCK FALSE
INVARIANTS TypeOK BytesCounted LanesTakeTurns NoGap RowsMatch ExitIsLast
PROPERTIES ViewCatchesUp TitleIsSeen ExitIsSeen
