SPECIFICATION FairSpec
CONSTANTS
    Terminals = {}
    Projects = {q}
    Links = {l}
    Panes = {p}
    Owners = {o}
    Askers = {k}
    MaxRequested = 1
INVARIANTS PanesSurviveStop
PROPERTIES DrainLosesNothing ForcedHostStops OwnerlessHostStops NoWakeUpIsLost
