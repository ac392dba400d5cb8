SPECIFICATION Spec
CONSTANTS
    Terminals = {t}
    Projects = {q}
    Links = {}
    Panes = {}
    Owners = {}
    Askers = {k}
    MaxRequested = 2
PROPERTY IdleStopEndsNothing
