SPECIFICATION Spec
CONSTANTS
    ann = ann
    bob = bob
    a1 = a1
    a2 = a2
    b1 = b1
    Clients = {ann, bob}
    Terminals = {t1, t2}
    Connections = {a1, b1}
    Owner <- OwnerTwo
    Nobody = Nobody
    NoConnection = NoConnection
    RememberedWriters = 2
    MaxClientSessions = 2
    MaxIdleSessions = 2
    MaxRequests = 2
    MaxOverdue = 1
CONSTRAINT LateBesideOne
CHECK_DEADLOCK FALSE
SYMMETRY Interchangeable
INVARIANTS OneWriter
PROPERTIES LeaseEpochsNeverReturn ControllerChangesAreCounted ControlGoesToConnected
