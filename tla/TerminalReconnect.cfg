SPECIFICATION FairSpec
CONSTANTS
    ann = ann
    bob = bob
    a1 = a1
    a2 = a2
    b1 = b1
    Clients = {ann, bob}
    Terminals = {t1}
    Connections = {a1, a2, b1}
    Owner <- OwnerReconnecting
    Nobody = Nobody
    NoConnection = NoConnection
    RememberedWriters = 2
    MaxClientSessions = 2
    MaxIdleSessions = 2
    MaxRequests = 1
    MaxOverdue = 0
CHECK_DEADLOCK FALSE
INVARIANTS OneServedConnection ServedConnectionIsBound
PROPERTIES DepartedClientReleases WaitingConnectionProceeds
