SPECIFICATION Spec
CONSTANTS
    Clients = {a, b}
    Documents = {d1, d2}
    Bodies = {x, y, z}
    Nobody = Nobody
    NoBody = NoBody
    MaxBodies = 3
    Faults = {"sync", "corrupt"}
    MaxGrants = 2
SYMMETRY Interchangeable
INVARIANTS DraftsReadable RecordReadable ServesWhatIsStored
PROPERTY ImplementsDraftStore
