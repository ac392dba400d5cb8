SPECIFICATION Spec
CONSTANTS
    Clients = {a, b}
    Documents = {d1, d2}
    Bodies = {x, y}
    Nobody = Nobody
    NoBody = NoBody
    MaxBodies = 3
    Faults = {"sync"}
    MaxGrants = 2
SYMMETRY Interchangeable
INVARIANT RecordNamesBodies
