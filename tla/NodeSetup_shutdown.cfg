CONSTANTS
    Worker = {w1, w2}
    Addresses <- MCAddresses
    a1 = a1
    a2 = a2
    None = None
    Masquerade = Masquerade
    MaxFaults = 1
SPECIFICATION Spec
INVARIANTS WaitsForWorkers
