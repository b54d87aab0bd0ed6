CONSTANTS
    Manager = {m1, m2}
    CR = {c1}
    Node = {1, 2, 3}
    Master = {2}
    ListPos <- MCListPos
    NodeIP <- MCNodeIPMissing
    IP = {a1, a2, a3}
    a1 = a1
    a2 = a2
    a3 = a3
    NoIP = NoIP
    NoNode = NoNode
    NoManager = NoManager
    MaxChanges = 3
    MaxFaults = 1
SYMMETRY MCManagerSymmetry
SPECIFICATION Spec
INVARIANTS TypeOK StatusNamesOneNode
PROPERTIES NoLostEdit StickyGateway ImplementsAssignment
