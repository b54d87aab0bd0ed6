CONSTANTS
    Manager = {m1, m2}
    CR = {c1}
    Node = {1}
    Master = {}
    ListPos <- MCListPos
    NodeIP <- MCNodeIP
    IP = {a1, a2, a3}
    a1 = a1
    a2 = a2
    a3 = a3
    NoIP = NoIP
    NoNode = NoNode
    NoManager = NoManager
    MaxChanges = 1
    MaxFaults = 1
SPECIFICATION Spec
INVARIANTS LoopEndsBeforeLease
