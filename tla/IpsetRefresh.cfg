CONSTANTS
    Entry = {e1, e2, e3}
    e1 = e1
    e2 = e2
    e3 = e3
    Lists <- MCLists
    HashType = {"hash:ip", "list:set"}
    IsHash = {"hash:ip"}
    Version <- MCVersion
    ParamMaxElem = 0
    DefaultMaxElem = 2
    Idle = Idle
    NoSet = NoSet
SPECIFICATION Spec
INVARIANTS TypeOK
PROPERTIES ImplementsAtomicSet
