SPECIFICATION Spec
CONSTANTS
    n1 = n1
    n2 = n2
    n3 = n3
    n4 = n4
    d1 = d1
    d2 = d2
    t1 = t1
    Nodes <- MCNodes
    Items <- MCItems
    Threads <- MCThreads
    Nobody = nobody
    Null = null
CHECK_DEADLOCK FALSE
INVARIANTS
    TypeOK
    WellLinked
    NoDangling
PROPERTIES
    AListOfItems
