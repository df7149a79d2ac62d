\* Every setting from none to one that starts two threads besides main ()'s.
CONSTANTS
    Clients = {c1, c2}
    Settings = {0, 1, 2, 3, 4}
    ThreadLimit = 3
    WordSpace = 8
    PoolThreads = 1
    Impatient = TRUE
SPECIFICATION Spec
INVARIANT TypeOK
INVARIANT EndsInOrder
PROPERTY SignalEndsServer
PROPERTY ClientsAccepted
