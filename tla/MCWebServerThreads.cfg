\* Two threads are asked for, the least with which start () gets as far as ioc.run ().
CONSTANTS
    Clients = {c1}
    Settings = {2}
    ThreadLimit = 3
    WordSpace = 8
    PoolThreads = 1
    Impatient = FALSE
SPECIFICATION Spec
INVARIANT RequestedThreads
