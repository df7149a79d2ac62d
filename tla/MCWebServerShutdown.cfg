\* One client whose request is being worked on when the server is stopped.
CONSTANTS
    Clients = {c1}
    Settings = {3}
    ThreadLimit = 3
    WordSpace = 8
    PoolThreads = 1
    Impatient = FALSE
SPECIFICATION Spec
INVARIANT CleanShutdown
