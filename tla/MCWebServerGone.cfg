\* One client, which may disconnect before it has been accepted.
CONSTANTS
    Clients = {c1}
    Settings = {3}
    ThreadLimit = 3
    WordSpace = 8
    PoolThreads = 1
    Impatient = TRUE
SPECIFICATION Spec
INVARIANT RunsUntilToldTo
