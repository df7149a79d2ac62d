\* Progress under fair scheduling, with devices and without; no symmetry.
CONSTANTS
    r1 = r1  r2 = r2  r3 = r3  r4 = r4
    w1 = w1  w2 = w2  w3 = w3  h1 = h1  h2 = h2
    BadHash = BadHash
    None = None
    Requests = {r1, r2, r3}
    Workers = {w1, w2}
    NumDevices = 2
    Hashes = {h1, h2}
    Priorities = {0, 1}
    IdSpace = 8
    CompletedCapacity = 1
    RequestLimit = 2
    AllowPrioritization = TRUE
    AllowControl = TRUE
    Operations <- QueueOperations
SPECIFICATION LiveSpec
PROPERTY EveryRequestAnswered
