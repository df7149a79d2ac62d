\* Three requests of every kind on two devices.  Job ids wrap around: there are
\* two, so that three jobs cannot all differ and two of them compare equal.
CONSTANTS
    r1 = r1  r2 = r2  r3 = r3  r4 = r4
    w1 = w1  w2 = w2  w3 = w3  h1 = h1  h2 = h2
    BadHash = BadHash
    None = None
    Requests = {r1, r2, r3}
    Workers = {w1, w2}
    NumDevices = 2
    Hashes = {h1, h2}
    Priorities = {0, 1}
    IdSpace = 2
    CompletedCapacity = 2
    RequestLimit = 2
    AllowPrioritization = TRUE
    AllowControl = TRUE
    Operations <- AllOperations
SPECIFICATION Spec
SYMMETRY Symmetric
INVARIANT TypeOK
INVARIANT LocksOwned
INVARIANT AtMostOneReply
INVARIANT QueuedJobsHaveHandlers
INVARIANT ActiveJobsAlive
INVARIANT ActiveJobsComplete
INVARIANT WorkedOnce
INVARIANT ListingConsistent
INVARIANT NoDeviceErrors
INVARIANT DevicesInUse
PROPERTY ServiceProvided
