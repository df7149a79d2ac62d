\* A client that waits for each response, and mixes work with other requests.
CONSTANTS
    MaxRequests = 2
    Limit = 2
    Client = "sequential"
SPECIFICATION Spec
CHECK_DEADLOCK FALSE
INVARIANT QueueNotEmptyOnWrite
