\* A client that pipelines work requests.
CONSTANTS
    MaxRequests = 3
    Limit = 2
    Client = "pipelining"
SPECIFICATION Spec
CHECK_DEADLOCK FALSE
INVARIANT QueueWithinLimit
