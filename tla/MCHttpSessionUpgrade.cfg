\* A client that asks for an upgrade behind pipelined requests.
CONSTANTS
    MaxRequests = 2
    Limit = 2
    Client = "upgrading"
SPECIFICATION Spec
CHECK_DEADLOCK FALSE
INVARIANT OneOperationEachWay
