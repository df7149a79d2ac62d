\* Clients that keep work requests on connections of their own.  A queue of
\* two and four requests: the queue fills up and reading stops and resumes.
\* A session does end, so a state without successor is no error.
CONSTANTS
    MaxRequests = 4
    Limit = 2
    Client = "separate"
SPECIFICATION FairSpec
CHECK_DEADLOCK FALSE
INVARIANT TypeOK
INVARIANT OneOperationEachWay
PROPERTY ResponsesInOrder
INVARIANT QueueWithinLimit
INVARIANT CloseAsAsked
PROPERTY EveryRequestServed
