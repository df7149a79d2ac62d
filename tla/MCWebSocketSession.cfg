\* Three messages, so that two wait behind the one being written.  A session
\* does end, so a state without successor is no error.
CONSTANTS
    MaxRequests = 3
    MaxPings = 2
    Garbled = Garbled
SPECIFICATION FairSpec
CHECK_DEADLOCK FALSE
INVARIANT TypeOK
INVARIANT OneWriteAtATime
PROPERTY DeliveredInOrder
PROPERTY LivePeerKept
PROPERTY EveryResponseSent
PROPERTY SilentPeerClosed
