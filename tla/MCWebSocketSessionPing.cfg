\* Two messages at most, and room for a second ping.
CONSTANTS
    MaxRequests = 2
    MaxPings = 2
    Garbled = Garbled
SPECIFICATION Spec
CHECK_DEADLOCK FALSE
INVARIANT OnePingAtATime
