\* Four threads, four devices: deep enough for a search to be overtaken
\* several times by threads that release and claim the devices behind it.
CONSTANTS
    Workers = {w1, w2, w3, w4}
    NumDevices = 4
SPECIFICATION Spec
INVARIANT DeviceInv
INVARIANT DeviceAvailable
