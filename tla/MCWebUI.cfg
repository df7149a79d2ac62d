\* A tick is 1200 ms; 3000 ms are between two and three.  One loop, whose timer
\* may end while requests are under way, stands for several.  Two requests let
\* answers overtake each other, two timers let an earlier one hide what is shown
\* later.  A ping takes up to two ticks, so that a result from before the server
\* went or came can be the last of several.
CONSTANTS
    a = a
    b = b
    r1 = r1
    r2 = r2
    Interval = 1
    BackOffLimit = 3
    Latency = 2
    Listings <- MCListings
    Requests <- MCRequests
    MaxLoops = 1
    MaxSpinners = 1
    MaxTimers = 2
SPECIFICATION MCSpec
INVARIANT TypeOK
INVARIANT FeedbackInTime
INVARIANT SpinnerMeansWaiting
PROPERTY MessagesGoAway
PROPERTY ListingCatchesUp
