\* Two subscribers, two remote tracks and two subscriptions of the peer,
\* against Close.
SPECIFICATION HandlerSpec
CONSTANTS
    MaxSubs = 2
    MaxLoops = 2
    MaxPubs = 2
    ChanCap = 1
INVARIANTS LoopReachable ReplacedIsReleased CloseReachesLoops
CHECK_DEADLOCK FALSE
