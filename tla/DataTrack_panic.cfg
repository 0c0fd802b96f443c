\* One stream, one remote track: a message on its way while the stream ends.
SPECIFICATION HandlerSpec
CONSTANTS
    MaxSubs = 1
    MaxLoops = 1
    MaxPubs = 0
    ChanCap = 1
INVARIANT StreamStops
CHECK_DEADLOCK FALSE
