\* One caller (callers share only the registry of writers), up to three messages
\* in batches of one or two, three subscriptions of the peer, against Close.
SPECIFICATION FairPublishSpec
CONSTANTS
    MaxSubs = 0
    MaxLoops = 0
    MaxPubs = 3
    ChanCap = 1
    Callers = {c1}
    MaxMessages = 3
    BatchSizes = {1, 2}
INVARIANTS MessagesInOrder OneBatchAfterClose
PROPERTIES PublishEnds
CHECK_DEADLOCK FALSE
