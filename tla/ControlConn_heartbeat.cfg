\* The heartbeat, the reader and one writer, with fairness: a failed beat, a
\* sign of life and another failed beat.
SPECIFICATION FairConnSpec
CONSTANTS
    w1 = w1
    w2 = w2
    Writers <- MCOneWriter
    HB = HB
    MaxAttempts = 1
    MaxFailures = 2
    MaxBeats = 2
    MaxInbound = 1
PROPERTIES HeartbeatCloseJustified CloseReleases
CHECK_DEADLOCK FALSE
