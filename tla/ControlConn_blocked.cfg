\* A Write waits for a publisher that never comes while Close runs.
SPECIFICATION FairConnSpec
CONSTANTS
    w1 = w1
    w2 = w2
    Writers <- MCOneWriter
    HB = HB
    MaxAttempts = 1
    MaxFailures = 1
    MaxBeats = 0
    MaxInbound = 0
PROPERTY WritersReleased
CHECK_DEADLOCK FALSE
