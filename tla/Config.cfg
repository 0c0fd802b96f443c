\* Four writes, one of them invalid, with fairness.
SPECIFICATION FairWatchSpec
CONSTANTS
    MaxWrites = 4
    BadVersions = {2}
INVARIANTS StampNotLate
PROPERTIES DeliveredInOrder CatchesUp StopEndsLoop
CHECK_DEADLOCK FALSE
