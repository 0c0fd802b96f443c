\* Two requests and a response, two of the three sharing an id, with fairness:
\* an id is tracked again, and timers, answers and Close race for the entries.
SPECIFICATION FairAcksSpec
CONSTANTS
    MessageID <- MCTwoIDs
    Messages <- MCMessages
    MaxTracks = 2
INVARIANTS AcksTypeOK AtMostOneVerdict ClosedSettles TimeoutIsOwn AckedWasAnswered
PROPERTIES PromiseKept EveryTrackSettles AnswerSettles WatchersExit
CHECK_DEADLOCK FALSE
