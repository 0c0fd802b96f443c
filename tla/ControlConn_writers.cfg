\* Two writers that retry, against Close and the loss of the connection.
SPECIFICATION ConnSpec
CONSTANTS
    w1 = w1
    w2 = w2
    Writers <- MCTwoWriters
    HB = HB
    MaxAttempts = 2
    MaxFailures = 2
    MaxBeats = 0
    MaxInbound = 0
SYMMETRY WriterSymmetry
INVARIANTS ConnTypeOK GroupsUnique SuccessWasSent
PROPERTIES SilentAfterClose
CHECK_DEADLOCK FALSE
