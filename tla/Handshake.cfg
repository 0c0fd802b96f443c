\* One connection, its client transport and a SubscribeDataTrack, with fairness.
SPECIFICATION FairHandshakeSpec
CONSTANTS
    Conns = {q1}
    SessionIDs = {s1, s2}
    NoSession = NoSession
PROPERTIES EstablishedIsTwoWay ConnectReturns
CHECK_DEADLOCK FALSE
