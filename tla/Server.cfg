\* Three acceptors, their connections and Close, with fairness.
SPECIFICATION FairServerSpec
CONSTANTS
    Acceptors = {a1, a2, a3}
INVARIANTS ServerTypeOK ListenerGone UnregisteredIsClosed
PROPERTIES CloseReleasesAcceptors CloseClosesHandlers
CHECK_DEADLOCK FALSE
