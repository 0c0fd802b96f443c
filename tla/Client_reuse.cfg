\* A control connection that closes before OnClose puts it back.
SPECIFICATION ClientSpec
CONSTANTS
    Clients = {k1, k2}
    Addrs <- MCLiteral
    RemoteAddr <- MCRemoteAddr
    MaxPoolSize = 2
    MaxIdle = 1
    MaxConns = 3
    NoOne = NoOne
INVARIANT IdleNotClosedHere
CHECK_DEADLOCK FALSE
