\* Two goroutines that connect and close over and over, a host name and
\* the address it resolves to.
SPECIFICATION FairClientSpec
CONSTANTS
    Clients = {k1, k2}
    Addrs <- MCAddrs
    RemoteAddr <- MCRemoteAddr
    MaxPoolSize = 2
    MaxIdle = 1
    MaxConns = 3
    NoOne = NoOne
INVARIANTS ClientTypeOK StatsMatchPool NothingLeftOpen PutBackIsIdle
PROPERTIES PoolKept PoolCallsReturn
CHECK_DEADLOCK FALSE
