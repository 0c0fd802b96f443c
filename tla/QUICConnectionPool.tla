-------------------------- MODULE QUICConnectionPool --------------------------
(***************************************************************************)
(* The pool of QUIC connections (pkg/moqttransport/quic_manager.go).       *)
(*                                                                         *)
(* Get and Put test the closed flag before they take mu; Get keeps mu      *)
(* while it dials.  Everything else under mu is one step.  Connections are *)
(* numbered in the order they were dialled, which is also their order in   *)
(* the pool's slices.  Time is the age of a connection, in units of which  *)
(* MaxIdle make the pool's maxIdleTime; ages stop growing past it.         *)
(***************************************************************************)
EXTENDS Naturals, FiniteSets, FiniteSetsExt

CONSTANTS
    Clients,      \* goroutines that call Get and Put
    Addrs,        \* addresses callers pass to Get
    RemoteAddr(_),\* what conn.RemoteAddr().String() gives for each address
    MaxPoolSize,  \* maxPoolSize; 0 means no limit
    MaxIdle,      \* maxIdleTime
    MaxConns,     \* bound: connections dialled in a behaviour
    NoOne

ASSUME PoolAssumption ==
    /\ MaxPoolSize \in Nat /\ MaxIdle \in Nat /\ MaxConns \in Nat
    /\ NoOne \notin Clients

VARIABLES
    entry,        \* the pooledConnection of each connection: not in the map,
                  \* idle or in use; the key it is filed under; its age since
                  \* lastUsedAt
    up,           \* the QUIC connection is alive
    stats,        \* QUICPoolStats
    mu,           \* holder of the mutex across a dial, or NoOne
    client,       \* where each goroutine is, with which address or connection
    poolClose     \* Close: not called, flag set, drained

poolVars == <<entry, up, stats, mu, client, poolClose>>

Conns == 1..MaxConns
NoConn == 0

closedFlag == poolClose # "open"
Pooled == {c \in Conns : entry[c].state # "none"}
InUse == {c \in Conns : entry[c].state = "inuse"}
Idle == {c \in Conns : entry[c].state = "idle"}
Dialled == stats.created

PoolInit ==
    /\ entry = [c \in Conns |-> [state |-> "none", key |-> "", age |-> 0]]
    /\ up = [c \in Conns |-> FALSE]
    /\ stats = [total |-> 0, active |-> 0, idle |-> 0, created |-> 0]
    /\ mu = NoOne
    /\ client = [k \in Clients |-> [pc |-> "out", addr |-> "", conn |-> NoConn]]
    /\ poolClose = "open"

At(k, pc) == client[k].pc = pc
Moves(k, pc, addr, c) == [client EXCEPT ![k] = [pc |-> pc, addr |-> addr, conn |-> c]]

-------------------------------------------------------------------------------
(* Mutations used to show that the properties can fail. *)

AvailableBusy(addr) == {c \in Pooled : entry[c].key = addr /\ up[c]}

FullOffByOne == MaxPoolSize > 0 /\ stats.total > MaxPoolSize

PutKeepsOpen(k) ==
    /\ At(k, "holding")
    /\ client' = IF closedFlag THEN Moves(k, "out", "", NoConn)
                               ELSE Moves(k, "put", client[k].addr, client[k].conn)
    /\ UNCHANGED <<entry, up, stats, mu, poolClose>>

PutForgetsIdle(k) ==
    LET c == client[k].conn
    IN /\ entry' = [entry EXCEPT ![c].state = "idle"]
       /\ stats' = [stats EXCEPT !.active = @ - 1]

DialFailKeepsLock(k) ==
    /\ client' = Moves(k, "out", "", NoConn)
    /\ UNCHANGED <<entry, up, stats, mu>>

-------------------------------------------------------------------------------
(* pooledConnection.isExpired *)
isExpired(c) == entry[c].state = "idle" /\ entry[c].age > MaxIdle

(* What Get may hand out: the first that is neither in use nor expired. *)
Available(addr) ==
    {c \in Pooled : entry[c].key = addr /\ entry[c].state = "idle" /\ ~isExpired(c)}

IsFull == MaxPoolSize > 0 /\ stats.total >= MaxPoolSize

(* Get: the closed flag. *)
GetStarts(k, addr) ==
    /\ At(k, "out")
    /\ ~closedFlag
    /\ client' = Moves(k, "get", addr, NoConn)
    /\ UNCHANGED <<entry, up, stats, mu, poolClose>>

(* Get, under mu: a hit ... *)
GetHit(k) ==
    LET c == Min(Available(client[k].addr))
    IN /\ At(k, "get") /\ mu = NoOne
       /\ Available(client[k].addr) # {}
       /\ entry' = [entry EXCEPT ![c] = [@ EXCEPT !.state = "inuse", !.age = 0]]
       /\ stats' = [stats EXCEPT !.idle = @ - 1, !.active = @ + 1]
       /\ client' = Moves(k, "holding", client[k].addr, c)
       /\ UNCHANGED <<up, mu, poolClose>>

(* ... ErrPoolFull, or a miss: the dial starts with mu held. *)
GetMiss(k) ==
    /\ At(k, "get") /\ mu = NoOne
    /\ Available(client[k].addr) = {}
    /\ IF IsFull
         THEN client' = Moves(k, "out", "", NoConn) /\ UNCHANGED mu
         ELSE client' = Moves(k, "dialing", client[k].addr, NoConn) /\ mu' = k
    /\ UNCHANGED <<entry, up, stats, poolClose>>

(* The dial succeeds: a new entry, filed under the address asked for. *)
DialSucceeds(k) ==
    LET c == Dialled + 1
    IN /\ c \in Conns
       /\ up' = [up EXCEPT ![c] = TRUE]
       /\ entry' = [entry EXCEPT ![c] = [state |-> "inuse", key |-> client[k].addr,
                                         age |-> 0]]
       /\ stats' = [stats EXCEPT !.total = @ + 1, !.active = @ + 1, !.created = @ + 1]
       /\ client' = Moves(k, "holding", client[k].addr, c)
       /\ mu' = NoOne

DialFails(k) ==
    /\ client' = Moves(k, "out", "", NoConn)
    /\ mu' = NoOne
    /\ UNCHANGED <<entry, up, stats>>

Dial(k) ==
    /\ At(k, "dialing")
    /\ DialSucceeds(k) \/ DialFails(k)
    /\ UNCHANGED poolClose

(* Put: a closed pool closes the connection. *)
PutStarts(k) ==
    /\ At(k, "holding")
    /\ IF closedFlag
         THEN /\ up' = [up EXCEPT ![client[k].conn] = FALSE]
              /\ client' = Moves(k, "out", "", NoConn)
         ELSE /\ client' = Moves(k, "put", client[k].addr, client[k].conn)
              /\ UNCHANGED up
    /\ UNCHANGED <<entry, stats, mu, poolClose>>

(* markIdle does not touch lastUsedAt: the age goes on from the last Get. *)
putIdle(k) ==
    LET c == client[k].conn
    IN /\ entry' = [entry EXCEPT ![c].state = "idle"]
       /\ stats' = [stats EXCEPT !.active = @ - 1, !.idle = @ + 1]

(* Put, under mu: the entry is searched under the connection's remote      *)
(* address, which need not be the key Get filed it under.                  *)
PutLocked(k) ==
    LET c == client[k].conn
    IN /\ At(k, "put") /\ mu = NoOne
       /\ IF c \in Pooled /\ entry[c].key = RemoteAddr(client[k].addr)
            THEN putIdle(k)
            ELSE UNCHANGED <<entry, stats>>
       /\ client' = Moves(k, "out", "", NoConn)
       /\ UNCHANGED <<up, mu, poolClose>>

Removed(c) == [entry[c] EXCEPT !.state = "none", !.key = "", !.age = 0]

CleanupExpired ==
    LET gone == {c \in Pooled : isExpired(c)}
    IN /\ mu = NoOne
       /\ gone # {}
       /\ entry' = [c \in Conns |-> IF c \in gone THEN Removed(c) ELSE entry[c]]
       /\ up' = [c \in Conns |-> up[c] /\ c \notin gone]
       /\ stats' = [stats EXCEPT !.total = @ - Cardinality(gone),
                                 !.idle = @ - Cardinality(gone)]
       /\ UNCHANGED <<mu, client, poolClose>>

(* Close: one caller sets the flag, then waits for mu. *)
PoolCloseFlag ==
    /\ poolClose = "open"
    /\ poolClose' = "draining"
    /\ UNCHANGED <<entry, up, stats, mu, client>>

PoolCloseDrain ==
    /\ poolClose = "draining"
    /\ mu = NoOne
    /\ poolClose' = "drained"
    /\ up' = [c \in Conns |-> up[c] /\ c \notin Pooled]
    /\ entry' = [c \in Conns |-> IF c \in Pooled THEN Removed(c) ELSE entry[c]]
    /\ stats' = [stats EXCEPT !.total = 0, !.active = 0, !.idle = 0]
    /\ UNCHANGED <<mu, client>>

(* Time passes. *)
older(n) == IF n > MaxIdle THEN n ELSE n + 1

Tick ==
    /\ \E c \in Pooled : entry[c].age <= MaxIdle
    /\ entry' = [c \in Conns |->
                   IF c \in Pooled
                     THEN [entry[c] EXCEPT !.age = older(@)]
                     ELSE entry[c]]
    /\ UNCHANGED <<up, stats, mu, client, poolClose>>

(* The peer or the network ends a connection; the pool is not told. *)
PeerCloses(c) ==
    /\ up[c]
    /\ up' = [up EXCEPT ![c] = FALSE]
    /\ UNCHANGED <<entry, stats, mu, client, poolClose>>

GetOrPut(k) == GetHit(k) \/ GetMiss(k) \/ PutLocked(k)

PoolNext ==
    \/ \E k \in Clients : \/ \E addr \in Addrs : GetStarts(k, addr)
                          \/ GetOrPut(k) \/ Dial(k) \/ PutStarts(k)
    \/ CleanupExpired \/ PoolCloseFlag \/ PoolCloseDrain \/ Tick
    \/ \E c \in Conns : PeerCloses(c)

PoolSpec == PoolInit /\ [][PoolNext]_poolVars

(* A dial ends (its context does), and Go's mutex does not starve a        *)
(* goroutine that waits for it: strong fairness.                           *)
PoolFairness ==
    /\ \A k \in Clients : WF_poolVars(Dial(k)) /\ SF_poolVars(GetOrPut(k))
    /\ SF_poolVars(PoolCloseDrain)

-------------------------------------------------------------------------------
(* Types of the pool's state. *)
PoolTypeOK ==
    /\ entry \in [Conns -> [state : {"none", "idle", "inuse"}, key : Addrs \union {""},
                            age : 0..MaxIdle + 1]]
    /\ up \in [Conns -> BOOLEAN]
    /\ stats \in [total : Nat, active : Nat, idle : Nat, created : 0..MaxConns]
    /\ mu \in Clients \union {NoOne}
    /\ client \in [Clients -> [pc : {"out", "get", "dialing", "holding", "put"},
                               addr : Addrs \union {""}, conn : Conns \union {NoConn}]]
    /\ poolClose \in {"open", "draining", "drained"}

(* The counters, which Get trusts for its limit, agree with the map under  *)
(* every interleaving of Get, Put, the cleanup and Close, and the limit    *)
(* holds.                                                                  *)
StatsMatchPool ==
    /\ stats.total = Cardinality(Pooled)
    /\ stats.active = Cardinality(InUse)
    /\ stats.idle = Cardinality(Idle)
    /\ MaxPoolSize > 0 => Cardinality(Pooled) <= MaxPoolSize

(* The pool implements its promise, whatever the races of Get, Put, the    *)
(* cleanup and Close: a connection has one holder, is on the shelf (idle)  *)
(* only when nobody holds it, and is never handed out again once it was    *)
(* removed, by the cleanup, by Close, or by a Put that found the pool      *)
(* closed.                                                                 *)
PP == INSTANCE PoolPromise WITH
        Borrowers <- Clients, Items <- Conns,
        lent <- [c \in Conns |-> {k \in Clients : client[k].conn = c}],
        shelf <- Idle, made <- 1..Dialled

PoolKept == PP!PromiseSpec

(* Once Close has drained the pool, no connection stays open that nobody   *)
(* holds: a Put that raced with Close and a Get that dialled past it       *)
(* leave nothing behind.                                                   *)
NothingLeftOpen ==
    poolClose = "drained" =>
        \A c \in Conns : up[c] => \E k \in Clients : client[k].conn = c

(* As long as the pool is open, an entry marked in use is really in use:   *)
(* what was put back can be handed out again or expire.  This is so for    *)
(* the entries filed under the address that their connection reports;      *)
(* those filed under a host name are never found again by Put, and stay    *)
(* in use with nobody holding them.                                        *)
PutBackIsIdle ==
    \A c \in InUse :
        poolClose = "open" /\ RemoteAddr(entry[c].key) = entry[c].key =>
            \E k \in Clients : client[k].conn = c

(* Nobody waits for the mutex for ever: once Close has been called it      *)
(* completes, although a Get may be dialling with mu held, and every Get   *)
(* and Put that was under way returns.                                     *)
PoolCallsReturn ==
    closedFlag ~> /\ poolClose = "drained"
                  /\ \A k \in Clients : client[k].pc \in {"out", "holding"}
===============================================================================
