---------------------------- MODULE ClientTransport ----------------------------
(***************************************************************************)
(* The client transport (pkg/moqttransport/client.go) on top of its pool:  *)
(* Connect takes a connection from the pool, runs the MOQT session,        *)
(* discovers the session id and subscribes to the control track; any of    *)
(* these may fail and each failure puts the connection back.  When the     *)
(* control connection is closed it closes the QUIC connection and then     *)
(* calls OnClose, which puts the connection back.                          *)
(*                                                                         *)
(* A client is one goroutine that connects, uses its control connection    *)
(* and closes it, over and over.  What is done with t.session and          *)
(* t.sessionID is in module Handshake; t.quicConn is never read.           *)
(***************************************************************************)
EXTENDS QUICConnectionPool

VARIABLES
    sess,         \* each client's control connection
    closedHere    \* history: connections of the pool that a control connection
                  \* has closed

transportVars == <<sess, closedHere>>
clientVars == <<poolVars, transportVars>>

ClientInit ==
    /\ PoolInit
    /\ sess = [k \in Clients |-> "none"]
    /\ closedHere = {}

-------------------------------------------------------------------------------
(* Mutation: a failed Connect forgets its connection. *)

ConnectFailsKeepingConn(k) ==
    /\ sess[k] = "none" /\ At(k, "holding")
    /\ client' = Moves(k, "out", "", NoConn)
    /\ UNCHANGED <<entry, up, stats, mu, poolClose, transportVars>>

-------------------------------------------------------------------------------
(* Connect, up to the pool's answer. *)
Connect(k) ==
    /\ sess[k] = "none"
    /\ \E addr \in Addrs : GetStarts(k, addr)
    /\ UNCHANGED transportVars

(* Session, discovery and subscription all succeed. *)
ConnectSucceeds(k) ==
    /\ sess[k] = "none" /\ At(k, "holding")
    /\ up[client[k].conn]
    /\ sess' = [sess EXCEPT ![k] = "open"]
    /\ UNCHANGED <<poolVars, closedHere>>

(* One of them fails: Put, and the error is returned. *)
ConnectFails(k) ==
    /\ sess[k] = "none"
    /\ PutStarts(k)
    /\ UNCHANGED transportVars

(* controlConn.Close: CloseWithError on the QUIC connection ... *)
ControlCloses(k) ==
    /\ sess[k] = "open"
    /\ sess' = [sess EXCEPT ![k] = "closing"]
    /\ up' = [up EXCEPT ![client[k].conn] = FALSE]
    /\ closedHere' = closedHere \union {client[k].conn}
    /\ UNCHANGED <<entry, stats, mu, client, poolClose>>

(* ... then OnClose: Put. *)
OnClosePuts(k) ==
    /\ sess[k] = "closing"
    /\ PutStarts(k)
    /\ sess' = [sess EXCEPT ![k] = "none"]
    /\ UNCHANGED closedHere

(* The pool's own steps; Close of the transport is Close of the pool. *)
PoolStep ==
    /\ \/ \E k \in Clients : GetOrPut(k) \/ Dial(k)
       \/ CleanupExpired \/ PoolCloseFlag \/ PoolCloseDrain \/ Tick
       \/ \E c \in Conns : PeerCloses(c)
    /\ closedHere' = {c \in closedHere : entry'[c].state # "none"}
    /\ UNCHANGED sess

ClientNext ==
    \/ \E k \in Clients : \/ Connect(k) \/ ConnectSucceeds(k) \/ ConnectFails(k)
                          \/ ControlCloses(k) \/ OnClosePuts(k)
    \/ PoolStep

ClientSpec == ClientInit /\ [][ClientNext]_clientVars

(* The pool's calls go on as in the pool alone; nobody is obliged to       *)
(* connect or to close.                                                    *)
FairClientSpec == ClientSpec /\ PoolFairness

-------------------------------------------------------------------------------
(* Types of the transport's state. *)
ClientTypeOK ==
    /\ PoolTypeOK
    /\ sess \in [Clients -> {"none", "open", "closing"}]
    /\ closedHere \subseteq Conns

(* What waits in the pool can be used again: an idle entry is not a        *)
(* connection this side has closed itself.                                 *)
IdleNotClosedHere == Idle \intersect closedHere = {}
===============================================================================
