---------------------------- MODULE ServerTransport ----------------------------
(***************************************************************************)
(* The server transport (pkg/moqttransport/server.go): Listen, Accept and  *)
(* setupConnection run by any number of goroutines, the registries of      *)
(* connections and of data-track handlers, the closing of one connection   *)
(* (OnClose) and the closing of the transport, which races with all of     *)
(* them.  Each of the transport's four mutexes is held for short sections; *)
(* a step is one such section or one blocking call.                        *)
(*                                                                         *)
(* An acceptor is one call of Connect together with the connection it      *)
(* returns, so it also names that connection and its MCP session.          *)
(***************************************************************************)
EXTENDS Naturals, FiniteSets

CONSTANT Acceptors

VARIABLES
    acc,             \* where each acceptor is
    listener,        \* t.quicLn and the metrics server: not started, open, closed
    metricsOn,
    connections,     \* t.connections
    sessionHandlers, \* sessions in t.sessionHandlers
    handlersClosed,  \* sessions whose data-track handlers were closed
    ctl,             \* the control connection of each session
    srvClose,        \* Close: what it does next
    toClose          \* connections Close has taken out of the registry

svars == <<acc, listener, metricsOn, connections, sessionHandlers,
           handlersClosed, ctl, srvClose, toClose>>

sclosed == srvClose # "open"

ServerInit ==
    /\ acc = [a \in Acceptors |-> "idle"]
    /\ listener = "none" /\ metricsOn = FALSE
    /\ connections = {} /\ sessionHandlers = {} /\ handlersClosed = {}
    /\ ctl = [a \in Acceptors |-> "none"]
    /\ srvClose = "open"
    /\ toClose = {}

-------------------------------------------------------------------------------
(* Mutations used to show that the properties can fail. *)

ListenUnchecked(a) ==
    /\ acc[a] = "idle"
    /\ listener' = "open"
    /\ metricsOn' = TRUE
    /\ acc' = [acc EXCEPT ![a] = "listened"]
    /\ UNCHANGED <<connections, sessionHandlers, handlersClosed, ctl, srvClose, toClose>>

OnCloseForgetsHandlers(a) ==
    /\ ctl[a] = "dropping"
    /\ ctl' = [ctl EXCEPT ![a] = "closed"]
    /\ sessionHandlers' = sessionHandlers \ {a}
    /\ UNCHANGED <<acc, listener, metricsOn, connections, handlersClosed, srvClose, toClose>>

CloseSessionsForgets ==
    /\ srvClose = "each"
    /\ toClose = {}
    /\ srvClose' = "listener"
    /\ UNCHANGED <<acc, listener, metricsOn, connections, sessionHandlers,
                   handlersClosed, ctl, toClose>>

CloseListenerForgets ==
    /\ srvClose = "listener"
    /\ srvClose' = "metrics"
    /\ UNCHANGED <<acc, listener, metricsOn, connections, sessionHandlers,
                   handlersClosed, ctl, toClose>>

RegisterHandlersUnnamed(a) ==
    /\ acc[a] = "register2"
    /\ acc' = [acc EXCEPT ![a] = "returned"]
    /\ sessionHandlers' = sessionHandlers \union {"no session id"}
    /\ UNCHANGED <<listener, metricsOn, connections, handlersClosed, ctl, srvClose, toClose>>

-------------------------------------------------------------------------------
(* Listen, with listenMu held: the closed flag, then the listener and the  *)
(* metrics server, unless they are there already.  Opening the listener    *)
(* may fail.                                                               *)
Listen(a) ==
    /\ acc[a] = "idle"
    /\ \/ /\ sclosed \/ listener = "none"
          /\ acc' = [acc EXCEPT ![a] = "failed"]
          /\ UNCHANGED <<listener, metricsOn>>
       \/ /\ ~sclosed
          /\ acc' = [acc EXCEPT ![a] = "listened"]
          /\ listener' = "open"
          /\ metricsOn' = TRUE
    /\ UNCHANGED <<connections, sessionHandlers, handlersClosed, ctl, srvClose, toClose>>

(* Accept reads t.quicLn under listenMu. *)
Accept(a) ==
    /\ acc[a] = "listened"
    /\ acc' = [acc EXCEPT ![a] = IF listener = "open" THEN "accepting" ELSE "failed"]
    /\ UNCHANGED <<listener, metricsOn, connections, sessionHandlers, handlersClosed,
                   ctl, srvClose, toClose>>

(* A client arrives; one that was queued is still handed out after the     *)
(* listener was closed ...                                                 *)
AcceptReturns(a) ==
    /\ acc[a] = "accepting"
    /\ acc' = [acc EXCEPT ![a] = "setup"]
    /\ UNCHANGED <<listener, metricsOn, connections, sessionHandlers, handlersClosed,
                   ctl, srvClose, toClose>>

(* ... or the caller's context is cancelled ... *)
AcceptCancelled(a) ==
    /\ acc[a] = "accepting"
    /\ acc' = [acc EXCEPT ![a] = "failed"]
    /\ UNCHANGED <<listener, metricsOn, connections, sessionHandlers, handlersClosed,
                   ctl, srvClose, toClose>>

(* ... or the listener is closed. *)
AcceptFails(a) ==
    /\ acc[a] = "accepting"
    /\ listener = "closed"
    /\ acc' = [acc EXCEPT ![a] = "failed"]
    /\ UNCHANGED <<listener, metricsOn, connections, sessionHandlers, handlersClosed,
                   ctl, srvClose, toClose>>

(* setupConnection: the MOQT session and the subscription to the client's  *)
(* track succeed and the control connection exists, or one of them fails   *)
(* and the QUIC connection is closed.                                      *)
SetupConnection(a) ==
    /\ acc[a] = "setup"
    /\ \/ /\ acc' = [acc EXCEPT ![a] = "register"]
          /\ ctl' = [ctl EXCEPT ![a] = "open"]
       \/ /\ acc' = [acc EXCEPT ![a] = "failed"]
          /\ UNCHANGED ctl
    /\ UNCHANGED <<listener, metricsOn, connections, sessionHandlers, handlersClosed,
                   srvClose, toClose>>

(* Registration: connectionsMu, then sessionsMu. *)
RegisterConnection(a) ==
    /\ acc[a] = "register"
    /\ acc' = [acc EXCEPT ![a] = "register2"]
    /\ connections' = connections \union {a}
    /\ UNCHANGED <<listener, metricsOn, sessionHandlers, handlersClosed, ctl,
                   srvClose, toClose>>

RegisterHandlers(a) ==
    /\ acc[a] = "register2"
    /\ acc' = [acc EXCEPT ![a] = "returned"]
    /\ sessionHandlers' = sessionHandlers \union {a}
    /\ UNCHANGED <<listener, metricsOn, connections, handlersClosed, ctl, srvClose, toClose>>

Setup(a) ==
    \/ Listen(a) \/ Accept(a) \/ AcceptFails(a)
    \/ SetupConnection(a) \/ RegisterConnection(a) \/ RegisterHandlers(a)

-------------------------------------------------------------------------------
(* controlConn.Close by the MCP layer; its closeOnce makes a second caller *)
(* wait.                                                                   *)
ControlCloses(a) ==
    /\ acc[a] = "returned"
    /\ ctl[a] = "open"
    /\ ctl' = [ctl EXCEPT ![a] = "removing"]
    /\ UNCHANGED <<acc, listener, metricsOn, connections, sessionHandlers,
                   handlersClosed, srvClose, toClose>>

(* OnClose: RemoveConnection ... *)
OnCloseRemoves(a) ==
    /\ ctl[a] = "removing"
    /\ ctl' = [ctl EXCEPT ![a] = "dropping"]
    /\ connections' = connections \ {a}
    /\ UNCHANGED <<acc, listener, metricsOn, sessionHandlers, handlersClosed,
                   srvClose, toClose>>

(* ... the session's handlers, if there are any yet, are unregistered under *)
(* sessionsMu ...                                                          *)
OnCloseUnregisters(a) ==
    /\ ctl[a] = "dropping"
    /\ ctl' = [ctl EXCEPT ![a] = IF a \in sessionHandlers THEN "closing" ELSE "closed"]
    /\ sessionHandlers' = sessionHandlers \ {a}
    /\ UNCHANGED <<acc, listener, metricsOn, connections, handlersClosed, srvClose, toClose>>

(* ... and closed after the unlock.                                        *)
OnCloseClosesHandlers(a) ==
    /\ ctl[a] = "closing"
    /\ ctl' = [ctl EXCEPT ![a] = "closed"]
    /\ handlersClosed' = handlersClosed \union {a}
    /\ UNCHANGED <<acc, listener, metricsOn, connections, sessionHandlers, srvClose, toClose>>

OnClose(a) == OnCloseRemoves(a) \/ OnCloseUnregisters(a) \/ OnCloseClosesHandlers(a)

-------------------------------------------------------------------------------
(* Close of the transport: the flag ... *)
CloseMark ==
    /\ srvClose = "open"
    /\ srvClose' = "take"
    /\ UNCHANGED <<acc, listener, metricsOn, connections, sessionHandlers,
                   handlersClosed, ctl, toClose>>

(* ... the registry of connections is emptied ... *)
CloseTakes ==
    /\ srvClose = "take"
    /\ srvClose' = "each"
    /\ toClose' = connections
    /\ connections' = {}
    /\ UNCHANGED <<acc, listener, metricsOn, sessionHandlers, handlersClosed, ctl>>

(* ... and each connection in it is closed in turn ... *)
CloseEach(a) ==
    /\ srvClose = "each"
    /\ a \in toClose
    /\ \/ /\ ctl[a] = "open"
          /\ ctl' = [ctl EXCEPT ![a] = "removing"]
          /\ UNCHANGED toClose
       \/ /\ ctl[a] = "closed"
          /\ toClose' = toClose \ {a}
          /\ UNCHANGED ctl
    /\ UNCHANGED <<acc, listener, metricsOn, connections, sessionHandlers,
                   handlersClosed, srvClose>>

(* ... then the handlers still registered, under sessionsMu ... *)
CloseSessions ==
    /\ srvClose = "each"
    /\ toClose = {}
    /\ srvClose' = "listener"
    /\ handlersClosed' = handlersClosed \union sessionHandlers
    /\ sessionHandlers' = {}
    /\ UNCHANGED <<acc, listener, metricsOn, connections, ctl, toClose>>

(* ... the listener, under listenMu ... *)
CloseListener ==
    /\ srvClose = "listener"
    /\ srvClose' = "metrics"
    /\ listener' = IF listener = "open" THEN "closed" ELSE listener
    /\ UNCHANGED <<acc, metricsOn, connections, sessionHandlers, handlersClosed,
                   ctl, toClose>>

(* ... and last the metrics server and the (unused) pool. *)
CloseMetrics ==
    /\ srvClose = "metrics"
    /\ srvClose' = "done"
    /\ metricsOn' = FALSE
    /\ UNCHANGED <<acc, listener, connections, sessionHandlers, handlersClosed,
                   ctl, toClose>>

CloseServer ==
    \/ CloseTakes \/ CloseSessions \/ CloseListener \/ CloseMetrics
    \/ \E a \in Acceptors : CloseEach(a)

-------------------------------------------------------------------------------
ServerNext ==
    \/ \E a \in Acceptors : \/ Setup(a) \/ AcceptReturns(a) \/ AcceptCancelled(a) \/ ControlCloses(a)
                            \/ OnClose(a)
    \/ CloseMark \/ CloseServer

ServerSpec == ServerInit /\ [][ServerNext]_svars

(* Goroutines that can run do run, and the setup of an accepted connection *)
(* ends: by the peer's answer, or by an error once the peer is gone or the *)
(* caller gives up.  No client is obliged to arrive and nobody to call     *)
(* Connect or Close.                                                       *)
ServerFairness ==
    /\ \A a \in Acceptors : /\ WF_svars(acc[a] # "idle" /\ Setup(a))
                            /\ WF_svars(OnClose(a))
    /\ WF_svars(CloseServer)

FairServerSpec == ServerSpec /\ ServerFairness

-------------------------------------------------------------------------------
(* Types of the transport's state. *)
ServerTypeOK ==
    /\ acc \in [Acceptors -> {"idle", "listened", "accepting", "setup", "register",
                              "register2", "returned", "failed"}]
    /\ listener \in {"none", "open", "closed"}
    /\ metricsOn \in BOOLEAN
    /\ connections \subseteq Acceptors
    /\ sessionHandlers \subseteq Acceptors
    /\ handlersClosed \subseteq Acceptors
    /\ ctl \in [Acceptors -> {"none", "open", "removing", "dropping", "closing",
                              "closed"}]
    /\ srvClose \in {"open", "take", "each", "listener", "metrics", "done"}
    /\ toClose \subseteq Acceptors

(* A Listen that races with Close never leaves a listener or a metrics     *)
(* server behind: both are gone once Close has returned.                   *)
ListenerGone == srvClose = "done" => listener # "open" /\ ~metricsOn

(* Data-track handlers never leave the registry open and unattended: those *)
(* of a session that was set up and is not registered were closed, or the  *)
(* OnClose that unregistered them is about to close them.                  *)
UnregisteredIsClosed ==
    \A a \in Acceptors :
        acc[a] = "returned" /\ a \notin sessionHandlers =>
            a \in handlersClosed \/ ctl[a] = "closing"

(* Handlers that are registered before Close comes to the registry of      *)
(* sessions are closed in the end, by Close or by the session's own        *)
(* OnClose, whichever finds them.  A session that registers its handlers   *)
(* later is closed by nobody but its OnClose, if that is still to come.    *)
CloseClosesHandlers ==
    \A a \in Acceptors :
        a \in sessionHandlers /\ srvClose \in {"take", "each"} ~> a \in handlersClosed

(* Close completes and every acceptor gets its answer. *)
CloseReleasesAcceptors ==
    sclosed ~> /\ srvClose = "done"
               /\ \A a \in Acceptors : acc[a] \in {"idle", "returned", "failed"}
===============================================================================
