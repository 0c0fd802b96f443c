------------------------------- MODULE Handshake -------------------------------
(***************************************************************************)
(* How the two ends of a connection come to share an MCP session:          *)
(* setupConnection (server.go) and Connect (client.go) run concurrently,   *)
(* each with the handlers of session_handlers.go serving the other end.    *)
(*                                                                         *)
(*   server: session id, MOQT session, SUBSCRIBE to the client's track     *)
(*   client: MOQT session, FETCH of the session id, SUBSCRIBE to the       *)
(*           server's track; later SUBSCRIBEs to data tracks               *)
(*                                                                         *)
(* Requests and their answers travel through the MOQT library, which runs  *)
(* every handler in a goroutine of its own, so nothing is ordered between  *)
(* two requests.  All connections belong to one client transport, whose    *)
(* fields session and sessionID they share without a lock.                 *)
(***************************************************************************)
EXTENDS Naturals, FiniteSets

CONSTANTS
    Conns,        \* QUIC connections between the two transports
    SessionIDs,   \* what generateSessionID may return
    NoSession     \* the empty session id, and the nil session

ASSUME HandshakeAssumption ==
    /\ NoSession \notin SessionIDs
    /\ NoSession \notin Conns

VARIABLES
    up,           \* the connection, with the MOQT sessions on it, is alive
    server,       \* setupConnection: where it is, its session id
    client,       \* Connect: where it is, the id it discovered, the id its
                  \* subscribeHandler knows, whether its context is done
    request,      \* what became of FETCH, of the two SUBSCRIBEs for control
                  \* tracks and of the SUBSCRIBE for a data track; the id in
                  \* the namespace of the last
    slot,         \* which ends have a publisher in their control slot
    transport,    \* t.session and t.sessionID of the client transport
    attach        \* SubscribeDataTrack: where it is, the id it has read

hsVars == <<up, server, client, request, slot, transport, attach>>

Ends == {"client", "server"}
UsedIDs == {server[c].id : c \in Conns}
panicked == attach.pc = "panicked"
SessionRuns(c) == server[c].pc # "new"

HandshakeInit ==
    /\ up = [c \in Conns |-> TRUE]
    /\ server = [c \in Conns |-> [pc |-> "new", id |-> NoSession]]
    /\ client = [c \in Conns |-> [pc |-> "new", id |-> NoSession,
                                  handlerID |-> NoSession, ctxDone |-> FALSE]]
    /\ request = [c \in Conns |-> [fetch |-> "none", toClient |-> "none",
                                   toServer |-> "none", data |-> "none",
                                   dataID |-> NoSession]]
    /\ slot = [c \in Conns |-> {}]
    /\ transport = [session |-> NoSession, sessionID |-> NoSession]
    /\ attach = [pc |-> "idle", id |-> NoSession]

-------------------------------------------------------------------------------
(* Mutations used to show that the properties can fail. *)

ClientFailsOnlyRejected(c) ==
    /\ client[c].pc \in {"fetching", "subscribing"}
    /\ request[c].toServer = "rejected"
    /\ client' = [client EXCEPT ![c].pc = "failed"]
    /\ UNCHANGED <<up, server, request, slot, transport, attach>>

ServerFailsKeepsConn(c) ==
    /\ server[c].pc \in {"new", "subscribing"}
    /\ server' = [server EXCEPT ![c].pc = "failed"]
    /\ UNCHANGED <<up, client, request, slot, transport, attach>>

-------------------------------------------------------------------------------
(* 16 bytes of crypto/rand, or the clock and a counter: a fresh id. *)
generateSessionID == SessionIDs \ UsedIDs

(* setupConnection: the session runs and SUBSCRIBE is sent. *)
ServerRuns(c) ==
    /\ up[c]
    /\ server[c].pc = "new"
    /\ \E id \in generateSessionID :
         server' = [server EXCEPT ![c] = [pc |-> "subscribing", id |-> id]]
    /\ request' = [request EXCEPT ![c].toClient = "sent"]
    /\ UNCHANGED <<up, client, slot, transport, attach>>

(* ... accepted: the control connection is made ... *)
ServerSubscribed(c) ==
    /\ server[c].pc = "subscribing"
    /\ request[c].toClient = "accepted"
    /\ server' = [server EXCEPT ![c].pc = "established"]
    /\ UNCHANGED <<up, client, request, slot, transport, attach>>

(* ... or the session, or the subscription, fails (the caller's context is *)
(* cancelled, the client rejects it): the QUIC connection is closed.       *)
ServerFails(c) ==
    /\ server[c].pc \in {"new", "subscribing"}
    /\ server' = [server EXCEPT ![c].pc = "failed"]
    /\ up' = [up EXCEPT ![c] = FALSE]
    /\ UNCHANGED <<client, request, slot, transport, attach>>

(* discoveryHandler: the id of this connection's session, as an object of  *)
(* the accepted FETCH; or Accept, Marshal, FetchStream or WriteObject      *)
(* fails, the handler returns without a word and no object ever comes.     *)
handleDiscoveryFetch(c) ==
    /\ up[c] /\ SessionRuns(c)
    /\ request[c].fetch = "sent"
    /\ \E answer \in {"object", "unanswered"} :
         request' = [request EXCEPT ![c].fetch = answer]
    /\ UNCHANGED <<up, server, client, slot, transport, attach>>

(* subscribeHandler: Accept may fail too, and the handler then returns     *)
(* without an answer and without a publisher for the slot.                 *)
Answers(known) == IF known THEN {"accepted", "unanswered"} ELSE {"rejected"}

(* On the server it serves its own session's namespace only.  Accept is    *)
(* one step, Set of the slot another.                                      *)
ServerHandlesControl(c) ==
    /\ up[c] /\ SessionRuns(c)
    /\ request[c].toServer = "sent"
    /\ \E answer \in Answers(client[c].id = server[c].id) :
         request' = [request EXCEPT ![c].toServer = answer]
    /\ UNCHANGED <<up, server, client, slot, transport, attach>>

ServerSetsSlot(c) ==
    /\ request[c].toServer = "accepted"
    /\ "server" \notin slot[c]
    /\ slot' = [slot EXCEPT ![c] = @ \union {"server"}]
    /\ UNCHANGED <<up, server, client, request, transport, attach>>

(* compositeSubscribeHandler: a data track of this session, or nothing. *)
dataRoute(c) == IF request[c].dataID = server[c].id THEN "accepted" ELSE "rejected"

ServerHandlesData(c) ==
    /\ up[c] /\ SessionRuns(c)
    /\ request[c].data = "sent"
    /\ request' = [request EXCEPT ![c].data = dataRoute(c)]
    /\ UNCHANGED <<up, server, client, slot, transport, attach>>

(* On the client it knows no id and adopts the first.                      *)
ClientHandlesControl(c) ==
    /\ up[c]
    /\ client[c].pc # "new"
    /\ request[c].toClient = "sent"
    /\ \E answer \in Answers(client[c].handlerID \in {NoSession, server[c].id}) :
         request' = [request EXCEPT ![c].toClient = answer]
    /\ UNCHANGED <<up, server, client, slot, transport, attach>>

ClientSetsSlot(c) ==
    /\ ~panicked
    /\ request[c].toClient = "accepted"
    /\ "client" \notin slot[c]
    /\ client' = [client EXCEPT ![c].handlerID = IF @ = NoSession THEN server[c].id ELSE @]
    /\ slot' = [slot EXCEPT ![c] = @ \union {"client"}]
    /\ UNCHANGED <<up, server, request, transport, attach>>

Handlers(c) ==
    \/ handleDiscoveryFetch(c) \/ ServerHandlesControl(c) \/ ServerHandlesData(c)
    \/ ClientHandlesControl(c)

SetsSlot(c) == ServerSetsSlot(c) \/ ClientSetsSlot(c)

-------------------------------------------------------------------------------
(* Connect: the MOQT session runs and FETCH is sent ... *)
ClientRuns(c) ==
    /\ up[c]
    /\ client[c].pc = "new"
    /\ client' = [client EXCEPT ![c].pc = "fetching"]
    /\ request' = [request EXCEPT ![c].fetch = "sent"]
    /\ UNCHANGED <<up, server, slot, transport, attach>>

(* ... the id arrives and SUBSCRIBE is sent ... *)
ClientDiscovers(c) ==
    /\ client[c].pc = "fetching"
    /\ request[c].fetch = "object"
    /\ client' = [client EXCEPT ![c] = [@ EXCEPT !.pc = "subscribing", !.id = server[c].id]]
    /\ request' = [request EXCEPT ![c].toServer = "sent"]
    /\ UNCHANGED <<up, server, slot, transport, attach>>

(* ... and is accepted.  The transport's two fields are set one by one. *)
ClientSubscribed(c) ==
    /\ client[c].pc = "subscribing"
    /\ request[c].toServer = "accepted"
    /\ client' = [client EXCEPT ![c].pc = "publishing"]
    /\ transport' = [transport EXCEPT !.session = c]
    /\ UNCHANGED <<up, server, request, slot, attach>>

ClientEstablished(c) ==
    /\ client[c].pc = "publishing"
    /\ client' = [client EXCEPT ![c].pc = "established"]
    /\ transport' = [transport EXCEPT !.sessionID = client[c].id]
    /\ UNCHANGED <<up, server, request, slot, attach>>

(* A step of Connect fails: rejected, cancelled, or the connection is      *)
(* gone.  The connection goes back to the pool as it is.                   *)
ClientFails(c) ==
    /\ client[c].pc \in {"fetching", "subscribing"}
    /\ ~up[c] \/ client[c].ctxDone \/ request[c].toServer = "rejected"
    /\ client' = [client EXCEPT ![c].pc = "failed"]
    /\ UNCHANGED <<up, server, request, slot, transport, attach>>

(* The context given to Connect is cancelled, at any time ... *)
CallerCancels(c) ==
    /\ ~panicked
    /\ client[c].pc # "new" /\ ~client[c].ctxDone
    /\ client' = [client EXCEPT ![c].ctxDone = TRUE]
    /\ UNCHANGED <<up, server, request, slot, transport, attach>>

(* ... and the goroutine of runSession closes the session. *)
RunSessionCloses(c) ==
    /\ client[c].ctxDone /\ up[c]
    /\ up' = [up EXCEPT ![c] = FALSE]
    /\ UNCHANGED <<server, client, request, slot, transport, attach>>

(* The control connection of an established client closes: OnClose. *)
ClientCloses(c) ==
    /\ ~panicked
    /\ client[c].pc = "established"
    /\ client' = [client EXCEPT ![c].pc = "closed"]
    /\ up' = [up EXCEPT ![c] = FALSE]
    /\ transport' = [transport EXCEPT !.session = NoSession]
    /\ UNCHANGED <<server, request, slot, attach>>

ConnLost(c) ==
    /\ up[c]
    /\ up' = [up EXCEPT ![c] = FALSE]
    /\ UNCHANGED <<server, client, request, slot, transport, attach>>

-------------------------------------------------------------------------------
(* SubscribeDataTrack: the nil check and the id ... *)
AttachStarts ==
    /\ attach.pc = "idle"
    /\ transport.session # NoSession /\ transport.sessionID # NoSession
    /\ attach' = [pc |-> "checked", id |-> transport.sessionID]
    /\ UNCHANGED <<up, server, client, request, slot, transport>>

(* ... then t.session is read again and the SUBSCRIBE is sent on it ...     *)
AttachSubscribes ==
    /\ attach.pc = "checked"
    /\ transport.session # NoSession
    /\ attach' = [attach EXCEPT !.pc = "attached"]
    /\ request' = [request EXCEPT ![transport.session] =
                      [@ EXCEPT !.data = "sent", !.dataID = attach.id]]
    /\ UNCHANGED <<up, server, client, slot, transport>>

(* ... unless OnClose has set it to nil since the check: Subscribe on a    *)
(* nil session panics, and with the client's process its connections end.  *)
AttachPanics ==
    /\ attach.pc = "checked"
    /\ transport.session = NoSession
    /\ attach' = [attach EXCEPT !.pc = "panicked"]
    /\ up' = [c \in Conns |-> FALSE]
    /\ UNCHANGED <<server, client, request, slot, transport>>

-------------------------------------------------------------------------------
ServerStep(c) == ServerRuns(c) \/ ServerSubscribed(c)

ClientStep(c) ==
    /\ ~panicked
    /\ \/ ClientDiscovers(c) \/ ClientSubscribed(c) \/ ClientEstablished(c)
       \/ ClientFails(c)

HandshakeNext ==
    \/ \E c \in Conns : \/ ServerStep(c) \/ ServerFails(c) \/ ClientRuns(c) \/ ClientStep(c)
                        \/ Handlers(c) \/ SetsSlot(c) \/ CallerCancels(c)
                        \/ RunSessionCloses(c) \/ ClientCloses(c) \/ ConnLost(c)
    \/ AttachStarts \/ AttachSubscribes \/ AttachPanics

HandshakeSpec == HandshakeInit /\ [][HandshakeNext]_hsVars

(* On a connection that is alive requests are delivered to their handlers, *)
(* and goroutines that can run do run.  The server accepts the connection  *)
(* and nobody is obliged to answer, to cancel, to close or to call         *)
(* Connect.                                                                *)
HandshakeFairness ==
    \A c \in Conns :
        /\ WF_hsVars(ServerStep(c)) /\ WF_hsVars(ClientStep(c))
        /\ WF_hsVars(handleDiscoveryFetch(c)) /\ WF_hsVars(ServerHandlesControl(c))
        /\ WF_hsVars(ClientHandlesControl(c))
        /\ WF_hsVars(ServerSetsSlot(c)) /\ WF_hsVars(ClientSetsSlot(c))
        /\ WF_hsVars(RunSessionCloses(c))
        /\ WF_hsVars((~up[c] \/ request[c].toClient = "rejected") /\ ServerFails(c))

FairHandshakeSpec == HandshakeSpec /\ HandshakeFairness

-------------------------------------------------------------------------------
(* Types of the handshake's state. *)
KnownID == SessionIDs \union {NoSession}

ServerRec == [pc : {"new", "subscribing", "established", "failed"}, id : KnownID]

ClientRec == [pc : {"new", "fetching", "subscribing", "publishing", "established",
                    "failed", "closed"},
              id : KnownID, handlerID : KnownID, ctxDone : BOOLEAN]

RequestRec == [fetch : {"none", "sent", "object", "unanswered"},
               toClient : {"none", "sent", "accepted", "rejected", "unanswered"},
               toServer : {"none", "sent", "accepted", "rejected", "unanswered"},
               data : {"none", "sent", "accepted", "rejected"},
               dataID : KnownID]

HandshakeTypeOK ==
    /\ up \in [Conns -> BOOLEAN]
    /\ server \in [Conns -> ServerRec]
    /\ client \in [Conns -> ClientRec]
    /\ request \in [Conns -> RequestRec]
    /\ slot \in [Conns -> SUBSET Ends]
    /\ transport \in [session : Conns \union {NoSession}, sessionID : KnownID]
    /\ attach \in [pc : {"idle", "checked", "attached", "panicked"}, id : KnownID]

(* Connections never share a session: neither the id a client discovered   *)
(* nor the one its subscribeHandler adopted is the id of a session on      *)
(* another connection.                                                     *)
OneSessionPerConnection ==
    \A c, d \in Conns :
        server[d].id \in {client[c].id, client[c].handlerID} \ {NoSession} => c = d

(* A client whose Connect has returned is not left half open: both ends    *)
(* get their publisher, so both can write, or the connection ends, even    *)
(* when setupConnection fails after the client was let in.  The one        *)
(* exception is the client's own subscribeHandler, when its Accept fails:  *)
(* the server goes on waiting for the answer.                              *)
EstablishedIsTwoWay ==
    \A c \in Conns :
        client[c].pc = "established"
          ~> slot[c] = Ends \/ ~up[c] \/ request[c].toClient = "unanswered"

(* What Connect may wait for as long as its caller lets it: a handler of   *)
(* the server that returned without an answer, on a connection that lives. *)
WaitsForCaller(c) ==
    /\ "unanswered" \in {request[c].fetch, request[c].toServer}
    /\ up[c] /\ ~client[c].ctxDone

(* Connect returns: the two ends, which both wait for an answer of the     *)
(* other, never block each other, and a connection that is lost or a       *)
(* context that is cancelled, the server's or the client's, at any point   *)
(* of the handshake releases it.                                           *)
ConnectReturns ==
    \A c \in Conns :
        client[c].pc # "new"
          ~> \/ client[c].pc \in {"established", "failed", "closed"}
             \/ WaitsForCaller(c)
             \/ panicked
===============================================================================
