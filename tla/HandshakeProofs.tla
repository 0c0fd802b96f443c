--------------------------- MODULE HandshakeProofs ---------------------------
(***************************************************************************)
(* TLAPS proofs about Handshake, for any set of connections and any set of *)
(* session ids.                                                            *)
(***************************************************************************)
EXTENDS Handshake, TLAPS

(* The session of a connection: what the client knows of its id, from      *)
(* discovery and from the SUBSCRIBE it served, was taken from its own end. *)
SessionOK(c) ==
    /\ server[c].pc = "new" => server[c].id = NoSession
    /\ client[c].id \in {NoSession, server[c].id}
    /\ client[c].handlerID \in {NoSession, server[c].id}

OwnIDs ==
    \A c, d \in Conns : server[c].id = server[d].id => c = d \/ server[c].id = NoSession

HandshakeIInv ==
    /\ HandshakeTypeOK
    /\ \A c \in Conns : SessionOK(c)
    /\ OwnIDs

(* The invariant holds of two new transports. *)
LEMMA HandshakeInvariantInit == HandshakeInit => HandshakeIInv
  <1> SUFFICES ASSUME HandshakeInit PROVE HandshakeIInv
    OBVIOUS
  <1> USE DEF HandshakeInit
  <1>1. HandshakeTypeOK
    <2>1. server \in [Conns -> ServerRec] /\ client \in [Conns -> ClientRec]
      BY DEF ServerRec, ClientRec, KnownID
    <2>2. request \in [Conns -> RequestRec]
      BY DEF RequestRec, KnownID
    <2> QED
      BY <2>1, <2>2 DEF HandshakeTypeOK, KnownID
  <1>2. \A c \in Conns : SessionOK(c)
    BY DEF SessionOK
  <1>3. OwnIDs
    BY DEF OwnIDs
  <1> QED
    BY <1>1, <1>2, <1>3 DEF HandshakeIInv

(* Steps that leave the ids alone. *)
LEMMA IDsKept ==
  ASSUME HandshakeIInv, HandshakeTypeOK',
         \A c \in Conns :
           /\ server'[c].id = server[c].id /\ client'[c].id = client[c].id
           /\ client'[c].handlerID = client[c].handlerID
           /\ server'[c].pc = "new" => server[c].pc = "new"
  PROVE  HandshakeIInv'
  BY DEF HandshakeIInv, SessionOK, OwnIDs

(* setupConnection, but for the choice of the id, and the handlers of both *)
(* ends; an answer that is missing is one of the answers.                  *)
LEMMA ServerKeeps ==
  ASSUME HandshakeIInv, NEW c \in Conns,
         \/ ServerSubscribed(c) \/ ServerFails(c) \/ handleDiscoveryFetch(c)
         \/ ServerHandlesControl(c) \/ ServerSetsSlot(c) \/ ClientHandlesControl(c)
         \/ ServerHandlesData(c)
  PROVE  HandshakeIInv'
  <1>1. HandshakeTypeOK
    BY DEF HandshakeIInv
  <1>2. CASE ServerSubscribed(c)
    <2>1. server' \in [Conns -> ServerRec]
      BY <1>1, <1>2 DEF HandshakeTypeOK, ServerSubscribed, ServerRec
    <2>2. HandshakeTypeOK'
      BY <1>1, <1>2, <2>1 DEF HandshakeTypeOK, ServerSubscribed
    <2> QED
      BY <1>1, <1>2, <2>2, IDsKept DEF HandshakeTypeOK, ServerRec, ServerSubscribed
  <1>3. CASE ServerFails(c)
    <2>1. server' \in [Conns -> ServerRec]
      BY <1>1, <1>3 DEF HandshakeTypeOK, ServerFails, ServerRec
    <2>2. up' \in [Conns -> BOOLEAN]
      BY <1>1, <1>3 DEF HandshakeTypeOK, ServerFails
    <2>3. HandshakeTypeOK'
      BY <1>1, <1>3, <2>1, <2>2 DEF HandshakeTypeOK, ServerFails
    <2> QED
      BY <1>1, <1>3, <2>3, IDsKept DEF HandshakeTypeOK, ServerRec, ServerFails
  <1>4. CASE handleDiscoveryFetch(c)
    <2>1. PICK a \in {"accepted", "rejected", "unanswered", "object"} :
             /\ request' = [request EXCEPT ![c].fetch = a]
             /\ a \in {"object", "unanswered"}
      BY <1>4 DEF handleDiscoveryFetch
    <2>4. [request[c] EXCEPT !.fetch = a] \in RequestRec
      <3>1. request[c] \in RequestRec
        BY <1>1 DEF HandshakeTypeOK
      <3> QED
        BY <2>1, <3>1 DEF RequestRec
    <2>2. request' \in [Conns -> RequestRec]
      BY <1>1, <2>1, <2>4 DEF HandshakeTypeOK
    <2>3. HandshakeTypeOK'
      BY <1>1, <1>4, <2>2 DEF HandshakeTypeOK, handleDiscoveryFetch
    <2> QED
      BY <1>1, <1>4, <2>3, IDsKept DEF handleDiscoveryFetch
  <1>5. CASE ServerHandlesControl(c)
    <2>1. PICK a \in {"accepted", "rejected", "unanswered", "object"} :
             /\ request' = [request EXCEPT ![c].toServer = a]
             /\ a \in {"accepted", "rejected", "unanswered"}
      BY <1>5 DEF ServerHandlesControl, Answers
    <2>4. [request[c] EXCEPT !.toServer = a] \in RequestRec
      <3>1. request[c] \in RequestRec
        BY <1>1 DEF HandshakeTypeOK
      <3> QED
        BY <2>1, <3>1 DEF RequestRec
    <2>2. request' \in [Conns -> RequestRec]
      BY <1>1, <2>1, <2>4 DEF HandshakeTypeOK
    <2>3. HandshakeTypeOK'
      BY <1>1, <1>5, <2>2 DEF HandshakeTypeOK, ServerHandlesControl
    <2> QED
      BY <1>1, <1>5, <2>3, IDsKept DEF ServerHandlesControl
  <1>6. CASE ServerSetsSlot(c)
    <2>1. slot' \in [Conns -> SUBSET Ends]
      BY <1>1, <1>6 DEF HandshakeTypeOK, ServerSetsSlot, Ends
    <2>2. HandshakeTypeOK'
      BY <1>1, <1>6, <2>1 DEF HandshakeTypeOK, ServerSetsSlot
    <2> QED
      BY <1>1, <1>6, <2>2, IDsKept DEF HandshakeTypeOK, ServerSetsSlot
  <1>7. CASE ClientHandlesControl(c)
    <2>1. PICK a \in {"accepted", "rejected", "unanswered", "object"} :
             /\ request' = [request EXCEPT ![c].toClient = a]
             /\ a \in {"accepted", "rejected", "unanswered"}
      BY <1>7 DEF ClientHandlesControl, Answers
    <2>4. [request[c] EXCEPT !.toClient = a] \in RequestRec
      <3>1. request[c] \in RequestRec
        BY <1>1 DEF HandshakeTypeOK
      <3> QED
        BY <2>1, <3>1 DEF RequestRec
    <2>2. request' \in [Conns -> RequestRec]
      BY <1>1, <2>1, <2>4 DEF HandshakeTypeOK
    <2>3. HandshakeTypeOK'
      BY <1>1, <1>7, <2>2 DEF HandshakeTypeOK, ClientHandlesControl
    <2> QED
      BY <1>1, <1>7, <2>3, IDsKept DEF ClientHandlesControl
  <1>8. CASE ServerHandlesData(c)
    <2>1. request' \in [Conns -> RequestRec]
      BY <1>1, <1>8 DEF HandshakeTypeOK, ServerHandlesData, RequestRec, dataRoute
    <2>2. HandshakeTypeOK'
      BY <1>1, <1>8, <2>1 DEF HandshakeTypeOK, ServerHandlesData
    <2> QED
      BY <1>1, <1>8, <2>2, IDsKept DEF ServerHandlesData
  <1> QED
    BY <1>2, <1>3, <1>4, <1>5, <1>6, <1>7, <1>8

(* Connect, but for the discovery, and how connections end. *)
LEMMA ClientKeeps ==
  ASSUME HandshakeIInv, NEW c \in Conns,
         \/ ClientRuns(c) \/ ClientSubscribed(c) \/ ClientEstablished(c)
         \/ ClientFails(c) \/ CallerCancels(c) \/ RunSessionCloses(c)
         \/ ClientCloses(c) \/ ConnLost(c)
  PROVE  HandshakeIInv'
  <1>1. HandshakeTypeOK
    BY DEF HandshakeIInv
  <1>2. CASE ClientRuns(c)
    <2>1. client' \in [Conns -> ClientRec]
      BY <1>1, <1>2 DEF HandshakeTypeOK, ClientRuns, ClientRec
    <2>2. request' = [request EXCEPT ![c].fetch = "sent"]
      BY <1>2 DEF ClientRuns
    <2>3. request' \in [Conns -> RequestRec]
      BY <1>1, <2>2 DEF HandshakeTypeOK, RequestRec
    <2>4. HandshakeTypeOK'
      BY <1>1, <1>2, <2>1, <2>3 DEF HandshakeTypeOK, ClientRuns
    <2> QED
      BY <1>1, <1>2, <2>4, IDsKept DEF HandshakeTypeOK, ClientRec, RequestRec, ClientRuns
  <1>3. CASE ClientSubscribed(c)
    <2>1. client' \in [Conns -> ClientRec]
      BY <1>1, <1>3 DEF HandshakeTypeOK, ClientSubscribed, ClientRec
    <2>2. transport' \in [session : Conns \union {NoSession}, sessionID : KnownID]
      BY <1>1, <1>3 DEF HandshakeTypeOK, ClientSubscribed
    <2>3. HandshakeTypeOK'
      BY <1>1, <1>3, <2>1, <2>2 DEF HandshakeTypeOK, ClientSubscribed
    <2> QED
      BY <1>1, <1>3, <2>3, IDsKept DEF HandshakeTypeOK, ClientRec, ClientSubscribed
  <1>4. CASE ClientEstablished(c)
    <2>1. client' \in [Conns -> ClientRec]
      BY <1>1, <1>4 DEF HandshakeTypeOK, ClientEstablished, ClientRec
    <2>2. transport' \in [session : Conns \union {NoSession}, sessionID : KnownID]
      BY <1>1, <1>4 DEF HandshakeTypeOK, ClientEstablished, ClientRec
    <2>3. HandshakeTypeOK'
      BY <1>1, <1>4, <2>1, <2>2 DEF HandshakeTypeOK, ClientEstablished
    <2> QED
      BY <1>1, <1>4, <2>3, IDsKept DEF HandshakeTypeOK, ClientRec, ClientEstablished
  <1>5. CASE ClientFails(c)
    <2>1. client' \in [Conns -> ClientRec]
      BY <1>1, <1>5 DEF HandshakeTypeOK, ClientFails, ClientRec
    <2>2. HandshakeTypeOK'
      BY <1>1, <1>5, <2>1 DEF HandshakeTypeOK, ClientFails
    <2> QED
      BY <1>1, <1>5, <2>2, IDsKept DEF HandshakeTypeOK, ClientRec, ClientFails
  <1>6. CASE CallerCancels(c)
    <2>1. client' \in [Conns -> ClientRec]
      BY <1>1, <1>6, ZenonT(60) DEF HandshakeTypeOK, CallerCancels, ClientRec
    <2>2. HandshakeTypeOK'
      BY <1>1, <1>6, <2>1 DEF HandshakeTypeOK, CallerCancels
    <2> QED
      BY <1>1, <1>6, <2>2, IDsKept DEF HandshakeTypeOK, ClientRec, CallerCancels
  <1>7. CASE RunSessionCloses(c)
    <2>1. up' \in [Conns -> BOOLEAN]
      BY <1>1, <1>7 DEF HandshakeTypeOK, RunSessionCloses
    <2>2. HandshakeTypeOK'
      BY <1>1, <1>7, <2>1 DEF HandshakeTypeOK, RunSessionCloses
    <2> QED
      BY <1>1, <1>7, <2>2, IDsKept DEF HandshakeTypeOK, RunSessionCloses
  <1>8. CASE ClientCloses(c)
    <2>1. client' \in [Conns -> ClientRec]
      BY <1>1, <1>8 DEF HandshakeTypeOK, ClientCloses, ClientRec
    <2>2. up' \in [Conns -> BOOLEAN]
      BY <1>1, <1>8 DEF HandshakeTypeOK, ClientCloses
    <2>3. transport' \in [session : Conns \union {NoSession}, sessionID : KnownID]
      BY <1>1, <1>8 DEF HandshakeTypeOK, ClientCloses
    <2>4. HandshakeTypeOK'
      BY <1>1, <1>8, <2>1, <2>2, <2>3 DEF HandshakeTypeOK, ClientCloses
    <2> QED
      BY <1>1, <1>8, <2>4, IDsKept DEF HandshakeTypeOK, ClientRec, ClientCloses
  <1>9. CASE ConnLost(c)
    <2>1. up' \in [Conns -> BOOLEAN]
      BY <1>1, <1>9 DEF HandshakeTypeOK, ConnLost
    <2>2. HandshakeTypeOK'
      BY <1>1, <1>9, <2>1 DEF HandshakeTypeOK, ConnLost
    <2> QED
      BY <1>1, <1>9, <2>2, IDsKept DEF HandshakeTypeOK, ConnLost
  <1> QED
    BY <1>2, <1>3, <1>4, <1>5, <1>6, <1>7, <1>8, <1>9

(* A session's id is new: it is neither another session's, nor does any    *)
(* client know it.                                                         *)
LEMMA ServerRunsKeeps ==
  ASSUME HandshakeIInv, NEW c \in Conns, ServerRuns(c) PROVE HandshakeIInv'
  <1>1. HandshakeTypeOK /\ OwnIDs /\ \A d \in Conns : SessionOK(d)
    BY DEF HandshakeIInv
  <1>2. server' \in [Conns -> ServerRec]
    BY <1>1 DEF HandshakeTypeOK, ServerRuns, ServerRec, KnownID, generateSessionID
  <1>3. request' \in [Conns -> RequestRec]
    BY <1>1 DEF HandshakeTypeOK, ServerRuns, RequestRec
  <1>4. HandshakeTypeOK'
    BY <1>1, <1>2, <1>3 DEF HandshakeTypeOK, ServerRuns
  <1>5. PICK id \in SessionIDs \ UsedIDs :
           server' = [server EXCEPT ![c] = [pc |-> "subscribing", id |-> id]]
    BY DEF ServerRuns, generateSessionID
  <1>6. /\ server'[c].id = id /\ server'[c].pc = "subscribing"
        /\ \A d \in Conns \ {c} : server'[d] = server[d]
        /\ \A d \in Conns : server[d].id # id
        /\ server[c].pc = "new" /\ UNCHANGED client
    BY <1>1, <1>5 DEF HandshakeTypeOK, UsedIDs, ServerRuns
  <1>7. OwnIDs'
    BY <1>1, <1>6 DEF OwnIDs
  <1>8. \A d \in Conns : SessionOK(d)'
    BY <1>1, <1>6 DEF SessionOK
  <1> QED
    BY <1>4, <1>7, <1>8 DEF HandshakeIInv

(* The id comes from the discovery handler of the same connection. *)
LEMMA ClientDiscoversKeeps ==
  ASSUME HandshakeIInv, NEW c \in Conns, ClientDiscovers(c) PROVE HandshakeIInv'
  <1>1. HandshakeTypeOK /\ OwnIDs /\ \A d \in Conns : SessionOK(d)
    BY DEF HandshakeIInv
  <1>2. client' \in [Conns -> ClientRec]
    <2>1. server[c].id \in KnownID
      BY <1>1 DEF HandshakeTypeOK, ServerRec
    <2>2. client[c] \in ClientRec /\ client \in [Conns -> ClientRec]
      BY <1>1 DEF HandshakeTypeOK
    <2>3. [client[c] EXCEPT !.pc = "subscribing", !.id = server[c].id] \in ClientRec
      BY <2>1, <2>2 DEF ClientRec
    <2> QED
      BY <2>2, <2>3 DEF ClientDiscovers
  <1>3. request' \in [Conns -> RequestRec]
    BY <1>1 DEF HandshakeTypeOK, ClientDiscovers, RequestRec
  <1>4. HandshakeTypeOK'
    BY <1>1, <1>2, <1>3 DEF HandshakeTypeOK, ClientDiscovers
  <1>5. OwnIDs'
    BY <1>1 DEF OwnIDs, ClientDiscovers
  <1>6. /\ client'[c].id \in {client[c].id, server[c].id}
        /\ client'[c].handlerID = client[c].handlerID
        /\ \A d \in Conns \ {c} : client'[d] = client[d]
    BY <1>1 DEF HandshakeTypeOK, ClientRec, RequestRec, ClientDiscovers
  <1>7. \A d \in Conns : SessionOK(d)'
    BY <1>1, <1>6 DEF SessionOK, ClientDiscovers
  <1> QED
    BY <1>4, <1>5, <1>7 DEF HandshakeIInv

(* The client's subscribeHandler adopts the id of the SUBSCRIBE it accepts. *)
LEMMA ClientSetsSlotKeeps ==
  ASSUME HandshakeIInv, NEW c \in Conns, ClientSetsSlot(c) PROVE HandshakeIInv'
  <1>1. HandshakeTypeOK /\ OwnIDs /\ \A d \in Conns : SessionOK(d)
    BY DEF HandshakeIInv
  <1>2. client' \in [Conns -> ClientRec]
    BY <1>1, SMTT(20) DEF HandshakeTypeOK, ClientSetsSlot, ClientRec, ServerRec
  <1>3. slot' \in [Conns -> SUBSET Ends]
    BY <1>1 DEF HandshakeTypeOK, ClientSetsSlot, Ends
  <1>4. HandshakeTypeOK'
    BY <1>1, <1>2, <1>3 DEF HandshakeTypeOK, ClientSetsSlot
  <1>5. OwnIDs'
    BY <1>1 DEF OwnIDs, ClientSetsSlot
  <1>6. /\ client'[c].handlerID \in {client[c].handlerID, server[c].id}
        /\ client'[c].id = client[c].id
        /\ \A d \in Conns \ {c} : client'[d] = client[d]
    BY <1>1 DEF HandshakeTypeOK, ClientRec, RequestRec, ClientSetsSlot
  <1>7. \A d \in Conns : SessionOK(d)'
    BY <1>1, <1>6 DEF SessionOK, ClientSetsSlot
  <1> QED
    BY <1>4, <1>5, <1>7 DEF HandshakeIInv

(* SubscribeDataTrack sends a SUBSCRIBE with whatever id it has read, or   *)
(* panics: the ids of both ends stay.                                      *)
LEMMA AttachKeeps ==
  ASSUME HandshakeIInv, AttachStarts \/ AttachSubscribes \/ AttachPanics
  PROVE  HandshakeIInv'
  <1>1. HandshakeTypeOK
    BY DEF HandshakeIInv
  <1>2. attach' \in [pc : {"idle", "checked", "attached", "panicked"}, id : KnownID]
    BY <1>1 DEF HandshakeTypeOK, AttachStarts, AttachSubscribes, AttachPanics
  <1>3. CASE AttachStarts \/ AttachPanics
    <2>1. HandshakeTypeOK'
      BY <1>1, <1>2, <1>3 DEF HandshakeTypeOK, AttachStarts, AttachPanics
    <2> QED
      BY <1>3, <2>1, IDsKept DEF AttachStarts, AttachPanics
  <1>4. CASE AttachSubscribes
    <2>1. PICK c \in Conns : c = transport.session
      BY <1>1, <1>4 DEF HandshakeTypeOK, AttachSubscribes
    <2>2. attach.id \in KnownID
      BY <1>1 DEF HandshakeTypeOK
    <2>3. request[c] \in RequestRec /\ request \in [Conns -> RequestRec]
      BY <1>1 DEF HandshakeTypeOK
    <2>4. [request[c] EXCEPT !.data = "sent", !.dataID = attach.id] \in RequestRec
      BY <2>2, <2>3 DEF RequestRec
    <2>5. request' \in [Conns -> RequestRec]
      BY <1>4, <2>1, <2>3, <2>4 DEF AttachSubscribes
    <2>6. HandshakeTypeOK'
      BY <1>1, <1>2, <1>4, <2>5 DEF HandshakeTypeOK, AttachSubscribes
    <2> QED
      BY <1>4, <2>6, IDsKept DEF AttachSubscribes
  <1> QED
    BY <1>3, <1>4

-------------------------------------------------------------------------------
(* Every step keeps the invariant. *)
LEMMA HandshakeInvariantNext == HandshakeIInv /\ [HandshakeNext]_hsVars => HandshakeIInv'
  <1> SUFFICES ASSUME HandshakeIInv, [HandshakeNext]_hsVars PROVE HandshakeIInv'
    OBVIOUS
  <1>1. CASE UNCHANGED hsVars
    <2>1. HandshakeTypeOK'
      BY <1>1 DEF HandshakeIInv, HandshakeTypeOK, hsVars
    <2> QED
      BY <1>1, <2>1, IDsKept DEF hsVars
  <1>2. ASSUME NEW c \in Conns, ServerStep(c) \/ ServerFails(c) \/ Handlers(c) \/ SetsSlot(c)
        PROVE  HandshakeIInv'
    BY <1>2, ServerKeeps, ServerRunsKeeps, ClientSetsSlotKeeps
    DEF ServerStep, Handlers, SetsSlot
  <1>3. ASSUME NEW c \in Conns,
               \/ ClientRuns(c) \/ ClientStep(c) \/ CallerCancels(c)
               \/ RunSessionCloses(c) \/ ClientCloses(c) \/ ConnLost(c)
        PROVE  HandshakeIInv'
    BY <1>3, ClientKeeps, ClientDiscoversKeeps DEF ClientStep
  <1> QED
    BY <1>1, <1>2, <1>3, AttachKeeps DEF HandshakeNext

(* HandshakeIInv is an invariant of the handshake. *)
LEMMA HandshakeInvariant == HandshakeSpec => []HandshakeIInv
  BY HandshakeInvariantInit, HandshakeInvariantNext, PTL DEF HandshakeSpec

(* Every variable of the handshake has its type. *)
THEOREM HandshakeTypes == HandshakeSpec => []HandshakeTypeOK
  <1>1. HandshakeIInv => HandshakeTypeOK
    BY DEF HandshakeIInv
  <1> QED
    BY <1>1, HandshakeInvariant, PTL

(* Connections never share a session, however many handshakes of one       *)
(* client transport overlap, fail or are cancelled.                        *)
THEOREM OneSession == HandshakeSpec => []OneSessionPerConnection
  <1>1. HandshakeIInv => OneSessionPerConnection
    BY DEF HandshakeIInv, SessionOK, OwnIDs, OneSessionPerConnection
  <1> QED
    BY <1>1, HandshakeInvariant, PTL
===============================================================================
