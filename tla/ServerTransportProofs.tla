------------------------- MODULE ServerTransportProofs -------------------------
(***************************************************************************)
(* TLAPS proofs about ServerTransport, for any set of acceptors.           *)
(***************************************************************************)
EXTENDS ServerTransport, TLAPS

(* Close leaves the listener closed when it has passed it, and the metrics *)
(* server stopped when it has passed that: Listen opens neither any more.  *)
ListenerOK ==
    /\ srvClose \in {"metrics", "done"} => listener # "open"
    /\ srvClose = "done" => ~metricsOn

(* Where a session stands between its two registrations: it has handlers   *)
(* once its set-up has returned, and a control connection from before.     *)
RegisteredOK ==
    \A a \in Acceptors :
        /\ a \in sessionHandlers \union handlersClosed => acc[a] = "returned"
        /\ acc[a] \in {"register", "register2", "returned"} <=> ctl[a] # "none"
        /\ ctl[a] = "closing" => acc[a] = "returned"
        /\ a \in connections \union toClose => acc[a] \in {"register2", "returned"}

ServerIInv ==
    /\ ServerTypeOK
    /\ ListenerOK
    /\ RegisteredOK
    /\ UnregisteredIsClosed

-------------------------------------------------------------------------------
(* A new transport satisfies the invariant. *)
LEMMA ServerInitInv == ServerInit => ServerIInv
  BY DEF ServerInit, ServerIInv, ServerTypeOK, ListenerOK, RegisteredOK, UnregisteredIsClosed

(* Listen, up to the answer of Accept: no session is touched.              *)
LEMMA ListenInv ==
  ASSUME ServerIInv, NEW a \in Acceptors,
         \/ Listen(a) \/ Accept(a) \/ AcceptFails(a)
         \/ AcceptReturns(a) \/ AcceptCancelled(a)
  PROVE  ServerIInv'
  <1> USE DEF ServerIInv, Listen, Accept, AcceptFails, AcceptReturns, AcceptCancelled, sclosed
  <1>1. ServerTypeOK'
    BY DEF ServerTypeOK
  <1>2. ListenerOK'
    BY DEF ListenerOK, ServerTypeOK
  <1>3. RegisteredOK' /\ UnregisteredIsClosed'
    BY DEF RegisteredOK, UnregisteredIsClosed, ServerTypeOK
  <1> QED
    BY <1>1, <1>2, <1>3

(* The set-up of a connection and its two registrations. *)
LEMMA SetupInv ==
  ASSUME ServerIInv, NEW a \in Acceptors,
         SetupConnection(a) \/ RegisterConnection(a) \/ RegisterHandlers(a)
  PROVE  ServerIInv'
  <1> USE DEF ServerIInv, SetupConnection, RegisterConnection, RegisterHandlers
  <1>1. ServerTypeOK'
    BY DEF ServerTypeOK
  <1>2. ListenerOK'
    BY DEF ListenerOK
  <1>3. RegisteredOK' /\ UnregisteredIsClosed'
    BY DEF RegisteredOK, UnregisteredIsClosed, ServerTypeOK
  <1> QED
    BY <1>1, <1>2, <1>3

(* The closing of one connection: what it unregisters it goes on to close. *)
LEMMA OnCloseInv ==
  ASSUME ServerIInv, NEW a \in Acceptors, ControlCloses(a) \/ OnClose(a) \/ CloseEach(a)
  PROVE  ServerIInv'
  <1> USE DEF ServerIInv, ControlCloses, CloseEach,
              OnClose, OnCloseRemoves, OnCloseUnregisters, OnCloseClosesHandlers
  <1>1. ServerTypeOK'
    BY DEF ServerTypeOK
  <1>2. ListenerOK'
    BY DEF ListenerOK
  <1>3. RegisteredOK' /\ UnregisteredIsClosed'
    BY DEF RegisteredOK, UnregisteredIsClosed, ServerTypeOK
  <1> QED
    BY <1>1, <1>2, <1>3

(* The closing of the transport. *)
LEMMA CloseInv ==
  ASSUME ServerIInv,
         \/ CloseMark \/ CloseTakes \/ CloseSessions \/ CloseListener \/ CloseMetrics
  PROVE  ServerIInv'
  <1> USE DEF ServerIInv, CloseMark, CloseTakes, CloseSessions, CloseListener, CloseMetrics
  <1>1. ServerTypeOK'
    BY DEF ServerTypeOK
  <1>2. ListenerOK'
    BY DEF ListenerOK, ServerTypeOK
  <1>3. RegisteredOK' /\ UnregisteredIsClosed'
    BY DEF RegisteredOK, UnregisteredIsClosed
  <1> QED
    BY <1>1, <1>2, <1>3

(* Every step of the transport keeps the invariant. *)
LEMMA ServerStepInv == ServerIInv /\ [ServerNext]_svars => ServerIInv'
  <1> SUFFICES ASSUME ServerIInv, [ServerNext]_svars PROVE ServerIInv'
    OBVIOUS
  <1>1. CASE UNCHANGED svars
    BY <1>1 DEF svars, ServerIInv, ServerTypeOK, ListenerOK, RegisteredOK, UnregisteredIsClosed
  <1> QED
    BY <1>1, ListenInv, SetupInv, OnCloseInv, CloseInv
    DEF ServerNext, Setup, CloseServer

(* The inductive invariant holds throughout every behaviour. *)
THEOREM ServerInvariant == ServerSpec => []ServerIInv
  BY ServerInitInv, ServerStepInv, PTL DEF ServerSpec

-------------------------------------------------------------------------------
(* The state of the transport keeps its types. *)
THEOREM ServerTypes == ServerSpec => []ServerTypeOK
  <1>1. ServerIInv => ServerTypeOK
    BY DEF ServerIInv
  <1> QED
    BY <1>1, ServerInvariant, PTL

(* A Listen that races with Close leaves no listener and no metrics server *)
(* behind.                                                                 *)
THEOREM NoListenerLeft == ServerSpec => []ListenerGone
  <1>1. ServerIInv => ListenerGone
    BY DEF ServerIInv, ListenerOK, ListenerGone
  <1> QED
    BY <1>1, ServerInvariant, PTL

(* The data-track handlers of a session that was set up are registered,    *)
(* closed, or in the hands of the OnClose that unregistered them, whatever *)
(* Close does meanwhile.                                                   *)
THEOREM HandlersAttended == ServerSpec => []UnregisteredIsClosed
  <1>1. ServerIInv => UnregisteredIsClosed
    BY DEF ServerIInv
  <1> QED
    BY <1>1, ServerInvariant, PTL
===============================================================================
