------------------------------ MODULE ControlAcks ------------------------------
(***************************************************************************)
(* How a control connection (pkg/moqttransport/control_conn.go) uses its   *)
(* acknowledgment tracker.  Write tracks every message that has a JSON-RPC *)
(* id once the track writer has put it on the wire, and starts a goroutine *)
(* that waits for the verdict or for the connection's done channel.  Read  *)
(* resolves the id of every response it receives.  Close closes done, then *)
(* the tracker.  The metrics both sides record are left out.               *)
(*                                                                         *)
(* A message is a request of this endpoint or its response to a request of *)
(* the peer.  Both endpoints number their requests on their own, so a      *)
(* request and a response may carry the same id: extractMessageID returns  *)
(* the bare id of either.                                                  *)
(***************************************************************************)
EXTENDS AckTracker

CONSTANT Messages     \* the messages given to Write

ASSUME MessagesAssumption ==
    Messages \subseteq [kind : {"request", "response"}, id : MessageID]

Request(id) == [kind |-> "request", id |-> id]
Response(id) == [kind |-> "response", id |-> id]

VARIABLES
    stage,        \* progress of the Write of each message
    trackedAs,    \* the handle Track returned for each message, or NoAck
    watcher,      \* the goroutine trackAckAsync started for each handle
    answered,     \* ids whose response has arrived: with a result
    refused,      \* ... or with an error
    reader,       \* Read: at the top of its loop, in ReadObject, or returned
    done          \* closed and done, set together under mu by Close

cvars == <<stage, trackedAs, watcher, answered, refused, reader, done>>
avars == <<tvars, cvars>>

AcksInit ==
    /\ TrackerInit
    /\ stage = [m \in Messages |-> "unsent"]
    /\ trackedAs = [m \in Messages |-> NoAck]
    /\ watcher = [a \in Acks |-> "none"]
    /\ answered = {} /\ refused = {}
    /\ reader = "top"
    /\ done = FALSE

-------------------------------------------------------------------------------
(* Mutations of handleInboundAck and WatcherDone. *)

InboundAckIgnoresError(id, ok) == Ack(id)

InboundAckForgets(id, ok) == UNCHANGED tvars

WatcherIgnoresDone(a) ==
    /\ FALSE
    /\ UNCHANGED avars

-------------------------------------------------------------------------------
(* Write passes the closed check.  A response is written once. *)
WriteStarts(m) ==
    /\ ~done
    /\ stage[m] = "unsent"
    /\ stage' = [stage EXCEPT ![m] = "writing"]
    /\ UNCHANGED <<tvars, trackedAs, watcher, answered, refused, reader, done>>

(* The track writer succeeds, or every attempt of the retry loop fails. *)
WriteReturns(m) ==
    /\ stage[m] = "writing"
    /\ \E r \in {"onwire", "failed"} : stage' = [stage EXCEPT ![m] = r]
    /\ UNCHANGED <<tvars, trackedAs, watcher, answered, refused, reader, done>>

(* trackAckAsync: Track and a watching goroutine. *)
trackAckAsync(m) ==
    /\ stage[m] = "onwire"
    /\ stage' = [stage EXCEPT ![m] = "tracked"]
    /\ Track(m.id)
    /\ trackedAs' = [trackedAs EXCEPT ![m] = nextAck + 1]
    /\ watcher' = [watcher EXCEPT ![nextAck + 1] = "waiting"]
    /\ UNCHANGED <<answered, refused, reader, done>>

(* The watching goroutine's select: a verdict is on the channel ... *)
WatcherReceives(a) ==
    /\ watcher[a] = "waiting"
    /\ verdict[a] # "none"
    /\ watcher' = [watcher EXCEPT ![a] = "gone"]
    /\ UNCHANGED <<tvars, stage, trackedAs, answered, refused, reader, done>>

(* ... or the connection is closed. *)
WatcherDone(a) ==
    /\ watcher[a] = "waiting"
    /\ done
    /\ watcher' = [watcher EXCEPT ![a] = "gone"]
    /\ UNCHANGED <<tvars, stage, trackedAs, answered, refused, reader, done>>

handleInboundAck(id, ok) == IF ok THEN Ack(id) ELSE Nack(id)

(* The top of Read's loop looks at done before it blocks in ReadObject. *)
ReadLoop ==
    /\ reader = "top"
    /\ reader' = IF done THEN "returned" ELSE "reading"
    /\ UNCHANGED <<tvars, stage, trackedAs, watcher, answered, refused, done>>

(* ReadObject returns the peer's response to a request it received. *)
InboundResponse(id, ok) ==
    /\ reader = "reading"
    /\ id \notin answered \union refused
    /\ Request(id) \in Messages
    /\ stage[Request(id)] \in {"onwire", "tracked"}
    /\ reader' = "top"
    /\ answered' = IF ok THEN answered \union {id} ELSE answered
    /\ refused' = IF ok THEN refused ELSE refused \union {id}
    /\ handleInboundAck(id, ok)
    /\ UNCHANGED <<stage, trackedAs, watcher, done>>

(* ReadObject fails, its context is cancelled (by Read's caller, or by     *)
(* Close), or what it returns does not decode.                             *)
ReadFails ==
    /\ reader = "reading"
    /\ reader' = "returned"
    /\ UNCHANGED <<tvars, stage, trackedAs, watcher, answered, refused, done>>

(* Close: closed and done first, the tracker's Close after it. *)
CloseDone ==
    /\ ~done
    /\ done' = TRUE
    /\ UNCHANGED <<tvars, stage, trackedAs, watcher, answered, refused, reader>>

CloseTracker ==
    /\ done
    /\ CloseFlag \/ CloseDrain
    /\ UNCHANGED cvars

TimerStep(a) ==
    /\ TimerFires(a) \/ timeoutAck(a)
    /\ UNCHANGED cvars

AcksNext ==
    \/ \E m \in Messages : WriteStarts(m) \/ WriteReturns(m) \/ trackAckAsync(m)
    \/ \E a \in Acks : WatcherReceives(a) \/ WatcherDone(a) \/ TimerStep(a)
    \/ \E id \in MessageID, ok \in BOOLEAN : InboundResponse(id, ok)
    \/ ReadLoop \/ ReadFails \/ CloseDone \/ CloseTracker

AcksSpec == AcksInit /\ [][AcksNext]_avars

(* Goroutines that can run do run, timers fire, a Close that has begun     *)
(* goes on.  No response, no further Write and no Close is promised.       *)
AcksFairness ==
    /\ \A m \in Messages : WF_avars(WriteReturns(m)) /\ WF_avars(trackAckAsync(m))
    /\ \A a \in Acks : /\ WF_avars(TimerStep(a))
                       /\ WF_avars(WatcherReceives(a) \/ WatcherDone(a))
    /\ WF_avars(ReadLoop) /\ WF_avars(CloseTracker)

FairAcksSpec == AcksSpec /\ AcksFairness

-------------------------------------------------------------------------------
(* Types of the state added to the tracker's. *)
AcksTypeOK ==
    /\ TrackerTypeOK
    /\ stage \in [Messages -> {"unsent", "writing", "onwire", "tracked", "failed"}]
    /\ trackedAs \in [Messages -> Acks \union {NoAck}]
    /\ watcher \in [Acks -> {"none", "waiting", "gone"}]
    /\ answered \subseteq MessageID /\ refused \subseteq MessageID
    /\ reader \in {"top", "reading", "returned"}
    /\ done \in BOOLEAN

(* An acked verdict is never made up: whichever entry handleInboundAck     *)
(* finds under the id, it says acked only if a response with that id and   *)
(* with a result has arrived, and no request the peer refused is ever      *)
(* reported as acknowledged.                                               *)
AckedWasAnswered ==
    \A a \in Acks : verdict[a] = "acked" => ackID[a] \in answered \ refused

(* Every watcher goroutine that is still there after Close is released:    *)
(* done alone is enough, whatever became of its tracker entry.             *)
WatchersExit ==
    \A a \in Acks : done ~> (watcher[a] # "waiting")

(* The answer to a request that Write has already tracked settles it, with *)
(* whatever Read's Ack or Nack found to be pending under the id: unless a  *)
(* response of this endpoint took the id, the request has its verdict.     *)
AnswerSettles ==
    [][\A m \in Messages :
         /\ m.kind = "request" /\ stage[m] = "tracked"
         /\ m.id \in (answered' \union refused') \ (answered \union refused)
         /\ Response(m.id) \in Messages => trackedAs[Response(m.id)] = NoAck
         => verdict'[trackedAs[m]] # "none"]_avars
===============================================================================
