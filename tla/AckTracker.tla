------------------------------ MODULE AckTracker ------------------------------
(***************************************************************************)
(* pkg/moqttransport/ack.go: the table of messages that wait for an        *)
(* acknowledgment.  A call of Track returns a channel of capacity one; the *)
(* model calls the a-th channel handed out "a" and keeps, for each, the    *)
(* message id it was tracked under, the number of messages sent on it, the *)
(* last status sent and the state of its time.AfterFunc timer.             *)
(*                                                                         *)
(* Every method holds mu for its whole body, so each is one step.  Two     *)
(* things happen outside mu and are steps of their own: the runtime starts *)
(* a timer's function before that function gets mu, and Close sets the     *)
(* closed flag by compare-and-swap before it gets mu.                      *)
(***************************************************************************)
EXTENDS Naturals

CONSTANTS
    MessageID,    \* ids callers track
    MaxTracks     \* bound: calls of Track in a behaviour

ASSUME TrackerAssumption == MaxTracks \in Nat

VARIABLES
    nextAck,      \* number of Track calls so far
    ackID,        \* the id each handle was tracked under
    pending,      \* t.pending: the handle waiting under each id, or NoAck
    timer,        \* pendingAck.timeout
    sent,         \* number of messages sent on each ackCh
    verdict,      \* status of the last message sent on each ackCh
    closePhase    \* Close: not called, flag set, pending drained

tvars == <<nextAck, ackID, pending, timer, sent, verdict, closePhase>>

Acks == 1..MaxTracks
NoAck == 0
NoID == "noid"

Tracked == 1..nextAck

(* A channel of capacity one, closed after its only send: a second send    *)
(* would block under mu or panic.                                          *)
SentOnce(a) == sent[a] <= 1

TrackerInit ==
    /\ nextAck = 0
    /\ ackID = [a \in Acks |-> NoID]
    /\ pending = [id \in MessageID |-> NoAck]
    /\ timer = [a \in Acks |-> "none"]
    /\ sent = [a \in Acks |-> 0]
    /\ verdict = [a \in Acks |-> "none"]
    /\ closePhase = "open"

-------------------------------------------------------------------------------
(* Mutations of Track, stopTimer, settle and CloseDrain used to show that  *)
(* the properties below can fail.                                          *)

TrackForgetsClosed(id) ==
    /\ nextAck < MaxTracks
    /\ nextAck' = nextAck + 1
    /\ ackID' = [ackID EXCEPT ![nextAck + 1] = id]
    /\ timer' = [timer EXCEPT ![nextAck + 1] = "armed"]
    /\ pending' = [pending EXCEPT ![id] = nextAck + 1]
    /\ UNCHANGED <<sent, verdict, closePhase>>

settleKeepsEntry(id, status) ==
    /\ sent' = [sent EXCEPT ![pending[id]] = @ + 1]
    /\ verdict' = [verdict EXCEPT ![pending[id]] = status]
    /\ UNCHANGED pending

settleWithoutStatus(id, status) ==
    /\ sent' = [sent EXCEPT ![pending[id]] = @ + 1]
    /\ verdict' = [verdict EXCEPT ![pending[id]] = "pending"]
    /\ pending' = [pending EXCEPT ![id] = NoAck]

TimerFiresWithoutRunning(a) ==
    /\ timer[a] = "armed"
    /\ timer' = [timer EXCEPT ![a] = "done"]
    /\ UNCHANGED <<nextAck, ackID, pending, sent, verdict, closePhase>>

timeoutAckOfNewest(a) ==
    /\ timer[a] = "firing"
    /\ timer' = [timer EXCEPT ![a] = "done"]
    /\ IF pending[ackID[nextAck]] = NoAck
         THEN UNCHANGED <<pending, sent, verdict>>
         ELSE /\ sent' = [sent EXCEPT ![pending[ackID[nextAck]]] = @ + 1]
              /\ verdict' = [verdict EXCEPT ![pending[ackID[nextAck]]] = "timeout"]
              /\ pending' = [pending EXCEPT ![ackID[nextAck]] = NoAck]
    /\ UNCHANGED <<nextAck, ackID, closePhase>>

-------------------------------------------------------------------------------
(* timeout.Stop(): no effect once the timer's function has been started. *)
stopTimer(a) == [timer EXCEPT ![a] = IF @ = "armed" THEN "stopped" ELSE @]

(* Send the status to the waiting channel, close it, forget the entry. *)
settle(id, status) ==
    /\ sent' = [sent EXCEPT ![pending[id]] = @ + 1]
    /\ verdict' = [verdict EXCEPT ![pending[id]] = status]
    /\ pending' = [pending EXCEPT ![id] = NoAck]

(* Track on a closed tracker: the returned channel already holds a nack. *)
TrackRefused(id) ==
    /\ sent' = [sent EXCEPT ![nextAck + 1] = 1]
    /\ verdict' = [verdict EXCEPT ![nextAck + 1] = "nacked"]
    /\ UNCHANGED <<pending, timer>>

(* Track on an open tracker: an older entry under the same id is replaced, *)
(* its timer is left running and nothing is sent on its channel.           *)
TrackPending(id) ==
    /\ timer' = [timer EXCEPT ![nextAck + 1] = "armed"]
    /\ pending' = [pending EXCEPT ![id] = nextAck + 1]
    /\ UNCHANGED <<sent, verdict>>

Track(id) ==
    /\ nextAck < MaxTracks
    /\ nextAck' = nextAck + 1
    /\ ackID' = [ackID EXCEPT ![nextAck + 1] = id]
    /\ IF closePhase # "open" THEN TrackRefused(id) ELSE TrackPending(id)
    /\ UNCHANGED closePhase

(* Ack and Nack: an unknown id is ignored. *)
Resolve(id, status) ==
    IF pending[id] = NoAck
      THEN UNCHANGED tvars
      ELSE /\ timer' = stopTimer(pending[id])
           /\ settle(id, status)
           /\ UNCHANGED <<nextAck, ackID, closePhase>>

Ack(id) == Resolve(id, "acked")

Nack(id) == Resolve(id, "nacked")

(* The runtime starts the AfterFunc function in its own goroutine. *)
TimerFires(a) ==
    /\ timer[a] = "armed"
    /\ timer' = [timer EXCEPT ![a] = "firing"]
    /\ UNCHANGED <<nextAck, ackID, pending, sent, verdict, closePhase>>

(* That goroutine gets mu.  It looks its message up by id, so what it      *)
(* settles is whatever is pending under the id by then.                    *)
timeoutAck(a) ==
    /\ timer[a] = "firing"
    /\ timer' = [timer EXCEPT ![a] = "done"]
    /\ IF pending[ackID[a]] = NoAck
         THEN UNCHANGED <<pending, sent, verdict>>
         ELSE settle(ackID[a], "timeout")
    /\ UNCHANGED <<nextAck, ackID, closePhase>>

(* Close, first half: only one caller wins the compare-and-swap. *)
CloseFlag ==
    /\ closePhase = "open"
    /\ closePhase' = "draining"
    /\ UNCHANGED <<nextAck, ackID, pending, timer, sent, verdict>>

Waiting == {a \in Acks : \E id \in MessageID : pending[id] = a}

(* Close, second half, under mu: every waiting channel is nacked. *)
CloseDrain ==
    /\ closePhase = "draining"
    /\ closePhase' = "drained"
    /\ timer' = [a \in Acks |-> IF a \in Waiting /\ timer[a] = "armed"
                                  THEN "stopped" ELSE timer[a]]
    /\ sent' = [a \in Acks |-> IF a \in Waiting THEN sent[a] + 1 ELSE sent[a]]
    /\ verdict' = [a \in Acks |-> IF a \in Waiting THEN "nacked" ELSE verdict[a]]
    /\ pending' = [id \in MessageID |-> NoAck]
    /\ UNCHANGED <<nextAck, ackID>>

TrackerNext ==
    \/ \E id \in MessageID : Track(id) \/ Ack(id) \/ Nack(id)
    \/ \E a \in Acks : TimerFires(a) \/ timeoutAck(a)
    \/ CloseFlag \/ CloseDrain

TrackerSpec == TrackerInit /\ [][TrackerNext]_tvars

(* The runtime fires timers and schedules their goroutines, and a caller   *)
(* inside Close gets mu.  Nobody is obliged to call Track, Ack or Close.   *)
TrackerFairness ==
    /\ \A a \in Acks : WF_tvars(TimerFires(a)) /\ WF_tvars(timeoutAck(a))
    /\ WF_tvars(CloseDrain)

FairTrackerSpec == TrackerSpec /\ TrackerFairness

-------------------------------------------------------------------------------
(* Types of the tracker's state. *)
TrackerTypeOK ==
    /\ nextAck \in 0..MaxTracks
    /\ ackID \in [Acks -> MessageID \union {NoID}]
    /\ pending \in [MessageID -> Acks \union {NoAck}]
    /\ timer \in [Acks -> {"none", "armed", "firing", "stopped", "done"}]
    /\ sent \in [Acks -> Nat]
    /\ verdict \in [Acks -> {"none", "acked", "nacked", "timeout"}]
    /\ closePhase \in {"open", "draining", "drained"}

(* No channel is sent to twice: however Ack, Nack, a timer that has        *)
(* already fired, and Close race for the same message, and even when an id *)
(* is tracked again, only one of them finds the entry (a second send would *)
(* block under mu for ever, or panic on the closed channel).               *)
AtMostOneVerdict == \A a \in Acks : SentOnce(a)

(* a is the newest handle of its id, so Track has not replaced its entry. *)
Newest(a) == \A b \in Tracked : b > a => ackID[b] # ackID[a]

(* a's id was tracked once only. *)
OnlyUse(a) == \A b \in Tracked : ackID[b] = ackID[a] => b = a

(* Once Close has returned nobody is left waiting: every channel whose     *)
(* entry was not replaced has its verdict, and this includes channels      *)
(* handed out by a Track that raced with Close between the flag and the    *)
(* drain.  No timer is left running for an id tracked once (with an id     *)
(* tracked twice the older timer may settle the newer entry, whose own     *)
(* timer then is never stopped).                                           *)
ClosedSettles ==
    closePhase = "drained" =>
        \A a \in Tracked : Newest(a) => /\ verdict[a] # "none"
                                        /\ OnlyUse(a) => timer[a] # "armed"

(* A timeout verdict has a cause: a timer that has run, armed under the    *)
(* same id for this message or an earlier one.  timeoutAck finds its       *)
(* message by id, so with an id tracked once the timer is the message's    *)
(* own; no timer ever settles a message tracked before it was armed.       *)
TimeoutIsOwn ==
    \A a \in Tracked : verdict[a] = "timeout" =>
        \E b \in Tracked : b <= a /\ ackID[b] = ackID[a] /\ timer[b] = "done"

(* The tracker implements its promise: handles get one final verdict, and  *)
(* only Close settles several at once.                                     *)
P == INSTANCE AckPromise WITH Handles <- Acks, promised <- Tracked

PromiseKept == P!PSpec

(* Every tracked message gets a verdict, by its timer if by nothing else,  *)
(* unless its entry is replaced by a later Track of the same id.           *)
EveryTrackSettles ==
    \A a \in Acks : (a \in Tracked) ~> (verdict[a] # "none" \/ ~Newest(a))
===============================================================================
