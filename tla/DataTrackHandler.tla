--------------------------- MODULE DataTrackHandler ---------------------------
(***************************************************************************)
(* One data track of a DataTrackHandler                                    *)
(* (pkg/moqttransport/data_track_handler.go): publishers registered by     *)
(* HandleSubscribe, subscribers registered by Subscribe or StreamMessages, *)
(* the receive loops that dispatch to them, and Close.  Tracks of one      *)
(* handler share only mu and the closed flag, so one name is enough.       *)
(*                                                                         *)
(* Every method tests closed before it takes mu; a step is one critical    *)
(* section, one select or one blocking call.  Subscribers, loops and       *)
(* publishers are numbered in the order in which they turn up.             *)
(***************************************************************************)
EXTENDS Naturals

CONSTANTS
    MaxSubs,      \* bound: registrations of a subscriber in a behaviour
    MaxLoops,     \* bound: remote tracks attached, and so receive loops
    MaxPubs,      \* bound: accepted subscriptions of the peer
    ChanCap       \* capacity of msgCh

ASSUME TrackAssumption ==
    /\ MaxSubs \in Nat /\ MaxLoops \in Nat /\ MaxPubs \in Nat
    /\ ChanCap \in Nat \ {0}

VARIABLES
    subs,         \* dataTrackSubscriber: its registration, ctx, reader, and
                  \* for StreamMessages its channel and goroutine
    current,      \* h.subscribers[trackName], or None
    loops,        \* receiveLoop: where it is, the subscriber whose context it
                  \* has, the subscriber HandleData found, its reader
    pubs,         \* TrackWriter of each accepted subscription
    curPub,       \* h.publishers[trackName], or None
    hclose,       \* Close: not called, done closed, drained
    panicked      \* a send on a closed channel has ended the process

hvars == <<subs, current, loops, pubs, curPub, hclose, panicked>>

None == 0
Subs == 1..MaxSubs
Loops == 1..MaxLoops
Pubs == 1..MaxPubs

hclosed == hclose # "open"

HandlerInit ==
    /\ subs = [s \in Subs |-> [state |-> "unused", kind |-> "func", ctxDone |-> FALSE,
                               reader |-> None, queued |-> 0, chClosed |-> FALSE]]
    /\ current = None
    /\ loops = [l \in Loops |-> [pc |-> "unused", sub |-> None, target |-> None,
                                 readerClosed |-> FALSE]]
    /\ pubs = [p \in Pubs |-> "unused"]
    /\ curPub = None
    /\ hclose = "open"
    /\ panicked = FALSE

-------------------------------------------------------------------------------
(* Mutations used to show that the properties can fail. *)

insertKeepsPrevious(s) ==
    [subs EXCEPT ![s].state = "registered"]

acceptKeepsPrevious(p) == [pubs EXCEPT ![p] = "open"]

loopIgnoresDone(l) == FALSE

-------------------------------------------------------------------------------
(* Close the reader of a receive loop; its Read returns an error. *)
closeReader(l) ==
    [loops EXCEPT ![l].readerClosed = TRUE]

closeReaderOf(s) == IF subs[s].reader = None THEN loops ELSE closeReader(subs[s].reader)

(* Subscribe and StreamMessages: past the closed check ... *)
SubscribeStarts(s, kind) ==
    /\ ~hclosed
    /\ subs[s].state = "unused"
    /\ \A r \in 1..s - 1 : subs[r].state # "unused"
    /\ subs' = [subs EXCEPT ![s] = [@ EXCEPT !.state = "joining", !.kind = kind]]
    /\ UNCHANGED <<current, loops, pubs, curPub, hclose, panicked>>

(* ... a subscriber that is there is cancelled and replaced; its reader is *)
(* left to its receive loop.                                               *)
insertSubscriber(s) ==
    IF current = None
      THEN [subs EXCEPT ![s].state = "registered"]
      ELSE [subs EXCEPT ![s].state = "registered", ![current].ctxDone = TRUE]

(* ... then, under mu. *)
SubscribeLocked(s) ==
    /\ subs[s].state = "joining"
    /\ subs' = insertSubscriber(s)
    /\ current' = s
    /\ UNCHANGED <<loops, pubs, curPub, hclose, panicked>>

Unsubscribe ==
    /\ current # None
    /\ subs' = [subs EXCEPT ![current].ctxDone = TRUE]
    /\ loops' = closeReaderOf(current)
    /\ current' = None
    /\ UNCHANGED <<pubs, curPub, hclose, panicked>>

(* The caller of Subscribe or StreamMessages cancels its context. *)
CallerCancels(s) ==
    /\ subs[s].state \in {"joining", "registered"}
    /\ ~subs[s].ctxDone
    /\ subs' = [subs EXCEPT ![s].ctxDone = TRUE]
    /\ UNCHANGED <<current, loops, pubs, curPub, hclose, panicked>>

(* The goroutine of StreamMessages wakes up and takes mu ... *)
StreamEnds(s) ==
    /\ subs[s].kind = "stream" /\ subs[s].state = "registered"
    /\ subs[s].ctxDone
    /\ subs' = [subs EXCEPT ![s].state = "closing"]
    /\ loops' = IF current = s THEN closeReaderOf(s) ELSE loops
    /\ current' = IF current = s THEN None ELSE current
    /\ UNCHANGED <<pubs, curPub, hclose, panicked>>

closeChannels(s) == [subs EXCEPT ![s] = [@ EXCEPT !.state = "over", !.chClosed = TRUE]]

(* ... then closes the channels, without mu. *)
StreamCloses(s) ==
    /\ subs[s].state = "closing"
    /\ subs' = closeChannels(s)
    /\ UNCHANGED <<current, loops, pubs, curPub, hclose, panicked>>

(* The consumer of msgCh. *)
StreamReceives(s) ==
    /\ subs[s].queued > 0
    /\ subs' = [subs EXCEPT ![s].queued = @ - 1]
    /\ UNCHANGED <<current, loops, pubs, curPub, hclose, panicked>>

-------------------------------------------------------------------------------
(* HandleRemoteTrack: past the closed check ... *)
AttachStarts(l) ==
    /\ ~hclosed
    /\ loops[l].pc = "unused"
    /\ \A m \in 1..l - 1 : loops[m].pc # "unused"
    /\ loops' = [loops EXCEPT ![l].pc = "attaching"]
    /\ UNCHANGED <<subs, current, pubs, curPub, hclose, panicked>>

(* ... under mu: the reader replaces the subscriber's old one, and the     *)
(* receive loop starts.  Without a subscriber the reader is closed.        *)
AttachLocked(l) ==
    /\ loops[l].pc = "attaching"
    /\ IF current = None
         THEN /\ loops' = [loops EXCEPT ![l] =
                              [@ EXCEPT !.pc = "exited", !.readerClosed = TRUE]]
              /\ UNCHANGED subs
         ELSE /\ loops' = [closeReaderOf(current) EXCEPT ![l] =
                              [@ EXCEPT !.pc = "top", !.sub = current]]
              /\ subs' = [subs EXCEPT ![current].reader = l]
    /\ UNCHANGED <<current, pubs, curPub, hclose, panicked>>

loopDone(l) == subs[loops[l].sub].ctxDone \/ hclosed

exitLoop(l) == [loops EXCEPT ![l] = [@ EXCEPT !.pc = "exited", !.readerClosed = TRUE]]

(* receiveLoop: the select at the top, and TrackReader.Read's own checks. *)
LoopTop(l) ==
    /\ loops[l].pc = "top"
    /\ loops' = IF loopDone(l) \/ loops[l].readerClosed
                  THEN exitLoop(l) ELSE [loops EXCEPT ![l].pc = "reading"]
    /\ UNCHANGED <<subs, current, pubs, curPub, hclose, panicked>>

(* ReadObject returns an object ... *)
LoopReads(l) ==
    /\ loops[l].pc = "reading"
    /\ loops' = [loops EXCEPT ![l].pc = "got"]
    /\ UNCHANGED <<subs, current, pubs, curPub, hclose, panicked>>

(* ... or fails: its context is done or its track was closed. *)
LoopReadFails(l) ==
    /\ loops[l].pc = "reading"
    /\ subs[loops[l].sub].ctxDone \/ loops[l].readerClosed
    /\ loops' = exitLoop(l)
    /\ UNCHANGED <<subs, current, pubs, curPub, hclose, panicked>>

(* The peer ends the track, or the session is gone. *)
TrackEnds(l) ==
    /\ loops[l].pc = "reading"
    /\ loops' = exitLoop(l)
    /\ UNCHANGED <<subs, current, pubs, curPub, hclose, panicked>>

(* HandleData: the closed flag ... *)
LoopChecks(l) ==
    /\ loops[l].pc = "got"
    /\ loops' = IF hclosed THEN exitLoop(l) ELSE [loops EXCEPT ![l].pc = "checked"]
    /\ UNCHANGED <<subs, current, pubs, curPub, hclose, panicked>>

(* ... then, under mu, the subscriber of that name, whoever it is now ... *)
LoopLooksUp(l) ==
    /\ loops[l].pc = "checked"
    /\ loops' = IF current = None
                  THEN exitLoop(l)
                  ELSE [loops EXCEPT ![l] = [@ EXCEPT !.pc = "found", !.target = current]]
    /\ UNCHANGED <<subs, current, pubs, curPub, hclose, panicked>>

(* ... unless the message is too large, before the look-up, or does not    *)
(* decode, after it ...                                                    *)
BadMessage(l) ==
    /\ loops[l].pc \in {"checked", "found"}
    /\ loops' = exitLoop(l)
    /\ UNCHANGED <<subs, current, pubs, curPub, hclose, panicked>>

(* ... the select on the subscriber's context, without mu ... *)
LoopDispatches(l) ==
    /\ loops[l].pc = "found"
    /\ loops' = IF subs[loops[l].target].ctxDone
                  THEN exitLoop(l) ELSE [loops EXCEPT ![l].pc = "calling"]
    /\ UNCHANGED <<subs, current, pubs, curPub, hclose, panicked>>

(* ... and the call of the handler: the subscriber may have been cancelled *)
(* and its channel closed since.                                           *)
LoopCalls(l) ==
    /\ loops[l].pc = "calling"
    /\ loops' = [loops EXCEPT ![l].pc = "handler"]
    /\ UNCHANGED <<subs, current, pubs, curPub, hclose, panicked>>

(* A handler given to Subscribe returns, with or without an error. *)
HandlerReturns(l) ==
    /\ loops[l].pc = "handler"
    /\ subs[loops[l].target].kind = "func"
    /\ \E ok \in BOOLEAN :
         loops' = IF ok THEN [loops EXCEPT ![l] = [@ EXCEPT !.pc = "top", !.target = None]]
                        ELSE exitLoop(l)
    /\ UNCHANGED <<subs, current, pubs, curPub, hclose, panicked>>

(* The handler of StreamMessages selects between its context ... *)
StreamHandlerCancelled(l) ==
    /\ loops[l].pc = "handler"
    /\ subs[loops[l].target].kind = "stream"
    /\ subs[loops[l].target].ctxDone
    /\ loops' = exitLoop(l)
    /\ UNCHANGED <<subs, current, pubs, curPub, hclose, panicked>>

(* ... and the send, which is ready when there is room or when the channel *)
(* is closed; in the second case it panics.                                *)
StreamHandlerSends(l) ==
    LET s == loops[l].target
    IN /\ loops[l].pc = "handler"
       /\ subs[s].kind = "stream"
       /\ subs[s].chClosed \/ subs[s].queued < ChanCap
       /\ panicked' = (panicked \/ subs[s].chClosed)
       /\ subs' = IF subs[s].chClosed THEN subs ELSE [subs EXCEPT ![s].queued = @ + 1]
       /\ loops' = [loops EXCEPT ![l] = [@ EXCEPT !.pc = "top", !.target = None]]
       /\ UNCHANGED <<current, pubs, curPub, hclose>>

ReceiveLoop(l) ==
    \/ AttachLocked(l) \/ LoopTop(l) \/ LoopReadFails(l) \/ LoopChecks(l)
    \/ LoopLooksUp(l) \/ LoopDispatches(l) \/ LoopCalls(l) \/ HandlerReturns(l)
    \/ StreamHandlerCancelled(l) \/ StreamHandlerSends(l)

-------------------------------------------------------------------------------
(* HandleSubscribe: past the closed check and accepted ... *)
PeerSubscribes(p) ==
    /\ ~hclosed
    /\ pubs[p] = "unused"
    /\ \A q \in 1..p - 1 : pubs[q] # "unused"
    /\ pubs' = [pubs EXCEPT ![p] = "accepted"]
    /\ UNCHANGED <<subs, current, loops, curPub, hclose, panicked>>

acceptPublisher(p) ==
    IF curPub = None THEN [pubs EXCEPT ![p] = "open"]
                     ELSE [pubs EXCEPT ![p] = "open", ![curPub] = "closed"]

(* ... under mu: the writer it replaces is closed. *)
PeerSubscribeLocked(p) ==
    /\ pubs[p] = "accepted"
    /\ pubs' = acceptPublisher(p)
    /\ curPub' = p
    /\ UNCHANGED <<subs, current, loops, hclose, panicked>>

-------------------------------------------------------------------------------
(* Close: the flag and done, then everything registered, under mu. *)
HandlerCloseFlag ==
    /\ hclose = "open"
    /\ hclose' = "draining"
    /\ UNCHANGED <<subs, current, loops, pubs, curPub, panicked>>

HandlerCloseDrain ==
    /\ hclose = "draining"
    /\ hclose' = "drained"
    /\ pubs' = IF curPub = None THEN pubs ELSE [pubs EXCEPT ![curPub] = "closed"]
    /\ curPub' = None
    /\ subs' = IF current = None THEN subs ELSE [subs EXCEPT ![current].ctxDone = TRUE]
    /\ loops' = IF current = None THEN loops ELSE closeReaderOf(current)
    /\ current' = None
    /\ UNCHANGED panicked

-------------------------------------------------------------------------------
(* Nobody recovers from a panic: after it nothing runs. *)
HandlerNext ==
    /\ ~panicked
    /\ \/ \E s \in Subs : \/ \E kind \in {"func", "stream"} : SubscribeStarts(s, kind)
                          \/ SubscribeLocked(s) \/ CallerCancels(s)
                          \/ StreamEnds(s) \/ StreamCloses(s) \/ StreamReceives(s)
       \/ \E l \in Loops : AttachStarts(l) \/ LoopReads(l) \/ TrackEnds(l)
                           \/ BadMessage(l) \/ ReceiveLoop(l)
       \/ \E p \in Pubs : PeerSubscribes(p) \/ PeerSubscribeLocked(p)
       \/ Unsubscribe \/ HandlerCloseFlag \/ HandlerCloseDrain

HandlerSpec == HandlerInit /\ [][HandlerNext]_hvars

-------------------------------------------------------------------------------
(* Types of the handler's state. *)
SubscriberRec == [state : {"unused", "joining", "registered", "closing", "over"},
                  kind : {"func", "stream"}, ctxDone : BOOLEAN,
                  reader : Loops \union {None}, queued : 0..ChanCap,
                  chClosed : BOOLEAN]

LoopPCs == {"unused", "attaching", "top", "reading", "got", "checked", "found",
            "calling", "handler", "exited"}

LoopRec == [pc : LoopPCs,
            sub : Subs \union {None}, target : Subs \union {None},
            readerClosed : BOOLEAN]

HandlerTypeOK ==
    /\ subs \in [Subs -> SubscriberRec]
    /\ current \in Subs \union {None}
    /\ loops \in [Loops -> LoopRec]
    /\ pubs \in [Pubs -> {"unused", "accepted", "open", "closed"}]
    /\ curPub \in Pubs \union {None}
    /\ hclose \in {"open", "draining", "drained"}
    /\ panicked \in BOOLEAN

(* A subscriber that is no longer the registered one is cancelled, so that *)
(* its receive loop and its stream goroutine can end; a writer that is no  *)
(* longer the registered one is closed.                                    *)
ReplacedIsReleased ==
    /\ \A s \in Subs : subs[s].state = "registered" /\ s # current => subs[s].ctxDone
    /\ \A p \in Pubs : pubs[p] = "open" => p = curPub

(* A receive loop ends with its reader closed, and as long as it runs for  *)
(* a live subscriber it is that subscriber's reader, unless it was closed: *)
(* no loop is lost to Unsubscribe and Close.                               *)
LoopReachable ==
    \A l \in Loops :
        /\ loops[l].pc = "exited" => loops[l].readerClosed
        /\ loops[l].pc \notin {"unused", "attaching", "exited"} =>
              \/ loops[l].readerClosed
              \/ subs[loops[l].sub].ctxDone
              \/ subs[loops[l].sub].reader = l /\ loops[l].sub = current

(* Close reaches the receive loops: once it has drained the handler, a     *)
(* loop that is blocked has been told to end, also when its subscriber     *)
(* registered, or its track was attached, after Close had passed by.  In   *)
(* ReadObject there is no exception.  In a stream's full channel there is  *)
(* one: a message whose loop passed the closed test before Close was       *)
(* called may be given to a stream that registered after the drain, which  *)
(* only Unsubscribe or its own context ends.                               *)
CloseReachesLoops ==
    hclose = "drained" =>
        \A l \in Loops :
            /\ loops[l].pc = "reading" =>
                  loops[l].readerClosed \/ subs[loops[l].sub].ctxDone
            /\ loops[l].pc = "handler" /\ subs[loops[l].target].kind = "stream" =>
                  subs[loops[l].target].ctxDone \/ loops[l].target = current

(* Cancelling the context of StreamMessages stops the stream, and nothing  *)
(* else: no receive loop is brought down with it by the closed channel.    *)
StreamStops == ~panicked
===============================================================================
