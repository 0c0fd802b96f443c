------------------------ MODULE DataTrackHandlerProofs ------------------------
(***************************************************************************)
(* TLAPS proofs about DataTrackHandler, for any number of subscribers,     *)
(* remote tracks and publishers and any capacity of a stream's channel.    *)
(*                                                                         *)
(* The inductive invariant HandlerIInv says what holds of each subscriber  *)
(* and of each receive loop by itself.  A step of a loop (LoopStep) or of  *)
(* a subscriber (SubscriberStep) then has to be followed for that one      *)
(* only, and LoopKept says what leaves the other loops alone.              *)
(*                                                                         *)
(* The last part is about DataTrackPublish, for any number of callers, any *)
(* number of messages and any batch sizes: PublishIInv adds to HandlerIInv *)
(* what holds of each call and of its encoding goroutines (CallerOK), and  *)
(* CallerStep lets a step of a call be followed for that call only.        *)
(***************************************************************************)
EXTENDS DataTrackPublish, FiniteSets, FiniteSetTheorems, SequenceTheorems, TLAPS

(* Where a receive loop runs. *)
Running == {"top", "reading", "got", "checked", "found", "calling", "handler"}

(* What holds of a subscriber: it is the registered one, was cancelled, or *)
(* has not been inserted yet; a stream that ends, or whose channel is      *)
(* closed, was cancelled before.                                           *)
SubscriberOK(s) ==
    /\ subs[s].state \in {"closing", "over"} => subs[s].ctxDone
    /\ subs[s].chClosed => subs[s].ctxDone
    /\ s = current => subs[s].state = "registered"
    /\ subs[s].state = "registered" /\ s # current => subs[s].ctxDone

(* What holds of a receive loop: its reader is closed when it has ended;  *)
(* as long as it runs it can be reached through its subscriber, or was    *)
(* told to end; what HandleData found has been registered; and once Close *)
(* has drained the handler a loop that is reading was told to end.        *)
LoopOK(l) ==
    /\ loops[l].pc = "exited" => loops[l].readerClosed
    /\ loops[l].pc \in Running =>
          /\ loops[l].sub \in Subs
          /\ \/ loops[l].readerClosed
             \/ subs[loops[l].sub].ctxDone
             \/ subs[loops[l].sub].reader = l /\ loops[l].sub = current
    /\ loops[l].pc \in {"found", "calling", "handler"} =>
          /\ loops[l].target \in Subs
          /\ subs[loops[l].target].state \in {"registered", "closing", "over"}
    /\ hclose = "drained" /\ loops[l].pc = "reading" =>
          loops[l].readerClosed \/ subs[loops[l].sub].ctxDone

(* The registered writer, and no other, is open. *)
PublishersOK ==
    /\ curPub # None => pubs[curPub] = "open"
    /\ \A p \in Pubs : pubs[p] = "open" => p = curPub

HandlerIInv ==
    /\ HandlerTypeOK
    /\ \A s \in Subs : SubscriberOK(s)
    /\ \A l \in Loops : LoopOK(l)
    /\ PublishersOK

(* Subscribers, loops and publishers are numbered from one. *)
LEMMA NoneIsNone == /\ None \notin Subs /\ None \notin Loops /\ None \notin Pubs
  BY DEF None, Subs, Loops, Pubs

(* What leaves a receive loop's part of the invariant alone: contexts stay *)
(* cancelled, readers closed and registrations made, and the subscriber    *)
(* the loop runs for stays the registered one with the same reader, or the *)
(* loop is told to end.                                                    *)
LEMMA LoopKept ==
  ASSUME HandlerIInv, NEW l \in Loops,
         loops'[l].pc = loops[l].pc, loops'[l].sub = loops[l].sub,
         loops'[l].target = loops[l].target,
         loops[l].readerClosed => loops'[l].readerClosed,
         \A s \in Subs : subs[s].ctxDone => subs'[s].ctxDone,
         \A s \in Subs : subs[s].state \in {"registered", "closing", "over"} =>
                            subs'[s].state \in {"registered", "closing", "over"},
         hclose' = hclose \/ hclose' # "drained",
         loops[l].sub \in Subs =>
           \/ subs'[loops[l].sub].reader = subs[loops[l].sub].reader /\ current' = current
           \/ loops[l].sub = current /\ subs[current].reader = l =>
                 loops'[l].readerClosed \/ subs'[current].ctxDone
  PROVE  LoopOK(l)'
  BY DEF HandlerIInv, LoopOK, Running

(* A step of one receive loop, that changes nothing else. *)
LEMMA LoopStep ==
  ASSUME HandlerIInv, NEW l \in Loops,
         UNCHANGED <<subs, current, pubs, curPub, hclose, panicked>>,
         loops' \in [Loops -> LoopRec],
         \A m \in Loops \ {l} : loops'[m] = loops[m],
         LoopOK(l)'
  PROVE  HandlerIInv'
  <1>1. HandlerTypeOK'
    BY DEF HandlerIInv, HandlerTypeOK
  <1>2. \A s \in Subs : SubscriberOK(s)'
    BY DEF HandlerIInv, SubscriberOK
  <1>3. \A m \in Loops : LoopOK(m)'
    BY DEF HandlerIInv, LoopOK
  <1>4. PublishersOK'
    BY DEF HandlerIInv, PublishersOK
  <1> QED
    BY <1>1, <1>2, <1>3, <1>4 DEF HandlerIInv

(* The loop goes to pc; what it has found and its reader are as given. *)
LoopMoves(l, pc, target, closed) ==
    /\ loops' \in [Loops -> LoopRec]
    /\ \A m \in Loops \ {l} : loops'[m] = loops[m]
    /\ loops'[l].pc = pc /\ loops'[l].sub = loops[l].sub
    /\ loops'[l].target = target /\ loops'[l].readerClosed = closed

(* The three forms of a loop's step: to another place, there for or *)
(* without a subscriber it has found, and to its end.               *)
LEMMA LoopGoes ==
  ASSUME HandlerTypeOK, NEW l \in Loops, NEW pc \in LoopPCs,
         loops' = [loops EXCEPT ![l].pc = pc]
  PROVE  LoopMoves(l, pc, loops[l].target, loops[l].readerClosed)
  BY DEF HandlerTypeOK, LoopRec, LoopMoves

LEMMA LoopGoesFor ==
  ASSUME HandlerTypeOK, NEW l \in Loops, NEW pc \in LoopPCs, NEW s \in Subs \union {None},
         loops' = [loops EXCEPT ![l] = [@ EXCEPT !.pc = pc, !.target = s]]
  PROVE  LoopMoves(l, pc, s, loops[l].readerClosed)
  BY DEF HandlerTypeOK, LoopRec, LoopMoves

LEMMA LoopExits ==
  ASSUME HandlerTypeOK, NEW l \in Loops, loops' = exitLoop(l)
  PROVE  LoopMoves(l, "exited", loops[l].target, TRUE)
  <1>1. "exited" \in LoopPCs
    BY DEF LoopPCs
  <1> QED
    BY <1>1 DEF HandlerTypeOK, LoopRec, LoopMoves, exitLoop

(* The steps of a receive loop: each keeps the loop's part of the *)
(* invariant.                                                     *)
LEMMA AttachStartsKeeps ==
  ASSUME HandlerIInv, NEW l \in Loops, AttachStarts(l) PROVE HandlerIInv'
  <1>1. /\ LoopOK(l) /\ HandlerTypeOK /\ \A s \in Subs : SubscriberOK(s)
    BY DEF HandlerIInv
  <1>3. LoopMoves(l, "attaching", loops[l].target, loops[l].readerClosed)
    BY <1>1, LoopGoes, LoopGoesFor, LoopExits DEF HandlerTypeOK, LoopPCs, AttachStarts
  <1>4. LoopOK(l)'
    BY <1>1, <1>3, NoneIsNone
    DEF HandlerTypeOK, LoopMoves, LoopOK, Running, SubscriberOK, AttachStarts, hclosed
  <1> QED
    BY <1>3, <1>4, LoopStep DEF LoopMoves, AttachStarts, hclosed

LEMMA LoopReadsKeeps ==
  ASSUME HandlerIInv, NEW l \in Loops, LoopReads(l) PROVE HandlerIInv'
  <1>1. /\ LoopOK(l) /\ HandlerTypeOK /\ \A s \in Subs : SubscriberOK(s)
    BY DEF HandlerIInv
  <1>3. LoopMoves(l, "got", loops[l].target, loops[l].readerClosed)
    BY <1>1, LoopGoes, LoopGoesFor, LoopExits DEF HandlerTypeOK, LoopPCs, LoopReads
  <1>4. LoopOK(l)'
    BY <1>1, <1>3, NoneIsNone
    DEF HandlerTypeOK, LoopMoves, LoopOK, Running, SubscriberOK, LoopReads
  <1> QED
    BY <1>3, <1>4, LoopStep DEF LoopMoves, LoopReads

LEMMA TrackEndsKeeps ==
  ASSUME HandlerIInv, NEW l \in Loops, TrackEnds(l) PROVE HandlerIInv'
  <1>1. /\ LoopOK(l) /\ HandlerTypeOK /\ \A s \in Subs : SubscriberOK(s)
    BY DEF HandlerIInv
  <1>3. LoopMoves(l, "exited", loops[l].target, TRUE)
    BY <1>1, LoopGoes, LoopGoesFor, LoopExits DEF HandlerTypeOK, LoopPCs, TrackEnds
  <1>4. LoopOK(l)'
    BY <1>1, <1>3, NoneIsNone
    DEF HandlerTypeOK, LoopMoves, LoopOK, Running, SubscriberOK, TrackEnds
  <1> QED
    BY <1>3, <1>4, LoopStep DEF LoopMoves, TrackEnds

LEMMA BadMessageKeeps ==
  ASSUME HandlerIInv, NEW l \in Loops, BadMessage(l) PROVE HandlerIInv'
  <1>1. /\ LoopOK(l) /\ HandlerTypeOK /\ \A s \in Subs : SubscriberOK(s)
    BY DEF HandlerIInv
  <1>3. LoopMoves(l, "exited", loops[l].target, TRUE)
    BY <1>1, LoopGoes, LoopGoesFor, LoopExits DEF HandlerTypeOK, LoopPCs, BadMessage
  <1>4. LoopOK(l)'
    BY <1>1, <1>3, NoneIsNone
    DEF HandlerTypeOK, LoopMoves, LoopOK, Running, SubscriberOK, BadMessage
  <1> QED
    BY <1>3, <1>4, LoopStep DEF LoopMoves, BadMessage

LEMMA LoopTopKeeps ==
  ASSUME HandlerIInv, NEW l \in Loops, LoopTop(l) PROVE HandlerIInv'
  <1>1. /\ LoopOK(l) /\ HandlerTypeOK /\ \A s \in Subs : SubscriberOK(s)
    BY DEF HandlerIInv
  <1>3. \/ LoopMoves(l, "exited", loops[l].target, TRUE)
        \/ ~loopDone(l) /\ LoopMoves(l, "reading", loops[l].target, loops[l].readerClosed)
    BY <1>1, LoopGoes, LoopGoesFor, LoopExits DEF HandlerTypeOK, LoopPCs, LoopTop
  <1>4. LoopOK(l)'
    <2>1. CASE LoopMoves(l, "exited", loops[l].target, TRUE)
      BY <2>1 DEF LoopMoves, LoopOK, Running
    <2>2. CASE ~loopDone(l) /\ LoopMoves(l, "reading", loops[l].target, loops[l].readerClosed)
      BY <2>2, <1>1 DEF LoopMoves, LoopOK, Running, loopDone, hclosed, LoopTop
    <2> QED
      BY <2>1, <2>2, <1>3
  <1> QED
    BY <1>3, <1>4, LoopStep DEF LoopMoves, LoopTop, loopDone, hclosed

LEMMA LoopReadFailsKeeps ==
  ASSUME HandlerIInv, NEW l \in Loops, LoopReadFails(l) PROVE HandlerIInv'
  <1>1. /\ LoopOK(l) /\ HandlerTypeOK /\ \A s \in Subs : SubscriberOK(s)
    BY DEF HandlerIInv
  <1>3. LoopMoves(l, "exited", loops[l].target, TRUE)
    BY <1>1, LoopGoes, LoopGoesFor, LoopExits DEF HandlerTypeOK, LoopPCs, LoopReadFails
  <1>4. LoopOK(l)'
    BY <1>1, <1>3, NoneIsNone
    DEF HandlerTypeOK, LoopMoves, LoopOK, Running, SubscriberOK, LoopReadFails
  <1> QED
    BY <1>3, <1>4, LoopStep DEF LoopMoves, LoopReadFails

LEMMA LoopChecksKeeps ==
  ASSUME HandlerIInv, NEW l \in Loops, LoopChecks(l) PROVE HandlerIInv'
  <1>1. /\ LoopOK(l) /\ HandlerTypeOK /\ \A s \in Subs : SubscriberOK(s)
    BY DEF HandlerIInv
  <1>3. \/ LoopMoves(l, "exited", loops[l].target, TRUE)
        \/ LoopMoves(l, "checked", loops[l].target, loops[l].readerClosed)
    BY <1>1, LoopGoes, LoopExits DEF HandlerTypeOK, LoopPCs, LoopChecks
  <1>4. LoopOK(l)'
    BY <1>1, <1>3, NoneIsNone
    DEF HandlerTypeOK, LoopMoves, LoopOK, Running, SubscriberOK, LoopChecks
  <1> QED
    BY <1>3, <1>4, LoopStep DEF LoopMoves, LoopChecks

LEMMA LoopLooksUpKeeps ==
  ASSUME HandlerIInv, NEW l \in Loops, LoopLooksUp(l) PROVE HandlerIInv'
  <1>1. /\ LoopOK(l) /\ HandlerTypeOK /\ \A s \in Subs : SubscriberOK(s)
    BY DEF HandlerIInv
  <1>3. \/ LoopMoves(l, "exited", loops[l].target, TRUE)
        \/ current # None /\ LoopMoves(l, "found", current, loops[l].readerClosed)
    BY <1>1, LoopGoesFor, LoopExits DEF HandlerTypeOK, LoopPCs, LoopLooksUp
  <1>4. LoopOK(l)'
    <2>1. CASE LoopMoves(l, "exited", loops[l].target, TRUE)
      BY <2>1 DEF LoopMoves, LoopOK, Running
    <2>2. CASE current # None /\ LoopMoves(l, "found", current, loops[l].readerClosed)
      <3>1. current \in Subs /\ subs[current].state = "registered"
        BY <2>2, <1>1 DEF HandlerTypeOK, SubscriberOK
      <3> QED
        BY <2>2, <3>1, <1>1 DEF LoopMoves, LoopOK, Running, LoopLooksUp
    <2> QED
      BY <2>1, <2>2, <1>3
  <1> QED
    BY <1>3, <1>4, LoopStep DEF LoopMoves, LoopLooksUp

LEMMA LoopDispatchesKeeps ==
  ASSUME HandlerIInv, NEW l \in Loops, LoopDispatches(l) \/ LoopCalls(l) PROVE HandlerIInv'
  <1>1. /\ LoopOK(l) /\ HandlerTypeOK /\ \A s \in Subs : SubscriberOK(s)
    BY DEF HandlerIInv
  <1>2. /\ loops[l].pc \in {"found", "calling"}
        /\ UNCHANGED <<subs, current, pubs, curPub, hclose, panicked>>
    BY DEF LoopDispatches, LoopCalls
  <1>3. \/ LoopMoves(l, "exited", loops[l].target, TRUE)
        \/ LoopMoves(l, "calling", loops[l].target, loops[l].readerClosed)
        \/ LoopMoves(l, "handler", loops[l].target, loops[l].readerClosed)
    BY <1>1, LoopGoes, LoopExits DEF LoopPCs, LoopDispatches, LoopCalls
  <1>4. LoopOK(l)'
    BY <1>1, <1>2, <1>3, NoneIsNone DEF LoopMoves, LoopOK, Running
  <1> QED
    BY <1>2, <1>3, <1>4, LoopStep DEF LoopMoves

LEMMA HandlerReturnsKeeps ==
  ASSUME HandlerIInv, NEW l \in Loops, HandlerReturns(l) PROVE HandlerIInv'
  <1>1. /\ LoopOK(l) /\ HandlerTypeOK /\ \A s \in Subs : SubscriberOK(s)
    BY DEF HandlerIInv
  <1>3. \/ LoopMoves(l, "exited", loops[l].target, TRUE)
        \/ LoopMoves(l, "top", None, loops[l].readerClosed)
    BY <1>1, LoopGoes, LoopGoesFor, LoopExits DEF HandlerTypeOK, LoopPCs, HandlerReturns
  <1>4. LoopOK(l)'
    BY <1>1, <1>3, NoneIsNone
    DEF HandlerTypeOK, LoopMoves, LoopOK, Running, SubscriberOK, HandlerReturns
  <1> QED
    BY <1>3, <1>4, LoopStep DEF LoopMoves, HandlerReturns

LEMMA StreamHandlerCancelledKeeps ==
  ASSUME HandlerIInv, NEW l \in Loops, StreamHandlerCancelled(l) PROVE HandlerIInv'
  <1>1. /\ LoopOK(l) /\ HandlerTypeOK /\ \A s \in Subs : SubscriberOK(s)
    BY DEF HandlerIInv
  <1>3. LoopMoves(l, "exited", loops[l].target, TRUE)
    BY <1>1, LoopGoes, LoopGoesFor, LoopExits
    DEF HandlerTypeOK, LoopPCs, StreamHandlerCancelled
  <1>4. LoopOK(l)'
    BY <1>1, <1>3, NoneIsNone
    DEF HandlerTypeOK, LoopMoves, LoopOK, Running, SubscriberOK, StreamHandlerCancelled
  <1> QED
    BY <1>3, <1>4, LoopStep DEF LoopMoves, StreamHandlerCancelled

-------------------------------------------------------------------------------
(* The states of a subscriber that has been inserted. *)
Released == {"registered", "closing", "over"}

(* A step of one subscriber that changes nothing else, takes no *)
(* registration back and leaves its reader alone.               *)
LEMMA SubscriberStep ==
  ASSUME HandlerIInv, NEW s \in Subs,
         UNCHANGED <<current, loops, pubs, curPub, hclose, panicked>>,
         subs' \in [Subs -> SubscriberRec],
         \A r \in Subs \ {s} : subs'[r] = subs[r],
         subs'[s].reader = subs[s].reader,
         subs[s].ctxDone => subs'[s].ctxDone,
         subs[s].state \in Released => subs'[s].state \in Released,
         SubscriberOK(s)'
  PROVE  HandlerIInv'
  <1>1. HandlerTypeOK'
    BY DEF HandlerIInv, HandlerTypeOK
  <1>2. \A r \in Subs : SubscriberOK(r)'
    BY DEF HandlerIInv, SubscriberOK
  <1>3. \A l \in Loops : LoopOK(l)'
    BY LoopKept DEF Released
  <1>4. PublishersOK'
    BY DEF HandlerIInv, PublishersOK
  <1> QED
    BY <1>1, <1>2, <1>3, <1>4 DEF HandlerIInv

(* The steps of a subscriber, its consumer and its goroutine. *)
LEMMA SubscribeStartsKeeps ==
  ASSUME HandlerIInv, NEW s \in Subs, NEW kind \in {"func", "stream"}, SubscribeStarts(s, kind)
  PROVE  HandlerIInv'
  <1>1. SubscriberOK(s) /\ HandlerTypeOK
    BY DEF HandlerIInv
  <1>2. /\ subs' \in [Subs -> SubscriberRec]
        /\ \A r \in Subs \ {s} : subs'[r] = subs[r]
        /\ subs'[s].reader = subs[s].reader /\ subs'[s].ctxDone = subs[s].ctxDone
        /\ subs'[s].chClosed = subs[s].chClosed /\ subs'[s].state = "joining"
    BY <1>1, ZenonT(60) DEF HandlerTypeOK, SubscriberRec, SubscribeStarts
  <1>3. SubscriberOK(s)' /\ subs[s].state \notin Released
    BY <1>1, <1>2 DEF SubscriberOK, SubscribeStarts, Released
  <1> QED
    BY <1>2, <1>3, SubscriberStep DEF SubscribeStarts

LEMMA CallerCancelsKeeps ==
  ASSUME HandlerIInv, NEW s \in Subs, CallerCancels(s) PROVE HandlerIInv'
  <1>1. SubscriberOK(s) /\ HandlerTypeOK
    BY DEF HandlerIInv
  <1>2. /\ subs' \in [Subs -> SubscriberRec]
        /\ \A r \in Subs \ {s} : subs'[r] = subs[r]
        /\ subs'[s].reader = subs[s].reader /\ subs'[s].ctxDone
        /\ subs'[s].chClosed = subs[s].chClosed /\ subs'[s].state = subs[s].state
    BY <1>1, ZenonT(60) DEF HandlerTypeOK, SubscriberRec, CallerCancels
  <1>3. SubscriberOK(s)'
    BY <1>1, <1>2 DEF SubscriberOK, CallerCancels
  <1> QED
    BY <1>2, <1>3, SubscriberStep DEF CallerCancels

LEMMA StreamClosesKeeps ==
  ASSUME HandlerIInv, NEW s \in Subs, StreamCloses(s) PROVE HandlerIInv'
  <1>1. SubscriberOK(s) /\ HandlerTypeOK
    BY DEF HandlerIInv
  <1>2. /\ subs' \in [Subs -> SubscriberRec]
        /\ \A r \in Subs \ {s} : subs'[r] = subs[r]
        /\ subs'[s].reader = subs[s].reader /\ subs'[s].ctxDone = subs[s].ctxDone
        /\ subs'[s].state = "over"
    BY <1>1, ZenonT(60) DEF HandlerTypeOK, SubscriberRec, StreamCloses, closeChannels
  <1>3. SubscriberOK(s)' /\ subs'[s].state \in Released
    BY <1>1, <1>2 DEF SubscriberOK, StreamCloses, Released
  <1> QED
    BY <1>2, <1>3, SubscriberStep DEF StreamCloses

LEMMA StreamReceivesKeeps ==
  ASSUME HandlerIInv, NEW s \in Subs, StreamReceives(s) PROVE HandlerIInv'
  <1> USE TrackAssumption
  <1>1. SubscriberOK(s) /\ HandlerTypeOK
    BY DEF HandlerIInv
  <1>2. /\ subs' \in [Subs -> SubscriberRec]
        /\ \A r \in Subs \ {s} : subs'[r] = subs[r]
        /\ subs'[s].reader = subs[s].reader /\ subs'[s].ctxDone = subs[s].ctxDone
        /\ subs'[s].chClosed = subs[s].chClosed /\ subs'[s].state = subs[s].state
    BY <1>1 DEF HandlerTypeOK, SubscriberRec, StreamReceives
  <1>3. SubscriberOK(s)'
    BY <1>1, <1>2 DEF SubscriberOK, StreamReceives
  <1> QED
    BY <1>2, <1>3, SubscriberStep DEF StreamReceives

(* The send of a StreamMessages handler moves the loop and fills the *)
(* channel.                                                          *)
LEMMA StreamHandlerSendsKeeps ==
  ASSUME HandlerIInv, NEW l \in Loops, StreamHandlerSends(l) PROVE HandlerIInv'
  <1> USE TrackAssumption
  <1> DEFINE s == loops[l].target
  <1>1. /\ HandlerTypeOK /\ LoopOK(l)
        /\ loops[l].pc = "handler" /\ s \in Subs /\ SubscriberOK(s)
        /\ loops' = [loops EXCEPT ![l] = [@ EXCEPT !.pc = "top", !.target = None]]
        /\ current' = current /\ hclose' = hclose
        /\ \A r \in Subs : SubscriberOK(r)
    BY DEF HandlerIInv, LoopOK, StreamHandlerSends
  <1> HIDE DEF s
  <1>2. LoopMoves(l, "top", None, loops[l].readerClosed)
    BY <1>1, LoopGoesFor DEF LoopPCs
  <1>3. /\ subs' \in [Subs -> SubscriberRec]
        /\ \A r \in Subs \ {s} : subs'[r] = subs[r]
        /\ subs'[s].reader = subs[s].reader /\ subs'[s].ctxDone = subs[s].ctxDone
        /\ subs'[s].chClosed = subs[s].chClosed /\ subs'[s].state = subs[s].state
    <2>1. CASE subs' = subs
      BY <2>1, <1>1 DEF HandlerTypeOK
    <2>2. CASE /\ subs[s].queued < ChanCap
               /\ subs' = [subs EXCEPT ![s].queued = @ + 1]
      BY <2>2, <1>1 DEF HandlerTypeOK, SubscriberRec
    <2> QED
      BY <2>1, <2>2 DEF StreamHandlerSends, s
  <1>4. HandlerTypeOK'
    <2>1. panicked' \in BOOLEAN
      BY <1>1 DEF StreamHandlerSends, HandlerTypeOK, SubscriberRec
    <2> QED
      BY <1>1, <1>2, <1>3, <2>1 DEF HandlerTypeOK, StreamHandlerSends, LoopMoves
  <1>5. \A r \in Subs : SubscriberOK(r)'
    BY <1>1, <1>3 DEF SubscriberOK
  <1>6. \A m \in Loops \ {l} : LoopOK(m)'
    BY <1>2, <1>3, LoopKept, ZenonT(60) DEF LoopMoves, StreamHandlerSends
  <1>7. LoopOK(l)'
    BY <1>1, <1>2, <1>3 DEF LoopOK, LoopMoves, Running
  <1>8. PublishersOK'
    BY DEF HandlerIInv, PublishersOK, StreamHandlerSends
  <1> QED
    BY <1>4, <1>5, <1>6, <1>7, <1>8 DEF HandlerIInv

-------------------------------------------------------------------------------
(* The insertion of a subscriber: the one it replaces is cancelled, so *)
(* that the loops that ran for it are told to end.                     *)
LEMMA SubscribeLockedKeeps ==
  ASSUME HandlerIInv, NEW s \in Subs, SubscribeLocked(s) PROVE HandlerIInv'
  <1>1. /\ HandlerTypeOK /\ SubscriberOK(s) /\ subs[s].state = "joining" /\ current' = s
        /\ current # None => current \in Subs /\ SubscriberOK(current) /\ current # s
    BY DEF HandlerIInv, HandlerTypeOK, SubscriberOK, SubscribeLocked
  <1> DEFINE mid == [subs EXCEPT ![s].state = "registered"]
  <1>2. /\ mid \in [Subs -> SubscriberRec]
        /\ \A r \in Subs \ {s} : mid[r] = subs[r]
        /\ mid[s].reader = subs[s].reader /\ mid[s].ctxDone = subs[s].ctxDone
        /\ mid[s].chClosed = subs[s].chClosed /\ mid[s].state = "registered"
    BY <1>1 DEF HandlerTypeOK, SubscriberRec
  <1>3. /\ subs' \in [Subs -> SubscriberRec]
        /\ \A r \in Subs \ {s} :
              /\ subs'[r].state = subs[r].state
              /\ subs'[r].chClosed = subs[r].chClosed
              /\ subs'[r].reader = subs[r].reader
              /\ subs'[r].ctxDone = (subs[r].ctxDone \/ r = current)
        /\ subs'[s].state = "registered"
        /\ subs'[s].reader = subs[s].reader /\ subs'[s].ctxDone = subs[s].ctxDone
        /\ subs'[s].chClosed = subs[s].chClosed
    <2>1. CASE current = None
      <3>1. subs' = mid
        BY <2>1 DEF SubscribeLocked, insertSubscriber
      <3> QED
        BY <3>1, <1>2, <2>1, NoneIsNone DEF SubscriberRec
    <2>2. CASE current # None
      <3>1. subs' = [mid EXCEPT ![current].ctxDone = TRUE]
        BY <2>2 DEF SubscribeLocked, insertSubscriber
      <3> HIDE DEF mid
      <3>2. /\ subs' \in [Subs -> SubscriberRec]
            /\ \A r \in Subs \ {current} : subs'[r] = mid[r]
            /\ subs'[current].state = mid[current].state
            /\ subs'[current].chClosed = mid[current].chClosed
            /\ subs'[current].reader = mid[current].reader
            /\ subs'[current].ctxDone = TRUE
        BY <3>1, <2>2, <1>1, <1>2, ZenonT(60) DEF SubscriberRec
      <3>3. \A r \in Subs : mid[r].ctxDone \in BOOLEAN
        BY <1>2 DEF SubscriberRec
      <3> QED
        BY <3>2, <3>3, <1>1, <1>2, <2>2, ZenonT(60)
    <2> QED
      BY <2>1, <2>2
  <1> HIDE DEF mid
  <1>4. HandlerTypeOK'
    BY <1>1, <1>3 DEF HandlerTypeOK, SubscribeLocked
  <1>5. \A r \in Subs : SubscriberOK(r)'
    BY <1>1, <1>3 DEF HandlerIInv, SubscriberOK
  <1>6. \A l \in Loops : LoopOK(l)'
    BY <1>1, <1>3, LoopKept, NoneIsNone DEF SubscribeLocked
  <1>7. PublishersOK'
    BY DEF HandlerIInv, PublishersOK, SubscribeLocked
  <1> QED
    BY <1>4, <1>5, <1>6, <1>7 DEF HandlerIInv

-------------------------------------------------------------------------------
(* A subscriber with its context cancelled. *)
cancelled(s) == [subs EXCEPT ![s].ctxDone = TRUE]

(* Cancelling a subscriber's context changes one flag. *)
LEMMA Cancelled ==
  ASSUME HandlerTypeOK, NEW s \in Subs
  PROVE  /\ cancelled(s) \in [Subs -> SubscriberRec]
         /\ \A r \in Subs \ {s} : cancelled(s)[r] = subs[r]
         /\ cancelled(s)[s].ctxDone = TRUE
         /\ cancelled(s)[s].state = subs[s].state
         /\ cancelled(s)[s].reader = subs[s].reader
         /\ cancelled(s)[s].chClosed = subs[s].chClosed
  BY ZenonT(60) DEF HandlerTypeOK, SubscriberRec, cancelled
(* Closing the reader of a subscriber changes one flag of one loop. *)
LEMMA ReaderClosed ==
  ASSUME HandlerTypeOK, NEW s \in Subs
  PROVE  /\ closeReaderOf(s) \in [Loops -> LoopRec]
         /\ \A l \in Loops :
              /\ closeReaderOf(s)[l].pc = loops[l].pc
              /\ closeReaderOf(s)[l].sub = loops[l].sub
              /\ closeReaderOf(s)[l].target = loops[l].target
              /\ closeReaderOf(s)[l].readerClosed
                    = (loops[l].readerClosed \/ subs[s].reader = l)
  <1> USE DEF HandlerTypeOK
  <1>1. None \notin Loops
    BY DEF None, Loops
  <1>2. subs[s].reader \in Loops \union {None}
    BY DEF SubscriberRec
  <1>3. CASE subs[s].reader = None
    BY <1>3, <1>1 DEF closeReaderOf, LoopRec
  <1>4. CASE subs[s].reader # None
    <2>1. PICK m \in Loops : m = subs[s].reader
      BY <1>2, <1>4
    <2>2. closeReaderOf(s) = [loops EXCEPT ![m].readerClosed = TRUE]
      BY <2>1, <1>4 DEF closeReaderOf, closeReader
    <2>3. closeReaderOf(s) \in [Loops -> LoopRec]
      BY <2>2 DEF LoopRec
    <2>4. \A l \in Loops \ {m} : closeReaderOf(s)[l] = loops[l]
      BY <2>2
    <2>5. /\ closeReaderOf(s)[m].pc = loops[m].pc
          /\ closeReaderOf(s)[m].sub = loops[m].sub
          /\ closeReaderOf(s)[m].target = loops[m].target
          /\ closeReaderOf(s)[m].readerClosed = TRUE
      BY <2>2 DEF LoopRec
    <2>6. \A l \in Loops : loops[l].readerClosed \in BOOLEAN
      BY DEF LoopRec
    <2> QED
      BY <2>1, <2>3, <2>4, <2>5, <2>6
  <1> QED
    BY <1>3, <1>4

(* What Unsubscribe and Close do to the registered subscriber. *)
LEMMA ReleasesCurrent ==
  ASSUME HandlerIInv, current # None,
         subs' = cancelled(current), loops' = closeReaderOf(current), current' = None
  PROVE  /\ subs' \in [Subs -> SubscriberRec] /\ loops' \in [Loops -> LoopRec]
         /\ \A s \in Subs : SubscriberOK(s)'
         /\ \A s \in Subs : /\ subs'[s].state = subs[s].state
                            /\ subs[s].ctxDone => subs'[s].ctxDone
         /\ subs'[current].ctxDone
         /\ \A l \in Loops :
              /\ loops'[l].pc = loops[l].pc /\ loops'[l].sub = loops[l].sub
              /\ loops'[l].target = loops[l].target
              /\ loops[l].readerClosed => loops'[l].readerClosed
  <1>1. HandlerTypeOK /\ current \in Subs
    BY DEF HandlerIInv, HandlerTypeOK
  <1>2. /\ subs' \in [Subs -> SubscriberRec]
        /\ \A r \in Subs \ {current} : subs'[r] = subs[r]
        /\ subs'[current].ctxDone = TRUE
        /\ subs'[current].state = subs[current].state
        /\ subs'[current].chClosed = subs[current].chClosed
    BY <1>1, Cancelled
  <1>3. \A s \in Subs : SubscriberOK(s)'
    BY <1>1, <1>2, NoneIsNone DEF HandlerIInv, SubscriberOK
  <1> QED
    BY <1>1, <1>2, <1>3, ReaderClosed, ZenonT(60)

(* Unsubscribe takes the registration back and closes the reader. *)
LEMMA UnsubscribeKeeps ==
  ASSUME HandlerIInv, Unsubscribe PROVE HandlerIInv'
  <1>1. /\ HandlerTypeOK /\ current # None /\ current' = None
        /\ subs' = cancelled(current) /\ loops' = closeReaderOf(current)
    BY DEF HandlerIInv, Unsubscribe, cancelled
  <1>2. HandlerTypeOK'
    BY <1>1, ReleasesCurrent DEF HandlerTypeOK, Unsubscribe
  <1>3. \A l \in Loops : LoopOK(l)'
    BY <1>1, ReleasesCurrent, LoopKept DEF Unsubscribe
  <1>4. PublishersOK'
    BY DEF HandlerIInv, PublishersOK, Unsubscribe
  <1> QED
    BY <1>1, <1>2, <1>3, <1>4, ReleasesCurrent DEF HandlerIInv

(* Close drains the handler: every subscriber that was inserted is *)
(* cancelled from here on, so a loop that reads was told to end.   *)
LEMMA HandlerCloseDrainKeeps ==
  ASSUME HandlerIInv, HandlerCloseDrain PROVE HandlerIInv'
  <1>1. /\ HandlerTypeOK /\ current' = None /\ hclose' = "drained" /\ hclose # "drained"
        /\ PublishersOK /\ curPub' = None /\ panicked' = panicked
        /\ \A s \in Subs : SubscriberOK(s)
        /\ \A l \in Loops : LoopOK(l)
    BY DEF HandlerIInv, HandlerCloseDrain
  <1>2. /\ subs' \in [Subs -> SubscriberRec] /\ loops' \in [Loops -> LoopRec]
        /\ \A s \in Subs : SubscriberOK(s)'
        /\ \A s \in Subs : /\ subs'[s].state = subs[s].state
                           /\ subs[s].ctxDone => subs'[s].ctxDone
        /\ current # None => subs'[current].ctxDone
        /\ \A l \in Loops :
             /\ loops'[l].pc = loops[l].pc /\ loops'[l].sub = loops[l].sub
             /\ loops'[l].target = loops[l].target
             /\ loops[l].readerClosed => loops'[l].readerClosed
    <2>1. CASE current = None
      BY <2>1, <1>1 DEF HandlerCloseDrain, HandlerTypeOK, SubscriberOK
    <2>2. CASE current # None
      BY <2>2, ReleasesCurrent DEF HandlerCloseDrain, cancelled
    <2> QED
      BY <2>1, <2>2
  <1>3. PublishersOK' /\ pubs' \in [Pubs -> {"unused", "accepted", "open", "closed"}]
    <2>1. CASE curPub = None
      BY <2>1, <1>1 DEF HandlerCloseDrain, HandlerTypeOK, PublishersOK
    <2>2. CASE curPub # None
      BY <2>2, <1>1, NoneIsNone DEF HandlerCloseDrain, HandlerTypeOK, PublishersOK
    <2> QED
      BY <2>1, <2>2
  <1>4. HandlerTypeOK'
    BY <1>1, <1>2, <1>3 DEF HandlerTypeOK
  <1>5. ASSUME NEW l \in Loops PROVE LoopOK(l)'
    <2>1. loops[l].sub \in Subs /\ loops[l].sub = current => subs'[loops[l].sub].ctxDone
      BY <1>2, NoneIsNone
    <2>2. \A s \in Subs : subs[s].state \in Released => subs'[s].ctxDone
      BY <1>1, <1>2, NoneIsNone DEF SubscriberOK, Released
    <2>3. LoopOK(l)
      BY <1>1
    <2> QED
      BY <2>1, <2>2, <2>3, <1>1, <1>2 DEF LoopOK, Running, Released
  <1> QED
    BY <1>2, <1>3, <1>4, <1>5 DEF HandlerIInv

(* The goroutine of StreamMessages takes its registration back. *)
LEMMA StreamEndsKeeps ==
  ASSUME HandlerIInv, NEW s \in Subs, StreamEnds(s) PROVE HandlerIInv'
  <1>1. /\ HandlerTypeOK /\ SubscriberOK(s)
        /\ subs[s].state = "registered" /\ subs[s].ctxDone
        /\ subs' = [subs EXCEPT ![s].state = "closing"]
    BY DEF HandlerIInv, StreamEnds
  <1>2. /\ subs' \in [Subs -> SubscriberRec]
        /\ \A r \in Subs \ {s} : subs'[r] = subs[r]
        /\ subs'[s].reader = subs[s].reader /\ subs'[s].ctxDone
        /\ subs'[s].chClosed = subs[s].chClosed /\ subs'[s].state = "closing"
    BY <1>1 DEF HandlerTypeOK, SubscriberRec
  <1>3. /\ loops' \in [Loops -> LoopRec]
        /\ \A l \in Loops :
             /\ loops'[l].pc = loops[l].pc /\ loops'[l].sub = loops[l].sub
             /\ loops'[l].target = loops[l].target
             /\ loops[l].readerClosed => loops'[l].readerClosed
    <2>1. CASE current = s
      BY <2>1, <1>1, ReaderClosed DEF StreamEnds
    <2>2. CASE current # s
      BY <2>2, <1>1 DEF StreamEnds, HandlerTypeOK
    <2> QED
      BY <2>1, <2>2
  <1>4. current' = IF current = s THEN None ELSE current
    BY DEF StreamEnds
  <1>5. HandlerTypeOK'
    BY <1>1, <1>2, <1>3, <1>4 DEF HandlerTypeOK, StreamEnds
  <1>6. \A r \in Subs : SubscriberOK(r)'
    BY <1>1, <1>2, <1>4, NoneIsNone DEF HandlerIInv, SubscriberOK
  <1>7. \A l \in Loops : LoopOK(l)'
    BY <1>1, <1>2, <1>3, <1>4, LoopKept DEF StreamEnds
  <1>8. PublishersOK'
    BY DEF HandlerIInv, PublishersOK, StreamEnds
  <1> QED
    BY <1>5, <1>6, <1>7, <1>8 DEF HandlerIInv

(* HandleRemoteTrack: the loop it starts becomes the subscriber's reader, *)
(* the reader it replaces is closed.                                      *)
LEMMA AttachLockedKeeps ==
  ASSUME HandlerIInv, NEW l \in Loops, AttachLocked(l) PROVE HandlerIInv'
  <1>1. /\ HandlerTypeOK /\ LoopOK(l) /\ loops[l].pc = "attaching"
        /\ current \in Subs \union {None}
    BY DEF HandlerIInv, HandlerTypeOK, AttachLocked
  <1>2. CASE current = None
    <2>1. loops' = exitLoop(l) /\ subs' = subs
      BY <1>2 DEF AttachLocked, exitLoop
    <2>2. LoopMoves(l, "exited", loops[l].target, TRUE)
      BY <2>1, <1>1, LoopExits
    <2>3. LoopOK(l)'
      BY <2>2 DEF LoopMoves, LoopOK, Running
    <2> QED
      BY <2>1, <2>2, <2>3, LoopStep DEF LoopMoves, AttachLocked
  <1>3. CASE current # None
    <2>1. /\ current \in Subs /\ current' = current
          /\ subs' = [subs EXCEPT ![current].reader = l]
          /\ loops' = [closeReaderOf(current) EXCEPT ![l] =
                          [@ EXCEPT !.pc = "top", !.sub = current]]
      BY <1>1, <1>3 DEF AttachLocked
    <2>2. /\ subs' \in [Subs -> SubscriberRec]
          /\ \A s \in Subs \ {current} : subs'[s] = subs[s]
          /\ subs'[current].reader = l
          /\ subs'[current].ctxDone = subs[current].ctxDone
          /\ subs'[current].state = subs[current].state
          /\ subs'[current].chClosed = subs[current].chClosed
      BY <2>1, <1>1 DEF HandlerTypeOK, SubscriberRec
    <2>3. closeReaderOf(current) \in [Loops -> LoopRec]
      BY <2>1, <1>1, ReaderClosed
    <2>4. /\ loops' \in [Loops -> LoopRec]
          /\ loops'[l].pc = "top" /\ loops'[l].sub = current
          /\ \A m \in Loops \ {l} : loops'[m] = closeReaderOf(current)[m]
      BY <2>1, <2>3 DEF LoopRec, LoopPCs
    <2>5. HandlerTypeOK'
      BY <1>1, <2>1, <2>2, <2>4 DEF HandlerTypeOK, AttachLocked
    <2>6. \A s \in Subs : SubscriberOK(s)'
      BY <2>1, <2>2 DEF HandlerIInv, SubscriberOK
    <2>7. LoopOK(l)'
      BY <2>1, <2>2, <2>4 DEF LoopOK, Running
    <2>8. \A m \in Loops \ {l} : LoopOK(m)'
      <3>1. TAKE m \in Loops \ {l}
      <3>2. /\ loops'[m].pc = loops[m].pc /\ loops'[m].sub = loops[m].sub
            /\ loops'[m].target = loops[m].target
            /\ loops'[m].readerClosed = (loops[m].readerClosed \/ subs[current].reader = m)
        BY <2>1, <2>4, <1>1, ReaderClosed
      <3> QED
        BY <3>2, <2>1, <2>2, LoopKept DEF AttachLocked
    <2>9. PublishersOK'
      BY DEF HandlerIInv, PublishersOK, AttachLocked
    <2> QED
      BY <2>5, <2>6, <2>7, <2>8, <2>9 DEF HandlerIInv
  <1> QED
    BY <1>2, <1>3

-------------------------------------------------------------------------------
(* Steps that leave subscribers and loops alone. *)
LEMMA OthersKeep ==
  ASSUME HandlerIInv, UNCHANGED <<subs, current, loops, panicked>>,
         hclose' = hclose \/ hclose' = "draining",
         curPub' \in Pubs \union {None},
         pubs' \in [Pubs -> {"unused", "accepted", "open", "closed"}],
         PublishersOK'
  PROVE  HandlerIInv'
  <1>1. HandlerTypeOK'
    BY DEF HandlerIInv, HandlerTypeOK
  <1>2. \A s \in Subs : SubscriberOK(s)'
    BY DEF HandlerIInv, SubscriberOK
  <1>3. \A l \in Loops : LoopOK(l)'
    BY DEF HandlerIInv, LoopOK
  <1> QED
    BY <1>1, <1>2, <1>3 DEF HandlerIInv

(* HandleSubscribe. *)
LEMMA PublishersKeep ==
  ASSUME HandlerIInv, NEW p \in Pubs, PeerSubscribes(p) \/ PeerSubscribeLocked(p)
  PROVE  HandlerIInv'
  <1>1. HandlerTypeOK /\ PublishersOK
    BY DEF HandlerIInv
  <1>2. CASE PeerSubscribes(p)
    BY <1>1, <1>2, OthersKeep, NoneIsNone DEF HandlerTypeOK, PublishersOK, PeerSubscribes
  <1>3. CASE PeerSubscribeLocked(p)
    <2>1. CASE curPub = None
      BY <2>1, <1>1, <1>3, OthersKeep, NoneIsNone
      DEF HandlerTypeOK, PublishersOK, PeerSubscribeLocked, acceptPublisher
    <2>2. CASE curPub # None
      BY <2>2, <1>1, <1>3, OthersKeep, NoneIsNone
      DEF HandlerTypeOK, PublishersOK, PeerSubscribeLocked, acceptPublisher
    <2> QED
      BY <2>1, <2>2
  <1> QED
    BY <1>2, <1>3

(* Close sets its flag. *)
LEMMA HandlerCloseFlagKeeps ==
  ASSUME HandlerIInv, HandlerCloseFlag PROVE HandlerIInv'
  <1>1. HandlerTypeOK /\ PublishersOK'
    BY DEF HandlerIInv, PublishersOK, HandlerCloseFlag
  <1> QED
    BY <1>1, OthersKeep DEF HandlerTypeOK, HandlerCloseFlag

(* A step that changes nothing. *)
LEMMA StutterKeeps ==
  ASSUME HandlerIInv, UNCHANGED hvars PROVE HandlerIInv'
  <1>1. /\ UNCHANGED <<subs, current, loops, panicked>> /\ hclose' = hclose
        /\ UNCHANGED <<pubs, curPub>>
    BY DEF hvars
  <1>2. HandlerTypeOK /\ PublishersOK'
    BY <1>1 DEF HandlerIInv, PublishersOK
  <1> QED
    BY <1>1, <1>2, OthersKeep DEF HandlerTypeOK

(* The invariant holds of a new handler. *)
LEMMA HandlerInvariantInit == HandlerInit => HandlerIInv
  <1> SUFFICES ASSUME HandlerInit PROVE HandlerIInv
    OBVIOUS
  <1> USE TrackAssumption DEF HandlerInit
  <1>1. /\ subs \in [Subs -> SubscriberRec] /\ loops \in [Loops -> LoopRec]
    BY DEF SubscriberRec, LoopRec, LoopPCs
  <1>2. HandlerTypeOK
    BY <1>1 DEF HandlerTypeOK
  <1>3. \A s \in Subs : SubscriberOK(s)
    BY NoneIsNone DEF SubscriberOK
  <1>4. \A l \in Loops : LoopOK(l)
    BY DEF LoopOK, Running
  <1>5. PublishersOK
    BY DEF PublishersOK
  <1> QED
    BY <1>2, <1>3, <1>4, <1>5 DEF HandlerIInv

(* Every step keeps the invariant. *)
LEMMA HandlerInvariantNext == HandlerIInv /\ [HandlerNext]_hvars => HandlerIInv'
  <1> SUFFICES ASSUME HandlerIInv, [HandlerNext]_hvars PROVE HandlerIInv'
    OBVIOUS
  <1>1. ASSUME NEW s \in Subs, NEW kind \in {"func", "stream"}, SubscribeStarts(s, kind)
        PROVE  HandlerIInv'
    BY <1>1, SubscribeStartsKeeps
  <1>2. ASSUME NEW s \in Subs,
               \/ SubscribeLocked(s) \/ CallerCancels(s)
               \/ StreamEnds(s) \/ StreamCloses(s) \/ StreamReceives(s)
        PROVE  HandlerIInv'
    BY <1>2, SubscribeLockedKeeps, CallerCancelsKeeps, StreamEndsKeeps,
       StreamClosesKeeps, StreamReceivesKeeps
  <1>3. ASSUME NEW l \in Loops,
               AttachStarts(l) \/ LoopReads(l) \/ TrackEnds(l) \/ BadMessage(l)
        PROVE  HandlerIInv'
    BY <1>3, AttachStartsKeeps, LoopReadsKeeps, TrackEndsKeeps, BadMessageKeeps
  <1>4. ASSUME NEW l \in Loops, ReceiveLoop(l) PROVE HandlerIInv'
    BY <1>4, AttachLockedKeeps, LoopTopKeeps, LoopReadFailsKeeps, LoopChecksKeeps,
       LoopLooksUpKeeps, LoopDispatchesKeeps, HandlerReturnsKeeps, StreamHandlerCancelledKeeps,
       StreamHandlerSendsKeeps
    DEF ReceiveLoop
  <1>5. ASSUME NEW p \in Pubs, PeerSubscribes(p) \/ PeerSubscribeLocked(p) PROVE HandlerIInv'
    BY <1>5, PublishersKeep
  <1>6. ASSUME Unsubscribe \/ HandlerCloseFlag \/ HandlerCloseDrain PROVE HandlerIInv'
    BY <1>6, UnsubscribeKeeps, HandlerCloseFlagKeeps, HandlerCloseDrainKeeps
  <1> QED
    BY <1>1, <1>2, <1>3, <1>4, <1>5, <1>6, StutterKeeps DEF HandlerNext

(* HandlerIInv is an invariant of the handler. *)
LEMMA HandlerInvariant == HandlerSpec => []HandlerIInv
  BY HandlerInvariantInit, HandlerInvariantNext, PTL DEF HandlerSpec

(* Every variable of the handler has its type. *)
THEOREM HandlerTypes == HandlerSpec => []HandlerTypeOK
  <1>1. HandlerIInv => HandlerTypeOK
    BY DEF HandlerIInv
  <1> QED
    BY <1>1, HandlerInvariant, PTL

(* insertSubscriber and HandleSubscribe release what they replace: a      *)
(* subscriber that is not the registered one has its context cancelled, a *)
(* writer that is not the registered one is closed.                       *)
THEOREM Replaced == HandlerSpec => []ReplacedIsReleased
  <1>1. HandlerIInv => ReplacedIsReleased
    BY DEF HandlerIInv, SubscriberOK, PublishersOK, ReplacedIsReleased
  <1> QED
    BY <1>1, HandlerInvariant, PTL

(* No receive loop is lost to Unsubscribe and Close: each one that runs *)
(* for a live subscriber is the reader of the registered one.           *)
THEOREM Reachable == HandlerSpec => []LoopReachable
  <1>1. ASSUME HandlerIInv, NEW l \in Loops,
               loops[l].pc \notin {"unused", "attaching", "exited"}
        PROVE  loops[l].pc \in Running
    BY <1>1 DEF HandlerIInv, HandlerTypeOK, LoopRec, LoopPCs, Running
  <1>2. HandlerIInv => LoopReachable
    BY <1>1 DEF HandlerIInv, LoopOK, LoopReachable
  <1> QED
    BY <1>2, HandlerInvariant, PTL

(* Once Close has drained the handler, every receive loop that is blocked *)
(* in ReadObject has been told to end, however registrations and tracks   *)
(* raced with Close; one that is blocked in the channel of a stream too,  *)
(* unless the stream is registered since the drain.                       *)
THEOREM CloseReaches == HandlerSpec => []CloseReachesLoops
  <1>1. HandlerIInv => CloseReachesLoops
    BY DEF HandlerIInv, LoopOK, SubscriberOK, CloseReachesLoops
  <1> QED
    BY <1>1, HandlerInvariant, PTL

-------------------------------------------------------------------------------
(* Publishing: the calls of DataTrackPublish on the handler's writers. *)

CallPCs == {"idle", "lookup", "batch", "collect", "check", "get", "open", "write", "ok",
            "failed"}

CallRec == [pc : CallPCs,
            kind : {"", "publish", "stream", "batch"}, n : 0..MaxMessages, size : Nat,
            pub : Pubs \union {None}, from : Nat, got : Nat, at : Nat]

PublishTypeOK ==
    /\ call \in [Callers -> CallRec]
    /\ marshal \in [Callers -> [Messages -> {"none", "running", "stored", "failed", "gone"}]]
    /\ objects \in [Callers -> SUBSET Messages]
    /\ errCh \in [Callers -> Seq(BOOLEAN)]
    /\ wire \in [Callers -> Seq(Nat)]
    /\ late \in [Callers -> Nat]

(* Where a call is working on a batch, and where its TrackWriter is. *)
InWriter == {"check", "get", "open", "write"}
InBatch == {"collect"} \union InWriter

(* A call that opened a subgroup on a closed writer keeps that writer and  *)
(* is past the point where it had its publisher.                           *)
LateOK(c) ==
    /\ call[c].pc \in {"batch", "ok"} \union InBatch => call[c].pub \in Pubs
    /\ late[c] <= 1
    /\ late[c] = 1 => /\ call[c].pc \notin {"idle", "lookup", "open"}
                      /\ call[c].pub \in Pubs /\ pubs[call[c].pub] = "closed"

(* What each kind of call was given, and where it begins. *)
GivenOK(c) ==
    /\ call[c].pc # "idle" => call[c].kind \in {"publish", "stream", "batch"}
    /\ call[c].kind = "publish" => call[c].n = 1 /\ call[c].size = 1
    /\ call[c].kind = "stream" => call[c].size = call[c].n
    /\ call[c].kind = "batch" => call[c].size > 0
    /\ call[c].kind # "batch" /\ call[c].pc # "ok" => call[c].from = 0

(* The messages 1, 2, 3, ... were written, up to the place where the call  *)
(* is now.                                                                 *)
WireOK(c) ==
    /\ \A i \in 1..Len(wire[c]) : wire[c][i] = i
    /\ call[c].pc \in {"idle", "lookup"} => call[c].from = 0 /\ Len(wire[c]) = 0
    /\ call[c].pc \notin {"write", "ok", "failed"} => call[c].at = 0
    /\ call[c].pc = "batch" =>
          Len(wire[c]) = IF call[c].from > call[c].n THEN call[c].n ELSE call[c].from
    /\ call[c].pc \in InBatch => /\ call[c].from <= call[c].n
                                 /\ Len(wire[c]) = call[c].from + call[c].at
                                 /\ call[c].at <= batchLen(c)
    /\ call[c].pc = "ok" => Len(wire[c]) = call[c].n

Gone(c) == {k \in batch(c) : marshal[c][k] = "gone"}

(* Encoding goroutines run only while their call collects, or after it     *)
(* gave up.  Every one that has ended has its result counted or in errCh,  *)
(* and one that failed has it in errCh still; so once every result was     *)
(* counted all messages of the batch are in the slice.                     *)
MarshalOK(c) ==
    /\ call[c].pc \notin {"collect", "failed"} =>
          errCh[c] = <<>> /\ \A k \in Messages : marshal[c][k] \in {"none", "gone"}
    /\ call[c].pc \in {"idle", "lookup", "batch"} => call[c].got = 0
    /\ call[c].pc = "collect" =>
          /\ \A k \in Messages \ batch(c) : marshal[c][k] \in {"none", "gone"}
          /\ \A k \in batch(c) :
                /\ marshal[c][k] # "none"
                /\ marshal[c][k] = "stored" => k \in objects[c]
                /\ marshal[c][k] = "gone" /\ k \notin objects[c] =>
                      \E i \in 1..Len(errCh[c]) : errCh[c][i] = FALSE
          /\ call[c].got + Len(errCh[c]) = Cardinality(Gone(c))
    /\ call[c].pc \in InWriter => batch(c) \subseteq objects[c]

CallerOK(c) == LateOK(c) /\ GivenOK(c) /\ WireOK(c) /\ MarshalOK(c)

PublishIInv ==
    /\ HandlerIInv
    /\ PublishTypeOK
    /\ \A c \in Callers : CallerOK(c)

-------------------------------------------------------------------------------
(* The call goes to pc; where its batch begins, the results it received and *)
(* the objects it wrote are as given.  Other calls stay where they are.     *)
CallMoves(c, pc, from, got, at) ==
    /\ call' \in [Callers -> CallRec]
    /\ \A d \in Callers \ {c} : call'[d] = call[d]
    /\ call'[c].pc = pc
    /\ call'[c].kind = call[c].kind /\ call'[c].n = call[c].n
    /\ call'[c].size = call[c].size /\ call'[c].pub = call[c].pub
    /\ call'[c].from = from /\ call'[c].got = got /\ call'[c].at = at

(* The assignment of a place alone. *)
LEMMA CallGoes ==
  ASSUME call \in [Callers -> CallRec], NEW c \in Callers, NEW pc \in CallPCs, Goes(c, pc)
  PROVE  CallMoves(c, pc, call[c].from, call[c].got, call[c].at)
  BY DEF Goes, CallMoves, CallRec

(* Nothing but c's own part of the state changes. *)
OthersStay(c) ==
    \A d \in Callers \ {c} :
        /\ call'[d] = call[d] /\ marshal'[d] = marshal[d] /\ objects'[d] = objects[d]
        /\ errCh'[d] = errCh[d] /\ wire'[d] = wire[d] /\ late'[d] = late[d]

(* What leaves a call's part of the invariant alone: its own state stays, *)
(* and a writer that is closed stays closed.                              *)
LEMMA CallerStays ==
  ASSUME NEW c \in Callers, CallerOK(c),
         call'[c] = call[c], marshal'[c] = marshal[c], objects'[c] = objects[c],
         errCh'[c] = errCh[c], wire'[c] = wire[c], late'[c] = late[c],
         \A p \in Pubs : pubs[p] = "closed" => pubs'[p] = "closed"
  PROVE  CallerOK(c)'
  <1>1. LateOK(c)'
    BY DEF CallerOK, LateOK
  <1>2. GivenOK(c)'
    BY DEF CallerOK, GivenOK
  <1>3. /\ batchEnd(c)' = batchEnd(c)
    BY DEF batchEnd
  <1>4. batchLen(c)' = batchLen(c) /\ batch(c)' = batch(c)
    BY <1>3 DEF batchLen, batch
  <1>5. WireOK(c)'
    BY <1>4 DEF CallerOK, WireOK
  <1>6. Gone(c)' = Gone(c)
    BY <1>4 DEF Gone
  <1>7. MarshalOK(c)'
    BY <1>4, <1>6 DEF CallerOK, MarshalOK
  <1> QED
    BY <1>1, <1>2, <1>5, <1>7 DEF CallerOK

(* A step of one call, or of one of its goroutines. *)
LEMMA CallerStep ==
  ASSUME PublishIInv, UNCHANGED hvars, NEW c \in Callers,
         OthersStay(c), PublishTypeOK', CallerOK(c)'
  PROVE  PublishIInv'
  <1>1. HandlerIInv'
    BY StutterKeeps DEF PublishIInv
  <1>2. pubs' = pubs
    BY DEF hvars
  <1>3. \A d \in Callers \ {c} : CallerOK(d)'
    BY <1>2, CallerStays DEF PublishIInv, OthersStay
  <1> QED
    BY <1>1, <1>3 DEF PublishIInv

(* The numbers of a call. *)
LEMMA CallNumbers ==
  ASSUME call \in [Callers -> CallRec], NEW c \in Callers
  PROVE  /\ call[c].from \in Nat /\ call[c].size \in Nat /\ call[c].got \in Nat
         /\ call[c].at \in Nat /\ call[c].n \in Nat /\ call[c].n <= MaxMessages
         /\ MaxMessages \in Nat
  <1>1. call[c] \in CallRec
    OBVIOUS
  <1>2. /\ call[c].from \in Nat /\ call[c].size \in Nat /\ call[c].got \in Nat
        /\ call[c].at \in Nat /\ call[c].n \in 0..MaxMessages
    BY <1>1 DEF CallRec
  <1>3. MaxMessages \in Nat
    BY PublishAssumption
  <1> QED
    BY <1>2, <1>3

(* A batch that begins among the messages of the call lies among them. *)
LEMMA BatchBounds ==
  ASSUME call \in [Callers -> CallRec], NEW c \in Callers, call[c].from <= call[c].n
  PROVE  /\ batchEnd(c) \in Nat /\ batchEnd(c) <= call[c].n
         /\ batchLen(c) \in Nat /\ batchEnd(c) = call[c].from + batchLen(c)
         /\ batch(c) \subseteq Messages
         /\ \A k \in batch(c) : k \in Nat /\ k > call[c].from /\ k <= batchEnd(c)
         /\ \A i \in Nat : i < batchLen(c) => call[c].from + i + 1 \in batch(c)
         /\ IsFiniteSet(batch(c)) /\ Cardinality(batch(c)) = batchLen(c)
  <1>1. /\ call[c].from \in Nat /\ call[c].n \in Nat /\ call[c].n <= MaxMessages
        /\ call[c].size \in Nat /\ MaxMessages \in Nat
    BY CallNumbers
  <1>2. /\ batchEnd(c) \in Nat /\ batchEnd(c) <= call[c].n /\ call[c].from <= batchEnd(c)
    BY <1>1 DEF batchEnd
  <1>3. batchLen(c) \in Nat /\ batchEnd(c) = call[c].from + batchLen(c)
    BY <1>1, <1>2 DEF batchLen
  <1>4. /\ batch(c) = call[c].from + 1..batchEnd(c)
        /\ batch(c) \subseteq Messages
        /\ \A k \in batch(c) : k \in Nat /\ k > call[c].from /\ k <= batchEnd(c)
        /\ \A i \in Nat : i < batchLen(c) => call[c].from + i + 1 \in batch(c)
    <2> DEFINE f == call[c].from
               e == batchEnd(c)
               m == batchLen(c)
    <2>1. batch(c) = f + 1..e
      BY DEF batch
    <2>2. /\ f \in Nat /\ e \in Nat /\ m \in Nat /\ e = f + m /\ e <= call[c].n
      BY <1>1, <1>2, <1>3
    <2> HIDE DEF f, e, m
    <2>3. /\ \A k \in f + 1..e : k \in Nat /\ k > f /\ k <= e
          /\ \A i \in Nat : i < m => f + i + 1 \in f + 1..e
      BY <2>2
    <2>4. f + 1..e \subseteq Messages
      BY <1>1, <2>2 DEF Messages
    <2> QED
      BY <2>1, <2>3, <2>4 DEF f, e, m
  <1>5. IsFiniteSet(batch(c)) /\ Cardinality(batch(c)) = batchLen(c)
    <2>1. call[c].from + 1 \in Int /\ batchEnd(c) \in Int
      BY <1>1, <1>2
    <2>2. /\ IsFiniteSet(batch(c))
          /\ Cardinality(batch(c)) = IF call[c].from + 1 > batchEnd(c) THEN 0
                                     ELSE batchEnd(c) - (call[c].from + 1) + 1
      BY <2>1, <1>4, FS_Interval
    <2> QED
      BY <2>2, <1>1, <1>2, <1>3
  <1> QED
    BY <1>2, <1>3, <1>4, <1>5

(* A call begins. *)
LEMMA PublishStartsKeeps ==
  ASSUME PublishIInv, NEW c \in Callers, NEW kind, NEW n, NEW size,
         PublishStarts(c, kind, n, size),
         n \in 0..MaxMessages, size \in Nat, kind \in {"publish", "stream", "batch"},
         kind = "publish" => n = 1 /\ size = 1,
         kind = "stream" => size = n,
         kind = "batch" => size > 0
  PROVE  PublishIInv'
  <1>1. /\ PublishTypeOK /\ LateOK(c) /\ GivenOK(c) /\ WireOK(c) /\ MarshalOK(c)
        /\ call[c].pc = "idle"
    BY DEF PublishIInv, CallerOK, PublishStarts, At
  <1>2. /\ call' \in [Callers -> CallRec]
        /\ \A d \in Callers \ {c} : call'[d] = call[d]
        /\ call'[c].pc = "lookup" /\ call'[c].kind = kind /\ call'[c].n = n
        /\ call'[c].size = size /\ call'[c].pub = call[c].pub
        /\ call'[c].from = call[c].from /\ call'[c].got = call[c].got
        /\ call'[c].at = call[c].at
    BY <1>1 DEF PublishStarts, PublishTypeOK, CallRec, CallPCs
  <1>3. UNCHANGED hvars /\ UNCHANGED <<marshal, objects, errCh, wire, late>>
    BY DEF PublishStarts
  <1>4. LateOK(c)'
    BY <1>1, <1>2, <1>3 DEF LateOK, InBatch, InWriter
  <1>5. GivenOK(c)' /\ WireOK(c)'
    BY <1>1, <1>2, <1>3 DEF GivenOK, WireOK, InBatch, InWriter
  <1>6. MarshalOK(c)'
    BY <1>1, <1>2, <1>3 DEF MarshalOK, InWriter
  <1> QED
    BY <1>1, <1>2, <1>3, <1>4, <1>5, <1>6, CallerStep
    DEF OthersStay, PublishTypeOK, CallerOK

(* The call finds a writer, or none. *)
LEMMA LookUpKeeps ==
  ASSUME PublishIInv, NEW c \in Callers, LookUp(c) PROVE PublishIInv'
  <1>1. /\ PublishTypeOK /\ LateOK(c) /\ GivenOK(c) /\ WireOK(c) /\ MarshalOK(c)
        /\ call[c].pc = "lookup" /\ curPub \in Pubs \union {None}
    BY DEF PublishIInv, CallerOK, LookUp, At, HandlerIInv, HandlerTypeOK
  <1>2. /\ call' \in [Callers -> CallRec]
        /\ \A d \in Callers \ {c} : call'[d] = call[d]
        /\ call'[c].pc = (IF curPub = None THEN "failed" ELSE "batch")
        /\ call'[c].kind = call[c].kind /\ call'[c].n = call[c].n
        /\ call'[c].size = call[c].size /\ call'[c].pub = curPub
        /\ call'[c].from = call[c].from /\ call'[c].got = call[c].got
        /\ call'[c].at = call[c].at
    BY <1>1 DEF LookUp, PublishTypeOK, CallRec, CallPCs
  <1>3. UNCHANGED hvars /\ UNCHANGED <<marshal, objects, errCh, wire, late>>
    BY DEF LookUp
  <1>4. LateOK(c)'
    BY <1>1, <1>2, <1>3 DEF LateOK, InBatch, InWriter
  <1>5. GivenOK(c)'
    BY <1>1, <1>2 DEF GivenOK
  <1>6. WireOK(c)'
    <2>1. call[c].from = 0 /\ Len(wire[c]) = 0 /\ call[c].n \in Nat
      BY <1>1, CallNumbers DEF WireOK, PublishTypeOK
    <2>2. /\ call'[c].pc \in {"failed", "batch"} /\ call[c].at = 0
          /\ \A i \in 1..Len(wire[c]) : wire[c][i] = i
      BY <1>1, <1>2 DEF WireOK
    <2>3. Len(wire'[c]) = IF call'[c].from > call'[c].n THEN call'[c].n ELSE call'[c].from
      BY <1>2, <1>3, <2>1
    <2> QED
      BY <1>2, <1>3, <2>2, <2>3 DEF WireOK, InBatch, InWriter
  <1>7. MarshalOK(c)'
    BY <1>1, <1>2, <1>3 DEF MarshalOK, InWriter
  <1> QED
    BY <1>1, <1>2, <1>3, <1>4, <1>5, <1>6, <1>7, CallerStep
    DEF OthersStay, PublishTypeOK, CallerOK

(* What a step of a call starts from. *)
LEMMA CallerKnows ==
  ASSUME PublishIInv, NEW c \in Callers
  PROVE  /\ PublishTypeOK /\ call \in [Callers -> CallRec]
         /\ LateOK(c) /\ GivenOK(c) /\ WireOK(c) /\ MarshalOK(c)
         /\ late[c] \in Nat /\ wire[c] \in Seq(Nat) /\ errCh[c] \in Seq(BOOLEAN)
         /\ objects[c] \subseteq Messages
         /\ call[c].pc \in CallPCs
  BY DEF PublishIInv, CallerOK, PublishTypeOK, CallRec

(* A call gives up: at no place does that disturb anything. *)
LEMMA CallFails ==
  ASSUME PublishIInv, NEW c \in Callers, UNCHANGED hvars, OthersStay(c),
         Goes(c, "failed"), call[c].pc \notin {"idle", "ok"},
         UNCHANGED <<marshal, wire, late>>,
         objects' \in [Callers -> SUBSET Messages], errCh' \in [Callers -> Seq(BOOLEAN)]
  PROVE  PublishIInv'
  <1>1. /\ PublishTypeOK /\ LateOK(c) /\ GivenOK(c) /\ WireOK(c) /\ MarshalOK(c)
        /\ call \in [Callers -> CallRec] /\ "failed" \in CallPCs
    BY CallerKnows DEF CallPCs
  <1>2. CallMoves(c, "failed", call[c].from, call[c].got, call[c].at)
    BY <1>1, CallGoes
  <1>3. LateOK(c)'
    BY <1>1, <1>2 DEF LateOK, InBatch, InWriter, CallMoves, hvars
  <1>4. GivenOK(c)'
    BY <1>1, <1>2 DEF GivenOK, CallMoves
  <1>5. WireOK(c)'
    BY <1>1, <1>2 DEF WireOK, InBatch, InWriter, CallMoves
  <1>6. MarshalOK(c)'
    BY <1>2 DEF MarshalOK, InWriter, CallMoves
  <1> QED
    BY <1>1, <1>2, <1>3, <1>4, <1>5, <1>6, CallerStep
    DEF OthersStay, PublishTypeOK, CallerOK, CallMoves

(* The call goes on within its batch, or within TrackWriter.Write, where  *)
(* all objects are in the slice.                                          *)
LEMMA CallGoesOn ==
  ASSUME PublishIInv, NEW c \in Callers, UNCHANGED hvars, OthersStay(c),
         NEW pc \in InWriter, Goes(c, pc), call[c].pc \in InBatch, call[c].at = 0,
         UNCHANGED <<marshal, wire, errCh, objects>>,
         late' \in [Callers -> Nat], late'[c] <= 1,
         late'[c] = 1 => pc # "open" /\ pubs[call[c].pub] = "closed",
         errCh[c] = <<>>, \A k \in Messages : marshal[c][k] \in {"none", "gone"},
         batch(c) \subseteq objects[c]
  PROVE  PublishIInv'
  <1>1. /\ PublishTypeOK /\ LateOK(c) /\ GivenOK(c) /\ WireOK(c) /\ MarshalOK(c)
        /\ call \in [Callers -> CallRec] /\ pc \in CallPCs
    BY CallerKnows DEF CallPCs, InWriter
  <1>2. CallMoves(c, pc, call[c].from, call[c].got, call[c].at)
    BY <1>1, CallGoes
  <1>3. LateOK(c)'
    BY <1>1, <1>2 DEF LateOK, InBatch, InWriter, CallMoves, hvars
  <1>4. GivenOK(c)'
    BY <1>1, <1>2 DEF GivenOK, CallMoves, InBatch, InWriter
  <1>5. batchEnd(c)' = batchEnd(c)
    BY <1>2 DEF batchEnd, CallMoves
  <1>6. batchLen(c)' = batchLen(c) /\ batch(c)' = batch(c)
    BY <1>2, <1>5 DEF batchLen, batch, CallMoves
  <1>7. WireOK(c)'
    BY <1>1, <1>2, <1>6 DEF WireOK, InBatch, InWriter, CallMoves
  <1>8. MarshalOK(c)'
    BY <1>1, <1>2, <1>6 DEF MarshalOK, InWriter, CallMoves
  <1> QED
    BY <1>1, <1>2, <1>3, <1>4, <1>7, <1>8, CallerStep
    DEF OthersStay, PublishTypeOK, CallerOK, CallMoves

(* TrackWriter.Write: the closed check, and the publisher. *)
LEMMA WriterCheckKeeps ==
  ASSUME PublishIInv, NEW c \in Callers, WriterCheck(c) \/ SlotGet(c)
  PROVE  PublishIInv'
  <1>1. /\ LateOK(c) /\ WireOK(c) /\ MarshalOK(c) /\ PublishTypeOK /\ late[c] \in Nat
    BY CallerKnows
  <1>2. /\ UNCHANGED hvars /\ UNCHANGED <<marshal, objects, errCh, wire, late>>
        /\ call[c].pc \in {"check", "get"}
        /\ Goes(c, "failed") \/ \E pc \in {"get", "open"} :
              /\ Goes(c, pc)
              /\ pc = "get" => pubs[call[c].pub] # "closed"
              /\ pc = "open" => pubs[call[c].pub] # "closed"
    BY DEF WriterCheck, SlotGet, At
  <1>3. OthersStay(c) \/ ~(\E pc \in CallPCs : Goes(c, pc))
    BY <1>1, <1>2, CallGoes DEF OthersStay, CallMoves, PublishTypeOK
  <1>4. OthersStay(c)
    BY <1>2, <1>3 DEF CallPCs
  <1>5. CASE Goes(c, "failed")
    BY <1>1, <1>2, <1>4, <1>5, CallFails DEF PublishTypeOK
  <1>6. CASE \E pc \in {"get", "open"} :
              /\ Goes(c, pc)
              /\ pc = "get" => pubs[call[c].pub] # "closed"
              /\ pc = "open" => pubs[call[c].pub] # "closed"
    <2>1. PICK pc \in {"get", "open"} : Goes(c, pc) /\ pubs[call[c].pub] # "closed"
      BY <1>6
    <2>2. /\ pc \in InWriter /\ call[c].pc \in InBatch /\ call[c].at = 0
          /\ errCh[c] = <<>> /\ \A k \in Messages : marshal[c][k] \in {"none", "gone"}
          /\ batch(c) \subseteq objects[c]
      BY <1>1, <1>2 DEF InWriter, InBatch, WireOK, MarshalOK
    <2>3. late[c] <= 1 /\ late[c] # 1
      BY <1>1, <2>1 DEF LateOK
    <2>4. late' \in [Callers -> Nat] /\ late'[c] = late[c]
      BY <1>1, <1>2 DEF PublishTypeOK
    <2> QED
      BY <1>2, <1>4, <2>1, <2>2, <2>3, <2>4, CallGoesOn
  <1> QED
    BY <1>2, <1>5, <1>6

(* The subgroup is opened, on a closed writer once at most. *)
LEMMA OpenSubgroupKeeps ==
  ASSUME PublishIInv, NEW c \in Callers, OpenSubgroup(c) PROVE PublishIInv'
  <1>1. /\ LateOK(c) /\ WireOK(c) /\ MarshalOK(c) /\ PublishTypeOK /\ late[c] \in Nat
        /\ call \in [Callers -> CallRec] /\ call[c].pc = "open"
    BY CallerKnows DEF OpenSubgroup, At
  <1>2. UNCHANGED hvars /\ UNCHANGED <<marshal, objects, errCh, wire>>
    BY DEF OpenSubgroup
  <1>3. CASE Goes(c, "failed") /\ UNCHANGED late
    <2>1. OthersStay(c)
      BY <1>1, <1>2, <1>3, CallGoes DEF OthersStay, CallMoves, CallPCs
    <2> QED
      BY <1>1, <1>2, <1>3, <2>1, CallFails DEF PublishTypeOK
  <1>4. CASE /\ Goes(c, "write")
             /\ late' = [late EXCEPT ![c] = IF pubs[call[c].pub] = "closed" THEN @ + 1 ELSE @]
    <2>1. late[c] = 0
      BY <1>1 DEF LateOK
    <2>2. /\ late' \in [Callers -> Nat] /\ late'[c] <= 1
          /\ late'[c] = 1 => pubs[call[c].pub] = "closed"
          /\ \A d \in Callers \ {c} : late'[d] = late[d]
      BY <1>1, <1>4, <2>1 DEF PublishTypeOK
    <2>3. OthersStay(c)
      BY <1>1, <1>2, <1>4, <2>2, CallGoes DEF OthersStay, CallMoves, CallPCs
    <2>4. /\ "write" \in InWriter /\ call[c].pc \in InBatch /\ call[c].at = 0
          /\ errCh[c] = <<>> /\ \A k \in Messages : marshal[c][k] \in {"none", "gone"}
          /\ batch(c) \subseteq objects[c]
      BY <1>1 DEF InWriter, InBatch, WireOK, MarshalOK
    <2> QED
      BY <1>2, <1>4, <2>2, <2>3, <2>4, CallGoesOn
  <1> QED
    BY <1>3, <1>4 DEF OpenSubgroup

(* A write fails. *)
LEMMA WriteFailsKeeps ==
  ASSUME PublishIInv, NEW c \in Callers, WriteFails(c) PROVE PublishIInv'
  <1>1. /\ PublishTypeOK /\ call \in [Callers -> CallRec] /\ call[c].pc = "write"
    BY CallerKnows DEF WriteFails, At
  <1>2. /\ UNCHANGED hvars /\ UNCHANGED <<marshal, objects, errCh, wire, late>>
        /\ Goes(c, "failed")
    BY DEF WriteFails
  <1>3. OthersStay(c)
    BY <1>1, <1>2, CallGoes DEF OthersStay, CallMoves, CallPCs
  <1> QED
    BY <1>1, <1>2, <1>3, CallFails DEF PublishTypeOK

(* The next object is written: it is the one that was encoded for it. *)
LEMMA WriteObjectKeeps ==
  ASSUME PublishIInv, NEW c \in Callers, WriteObject(c) PROVE PublishIInv'
  <1> DEFINE k == call[c].from + call[c].at + 1
  <1>1. /\ LateOK(c) /\ GivenOK(c) /\ WireOK(c) /\ MarshalOK(c) /\ PublishTypeOK
        /\ call \in [Callers -> CallRec] /\ call[c].pc = "write"
        /\ wire[c] \in Seq(Nat)
    BY CallerKnows DEF WriteObject, At
  <1>2. /\ UNCHANGED hvars /\ UNCHANGED <<marshal, objects, errCh, late>>
        /\ call' = [call EXCEPT ![c].at = @ + 1]
        /\ wire' = [wire EXCEPT ![c] = Append(@, IF k \in objects[c] THEN k ELSE None)]
        /\ k \in batch(c)
    BY DEF WriteObject
  <1>3. /\ k \in objects[c] /\ call[c].from <= call[c].n
        /\ Len(wire[c]) = call[c].from + call[c].at
    BY <1>1, <1>2 DEF MarshalOK, WireOK, InWriter, InBatch
  <1>4. /\ call[c].at \in Nat /\ call[c].from \in Nat /\ batchLen(c) \in Nat
        /\ k \in Nat /\ k <= batchEnd(c) /\ batchEnd(c) = call[c].from + batchLen(c)
    BY <1>1, <1>2, <1>3, BatchBounds, CallNumbers
  <1>5. call[c].at + 1 \in Nat /\ call[c].at + 1 <= batchLen(c) /\ k = Len(wire[c]) + 1
    BY <1>3, <1>4
  <1>6. CallMoves(c, "write", call[c].from, call[c].got, call[c].at + 1)
    BY <1>1, <1>2, <1>5 DEF CallMoves, CallRec
  <1>7. /\ wire' \in [Callers -> Seq(Nat)]
        /\ \A d \in Callers \ {c} : wire'[d] = wire[d]
        /\ wire'[c] = Append(wire[c], k)
    <2>1. Append(wire[c], k) \in Seq(Nat)
      BY <1>1, <1>4, AppendProperties
    <2>2. wire' = [wire EXCEPT ![c] = Append(wire[c], k)]
      BY <1>2, <1>3
    <2> HIDE DEF k
    <2> QED
      BY <1>1, <2>1, <2>2 DEF PublishTypeOK
  <1>8. /\ Len(wire'[c]) = Len(wire[c]) + 1
        /\ \A i \in 1..Len(wire'[c]) : wire'[c][i] = i
    <2>1. \A i \in 1..Len(wire[c]) : wire[c][i] = i
      BY <1>1 DEF WireOK
    <2> HIDE DEF k
    <2>2. /\ Len(wire'[c]) = Len(wire[c]) + 1
          /\ \A i \in 1..Len(wire[c]) : wire'[c][i] = wire[c][i]
          /\ wire'[c][Len(wire[c]) + 1] = k
      BY <1>1, <1>4, <1>7, AppendProperties
    <2>3. Len(wire[c]) \in Nat
      BY <1>1, LenProperties
    <2> QED
      BY <2>1, <2>2, <2>3, <1>5
  <1> HIDE DEF k
  <1>9. batchEnd(c)' = batchEnd(c)
    BY <1>6 DEF batchEnd, CallMoves
  <1>10. batchLen(c)' = batchLen(c) /\ batch(c)' = batch(c)
    BY <1>6, <1>9 DEF batchLen, batch, CallMoves
  <1>11. LateOK(c)' /\ GivenOK(c)'
    BY <1>1, <1>2, <1>6 DEF LateOK, GivenOK, InBatch, InWriter, CallMoves, hvars
  <1>12. WireOK(c)'
    <2>1. Len(wire'[c]) = call'[c].from + call'[c].at
      BY <1>3, <1>4, <1>6, <1>8 DEF CallMoves
    <2> QED
      BY <1>3, <1>5, <1>6, <1>8, <1>10, <2>1 DEF WireOK, InBatch, InWriter, CallMoves
  <1>13. MarshalOK(c)'
    BY <1>1, <1>2, <1>6, <1>10 DEF MarshalOK, InWriter, CallMoves
  <1> QED
    BY <1>1, <1>2, <1>6, <1>7, <1>11, <1>12, <1>13, CallerStep
    DEF OthersStay, PublishTypeOK, CallerOK, CallMoves

(* The subgroup is closed: the whole batch is on the wire. *)
LEMMA CloseSubgroupKeeps ==
  ASSUME PublishIInv, NEW c \in Callers, CloseSubgroup(c) PROVE PublishIInv'
  <1> DEFINE pc == IF call[c].kind = "batch" THEN "batch" ELSE "ok"
  <1>1. /\ LateOK(c) /\ GivenOK(c) /\ WireOK(c) /\ MarshalOK(c) /\ PublishTypeOK
        /\ call \in [Callers -> CallRec] /\ call[c].pc = "write"
        /\ call[c].at = batchLen(c)
    BY CallerKnows DEF CloseSubgroup, At
  <1>2. /\ UNCHANGED hvars /\ UNCHANGED <<marshal, objects, errCh, wire, late>>
        /\ call' = [call EXCEPT ![c] = nextBatch(c)]
    BY DEF CloseSubgroup
  <1>3. /\ call[c].from \in Nat /\ call[c].size \in Nat /\ call[c].n \in Nat
        /\ call[c].from + call[c].size \in Nat
    BY <1>1, CallNumbers
  <1>4. CallMoves(c, pc, call[c].from + call[c].size, 0, 0)
    <2>1. pc \in CallPCs
      BY DEF CallPCs
    <2> HIDE DEF pc
    <2>2. /\ nextBatch(c) \in CallRec
          /\ nextBatch(c).pc = pc /\ nextBatch(c).from = call[c].from + call[c].size
          /\ nextBatch(c).got = 0 /\ nextBatch(c).at = 0
          /\ nextBatch(c).kind = call[c].kind /\ nextBatch(c).n = call[c].n
          /\ nextBatch(c).size = call[c].size /\ nextBatch(c).pub = call[c].pub
      <3>1. nextBatch(c) = [call[c] EXCEPT !.from = call[c].from + call[c].size,
                                           !.at = 0, !.got = 0, !.pc = pc]
        BY DEF nextBatch, pc
      <3>2. call[c] \in CallRec
        BY <1>1
      <3>3. nextBatch(c) \in CallRec
        <4> DEFINE f == call[c].from + call[c].size
        <4> HIDE DEF f
        <4>1. f \in Nat
          BY <1>3 DEF f
        <4>2. nextBatch(c) = [call[c] EXCEPT !.from = f, !.at = 0, !.got = 0, !.pc = pc]
          BY <3>1 DEF f
        <4>3. [call[c] EXCEPT !.from = f] \in CallRec
          BY <3>2, <4>1 DEF CallRec
        <4>4. [call[c] EXCEPT !.from = f, !.at = 0] \in CallRec
          BY <4>3 DEF CallRec
        <4>5. [call[c] EXCEPT !.from = f, !.at = 0, !.got = 0] \in CallRec
          BY <4>4 DEF CallRec
        <4>6. [call[c] EXCEPT !.from = f, !.at = 0, !.got = 0, !.pc = pc] \in CallRec
          BY <2>1, <4>5 DEF CallRec
        <4> QED
          BY <4>2, <4>6
      <3> QED
        BY <3>1, <3>2, <3>3 DEF CallRec
    <2> QED
      BY <1>1, <1>2, <2>2 DEF CallMoves
  <1>5. /\ call[c].from <= call[c].n /\ Len(wire[c]) = call[c].from + call[c].at
        /\ \A i \in 1..Len(wire[c]) : wire[c][i] = i
        /\ call[c].pub \in Pubs
        /\ call[c].kind \in {"publish", "stream", "batch"}
        /\ call[c].kind = "publish" => call[c].n = 1 /\ call[c].size = 1
        /\ call[c].kind = "stream" => call[c].size = call[c].n
        /\ call[c].kind # "batch" => call[c].from = 0
        /\ call[c].kind = "batch" => call[c].size > 0
        /\ errCh[c] = <<>> /\ \A k \in Messages : marshal[c][k] \in {"none", "gone"}
        /\ late[c] <= 1 /\ (late[c] = 1 => pubs[call[c].pub] = "closed")
    BY <1>1 DEF WireOK, LateOK, GivenOK, MarshalOK, InBatch, InWriter
  <1>6. Len(wire[c]) = IF call[c].from + call[c].size > call[c].n
                         THEN call[c].n ELSE call[c].from + call[c].size
    <2>1. Len(wire[c]) = batchEnd(c)
      BY <1>1, <1>5, BatchBounds
    <2> QED
      BY <2>1 DEF batchEnd
  <1>7. call[c].kind # "batch" => Len(wire[c]) = call[c].n
    BY <1>3, <1>5, <1>6
  <1>8. pc \in {"batch", "ok"} /\ (pc = "ok" <=> call[c].kind # "batch")
    OBVIOUS
  <1> HIDE DEF pc
  <1>9. LateOK(c)' /\ GivenOK(c)'
    BY <1>2, <1>4, <1>5, <1>8 DEF LateOK, GivenOK, InBatch, InWriter, CallMoves, hvars
  <1>10. WireOK(c)'
    BY <1>2, <1>4, <1>5, <1>6, <1>7, <1>8 DEF WireOK, InBatch, InWriter, CallMoves
  <1>11. MarshalOK(c)'
    BY <1>2, <1>4, <1>5, <1>8 DEF MarshalOK, InWriter, CallMoves
  <1> QED
    BY <1>1, <1>2, <1>4, <1>9, <1>10, <1>11, CallerStep
    DEF OthersStay, PublishTypeOK, CallerOK, CallMoves

(* Publish encodes its message. *)
LEMMA MarshalInlineKeeps ==
  ASSUME PublishIInv, NEW c \in Callers, MarshalInline(c) PROVE PublishIInv'
  <1>1. /\ LateOK(c) /\ GivenOK(c) /\ WireOK(c) /\ MarshalOK(c) /\ PublishTypeOK
        /\ call \in [Callers -> CallRec] /\ call[c].pc = "batch" /\ call[c].kind = "publish"
    BY CallerKnows DEF MarshalInline, At
  <1>2. UNCHANGED hvars /\ UNCHANGED <<marshal, errCh, wire, late>>
    BY DEF MarshalInline
  <1>3. CASE Goes(c, "failed") /\ UNCHANGED objects
    <2>1. OthersStay(c)
      BY <1>1, <1>2, <1>3, CallGoes DEF OthersStay, CallMoves, CallPCs
    <2> QED
      BY <1>1, <1>2, <1>3, <2>1, CallFails DEF PublishTypeOK
  <1>4. CASE Goes(c, "check") /\ objects' = [objects EXCEPT ![c] = {1}]
    <2>1. /\ call[c].n = 1 /\ call[c].size = 1 /\ call[c].from = 0 /\ call[c].at = 0
          /\ Len(wire[c]) = 0 /\ call[c].pub \in Pubs
          /\ \A i \in 1..Len(wire[c]) : wire[c][i] = i
          /\ errCh[c] = <<>> /\ \A k \in Messages : marshal[c][k] \in {"none", "gone"}
          /\ late[c] <= 1 /\ (late[c] = 1 => pubs[call[c].pub] = "closed")
      BY <1>1 DEF GivenOK, WireOK, LateOK, MarshalOK, InBatch, InWriter
    <2>2. CallMoves(c, "check", 0, call[c].got, 0)
      BY <1>1, <1>4, <2>1, CallGoes DEF CallPCs
    <2>3. batchEnd(c)' = 1
      BY <2>1, <2>2 DEF batchEnd, CallMoves
    <2>4. batchLen(c)' = 1 /\ batch(c)' = {1}
      BY <2>2, <2>3 DEF batchLen, batch, CallMoves
    <2>5. /\ objects' \in [Callers -> SUBSET Messages] /\ objects'[c] = {1}
          /\ \A d \in Callers \ {c} : objects'[d] = objects[d]
      BY <1>1, <1>4, PublishAssumption DEF PublishTypeOK, Messages
    <2>6. LateOK(c)' /\ GivenOK(c)'
      BY <1>1, <1>2, <2>1, <2>2 DEF LateOK, GivenOK, InBatch, InWriter, CallMoves, hvars
    <2>7. WireOK(c)'
      BY <1>2, <2>1, <2>2, <2>4 DEF WireOK, InBatch, InWriter, CallMoves
    <2>8. MarshalOK(c)'
      BY <1>2, <2>1, <2>2, <2>4, <2>5 DEF MarshalOK, InWriter, CallMoves
    <2> QED
      BY <1>1, <1>2, <2>2, <2>5, <2>6, <2>7, <2>8, CallerStep
      DEF OthersStay, PublishTypeOK, CallerOK, CallMoves
  <1> QED
    BY <1>3, <1>4 DEF MarshalInline

(* BatchPublish is done, or the encoding of a batch starts. *)
LEMMA StartBatchKeeps ==
  ASSUME PublishIInv, NEW c \in Callers, StartBatch(c) PROVE PublishIInv'
  <1>1. /\ LateOK(c) /\ GivenOK(c) /\ WireOK(c) /\ MarshalOK(c) /\ PublishTypeOK
        /\ call \in [Callers -> CallRec] /\ call[c].pc = "batch" /\ call[c].kind # "publish"
    BY CallerKnows DEF StartBatch, At
  <1>2. UNCHANGED hvars /\ UNCHANGED <<objects, errCh, wire, late>>
    BY DEF StartBatch
  <1>3. /\ call[c].at = 0 /\ call[c].got = 0 /\ call[c].pub \in Pubs
        /\ call[c].kind \in {"batch", "stream"}
        /\ call[c].kind = "stream" => call[c].size = call[c].n /\ call[c].from = 0
        /\ call[c].kind = "batch" => call[c].size > 0
        /\ Len(wire[c]) = IF call[c].from > call[c].n THEN call[c].n ELSE call[c].from
        /\ \A i \in 1..Len(wire[c]) : wire[c][i] = i
        /\ errCh[c] = <<>> /\ \A k \in Messages : marshal[c][k] \in {"none", "gone"}
        /\ late[c] <= 1 /\ (late[c] = 1 => pubs[call[c].pub] = "closed")
    BY <1>1 DEF GivenOK, WireOK, LateOK, MarshalOK, InBatch, InWriter
  <1>4. call[c].from \in Nat /\ call[c].n \in Nat
    BY <1>1, CallNumbers
  <1>5. CASE call[c].kind = "batch" /\ call[c].from >= call[c].n
    <2>1. Goes(c, "ok") /\ UNCHANGED marshal
      BY <1>5 DEF StartBatch
    <2>2. CallMoves(c, "ok", call[c].from, 0, 0)
      BY <1>1, <1>3, <2>1, CallGoes DEF CallPCs
    <2>3. Len(wire[c]) = call[c].n
      BY <1>3, <1>4, <1>5
    <2>4. LateOK(c)' /\ GivenOK(c)'
      BY <1>2, <1>3, <1>5, <2>2 DEF LateOK, GivenOK, InBatch, InWriter, CallMoves, hvars
    <2>5. WireOK(c)'
      BY <1>2, <1>3, <2>2, <2>3 DEF WireOK, InBatch, InWriter, CallMoves
    <2>6. MarshalOK(c)'
      BY <1>2, <1>3, <2>1, <2>2 DEF MarshalOK, InWriter, CallMoves
    <2> QED
      BY <1>1, <1>2, <2>1, <2>2, <2>4, <2>5, <2>6, CallerStep
      DEF OthersStay, PublishTypeOK, CallerOK, CallMoves
  <1>6. CASE ~(call[c].kind = "batch" /\ call[c].from >= call[c].n)
    <2>1. /\ Goes(c, "collect")
          /\ marshal' = [marshal EXCEPT ![c] =
                [k \in Messages |-> IF k \in batch(c) THEN "running" ELSE @[k]]]
      BY <1>6 DEF StartBatch
    <2>2. CallMoves(c, "collect", call[c].from, 0, 0)
      BY <1>1, <1>3, <2>1, CallGoes DEF CallPCs
    <2>3. call[c].from <= call[c].n /\ Len(wire[c]) = call[c].from
      BY <1>3, <1>4, <1>6
    <2>4. /\ batchLen(c) \in Nat /\ batch(c) \subseteq Messages
      BY <1>1, <2>3, BatchBounds
    <2>5. batchEnd(c)' = batchEnd(c)
      BY <2>2 DEF batchEnd, CallMoves
    <2>6. batchLen(c)' = batchLen(c) /\ batch(c)' = batch(c)
      BY <2>2, <2>5 DEF batchLen, batch, CallMoves
    <2>7. /\ marshal' \in
               [Callers -> [Messages -> {"none", "running", "stored", "failed", "gone"}]]
          /\ \A d \in Callers \ {c} : marshal'[d] = marshal[d]
          /\ \A k \in batch(c) : marshal'[c][k] = "running"
          /\ \A k \in Messages \ batch(c) : marshal'[c][k] = marshal[c][k]
      BY <1>1, <2>1, <2>4 DEF PublishTypeOK
    <2>8. LateOK(c)' /\ GivenOK(c)'
      BY <1>1, <1>2, <1>3, <2>2 DEF LateOK, GivenOK, InBatch, InWriter, CallMoves, hvars
    <2>9. WireOK(c)'
      <3>1. Len(wire[c]) = call'[c].from + call'[c].at
        BY <1>4, <2>2, <2>3 DEF CallMoves
      <3> QED
        BY <1>2, <1>3, <2>2, <2>3, <2>4, <2>6, <3>1
        DEF WireOK, InBatch, InWriter, CallMoves
    <2>10. Gone(c)' = {}
      BY <2>6, <2>7 DEF Gone
    <2>11. call'[c].got + Len(errCh'[c]) = Cardinality(Gone(c)')
      BY <1>2, <1>3, <2>2, <2>10, FS_EmptySet, EmptySeq DEF CallMoves
    <2>12. MarshalOK(c)'
      BY <1>2, <1>3, <2>2, <2>6, <2>7, <2>11 DEF MarshalOK, InWriter, CallMoves
    <2> QED
      BY <1>1, <1>2, <2>2, <2>7, <2>8, <2>9, <2>12, CallerStep
      DEF OthersStay, PublishTypeOK, CallerOK, CallMoves
  <1> QED
    BY <1>5, <1>6

(* A step of an encoding goroutine leaves the call where it is, and it    *)
(* runs only while its call collects, or has failed.                      *)
LEMMA MarshallerStep ==
  ASSUME PublishIInv, NEW c \in Callers, NEW k \in Messages,
         UNCHANGED <<hvars, call, wire, late>>, OthersStay(c),
         marshal[c][k] \in {"running", "stored", "failed"},
         marshal' \in [Callers -> [Messages -> {"none", "running", "stored", "failed", "gone"}]],
         objects' \in [Callers -> SUBSET Messages], errCh' \in [Callers -> Seq(BOOLEAN)],
         call[c].pc = "collect" => MarshalOK(c)'
  PROVE  PublishIInv'
  <1>1. /\ LateOK(c) /\ GivenOK(c) /\ WireOK(c) /\ MarshalOK(c) /\ PublishTypeOK
    BY CallerKnows
  <1>2. call[c].pc \in {"collect", "failed"}
    BY <1>1 DEF MarshalOK
  <1>3. LateOK(c)' /\ GivenOK(c)'
    BY <1>1 DEF LateOK, GivenOK, hvars
  <1>4. batchLen(c)' = batchLen(c)
    BY DEF batchLen, batchEnd
  <1>5. WireOK(c)'
    BY <1>1, <1>4 DEF WireOK
  <1>6. MarshalOK(c)'
    BY <1>2 DEF MarshalOK, InWriter
  <1> QED
    BY <1>1, <1>3, <1>5, <1>6, CallerStep DEF PublishTypeOK, CallerOK, hvars

(* What MarshalOK says of a call that collects. *)
CollectOK(c) ==
    /\ \A k \in Messages \ batch(c) : marshal[c][k] \in {"none", "gone"}
    /\ \A k \in batch(c) :
          /\ marshal[c][k] # "none"
          /\ marshal[c][k] = "stored" => k \in objects[c]
          /\ marshal[c][k] = "gone" /\ k \notin objects[c] =>
                \E i \in 1..Len(errCh[c]) : errCh[c][i] = FALSE
    /\ call[c].got + Len(errCh[c]) = Cardinality(Gone(c))

(* While the call collects, that is all of it. *)
LEMMA MarshalCollects ==
  ASSUME NEW c \in Callers, call[c].pc = "collect"
  PROVE  MarshalOK(c) <=> CollectOK(c)
  BY DEF MarshalOK, CollectOK, InWriter

(* A goroutine stores its result, or fails. *)
LEMMA MarshalStoresKeeps ==
  ASSUME PublishIInv, NEW c \in Callers, NEW k \in Messages, MarshalStores(c, k)
  PROVE  PublishIInv'
  <1>1. /\ MarshalOK(c) /\ PublishTypeOK /\ objects[c] \subseteq Messages
    BY CallerKnows
  <1>2. /\ UNCHANGED <<hvars, call, errCh, wire, late>>
        /\ marshal[c][k] = "running"
    BY DEF MarshalStores
  <1>3. PICK r \in {"stored", "failed"} :
          /\ marshal' = [marshal EXCEPT ![c][k] = r]
          /\ r = "stored" => objects' = [objects EXCEPT ![c] = @ \union {k}]
          /\ r = "failed" => UNCHANGED objects
    BY DEF MarshalStores
  <1>4. /\ marshal' \in
             [Callers -> [Messages -> {"none", "running", "stored", "failed", "gone"}]]
        /\ \A d \in Callers \ {c} : marshal'[d] = marshal[d]
        /\ \A j \in Messages \ {k} : marshal'[c][j] = marshal[c][j]
        /\ marshal'[c][k] = r
    BY <1>1, <1>3 DEF PublishTypeOK
  <1>5. /\ objects' \in [Callers -> SUBSET Messages]
        /\ \A d \in Callers \ {c} : objects'[d] = objects[d]
        /\ objects[c] \subseteq objects'[c] /\ (r = "stored" => k \in objects'[c])
    BY <1>1, <1>3 DEF PublishTypeOK
  <1>6. ASSUME call[c].pc = "collect" PROVE MarshalOK(c)'
    <2>1. CollectOK(c)
      BY <1>1, <1>6, MarshalCollects
    <2>2. batch(c)' = batch(c)
      BY <1>2 DEF batch, batchEnd
    <2>3. Gone(c)' = Gone(c) /\ batch(c) \subseteq Messages
      <3>1. batch(c) \subseteq Messages
        BY <1>6, CallerKnows, BatchBounds DEF WireOK, InBatch
      <3> QED
        BY <1>2, <1>4, <2>2, <3>1 DEF Gone
    <2>4. CollectOK(c)'
      BY <1>2, <1>4, <1>5, <2>1, <2>2, <2>3 DEF CollectOK
    <2> QED
      BY <1>2, <1>6, <2>4 DEF MarshalOK, CollectOK, InWriter
  <1> QED
    BY <1>1, <1>2, <1>4, <1>5, <1>6, MarshallerStep DEF OthersStay, PublishTypeOK

(* A goroutine sends its result and is gone. *)
LEMMA MarshalSendsKeeps ==
  ASSUME PublishIInv, NEW c \in Callers, NEW k \in Messages, MarshalSends(c, k)
  PROVE  PublishIInv'
  <1> DEFINE ok == marshal[c][k] = "stored"
  <1>1. /\ MarshalOK(c) /\ PublishTypeOK /\ objects[c] \subseteq Messages
        /\ call \in [Callers -> CallRec] /\ errCh[c] \in Seq(BOOLEAN)
    BY CallerKnows
  <1>2. /\ UNCHANGED <<hvars, call, objects, wire, late>>
        /\ marshal[c][k] \in {"stored", "failed"}
        /\ marshal' = [marshal EXCEPT ![c][k] = "gone"]
        /\ errCh' = [errCh EXCEPT ![c] = Append(@, ok)]
    BY DEF MarshalSends
  <1>3. /\ marshal' \in
             [Callers -> [Messages -> {"none", "running", "stored", "failed", "gone"}]]
        /\ \A d \in Callers \ {c} : marshal'[d] = marshal[d]
        /\ \A j \in Messages \ {k} : marshal'[c][j] = marshal[c][j]
        /\ marshal'[c][k] = "gone"
    BY <1>1, <1>2 DEF PublishTypeOK
  <1>4. ok \in BOOLEAN
    OBVIOUS
  <1>5. ~ok => marshal[c][k] = "failed"
    BY <1>2
  <1>6. ok => marshal[c][k] = "stored"
    OBVIOUS
  <1> HIDE DEF ok
  <1>7. /\ Append(errCh[c], ok) \in Seq(BOOLEAN)
        /\ Len(Append(errCh[c], ok)) = Len(errCh[c]) + 1 /\ Len(errCh[c]) \in Nat
        /\ \A i \in 1..Len(errCh[c]) : Append(errCh[c], ok)[i] = errCh[c][i]
        /\ Append(errCh[c], ok)[Len(errCh[c]) + 1] = ok
    BY <1>1, <1>4, AppendProperties, LenProperties
  <1>8. /\ errCh' \in [Callers -> Seq(BOOLEAN)]
        /\ \A d \in Callers \ {c} : errCh'[d] = errCh[d]
        /\ errCh'[c] = Append(errCh[c], ok)
    BY <1>1, <1>2, <1>7 DEF PublishTypeOK
  <1>9. ASSUME call[c].pc = "collect" PROVE MarshalOK(c)'
    <2>1. CollectOK(c)
      BY <1>1, <1>9, MarshalCollects
    <2>2. batch(c)' = batch(c)
      BY <1>2 DEF batch, batchEnd
    <2>3. batch(c) \subseteq Messages /\ IsFiniteSet(batch(c))
      BY <1>9, CallerKnows, BatchBounds DEF WireOK, InBatch
    <2>4. k \in batch(c)
      BY <1>2, <2>1 DEF CollectOK
    <2>5. Gone(c)' = Gone(c) \union {k} /\ k \notin Gone(c)
      BY <1>2, <1>3, <2>2, <2>3, <2>4 DEF Gone
    <2>6. IsFiniteSet(Gone(c))
      BY <2>3, FS_Subset DEF Gone
    <2>7. Cardinality(Gone(c)') = Cardinality(Gone(c)) + 1
      BY <2>5, <2>6, FS_AddElement
    <2>8. call[c].got \in Nat
      BY <1>1, CallNumbers
    <2>9. call'[c].got + Len(errCh'[c]) = Cardinality(Gone(c)')
      <3>1. call[c].got + Len(errCh[c]) = Cardinality(Gone(c))
        BY <2>1 DEF CollectOK
      <3>2. call'[c].got = call[c].got /\ Len(errCh'[c]) = Len(errCh[c]) + 1
        BY <1>2, <1>7, <1>8
      <3> QED
        BY <1>7, <2>7, <2>8, <3>1, <3>2
    <2>10. ASSUME NEW j \in batch(c), marshal'[c][j] = "gone", j \notin objects[c]
           PROVE  \E i \in 1..Len(errCh'[c]) : errCh'[c][i] = FALSE
      <3>1. CASE j = k
        <4>1. ok = FALSE
          BY <1>4, <1>6, <2>1, <2>10, <3>1 DEF CollectOK
        <4> QED
          BY <1>7, <1>8, <4>1
      <3>2. CASE j # k
        <4>1. \E i \in 1..Len(errCh[c]) : errCh[c][i] = FALSE
          BY <1>3, <2>1, <2>3, <2>10, <3>2 DEF CollectOK
        <4> QED
          BY <1>7, <1>8, <4>1
      <3> QED
        BY <3>1, <3>2
    <2>11. CollectOK(c)'
      <3>1. \A j \in Messages \ batch(c) : marshal'[c][j] \in {"none", "gone"}
        BY <1>3, <2>1, <2>4 DEF CollectOK
      <3>2. \A j \in batch(c) : /\ marshal'[c][j] # "none"
                                /\ marshal'[c][j] = "stored" => j \in objects[c]
        BY <1>3, <2>1, <2>3 DEF CollectOK
      <3> QED
        BY <1>2, <2>2, <2>9, <2>10, <3>1, <3>2 DEF CollectOK
    <2> QED
      BY <1>2, <1>9, <2>11 DEF MarshalOK, CollectOK, InWriter
  <1> QED
    BY <1>1, <1>2, <1>3, <1>8, <1>9, MarshallerStep DEF OthersStay, PublishTypeOK

(* A result is received.  When one was received of every goroutine, none  *)
(* was a failure, and all encodings of the batch are in the slice.        *)
LEMMA CollectKeeps ==
  ASSUME PublishIInv, NEW c \in Callers, Collect(c) PROVE PublishIInv'
  <1>1. /\ LateOK(c) /\ GivenOK(c) /\ WireOK(c) /\ MarshalOK(c) /\ PublishTypeOK
        /\ call \in [Callers -> CallRec] /\ errCh[c] \in Seq(BOOLEAN)
        /\ call[c].pc = "collect" /\ call[c].at = 0 /\ call[c].from <= call[c].n
    BY CallerKnows DEF Collect, At, WireOK, InBatch
  <1>2. UNCHANGED hvars /\ UNCHANGED <<marshal, objects, wire, late>>
    BY DEF Collect
  <1>3. CollectOK(c)
    BY <1>1, MarshalCollects
  <1>4. /\ call[c].got \in Nat /\ Len(errCh[c]) \in Nat
        /\ batchLen(c) \in Nat /\ batch(c) \subseteq Messages
        /\ IsFiniteSet(batch(c)) /\ Cardinality(batch(c)) = batchLen(c)
    BY <1>1, CallNumbers, BatchBounds, LenProperties
  <1>5. Gone(c) \subseteq batch(c)
    BY DEF Gone
  <1>6. /\ call[c].got + Len(errCh[c]) = Cardinality(Gone(c))
        /\ Cardinality(Gone(c)) \in Nat /\ Cardinality(Gone(c)) <= batchLen(c)
        /\ Cardinality(Gone(c)) = batchLen(c) => Gone(c) = batch(c)
    BY <1>3, <1>4, <1>5, FS_Subset, FS_CardinalityType DEF CollectOK
  <1>7. CASE enough(c)
    <2>1. Goes(c, "check") /\ UNCHANGED errCh
      BY <1>7 DEF Collect
    <2>2. OthersStay(c)
      BY <1>1, <1>2, <2>1, CallGoes DEF OthersStay, CallMoves, CallPCs
    <2>3. call[c].got = batchLen(c)
      BY <1>7 DEF enough
    <2>4. Len(errCh[c]) = 0 /\ Cardinality(Gone(c)) = batchLen(c)
      BY <1>4, <1>6, <2>3
    <2>5. errCh[c] = <<>> /\ Gone(c) = batch(c)
      BY <1>1, <1>6, <2>4, EmptySeq
    <2>6. \A k \in Messages : marshal[c][k] \in {"none", "gone"}
      BY <1>3, <2>5 DEF Gone, CollectOK
    <2>7. batch(c) \subseteq objects[c]
      BY <1>3, <2>4, <2>5 DEF Gone, CollectOK
    <2>8. /\ "check" \in InWriter /\ call[c].pc \in InBatch
          /\ late' \in [Callers -> Nat] /\ late'[c] <= 1
          /\ late'[c] = 1 => pubs[call[c].pub] = "closed"
      BY <1>1, <1>2 DEF InWriter, InBatch, LateOK, PublishTypeOK
    <2> QED
      BY <1>1, <1>2, <2>1, <2>2, <2>5, <2>6, <2>7, <2>8, CallGoesOn
  <1>8. CASE ~enough(c) /\ Head(errCh[c])
    <2>1. /\ errCh[c] # <<>> /\ errCh' = [errCh EXCEPT ![c] = Tail(@)]
          /\ call' = [call EXCEPT ![c].got = @ + 1]
      BY <1>8 DEF Collect
    <2>2. /\ Tail(errCh[c]) \in Seq(BOOLEAN) /\ Len(Tail(errCh[c])) = Len(errCh[c]) - 1
          /\ \A i \in 1..Len(Tail(errCh[c])) : Tail(errCh[c])[i] = errCh[c][i + 1]
          /\ errCh[c][1] # FALSE
      <3>1. /\ Tail(errCh[c]) \in Seq(BOOLEAN) /\ Len(Tail(errCh[c])) = Len(errCh[c]) - 1
            /\ \A i \in 1..Len(Tail(errCh[c])) : Tail(errCh[c])[i] = errCh[c][i + 1]
            /\ Head(errCh[c]) \in BOOLEAN
        BY <1>1, <2>1, HeadTailProperties
      <3>2. Head(errCh[c]) = errCh[c][1]
        BY <1>1, <2>1
      <3>3. Head(errCh[c]) = TRUE
        BY <1>8, <3>1, Zenon
      <3> QED
        BY <3>1, <3>2, <3>3
    <2>3. /\ errCh' \in [Callers -> Seq(BOOLEAN)] /\ errCh'[c] = Tail(errCh[c])
          /\ \A d \in Callers \ {c} : errCh'[d] = errCh[d]
      BY <1>1, <2>1, <2>2 DEF PublishTypeOK
    <2>4. CallMoves(c, "collect", call[c].from, call[c].got + 1, 0)
      <3>1. call[c].got + 1 \in Nat
        BY <1>4
      <3> QED
        BY <1>1, <2>1, <3>1 DEF CallMoves, CallRec
    <2>5. batchEnd(c)' = batchEnd(c)
      BY <2>4 DEF batchEnd, CallMoves
    <2>6. batchLen(c)' = batchLen(c) /\ batch(c)' = batch(c)
      BY <2>4, <2>5 DEF batchLen, batch, CallMoves
    <2>7. LateOK(c)' /\ GivenOK(c)'
      BY <1>1, <1>2, <2>4 DEF LateOK, GivenOK, InBatch, InWriter, CallMoves, hvars
    <2>8. WireOK(c)'
      BY <1>1, <1>2, <2>4, <2>6 DEF WireOK, InBatch, InWriter, CallMoves
    <2>9. Gone(c)' = Gone(c)
      BY <1>2, <2>6 DEF Gone
    <2>10. call'[c].got + Len(errCh'[c]) = Cardinality(Gone(c)')
      <3>1. call'[c].got = call[c].got + 1 /\ Len(errCh'[c]) = Len(errCh[c]) - 1
        BY <2>2, <2>3, <2>4 DEF CallMoves
      <3> QED
        BY <1>4, <1>6, <2>9, <3>1
    <2>11. ASSUME NEW i \in 1..Len(errCh[c]), errCh[c][i] = FALSE
           PROVE  \E j \in 1..Len(errCh'[c]) : errCh'[c][j] = FALSE
      <3>1. i # 1
        BY <2>2, <2>11
      <3>2. i - 1 \in 1..Len(Tail(errCh[c])) /\ i = (i - 1) + 1
        BY <1>4, <2>2, <3>1
      <3>3. Tail(errCh[c])[i - 1] = FALSE
        BY <2>2, <2>11, <3>2
      <3> QED
        BY <2>3, <3>2, <3>3
    <2>12. CollectOK(c)'
      BY <1>2, <1>3, <2>6, <2>10, <2>11 DEF CollectOK
    <2>13. MarshalOK(c)'
      BY <2>4, <2>12 DEF MarshalOK, CollectOK, InWriter, CallMoves
    <2> QED
      BY <1>1, <1>2, <2>3, <2>4, <2>7, <2>8, <2>13, CallerStep
      DEF OthersStay, PublishTypeOK, CallerOK, CallMoves
  <1>9. CASE ~enough(c) /\ ~Head(errCh[c])
    <2>1. /\ errCh[c] # <<>> /\ errCh' = [errCh EXCEPT ![c] = Tail(@)]
          /\ Goes(c, "failed")
      BY <1>9 DEF Collect
    <2>2. Tail(errCh[c]) \in Seq(BOOLEAN)
      BY <1>1, <2>1, HeadTailProperties
    <2>3. /\ errCh' \in [Callers -> Seq(BOOLEAN)]
          /\ \A d \in Callers \ {c} : errCh'[d] = errCh[d]
      BY <1>1, <2>1, <2>2 DEF PublishTypeOK
    <2>4. OthersStay(c)
      BY <1>1, <1>2, <2>1, <2>3, CallGoes DEF OthersStay, CallMoves, CallPCs
    <2> QED
      BY <1>1, <1>2, <2>1, <2>3, <2>4, CallFails DEF PublishTypeOK
  <1> QED
    BY <1>7, <1>8, <1>9

(* A handler step: a writer that is closed stays closed. *)
LEMMA ClosedStaysClosed ==
  ASSUME HandlerIInv, HandlerNext, NEW p \in Pubs, pubs[p] = "closed"
  PROVE  pubs'[p] = "closed"
  <1>1. /\ pubs \in [Pubs -> {"unused", "accepted", "open", "closed"}]
        /\ curPub \in Pubs \union {None} /\ (curPub # None => pubs[curPub] = "open")
    BY DEF HandlerIInv, HandlerTypeOK, PublishersOK
  <1>2. CASE \E q \in Pubs : PeerSubscribes(q)
    BY <1>1, <1>2 DEF PeerSubscribes
  <1>3. CASE \E q \in Pubs : PeerSubscribeLocked(q)
    BY <1>1, <1>3 DEF PeerSubscribeLocked, acceptPublisher
  <1>4. CASE HandlerCloseDrain
    BY <1>1, <1>4 DEF HandlerCloseDrain
  <1>5. CASE \E s \in Subs : \/ \E kind \in {"func", "stream"} : SubscribeStarts(s, kind)
                             \/ SubscribeLocked(s) \/ CallerCancels(s)
                             \/ StreamEnds(s) \/ StreamCloses(s) \/ StreamReceives(s)
    BY <1>5 DEF SubscribeStarts, SubscribeLocked, CallerCancels, StreamEnds, StreamCloses,
                StreamReceives
  <1>6. CASE Unsubscribe \/ HandlerCloseFlag
    BY <1>6 DEF Unsubscribe, HandlerCloseFlag
  <1>7. CASE \E l \in Loops : AttachStarts(l) \/ LoopReads(l) \/ TrackEnds(l)
                              \/ BadMessage(l) \/ ReceiveLoop(l)
    BY <1>7 DEF AttachStarts, LoopReads, TrackEnds, BadMessage, ReceiveLoop, AttachLocked,
                LoopTop, LoopReadFails, LoopChecks, LoopLooksUp, LoopDispatches, LoopCalls,
                HandlerReturns,
                StreamHandlerCancelled, StreamHandlerSends
  <1> QED
    BY <1>2, <1>3, <1>4, <1>5, <1>6, <1>7 DEF HandlerNext

(* A step of the handler, while no call moves. *)
LEMMA HandlerStepKeeps ==
  ASSUME PublishIInv, HandlerNext, UNCHANGED pvars PROVE PublishIInv'
  <1>1. HandlerIInv'
    BY HandlerInvariantNext DEF PublishIInv
  <1>2. PublishTypeOK'
    BY DEF PublishIInv, PublishTypeOK, pvars
  <1>3. \A p \in Pubs : pubs[p] = "closed" => pubs'[p] = "closed"
    BY ClosedStaysClosed DEF PublishIInv
  <1>4. \A c \in Callers : CallerOK(c)'
    BY <1>3, CallerStays DEF PublishIInv, pvars
  <1> QED
    BY <1>1, <1>2, <1>4 DEF PublishIInv

(* A step in which nothing changes. *)
LEMMA PublishStutterKeeps ==
  ASSUME PublishIInv, UNCHANGED publishVars PROVE PublishIInv'
  <1>1. UNCHANGED hvars /\ UNCHANGED pvars
    BY DEF publishVars
  <1>2. HandlerIInv'
    BY <1>1, StutterKeeps DEF PublishIInv
  <1>3. PublishTypeOK'
    BY <1>1 DEF PublishIInv, PublishTypeOK, pvars
  <1>4. \A c \in Callers : CallerOK(c)'
    BY <1>1, CallerStays DEF PublishIInv, pvars, hvars
  <1> QED
    BY <1>2, <1>3, <1>4 DEF PublishIInv

(* The invariant holds before the first call. *)
LEMMA PublishInvariantInit == PublishInit => PublishIInv
  <1> SUFFICES ASSUME PublishInit PROVE PublishIInv
    OBVIOUS
  <1>1. HandlerIInv
    BY HandlerInvariantInit DEF PublishInit
  <1>2. call \in [Callers -> CallRec]
    <2>1. 0 \in 0..MaxMessages
      BY PublishAssumption
    <2>2. "idle" \in CallPCs /\ None \in Pubs \union {None} /\ 0 \in Nat
      BY DEF CallPCs
    <2>3. [pc |-> "idle", kind |-> "", n |-> 0, size |-> 0,
           pub |-> None, from |-> 0, got |-> 0, at |-> 0] \in CallRec
      BY <2>1, <2>2 DEF CallRec
    <2> QED
      BY <2>3 DEF PublishInit
  <1>3. errCh \in [Callers -> Seq(BOOLEAN)] /\ wire \in [Callers -> Seq(Nat)]
    BY EmptySeq DEF PublishInit
  <1>4. PublishTypeOK
    BY <1>2, <1>3 DEF PublishTypeOK, PublishInit
  <1>5. ASSUME NEW c \in Callers PROVE CallerOK(c)
    <2>1. /\ call[c].pc = "idle" /\ call[c].from = 0
          /\ call[c].got = 0 /\ call[c].at = 0 /\ wire[c] = <<>> /\ late[c] = 0
          /\ errCh[c] = <<>> /\ \A k \in Messages : marshal[c][k] = "none"
      BY DEF PublishInit
    <2>2. call[c].kind \notin {"publish", "stream", "batch"}
      BY DEF PublishInit
    <2>3. LateOK(c)
      BY <2>1 DEF LateOK, InBatch, InWriter
    <2>4. GivenOK(c)
      BY <2>1, <2>2 DEF GivenOK
    <2>5. Len(wire[c]) = 0
      BY <2>1
    <2>6. WireOK(c)
      BY <2>1, <2>5 DEF WireOK, InBatch, InWriter
    <2>7. MarshalOK(c)
      BY <2>1 DEF MarshalOK, InWriter
    <2> QED
      BY <2>3, <2>4, <2>6, <2>7 DEF CallerOK
  <1> QED
    BY <1>1, <1>4, <1>5 DEF PublishIInv

(* Every step keeps the invariant. *)
LEMMA PublishInvariantNext == PublishIInv /\ [PublishNext]_publishVars => PublishIInv'
  <1> SUFFICES ASSUME PublishIInv, [PublishNext]_publishVars PROVE PublishIInv'
    OBVIOUS
  <1>1. ASSUME NEW c \in Callers, Publish(c) PROVE PublishIInv'
    <2>1. 1 \in 0..MaxMessages /\ 1 \in Nat
      BY PublishAssumption
    <2> QED
      BY <1>1, <2>1, PublishStartsKeeps DEF Publish
  <1>2. ASSUME NEW c \in Callers, PublishStream(c) PROVE PublishIInv'
    <2>1. PICK n \in 0..MaxMessages : PublishStarts(c, "stream", n, n)
      BY <1>2 DEF PublishStream
    <2>2. n \in Nat
      BY PublishAssumption
    <2> QED
      BY <2>1, <2>2, PublishStartsKeeps
  <1>3. ASSUME NEW c \in Callers, BatchPublish(c) PROVE PublishIInv'
    <2>1. PICK n \in 0..MaxMessages, size \in BatchSizes : PublishStarts(c, "batch", n, size)
      BY <1>3 DEF BatchPublish
    <2>2. size \in Nat /\ size > 0
      BY PublishAssumption
    <2> QED
      BY <2>1, <2>2, PublishStartsKeeps
  <1>4. ASSUME NEW c \in Callers, PublishStep(c) PROVE PublishIInv'
    BY <1>4, LookUpKeeps, MarshalInlineKeeps, StartBatchKeeps, CollectKeeps, WriterCheckKeeps,
       OpenSubgroupKeeps, WriteObjectKeeps, WriteFailsKeeps, CloseSubgroupKeeps
    DEF PublishStep
  <1>5. ASSUME NEW c \in Callers, NEW k \in Messages, Marshaller(c, k) PROVE PublishIInv'
    BY <1>5, MarshalStoresKeeps, MarshalSendsKeeps DEF Marshaller
  <1> QED
    BY <1>1, <1>2, <1>3, <1>4, <1>5, HandlerStepKeeps, PublishStutterKeeps DEF PublishNext

(* PublishIInv is an invariant of publishing. *)
LEMMA PublishInvariant == PublishSpec => []PublishIInv
  BY PublishInvariantInit, PublishInvariantNext, PTL DEF PublishSpec

(* Publishing takes no step that the handler alone could not take, so what *)
(* is proved of the handler holds while messages are published.            *)
THEOREM PublishUsesHandler == PublishSpec => HandlerSpec
  <1>1. PublishInit => HandlerInit
    BY DEF PublishInit
  <1>2. ASSUME [PublishNext]_publishVars PROVE [HandlerNext]_hvars
    <2>1. ASSUME NEW c \in Callers,
                 \/ Publish(c) \/ PublishStream(c) \/ BatchPublish(c) \/ PublishStep(c)
                 \/ \E k \in Messages : Marshaller(c, k)
          PROVE  UNCHANGED hvars
      BY <2>1
      DEF Publish, PublishStream, BatchPublish, PublishStarts, PublishStep, Marshaller,
          LookUp, MarshalInline, StartBatch, Collect, WriterCheck, SlotGet, OpenSubgroup,
          WriteObject, WriteFails, CloseSubgroup, MarshalStores, MarshalSends
    <2>2. UNCHANGED publishVars => UNCHANGED hvars
      BY DEF publishVars
    <2> QED
      BY <1>2, <2>1, <2>2 DEF PublishNext
  <1> QED
    BY <1>1, <1>2, PTL DEF PublishSpec, HandlerSpec

(* Messages leave in order and each of them encoded by its goroutine: what *)
(* a call has put on the wire are its first messages, and all of them when *)
(* it reports success, whatever batches it makes of them and whatever its  *)
(* goroutines, the session and Close do.                                   *)
THEOREM InOrder == PublishSpec => []MessagesInOrder
  <1>1. ASSUME PublishIInv PROVE MessagesInOrder
    <2>1. ASSUME NEW c \in Callers
          PROVE  /\ wire[c] = [k \in 1..Len(wire[c]) |-> k]
                 /\ At(c, "ok") => Len(wire[c]) = call[c].n
      <3>1. wire[c] \in Seq(Nat) /\ WireOK(c)
        BY <1>1, CallerKnows
      <3>2. wire[c] \in [1..Len(wire[c]) -> Nat]
        BY <3>1, LenProperties
      <3>3. wire[c] = [k \in 1..Len(wire[c]) |-> wire[c][k]]
        BY <3>2
      <3>4. \A k \in 1..Len(wire[c]) : wire[c][k] = k
        BY <3>1 DEF WireOK
      <3>5. At(c, "ok") => Len(wire[c]) = call[c].n
        BY <3>1 DEF WireOK, At
      <3> QED
        BY <3>3, <3>4, <3>5
    <2> QED
      BY <2>1 DEF MessagesInOrder
  <1> QED
    BY <1>1, PublishInvariant, PTL

(* A call whose writer was replaced or closed opens one more subgroup at *)
(* most, the one it had its publisher for.                               *)
THEOREM LateOnce == PublishSpec => []OneBatchAfterClose
  <1>1. PublishIInv => OneBatchAfterClose
    BY DEF PublishIInv, CallerOK, LateOK, OneBatchAfterClose
  <1> QED
    BY <1>1, PublishInvariant, PTL
===============================================================================
