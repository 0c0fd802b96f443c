--------------------------- MODULE DataTrackPublish ---------------------------
(***************************************************************************)
(* Publishing on a data track (pkg/moqttransport/data_track_handler.go):   *)
(* Publish, PublishStream and BatchPublish, over the TrackWriter of        *)
(* track_base.go, against the steps of DataTrackHandler: a subscription of *)
(* the peer that replaces the writer, and Close.                           *)
(*                                                                         *)
(* A call looks the writer up under RLock once and uses it without the     *)
(* lock.  PublishStream and each batch of BatchPublish encode their        *)
(* messages in one goroutine each, wait for one result per message on      *)
(* errCh, and give all objects to WriteStream, which opens one subgroup.   *)
(* TrackWriter.Close sets closed and clears the slot in two steps; a       *)
(* WriteStream between the two sees what it would see before or after      *)
(* both, so they are one step here.  Group numbers are in ControlConn.     *)
(***************************************************************************)
EXTENDS DataTrackHandler, Sequences

CONSTANTS
    Callers,      \* goroutines, each of which publishes once; they share
                  \* nothing but the registry of writers
    MaxMessages,  \* bound: messages given to one call; Publish gives one
    BatchSizes    \* batchSize given to BatchPublish

(* With batchSize 0 the loop of BatchPublish never advances, and a         *)
(* negative size panics; callers are taken to pass neither.                *)
ASSUME PublishAssumption == MaxMessages \in Nat \ {0} /\ BatchSizes \subseteq Nat \ {0}

VARIABLES
    call,         \* the call of each caller: where it is, what it was given,
                  \* the writer it found, where its batch begins, results
                  \* received, objects written in the subgroup that is open
    marshal,      \* the goroutine of each message
    objects,      \* messages whose encoding is in the slice WriteStream gets
    errCh,        \* results sent and not yet received
    wire,         \* history: the objects each call has written, in order
    late          \* history: subgroups a call opened on a closed writer

pvars == <<call, marshal, objects, errCh, wire, late>>
publishVars == <<hvars, pvars>>

Messages == 1..MaxMessages

PublishInit ==
    /\ HandlerInit
    /\ call = [c \in Callers |-> [pc |-> "idle", kind |-> "", n |-> 0, size |-> 0,
                                  pub |-> None, from |-> 0, got |-> 0, at |-> 0]]
    /\ marshal = [c \in Callers |-> [k \in Messages |-> "none"]]
    /\ objects = [c \in Callers |-> {}]
    /\ errCh = [c \in Callers |-> <<>>]
    /\ wire = [c \in Callers |-> <<>>]
    /\ late = [c \in Callers |-> 0]

At(c, pc) == call[c].pc = pc
Goes(c, pc) == call' = [call EXCEPT ![c].pc = pc]
PublishOver(c) == call[c].pc \in {"idle", "ok", "failed"}

(* The end of the batch that begins at i: min(i + batchSize, len(messages)). *)
batchEnd(c) ==
    IF call[c].from + call[c].size > call[c].n
      THEN call[c].n ELSE call[c].from + call[c].size
batchLen(c) == batchEnd(c) - call[c].from
batch(c) == call[c].from + 1..batchEnd(c)

-------------------------------------------------------------------------------
(* Mutations used to show that the properties can fail. *)

errCapOne(c) == 1

enoughOneShort(c) == call[c].got + 1 >= batchLen(c)

WriterCheckedOnce(c) ==
    /\ At(c, "check")
    /\ Goes(c, IF call[c].from > 0 THEN "open"
               ELSE IF pubs[call[c].pub] = "closed" THEN "failed" ELSE "get")
    /\ UNCHANGED <<hvars, marshal, objects, errCh, wire, late>>

-------------------------------------------------------------------------------
(* The closed check of the three operations ... *)
PublishStarts(c, kind, n, size) ==
    /\ ~hclosed
    /\ At(c, "idle")
    /\ call' = [call EXCEPT ![c] =
                  [@ EXCEPT !.pc = "lookup", !.kind = kind, !.n = n, !.size = size]]
    /\ UNCHANGED <<hvars, marshal, objects, errCh, wire, late>>

Publish(c) == PublishStarts(c, "publish", 1, 1)
PublishStream(c) == \E n \in 0..MaxMessages : PublishStarts(c, "stream", n, n)
BatchPublish(c) ==
    \E n \in 0..MaxMessages, size \in BatchSizes : PublishStarts(c, "batch", n, size)

(* ... and the look-up of the writer, or ErrNoPublisher. *)
LookUp(c) ==
    /\ At(c, "lookup")
    /\ call' = [call EXCEPT ![c] =
                  [@ EXCEPT !.pub = curPub,
                            !.pc = IF curPub = None THEN "failed" ELSE "batch"]]
    /\ UNCHANGED <<hvars, marshal, objects, errCh, wire, late>>

(* Publish encodes its one message itself. *)
MarshalInline(c) ==
    /\ At(c, "batch") /\ call[c].kind = "publish"
    /\ \/ Goes(c, "check") /\ objects' = [objects EXCEPT ![c] = {1}]
       \/ Goes(c, "failed") /\ UNCHANGED objects
    /\ UNCHANGED <<hvars, marshal, errCh, wire, late>>

(* The loop of BatchPublish is done, or one goroutine per message starts. *)
StartBatch(c) ==
    /\ At(c, "batch") /\ call[c].kind # "publish"
    /\ IF call[c].kind = "batch" /\ call[c].from >= call[c].n
         THEN Goes(c, "ok") /\ UNCHANGED marshal
         ELSE /\ Goes(c, "collect")
              /\ marshal' = [marshal EXCEPT ![c] =
                    [k \in Messages |-> IF k \in batch(c) THEN "running" ELSE @[k]]]
    /\ UNCHANGED <<hvars, objects, errCh, wire, late>>

(* A goroutine stores the encoding of its message, or fails ... *)
MarshalStores(c, k) ==
    /\ marshal[c][k] = "running"
    /\ \/ /\ marshal' = [marshal EXCEPT ![c][k] = "stored"]
          /\ objects' = [objects EXCEPT ![c] = @ \union {k}]
       \/ /\ marshal' = [marshal EXCEPT ![c][k] = "failed"]
          /\ UNCHANGED objects
    /\ UNCHANGED <<hvars, call, errCh, wire, late>>

errCap(c) == batchLen(c)

(* ... then sends its result, which needs room in errCh. *)
MarshalSends(c, k) ==
    /\ marshal[c][k] \in {"stored", "failed"}
    /\ Len(errCh[c]) < errCap(c)
    /\ errCh' = [errCh EXCEPT ![c] = Append(@, marshal[c][k] = "stored")]
    /\ marshal' = [marshal EXCEPT ![c][k] = "gone"]
    /\ UNCHANGED <<hvars, call, objects, wire, late>>

enough(c) == call[c].got = batchLen(c)

(* One result per message is received; the first error is returned and     *)
(* the remaining goroutines are left to themselves.                        *)
Collect(c) ==
    /\ At(c, "collect")
    /\ IF enough(c)
         THEN Goes(c, "check") /\ UNCHANGED errCh
         ELSE /\ errCh[c] # <<>>
              /\ errCh' = [errCh EXCEPT ![c] = Tail(@)]
              /\ IF Head(errCh[c])
                   THEN call' = [call EXCEPT ![c].got = @ + 1]
                   ELSE Goes(c, "failed")
    /\ UNCHANGED <<hvars, marshal, objects, wire, late>>

-------------------------------------------------------------------------------
(* TrackWriter.Write and WriteStream: the closed check ... *)
WriterCheck(c) ==
    /\ At(c, "check")
    /\ Goes(c, IF pubs[call[c].pub] = "closed" THEN "failed" ELSE "get")
    /\ UNCHANGED <<hvars, marshal, objects, errCh, wire, late>>

(* ... the publisher, unless the slot was cleared or the caller's context  *)
(* is done (ready is closed before a writer is registered, so nobody       *)
(* waits) ...                                                              *)
SlotGet(c) ==
    /\ At(c, "get")
    /\ \/ pubs[call[c].pub] # "closed" /\ Goes(c, "open")
       \/ Goes(c, "failed")
    /\ UNCHANGED <<hvars, marshal, objects, errCh, wire, late>>

(* ... a group number and a subgroup, or an error of the session ... *)
OpenSubgroup(c) ==
    /\ At(c, "open")
    /\ \/ /\ Goes(c, "write")
          /\ late' = [late EXCEPT ![c] = IF pubs[call[c].pub] = "closed" THEN @ + 1 ELSE @]
       \/ Goes(c, "failed") /\ UNCHANGED late
    /\ UNCHANGED <<hvars, marshal, objects, errCh, wire>>

(* ... then every object: what is in the slice, be it encoded or nil. *)
WriteObject(c) ==
    LET k == call[c].from + call[c].at + 1
    IN /\ At(c, "write")
       /\ k \in batch(c)
       /\ wire' = [wire EXCEPT ![c] = Append(@, IF k \in objects[c] THEN k ELSE None)]
       /\ call' = [call EXCEPT ![c].at = @ + 1]
       /\ UNCHANGED <<hvars, marshal, objects, errCh, late>>

(* A write fails, or the Close of the subgroup at the end does. *)
WriteFails(c) ==
    /\ At(c, "write")
    /\ Goes(c, "failed")
    /\ UNCHANGED <<hvars, marshal, objects, errCh, wire, late>>

(* BatchPublish goes on with the next batch; the other two are done. *)
nextBatch(c) ==
    [call[c] EXCEPT !.from = @ + call[c].size, !.at = 0, !.got = 0,
                    !.pc = IF call[c].kind = "batch" THEN "batch" ELSE "ok"]

CloseSubgroup(c) ==
    /\ At(c, "write")
    /\ call[c].at = batchLen(c)
    /\ call' = [call EXCEPT ![c] = nextBatch(c)]
    /\ UNCHANGED <<hvars, marshal, objects, errCh, wire, late>>

PublishStep(c) ==
    \/ LookUp(c) \/ MarshalInline(c) \/ StartBatch(c) \/ Collect(c) \/ WriterCheck(c)
    \/ SlotGet(c) \/ OpenSubgroup(c) \/ WriteObject(c) \/ WriteFails(c) \/ CloseSubgroup(c)

Marshaller(c, k) == MarshalStores(c, k) \/ MarshalSends(c, k)

PublishNext ==
    \/ HandlerNext /\ UNCHANGED pvars
    \/ /\ ~panicked
       /\ \E c \in Callers : \/ Publish(c) \/ PublishStream(c) \/ BatchPublish(c)
                             \/ PublishStep(c)
                             \/ \E k \in Messages : Marshaller(c, k)

PublishSpec == PublishInit /\ [][PublishNext]_publishVars

(* Goroutines that can run do run, and every call into the MOQT library    *)
(* returns.  Nobody is obliged to publish, to subscribe or to close.       *)
PublishFairness ==
    \A c \in Callers :
        /\ WF_publishVars(PublishStep(c))
        /\ \A k \in Messages : WF_publishVars(Marshaller(c, k))

FairPublishSpec == PublishSpec /\ PublishFairness

-------------------------------------------------------------------------------
(* What a call has put on the wire is a prefix of its messages, each of    *)
(* them encoded by its goroutine before it is written, in order and none   *)
(* twice, over all the batches of BatchPublish and whatever fails; and a   *)
(* call that reports success has sent all of them.                         *)
MessagesInOrder ==
    \A c \in Callers :
        /\ wire[c] = [k \in 1..Len(wire[c]) |-> k]
        /\ At(c, "ok") => Len(wire[c]) = call[c].n

(* A writer that a new subscription or Close has closed falls silent: a    *)
(* call that holds it opens one more subgroup at most, the one for which   *)
(* it had its publisher, whatever number of batches it has left.           *)
OneBatchAfterClose == \A c \in Callers : late[c] <= 1

(* Every call returns and every goroutine it started ends, also those a    *)
(* call that gave up at the first error no longer listens to.              *)
PublishEnds ==
    \A c \in Callers :
        /\ ~PublishOver(c) ~> PublishOver(c)
        /\ \A k \in Messages : marshal[c][k] = "running" ~> marshal[c][k] = "gone"
===============================================================================
