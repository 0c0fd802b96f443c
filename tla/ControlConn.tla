------------------------------ MODULE ControlConn ------------------------------
(***************************************************************************)
(* One control connection (pkg/moqttransport/control_conn.go) and what it  *)
(* is built from: the retry loop around Write (retry.go), the publisher    *)
(* slot and track writer (track_base.go), the heartbeat (heartbeat.go),    *)
(* the reader, and Close.  Acknowledgments are in ControlAcks.             *)
(*                                                                         *)
(* A thread is a caller of Write, or the goroutine that sends one          *)
(* heartbeat; both go through the same track writer.  A step is one        *)
(* critical section, one atomic operation or one call into the MOQT        *)
(* library, so that every interleaving of the goroutines is explored.      *)
(***************************************************************************)
EXTENDS Naturals

CONSTANTS
    Writers,      \* callers of controlConn.Write
    HB,           \* the goroutine running OnHeartbeat
    MaxAttempts,  \* RetryConfig.MaxAttempts
    MaxFailures,  \* HeartbeatConfig.MaxFailures
    MaxBeats,     \* bound: heartbeats sent in a behaviour
    MaxInbound    \* bound: objects received in a behaviour

ASSUME ConnAssumption ==
    /\ HB \notin Writers
    /\ MaxAttempts \in Nat \ {0}
    /\ MaxFailures \in Nat \ {0}
    /\ MaxBeats \in Nat
    /\ MaxInbound \in Nat

Threads == Writers \union {HB}

VARIABLES
    conn,         \* the QUIC connection is up; cancelRead was called
    slot,         \* PublisherSlot (ready channel closed, cleared) and the
                  \* closed flag of the TrackWriter above it
    nextGroup,    \* TrackWriter.nextGroup
    call,         \* each thread's call: where it is, its locals, its result,
                  \* whether its context is done, copies it put on the wire
    hb,           \* Heartbeat: the loop, running, cancel called, failures and
                  \* handleFailure's local; history: beats sent and failed
                  \* beats since the last sign of life
    reader,       \* Read: where it is, objects received
    closePC       \* Close: next thing to do; "open" before it is called

vars == <<conn, slot, nextGroup, call, hb, reader, closePC>>

closed == closePC # "open"

(* Mutation: the heartbeat writes with a context that nothing cancels.    *)
beatContextIgnored(t) == call[t].ctxDone

(* Contexts: readCtx is a child of conn.Context(), h.ctx of readCtx, and   *)
(* the heartbeat writes with readCtx.                                      *)
readCtxDone == conn.readCancelled \/ ~conn.up
hbCtxDone == hb.stopped \/ readCtxDone
threadCtxDone(t) == IF t = HB THEN readCtxDone ELSE call[t].ctxDone

(* newControlConn: the heartbeat is started, the slot may not be set yet. *)
newControlConn ==
    /\ conn = [up |-> TRUE, readCancelled |-> FALSE]
    /\ slot = [ready |-> FALSE, cleared |-> FALSE, twClosed |-> FALSE]
    /\ nextGroup = 0
    /\ call = [t \in Threads |->
                 [pc |-> "idle", attempt |-> 0, group |-> 0,
                  result |-> "none", ctxDone |-> FALSE, copies |-> 0]]
    /\ hb = [pc |-> "select", running |-> TRUE, stopped |-> FALSE,
             failures |-> 0, counted |-> 0, beats |-> 0, missed |-> 0]
    /\ reader = [pc |-> "top", inbound |-> 0]
    /\ closePC = "open"

-------------------------------------------------------------------------------
(* Mutations used to show that the properties can fail. *)

groupNotReserved(t) ==
    /\ call' = [call EXCEPT ![t] = [@ EXCEPT !.pc = "open", !.group = nextGroup]]
    /\ UNCHANGED nextGroup

PongKeepsFailures == [hb EXCEPT !.missed = 0]

CloseConnSkipped ==
    /\ closePC = "conn"
    /\ closePC' = "onclose"
    /\ UNCHANGED conn

ReturnSwallowsError(t, e) ==
    [call EXCEPT ![t] = [@ EXCEPT !.pc = "returned", !.result = "ok", !.group = 0]]

ReturnOffByOne(t, e) ==
    IF t = HB \/ e = "ok" \/ call[t].attempt > MaxAttempts
      THEN [call EXCEPT ![t] = [@ EXCEPT !.pc = "returned", !.result = e, !.group = 0]]
      ELSE [call EXCEPT ![t] = [@ EXCEPT !.pc = "delay", !.group = 0]]

-------------------------------------------------------------------------------
(* Write and the retry loop: what the thread's call becomes. *)

Goes(t, next) == [call EXCEPT ![t].pc = next]

Returns(t, e) == [call EXCEPT ![t] = [@ EXCEPT !.pc = "returned", !.result = e]]

(* TrackWriter.Write returns e to the retry loop, or, for a heartbeat, to  *)
(* the goroutine that passes it on.  No error list is configured, so every *)
(* error is retried until the attempts are used up.                        *)
WriterReturns(t, e) ==
    IF t = HB \/ e = "ok" \/ call[t].attempt >= MaxAttempts
      THEN [call EXCEPT ![t] = [@ EXCEPT !.pc = "returned", !.result = e, !.group = 0]]
      ELSE [call EXCEPT ![t] = [@ EXCEPT !.pc = "delay", !.group = 0]]

(* The select between the backoff delay and the caller's context. *)
delaySelect(w) ==
    {Goes(w, "retry")} \union (IF call[w].ctxDone THEN {Returns(w, "ctx")} ELSE {})

(* Write reads closed under mu once, before the first attempt. *)
Write(w) ==
    /\ call[w].pc = "idle"
    /\ call' = IF closed THEN Returns(w, "mcp.ErrConnectionClosed") ELSE Goes(w, "retry")
    /\ UNCHANGED <<conn, slot, nextGroup, hb, reader, closePC>>

(* Top of the retry loop. *)
RetryAttempt(w) ==
    /\ call[w].pc = "retry"
    /\ call' = IF call[w].ctxDone
                 THEN Returns(w, "ctx")
                 ELSE [call EXCEPT ![w] = [@ EXCEPT !.pc = "check",
                                                   !.attempt = call[w].attempt + 1]]
    /\ UNCHANGED <<conn, slot, nextGroup, hb, reader, closePC>>

RetryDelay(w) ==
    /\ call[w].pc = "delay"
    /\ call' \in delaySelect(w)
    /\ UNCHANGED <<conn, slot, nextGroup, hb, reader, closePC>>

-------------------------------------------------------------------------------
(* TrackWriter.Write *)

WriterCheck(t) ==
    /\ call[t].pc = "check"
    /\ call' = IF slot.twClosed THEN WriterReturns(t, "ErrConnectionClosed")
                                ELSE Goes(t, "get")
    /\ UNCHANGED <<conn, slot, nextGroup, hb, reader, closePC>>

(* PublisherSlot.Get: the select on the context and the ready channel ... *)
SlotSelect(t) ==
    /\ call[t].pc = "get"
    /\ \/ threadCtxDone(t) /\ call' = WriterReturns(t, "ctx")
       \/ slot.ready /\ call' = Goes(t, "getlock")
    /\ UNCHANGED <<conn, slot, nextGroup, hb, reader, closePC>>

(* ... then, under the slot's mutex, the publisher; the writer takes the   *)
(* next group number right after.                                          *)
takePublisher(t) ==
    IF slot.cleared
      THEN /\ call' = WriterReturns(t, "ErrConnectionClosed")
           /\ UNCHANGED nextGroup
      ELSE /\ call' = [call EXCEPT ![t] = [@ EXCEPT !.pc = "open", !.group = nextGroup]]
           /\ nextGroup' = nextGroup + 1

SlotGet(t) ==
    /\ call[t].pc = "getlock"
    /\ takePublisher(t)
    /\ UNCHANGED <<conn, slot, hb, reader, closePC>>

(* The three library calls fail when the connection is gone, and may fail  *)
(* before that (the peer resets the stream).                               *)
LibraryCall(t, from, ok) ==
    /\ call[t].pc = from
    /\ call' \in {WriterReturns(t, "io")} \union (IF conn.up THEN {ok} ELSE {})
    /\ UNCHANGED <<conn, slot, nextGroup, hb, reader, closePC>>

OpenSubgroup(t) == LibraryCall(t, "open", Goes(t, "object"))

WriteObject(t) ==
    LibraryCall(t, "object",
                [call EXCEPT ![t] = [@ EXCEPT !.pc = "sgclose", !.copies = call[t].copies + 1]])

CloseSubgroup(t) == LibraryCall(t, "sgclose", WriterReturns(t, "ok"))

TrackWriterWrite(t) ==
    \/ WriterCheck(t) \/ SlotSelect(t) \/ SlotGet(t)
    \/ OpenSubgroup(t) \/ WriteObject(t) \/ CloseSubgroup(t)

-------------------------------------------------------------------------------
(* Heartbeat *)

(* loop: h.ctx is done; the deferred running.Store(false). *)
LoopExit ==
    /\ hb.pc = "select"
    /\ hbCtxDone
    /\ hb' = [hb EXCEPT !.pc = "exited", !.running = FALSE]
    /\ UNCHANGED <<conn, slot, nextGroup, call, reader, closePC>>

(* loop: a tick.  sendHeartbeat starts the goroutine that writes. *)
LoopTick ==
    /\ hb.pc = "select"
    /\ hb.beats < MaxBeats
    /\ hb' = [hb EXCEPT !.pc = "sending", !.beats = @ + 1]
    /\ call' = [call EXCEPT ![HB] = [@ EXCEPT !.pc = "check", !.result = "none"]]
    /\ UNCHANGED <<conn, slot, nextGroup, reader, closePC>>

(* sendHeartbeat: h.ctx or the timeout is done first; it still waits for   *)
(* the goroutine.                                                          *)
BeatOverdue ==
    /\ hb.pc = "sending"
    /\ hb' = [hb EXCEPT !.pc = "overdue"]
    /\ UNCHANGED <<conn, slot, nextGroup, call, reader, closePC>>

(* handleSuccess *)
BeatSucceeds ==
    /\ hb.pc = "sending"
    /\ call[HB].pc = "returned" /\ call[HB].result = "ok"
    /\ hb' = [hb EXCEPT !.pc = "select", !.failures = 0, !.missed = 0]
    /\ UNCHANGED <<conn, slot, nextGroup, call, reader, closePC>>

(* handleFailure: the write failed, or returned after the timeout. *)
BeatFails ==
    /\ call[HB].pc = "returned"
    /\ hb.pc = "overdue" \/ (hb.pc = "sending" /\ call[HB].result # "ok")
    /\ hb' = [hb EXCEPT !.pc = "ontimeout", !.failures = @ + 1,
                        !.counted = hb.failures + 1, !.missed = @ + 1]
    /\ UNCHANGED <<conn, slot, nextGroup, call, reader, closePC>>

(* OnTimeout reads the counter again, and closes the connection. *)
OnTimeout ==
    /\ hb.pc = "ontimeout"
    /\ hb' = [hb EXCEPT !.pc = IF hb.failures >= MaxFailures THEN "closing" ELSE "counted"]
    /\ UNCHANGED <<conn, slot, nextGroup, call, reader, closePC>>

(* closeOnce: returns once the first Close, whoever called it, is over. *)
OnTimeoutClosed ==
    /\ hb.pc = "closing"
    /\ closePC = "done"
    /\ hb' = [hb EXCEPT !.pc = "counted"]
    /\ UNCHANGED <<conn, slot, nextGroup, call, reader, closePC>>

(* handleFailure's second half tests the value its own Add returned. *)
FailureCounted ==
    /\ hb.pc = "counted"
    /\ hb' = [hb EXCEPT !.pc = "select", !.counted = 0,
                        !.failures = IF hb.counted >= MaxFailures THEN 0 ELSE @]
    /\ UNCHANGED <<conn, slot, nextGroup, call, reader, closePC>>

(* RecordPong *)
RecordPong == [hb EXCEPT !.failures = 0, !.missed = 0]

Heartbeat ==
    \/ LoopExit \/ LoopTick \/ BeatOverdue \/ BeatSucceeds \/ BeatFails
    \/ OnTimeout \/ OnTimeoutClosed \/ FailureCounted

-------------------------------------------------------------------------------
(* Read *)

ReadLoop ==
    /\ reader.pc = "top"
    /\ reader' = [reader EXCEPT !.pc = IF closed THEN "returned" ELSE "reading"]
    /\ UNCHANGED <<conn, slot, nextGroup, call, hb, closePC>>

ReadObject ==
    /\ reader.pc = "reading"
    /\ conn.up
    /\ reader.inbound < MaxInbound
    /\ reader' = [pc |-> "got", inbound |-> reader.inbound + 1]
    /\ UNCHANGED <<conn, slot, nextGroup, call, hb, closePC>>

(* Any message that decodes is a sign of life.  An internal heartbeat is   *)
(* skipped; for the others the MCP layer calls Read again.                 *)
ReadHandles ==
    /\ reader.pc = "got"
    /\ reader' = [reader EXCEPT !.pc = "top"]
    /\ hb' = RecordPong
    /\ UNCHANGED <<conn, slot, nextGroup, call, closePC>>

(* Read returns an error: the object does not decode, or readCtx was       *)
(* cancelled while ReadObject was waiting.                                 *)
ReadFails ==
    /\ \/ reader.pc = "got"
       \/ reader.pc = "reading" /\ readCtxDone
    /\ reader' = [reader EXCEPT !.pc = "returned"]
    /\ UNCHANGED <<conn, slot, nextGroup, call, hb, closePC>>

(* Read's caller gives up, or the peer ends the track. *)
ReadGivesUp ==
    /\ reader.pc \in {"top", "reading"}
    /\ reader' = [reader EXCEPT !.pc = "returned"]
    /\ UNCHANGED <<conn, slot, nextGroup, call, hb, closePC>>

Read == ReadLoop \/ ReadObject \/ ReadHandles \/ ReadFails \/ ReadGivesUp

-------------------------------------------------------------------------------
(* Close *)

(* closed and done, under mu: by the MCP layer, or by OnTimeout. *)
CloseBegin ==
    /\ closePC = "open"
    /\ closePC' = "heartbeat"
    /\ UNCHANGED <<conn, slot, nextGroup, call, hb, reader>>

(* heartbeat.Stop: cancels only if the loop has not ended by itself. *)
CloseHeartbeat ==
    /\ closePC = "heartbeat"
    /\ closePC' = "cancel"
    /\ hb' = [hb EXCEPT !.stopped = hb.running, !.running = FALSE]
    /\ UNCHANGED <<conn, slot>>

CloseCancelRead ==
    /\ closePC = "cancel"
    /\ closePC' = "writer"
    /\ conn' = [conn EXCEPT !.readCancelled = TRUE]

(* TrackWriter.Close: the flag, then the slot under its mutex. *)
CloseWriter ==
    /\ closePC = "writer"
    /\ closePC' = "slot"
    /\ slot' = [slot EXCEPT !.twClosed = TRUE]

CloseSlot ==
    /\ closePC = "slot"
    /\ closePC' = "conn"
    /\ slot' = [slot EXCEPT !.cleared = TRUE]

CloseConn ==
    /\ closePC = "conn"
    /\ closePC' = "onclose"
    /\ conn' = [conn EXCEPT !.up = FALSE]

CloseCallback ==
    /\ closePC = "onclose"
    /\ closePC' = "done"
    /\ UNCHANGED <<conn, slot>>

CloseGoesOn ==
    /\ \/ CloseHeartbeat
       \/ (CloseCancelRead \/ CloseConn) /\ UNCHANGED <<slot, hb>>
       \/ (CloseWriter \/ CloseSlot) /\ UNCHANGED <<conn, hb>>
       \/ CloseCallback /\ UNCHANGED hb
    /\ UNCHANGED <<nextGroup, call, reader>>

-------------------------------------------------------------------------------
(* The surroundings *)

(* PublisherSlot.Set, when the peer subscribes to this side's track. *)
SlotSet ==
    /\ conn.up
    /\ ~slot.ready /\ ~slot.cleared
    /\ slot' = [slot EXCEPT !.ready = TRUE]
    /\ UNCHANGED <<conn, nextGroup, call, hb, reader, closePC>>

ConnLost ==
    /\ conn.up
    /\ conn' = [conn EXCEPT !.up = FALSE]
    /\ UNCHANGED <<slot, nextGroup, call, hb, reader, closePC>>

CallerCancels(w) ==
    /\ ~call[w].ctxDone
    /\ call[w].pc \notin {"idle", "returned"}
    /\ call' = [call EXCEPT ![w].ctxDone = TRUE]
    /\ UNCHANGED <<conn, slot, nextGroup, hb, reader, closePC>>

-------------------------------------------------------------------------------
ConnNext ==
    \/ \E w \in Writers : Write(w) \/ RetryAttempt(w) \/ RetryDelay(w) \/ CallerCancels(w)
    \/ \E t \in Threads : TrackWriterWrite(t)
    \/ Heartbeat \/ Read \/ CloseBegin \/ CloseGoesOn \/ SlotSet \/ ConnLost

ConnSpec == newControlConn /\ [][ConnNext]_vars

(* Goroutines that can run do run; library calls return; time passes.      *)
(* Nothing obliges the peer to subscribe or to send, a caller to cancel,   *)
(* the ticker to tick again or anybody but OnTimeout to call Close.        *)
ConnFairness ==
    /\ \A w \in Writers : WF_vars(RetryAttempt(w) \/ RetryDelay(w))
    /\ \A t \in Threads : WF_vars(TrackWriterWrite(t))
    /\ WF_vars(LoopExit) /\ WF_vars(BeatOverdue \/ BeatSucceeds \/ BeatFails)
    /\ WF_vars(OnTimeout) /\ WF_vars(OnTimeoutClosed) /\ WF_vars(FailureCounted)
    /\ WF_vars(ReadLoop) /\ WF_vars(ReadHandles \/ ReadFails)
    /\ WF_vars(CloseGoesOn) /\ WF_vars(hb.pc = "closing" /\ CloseBegin)

FairConnSpec == ConnSpec /\ ConnFairness

-------------------------------------------------------------------------------
(* Types of the connection's state. *)
ConnTypeOK ==
    /\ conn \in [up : BOOLEAN, readCancelled : BOOLEAN]
    /\ slot \in [ready : BOOLEAN, cleared : BOOLEAN, twClosed : BOOLEAN]
    /\ nextGroup \in Nat
    /\ call \in [Threads ->
         [pc : {"idle", "retry", "delay", "check", "get", "getlock",
                "open", "object", "sgclose", "returned"},
          attempt : 0..MaxAttempts, group : Nat,
          result : {"none", "ok", "ctx", "io", "ErrConnectionClosed",
                    "mcp.ErrConnectionClosed"},
          ctxDone : BOOLEAN, copies : Nat]]
    /\ hb \in [pc : {"select", "sending", "overdue", "ontimeout", "closing",
                     "counted", "exited"},
               running : BOOLEAN, stopped : BOOLEAN, failures : Nat,
               counted : Nat, beats : 0..MaxBeats, missed : Nat]
    /\ reader \in [pc : {"top", "reading", "got", "returned"}, inbound : 0..MaxInbound]
    /\ closePC \in {"open", "heartbeat", "cancel", "writer", "slot", "conn",
                    "onclose", "done"}

InSubgroup(t) == call[t].pc \in {"open", "object", "sgclose"}

(* Writers, their retries and the heartbeat share one track, and no two    *)
(* subgroups are ever opened under the same group id: ids in use differ,   *)
(* and the next one is larger than all of them.                            *)
GroupsUnique ==
    \A t \in Threads : InSubgroup(t) =>
        /\ call[t].group < nextGroup
        /\ \A u \in Threads \ {t} : InSubgroup(u) => call[u].group # call[t].group

(* Write reports success only for a message that was put on the wire, and  *)
(* a message goes out at most once per attempt (it does go out again when  *)
(* closing its subgroup failed after the object was written).              *)
SuccessWasSent ==
    \A w \in Writers : /\ call[w].result = "ok" => call[w].copies >= 1
                       /\ call[w].copies <= call[w].attempt

(* The heartbeat closes the connection only after MaxFailures beats in a   *)
(* row failed with no message received and no beat delivered in between,   *)
(* although RecordPong races with the count and its second reading.        *)
HeartbeatCloseJustified ==
    [][hb.pc = "ontimeout" /\ hb'.pc = "closing" => hb.missed >= MaxFailures]_vars

(* After Close has returned nothing more goes out, not even from a thread  *)
(* that got the publisher before the slot was cleared.                     *)
SilentAfterClose ==
    [][closePC = "done" =>
         \A t \in Threads : /\ call'[t].copies = call[t].copies
                            /\ call'[t].pc = "object" => call[t].pc = "object"]_vars

(* Once the connection is closed, Close completes, the reader, the         *)
(* heartbeat loop and its writing goroutine end, and every caller of Write *)
(* gets its answer, except one that waits in Get for a publisher the peer  *)
(* never asked for, with a context nobody cancels.                         *)
CloseReleases ==
    closed ~> /\ closePC = "done"
              /\ reader.pc = "returned"
              /\ hb.pc = "exited"
              /\ call[HB].pc \in {"idle", "returned"}
              /\ \A w \in Writers :
                    \/ call[w].pc \in {"idle", "returned"}
                    \/ call[w].pc = "get" /\ ~slot.ready /\ ~call[w].ctxDone

(* Every Write on a connection that is closed, or being closed, returns. *)
WritersReleased ==
    \A w \in Writers : (closed /\ call[w].pc # "idle") ~> call[w].pc = "returned"
===============================================================================
