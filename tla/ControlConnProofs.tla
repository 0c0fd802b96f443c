--------------------------- MODULE ControlConnProofs ---------------------------
(***************************************************************************)
(* TLAPS proofs about ControlConn, for any set of writers and any limits.  *)
(***************************************************************************)
EXTENDS ControlConn, TLAPS

(* A thread's call. *)
CallRecord ==
    [pc : {"idle", "retry", "delay", "check", "get", "getlock",
           "open", "object", "sgclose", "returned"},
     attempt : 0..MaxAttempts, group : Nat,
     result : {"none", "ok", "ctx", "io", "ErrConnectionClosed",
               "mcp.ErrConnectionClosed"},
     ctxDone : BOOLEAN, copies : Nat]

(* What a call of Write has done so far: how often it may still try, and   *)
(* how many copies its attempts have put on the wire.                      *)
CallOK(c) ==
    /\ c.pc \in {"idle", "retry", "delay"} => c.attempt < MaxAttempts
    /\ c.copies <= c.attempt
    /\ c.pc \in {"check", "get", "getlock", "open", "object"} => c.copies < c.attempt
    /\ c.pc = "sgclose" \/ c.result = "ok" => c.copies >= 1

AttemptsOK == \A w \in Writers : CallOK(call[w])

(* Only callers of Write run the retry loop. *)
BeatOnce == call[HB].pc \notin {"retry", "delay"}

(* The heartbeat's counter never exceeds the beats missed in a row, and    *)
(* the connection is down once Close has closed it.                        *)
CloseOK ==
    /\ hb.failures <= hb.missed
    /\ closePC \in {"onclose", "done"} => ~conn.up

ConnIInv ==
    /\ ConnTypeOK
    /\ AttemptsOK
    /\ BeatOnce
    /\ GroupsUnique
    /\ CloseOK

(* The heartbeat. *)
BeatRecord ==
    [pc : {"select", "sending", "overdue", "ontimeout", "closing", "counted", "exited"},
     running : BOOLEAN, stopped : BOOLEAN, failures : Nat,
     counted : Nat, beats : 0..MaxBeats, missed : Nat]

-------------------------------------------------------------------------------
(* A new connection satisfies the invariant. *)
LEMMA ConnInitInv == newControlConn => ConnIInv
  <1> SUFFICES ASSUME newControlConn PROVE ConnIInv
    OBVIOUS
  <1> USE ConnAssumption DEF newControlConn
  <1>1. ConnTypeOK
    BY DEF ConnTypeOK
  <1>2. AttemptsOK /\ BeatOnce
    BY DEF AttemptsOK, CallOK, BeatOnce, Threads
  <1>3. GroupsUnique /\ CloseOK
    BY DEF GroupsUnique, InSubgroup, CloseOK
  <1> QED
    BY <1>1, <1>2, <1>3 DEF ConnIInv

(* What one thread's step may make of its call without disturbing the      *)
(* invariant: it keeps the group it holds, or takes the next one.          *)
LEMMA CallStepInv ==
  ASSUME ConnIInv, NEW t \in Threads, NEW c \in CallRecord,
         call' = [call EXCEPT ![t] = c],
         t \in Writers => CallOK(c),
         t = HB => c.pc \notin {"retry", "delay"},
         \/ /\ nextGroup' = nextGroup
            /\ c.pc \in {"open", "object", "sgclose"}
                 => InSubgroup(t) /\ c.group = call[t].group
         \/ nextGroup' = nextGroup + 1 /\ c.group = nextGroup
  PROVE  /\ call' \in [Threads -> CallRecord]
         /\ nextGroup' \in Nat
         /\ AttemptsOK' /\ BeatOnce'
         /\ GroupsUnique'
  <1> call \in [Threads -> CallRecord] /\ nextGroup \in Nat
    BY DEF ConnIInv, ConnTypeOK, CallRecord
  <1>1. call' \in [Threads -> CallRecord] /\ nextGroup' \in Nat
    OBVIOUS
  <1>2. call'[t] = c /\ \A u \in Threads \ {t} : call'[u] = call[u]
    OBVIOUS
  <1>3. AttemptsOK'
    BY <1>2 DEF ConnIInv, AttemptsOK, CallOK, Threads
  <1>4. BeatOnce'
    BY <1>2 DEF ConnIInv, BeatOnce, Threads
  <1>5. GroupsUnique'
    <2> SUFFICES ASSUME NEW u \in Threads, InSubgroup(u)'
                 PROVE  /\ call'[u].group < nextGroup'
                        /\ \A v \in Threads \ {u} :
                             InSubgroup(v)' => call'[v].group # call'[u].group
      BY DEF GroupsUnique
    <2>1. c.group \in Nat /\ \A v \in Threads : call[v].group \in Nat
      BY DEF CallRecord
    <2> QED
      BY <1>2, <2>1 DEF ConnIInv, GroupsUnique, InSubgroup
  <1> QED
    BY <1>1, <1>3, <1>4, <1>5

(* A step that changes one call, and the counter of groups with it, keeps  *)
(* the invariant.                                                          *)
LEMMA CallOnlyInv ==
  ASSUME ConnIInv, NEW t \in Threads, NEW c \in CallRecord,
         call' = [call EXCEPT ![t] = c],
         t \in Writers => CallOK(c),
         t = HB => c.pc \notin {"retry", "delay"},
         \/ /\ nextGroup' = nextGroup
            /\ c.pc \in {"open", "object", "sgclose"}
                 => InSubgroup(t) /\ c.group = call[t].group
         \/ nextGroup' = nextGroup + 1 /\ c.group = nextGroup,
         UNCHANGED <<conn, slot, hb, reader, closePC>>
  PROVE  ConnIInv'
  <1>1. /\ call' \in [Threads -> CallRecord] /\ nextGroup' \in Nat
        /\ AttemptsOK' /\ BeatOnce' /\ GroupsUnique'
    BY CallStepInv
  <1>2. ConnTypeOK'
    BY <1>1 DEF ConnIInv, ConnTypeOK, CallRecord
  <1>3. CloseOK'
    BY DEF ConnIInv, CloseOK
  <1> QED
    BY <1>1, <1>2, <1>3 DEF ConnIInv

(* The call that TrackWriter.Write's return makes of a thread's call.      *)
LEMMA WriterReturnsCall ==
  ASSUME ConnIInv, NEW t \in Threads, NEW e \in {"ok", "ctx", "io", "ErrConnectionClosed"},
         t \in Writers =>
            /\ call[t].pc \notin {"idle", "retry", "delay"}
            /\ e = "ok" => call[t].copies >= 1
  PROVE  \E c \in CallRecord :
            /\ WriterReturns(t, e) = [call EXCEPT ![t] = c]
            /\ t \in Writers => CallOK(c)
            /\ t = HB => c.pc # "delay"
            /\ c.pc \in {"returned", "delay"}
  <1> call \in [Threads -> CallRecord] /\ call[t] \in CallRecord
    BY DEF ConnIInv, ConnTypeOK, CallRecord
  <1> t \in Writers => CallOK(call[t])
    BY DEF ConnIInv, AttemptsOK
  <1> DEFINE ret == [call[t] EXCEPT !.pc = "returned", !.result = e, !.group = 0]
             again == [call[t] EXCEPT !.pc = "delay", !.group = 0]
  <1>1. CASE t = HB \/ e = "ok" \/ call[t].attempt >= MaxAttempts
    <2>1. WriterReturns(t, e) = [call EXCEPT ![t] = ret]
      BY <1>1 DEF WriterReturns
    <2>2. ret \in CallRecord /\ ret.pc = "returned" /\ (t \in Writers => CallOK(ret))
      BY DEF CallRecord, CallOK
    <2> QED
      BY <2>1, <2>2
  <1>2. CASE ~(t = HB \/ e = "ok" \/ call[t].attempt >= MaxAttempts)
    <2>1. WriterReturns(t, e) = [call EXCEPT ![t] = again]
      BY <1>2 DEF WriterReturns
    <2>2. again \in CallRecord /\ again.pc = "delay"
      BY DEF CallRecord
    <2>3. CallOK(again)
      BY <1>2, ConnAssumption DEF CallRecord, CallOK, Threads
    <2> QED
      BY <1>2, <2>1, <2>2, <2>3
  <1> QED
    BY <1>1, <1>2

(* A thread inside the writer returns from it with an error. *)
LEMMA ErrorReturnInv ==
  ASSUME ConnIInv, NEW t \in Threads, NEW e \in {"ctx", "io", "ErrConnectionClosed"},
         call[t].pc \notin {"idle", "retry", "delay"},
         call' = WriterReturns(t, e),
         UNCHANGED <<conn, slot, nextGroup, hb, reader, closePC>>
  PROVE  ConnIInv'
  <1>1. PICK c \in CallRecord :
            /\ WriterReturns(t, e) = [call EXCEPT ![t] = c]
            /\ t \in Writers => CallOK(c)
            /\ t = HB => c.pc # "delay"
            /\ c.pc \in {"returned", "delay"}
    BY WriterReturnsCall
  <1> QED
    BY <1>1, CallOnlyInv

-------------------------------------------------------------------------------
(* The steps of a caller of Write outside the track writer. *)
LEMMA CallerInv ==
  ASSUME ConnIInv, NEW w \in Writers,
         Write(w) \/ RetryAttempt(w) \/ RetryDelay(w) \/ CallerCancels(w)
  PROVE  ConnIInv'
  <1> w \in Threads /\ w # HB
    BY ConnAssumption DEF Threads
  <1> call \in [Threads -> CallRecord] /\ call[w] \in CallRecord
    BY DEF ConnIInv, ConnTypeOK, CallRecord
  <1> CallOK(call[w])
    BY DEF ConnIInv, AttemptsOK
  <1>1. CASE Write(w)
    <2>1. PICK c : /\ call' = [call EXCEPT ![w] = c]
                   /\ c = [call[w] EXCEPT !.pc = "returned",
                                          !.result = "mcp.ErrConnectionClosed"]
                      \/ c = [call[w] EXCEPT !.pc = "retry"]
      BY <1>1 DEF Write, Returns, Goes
    <2>2. c \in CallRecord /\ CallOK(c) /\ c.pc \in {"returned", "retry"}
      BY <1>1, <2>1 DEF CallRecord, CallOK, Write
    <2> QED
      BY <1>1, <2>1, <2>2, CallOnlyInv DEF Write
  <1>2. CASE RetryAttempt(w)
    <2> DEFINE gone == [call[w] EXCEPT !.pc = "returned", !.result = "ctx"]
               tries == [call[w] EXCEPT !.pc = "check", !.attempt = call[w].attempt + 1]
    <2>1. call' = [call EXCEPT ![w] = gone] \/ call' = [call EXCEPT ![w] = tries]
      BY <1>2 DEF RetryAttempt, Returns
    <2>2. gone \in CallRecord /\ CallOK(gone) /\ gone.pc = "returned"
      BY <1>2 DEF CallRecord, CallOK, RetryAttempt
    <2>3. /\ call[w].attempt < MaxAttempts /\ call[w].attempt \in 0..MaxAttempts
          /\ call[w].copies \in Nat
      BY <1>2 DEF CallRecord, CallOK, RetryAttempt
    <2>4. call[w].attempt + 1 \in 0..MaxAttempts
      BY <2>3, ConnAssumption
    <2>5. tries \in CallRecord
      BY <2>4 DEF CallRecord
    <2>6. /\ tries.pc = "check" /\ tries.attempt = call[w].attempt + 1
          /\ tries.copies = call[w].copies /\ tries.result = call[w].result
      BY DEF CallRecord
    <2>7. CallOK(tries)
      BY <2>3, <2>6, <1>2, ConnAssumption DEF CallOK, RetryAttempt
    <2> HIDE DEF gone, tries
    <2> QED
      BY <1>2, <2>1, <2>2, <2>5, <2>6, <2>7, CallOnlyInv DEF RetryAttempt
  <1>3. CASE RetryDelay(w)
    <2>1. PICK c : /\ call' = [call EXCEPT ![w] = c]
                   /\ c = [call[w] EXCEPT !.pc = "returned", !.result = "ctx"]
                      \/ c = [call[w] EXCEPT !.pc = "retry"]
      BY <1>3 DEF RetryDelay, delaySelect, Returns, Goes
    <2>2. c \in CallRecord /\ CallOK(c) /\ c.pc \in {"returned", "retry"}
      BY <1>3, <2>1 DEF CallRecord, CallOK, RetryDelay
    <2> QED
      BY <1>3, <2>1, <2>2, CallOnlyInv DEF RetryDelay
  <1>4. CASE CallerCancels(w)
    <2> DEFINE c == [call[w] EXCEPT !.ctxDone = TRUE]
    <2>1. call' = [call EXCEPT ![w] = c]
      BY <1>4 DEF CallerCancels
    <2>2. c \in CallRecord /\ CallOK(c) /\ c.pc = call[w].pc /\ c.group = call[w].group
      BY DEF CallRecord, CallOK
    <2>3. c.pc \in {"open", "object", "sgclose"} => InSubgroup(w)
      BY <2>2 DEF InSubgroup
    <2> HIDE DEF c
    <2> QED
      BY <1>4, <2>1, <2>2, <2>3, CallOnlyInv DEF CallerCancels
  <1> QED
    BY <1>1, <1>2, <1>3, <1>4

(* TrackWriter.Write and PublisherSlot.Get, up to the group number. *)
LEMMA WriterBeginInv ==
  ASSUME ConnIInv, NEW t \in Threads,
         WriterCheck(t) \/ SlotSelect(t) \/ SlotGet(t)
  PROVE  ConnIInv'
  <1> call \in [Threads -> CallRecord] /\ call[t] \in CallRecord /\ nextGroup \in Nat
    BY DEF ConnIInv, ConnTypeOK, CallRecord
  <1> t \in Writers => CallOK(call[t])
    BY DEF ConnIInv, AttemptsOK
  <1> USE DEF WriterCheck, SlotSelect, SlotGet, takePublisher
  <1>1. CASE \E e \in {"ctx", "ErrConnectionClosed"} : call' = WriterReturns(t, e)
                                                      /\ UNCHANGED nextGroup
    BY <1>1, ErrorReturnInv
  <1>2. CASE (WriterCheck(t) /\ call' = Goes(t, "get"))
             \/ (SlotSelect(t) /\ call' = Goes(t, "getlock"))
    <2>1. PICK c : /\ call' = [call EXCEPT ![t] = c]
                   /\ c = [call[t] EXCEPT !.pc = "get"]
                      \/ c = [call[t] EXCEPT !.pc = "getlock"]
      BY <1>2 DEF Goes
    <2>2. c \in CallRecord /\ (t \in Writers => CallOK(c)) /\ c.pc \in {"get", "getlock"}
      BY <1>2, <2>1 DEF CallRecord, CallOK
    <2> QED
      BY <1>2, <2>1, <2>2, CallOnlyInv
  <1>3. CASE SlotGet(t) /\ nextGroup' = nextGroup + 1
    <2> DEFINE c == [call[t] EXCEPT !.pc = "open", !.group = nextGroup]
    <2>1. call' = [call EXCEPT ![t] = c]
      BY <1>3
    <2>2. c \in CallRecord /\ c.pc = "open" /\ c.group = nextGroup
      BY DEF CallRecord
    <2>3. t \in Writers => CallOK(c)
      BY <1>3 DEF CallRecord, CallOK
    <2> HIDE DEF c
    <2> QED
      BY <1>3, <2>1, <2>2, <2>3, CallOnlyInv
  <1> QED
    BY <1>1, <1>2, <1>3

(* The three library calls, the last of which ends a successful Write. *)
LEMMA LibraryInv ==
  ASSUME ConnIInv, NEW t \in Threads,
         OpenSubgroup(t) \/ WriteObject(t) \/ CloseSubgroup(t)
  PROVE  ConnIInv'
  <1> call \in [Threads -> CallRecord] /\ call[t] \in CallRecord
    BY DEF ConnIInv, ConnTypeOK, CallRecord
  <1> t \in Writers => CallOK(call[t])
    BY DEF ConnIInv, AttemptsOK
  <1> USE DEF OpenSubgroup, WriteObject, CloseSubgroup, LibraryCall
  <1>1. CASE call' = WriterReturns(t, "io")
    BY <1>1, ErrorReturnInv
  <1>2. CASE OpenSubgroup(t) /\ call' = Goes(t, "object")
    <2> DEFINE c == [call[t] EXCEPT !.pc = "object"]
    <2>1. call' = [call EXCEPT ![t] = c]
      BY <1>2 DEF Goes
    <2>2. /\ c \in CallRecord /\ c.pc = "object"
          /\ InSubgroup(t) /\ c.group = call[t].group
      BY <1>2 DEF CallRecord, InSubgroup
    <2>3. t \in Writers => CallOK(c)
      BY <1>2 DEF CallRecord, CallOK
    <2> HIDE DEF c
    <2> QED
      BY <1>2, <2>1, <2>2, <2>3, CallOnlyInv
  <1>3. CASE /\ WriteObject(t)
             /\ call' = [call EXCEPT ![t] = [@ EXCEPT !.pc = "sgclose",
                                                       !.copies = call[t].copies + 1]]
    <2> DEFINE c == [call[t] EXCEPT !.pc = "sgclose", !.copies = call[t].copies + 1]
    <2>1. call' = [call EXCEPT ![t] = c]
      BY <1>3
    <2>2. c \in CallRecord
      <3> call[t].copies + 1 \in Nat
        BY DEF CallRecord
      <3> QED
        BY DEF CallRecord
    <2>5. InSubgroup(t)
      BY <1>3 DEF InSubgroup
    <2>3. /\ c.pc = "sgclose" /\ c.group = call[t].group
          /\ c.copies = call[t].copies + 1 /\ c.attempt = call[t].attempt
          /\ call[t].copies \in Nat /\ call[t].attempt \in 0..MaxAttempts
      BY DEF CallRecord
    <2>4. t \in Writers => CallOK(c)
      BY <1>3, <2>3, ConnAssumption DEF CallOK
    <2> HIDE DEF c
    <2> QED
      BY <1>3, <2>1, <2>2, <2>3, <2>4, <2>5, CallOnlyInv
  <1>4. CASE CloseSubgroup(t) /\ call' = WriterReturns(t, "ok")
    <2>1. t \in Writers => call[t].copies >= 1
      BY <1>4 DEF CallOK
    <2>2. PICK c \in CallRecord :
              /\ WriterReturns(t, "ok") = [call EXCEPT ![t] = c]
              /\ t \in Writers => CallOK(c)
              /\ t = HB => c.pc # "delay"
              /\ c.pc \in {"returned", "delay"}
      BY <1>4, <2>1, WriterReturnsCall
    <2> QED
      BY <1>4, <2>2, CallOnlyInv
  <1> QED
    BY <1>1, <1>2, <1>3, <1>4

-------------------------------------------------------------------------------
(* A step that changes no call keeps what the invariant says of them. *)
LEMMA CallsUntouched ==
  ASSUME ConnIInv, UNCHANGED <<nextGroup, call>>
  PROVE  AttemptsOK' /\ BeatOnce' /\ GroupsUnique'
  BY DEF ConnIInv, AttemptsOK, BeatOnce, GroupsUnique, InSubgroup

(* The heartbeat counts a failure only together with a missed beat.        *)
LEMMA BeatCount ==
  ASSUME ConnIInv, Heartbeat
  PROVE  hb' \in BeatRecord /\ hb'.failures <= hb'.missed
  <1> hb \in BeatRecord /\ hb.failures <= hb.missed
    BY DEF ConnIInv, ConnTypeOK, CloseOK, BeatRecord
  <1> /\ hb.failures \in Nat /\ hb.counted \in Nat /\ hb.missed \in Nat
      /\ hb.beats \in 0..MaxBeats
    BY DEF BeatRecord
  <1>1. CASE LoopExit \/ BeatOverdue \/ OnTimeout \/ OnTimeoutClosed
    BY <1>1 DEF LoopExit, BeatOverdue, OnTimeout, OnTimeoutClosed, BeatRecord
  <1>2. CASE LoopTick
    <2>1. hb.beats + 1 \in 0..MaxBeats
      BY <1>2, ConnAssumption DEF LoopTick
    <2> QED
      BY <1>2, <2>1 DEF LoopTick, BeatRecord
  <1>3. CASE BeatSucceeds
    <2>1. hb' \in BeatRecord
      BY <1>3 DEF BeatSucceeds, BeatRecord
    <2>2. hb'.failures = 0 /\ hb'.missed = 0
      BY <1>3 DEF BeatSucceeds, BeatRecord
    <2> QED
      BY <2>1, <2>2
  <1>4. CASE BeatFails
    <2>1. hb.failures + 1 \in Nat /\ hb.missed + 1 \in Nat /\ hb.failures + 1 <= hb.missed + 1
      OBVIOUS
    <2>2. hb' = [hb EXCEPT !.pc = "ontimeout", !.failures = hb.failures + 1,
                           !.counted = hb.failures + 1, !.missed = hb.missed + 1]
      BY <1>4 DEF BeatFails
    <2> QED
      BY <2>1, <2>2 DEF BeatRecord
  <1>5. CASE FailureCounted
    <2>1. hb' \in BeatRecord
      BY <1>5 DEF FailureCounted, BeatRecord
    <2>2. hb'.failures \in {0, hb.failures} /\ hb'.missed = hb.missed
      BY <1>5 DEF FailureCounted, BeatRecord
    <2> QED
      BY <2>1, <2>2
  <1> QED
    BY <1>1, <1>2, <1>3, <1>4, <1>5 DEF Heartbeat

(* The heartbeat's steps keep the invariant; a tick starts a call.         *)
LEMMA HeartbeatInv ==
  ASSUME ConnIInv, Heartbeat
  PROVE  ConnIInv'
  <1> HB \in Threads /\ HB \notin Writers
    BY ConnAssumption DEF Threads
  <1> hb' \in BeatRecord /\ hb'.failures <= hb'.missed
    BY BeatCount
  <1> UNCHANGED <<conn, slot, nextGroup, reader, closePC>>
    BY DEF Heartbeat, LoopExit, LoopTick, BeatOverdue, BeatSucceeds, BeatFails,
           OnTimeout, OnTimeoutClosed, FailureCounted
  <1>1. /\ call' \in [Threads -> CallRecord]
        /\ AttemptsOK' /\ BeatOnce' /\ GroupsUnique'
    <2>1. CASE LoopTick
      <3> DEFINE c == [call[HB] EXCEPT !.pc = "check", !.result = "none"]
      <3> call[HB] \in CallRecord
        BY DEF ConnIInv, ConnTypeOK, CallRecord
      <3>1. c \in CallRecord /\ c.pc = "check" /\ call' = [call EXCEPT ![HB] = c]
        BY <2>1 DEF LoopTick, CallRecord
      <3> HIDE DEF c
      <3> QED
        BY <3>1, CallStepInv
    <2>2. CASE UNCHANGED call
      BY <2>2, CallsUntouched DEF ConnIInv, ConnTypeOK, CallRecord
    <2> QED
      BY <2>1, <2>2 DEF Heartbeat, LoopExit, LoopTick, BeatOverdue, BeatSucceeds, BeatFails,
                        OnTimeout, OnTimeoutClosed, FailureCounted
  <1>2. ConnTypeOK' /\ CloseOK'
    BY <1>1 DEF ConnIInv, ConnTypeOK, CloseOK, CallRecord, BeatRecord
  <1> QED
    BY <1>1, <1>2 DEF ConnIInv

(* The reader, whose messages clear the heartbeat's count. *)
LEMMA ReadInv ==
  ASSUME ConnIInv, Read
  PROVE  ConnIInv'
  <1> USE DEF Read, ReadLoop, ReadObject, ReadHandles, ReadFails, ReadGivesUp
  <1>1. UNCHANGED <<conn, slot, nextGroup, call, closePC>>
    OBVIOUS
  <1>2. hb' \in BeatRecord /\ hb'.failures <= hb'.missed
    <2> hb \in BeatRecord /\ hb.failures <= hb.missed
      BY DEF ConnIInv, ConnTypeOK, CloseOK, BeatRecord
    <2>1. CASE hb' = hb
      BY <2>1
    <2>2. CASE hb' = RecordPong
      <3>1. hb' \in BeatRecord
        BY <2>2 DEF RecordPong, BeatRecord
      <3>2. hb'.failures = 0 /\ hb'.missed = 0
        BY <2>2 DEF RecordPong, BeatRecord
      <3> QED
        BY <3>1, <3>2
    <2> QED
      BY <2>1, <2>2
  <1>3. reader' \in [pc : {"top", "reading", "got", "returned"}, inbound : 0..MaxInbound]
    <2> reader \in [pc : {"top", "reading", "got", "returned"}, inbound : 0..MaxInbound]
      BY DEF ConnIInv, ConnTypeOK
    <2>1. CASE ReadObject
      BY <2>1, ConnAssumption
    <2>2. CASE ReadLoop \/ ReadHandles \/ ReadFails \/ ReadGivesUp
      BY <2>2
    <2> QED
      BY <2>1, <2>2
  <1>4. ConnTypeOK' /\ CloseOK'
    BY <1>1, <1>2, <1>3 DEF ConnIInv, ConnTypeOK, CloseOK, BeatRecord
  <1> QED
    BY <1>1, <1>4, CallsUntouched DEF ConnIInv

(* Close, the peer's subscription and the loss of the connection. *)
LEMMA ConnCloseInv ==
  ASSUME ConnIInv, CloseBegin \/ CloseGoesOn \/ SlotSet \/ ConnLost
  PROVE  ConnIInv'
  <1> USE DEF ConnIInv, CloseBegin, CloseGoesOn, CloseHeartbeat, CloseCancelRead, CloseWriter,
              CloseSlot, CloseConn, CloseCallback, SlotSet, ConnLost
  <1>1. ConnTypeOK'
    BY DEF ConnTypeOK
  <1>2. CloseOK'
    BY DEF ConnTypeOK, CloseOK
  <1> QED
    BY <1>1, <1>2, CallsUntouched

(* Every step of the connection keeps the invariant. *)
LEMMA ConnStepInv == ConnIInv /\ [ConnNext]_vars => ConnIInv'
  <1> SUFFICES ASSUME ConnIInv, [ConnNext]_vars PROVE ConnIInv'
    OBVIOUS
  <1>1. CASE UNCHANGED vars
    BY <1>1, CallsUntouched DEF vars, ConnIInv, ConnTypeOK, CloseOK
  <1> QED
    BY <1>1, CallerInv, WriterBeginInv, LibraryInv, HeartbeatInv, ReadInv, ConnCloseInv
    DEF ConnNext, TrackWriterWrite

(* The inductive invariant holds throughout every behaviour. *)
THEOREM ConnInvariant == ConnSpec => []ConnIInv
  BY ConnInitInv, ConnStepInv, PTL DEF ConnSpec

-------------------------------------------------------------------------------
(* The state of the connection keeps its types. *)
THEOREM ConnTypes == ConnSpec => []ConnTypeOK
  <1>1. ConnIInv => ConnTypeOK
    BY DEF ConnIInv
  <1> QED
    BY <1>1, ConnInvariant, PTL

(* However many writers, retries and heartbeats share the track, no two    *)
(* subgroups are open under the same group number.                         *)
THEOREM GroupsDiffer == ConnSpec => []GroupsUnique
  <1>1. ConnIInv => GroupsUnique
    BY DEF ConnIInv
  <1> QED
    BY <1>1, ConnInvariant, PTL

(* A Write that reports success put its message on the wire, and no call   *)
(* puts it there more often than it tried.                                 *)
THEOREM SuccessSent == ConnSpec => []SuccessWasSent
  <1>1. ConnIInv => SuccessWasSent
    BY DEF ConnIInv, AttemptsOK, CallOK, SuccessWasSent
  <1> QED
    BY <1>1, ConnInvariant, PTL

(* The heartbeat closes the connection only when MaxFailures beats in a    *)
(* row were missed: a sign of life that clears the counter between the     *)
(* count and its second reading is seen.                                   *)
THEOREM CloseJustified == ConnSpec => HeartbeatCloseJustified
  <1>1. ConnIInv /\ [ConnNext]_vars
          => [hb.pc = "ontimeout" /\ hb'.pc = "closing" => hb.missed >= MaxFailures]_vars
    <2> SUFFICES ASSUME ConnIInv, ConnNext, hb.pc = "ontimeout", hb'.pc = "closing"
                 PROVE  hb.missed >= MaxFailures
      BY DEF vars
    <2>1. hb.failures <= hb.missed /\ hb.failures \in Nat /\ hb.missed \in Nat
      BY DEF ConnIInv, CloseOK, ConnTypeOK
    <2>2. hb' # hb
      OBVIOUS
    <2>3. CASE Heartbeat
      <3>1. hb.failures >= MaxFailures
        BY <2>3 DEF Heartbeat, LoopExit, LoopTick, BeatOverdue, BeatSucceeds, BeatFails,
                    OnTimeout, OnTimeoutClosed, FailureCounted, ConnIInv, ConnTypeOK
      <3> QED
        BY <2>1, <3>1, ConnAssumption
    <2>4. CASE Read
      BY <2>2, <2>4 DEF Read, ReadLoop, ReadObject, ReadHandles, ReadFails, ReadGivesUp,
                        RecordPong, ConnIInv, ConnTypeOK
    <2>5. CASE CloseBegin \/ CloseGoesOn \/ SlotSet \/ ConnLost
      BY <2>2, <2>5 DEF CloseBegin, CloseGoesOn, CloseHeartbeat, CloseCancelRead, CloseWriter,
                        CloseSlot, CloseConn, CloseCallback, SlotSet, ConnLost,
                        ConnIInv, ConnTypeOK
    <2>6. CASE \/ \E w \in Writers : \/ Write(w) \/ RetryAttempt(w)
                                     \/ RetryDelay(w) \/ CallerCancels(w)
               \/ \E t \in Threads : TrackWriterWrite(t)
      BY <2>2, <2>6 DEF Write, RetryAttempt, RetryDelay, CallerCancels, TrackWriterWrite,
                        WriterCheck, SlotSelect, SlotGet, OpenSubgroup, WriteObject,
                        CloseSubgroup, LibraryCall
    <2> QED
      BY <2>3, <2>4, <2>5, <2>6 DEF ConnNext
  <1> QED
    BY <1>1, ConnInvariant, PTL DEF ConnSpec, HeartbeatCloseJustified

(* After Close no object and no subgroup goes out: the library calls of a  *)
(* thread that had the publisher before the slot was cleared all fail.     *)
THEOREM ClosedIsSilent == ConnSpec => SilentAfterClose
  <1> DEFINE Silent ==
        closePC = "done" =>
          \A t \in Threads : /\ call'[t].copies = call[t].copies
                             /\ call'[t].pc = "object" => call[t].pc = "object"
  <1>1. ConnIInv /\ [ConnNext]_vars => [Silent]_vars
    <2> SUFFICES ASSUME ConnIInv, ConnNext, closePC = "done", NEW t \in Threads
                 PROVE  /\ call'[t].copies = call[t].copies
                        /\ call'[t].pc = "object" => call[t].pc = "object"
      BY DEF vars
    <2> ~conn.up /\ call \in [Threads -> CallRecord]
      BY DEF ConnIInv, CloseOK, ConnTypeOK, CallRecord
    <2>1. \A u \in Threads, e \in {"ctx", "io", "ok", "ErrConnectionClosed"} :
             call' = WriterReturns(u, e) => /\ call'[t].copies = call[t].copies
                                            /\ call'[t].pc = "object" => call[t].pc = "object"
      BY DEF WriterReturns, CallRecord
    <2>2. CASE \E w \in Writers : \/ Write(w) \/ RetryAttempt(w)
                                  \/ RetryDelay(w) \/ CallerCancels(w)
      <3> PICK w \in Writers : Write(w) \/ RetryAttempt(w) \/ RetryDelay(w) \/ CallerCancels(w)
        BY <2>2
      <3> w \in Threads /\ call[w] \in CallRecord
        BY DEF Threads
      <3>1. CASE \E e : call' = Returns(w, e)
        BY <3>1 DEF Returns, CallRecord
      <3>2. CASE call' = Goes(w, "retry")
        BY <3>2 DEF Goes, CallRecord
      <3>3. CASE call' = [call EXCEPT ![w] = [@ EXCEPT !.pc = "check",
                                                       !.attempt = call[w].attempt + 1]]
        BY <3>3 DEF CallRecord
      <3>4. CASE call' = [call EXCEPT ![w].ctxDone = TRUE]
        BY <3>4 DEF CallRecord
      <3> QED
        BY <3>1, <3>2, <3>3, <3>4 DEF Write, RetryAttempt, RetryDelay, delaySelect, CallerCancels
    <2>3. CASE \E u \in Threads : WriterCheck(u) \/ SlotSelect(u) \/ SlotGet(u)
      <3> PICK u \in Threads : WriterCheck(u) \/ SlotSelect(u) \/ SlotGet(u)
        BY <2>3
      <3>1. CASE \E e \in {"ctx", "ErrConnectionClosed"} : call' = WriterReturns(u, e)
        BY <2>1, <3>1
      <3>2. CASE call' \in {Goes(u, "get"), Goes(u, "getlock")}
        BY <3>2 DEF Goes, CallRecord
      <3>3. CASE call' = [call EXCEPT ![u] = [@ EXCEPT !.pc = "open", !.group = nextGroup]]
        BY <3>3 DEF CallRecord
      <3> QED
        BY <3>1, <3>2, <3>3 DEF WriterCheck, SlotSelect, SlotGet, takePublisher
    <2>4. CASE \E u \in Threads : OpenSubgroup(u) \/ WriteObject(u) \/ CloseSubgroup(u)
      BY <2>1, <2>4 DEF OpenSubgroup, WriteObject, CloseSubgroup, LibraryCall
    <2>5. CASE Heartbeat
      <3>1. CASE LoopTick
        BY <3>1, ConnAssumption DEF LoopTick, CallRecord, Threads
      <3>2. CASE ~LoopTick
        BY <2>5, <3>2 DEF Heartbeat, LoopExit, BeatOverdue, BeatSucceeds, BeatFails,
                          OnTimeout, OnTimeoutClosed, FailureCounted
      <3> QED
        BY <3>1, <3>2
    <2>6. CASE Read \/ CloseBegin \/ CloseGoesOn \/ SlotSet \/ ConnLost
      BY <2>6 DEF Read, ReadLoop, ReadObject, ReadHandles, ReadFails, ReadGivesUp,
                  CloseBegin, CloseGoesOn, SlotSet, ConnLost
    <2> QED
      BY <2>2, <2>3, <2>4, <2>5, <2>6 DEF ConnNext, TrackWriterWrite
  <1> QED
    BY <1>1, ConnInvariant, PTL DEF ConnSpec, SilentAfterClose
===============================================================================
