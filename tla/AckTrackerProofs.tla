--------------------------- MODULE AckTrackerProofs ---------------------------
(***************************************************************************)
(* TLAPS proofs about AckTracker, for any ids and any number of Track      *)
(* calls, an id tracked again included, and, in the last part, about the   *)
(* control connection's use of it in ControlAcks, for any messages.        *)
(***************************************************************************)
EXTENDS ControlAcks, TLAPS

(* A pending entry is a handed-out channel, filed under its own id, on     *)
(* which nothing has been sent.                                            *)
PendingOK ==
    \A id \in MessageID : pending[id] # NoAck =>
        /\ pending[id] \in Tracked
        /\ ackID[pending[id]] = id
        /\ sent[pending[id]] = 0

(* Channels not handed out yet are untouched; handed-out ones have an id. *)
FreshOK ==
    /\ \A a \in Acks : a > nextAck => sent[a] = 0 /\ timer[a] = "none"
    /\ \A a \in Tracked : ackID[a] \in MessageID

(* The count of sends and the status sent agree, and the count is 0 or 1. *)
SentOK == \A a \in Acks : SentOnce(a) /\ (sent[a] = 0 <=> verdict[a] = "none")

(* An unsettled channel that was not replaced is still pending. *)
NewestOK ==
    \A a \in Tracked : Newest(a) /\ sent[a] = 0 => pending[ackID[a]] = a

DrainedOK == closePhase = "drained" => \A id \in MessageID : pending[id] = NoAck

(* A timer of an id tracked once runs only while its entry is pending, and *)
(* no handle with a timer is newer than the entry pending under its id, so *)
(* that timeouts come from timers not newer than what they settle.         *)
TimerOK ==
    /\ \A a \in Tracked : OnlyUse(a) /\ timer[a] = "armed" => pending[ackID[a]] = a
    /\ \A a, b \in Tracked : pending[ackID[b]] = a /\ timer[b] # "none" => b <= a

TrackerIInv ==
    /\ TrackerTypeOK
    /\ PendingOK
    /\ FreshOK
    /\ SentOK
    /\ NewestOK
    /\ DrainedOK
    /\ TimerOK
    /\ TimeoutIsOwn

-------------------------------------------------------------------------------
(* The initial state, before any Track, satisfies the invariant. *)
LEMMA TrackerInitInv == TrackerInit => TrackerIInv
  <1> SUFFICES ASSUME TrackerInit PROVE TrackerIInv
    OBVIOUS
  <1> USE TrackerAssumption DEF TrackerInit, Acks, NoAck, Tracked
  <1>1. TrackerTypeOK
    BY DEF TrackerTypeOK
  <1>2. PendingOK /\ FreshOK /\ SentOK /\ NewestOK /\ DrainedOK /\ TimerOK /\ TimeoutIsOwn
    BY DEF PendingOK, FreshOK, SentOK, SentOnce, NewestOK, DrainedOK, TimerOK,
           TimeoutIsOwn
  <1> QED
    BY <1>1, <1>2 DEF TrackerIInv

(* Settling the entry under one id keeps every part of the invariant that  *)
(* does not depend on why it is settled (Ack, Nack or a timeout).          *)
LEMMA SettleInv ==
    ASSUME TrackerIInv,
           NEW id \in MessageID, pending[id] # NoAck,
           NEW status \in {"acked", "nacked", "timeout"},
           settle(id, status),
           timer' \in [Acks -> {"none", "armed", "firing", "stopped", "done"}],
           \A a \in Acks : timer[a] = "none" => timer'[a] = "none",
           UNCHANGED <<nextAck, ackID, closePhase>>
    PROVE  /\ TrackerTypeOK' /\ PendingOK' /\ FreshOK' /\ SentOK'
           /\ NewestOK' /\ DrainedOK'
  <1> USE TrackerAssumption DEF Tracked, Acks, NoAck, TrackerTypeOK
  <1> DEFINE p == pending[id]
  <1>0. TrackerTypeOK /\ PendingOK /\ FreshOK /\ SentOK /\ NewestOK /\ DrainedOK
    BY DEF TrackerIInv
  <1>1. p \in Tracked /\ p \in Acks /\ ackID[p] = id /\ sent[p] = 0
    BY <1>0 DEF PendingOK
  <1>2. /\ sent' = [sent EXCEPT ![p] = @ + 1]
        /\ verdict' = [verdict EXCEPT ![p] = status]
        /\ pending' = [pending EXCEPT ![id] = NoAck]
    BY DEF settle
  <1>3. TrackerTypeOK'
    BY <1>0, <1>1, <1>2
  <1>4. PendingOK'
    BY <1>0, <1>1, <1>2 DEF PendingOK
  <1>5. FreshOK'
    BY <1>0, <1>1, <1>2 DEF FreshOK
  <1>6. SentOK'
    BY <1>0, <1>1, <1>2 DEF SentOK, SentOnce
  <1>7. NewestOK'
    BY <1>0, <1>1, <1>2 DEF NewestOK, Newest, FreshOK
  <1>8. DrainedOK'
    BY <1>0, <1>1, <1>2 DEF DrainedOK
  <1> QED
    BY <1>3, <1>4, <1>5, <1>6, <1>7, <1>8

(* What waits in the table has been handed out and has no verdict. *)
LEMMA WaitingUnsettled ==
    ASSUME TrackerIInv, NEW a \in Waiting
    PROVE  a \in Acks /\ a \in Tracked /\ sent[a] = 0 /\ verdict[a] = "none"
  <1>1. a \in Acks /\ a # NoAck
    BY TrackerAssumption DEF Waiting, Acks, NoAck
  <1>2. PICK id \in MessageID : pending[id] = a
    BY DEF Waiting
  <1>3. a \in Tracked /\ sent[a] = 0
    BY <1>1, <1>2 DEF TrackerIInv, PendingOK
  <1> QED
    BY <1>1, <1>3 DEF TrackerIInv, SentOK

(* A step that tracks nothing keeps TimerOK if it only takes entries out,  *)
(* arms no timer, and stops the timer of an id tracked once together with  *)
(* taking out its entry.                                                   *)
LEMMA TimersKept ==
    ASSUME TrackerIInv, UNCHANGED <<nextAck, ackID>>,
           \A id \in MessageID : pending'[id] \in {pending[id], NoAck},
           \A b \in Tracked : timer[b] = "none" => timer'[b] = "none",
           \A b \in Tracked : OnlyUse(b) /\ timer'[b] = "armed" =>
               timer[b] = "armed" /\ pending'[ackID[b]] = pending[ackID[b]]
    PROVE  TimerOK'
  <1>0. TimerOK /\ \A b \in Tracked : ackID[b] \in MessageID
    BY DEF TrackerIInv, FreshOK
  <1>1. Tracked' = Tracked /\ \A b : OnlyUse(b)' <=> OnlyUse(b)
    BY DEF Tracked, OnlyUse
  <1>2. \A b \in Tracked : OnlyUse(b) /\ timer'[b] = "armed" => pending'[ackID[b]] = b
    BY <1>0 DEF TimerOK
  <1>3. \A a, b \in Tracked : pending'[ackID[b]] = a => pending[ackID[b]] = a
    BY <1>0 DEF Tracked, NoAck
  <1>4. \A a, b \in Tracked : pending'[ackID[b]] = a /\ timer'[b] # "none" => b <= a
    BY <1>0, <1>3 DEF TimerOK
  <1> QED
    BY <1>1, <1>2, <1>4 DEF TimerOK

(* A step that tracks nothing keeps TimeoutIsOwn if timers that have run   *)
(* stay so and every new timeout verdict has its cause.                    *)
LEMMA TimeoutsKept ==
    ASSUME TimeoutIsOwn, UNCHANGED <<nextAck, ackID>>,
           \A b \in Tracked : timer[b] = "done" => timer'[b] = "done",
           \A a \in Tracked : verdict'[a] = "timeout" =>
               \/ verdict[a] = "timeout"
               \/ \E b \in Tracked : b <= a /\ ackID[b] = ackID[a] /\ timer'[b] = "done"
    PROVE  TimeoutIsOwn'
  <1>1. Tracked' = Tracked
    BY DEF Tracked
  <1> QED
    BY <1>1 DEF TimeoutIsOwn

(* Track, refused or not, keeps the invariant. *)
LEMMA TrackInv ==
    ASSUME TrackerIInv, NEW id \in MessageID, Track(id)
    PROVE  TrackerIInv'
  <1> USE TrackerAssumption DEF Tracked, Acks, NoAck, TrackerTypeOK
  <1> DEFINE n == nextAck + 1
  <1>0. /\ TrackerTypeOK /\ PendingOK /\ FreshOK /\ SentOK
        /\ NewestOK /\ DrainedOK /\ TimerOK /\ TimeoutIsOwn
    BY DEF TrackerIInv
  <1>1. /\ nextAck < MaxTracks /\ nextAck' = n /\ n \in Acks
        /\ ackID' = [ackID EXCEPT ![n] = id]
        /\ closePhase' = closePhase
    BY <1>0 DEF Track
  <1>2. sent[n] = 0 /\ timer[n] = "none" /\ verdict[n] = "none"
    BY <1>0, <1>1 DEF FreshOK, SentOK
  <1>3. CASE closePhase # "open"
    <2>1. /\ sent' = [sent EXCEPT ![n] = 1]
          /\ verdict' = [verdict EXCEPT ![n] = "nacked"]
          /\ pending' = pending /\ timer' = timer
      BY <1>3 DEF Track, TrackRefused
    <2>2. TrackerTypeOK'
      BY <1>0, <1>1, <2>1
    <2>3. PendingOK'
      BY <1>0, <1>1, <2>1 DEF PendingOK
    <2>4. FreshOK'
      BY <1>0, <1>1, <2>1 DEF FreshOK
    <2>5. SentOK'
      BY <1>0, <1>1, <1>2, <2>1 DEF SentOK, SentOnce
    <2>6. NewestOK'
      <3> SUFFICES ASSUME NEW a \in Tracked', Newest(a)', sent'[a] = 0
                   PROVE  pending'[ackID'[a]] = a
        BY DEF NewestOK
      <3>1. a # n
        BY <1>0, <1>1, <2>1
      <3>2. a \in Tracked /\ ackID'[a] = ackID[a] /\ sent[a] = 0
        BY <1>0, <1>1, <2>1, <3>1
      <3>3. Newest(a)
        BY <1>0, <1>1, <3>2 DEF Newest
      <3> QED
        BY <1>0, <2>1, <3>2, <3>3 DEF NewestOK
    <2>7. DrainedOK'
      BY <1>0, <1>1, <2>1 DEF DrainedOK
    <2>8. TimerOK'
      <3>1. \A a \in Tracked : a \in Tracked' /\ ackID'[a] = ackID[a]
        BY <1>0, <1>1
      <3>2. \A a \in Tracked' : timer'[a] # "none" => a \in Tracked
        BY <1>0, <1>1, <1>2, <2>1
      <3>3. \A a \in Tracked : OnlyUse(a)' => OnlyUse(a)
        BY <3>1 DEF OnlyUse
      <3>4. ASSUME NEW a \in Tracked', OnlyUse(a)', timer'[a] = "armed"
            PROVE  pending'[ackID'[a]] = a
        BY <1>0, <2>1, <3>1, <3>2, <3>3, <3>4 DEF TimerOK
      <3>5. ASSUME NEW a \in Tracked', NEW b \in Tracked',
                   pending'[ackID'[b]] = a, timer'[b] # "none"
            PROVE  b <= a
        BY <1>0, <2>1, <3>1, <3>2, <3>5 DEF TimerOK, PendingOK, FreshOK
      <3> QED
        BY <3>4, <3>5 DEF TimerOK
    <2>9. TimeoutIsOwn'
      BY <1>0, <1>1, <1>2, <2>1 DEF TimeoutIsOwn, FreshOK
    <2> QED
      BY <2>2, <2>3, <2>4, <2>5, <2>6, <2>7, <2>8, <2>9 DEF TrackerIInv
  <1>4. CASE closePhase = "open"
    <2>1. /\ timer' = [timer EXCEPT ![n] = "armed"]
          /\ pending' = [pending EXCEPT ![id] = n]
          /\ sent' = sent /\ verdict' = verdict
      BY <1>4 DEF Track, TrackPending
    <2>2. TrackerTypeOK'
      BY <1>0, <1>1, <2>1
    <2>3. PendingOK'
      BY <1>0, <1>1, <1>2, <2>1 DEF PendingOK
    <2>4. FreshOK'
      BY <1>0, <1>1, <2>1 DEF FreshOK
    <2>5. SentOK'
      BY <1>0, <1>1, <2>1 DEF SentOK, SentOnce
    <2>6. NewestOK'
      <3> SUFFICES ASSUME NEW a \in Tracked', Newest(a)', sent'[a] = 0
                   PROVE  pending'[ackID'[a]] = a
        BY DEF NewestOK
      <3>1. CASE a = n
        BY <1>0, <1>1, <2>1, <3>1
      <3>2. CASE a # n
        <4>1. a \in Tracked /\ ackID'[a] = ackID[a] /\ sent[a] = 0
          BY <1>0, <1>1, <2>1, <3>2
        <4>2. Newest(a)
          BY <1>0, <1>1, <4>1 DEF Newest
        <4>3. ackID[a] # id
          BY <1>0, <1>1, <4>1 DEF Newest
        <4> QED
          BY <1>0, <2>1, <4>1, <4>2, <4>3 DEF NewestOK, FreshOK
      <3> QED
        BY <3>1, <3>2
    <2>7. DrainedOK'
      BY <1>0, <1>1, <1>4 DEF DrainedOK
    <2>8. TimerOK'
      <3>1. \A a \in Tracked : /\ a \in Tracked' /\ ackID'[a] = ackID[a]
                               /\ timer'[a] = timer[a] /\ a < n
        BY <1>0, <1>1, <2>1
      <3>2. ackID'[n] = id /\ pending'[id] = n /\ n \in Tracked'
        BY <1>0, <1>1, <2>1
      <3>3. \A a \in Tracked' : a \in Tracked \/ a = n
        BY <1>0, <1>1
      <3>4. ASSUME NEW a \in Tracked', OnlyUse(a)', timer'[a] = "armed"
            PROVE  pending'[ackID'[a]] = a
        <4>1. CASE a = n
          BY <3>2, <4>1
        <4>2. CASE a \in Tracked
          <5>1. OnlyUse(a)
            BY <3>1, <3>4, <4>2 DEF OnlyUse
          <5>2. ackID[a] # id
            BY <3>1, <3>2, <3>4, <4>2 DEF OnlyUse
          <5> QED
            BY <1>0, <2>1, <3>1, <3>4, <4>2, <5>1, <5>2 DEF TimerOK, FreshOK
        <4> QED
          BY <3>3, <4>1, <4>2
      <3>5. ASSUME NEW a \in Tracked', NEW b \in Tracked',
                   pending'[ackID'[b]] = a, timer'[b] # "none"
            PROVE  b <= a
        <4>1. CASE ackID'[b] = id
          BY <1>1, <3>1, <3>2, <3>3, <3>5, <4>1
        <4>2. CASE ackID'[b] # id
          <5>1. b \in Tracked /\ ackID[b] \in MessageID /\ pending[ackID[b]] = a
            BY <1>0, <2>1, <3>1, <3>2, <3>3, <3>5, <4>2 DEF FreshOK
          <5>2. a \in Tracked
            BY <1>0, <1>1, <5>1 DEF PendingOK
          <5> QED
            BY <1>0, <3>1, <3>5, <5>1, <5>2 DEF TimerOK
        <4> QED
          BY <4>1, <4>2
      <3> QED
        BY <3>4, <3>5 DEF TimerOK
    <2>9. TimeoutIsOwn'
      BY <1>0, <1>1, <1>2, <2>1 DEF TimeoutIsOwn, FreshOK
    <2> QED
      BY <2>2, <2>3, <2>4, <2>5, <2>6, <2>7, <2>8, <2>9 DEF TrackerIInv
  <1> QED
    BY <1>3, <1>4

(* Ack and Nack keep the invariant. *)
LEMMA ResolveInv ==
    ASSUME TrackerIInv, NEW id \in MessageID,
           NEW status \in {"acked", "nacked"}, Resolve(id, status)
    PROVE  TrackerIInv'
  <1> USE TrackerAssumption DEF Tracked, Acks, NoAck
  <1>1. CASE pending[id] = NoAck
    <2>1. UNCHANGED tvars
      BY <1>1 DEF Resolve
    <2> QED
      BY <2>1 DEF tvars, TrackerIInv, TrackerTypeOK, PendingOK, FreshOK, SentOK,
                  SentOnce, NewestOK, Newest, DrainedOK, TimerOK, OnlyUse, TimeoutIsOwn
  <1>2. CASE pending[id] # NoAck
    <2> DEFINE p == pending[id]
    <2>0. TrackerTypeOK /\ PendingOK /\ FreshOK /\ TimerOK /\ TimeoutIsOwn
      BY DEF TrackerIInv
    <2>1. /\ timer' = [timer EXCEPT ![p] = IF @ = "armed" THEN "stopped" ELSE @]
          /\ settle(id, status)
          /\ UNCHANGED <<nextAck, ackID, closePhase>>
      BY <1>2 DEF Resolve, stopTimer
    <2>2. p \in Tracked /\ p \in Acks /\ ackID[p] = id
      BY <1>2, <2>0 DEF PendingOK, TrackerTypeOK
    <2>3. /\ timer' \in [Acks -> {"none", "armed", "firing", "stopped", "done"}]
          /\ \A a \in Acks : timer[a] = "none" => timer'[a] = "none"
      BY <2>0, <2>1, <2>2 DEF TrackerTypeOK
    <2>4. /\ TrackerTypeOK' /\ PendingOK' /\ FreshOK' /\ SentOK'
          /\ NewestOK' /\ DrainedOK'
      BY <1>2, <2>1, <2>3, SettleInv
    <2>5. /\ \A j \in MessageID : pending'[j] = IF j = id THEN NoAck ELSE pending[j]
          /\ \A b \in Acks : verdict'[b] = IF b = p THEN status ELSE verdict[b]
          /\ \A b \in Acks : timer'[b] = IF b = p /\ timer[b] = "armed"
                                           THEN "stopped" ELSE timer[b]
          /\ Tracked \subseteq Acks
      BY <2>0, <2>1, <2>2 DEF settle, TrackerTypeOK
    <2>6. TimerOK'
      <3>1. ASSUME NEW b \in Tracked, OnlyUse(b), timer'[b] = "armed"
            PROVE  timer[b] = "armed" /\ pending'[ackID[b]] = pending[ackID[b]]
        <4>1. b # p /\ timer[b] = "armed"
          BY <2>5, <3>1
        <4>2. ackID[b] # id
          BY <2>2, <3>1, <4>1 DEF OnlyUse
        <4> QED
          BY <2>0, <2>5, <4>1, <4>2 DEF FreshOK
      <3> QED
        BY <2>1, <2>5, <3>1, TimersKept
    <2>7. TimeoutIsOwn'
      BY <2>0, <2>1, <2>5, TimeoutsKept
    <2> QED
      BY <2>4, <2>6, <2>7 DEF TrackerIInv
  <1> QED
    BY <1>1, <1>2

(* A timer that fires, and its function once it has mu, keep it. *)
LEMMA TimerInv ==
    ASSUME TrackerIInv, NEW a \in Acks, TimerFires(a) \/ timeoutAck(a)
    PROVE  TrackerIInv'
  <1> USE TrackerAssumption DEF Tracked, Acks, NoAck
  <1>0. /\ TrackerTypeOK /\ PendingOK /\ FreshOK /\ SentOK
        /\ NewestOK /\ DrainedOK /\ TimerOK /\ TimeoutIsOwn
    BY DEF TrackerIInv
  <1>t. timer[a] # "none" => a \in Tracked
    BY <1>0 DEF FreshOK, TrackerTypeOK
  <1>a. Tracked \subseteq Acks
    BY <1>0 DEF TrackerTypeOK
  <1>1. CASE TimerFires(a)
    <2>1. /\ timer[a] = "armed" /\ timer' = [timer EXCEPT ![a] = "firing"]
          /\ UNCHANGED <<nextAck, ackID, pending, sent, verdict, closePhase>>
      BY <1>1 DEF TimerFires
    <2>2. /\ TrackerTypeOK' /\ PendingOK' /\ FreshOK' /\ SentOK'
          /\ NewestOK' /\ DrainedOK'
      BY <1>0, <1>t, <2>1
      DEF TrackerTypeOK, PendingOK, FreshOK, SentOK, SentOnce, NewestOK, Newest, DrainedOK
    <2>3. \A b \in Acks : timer'[b] = IF b = a THEN "firing" ELSE timer[b]
      BY <1>0, <2>1 DEF TrackerTypeOK
    <2>4. TimerOK'
      BY <1>0, <1>a, <2>1, <2>3, TimersKept
    <2>5. TimeoutIsOwn'
      BY <1>0, <1>a, <2>1, <2>3, TimeoutsKept
    <2> QED
      BY <2>2, <2>4, <2>5 DEF TrackerIInv
  <1>2. CASE timeoutAck(a)
    <2>1. /\ timer[a] = "firing" /\ timer' = [timer EXCEPT ![a] = "done"]
          /\ UNCHANGED <<nextAck, ackID, closePhase>>
      BY <1>2 DEF timeoutAck
    <2>2. a \in Tracked /\ ackID[a] \in MessageID
      BY <1>0, <1>t, <2>1 DEF FreshOK
    <2>d. \A b \in Acks : timer'[b] = IF b = a THEN "done" ELSE timer[b]
      BY <1>0, <2>1 DEF TrackerTypeOK
    <2>3. CASE pending[ackID[a]] = NoAck
      <3>1. UNCHANGED <<pending, sent, verdict>>
        BY <1>2, <2>3 DEF timeoutAck
      <3>2. /\ TrackerTypeOK' /\ PendingOK' /\ FreshOK' /\ SentOK'
            /\ NewestOK' /\ DrainedOK'
        BY <1>0, <2>1, <2>2, <3>1
        DEF TrackerTypeOK, PendingOK, FreshOK, SentOK, SentOnce, NewestOK, Newest, DrainedOK
      <3>3. TimerOK'
        BY <1>a, <2>1, <2>d, <3>1, TimersKept
      <3>4. TimeoutIsOwn'
        BY <1>0, <1>a, <2>1, <2>d, <3>1, TimeoutsKept
      <3> QED
        BY <3>2, <3>3, <3>4 DEF TrackerIInv
    <2>4. CASE pending[ackID[a]] # NoAck
      <3>1. settle(ackID[a], "timeout")
        BY <1>2, <2>4 DEF timeoutAck
      <3>2. /\ timer' \in [Acks -> {"none", "armed", "firing", "stopped", "done"}]
            /\ \A b \in Acks : timer[b] = "none" => timer'[b] = "none"
        BY <1>0, <2>1 DEF TrackerTypeOK
      <3>3. /\ TrackerTypeOK' /\ PendingOK' /\ FreshOK' /\ SentOK'
            /\ NewestOK' /\ DrainedOK'
        BY <2>1, <2>2, <2>4, <3>1, <3>2, SettleInv
      <3> DEFINE p == pending[ackID[a]]
      <3>4. p \in Tracked /\ ackID[p] = ackID[a] /\ a <= p
        BY <1>0, <2>1, <2>2, <2>4 DEF PendingOK, TimerOK
      <3>5. /\ \A j \in MessageID : pending'[j] = IF j = ackID[a] THEN NoAck ELSE pending[j]
            /\ \A b \in Acks : verdict'[b] = IF b = p THEN "timeout" ELSE verdict[b]
        BY <1>0, <1>a, <3>1, <3>4 DEF settle, TrackerTypeOK
      <3>6. TimerOK'
        <4>1. ASSUME NEW b \in Tracked, OnlyUse(b), timer'[b] = "armed"
              PROVE  timer[b] = "armed" /\ pending'[ackID[b]] = pending[ackID[b]]
          <5>1. b # a /\ timer[b] = "armed"
            BY <1>a, <2>d, <4>1
          <5>2. ackID[b] # ackID[a]
            BY <2>2, <4>1, <5>1 DEF OnlyUse
          <5> QED
            BY <1>0, <3>5, <5>1, <5>2 DEF FreshOK
        <4> QED
          BY <1>a, <2>1, <2>d, <3>5, <4>1, TimersKept
      <3>7. TimeoutIsOwn'
        <4>1. timer'[a] = "done"
          BY <2>d
        <4> QED
          BY <1>0, <1>a, <2>1, <2>2, <2>d, <3>4, <3>5, <4>1, TimeoutsKept
      <3> QED
        BY <3>3, <3>6, <3>7 DEF TrackerIInv
    <2> QED
      BY <2>3, <2>4
  <1> QED
    BY <1>1, <1>2

(* Both halves of Close keep the invariant. *)
LEMMA CloseInv ==
    ASSUME TrackerIInv, CloseFlag \/ CloseDrain
    PROVE  TrackerIInv'
  <1> USE TrackerAssumption DEF Tracked, Acks, NoAck
  <1>0. /\ TrackerTypeOK /\ PendingOK /\ FreshOK /\ SentOK
        /\ NewestOK /\ DrainedOK /\ TimerOK /\ TimeoutIsOwn
    BY DEF TrackerIInv
  <1>1. CASE CloseFlag
    BY <1>0, <1>1
    DEF CloseFlag, TrackerIInv, TrackerTypeOK, PendingOK, FreshOK, SentOK,
        SentOnce, NewestOK, Newest, DrainedOK, TimerOK, OnlyUse, TimeoutIsOwn
  <1>2. CASE CloseDrain
    <2>1. \A a \in Waiting : a \in Tracked /\ sent[a] = 0 /\ a \in Acks
      BY WaitingUnsettled
    <2>2. TrackerTypeOK'
      BY <1>0, <1>2 DEF CloseDrain, TrackerTypeOK
    <2>3. PendingOK' /\ DrainedOK'
      BY <1>2 DEF CloseDrain, PendingOK, DrainedOK
    <2>4. FreshOK'
      BY <1>0, <1>2, <2>1 DEF CloseDrain, FreshOK, TrackerTypeOK
    <2>5. SentOK'
      BY <1>0, <1>2, <2>1 DEF CloseDrain, SentOK, SentOnce, TrackerTypeOK
    <2>6. NewestOK'
      <3> SUFFICES ASSUME NEW a \in Tracked', Newest(a)', sent'[a] = 0
                   PROVE  FALSE
        BY DEF NewestOK
      <3>1. a \in Tracked /\ a \in Acks /\ Newest(a) /\ ackID[a] \in MessageID
        BY <1>0, <1>2 DEF CloseDrain, Newest, TrackerTypeOK, FreshOK
      <3>2. a \notin Waiting /\ sent[a] = 0
        BY <1>0, <1>2, <3>1 DEF CloseDrain, TrackerTypeOK
      <3>3. pending[ackID[a]] = a
        BY <1>0, <3>1, <3>2 DEF NewestOK
      <3> QED
        BY <3>1, <3>2, <3>3 DEF Waiting
    <2>7. /\ \A id \in MessageID : pending'[id] = NoAck
          /\ \A b \in Acks : timer'[b] = IF b \in Waiting /\ timer[b] = "armed"
                                           THEN "stopped" ELSE timer[b]
          /\ \A b \in Acks : verdict'[b] = IF b \in Waiting THEN "nacked" ELSE verdict[b]
          /\ UNCHANGED <<nextAck, ackID>> /\ Tracked \subseteq Acks
      BY <1>0, <1>2 DEF CloseDrain, TrackerTypeOK
    <2>8. TimerOK'
      <3>1. ASSUME NEW b \in Tracked, OnlyUse(b), timer'[b] = "armed" PROVE FALSE
        <4>1. b \in Acks /\ b \notin Waiting /\ timer[b] = "armed"
          BY <2>7, <3>1
        <4>2. pending[ackID[b]] = b /\ ackID[b] \in MessageID
          BY <1>0, <3>1, <4>1 DEF TimerOK, FreshOK
        <4> QED
          BY <4>1, <4>2 DEF Waiting
      <3> QED
        BY <2>7, <3>1, TimersKept
    <2>9. TimeoutIsOwn'
      BY <1>0, <2>7, TimeoutsKept
    <2> QED
      BY <2>2, <2>3, <2>4, <2>5, <2>6, <2>8, <2>9 DEF TrackerIInv
  <1> QED
    BY <1>1, <1>2

(* Every step of the tracker keeps the invariant. *)
LEMMA TrackerStepInv == TrackerIInv /\ [TrackerNext]_tvars => TrackerIInv'
  <1> SUFFICES ASSUME TrackerIInv, [TrackerNext]_tvars PROVE TrackerIInv'
    OBVIOUS
  <1>1. CASE \E id \in MessageID : Track(id)
    BY <1>1, TrackInv
  <1>2. CASE \E id \in MessageID : Ack(id) \/ Nack(id)
    BY <1>2, ResolveInv DEF Ack, Nack
  <1>3. CASE \E a \in Acks : TimerFires(a) \/ timeoutAck(a)
    BY <1>3, TimerInv
  <1>4. CASE CloseFlag \/ CloseDrain
    BY <1>4, CloseInv
  <1>5. CASE UNCHANGED tvars
    BY <1>5 DEF tvars, TrackerIInv, TrackerTypeOK, PendingOK, FreshOK, SentOK,
                SentOnce, NewestOK, Newest, Tracked, DrainedOK, TimerOK, OnlyUse,
                TimeoutIsOwn
  <1> QED
    BY <1>1, <1>2, <1>3, <1>4, <1>5 DEF TrackerNext

(* The inductive invariant holds throughout every behaviour. *)
THEOREM TrackerInvariant == TrackerSpec => []TrackerIInv
  BY TrackerInitInv, TrackerStepInv, PTL DEF TrackerSpec

-------------------------------------------------------------------------------
(* The state of the tracker keeps its types. *)
THEOREM TrackerTypes == TrackerSpec => []TrackerTypeOK
  <1>1. TrackerIInv => TrackerTypeOK
    BY DEF TrackerIInv
  <1> QED
    BY <1>1, TrackerInvariant, PTL

(* No acknowledgment channel is ever sent to twice. *)
THEOREM OneVerdict == TrackerSpec => []AtMostOneVerdict
  <1>1. TrackerIInv => AtMostOneVerdict
    BY DEF TrackerIInv, SentOK, AtMostOneVerdict
  <1> QED
    BY <1>1, TrackerInvariant, PTL

(* After Close every channel that was not replaced has its verdict. *)
THEOREM CloseSettlesAll == TrackerSpec => []ClosedSettles
  <1>1. ASSUME TrackerIInv PROVE ClosedSettles
    <2>0. /\ TrackerTypeOK /\ FreshOK /\ SentOK
          /\ NewestOK /\ DrainedOK /\ TimerOK
      BY <1>1 DEF TrackerIInv
    <2> SUFFICES ASSUME closePhase = "drained", NEW a \in Tracked, Newest(a)
                 PROVE  verdict[a] # "none" /\ (OnlyUse(a) => timer[a] # "armed")
      BY DEF ClosedSettles
    <2>1. a \in Acks /\ a # NoAck /\ ackID[a] \in MessageID
      BY <2>0, TrackerAssumption DEF Tracked, Acks, NoAck, TrackerTypeOK, FreshOK
    <2>2. pending[ackID[a]] # a
      BY <2>0, <2>1 DEF DrainedOK
    <2> QED
      BY <2>0, <2>1, <2>2, TrackerAssumption DEF NewestOK, SentOK, TimerOK
  <1> QED
    BY <1>1, TrackerInvariant, PTL

(* A timeout verdict has a cause: the timer of this message or of an       *)
(* earlier one under the same id.                                          *)
THEOREM OwnTimeout == TrackerSpec => []TimeoutIsOwn
  <1>1. TrackerIInv => TimeoutIsOwn
    BY DEF TrackerIInv
  <1> QED
    BY <1>1, TrackerInvariant, PTL

-------------------------------------------------------------------------------
(* A step that settles the entry under one id is a Settle of the promise. *)
LEMMA SettleRefines ==
    ASSUME TrackerIInv, NEW id \in MessageID, pending[id] # NoAck,
           NEW status \in {"acked", "nacked", "timeout"},
           settle(id, status), UNCHANGED nextAck
    PROVE  P!PNext
  <1> DEFINE p == pending[id]
  <1>1. p \in Tracked /\ p \in Acks /\ verdict[p] = "none"
    BY DEF TrackerIInv, TrackerTypeOK, PendingOK, SentOK
  <1>2. verdict' = [h \in Acks |-> IF h \in {p} THEN status ELSE verdict[h]]
    BY <1>1 DEF settle, TrackerIInv, TrackerTypeOK
  <1>3. UNCHANGED Tracked
    BY DEF Tracked
  <1>4. P!Settle({p}, status)
    BY <1>1, <1>2, <1>3 DEF P!Settle
  <1>5. {p} \in SUBSET Acks /\ status \in P!Verdicts
    BY <1>1 DEF P!Verdicts
  <1> QED
    BY <1>4, <1>5 DEF P!PNext

(* Every step of the tracker is a step of the promise or changes nothing   *)
(* the promise speaks of.                                                  *)
LEMMA PromiseStep ==
    ASSUME TrackerIInv, TrackerIInv', [TrackerNext]_tvars
    PROVE  [P!PNext]_(P!pvars)
  <1>1. ASSUME NEW id \in MessageID, Track(id) PROVE P!PNext
    <2> DEFINE n == nextAck + 1
    <2>1. /\ n \in Acks /\ n \notin Tracked /\ Tracked' = Tracked \union {n}
      BY <1>1, TrackerAssumption
      DEF Track, Tracked, Acks, TrackerIInv, TrackerTypeOK
    <2>2. verdict' \in {verdict, [verdict EXCEPT ![n] = "nacked"]}
      BY <1>1 DEF Track, TrackRefused, TrackPending
    <2>3. P!Promise(n)
      BY <2>1, <2>2 DEF P!Promise
    <2> QED
      BY <2>1, <2>3 DEF P!PNext
  <1>2. ASSUME NEW id \in MessageID, NEW status \in {"acked", "nacked"},
               Resolve(id, status)
        PROVE  [P!PNext]_(P!pvars)
    <2>1. CASE pending[id] = NoAck
      BY <1>2, <2>1 DEF Resolve, tvars, P!pvars, Tracked
    <2>2. CASE pending[id] # NoAck
      BY <1>2, <2>2, SettleRefines DEF Resolve
    <2> QED
      BY <2>1, <2>2
  <1>3. ASSUME NEW a \in Acks, TimerFires(a) PROVE UNCHANGED P!pvars
    BY <1>3 DEF TimerFires, P!pvars, Tracked
  <1>4. ASSUME NEW a \in Acks, timeoutAck(a) PROVE [P!PNext]_(P!pvars)
    <2>1. ackID[a] \in MessageID
      BY <1>4, TrackerAssumption
      DEF timeoutAck, TrackerIInv, TrackerTypeOK, FreshOK, Tracked, Acks
    <2>2. CASE pending[ackID[a]] = NoAck
      BY <1>4, <2>2 DEF timeoutAck, P!pvars, Tracked
    <2>3. CASE pending[ackID[a]] # NoAck
      BY <1>4, <2>1, <2>3, SettleRefines DEF timeoutAck
    <2> QED
      BY <2>2, <2>3
  <1>5. CASE CloseFlag
    BY <1>5 DEF CloseFlag, P!pvars, Tracked
  <1>6. CASE CloseDrain
    <2>1. /\ Waiting \in SUBSET Acks /\ Waiting \subseteq Tracked
          /\ \A h \in Waiting : verdict[h] = "none"
      BY WaitingUnsettled
    <2>2. /\ verdict' = [h \in Acks |-> IF h \in Waiting THEN "nacked" ELSE verdict[h]]
          /\ Tracked' = Tracked
      BY <1>6 DEF CloseDrain, Tracked
    <2>3. CASE Waiting = {}
      <3>1. verdict' = verdict
        BY <2>2, <2>3 DEF TrackerIInv, TrackerTypeOK
      <3> QED
        BY <2>2, <3>1 DEF P!pvars
    <2>4. CASE Waiting # {}
      <3>1. P!Settle(Waiting, "nacked")
        BY <2>1, <2>2, <2>4 DEF P!Settle
      <3> QED
        BY <2>1, <3>1 DEF P!PNext, P!Verdicts
    <2> QED
      BY <2>3, <2>4
  <1>7. CASE UNCHANGED tvars
    BY <1>7 DEF tvars, P!pvars, Tracked
  <1> QED
    BY <1>1, <1>2, <1>3, <1>4, <1>5, <1>6, <1>7 DEF TrackerNext, Ack, Nack

(* The tracker implements its promise: one final verdict per handle. *)
THEOREM TrackerKeepsPromise == TrackerSpec => PromiseKept
  <1>1. TrackerInit => P!PInit
    BY DEF TrackerInit, P!PInit, Tracked
  <1> QED
    BY <1>1, PromiseStep, TrackerInvariant, PTL DEF TrackerSpec, PromiseKept, P!PSpec

-------------------------------------------------------------------------------
(* ControlAcks: the tracker as a control connection uses it. *)

(* A handle was returned by Track for one message, and is filed under the  *)
(* message's id.                                                           *)
TrackedOK ==
    /\ \A m \in Messages : stage[m] = "tracked" <=> trackedAs[m] # NoAck
    /\ \A m \in Messages : trackedAs[m] # NoAck =>
           trackedAs[m] \in Tracked /\ ackID[trackedAs[m]] = m.id
    /\ \A a \in Tracked : \E m \in Messages : trackedAs[m] = a

AcksIInv ==
    /\ TrackerIInv
    /\ AcksTypeOK
    /\ TrackedOK
    /\ answered \intersect refused = {}
    /\ AckedWasAnswered

(* What a connection does to its tracker is Track, Ack, Nack, a timer or   *)
(* Close, or nothing.                                                      *)
LEMMA AcksStepIsTracker ==
  ASSUME [AcksNext]_avars
  PROVE  [TrackerNext]_tvars
  <1>1. ASSUME NEW m \in Messages, WriteStarts(m) \/ WriteReturns(m) \/ trackAckAsync(m)
        PROVE  [TrackerNext]_tvars
    <2> m.id \in MessageID
      BY MessagesAssumption
    <2> QED
      BY <1>1 DEF WriteStarts, WriteReturns, trackAckAsync, TrackerNext
  <1>2. ASSUME NEW a \in Acks, WatcherReceives(a) \/ WatcherDone(a) \/ TimerStep(a)
        PROVE  [TrackerNext]_tvars
    BY <1>2 DEF WatcherReceives, WatcherDone, TimerStep, TrackerNext
  <1>3. ASSUME NEW id \in MessageID, NEW ok \in BOOLEAN, InboundResponse(id, ok)
        PROVE  [TrackerNext]_tvars
    BY <1>3 DEF InboundResponse, handleInboundAck, TrackerNext
  <1>4. CASE ReadLoop \/ ReadFails \/ CloseDone \/ CloseTracker
    BY <1>4 DEF ReadLoop, ReadFails, CloseDone, CloseTracker, TrackerNext
  <1>5. CASE UNCHANGED avars
    BY <1>5 DEF avars
  <1> QED
    BY <1>1, <1>2, <1>3, <1>4, <1>5 DEF AcksNext

(* Everything proved of the tracker holds of the one in a connection. *)
THEOREM AcksUseTracker == AcksSpec => TrackerSpec
  <1>1. AcksInit => TrackerInit
    BY DEF AcksInit
  <1> QED
    BY <1>1, AcksStepIsTracker, PTL DEF AcksSpec, TrackerSpec

(* A new connection satisfies the invariant. *)
LEMMA AcksInitInv == AcksInit => AcksIInv
  <1> SUFFICES ASSUME AcksInit PROVE AcksIInv
    OBVIOUS
  <1>1. TrackerIInv
    BY TrackerInitInv DEF AcksInit
  <1>2. AcksTypeOK
    BY <1>1 DEF AcksInit, AcksTypeOK, TrackerIInv
  <1>3. TrackedOK /\ answered \intersect refused = {} /\ AckedWasAnswered
    BY TrackerAssumption
    DEF AcksInit, TrackerInit, TrackedOK, AckedWasAnswered, Tracked, NoAck, Acks
  <1> QED
    BY <1>1, <1>2, <1>3 DEF AcksIInv

(* Settling an entry gives its handle the verdict and no other handle one. *)
LEMMA SettleOne ==
  ASSUME TrackerIInv, NEW id \in MessageID, pending[id] # NoAck,
         NEW status, settle(id, status)
  PROVE  \A a \in Acks : verdict'[a] = IF a = pending[id] THEN status ELSE verdict[a]
  <1>1. pending[id] \in Acks /\ verdict \in [Acks -> {"none", "acked", "nacked", "timeout"}]
    BY DEF TrackerIInv, TrackerTypeOK, PendingOK
  <1>2. verdict' = [verdict EXCEPT ![pending[id]] = status]
    BY DEF settle
  <1> QED
    BY <1>1, <1>2

(* Handles keep their ids. *)
LEMMA HandlesKeepIDs ==
  ASSUME TrackerIInv, [TrackerNext]_tvars
  PROVE  \A a \in Tracked : a \in Tracked' /\ ackID'[a] = ackID[a]
  <1>0. TrackerTypeOK
    BY DEF TrackerIInv
  <1>1. ASSUME NEW id \in MessageID, Track(id)
        PROVE  \A a \in Tracked : a \in Tracked' /\ ackID'[a] = ackID[a]
    BY <1>0, <1>1 DEF Track, TrackerTypeOK, Tracked, Acks
  <1>2. ASSUME ~ \E id \in MessageID : Track(id)
        PROVE  UNCHANGED <<nextAck, ackID>>
    BY <1>2 DEF TrackerNext, Ack, Nack, Resolve, TimerFires, timeoutAck, CloseFlag,
                CloseDrain, tvars
  <1> QED
    BY <1>1, <1>2 DEF Tracked

(* Track, Nack, a timer and Close do not say acked. *)
LEMMA OthersDoNotAck ==
  ASSUME TrackerIInv,
         \/ \E id \in MessageID : Track(id) \/ Nack(id)
         \/ \E b \in Acks : TimerFires(b) \/ timeoutAck(b)
         \/ CloseFlag \/ CloseDrain \/ UNCHANGED tvars,
         NEW a \in Acks, verdict'[a] = "acked"
  PROVE  verdict[a] = "acked"
  <1>0. TrackerTypeOK /\ PendingOK /\ FreshOK
    BY DEF TrackerIInv
  <1>1. ASSUME NEW id \in MessageID, Track(id) PROVE verdict[a] = "acked"
    BY <1>0, <1>1, TrackerAssumption
    DEF Track, TrackRefused, TrackPending, TrackerTypeOK, Acks
  <1>2. ASSUME NEW id \in MessageID, pending[id] # NoAck,
               NEW status \in {"nacked", "timeout"}, settle(id, status)
        PROVE  verdict[a] = "acked"
    BY <1>2, SettleOne
  <1>3. ASSUME NEW id \in MessageID, Nack(id) PROVE verdict[a] = "acked"
    <2>1. UNCHANGED tvars \/ (pending[id] # NoAck /\ settle(id, "nacked"))
      BY <1>3 DEF Nack, Resolve
    <2> QED
      BY <1>2, <2>1 DEF tvars
  <1>4. ASSUME NEW b \in Acks, TimerFires(b) \/ timeoutAck(b) PROVE verdict[a] = "acked"
    <2>1. UNCHANGED verdict \/ (timeoutAck(b) /\ pending[ackID[b]] # NoAck)
      BY <1>4 DEF TimerFires, timeoutAck
    <2>2. ASSUME timeoutAck(b), pending[ackID[b]] # NoAck
          PROVE  ackID[b] \in MessageID /\ settle(ackID[b], "timeout")
      BY <1>0, <2>2, TrackerAssumption
      DEF timeoutAck, FreshOK, TrackerTypeOK, Tracked, Acks
    <2> QED
      BY <1>2, <2>1, <2>2
  <1>5. ASSUME CloseFlag \/ CloseDrain \/ UNCHANGED tvars PROVE verdict[a] = "acked"
    BY <1>5 DEF CloseFlag, CloseDrain, tvars
  <1> QED
    BY <1>1, <1>3, <1>4, <1>5

(* Ack says so only to a handle filed under its id. *)
LEMMA AckNeedsID ==
  ASSUME TrackerIInv, NEW id \in MessageID, Ack(id),
         NEW a \in Acks, verdict'[a] = "acked"
  PROVE  verdict[a] = "acked" \/ ackID[a] = id
  <1>1. CASE pending[id] = NoAck
    <2>1. UNCHANGED tvars
      BY <1>1 DEF Ack, Resolve
    <2> QED
      BY <2>1 DEF tvars
  <1>2. CASE pending[id] # NoAck
    <2>1. settle(id, "acked") /\ ackID[pending[id]] = id
      BY <1>2 DEF Ack, Resolve, TrackerIInv, PendingOK
    <2> QED
      BY <1>2, <2>1, SettleOne
  <1> QED
    BY <1>1, <1>2

(* Every acked handle was handed out. *)
LEMMA AckedIsTracked ==
  ASSUME TrackerIInv, NEW a \in Acks, verdict[a] = "acked"
  PROVE  a \in Tracked
  BY TrackerAssumption DEF TrackerIInv, TrackerTypeOK, FreshOK, SentOK, Tracked, Acks

(* trackAckAsync files the new handle as its message's, and the others     *)
(* leave handles and messages as they are.                                 *)
LEMMA TrackedInv ==
  ASSUME AcksIInv, [AcksNext]_avars, TrackerIInv'
  PROVE  AcksTypeOK' /\ TrackedOK'
  <1> USE TrackerAssumption, MessagesAssumption DEF Acks, NoAck
  <1>0. AcksTypeOK /\ TrackedOK /\ TrackerTypeOK'
    BY DEF AcksIInv, TrackerIInv
  <1>1. ASSUME NEW m \in Messages, trackAckAsync(m)
        PROVE  AcksTypeOK' /\ TrackedOK'
    <2>1. /\ nextAck' = nextAck + 1 /\ nextAck + 1 \in Acks
          /\ ackID' = [ackID EXCEPT ![nextAck + 1] = m.id]
          /\ stage' = [stage EXCEPT ![m] = "tracked"]
          /\ trackedAs' = [trackedAs EXCEPT ![m] = nextAck + 1]
          /\ watcher' = [watcher EXCEPT ![nextAck + 1] = "waiting"]
          /\ UNCHANGED <<answered, refused, reader, done>>
      BY <1>0, <1>1 DEF trackAckAsync, Track, AcksTypeOK, TrackerTypeOK
    <2>2. stage[m] = "onwire" /\ trackedAs[m] = NoAck
      BY <1>0, <1>1 DEF trackAckAsync, TrackedOK
    <2>3. AcksTypeOK'
      BY <1>0, <2>1 DEF AcksTypeOK
    <2>4. \A q \in Messages : trackedAs'[q] = IF q = m THEN nextAck + 1 ELSE trackedAs[q]
      BY <1>0, <2>1 DEF AcksTypeOK
    <2>5. \A q \in Messages : stage'[q] = IF q = m THEN "tracked" ELSE stage[q]
      BY <1>0, <2>1 DEF AcksTypeOK
    <2>6. /\ Tracked' = Tracked \union {nextAck + 1} /\ nextAck + 1 \notin Tracked
          /\ ackID'[nextAck + 1] = m.id
          /\ \A a \in Tracked : ackID'[a] = ackID[a]
      BY <1>0, <2>1 DEF AcksTypeOK, TrackerTypeOK, Tracked
    <2>7. TrackedOK'
      <3>1. nextAck + 1 # NoAck
        BY <1>0 DEF AcksTypeOK, TrackerTypeOK
      <3>2. \A q \in Messages : stage'[q] = "tracked" <=> trackedAs'[q] # NoAck
        BY <1>0, <2>4, <2>5, <3>1 DEF TrackedOK
      <3>3. \A q \in Messages : trackedAs'[q] # NoAck =>
               trackedAs'[q] \in Tracked' /\ ackID'[trackedAs'[q]] = q.id
        BY <1>0, <2>4, <2>6 DEF TrackedOK
      <3>4. \A a \in Tracked' : \E q \in Messages : trackedAs'[q] = a
        <4> SUFFICES ASSUME NEW a \in Tracked' PROVE \E q \in Messages : trackedAs'[q] = a
          OBVIOUS
        <4>1. CASE a = nextAck + 1
          BY <2>4, <4>1
        <4>2. CASE a \in Tracked
          <5>1. PICK q \in Messages : trackedAs[q] = a
            BY <1>0, <4>2 DEF TrackedOK
          <5>2. q # m
            BY <2>2, <4>2, <5>1 DEF Tracked
          <5> QED
            BY <2>4, <5>1, <5>2
        <4> QED
          BY <2>6, <4>1, <4>2
      <3> QED
        BY <3>2, <3>3, <3>4 DEF TrackedOK
    <2> QED
      BY <2>3, <2>7
  <1>2. ASSUME ~ \E m \in Messages : trackAckAsync(m)
        PROVE  /\ UNCHANGED <<trackedAs, nextAck, ackID>>
               /\ \A m \in Messages : stage'[m] = "tracked" <=> stage[m] = "tracked"
    <2>1. UNCHANGED <<trackedAs, nextAck, ackID>>
      BY <1>2 DEF AcksNext, avars, cvars, tvars, WriteStarts, WriteReturns, WatcherReceives,
                  WatcherDone, TimerStep, TimerFires, timeoutAck, InboundResponse,
                  handleInboundAck, Ack, Nack, Resolve, ReadLoop, ReadFails, CloseDone,
                  CloseTracker, CloseFlag, CloseDrain
    <2>2. CASE \E m \in Messages : WriteStarts(m) \/ WriteReturns(m)
      <3>1. PICK m \in Messages : /\ stage[m] # "tracked"
                                  /\ \E r \in {"writing", "onwire", "failed"} :
                                        stage' = [stage EXCEPT ![m] = r]
        BY <2>2 DEF WriteStarts, WriteReturns
      <3> QED
        BY <1>0, <2>1, <3>1 DEF AcksTypeOK
    <2>3. CASE ~ \E m \in Messages : WriteStarts(m) \/ WriteReturns(m)
      <3>1. UNCHANGED stage
        BY <1>2, <2>3 DEF AcksNext, avars, cvars, WatcherReceives, WatcherDone, TimerStep,
                          InboundResponse, ReadLoop, ReadFails, CloseDone, CloseTracker
      <3> QED
        BY <2>1, <3>1
    <2> QED
      BY <2>1, <2>2, <2>3
  <1>3. ASSUME ~ \E m \in Messages : trackAckAsync(m)
        PROVE  AcksTypeOK'
    BY <1>0, <1>3 DEF AcksTypeOK, AcksNext, avars, cvars, WriteStarts, WriteReturns,
                      WatcherReceives, WatcherDone, TimerStep, InboundResponse, ReadLoop,
                      ReadFails, CloseDone, CloseTracker
  <1>4. ASSUME ~ \E m \in Messages : trackAckAsync(m)
        PROVE  TrackedOK'
    BY <1>0, <1>2, <1>4 DEF TrackedOK, Tracked
  <1> QED
    BY <1>1, <1>3, <1>4

(* Every step of the connection keeps the invariant: an acked verdict is   *)
(* given by the step that records the answer, and an id that has an answer *)
(* is not answered again.                                                  *)
LEMMA AcksStepInv == AcksIInv /\ [AcksNext]_avars => AcksIInv'
  <1> SUFFICES ASSUME AcksIInv, [AcksNext]_avars PROVE AcksIInv'
    OBVIOUS
  <1>0. TrackerIInv /\ AckedWasAnswered /\ answered \intersect refused = {}
    BY DEF AcksIInv
  <1>1. [TrackerNext]_tvars /\ TrackerIInv'
    BY <1>0, AcksStepIsTracker, TrackerStepInv
  <1>2. AcksTypeOK' /\ TrackedOK'
    BY <1>1, TrackedInv
  <1>3. \/ UNCHANGED <<answered, refused>>
        \/ \E id \in MessageID, ok \in BOOLEAN : InboundResponse(id, ok)
    BY DEF AcksNext, avars, cvars, WriteStarts, WriteReturns, trackAckAsync, WatcherReceives,
           WatcherDone, TimerStep, ReadLoop, ReadFails, CloseDone, CloseTracker
  <1>4. answered' \intersect refused' = {} /\ answered \ refused \subseteq answered' \ refused'
    BY <1>0, <1>3 DEF InboundResponse
  <1>5. AckedWasAnswered'
    <2> SUFFICES ASSUME NEW a \in Acks, verdict'[a] = "acked"
                 PROVE  ackID'[a] \in answered' \ refused'
      BY DEF AckedWasAnswered, Acks
    <2>1. CASE verdict[a] = "acked"
      <3>1. ackID'[a] = ackID[a]
        BY <1>0, <1>1, <2>1, AckedIsTracked, HandlesKeepIDs
      <3> QED
        BY <1>0, <1>4, <2>1, <3>1 DEF AckedWasAnswered
    <2>2. CASE \E id \in MessageID : InboundResponse(id, TRUE)
      <3>1. PICK id \in MessageID : InboundResponse(id, TRUE)
        BY <2>2
      <3>2. id \in answered' \ refused' /\ Ack(id)
        BY <3>1 DEF InboundResponse, handleInboundAck
      <3>3. CASE verdict[a] # "acked"
        <4>1. ackID[a] = id
          BY <1>0, <3>2, <3>3, AckNeedsID
        <4>2. ackID' = ackID
          BY <3>2 DEF Ack, Resolve, tvars
        <4> QED
          BY <3>2, <4>1, <4>2
      <3> QED
        BY <2>1, <3>3
    <2>3. CASE ~ \E id \in MessageID : InboundResponse(id, TRUE)
      <3>1. \/ \E id \in MessageID : Track(id) \/ Nack(id)
            \/ \E b \in Acks : TimerFires(b) \/ timeoutAck(b)
            \/ CloseFlag \/ CloseDrain \/ UNCHANGED tvars
        <4>1. ASSUME NEW m \in Messages, trackAckAsync(m)
              PROVE  \E id \in MessageID : Track(id)
          BY <4>1, MessagesAssumption DEF trackAckAsync
        <4>2. ASSUME NEW id \in MessageID, NEW ok \in BOOLEAN, InboundResponse(id, ok)
              PROVE  Nack(id)
          BY <2>3, <4>2 DEF InboundResponse, handleInboundAck
        <4>3. ASSUME NEW m \in Messages, WriteStarts(m) \/ WriteReturns(m)
              PROVE  UNCHANGED tvars
          BY <4>3 DEF WriteStarts, WriteReturns
        <4>4. ASSUME NEW b \in Acks, WatcherReceives(b) \/ WatcherDone(b) \/ TimerStep(b)
              PROVE  UNCHANGED tvars \/ TimerFires(b) \/ timeoutAck(b)
          BY <4>4 DEF WatcherReceives, WatcherDone, TimerStep
        <4>5. ASSUME ReadLoop \/ ReadFails \/ CloseDone \/ CloseTracker
              PROVE  UNCHANGED tvars \/ CloseFlag \/ CloseDrain
          BY <4>5 DEF ReadLoop, ReadFails, CloseDone, CloseTracker
        <4> QED
          BY <4>1, <4>2, <4>3, <4>4, <4>5 DEF AcksNext, avars
      <3>2. verdict[a] = "acked"
        BY <1>0, <3>1, OthersDoNotAck
      <3> QED
        BY <2>1, <3>2
    <2> QED
      BY <2>2, <2>3
  <1> QED
    BY <1>1, <1>2, <1>4, <1>5 DEF AcksIInv

(* The inductive invariant holds throughout every behaviour. *)
THEOREM AcksInvariant == AcksSpec => []AcksIInv
  BY AcksInitInv, AcksStepInv, PTL DEF AcksSpec

-------------------------------------------------------------------------------
(* The state added to the tracker's keeps its types. *)
THEOREM AcksTypes == AcksSpec => []AcksTypeOK
  <1>1. AcksIInv => AcksTypeOK
    BY DEF AcksIInv
  <1> QED
    BY <1>1, AcksInvariant, PTL

(* An acked verdict has its answer: a response under the handle's id, with *)
(* a result, has arrived, and none with an error.                          *)
THEOREM AckedHasAnswer == AcksSpec => []AckedWasAnswered
  <1>1. AcksIInv => AckedWasAnswered
    BY DEF AcksIInv
  <1> QED
    BY <1>1, AcksInvariant, PTL

(* On a control connection, with ids that a request and a response share,  *)
(* no channel is sent to twice, Close leaves nobody waiting, timeouts have *)
(* a cause, and the tracker keeps its promise.                             *)
THEOREM AcksKeepTracker ==
  AcksSpec => [](AtMostOneVerdict /\ ClosedSettles /\ TimeoutIsOwn) /\ PromiseKept
  BY AcksUseTracker, OneVerdict, CloseSettlesAll, OwnTimeout, TrackerKeepsPromise, PTL

(* While this endpoint's response has not taken the id of a tracked        *)
(* request, the request's handle is the only one with that id.             *)
LEMMA OnlyHandle ==
  ASSUME AcksIInv, NEW m \in Messages, m.kind = "request", stage[m] = "tracked",
         Response(m.id) \in Messages => trackedAs[Response(m.id)] = NoAck
  PROVE  \A b \in Tracked : ackID[b] = m.id => b = trackedAs[m]
  <1> SUFFICES ASSUME NEW b \in Tracked, ackID[b] = m.id PROVE b = trackedAs[m]
    OBVIOUS
  <1>1. PICK q \in Messages : trackedAs[q] = b
    BY DEF AcksIInv, TrackedOK
  <1>2. b # NoAck
    BY DEF Tracked, NoAck
  <1>3. q.id = m.id
    BY <1>1, <1>2 DEF AcksIInv, TrackedOK
  <1>4. /\ q \in [kind : {"request", "response"}, id : MessageID]
        /\ m \in [kind : {"request", "response"}, id : MessageID]
    BY MessagesAssumption
  <1>5. CASE q.kind = "request"
    BY <1>1, <1>3, <1>4, <1>5
  <1>6. CASE q.kind = "response"
    <2>1. q = Response(m.id)
      BY <1>3, <1>4, <1>6 DEF Response
    <2> QED
      BY <1>1, <1>2, <2>1
  <1> QED
    BY <1>4, <1>5, <1>6

(* The answer to a tracked request settles it, unless a response of this   *)
(* endpoint took its id: what Ack or Nack finds is the request's entry, or *)
(* the entry is gone because the request has its verdict.                  *)
THEOREM AnswersSettle == AcksSpec => AnswerSettles
  <1> DEFINE Settles(m) ==
        /\ m.kind = "request" /\ stage[m] = "tracked"
        /\ m.id \in (answered' \union refused') \ (answered \union refused)
        /\ Response(m.id) \in Messages => trackedAs[Response(m.id)] = NoAck
        => verdict'[trackedAs[m]] # "none"
  <1>1. ASSUME AcksIInv, [AcksNext]_avars, NEW m \in Messages
        PROVE  Settles(m)
    <2> SUFFICES ASSUME m.kind = "request", stage[m] = "tracked",
                        m.id \in (answered' \union refused') \ (answered \union refused),
                        Response(m.id) \in Messages => trackedAs[Response(m.id)] = NoAck
                 PROVE  verdict'[trackedAs[m]] # "none"
      OBVIOUS
    <2> DEFINE a == trackedAs[m]
    <2>1. PICK ok \in BOOLEAN : InboundResponse(m.id, ok)
      BY <1>1 DEF AcksNext, avars, cvars, WriteStarts, WriteReturns, trackAckAsync,
                  WatcherReceives, WatcherDone, TimerStep, InboundResponse, ReadLoop,
                  ReadFails, CloseDone, CloseTracker
    <2>2. m.id \in MessageID
      BY MessagesAssumption
    <2>3. PICK status \in {"acked", "nacked"} : Resolve(m.id, status)
      BY <2>1 DEF InboundResponse, handleInboundAck, Ack, Nack
    <2>4. a \in Tracked /\ ackID[a] = m.id /\ \A b \in Tracked : ackID[b] = m.id => b = a
      BY <1>1, OnlyHandle DEF AcksIInv, TrackedOK
    <2>5. a \in Acks
      BY <1>1, <2>4, TrackerAssumption DEF AcksIInv, TrackerIInv, TrackerTypeOK, Tracked, Acks
    <2>6. CASE pending[m.id] = NoAck
      <3>1. UNCHANGED tvars
        BY <2>3, <2>6 DEF Resolve
      <3>2. Newest(a) /\ pending[ackID[a]] # a
        BY <2>4, <2>6 DEF Newest, Tracked, NoAck
      <3>3. verdict[a] # "none"
        BY <1>1, <2>4, <2>5, <3>2 DEF AcksIInv, TrackerIInv, NewestOK, SentOK
      <3> QED
        BY <3>1, <3>3 DEF tvars
    <2>7. CASE pending[m.id] # NoAck
      <3>1. pending[m.id] = a
        BY <1>1, <2>2, <2>4, <2>7 DEF AcksIInv, TrackerIInv, PendingOK
      <3>2. settle(m.id, status)
        BY <2>3, <2>7 DEF Resolve
      <3>3. verdict'[a] = status
        BY <1>1, <2>2, <2>5, <2>7, <3>1, <3>2, SettleOne DEF AcksIInv
      <3> QED
        BY <3>3
    <2> QED
      BY <2>6, <2>7
  <1>2. AcksIInv /\ [AcksNext]_avars => [\A m \in Messages : Settles(m)]_avars
    BY <1>1
  <1> QED
    BY <1>2, AcksInvariant, PTL DEF AcksSpec, AnswerSettles
===============================================================================
