------------------------- MODULE ConfigWatcherProofs -------------------------
(***************************************************************************)
(* TLAPS proofs about ConfigWatcher, for any number of writes and any set  *)
(* of versions that do not parse.                                          *)
(***************************************************************************)
EXTENDS ConfigWatcher, TLAPS

(* Nothing is reloaded before the loop runs; what the file holds follows   *)
(* from its time; what poll has looked up is not later than the file, and  *)
(* what it has loaded is not older than the time it looked up before.      *)
WatchIInv ==
    /\ WatcherTypeOK
    /\ w.pc \in {"load", "stat", "initial"} => ~reloaded
    /\ file.contents = IF file.mtime % 2 = 0 THEN VersionAt(file.mtime) ELSE 0
    /\ w.info <= file.mtime
    /\ w.pc = "store" /\ w.cfg # 0 => w.cfg >= VersionAt(w.info)
    /\ StampNotLate

(* A later time never stands for an older version. *)
LEMMA VersionsGrow ==
  ASSUME NEW t \in Nat, NEW u \in Nat, t <= u
  PROVE  /\ VersionAt(t) \in Nat /\ VersionAt(t) <= VersionAt(u)
         /\ \A m \in Nat : t <= 2 * m => VersionAt(t) <= m
  BY DEF VersionAt

(* The fields of the watcher and of the file, one by one. *)
LEMMA Fields ==
  ASSUME WatcherTypeOK
  PROVE  /\ file.contents \in Nat /\ file.mtime \in Nat /\ file.mtime \in Times
         /\ w.current \in Nat /\ w.modTime \in Nat /\ w.cfg \in Nat /\ w.info \in Nat
         /\ file = [contents |-> file.contents, mtime |-> file.mtime]
  BY WatcherAssumption DEF WatcherTypeOK, Times

(* The invariant holds when WatchFile is called. *)
LEMMA WatchInvariantInit == WatchInit => WatchIInv
  <1> SUFFICES ASSUME WatchInit PROVE WatchIInv
    OBVIOUS
  <1> USE WatcherAssumption DEF WatchInit
  <1>1. WatcherTypeOK
    <2>1. /\ 0 \in (0..MaxWrites) \ BadVersions
          /\ 1 \in 0..MaxWrites
      OBVIOUS
    <2>2. 2 \in Times
      BY DEF Times
    <2> QED
      BY <2>1, <2>2 DEF WatcherTypeOK
  <1>2. ~reloaded /\ file.mtime = 2 /\ file.contents = 1 /\ w.info = 0 /\ w.cfg = 0 /\ w.current = 0
    OBVIOUS
  <1>3. VersionAt(2) = 1 /\ 2 % 2 = 0
    BY DEF VersionAt
  <1> QED
    BY <1>1, <1>2, <1>3 DEF WatchIInv, StampNotLate

(* The writer: the time grows, so what poll holds stays what it is. *)
LEMMA WriterKeeps ==
  ASSUME WatchIInv, FileTruncated \/ FileWritten PROVE WatchIInv'
  <1> USE WatcherAssumption
  <1>1. WatcherTypeOK
    BY DEF WatchIInv
  <1>2. CASE FileTruncated
    <2>1. WatcherTypeOK'
      BY <1>1, <1>2, Fields DEF WatcherTypeOK, FileTruncated, Times
    <2> QED
      BY <1>1, <1>2, <2>1, Fields DEF WatchIInv, FileTruncated, StampNotLate
  <1>3. CASE FileWritten
    <2>1. WatcherTypeOK'
      BY <1>1, <1>3, Fields DEF WatcherTypeOK, FileWritten, Times, VersionAt
    <2> QED
      BY <1>1, <1>3, <2>1, Fields DEF WatchIInv, FileWritten, StampNotLate
  <1> QED
    BY <1>2, <1>3

(* WatchFile, the loop and Stop store nothing that poll has loaded. *)
LEMMA StartKeeps ==
  ASSUME WatchIInv, Start \/ LoopStops \/ Stop PROVE WatchIInv'
  <1>1. WatcherTypeOK /\ StampNotLate
    BY DEF WatchIInv
  <1>2. CASE WatchLoad
    BY <1>1, <1>2 DEF WatchIInv, WatcherTypeOK, WatchLoad, StampNotLate, Valid
  <1>3. CASE WatchStat
    BY <1>1, <1>3 DEF WatchIInv, WatcherTypeOK, WatchStat, StampNotLate
  <1>4. CASE WatchInitial
    BY <1>1, <1>4 DEF WatchIInv, WatcherTypeOK, WatchInitial, StampNotLate
  <1>5. CASE LoopStops
    BY <1>1, <1>5 DEF WatchIInv, WatcherTypeOK, LoopStops, StampNotLate
  <1>6. CASE Stop
    BY <1>1, <1>6 DEF WatchIInv, WatcherTypeOK, Stop, StampNotLate
  <1> QED
    BY <1>2, <1>3, <1>4, <1>5, <1>6 DEF Start

(* poll: what it loads is at least as new as the time it looked up. *)
LEMMA PollKeeps ==
  ASSUME WatchIInv, Poll PROVE WatchIInv'
  <1>1. WatcherTypeOK /\ StampNotLate
    BY DEF WatchIInv
  <1>2. CASE PollStat
    <2>1. WatcherTypeOK'
      BY <1>1, <1>2, Fields DEF WatcherTypeOK, PollStat
    <2> QED
      BY <1>1, <1>2, <2>1, Fields DEF WatchIInv, WatcherTypeOK, PollStat, StampNotLate
  <1>3. CASE PollLoad
    <2>1. WatcherTypeOK'
      BY <1>1, <1>3, Fields DEF WatcherTypeOK, PollLoad, Valid
    <2>2. w.info <= file.mtime
      BY DEF WatchIInv
    <2>3. file.contents # 0 => file.contents >= VersionAt(w.info)
      BY <1>1, <2>2, Fields, VersionsGrow DEF WatchIInv
    <2> QED
      BY <1>1, <1>3, <2>1, <2>3, Fields DEF WatchIInv, WatcherTypeOK, PollLoad, StampNotLate
  <1>4. CASE PollStore
    <2>1. WatcherTypeOK'
      BY <1>1, <1>4, Fields DEF WatcherTypeOK, PollStore, pollStamp
    <2> QED
      BY <1>1, <1>4, <2>1, Fields DEF WatchIInv, WatcherTypeOK, PollStore, pollStamp, StampNotLate
  <1>5. CASE PollNotify
    <2>1. 0 \in (0..MaxWrites) \ BadVersions
      BY WatcherAssumption
    <2>2. WatcherTypeOK'
      BY <1>1, <1>5, <2>1, Fields DEF WatcherTypeOK, PollNotify
    <2> QED
      BY <1>1, <1>5, <2>2, Fields DEF WatchIInv, WatcherTypeOK, PollNotify, StampNotLate
  <1> QED
    BY <1>2, <1>3, <1>4, <1>5 DEF Poll

(* Every step keeps the invariant. *)
LEMMA WatchInvariantNext == WatchIInv /\ [WatchNext]_wVars => WatchIInv'
  <1> SUFFICES ASSUME WatchIInv, [WatchNext]_wVars PROVE WatchIInv'
    OBVIOUS
  <1>1. CASE UNCHANGED wVars
    BY <1>1 DEF WatchIInv, WatcherTypeOK, StampNotLate, wVars
  <1> QED
    BY <1>1, WriterKeeps, StartKeeps, PollKeeps DEF WatchNext

(* WatchIInv is an invariant of the watcher. *)
LEMMA WatchInvariant == WatchSpec => []WatchIInv
  BY WatchInvariantInit, WatchInvariantNext, PTL DEF WatchSpec

(* Every variable of the watcher has its type: in particular a version     *)
(* that does not parse or validate is never current and never delivered.   *)
THEOREM WatcherTypes == WatchSpec => []WatcherTypeOK
  <1>1. WatchIInv => WatcherTypeOK
    BY DEF WatchIInv
  <1> QED
    BY <1>1, WatchInvariant, PTL

(* poll never files a configuration under a time later than its own,       *)
(* wherever writes fall between its Stat and its load.                     *)
THEOREM StampIsNotLate == WatchSpec => []StampNotLate
  <1>1. WatchIInv => StampNotLate
    BY DEF WatchIInv
  <1> QED
    BY <1>1, WatchInvariant, PTL
-------------------------------------------------------------------------------
(* No version is anywhere before it was written, and what poll is about to *)
(* deliver is not older than what was delivered before.                    *)
OrderIInv ==
    /\ w.pc \in {"load", "stat", "initial"} => delivered = 0
    /\ w.current <= VersionAt(file.mtime)
    /\ w.cfg <= VersionAt(file.mtime)
    /\ delivered <= VersionAt(file.mtime)
    /\ w.pc \in {"store", "notify"} /\ w.cfg # 0 => w.cfg >= delivered

(* Every step of the watcher and of the writer keeps it. *)
LEMMA OrderInvariantNext == WatchIInv /\ OrderIInv /\ [WatchNext]_wVars => OrderIInv'
  <1> SUFFICES ASSUME WatchIInv, OrderIInv, [WatchNext]_wVars PROVE OrderIInv'
    OBVIOUS
  <1>1. /\ WatcherTypeOK /\ delivered \in Nat
        /\ file.contents = IF file.mtime % 2 = 0 THEN VersionAt(file.mtime) ELSE 0
    BY WatcherAssumption DEF WatchIInv, WatcherTypeOK
  <1>2. VersionAt(file.mtime) \in Nat /\ VersionAt(file.mtime) <= VersionAt(file.mtime + 1)
    BY <1>1, Fields, VersionsGrow
  <1> USE DEF OrderIInv, WatcherTypeOK
  <1>3. CASE FileTruncated \/ FileWritten
    <2>1. /\ w' = w /\ delivered' = delivered /\ file'.mtime = file.mtime + 1
      BY <1>3 DEF FileTruncated, FileWritten
    <2>2. file.mtime' = file.mtime + 1
      BY <2>1
    <2>3. VersionAt(file.mtime)' = VersionAt(file.mtime + 1)
      BY <2>2 DEF VersionAt
    <2>4. VersionAt(file.mtime) <= VersionAt(file.mtime)' /\ VersionAt(file.mtime)' \in Nat
      BY <1>2, <2>3, <1>1, Fields, VersionsGrow
    <2>5. /\ w.current <= VersionAt(file.mtime)' /\ w.cfg <= VersionAt(file.mtime)'
          /\ delivered <= VersionAt(file.mtime)'
      BY <2>4, <1>1, <1>2, Fields
    <2> QED
      BY <2>1, <2>5
  <1>4. CASE Start
    <2>1. CASE WatchLoad
      BY <1>1, <1>2, <2>1, Fields DEF WatchLoad
    <2>2. CASE WatchStat \/ WatchInitial
      BY <1>1, <1>2, <2>2, Fields, ZenonT(60) DEF WatchStat, WatchInitial
    <2> QED
      BY <1>4, <2>1, <2>2 DEF Start
  <1>5. CASE LoopStops \/ Stop
    BY <1>1, <1>2, <1>5, Fields DEF LoopStops, Stop
  <1>6. CASE PollStat \/ PollStore
    BY <1>1, <1>2, <1>6, Fields, ZenonT(60) DEF PollStat, PollStore
  <1>7. CASE PollLoad
    BY <1>1, <1>2, <1>7, Fields DEF PollLoad
  <1>8. CASE PollNotify
    BY <1>1, <1>2, <1>8, Fields DEF PollNotify
  <1>9. CASE UNCHANGED wVars
    BY <1>9 DEF wVars
  <1> QED
    BY <1>3, <1>4, <1>5, <1>6, <1>7, <1>8, <1>9 DEF WatchNext, Poll

(* OrderIInv is an invariant of the watcher. *)
LEMMA OrderInvariant == WatchSpec => []OrderIInv
  <1>1. WatchInit => OrderIInv
    BY DEF WatchInit, OrderIInv, VersionAt
  <1> QED
    BY <1>1, WatchInvariant, OrderInvariantNext, PTL DEF WatchSpec

(* onChange never sees an older version after a newer one, but for the     *)
(* default configuration of a file caught between truncation and writing.  *)
THEOREM InOrder == WatchSpec => DeliveredInOrder
  <1>1. ASSUME WatchIInv, OrderIInv, [WatchNext]_wVars
        PROVE  [delivered' >= delivered \/ delivered' = 0]_delivered
    <2>1. WatcherTypeOK /\ delivered \in Nat
      BY <1>1, WatcherAssumption DEF WatchIInv, WatcherTypeOK
    <2>2. CASE WatchInitial
      BY <1>1, <2>1, <2>2, Fields DEF OrderIInv, WatchInitial
    <2>3. CASE PollNotify
      BY <1>1, <2>1, <2>3, Fields DEF OrderIInv, PollNotify
    <2>4. CASE delivered' = delivered
      BY <2>4
    <2> QED
      BY <1>1, <2>2, <2>3, <2>4
      DEF WatchNext, wVars, FileTruncated, FileWritten, Start, WatchLoad, WatchStat,
          LoopStops, Poll, PollStat, PollLoad, PollStore, Stop
  <1> QED
    BY <1>1, WatchInvariant, OrderInvariant, PTL DEF WatchSpec, DeliveredInOrder
===============================================================================
