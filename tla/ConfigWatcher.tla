---------------------------- MODULE ConfigWatcher ----------------------------
(***************************************************************************)
(* The watcher of a configuration file (pkg/config/watch.go): WatchFile,   *)
(* the polling loop and Stop, against a program that writes the file.      *)
(*                                                                         *)
(* The n-th write leaves version n in the file and a modification time     *)
(* later than before, so a time stands for the version it was taken from:  *)
(* file systems with coarse times, where two writes share one, are left    *)
(* out.  A write is two steps: os.WriteFile truncates, then writes.  An    *)
(* empty YAML file is a valid file and gives the default configuration,    *)
(* called version 0.  Errors of Stat and of ReadFile are left out: in poll *)
(* they are reported and change nothing, like a file that does not parse.  *)
(***************************************************************************)
EXTENDS Naturals

CONSTANTS
    MaxWrites,    \* bound: writes of the file in a behaviour
    BadVersions   \* versions that do not parse or do not validate

ASSUME WatcherAssumption ==
    /\ MaxWrites \in Nat \ {0}
    /\ BadVersions \subseteq 2..MaxWrites

VARIABLES
    file,         \* contents (a version, or 0 for a truncated file), mtime
    w,            \* Watcher: pc of WatchFile and then of the loop, current,
                  \* modTime, and the locals cfg and info of the step it is in
    stopCh,       \* stopCh is closed
    delivered,    \* the configuration last given to onChange
    reloaded      \* history: poll has stored a configuration

wVars == <<file, w, stopCh, delivered, reloaded>>

Times == 1..2 * MaxWrites

(* The version whose write ended at time t, or the one before it. *)
VersionAt(t) == t \div 2

WatchInit ==
    /\ file = [contents |-> 1, mtime |-> 2]
    /\ w = [pc |-> "load", current |-> 0, modTime |-> 0, cfg |-> 0, info |-> 0]
    /\ stopCh = FALSE
    /\ delivered = 0
    /\ reloaded = FALSE

-------------------------------------------------------------------------------
(* Mutations used to show that the properties can fail. *)

pollStampIsNow == file.mtime

LoopIgnoresStop == FALSE /\ UNCHANGED wVars

InitialBehindLoop ==
    /\ \/ w.pc = "initial" /\ w' = [w EXCEPT !.pc = "select"] /\ UNCHANGED delivered
       \/ w.pc = "select" /\ delivered' = 1 /\ UNCHANGED w
    /\ UNCHANGED <<file, stopCh, reloaded>>

-------------------------------------------------------------------------------
(* The program that writes the file. *)

FileTruncated ==
    /\ file.mtime < 2 * MaxWrites
    /\ file.mtime % 2 = 0
    /\ file' = [contents |-> 0, mtime |-> file.mtime + 1]
    /\ UNCHANGED <<w, stopCh, delivered, reloaded>>

FileWritten ==
    /\ file.mtime % 2 = 1
    /\ file' = [contents |-> VersionAt(file.mtime + 1), mtime |-> file.mtime + 1]
    /\ UNCHANGED <<w, stopCh, delivered, reloaded>>

(* LoadFromFile and Validate *)
Valid(v) == v \notin BadVersions

-------------------------------------------------------------------------------
(* WatchFile: load, then look at the time; an error ends it. *)
WatchLoad ==
    /\ w.pc = "load"
    /\ w' = IF Valid(file.contents)
              THEN [w EXCEPT !.pc = "stat", !.current = file.contents]
              ELSE [w EXCEPT !.pc = "exited"]
    /\ UNCHANGED <<file, stopCh, delivered, reloaded>>

WatchStat ==
    /\ w.pc = "stat"
    /\ w' = [w EXCEPT !.pc = "initial", !.modTime = file.mtime]
    /\ UNCHANGED <<file, stopCh, delivered, reloaded>>

(* The initial configuration is delivered, then the loop starts. *)
WatchInitial ==
    /\ w.pc = "initial"
    /\ w' = [w EXCEPT !.pc = "select"]
    /\ delivered' = w.current
    /\ UNCHANGED <<file, stopCh, reloaded>>

-------------------------------------------------------------------------------
(* loop: stopCh, or a tick. *)
LoopStops ==
    /\ w.pc = "select"
    /\ stopCh
    /\ w' = [w EXCEPT !.pc = "exited"]
    /\ UNCHANGED <<file, stopCh, delivered, reloaded>>

(* poll: Stat first; a time that is not later ends it ... *)
PollStat ==
    /\ w.pc = "select"
    /\ file.mtime > w.modTime
    /\ w' = [w EXCEPT !.pc = "reload", !.info = file.mtime]
    /\ UNCHANGED <<file, stopCh, delivered, reloaded>>

(* ... the file is loaded and validated ... *)
PollLoad ==
    /\ w.pc = "reload"
    /\ w' = IF Valid(file.contents)
              THEN [w EXCEPT !.pc = "store", !.cfg = file.contents]
              ELSE [w EXCEPT !.pc = "select", !.info = 0]
    /\ UNCHANGED <<file, stopCh, delivered, reloaded>>

pollStamp == w.info

(* ... stored under mu with the time of the Stat before it ... *)
PollStore ==
    /\ w.pc = "store"
    /\ w' = [w EXCEPT !.pc = "notify", !.current = w.cfg, !.modTime = pollStamp,
                      !.info = 0]
    /\ reloaded' = TRUE
    /\ UNCHANGED <<file, stopCh, delivered>>

(* ... and delivered. *)
PollNotify ==
    /\ w.pc = "notify"
    /\ w' = [w EXCEPT !.pc = "select", !.cfg = 0]
    /\ delivered' = w.cfg
    /\ UNCHANGED <<file, stopCh, reloaded>>

Stop ==
    /\ ~stopCh
    /\ w.pc \notin {"load", "stat", "initial"}
    /\ stopCh' = TRUE
    /\ UNCHANGED <<file, w, delivered, reloaded>>

Start == WatchLoad \/ WatchStat \/ WatchInitial

Poll == PollStat \/ PollLoad \/ PollStore \/ PollNotify

WatchNext ==
    \/ FileTruncated \/ FileWritten
    \/ Start \/ LoopStops \/ Poll
    \/ Stop

WatchSpec == WatchInit /\ [][WatchNext]_wVars

(* The caller of WatchFile and the loop go on, the ticker ticks, and a     *)
(* select with two ready cases picks either again and again, hence strong  *)
(* fairness for the exit.  A write that was begun ends.                    *)
WatchFairness ==
    /\ WF_wVars(Start) /\ WF_wVars(Poll) /\ SF_wVars(LoopStops)
    /\ WF_wVars(FileWritten)

FairWatchSpec == WatchSpec /\ WatchFairness

-------------------------------------------------------------------------------
(* Types of the watcher's state. *)
WatcherTypeOK ==
    /\ file \in [contents : 0..MaxWrites, mtime : Times]
    /\ w \in [pc : {"load", "stat", "initial", "select", "reload", "store",
                    "notify", "exited"},
              current : (0..MaxWrites) \ BadVersions, modTime : Times \union {0},
              cfg : (0..MaxWrites) \ BadVersions, info : Times \union {0}]
    /\ stopCh \in BOOLEAN /\ reloaded \in BOOLEAN
    /\ delivered \in (0..MaxWrites) \ BadVersions

(* A configuration is never filed under a time later than its own: once    *)
(* poll has stored one, the file at that time held this version or an      *)
(* older one, however writes fall between Stat and the load.  (A time that *)
(* is too late would hide the change for ever.)                            *)
StampNotLate ==
    reloaded /\ w.current # 0 => w.current >= VersionAt(w.modTime)

(* The watcher catches up: if the file is left alone with a version that   *)
(* is valid, then from some point on this version is current, once poll    *)
(* has stored one, or the watcher was stopped.                             *)
CatchesUp ==
    \A v \in (1..MaxWrites) \ BadVersions :
        <>[](file.contents = v /\ reloaded) =>
            <>[]((w.current = v /\ delivered = v) \/ w.pc = "exited")

(* Stop ends the loop, whatever poll it falls into. *)
StopEndsLoop == stopCh ~> w.pc = "exited"

(* onChange sees versions in order, except for the default configuration   *)
(* of a truncated file: an older one never replaces a newer one.           *)
DeliveredInOrder == [][delivered' >= delivered \/ delivered' = 0]_delivered
===============================================================================
