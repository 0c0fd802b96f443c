-------------------------- MODULE QUICStreamManager --------------------------
(***************************************************************************)
(* The stream manager (pkg/moqttransport/quic_manager.go): OpenStream,     *)
(* OpenStreamSync, OpenUniStream, CloseStream and Close.                   *)
(*                                                                         *)
(* An Open tests closed, opens a stream in the QUIC library, takes the     *)
(* next id from an atomic counter, and files stream and counters under mu: *)
(* four steps.  OpenStreamSync differs from OpenStream in how long the     *)
(* library takes.  A unidirectional stream is counted but not filed.       *)
(* Nothing else in the repository uses the manager, so no caller is        *)
(* assumed: any number of them call anything at any time.                  *)
(***************************************************************************)
EXTENDS Integers, FiniteSets

CONSTANT Openers      \* goroutines that open streams

VARIABLES
    opener,       \* each goroutine: where it is, the kind of its stream, its id
    nextID,       \* the atomic counter
    streams,      \* ids in the map
    stats,        \* QUICStreamStats, without the bytes
    mclose,       \* Close: not called, flag set, drained
    unis,         \* history: unidirectional streams counted since Close
    allUnis       \* history: unidirectional streams counted at all

managerVars == <<opener, nextID, streams, stats, mclose, unis, allUnis>>

NoID == 0

ManagerInit ==
    /\ opener = [o \in Openers |-> [pc |-> "out", kind |-> "bi", id |-> NoID]]
    /\ nextID = 0
    /\ streams = {}
    /\ stats = [total |-> 0, active |-> 0, opened |-> 0, closed |-> 0]
    /\ mclose = "open"
    /\ unis = 0 /\ allUnis = 0

(* The closed check. *)
OpenStarts(o, kind) ==
    /\ opener[o].pc = "out"
    /\ mclose = "open"
    /\ opener' = [opener EXCEPT ![o] = [@ EXCEPT !.pc = "opening", !.kind = kind]]
    /\ UNCHANGED <<nextID, streams, stats, mclose, unis, allUnis>>

OpenStream(o) == OpenStarts(o, "bi")
OpenUniStream(o) == OpenStarts(o, "uni")

(* The library opens the stream, or returns an error. *)
LibraryOpens(o) ==
    /\ opener[o].pc = "opening"
    /\ \E r \in {"opened", "out"} : opener' = [opener EXCEPT ![o].pc = r]
    /\ UNCHANGED <<nextID, streams, stats, mclose, unis, allUnis>>

TakeID(o) ==
    /\ opener[o].pc = "opened"
    /\ nextID' = nextID + 1
    /\ opener' = [opener EXCEPT ![o] = [@ EXCEPT !.pc = "numbered", !.id = nextID + 1]]
    /\ UNCHANGED <<streams, stats, mclose, unis, allUnis>>

(* Under mu; closed is not looked at again. *)
File(o) ==
    /\ opener[o].pc = "numbered"
    /\ opener' = [opener EXCEPT ![o] = [@ EXCEPT !.pc = "out", !.id = NoID]]
    /\ stats' = [stats EXCEPT !.total = @ + 1, !.active = @ + 1, !.opened = @ + 1]
    /\ IF opener[o].kind = "bi"
         THEN streams' = streams \union {opener[o].id} /\ UNCHANGED <<unis, allUnis>>
         ELSE UNCHANGED streams /\ unis' = unis + 1 /\ allUnis' = allUnis + 1
    /\ UNCHANGED <<nextID, mclose>>

(* An id that is not in the map is ignored, so that of a unidirectional    *)
(* stream always is.                                                       *)
CloseStream(id) ==
    /\ id \in streams
    /\ streams' = streams \ {id}
    /\ stats' = [stats EXCEPT !.total = @ - 1, !.active = @ - 1, !.closed = @ + 1]
    /\ UNCHANGED <<opener, nextID, mclose, unis, allUnis>>

(* Close: the flag, then everything in the map, under mu. *)
ManagerCloseFlag ==
    /\ mclose = "open"
    /\ mclose' = "draining"
    /\ UNCHANGED <<opener, nextID, streams, stats, unis, allUnis>>

ManagerCloseDrain ==
    /\ mclose = "draining"
    /\ mclose' = "drained"
    /\ streams' = {}
    /\ stats' = [stats EXCEPT !.total = 0, !.active = 0,
                              !.closed = @ + Cardinality(streams)]
    /\ unis' = 0
    /\ UNCHANGED <<opener, nextID, allUnis>>

ManagerNext ==
    \/ \E o \in Openers : \/ OpenStream(o) \/ OpenUniStream(o) \/ LibraryOpens(o)
                          \/ TakeID(o) \/ File(o)
    \/ \E id \in streams : CloseStream(id)
    \/ ManagerCloseFlag \/ ManagerCloseDrain

ManagerSpec == ManagerInit /\ [][ManagerNext]_managerVars

-------------------------------------------------------------------------------
(* Types of the manager's state. *)
ManagerTypeOK ==
    /\ opener \in [Openers -> [pc : {"out", "opening", "opened", "numbered"},
                               kind : {"bi", "uni"}, id : Nat]]
    /\ nextID \in Nat
    /\ streams \in SUBSET (Nat \ {NoID})
    /\ stats \in [total : Int, active : Int, opened : Int, closed : Int]
    /\ mclose \in {"open", "draining", "drained"}
    /\ unis \in Nat /\ allUnis \in Nat

(* The gauges TotalStreams and ActiveStreams are the streams in the map    *)
(* plus the unidirectional streams counted since Close, whichever Opens    *)
(* file late, after Close has drained the map and set them to zero: they   *)
(* never fall below what is in the map, and never below zero.              *)
GaugesMatch ==
    /\ stats.active = Cardinality(streams) + unis
    /\ stats.total = stats.active

(* StreamsOpened and StreamsClosed differ by the streams in the map and    *)
(* all unidirectional streams, which are never counted as closed: every    *)
(* stream that left the map was counted as closed exactly once, by         *)
(* CloseStream or by Close.                                                *)
TotalsMatch == stats.opened - stats.closed = Cardinality(streams) + allUnis

(* Filing a stream never overwrites another one: ids that are taken and    *)
(* not yet filed differ from each other and from all that are in the map.  *)
NothingOverwritten ==
    \A o \in Openers : opener[o].pc = "numbered" =>
        /\ opener[o].id \notin streams
        /\ \A p \in Openers \ {o} :
              opener[p].pc = "numbered" => opener[p].id # opener[o].id
===============================================================================
