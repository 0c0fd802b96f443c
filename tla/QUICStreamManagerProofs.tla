----------------------- MODULE QUICStreamManagerProofs -----------------------
(***************************************************************************)
(* TLAPS proofs about QUICStreamManager, for any number of goroutines and  *)
(* of streams.                                                             *)
(***************************************************************************)
EXTENDS QUICStreamManager, FiniteSetTheorems, TLAPS

(* What is known of a goroutine. *)
OpenerRec == [pc : {"out", "opening", "opened", "numbered"}, kind : {"bi", "uni"}, id : Nat]

(* The map is finite, and every id in it or in a goroutine's hand was      *)
(* taken from the counter.                                                 *)
IDsOK ==
    /\ IsFiniteSet(streams)
    /\ \A id \in streams : id <= nextID
    /\ \A o \in Openers : opener[o].pc = "numbered" =>
          opener[o].id # NoID /\ opener[o].id <= nextID

ManagerIInv ==
    /\ ManagerTypeOK
    /\ IDsOK
    /\ NothingOverwritten
    /\ GaugesMatch
    /\ TotalsMatch

-------------------------------------------------------------------------------
(* The empty manager satisfies the invariant. *)
LEMMA ManagerInitInv == ManagerInit => ManagerIInv
  BY FS_EmptySet
     DEF ManagerInit, ManagerIInv, ManagerTypeOK, IDsOK, NothingOverwritten,
         GaugesMatch, TotalsMatch, NoID

(* A goroutine that moves on without filing anything: OpenStream,          *)
(* OpenUniStream, what the library answers, and taking an id.              *)
LEMMA OpenerInv ==
  ASSUME ManagerIInv, NEW o \in Openers,
         OpenStream(o) \/ OpenUniStream(o) \/ LibraryOpens(o) \/ TakeID(o)
  PROVE  ManagerIInv'
  <1> USE DEF ManagerIInv, ManagerTypeOK, NoID
  <1>1. CASE OpenStream(o) \/ OpenUniStream(o) \/ LibraryOpens(o)
    <2>0. UNCHANGED <<nextID, streams, stats, mclose, unis, allUnis>>
      BY <1>1 DEF OpenStream, OpenUniStream, OpenStarts, LibraryOpens
    <2>a. PICK moved \in OpenerRec : moved.pc # "numbered" /\ opener' = [opener EXCEPT ![o] = moved]
      <3>1. ASSUME NEW kind \in {"bi", "uni"}, OpenStarts(o, kind)
            PROVE  \E moved \in OpenerRec :
                     moved.pc # "numbered" /\ opener' = [opener EXCEPT ![o] = moved]
        <4>1. [opener[o] EXCEPT !.pc = "opening", !.kind = kind] \in OpenerRec
          BY DEF OpenerRec
        <4> QED
          BY <3>1, <4>1 DEF OpenStarts, OpenerRec
      <3>2. ASSUME LibraryOpens(o)
            PROVE  \E moved \in OpenerRec :
                     moved.pc # "numbered" /\ opener' = [opener EXCEPT ![o] = moved]
        <4>1. PICK r \in {"opened", "out"} : opener' = [opener EXCEPT ![o].pc = r]
          BY <3>2 DEF LibraryOpens
        <4>2. [opener[o] EXCEPT !.pc = r] \in OpenerRec
          BY DEF OpenerRec
        <4> QED
          BY <4>1, <4>2 DEF OpenerRec
      <3> QED
        BY <1>1, <3>1, <3>2 DEF OpenStream, OpenUniStream
    <2>1. /\ ManagerTypeOK'
          /\ opener'[o].pc # "numbered"
          /\ \A p \in Openers \ {o} : opener'[p] = opener[p]
      BY <2>0, <2>a DEF OpenerRec
    <2>2. IDsOK' /\ NothingOverwritten' /\ GaugesMatch' /\ TotalsMatch'
      BY <2>0, <2>1 DEF IDsOK, NothingOverwritten, GaugesMatch, TotalsMatch
    <2> QED
      BY <2>1, <2>2
  <1>2. CASE TakeID(o)
    <2> DEFINE taken == [opener[o] EXCEPT !.pc = "numbered", !.id = nextID + 1]
    <2>0. /\ UNCHANGED <<streams, stats, mclose, unis, allUnis>>
          /\ nextID' = nextID + 1
          /\ opener' = [opener EXCEPT ![o] = taken]
      BY <1>2 DEF TakeID
    <2>a. /\ opener[o] \in [pc : {"out", "opening", "opened", "numbered"},
                            kind : {"bi", "uni"}, id : Nat]
          /\ nextID + 1 \in Nat
      OBVIOUS
    <2>b. /\ taken \in [pc : {"out", "opening", "opened", "numbered"},
                        kind : {"bi", "uni"}, id : Nat]
          /\ taken.id = nextID + 1
      BY <2>a
    <2> HIDE DEF taken
    <2>1. /\ ManagerTypeOK'
          /\ opener'[o].id = nextID + 1
          /\ \A p \in Openers \ {o} : opener'[p] = opener[p]
      BY <2>0, <2>a, <2>b
    <2>2. IDsOK'
      BY <2>0, <2>1 DEF IDsOK
    <2>3. NothingOverwritten'
      BY <2>0, <2>1 DEF IDsOK, NothingOverwritten
    <2>4. GaugesMatch' /\ TotalsMatch'
      BY <2>0 DEF GaugesMatch, TotalsMatch
    <2> QED
      BY <2>1, <2>2, <2>3, <2>4
  <1> QED
    BY <1>1, <1>2

(* Filing a stream adds one element to the map, because its id is new, or  *)
(* one unidirectional stream to the count.                                 *)
LEMMA FileInv ==
  ASSUME ManagerIInv, NEW o \in Openers, File(o)
  PROVE  ManagerIInv'
  <1> USE DEF ManagerIInv, ManagerTypeOK, NoID
  <1>1. /\ opener[o].pc = "numbered"
        /\ opener[o].id \in Nat \ {0} /\ opener[o].id \notin streams
        /\ IsFiniteSet(streams)
    BY DEF File, IDsOK, NothingOverwritten
  <1>2. ManagerTypeOK'
    <2>1. [opener[o] EXCEPT !.pc = "out", !.id = NoID] \in OpenerRec
      BY DEF OpenerRec
    <2>2. opener' \in [Openers -> OpenerRec]
      BY <2>1 DEF File, OpenerRec
    <2>3. stats' = [total |-> stats.total + 1, active |-> stats.active + 1,
                    opened |-> stats.opened + 1, closed |-> stats.closed]
      BY DEF File
    <2>4. stats' \in [total : Int, active : Int, opened : Int, closed : Int]
      BY <2>3
    <2>5. streams' \in SUBSET (Nat \ {NoID}) /\ unis' \in Nat /\ allUnis' \in Nat
      BY <1>1 DEF File
    <2> QED
      BY <2>2, <2>4, <2>5 DEF File, OpenerRec
  <1>3. /\ opener'[o].pc = "out"
        /\ \A p \in Openers \ {o} : opener'[p] = opener[p]
        /\ nextID' = nextID
        /\ streams' \subseteq streams \union {opener[o].id}
    BY DEF File
  <1>4. NothingOverwritten'
    BY <1>1, <1>3 DEF NothingOverwritten
  <1>5. CASE opener[o].kind = "bi"
    <2>0. streams' = streams \union {opener[o].id}
      BY <1>5 DEF File
    <2>1. /\ IsFiniteSet(streams')
          /\ Cardinality(streams') = Cardinality(streams) + 1
          /\ Cardinality(streams) \in Nat
      BY <1>1, <2>0, FS_AddElement, FS_CardinalityType
    <2>2. IDsOK'
      BY <1>1, <1>3, <2>1 DEF IDsOK
    <2>3. GaugesMatch' /\ TotalsMatch'
      BY <1>5, <2>1 DEF File, GaugesMatch, TotalsMatch
    <2> QED
      BY <1>2, <1>4, <2>2, <2>3
  <1>6. CASE opener[o].kind = "uni"
    <2>1. streams' = streams /\ Cardinality(streams) \in Nat
      BY <1>1, <1>6, FS_CardinalityType DEF File
    <2>2. IDsOK'
      BY <1>3, <2>1 DEF IDsOK
    <2>3. GaugesMatch' /\ TotalsMatch'
      BY <1>6, <2>1 DEF File, GaugesMatch, TotalsMatch
    <2> QED
      BY <1>2, <1>4, <2>2, <2>3
  <1> QED
    BY <1>5, <1>6

(* CloseStream takes one element out of the map. *)
LEMMA CloseStreamInv ==
  ASSUME ManagerIInv, NEW id \in streams, CloseStream(id)
  PROVE  ManagerIInv'
  <1> USE DEF ManagerIInv, ManagerTypeOK, CloseStream
  <1>1. /\ IsFiniteSet(streams')
        /\ Cardinality(streams') = Cardinality(streams) - 1
        /\ Cardinality(streams) \in Nat
    BY FS_RemoveElement, FS_CardinalityType DEF IDsOK
  <1>2. ManagerTypeOK'
    <2>1. /\ stats' = [total |-> stats.total - 1, active |-> stats.active - 1,
                      opened |-> stats.opened, closed |-> stats.closed + 1]
          /\ streams' \in SUBSET (Nat \ {NoID})
          /\ UNCHANGED <<opener, nextID, mclose, unis, allUnis>>
      OBVIOUS
    <2>2. stats' \in [total : Int, active : Int, opened : Int, closed : Int]
      BY <2>1
    <2> QED
      BY <2>1, <2>2
  <1>3. IDsOK' /\ NothingOverwritten'
    BY <1>1 DEF IDsOK, NothingOverwritten
  <1>4. GaugesMatch' /\ TotalsMatch'
    BY <1>1 DEF GaugesMatch, TotalsMatch
  <1> QED
    BY <1>2, <1>3, <1>4

(* Close: the flag changes nothing the invariant speaks of; the drain      *)
(* counts what was in the map as closed.                                   *)
LEMMA ManagerCloseInv ==
  ASSUME ManagerIInv, ManagerCloseFlag \/ ManagerCloseDrain
  PROVE  ManagerIInv'
  <1> USE DEF ManagerIInv, ManagerTypeOK
  <1>1. CASE ManagerCloseFlag
    BY <1>1 DEF ManagerCloseFlag, IDsOK, NothingOverwritten, GaugesMatch, TotalsMatch
  <1>2. CASE ManagerCloseDrain
    <2>1. /\ IsFiniteSet({}) /\ Cardinality({}) = 0
          /\ Cardinality(streams) \in Nat
      BY FS_EmptySet, FS_CardinalityType DEF IDsOK
    <2>a. stats' = [total |-> 0, active |-> 0, opened |-> stats.opened,
                    closed |-> stats.closed + Cardinality(streams)]
      BY <1>2 DEF ManagerCloseDrain
    <2>b. stats' \in [total : Int, active : Int, opened : Int, closed : Int]
      BY <2>1, <2>a
    <2>2. ManagerTypeOK'
      BY <1>2, <2>b DEF ManagerCloseDrain
    <2>3. IDsOK' /\ NothingOverwritten'
      BY <1>2, <2>1 DEF ManagerCloseDrain, IDsOK, NothingOverwritten
    <2>4. GaugesMatch' /\ TotalsMatch'
      BY <1>2, <2>1 DEF ManagerCloseDrain, GaugesMatch, TotalsMatch
    <2> QED
      BY <2>2, <2>3, <2>4
  <1> QED
    BY <1>1, <1>2

-------------------------------------------------------------------------------
(* The invariant holds of every behaviour of the manager, with Opens that  *)
(* file after Close included.                                              *)
THEOREM ManagerInvariant == ManagerSpec => []ManagerIInv
  <1>1. ManagerIInv /\ [ManagerNext]_managerVars => ManagerIInv'
    <2> SUFFICES ASSUME ManagerIInv, [ManagerNext]_managerVars PROVE ManagerIInv'
      OBVIOUS
    <2>1. CASE UNCHANGED managerVars
      BY <2>1 DEF managerVars, ManagerIInv, ManagerTypeOK, IDsOK, NothingOverwritten,
                  GaugesMatch, TotalsMatch
    <2>2. CASE \E o \in Openers : OpenStream(o) \/ OpenUniStream(o) \/ LibraryOpens(o)
                                    \/ TakeID(o)
      BY <2>2, OpenerInv
    <2>3. CASE \E o \in Openers : File(o)
      BY <2>3, FileInv
    <2>4. CASE \E id \in streams : CloseStream(id)
      BY <2>4, CloseStreamInv
    <2>5. CASE ManagerCloseFlag \/ ManagerCloseDrain
      BY <2>5, ManagerCloseInv
    <2> QED
      BY <2>1, <2>2, <2>3, <2>4, <2>5 DEF ManagerNext
  <1> QED
    BY ManagerInitInv, <1>1, PTL DEF ManagerSpec

(* The counters agree with the map whatever Opens and Close race: the      *)
(* gauges with what is open or counted since Close, the totals with every  *)
(* stream that was ever counted.                                           *)
THEOREM CountersMatch == ManagerSpec => [](GaugesMatch /\ TotalsMatch)
  BY ManagerInvariant, PTL DEF ManagerIInv

(* No stream is lost by being overwritten in the map. *)
THEOREM StreamsKept == ManagerSpec => []NothingOverwritten
  BY ManagerInvariant, PTL DEF ManagerIInv
===============================================================================
