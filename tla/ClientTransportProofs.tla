------------------------- MODULE ClientTransportProofs -------------------------
(***************************************************************************)
(* TLAPS proofs about QUICConnectionPool and ClientTransport, for any      *)
(* clients and addresses, any limit of the pool and any idle time.         *)
(*                                                                         *)
(* The inductive invariant PoolIInv says who holds which connection        *)
(* (HolderOK), what the map says of connections that are alive (EntryOK),  *)
(* what Close leaves (ClosedOK), and that the counters agree               *)
(* with the map (CountersOK); the limit holds because Get keeps mu from    *)
(* the test to the end of the dial.  ClientUsesPool carries what is proved *)
(* of the pool over to the client transport.                               *)
(***************************************************************************)
EXTENDS ClientTransport, FiniteSetTheorems, WellFoundedInduction, TLAPS

EntryRec == [state : {"none", "idle", "inuse"}, key : Addrs \union {""},
             age : 0..MaxIdle + 1]

PoolPCs == {"out", "get", "dialing", "holding", "put"}

ClientRec == [pc : PoolPCs, addr : Addrs \union {""}, conn : Conns \union {NoConn}]

StatsRec == [total : Nat, active : Nat, idle : Nat, created : 0..MaxConns]

Held(c) == \E k \in Clients : client[k].conn = c

(* The goroutine that dials has the mutex.  One that has a connection has  *)
(* it alone, and its entry is in use under the address that was asked for, *)
(* or was removed.                                                         *)
HolderOK(k) ==
    /\ client[k].pc = "dialing" <=> mu = k
    /\ client[k].pc \in {"holding", "put"} <=> client[k].conn # NoConn
    /\ client[k].pc # "out" => client[k].addr \in Addrs
    /\ client[k].conn # NoConn =>
          /\ client[k].conn <= Dialled
          /\ entry[client[k].conn].state # "idle"
          /\ entry[client[k].conn].state = "inuse" =>
                entry[client[k].conn].key = client[k].addr
          /\ \A j \in Clients \ {k} : client[j].conn # client[k].conn

(* The map has entries of dialled connections, among them all that live. *)
EntryOK(c) ==
    /\ entry[c].state # "none" => c <= Dialled
    /\ up[c] => entry[c].state # "none"

(* After Close every connection that lives is held, and one that is being *)
(* put back does not live.                                                *)
ClosedOK ==
    poolClose = "drained" =>
        /\ \A c \in Conns : up[c] => Held(c)
        /\ \A k \in Clients : client[k].pc = "put" => ~up[client[k].conn]

CountersOK ==
    /\ stats.total = Cardinality(Pooled)
    /\ stats.active = Cardinality(InUse)
    /\ stats.idle = Cardinality(Idle)
    /\ MaxPoolSize > 0 => /\ stats.total <= MaxPoolSize
                          /\ mu # NoOne => stats.total < MaxPoolSize

PoolIInv ==
    /\ PoolTypeOK
    /\ \A k \in Clients : HolderOK(k)
    /\ \A c \in Conns : EntryOK(c)
    /\ ClosedOK
    /\ CountersOK

(* A client with a control connection has its QUIC connection. *)
SessOK == \A k \in Clients : sess[k] # "none" => client[k].pc = "holding"

ClientIInv == PoolIInv /\ ClientTypeOK /\ SessOK

-------------------------------------------------------------------------------
(* The types of PoolTypeOK by name, before and after a step. *)
LEMMA PoolTypes ==
  PoolTypeOK <=> /\ entry \in [Conns -> EntryRec]
                 /\ up \in [Conns -> BOOLEAN]
                 /\ stats \in StatsRec
                 /\ mu \in Clients \union {NoOne}
                 /\ client \in [Clients -> ClientRec]
                 /\ poolClose \in {"open", "draining", "drained"}
  BY DEF PoolTypeOK, EntryRec, StatsRec, ClientRec, PoolPCs

(* The same after the step: a fact about this state says nothing of the   *)
(* next one.                                                              *)
LEMMA PoolTypesNext ==
  PoolTypeOK' <=> /\ entry' \in [Conns -> EntryRec]
                  /\ up' \in [Conns -> BOOLEAN]
                  /\ stats' \in StatsRec
                  /\ mu' \in Clients \union {NoOne}
                  /\ client' \in [Clients -> ClientRec]
                  /\ poolClose' \in {"open", "draining", "drained"}
  BY DEF PoolTypeOK, EntryRec, StatsRec, ClientRec, PoolPCs

(* Connections are numbered from one, and a goroutine is not NoOne. *)
LEMMA ConnsAreNumbers ==
  /\ Conns \subseteq Nat /\ NoConn \notin Conns /\ MaxConns \in Nat
  /\ \A c \in Conns : c <= MaxConns
  /\ \A n \in Nat : n < MaxConns => n + 1 \in Conns
  /\ NoOne \notin Clients
  BY PoolAssumption DEF Conns, NoConn

(* Sets of connections are finite. *)
LEMMA ConnsAreFinite ==
  ASSUME NEW S \in SUBSET Conns
  PROVE  IsFiniteSet(S) /\ Cardinality(S) \in Nat
  <1>1. 1 \in Int /\ MaxConns \in Int
    BY PoolAssumption
  <1>2. IsFiniteSet(Conns)
    BY <1>1, FS_Interval DEF Conns
  <1>3. IsFiniteSet(S)
    BY <1>2, FS_Subset
  <1> QED
    BY <1>3, FS_CardinalityType

(* The sets the counters count. *)
LEMMA SetsOfConns ==
  /\ Pooled \subseteq Conns /\ InUse \subseteq Conns /\ Idle \subseteq Conns
  BY DEF Pooled, InUse, Idle

(* The least of a set of numbers. *)
LEMMA MinIsLeast ==
  ASSUME NEW S \in SUBSET Nat, S # {}
  PROVE  Min(S) \in S /\ \A y \in S : Min(S) <= y
  <1> DEFINE R == OpToRel(<, Nat)
  <1>1. IsWellFoundedOn(R, Nat)
    BY NatLessThanWellFounded
  <1>2. \A x, y \in Nat : <<y, x>> \notin R => x <= y
    BY DEF OpToRel
  <1> HIDE DEF R
  <1>3. PICK x \in S : \A y \in S : <<y, x>> \notin R
    BY <1>1, WFMin
  <1>4. \A y \in S : x <= y
    BY <1>2, <1>3
  <1> QED
    BY <1>4 DEF Min

(* What a step of a goroutine starts from. *)
LEMMA ClientKnows ==
  ASSUME PoolIInv, NEW k \in Clients
  PROVE  /\ PoolTypeOK /\ HolderOK(k)
         /\ entry \in [Conns -> EntryRec] /\ up \in [Conns -> BOOLEAN]
         /\ client \in [Clients -> ClientRec]
         /\ stats \in StatsRec /\ Dialled \in Nat /\ Dialled <= MaxConns
         /\ client[k].conn \in Conns \union {NoConn}
         /\ client[k].addr \in Addrs \union {""}
  <1>1. /\ PoolTypeOK /\ HolderOK(k)
        /\ entry \in [Conns -> EntryRec] /\ up \in [Conns -> BOOLEAN]
        /\ client \in [Clients -> ClientRec] /\ stats \in StatsRec
    BY PoolTypes DEF PoolIInv
  <1>2. client[k] \in ClientRec
    BY <1>1
  <1>3. client[k].conn \in Conns \union {NoConn} /\ client[k].addr \in Addrs \union {""}
    BY <1>2 DEF ClientRec
  <1>4. Dialled \in 0..MaxConns
    BY <1>1 DEF StatsRec, Dialled
  <1>5. Dialled \in Nat /\ Dialled <= MaxConns
    BY <1>4, PoolAssumption
  <1> QED
    BY <1>1, <1>3, <1>5

(* The goroutine k goes to pc, with this address and connection. *)
Goes(k, pc, addr, c) ==
    /\ client' \in [Clients -> ClientRec]
    /\ \A j \in Clients \ {k} : client'[j] = client[j]
    /\ client'[k].pc = pc /\ client'[k].addr = addr /\ client'[k].conn = c

(* Moves in these terms. *)
LEMMA ClientMoves ==
  ASSUME client \in [Clients -> ClientRec], NEW k \in Clients, NEW pc \in PoolPCs,
         NEW addr \in Addrs \union {""}, NEW c \in Conns \union {NoConn},
         client' = Moves(k, pc, addr, c)
  PROVE  Goes(k, pc, addr, c)
  <1>1. [pc |-> pc, addr |-> addr, conn |-> c] \in ClientRec
    BY DEF ClientRec
  <1> QED
    BY <1>1 DEF Goes, Moves

(* A step that changes neither the map nor the counters. *)
LEMMA CountersStay ==
  ASSUME CountersOK, \A c \in Conns : entry'[c].state = entry[c].state,
         stats' = stats,
         mu' # NoOne => mu # NoOne \/ (MaxPoolSize > 0 => stats.total < MaxPoolSize)
  PROVE  CountersOK'
  <1>1. Pooled' = Pooled /\ InUse' = InUse /\ Idle' = Idle
    BY DEF Pooled, InUse, Idle
  <1> QED
    BY <1>1 DEF CountersOK

(* Get begins. *)
LEMMA GetStartsKeeps ==
  ASSUME PoolIInv, NEW k \in Clients, NEW addr \in Addrs, GetStarts(k, addr)
  PROVE  PoolIInv'
  <1>1. /\ PoolTypeOK /\ client[k].pc = "out" /\ HolderOK(k)
        /\ client \in [Clients -> ClientRec]
        /\ UNCHANGED <<entry, up, stats, mu, poolClose>>
    BY ClientKnows DEF GetStarts, At
  <1>2. Goes(k, "get", addr, NoConn)
    BY <1>1, ClientMoves DEF GetStarts, PoolPCs
  <1>3. client[k].conn = NoConn /\ mu # k
    BY <1>1 DEF HolderOK
  <1>4. PoolTypeOK'
    BY <1>1, <1>2, PoolTypes, PoolTypesNext DEF Goes
  <1>5. HolderOK(k)'
    BY <1>1, <1>2, <1>3 DEF HolderOK, Goes
  <1>6. ASSUME NEW j \in Clients \ {k} PROVE HolderOK(j)'
    BY <1>1, <1>2, <1>3 DEF PoolIInv, HolderOK, Goes, Dialled
  <1>7. \A c \in Conns : EntryOK(c)'
    BY <1>1 DEF PoolIInv, EntryOK, Dialled
  <1>8. ClosedOK'
    BY <1>1, <1>2, <1>3, ConnsAreNumbers DEF PoolIInv, ClosedOK, Held, Goes
  <1>9. CountersOK'
    BY <1>1, CountersStay DEF PoolIInv
  <1> QED
    BY <1>4, <1>5, <1>6, <1>7, <1>8, <1>9 DEF PoolIInv

(* A goroutine that changes places without a connection disturbs nobody,   *)
(* if it keeps to who has the mutex.                                       *)
LEMMA EmptyHandedKeeps ==
  ASSUME PoolIInv, NEW k \in Clients, NEW pc \in {"out", "get", "dialing"},
         NEW addr \in Addrs \union {""}, pc # "out" => addr \in Addrs,
         client' = Moves(k, pc, addr, NoConn), client[k].conn = NoConn,
         UNCHANGED <<entry, up, stats, poolClose>>,
         mu' \in {mu, NoOne, k}, mu' # mu => mu \in {NoOne, k},
         pc = "dialing" <=> mu' = k,
         mu' = k => mu = k \/ (MaxPoolSize > 0 => stats.total < MaxPoolSize)
  PROVE  PoolIInv'
  <1>1. /\ PoolTypeOK /\ HolderOK(k)
        /\ client \in [Clients -> ClientRec]
    BY ClientKnows
  <1>2. Goes(k, pc, addr, NoConn)
    BY <1>1, ClientMoves DEF PoolPCs
  <1>3. PoolTypeOK'
    BY <1>1, <1>2, PoolTypes, PoolTypesNext DEF Goes
  <1>4. HolderOK(k)'
    BY <1>1, <1>2 DEF HolderOK, Goes
  <1>5. ASSUME NEW j \in Clients \ {k} PROVE HolderOK(j)'
    <2>1. mu' = j <=> mu = j
      BY ConnsAreNumbers
    <2>2. /\ HolderOK(j) /\ client'[j] = client[j]
          /\ \A i \in Clients : client'[i].conn # NoConn => client'[i] = client[i]
      BY <1>2 DEF PoolIInv, Goes
    <2> QED
      BY <2>1, <2>2 DEF HolderOK, Dialled
  <1>6. \A c \in Conns : EntryOK(c)'
    BY DEF PoolIInv, EntryOK, Dialled
  <1>7. ClosedOK'
    <2>1. \A c \in Conns : Held(c) => Held(c)'
      BY <1>2, ConnsAreNumbers DEF Held, Goes
    <2>2. \A j \in Clients : client'[j].pc = "put" => client'[j] = client[j]
      BY <1>2 DEF Goes
    <2> QED
      BY <2>1, <2>2 DEF PoolIInv, ClosedOK
  <1>8. CountersOK'
    BY ConnsAreNumbers, CountersStay DEF PoolIInv
  <1> QED
    BY <1>3, <1>4, <1>5, <1>6, <1>7, <1>8 DEF PoolIInv

(* A Get that has to dial, or finds the pool full. *)
LEMMA GetMissKeeps ==
  ASSUME PoolIInv, NEW k \in Clients, GetMiss(k) PROVE PoolIInv'
  <1>1. /\ HolderOK(k) /\ client[k].pc = "get" /\ mu = NoOne
        /\ UNCHANGED <<entry, up, stats, poolClose>>
    BY ClientKnows DEF GetMiss, At
  <1>2. client[k].conn = NoConn /\ client[k].addr \in Addrs
    BY <1>1 DEF HolderOK
  <1>3. CASE IsFull
    <2>1. client' = Moves(k, "out", "", NoConn) /\ mu' = mu
      BY <1>3 DEF GetMiss
    <2> QED
      BY <1>1, <1>2, <2>1, ConnsAreNumbers, EmptyHandedKeeps
  <1>4. CASE ~IsFull
    <2>1. client' = Moves(k, "dialing", client[k].addr, NoConn) /\ mu' = k
      BY <1>4 DEF GetMiss
    <2>2. MaxPoolSize > 0 => stats.total < MaxPoolSize
      <3>1. stats.total \in Nat /\ MaxPoolSize \in Nat
        BY ClientKnows, PoolAssumption DEF StatsRec
      <3> QED
        BY <1>4, <3>1 DEF IsFull
    <2> QED
      BY <1>1, <1>2, <2>1, <2>2, EmptyHandedKeeps
  <1> QED
    BY <1>3, <1>4

(* A dial that fails. *)
LEMMA DialFailsKeeps ==
  ASSUME PoolIInv, NEW k \in Clients, At(k, "dialing"), DialFails(k), UNCHANGED poolClose
  PROVE  PoolIInv'
  <1>1. /\ HolderOK(k) /\ client[k].pc = "dialing"
        /\ client' = Moves(k, "out", "", NoConn) /\ mu' = NoOne
        /\ UNCHANGED <<entry, up, stats, poolClose>>
    BY ClientKnows DEF DialFails, At
  <1>2. client[k].conn = NoConn /\ mu = k
    BY <1>1 DEF HolderOK
  <1> QED
    BY <1>1, <1>2, ConnsAreNumbers, EmptyHandedKeeps

(* An idle connection is handed out. *)
LEMMA GetHitKeeps ==
  ASSUME PoolIInv, NEW k \in Clients, GetHit(k) PROVE PoolIInv'
  <1> DEFINE c == Min(Available(client[k].addr))
  <1>1. /\ PoolTypeOK /\ HolderOK(k) /\ entry \in [Conns -> EntryRec]
        /\ client \in [Clients -> ClientRec] /\ stats \in StatsRec
        /\ client[k].pc = "get" /\ mu = NoOne /\ CountersOK
    BY ClientKnows DEF GetHit, At, PoolIInv
  <1>2. c \in Available(client[k].addr)
    BY MinIsLeast, ConnsAreNumbers DEF GetHit, Available, Pooled
  <1>3. /\ entry' = [entry EXCEPT ![c] = [@ EXCEPT !.state = "inuse", !.age = 0]]
        /\ stats' = [stats EXCEPT !.idle = @ - 1, !.active = @ + 1]
        /\ client' = Moves(k, "holding", client[k].addr, c)
        /\ UNCHANGED <<up, mu, poolClose>>
    BY DEF GetHit
  <1> HIDE DEF c
  <1>4. c \in Conns /\ entry[c].state = "idle" /\ entry[c].key = client[k].addr
    BY <1>2 DEF Available, Pooled
  <1>5. /\ client[k].conn = NoConn /\ client[k].addr \in Addrs
        /\ \A j \in Clients : client[j].conn # c
    BY <1>1, <1>4, ConnsAreNumbers DEF HolderOK, PoolIInv
  <1>6. /\ entry' \in [Conns -> EntryRec]
        /\ \A d \in Conns \ {c} : entry'[d] = entry[d]
        /\ entry'[c].state = "inuse" /\ entry'[c].key = client[k].addr
    <2>1. 0 \in 0..MaxIdle + 1
      BY PoolAssumption
    <2> QED
      BY <1>1, <1>3, <1>4, <2>1 DEF EntryRec
  <1>7. Goes(k, "holding", client[k].addr, c)
    BY <1>1, <1>3, <1>4, <1>5, ClientMoves DEF PoolPCs
  <1>8. /\ Pooled' = Pooled /\ InUse' = InUse \union {c} /\ Idle' = Idle \ {c}
        /\ c \notin InUse /\ c \in Idle
    BY <1>4, <1>6 DEF Pooled, InUse, Idle
  <1>9. /\ Cardinality(InUse') = Cardinality(InUse) + 1
        /\ Cardinality(Idle') = Cardinality(Idle) - 1
        /\ Cardinality(Idle') \in Nat /\ Cardinality(InUse') \in Nat
    <2>1. IsFiniteSet(InUse) /\ IsFiniteSet(Idle)
      BY SetsOfConns, ConnsAreFinite
    <2>2. IsFiniteSet(InUse') /\ IsFiniteSet(Idle')
      BY <1>8, <2>1, FS_AddElement, FS_RemoveElement
    <2> QED
      BY <1>8, <2>1, <2>2, FS_AddElement, FS_RemoveElement, FS_CardinalityType
  <1>10. /\ stats'.total = stats.total /\ stats'.created = stats.created
         /\ stats'.active = Cardinality(InUse') /\ stats'.idle = Cardinality(Idle')
         /\ stats' \in StatsRec
    <2>1. stats.active = Cardinality(InUse) /\ stats.idle = Cardinality(Idle)
      BY <1>1 DEF CountersOK
    <2>2. stats.active + 1 \in Nat /\ stats.idle - 1 \in Nat
      BY <1>9, <2>1
    <2> QED
      BY <1>1, <1>3, <1>9, <2>1, <2>2 DEF StatsRec
  <1>11. CountersOK'
    BY <1>1, <1>3, <1>8, <1>10 DEF CountersOK
  <1>12. PoolTypeOK'
    BY <1>1, <1>3, <1>6, <1>7, <1>10, PoolTypes, PoolTypesNext DEF Goes
  <1>13. c <= Dialled
    BY <1>4 DEF PoolIInv, EntryOK
  <1>14. HolderOK(k)'
    BY <1>1, <1>3, <1>4, <1>5, <1>6, <1>7, <1>10, <1>13, ConnsAreNumbers
    DEF HolderOK, Goes, Dialled
  <1>15. ASSUME NEW j \in Clients \ {k} PROVE HolderOK(j)'
    <2>1. HolderOK(j) /\ client'[j] = client[j] /\ client[j].conn # c
          /\ client[j].conn \in Conns \union {NoConn}
      BY <1>5, <1>7, ClientKnows DEF PoolIInv, Goes
    <2>2. client[j].conn # NoConn => entry'[client[j].conn] = entry[client[j].conn]
      BY <1>6, <2>1
    <2> QED
      BY <1>3, <1>5, <1>7, <1>10, <2>1, <2>2 DEF HolderOK, Goes, Dialled
  <1>16. ASSUME NEW d \in Conns PROVE EntryOK(d)'
    BY <1>3, <1>4, <1>6, <1>10, <1>13 DEF PoolIInv, EntryOK, Dialled
  <1>17. ClosedOK'
    BY <1>3, <1>5, <1>7, ConnsAreNumbers DEF PoolIInv, ClosedOK, Held, Goes
  <1> QED
    BY <1>11, <1>12, <1>14, <1>15, <1>16, <1>17 DEF PoolIInv

(* A dial succeeds: the connection is new, and there was room for it. *)
LEMMA DialSucceedsKeeps ==
  ASSUME PoolIInv, NEW k \in Clients, At(k, "dialing"), DialSucceeds(k), UNCHANGED poolClose
  PROVE  PoolIInv'
  <1> DEFINE c == Dialled + 1
  <1>1. /\ PoolTypeOK /\ HolderOK(k) /\ entry \in [Conns -> EntryRec]
        /\ up \in [Conns -> BOOLEAN]
        /\ client \in [Clients -> ClientRec] /\ stats \in StatsRec
        /\ client[k].pc = "dialing" /\ mu = k /\ CountersOK
        /\ Dialled \in Nat /\ stats.created = Dialled
    BY ClientKnows DEF At, PoolIInv, HolderOK, Dialled
  <1>2. /\ c \in Conns
        /\ up' = [up EXCEPT ![c] = TRUE]
        /\ entry' = [entry EXCEPT ![c] = [state |-> "inuse", key |-> client[k].addr,
                                          age |-> 0]]
        /\ stats' = [stats EXCEPT !.total = @ + 1, !.active = @ + 1, !.created = @ + 1]
        /\ client' = Moves(k, "holding", client[k].addr, c)
        /\ mu' = NoOne
    BY DEF DialSucceeds
  <1>3. c \in Nat /\ c = Dialled + 1 /\ c > Dialled /\ c <= MaxConns
    BY <1>1, <1>2, ConnsAreNumbers
  <1> HIDE DEF c
  <1>4. entry[c].state = "none"
    BY <1>1, <1>2, <1>3 DEF PoolIInv, EntryOK
  <1>5. /\ client[k].conn = NoConn /\ client[k].addr \in Addrs
    BY <1>1 DEF HolderOK
  <1>6. \A j \in Clients : client[j].conn # c
    <2>1. TAKE j \in Clients
    <2>2. client[j].conn # NoConn => client[j].conn <= Dialled
      BY DEF PoolIInv, HolderOK
    <2> QED
      BY <1>1, <1>2, <1>3, <2>2, ConnsAreNumbers
  <1>7. /\ entry' \in [Conns -> EntryRec]
        /\ \A d \in Conns \ {c} : entry'[d] = entry[d]
        /\ entry'[c].state = "inuse" /\ entry'[c].key = client[k].addr
    <2>1. 0 \in 0..MaxIdle + 1
      BY PoolAssumption
    <2>2. [state |-> "inuse", key |-> client[k].addr, age |-> 0] \in EntryRec
      BY <1>5, <2>1 DEF EntryRec
    <2> QED
      BY <1>1, <1>2, <2>2
  <1>8. /\ up' \in [Conns -> BOOLEAN]
        /\ \A d \in Conns \ {c} : up'[d] = up[d]
    BY <1>1, <1>2
  <1>9. Goes(k, "holding", client[k].addr, c)
    BY <1>1, <1>2, <1>5, ClientMoves DEF PoolPCs
  <1>10. /\ Pooled' = Pooled \union {c} /\ InUse' = InUse \union {c} /\ Idle' = Idle
         /\ c \notin InUse /\ c \notin Pooled
    BY <1>2, <1>4, <1>7 DEF Pooled, InUse, Idle
  <1>11. /\ Cardinality(InUse') = Cardinality(InUse) + 1
         /\ Cardinality(Pooled') = Cardinality(Pooled) + 1
    <2>1. IsFiniteSet(InUse) /\ IsFiniteSet(Pooled)
      BY SetsOfConns, ConnsAreFinite
    <2> QED
      BY <1>10, <2>1, FS_AddElement
  <1>12. /\ stats'.total = stats.total + 1 /\ stats'.created = c
         /\ stats'.active = stats.active + 1 /\ stats'.idle = stats.idle
         /\ stats' \in StatsRec
    <2>1. /\ stats.total \in Nat /\ stats.active \in Nat /\ stats.created + 1 = c
      BY <1>1, <1>3 DEF StatsRec
    <2>2. /\ stats.total + 1 \in Nat /\ stats.active + 1 \in Nat
          /\ stats.created + 1 \in 0..MaxConns
      BY <1>3, <2>1, ConnsAreNumbers
    <2> QED
      BY <1>1, <1>2, <2>1, <2>2 DEF StatsRec
  <1>13. CountersOK'
    <2>1. /\ stats.total \in Nat /\ MaxPoolSize \in Nat
          /\ MaxPoolSize > 0 => stats.total < MaxPoolSize
      BY <1>1, PoolAssumption DEF StatsRec, CountersOK
    <2>2. /\ stats'.total = Cardinality(Pooled)' /\ stats'.active = Cardinality(InUse)'
          /\ stats'.idle = Cardinality(Idle)'
      BY <1>1, <1>10, <1>11, <1>12 DEF CountersOK
    <2>3. MaxPoolSize > 0 => stats'.total <= MaxPoolSize
      BY <1>12, <2>1
    <2> QED
      BY <1>2, <2>2, <2>3 DEF CountersOK
  <1>14. PoolTypeOK'
    BY <1>1, <1>2, <1>7, <1>8, <1>9, <1>12, PoolTypes, PoolTypesNext DEF Goes
  <1>15. HolderOK(k)'
    BY <1>1, <1>2, <1>3, <1>5, <1>6, <1>7, <1>9, <1>12, ConnsAreNumbers
    DEF HolderOK, Goes, Dialled
  <1>16. ASSUME NEW j \in Clients \ {k} PROVE HolderOK(j)'
    <2>1. /\ HolderOK(j) /\ client'[j] = client[j] /\ client[j].conn # c
          /\ client[j].conn \in Conns \union {NoConn}
      BY <1>6, <1>9, ClientKnows DEF PoolIInv, Goes
    <2>2. client[j].conn # NoConn => /\ entry'[client[j].conn] = entry[client[j].conn]
                                     /\ client[j].conn <= Dialled'
      <3>1. client[j].conn # NoConn =>
               /\ client[j].conn \in Nat /\ client[j].conn <= Dialled
               /\ entry'[client[j].conn] = entry[client[j].conn]
        BY <1>7, <2>1, ConnsAreNumbers DEF HolderOK
      <3>2. Dialled' = c
        BY <1>12 DEF Dialled
      <3> QED
        BY <1>1, <1>3, <3>1, <3>2
    <2>3. mu' # j /\ mu # j
      BY <1>1, <1>2, ConnsAreNumbers
    <2> QED
      BY <1>9, <2>1, <2>2, <2>3 DEF HolderOK, Goes
  <1>17. ASSUME NEW d \in Conns PROVE EntryOK(d)'
    <2>1. Dialled' = c /\ d \in Nat
      BY <1>12, ConnsAreNumbers DEF Dialled
    <2>2. d # c => EntryOK(d) /\ entry'[d] = entry[d] /\ up'[d] = up[d]
      BY <1>7, <1>8 DEF PoolIInv
    <2>3. d # c => (entry'[d].state # "none" => d <= c)
      BY <1>1, <1>3, <2>1, <2>2 DEF EntryOK
    <2> QED
      BY <1>3, <1>7, <2>1, <2>2, <2>3 DEF EntryOK
  <1>18. ClosedOK'
    <2>1. ASSUME NEW d \in Conns, up'[d], poolClose = "drained" PROVE Held(d)'
      <3>1. CASE d = c
        BY <1>9, <3>1 DEF Held, Goes
      <3>2. CASE d # c
        BY <1>1, <1>5, <1>8, <1>9, <2>1, <3>2, ConnsAreNumbers DEF PoolIInv, ClosedOK, Held, Goes
      <3> QED
        BY <3>1, <3>2
    <2>2. ASSUME NEW j \in Clients, client'[j].pc = "put", poolClose = "drained"
          PROVE  ~up'[client'[j].conn]
      <3>1. j # k /\ client'[j] = client[j] /\ client[j].conn # c
            /\ client[j].conn \in Conns \union {NoConn}
        BY <1>6, <1>9, <2>2, ClientKnows DEF Goes
      <3>2. client[j].conn \in Conns /\ ~up[client[j].conn]
        BY <2>2, <3>1 DEF PoolIInv, ClosedOK, HolderOK
      <3> QED
        BY <1>8, <3>1, <3>2
    <2> QED
      BY <2>1, <2>2 DEF ClosedOK
  <1> QED
    BY <1>13, <1>14, <1>15, <1>16, <1>17, <1>18 DEF PoolIInv

(* Put: the connection is closed if the pool is. *)
LEMMA PutStartsKeeps ==
  ASSUME PoolIInv, NEW k \in Clients, PutStarts(k) PROVE PoolIInv'
  <1> DEFINE c == client[k].conn
  <1>1. /\ PoolTypeOK /\ HolderOK(k) /\ up \in [Conns -> BOOLEAN]
        /\ client \in [Clients -> ClientRec]
        /\ client[k].pc = "holding" /\ mu # k
        /\ UNCHANGED <<entry, stats, mu, poolClose>>
        /\ client[k].conn \in Conns \union {NoConn}
        /\ client[k].addr \in Addrs \union {""}
    BY ClientKnows DEF PutStarts, At, HolderOK
  <1>2. c \in Conns
    BY <1>1 DEF HolderOK
  <1>3. CountersOK'
    BY <1>1, CountersStay DEF PoolIInv
  <1>4. CASE closedFlag
    <2>1. /\ up' = [up EXCEPT ![c] = FALSE]
          /\ client' = Moves(k, "out", "", NoConn)
      BY <1>4 DEF PutStarts
    <2>2. Goes(k, "out", "", NoConn)
      BY <1>1, <2>1, ClientMoves DEF PoolPCs
    <2>3. /\ up' \in [Conns -> BOOLEAN] /\ ~up'[c]
          /\ \A d \in Conns \ {c} : up'[d] = up[d]
      BY <1>1, <1>2, <2>1
    <2>4. PoolTypeOK'
      BY <1>1, <2>2, <2>3, PoolTypes, PoolTypesNext DEF Goes
    <2>5. HolderOK(k)'
      BY <1>1, <2>2 DEF HolderOK, Goes
    <2>6. ASSUME NEW j \in Clients \ {k} PROVE HolderOK(j)'
      <3>1. /\ HolderOK(j) /\ client'[j] = client[j]
            /\ \A i \in Clients : client'[i].conn # NoConn => client'[i] = client[i]
        BY <2>2 DEF PoolIInv, Goes
      <3> QED
        BY <1>1, <3>1 DEF HolderOK, Dialled
    <2>7. ASSUME NEW d \in Conns PROVE EntryOK(d)'
      BY <1>1, <2>3 DEF PoolIInv, EntryOK, Dialled
    <2>8. ClosedOK'
      <3>1. ASSUME NEW d \in Conns, up'[d], Held(d) PROVE Held(d)'
        BY <2>2, <2>3, <3>1 DEF Held, Goes
      <3>2. \A j \in Clients : client'[j].pc = "put" =>
               client'[j] = client[j] /\ j # k /\ client[j].conn \in Conns
        BY <2>2, ClientKnows DEF Goes, PoolIInv, HolderOK
      <3>3. \A d \in Conns : up'[d] => up[d]
        BY <2>3
      <3> QED
        BY <1>1, <3>1, <3>2, <3>3 DEF PoolIInv, ClosedOK
    <2> QED
      BY <1>3, <2>4, <2>5, <2>6, <2>7, <2>8 DEF PoolIInv
  <1>5. CASE ~closedFlag
    <2>1. up' = up /\ client' = Moves(k, "put", client[k].addr, c)
      BY <1>5 DEF PutStarts
    <2>2. Goes(k, "put", client[k].addr, c)
      BY <1>1, <2>1, ClientMoves DEF PoolPCs
    <2>3. PoolTypeOK'
      BY <1>1, <2>1, <2>2, PoolTypes, PoolTypesNext DEF Goes
    <2>4. \A i \in Clients : client'[i].conn = client[i].conn
      BY <2>2 DEF Goes
    <2>5. HolderOK(k)'
      BY <1>1, <1>2, <2>2, <2>4 DEF HolderOK, Goes, Dialled
    <2>6. ASSUME NEW j \in Clients \ {k} PROVE HolderOK(j)'
      <3>1. HolderOK(j) /\ client'[j] = client[j]
        BY <2>2 DEF PoolIInv, Goes
      <3> QED
        BY <1>1, <2>4, <3>1 DEF HolderOK, Dialled
    <2>7. ASSUME NEW d \in Conns PROVE EntryOK(d)'
      BY <1>1, <2>1 DEF PoolIInv, EntryOK, Dialled
    <2>8. ClosedOK'
      BY <1>1, <1>5 DEF ClosedOK, closedFlag
    <2> QED
      BY <1>3, <2>3, <2>5, <2>6, <2>7, <2>8 DEF PoolIInv
  <1> QED
    BY <1>4, <1>5

(* Put, under mu: the entry, if it is found, waits for the next Get. *)
LEMMA PutLockedKeeps ==
  ASSUME PoolIInv, NEW k \in Clients, PutLocked(k) PROVE PoolIInv'
  <1> DEFINE c == client[k].conn
  <1>1. /\ PoolTypeOK /\ HolderOK(k) /\ entry \in [Conns -> EntryRec]
        /\ client \in [Clients -> ClientRec] /\ stats \in StatsRec
        /\ client[k].pc = "put" /\ mu = NoOne /\ CountersOK
        /\ UNCHANGED <<up, mu, poolClose>>
        /\ client' = Moves(k, "out", "", NoConn)
        /\ client[k].conn \in Conns \union {NoConn}
    BY ClientKnows DEF PutLocked, At, PoolIInv
  <1>2. c \in Conns
    BY <1>1 DEF HolderOK
  <1>3. Goes(k, "out", "", NoConn)
    BY <1>1, ClientMoves DEF PoolPCs
  <1>4. PICK found \in BOOLEAN :
          /\ found => putIdle(k) /\ c \in Pooled
          /\ ~found => UNCHANGED <<entry, stats>>
    <2>1. CASE c \in Pooled /\ entry[c].key = RemoteAddr(client[k].addr)
      BY <2>1 DEF PutLocked
    <2>2. CASE ~(c \in Pooled /\ entry[c].key = RemoteAddr(client[k].addr))
      BY <2>2 DEF PutLocked
    <2> QED
      BY <2>1, <2>2
  <1>5. found => entry[c].state = "inuse"
    <2>1. entry[c].state \in {"none", "idle", "inuse"}
      BY <1>1, <1>2 DEF EntryRec
    <2> QED
      BY <1>1, <1>2, <1>4, <2>1, ConnsAreNumbers DEF HolderOK, Pooled
  <1>6. /\ entry' \in [Conns -> EntryRec]
        /\ \A d \in Conns : entry'[d].key = entry[d].key
        /\ \A d \in Conns \ {c} : entry'[d] = entry[d]
        /\ entry'[c].state = IF found THEN "idle" ELSE entry[c].state
    <2>1. found => entry' = [entry EXCEPT ![c].state = "idle"]
      BY <1>4 DEF putIdle
    <2>2. CASE found
      <3>1. entry' = [entry EXCEPT ![c].state = "idle"]
        BY <2>1, <2>2
      <3> HIDE DEF c
      <3>2. /\ entry' \in [Conns -> EntryRec]
            /\ \A d \in Conns \ {c} : entry'[d] = entry[d]
            /\ entry'[c].state = "idle" /\ entry'[c].key = entry[c].key
        BY <1>1, <1>2, <3>1 DEF EntryRec
      <3>3. \A d \in Conns : entry'[d].key = entry[d].key
        BY <3>2
      <3> QED
        BY <2>2, <3>2, <3>3
    <2>3. CASE ~found
      BY <1>1, <1>2, <1>4, <2>3
    <2> QED
      BY <2>2, <2>3
  <1>7. /\ CountersOK' /\ stats' \in StatsRec /\ Dialled' = Dialled
    <2>1. CASE found
      <3>1. stats' = [stats EXCEPT !.active = @ - 1, !.idle = @ + 1]
        BY <1>4, <2>1 DEF putIdle
      <3>2. /\ Pooled' = Pooled /\ InUse' = InUse \ {c} /\ Idle' = Idle \union {c}
            /\ c \in InUse /\ c \notin Idle
        BY <1>2, <1>5, <1>6, <2>1 DEF Pooled, InUse, Idle
      <3>3. /\ Cardinality(InUse') = Cardinality(InUse) - 1
            /\ Cardinality(Idle') = Cardinality(Idle) + 1
            /\ Cardinality(Idle') \in Nat /\ Cardinality(InUse') \in Nat
        <4>1. IsFiniteSet(InUse) /\ IsFiniteSet(Idle)
          BY SetsOfConns, ConnsAreFinite
        <4>2. IsFiniteSet(InUse') /\ IsFiniteSet(Idle')
          BY <3>2, <4>1, FS_AddElement, FS_RemoveElement
        <4> QED
          BY <3>2, <4>1, <4>2, FS_AddElement, FS_RemoveElement, FS_CardinalityType
      <3>4. stats.active = Cardinality(InUse) /\ stats.idle = Cardinality(Idle)
        BY <1>1 DEF CountersOK
      <3>5. /\ stats'.total = stats.total /\ stats'.created = stats.created
            /\ stats'.active = Cardinality(InUse') /\ stats'.idle = Cardinality(Idle')
            /\ stats' \in StatsRec
        <4>1. stats.active - 1 \in Nat /\ stats.idle + 1 \in Nat
          BY <3>3, <3>4
        <4> QED
          BY <1>1, <3>1, <3>3, <3>4, <4>1 DEF StatsRec
      <3> QED
        BY <1>1, <3>2, <3>5 DEF CountersOK, Dialled
    <2>2. CASE ~found
      BY <1>1, <1>4, <2>2, CountersStay DEF Dialled
    <2> QED
      BY <2>1, <2>2
  <1>8. PoolTypeOK'
    BY <1>1, <1>3, <1>6, <1>7, PoolTypes, PoolTypesNext DEF Goes
  <1>9. HolderOK(k)'
    BY <1>1, <1>3, ConnsAreNumbers DEF HolderOK, Goes
  <1>10. ASSUME NEW j \in Clients \ {k} PROVE HolderOK(j)'
    <2>1. /\ HolderOK(j) /\ client'[j] = client[j]
          /\ \A i \in Clients : client'[i].conn # NoConn => client'[i] = client[i]
          /\ client[j].conn \in Conns \union {NoConn}
      BY <1>3, ClientKnows DEF PoolIInv, Goes
    <2>2. client[j].conn # NoConn => client[j].conn \in Conns \ {c}
      BY <2>1 DEF HolderOK
    <2>3. client[j].conn # NoConn => entry'[client[j].conn] = entry[client[j].conn]
      BY <1>6, <2>2
    <2> QED
      BY <1>1, <1>7, <2>1, <2>3 DEF HolderOK
  <1>11. ASSUME NEW d \in Conns PROVE EntryOK(d)'
    <2>1. (entry'[d].state = "none") <=> (entry[d].state = "none")
      BY <1>5, <1>6
    <2> QED
      BY <1>1, <1>7, <2>1 DEF PoolIInv, EntryOK
  <1>12. ClosedOK'
    <2>1. ASSUME poolClose = "drained" PROVE ~up[c]
      BY <1>1, <2>1 DEF PoolIInv, ClosedOK
    <2>2. ASSUME NEW d \in Conns, d # c, Held(d) PROVE Held(d)'
      BY <1>3, <2>2 DEF Held, Goes
    <2>3. \A j \in Clients : client'[j].pc = "put" => client'[j] = client[j]
      BY <1>3 DEF Goes
    <2> QED
      BY <1>1, <2>1, <2>2, <2>3 DEF PoolIInv, ClosedOK
  <1> QED
    BY <1>7, <1>8, <1>9, <1>10, <1>11, <1>12 DEF PoolIInv

-------------------------------------------------------------------------------
(* Steps of the pool itself and of its surroundings. *)

(* A goroutine keeps what it knows of its connection when the map keeps   *)
(* what is in use.                                                        *)
LEMMA HoldersKeep ==
  ASSUME PoolIInv, UNCHANGED <<client, mu>>, Dialled' = Dialled,
         \A c \in Conns : /\ entry'[c].state = "idle" => entry[c].state = "idle"
                          /\ entry'[c].state = "inuse" =>
                                /\ entry[c].state = "inuse"
                                /\ entry'[c].key = entry[c].key
  PROVE  \A k \in Clients : HolderOK(k)'
  <1>1. TAKE k \in Clients
  <1>2. HolderOK(k) /\ client[k].conn \in Conns \union {NoConn}
    BY ClientKnows
  <1> QED
    BY <1>2 DEF HolderOK

(* An entry that is removed. *)
LEMMA RemovedIsNone ==
  ASSUME entry \in [Conns -> EntryRec], NEW c \in Conns
  PROVE  Removed(c) \in EntryRec /\ Removed(c).state = "none"
  <1>1. 0 \in 0..MaxIdle + 1
    BY PoolAssumption
  <1>2. entry[c] \in EntryRec
    OBVIOUS
  <1> QED
    BY <1>1, <1>2 DEF Removed, EntryRec

(* The pool's own state, where no goroutine has a part in the proof. *)
LEMMA PoolKnows ==
  ASSUME PoolIInv
  PROVE  /\ PoolTypeOK /\ CountersOK /\ ClosedOK
         /\ entry \in [Conns -> EntryRec] /\ up \in [Conns -> BOOLEAN] /\ stats \in StatsRec
         /\ mu \in Clients \union {NoOne} /\ client \in [Clients -> ClientRec]
         /\ poolClose \in {"open", "draining", "drained"}
  BY PoolTypes DEF PoolIInv

(* The cleanup removes idle entries only. *)
LEMMA CleanupExpiredKeeps == ASSUME PoolIInv, CleanupExpired PROVE PoolIInv'
  <1> DEFINE gone == {c \in Pooled : isExpired(c)}
  <1>1. /\ PoolTypeOK /\ CountersOK /\ ClosedOK
        /\ entry \in [Conns -> EntryRec] /\ up \in [Conns -> BOOLEAN] /\ stats \in StatsRec
    BY PoolKnows
  <1>2. /\ entry' = [c \in Conns |-> IF c \in gone THEN Removed(c) ELSE entry[c]]
        /\ up' = [c \in Conns |-> up[c] /\ c \notin gone]
        /\ stats' = [stats EXCEPT !.total = @ - Cardinality(gone),
                                  !.idle = @ - Cardinality(gone)]
        /\ UNCHANGED <<mu, client, poolClose>>
    BY DEF CleanupExpired
  <1>3. gone \subseteq Idle /\ gone \subseteq Pooled
    BY DEF isExpired, Idle, Pooled
  <1> HIDE DEF gone
  <1>4. /\ entry' \in [Conns -> EntryRec]
        /\ \A c \in gone : entry'[c].state = "none"
        /\ \A c \in Conns \ gone : entry'[c] = entry[c]
    BY <1>1, <1>2, <1>3, SetsOfConns, RemovedIsNone
  <1>5. /\ up' \in [Conns -> BOOLEAN]
        /\ \A c \in Conns : up'[c] => up[c] /\ c \notin gone
    BY <1>1, <1>2
  <1>6. Pooled' = Pooled \ gone /\ Idle' = Idle \ gone /\ InUse' = InUse
    BY <1>3, <1>4 DEF Pooled, Idle, InUse
  <1>7. /\ Cardinality(Pooled') = Cardinality(Pooled) - Cardinality(gone)
        /\ Cardinality(Idle') = Cardinality(Idle) - Cardinality(gone)
        /\ Cardinality(Pooled') \in Nat /\ Cardinality(Idle') \in Nat
        /\ Cardinality(gone) \in Nat
    <2>1. IsFiniteSet(Pooled) /\ IsFiniteSet(Idle)
      BY SetsOfConns, ConnsAreFinite
    <2>2. Pooled \intersect gone = gone /\ Idle \intersect gone = gone
      BY <1>3
    <2>3. IsFiniteSet(gone)
      BY <1>3, <2>1, FS_Subset
    <2>4. IsFiniteSet(Pooled \ gone) /\ IsFiniteSet(Idle \ gone)
      BY <2>1, FS_Difference
    <2>5. Cardinality(Pooled \ gone) = Cardinality(Pooled) - Cardinality(gone)
      <3>1. Cardinality(Pooled \ gone) = Cardinality(Pooled) - Cardinality(Pooled \intersect gone)
        BY <2>1, FS_Difference
      <3> QED
        BY <2>2, <3>1
    <2>6. Cardinality(Idle \ gone) = Cardinality(Idle) - Cardinality(gone)
      <3>1. Cardinality(Idle \ gone) = Cardinality(Idle) - Cardinality(Idle \intersect gone)
        BY <2>1, FS_Difference
      <3> QED
        BY <2>2, <3>1
    <2> QED
      BY <1>6, <2>3, <2>4, <2>5, <2>6, FS_CardinalityType
  <1>8. /\ stats'.total = Cardinality(Pooled') /\ stats'.idle = Cardinality(Idle')
        /\ stats'.active = stats.active /\ stats'.created = stats.created
        /\ stats' \in StatsRec
    <2>1. stats.total = Cardinality(Pooled) /\ stats.idle = Cardinality(Idle)
      BY <1>1 DEF CountersOK
    <2>2. /\ stats.total - Cardinality(gone) \in Nat
          /\ stats.idle - Cardinality(gone) \in Nat
      BY <1>7, <2>1
    <2> QED
      BY <1>1, <1>2, <1>7, <2>1, <2>2 DEF StatsRec
  <1>9. CountersOK'
    <2>1. /\ stats'.total <= stats.total /\ stats.total \in Nat /\ stats'.total \in Nat
          /\ MaxPoolSize \in Nat
      BY <1>1, <1>7, <1>8, PoolAssumption DEF CountersOK, StatsRec
    <2>2. MaxPoolSize > 0 => /\ stats'.total <= MaxPoolSize
                             /\ mu' # NoOne => stats'.total < MaxPoolSize
      BY <1>1, <1>2, <2>1 DEF CountersOK
    <2> QED
      BY <1>1, <1>6, <1>8, <2>2 DEF CountersOK
  <1>10. PoolTypeOK'
    BY <1>1, <1>2, <1>4, <1>5, <1>8, PoolTypes, PoolTypesNext
  <1>11. Dialled' = Dialled
    BY <1>8 DEF Dialled
  <1>12. \A k \in Clients : HolderOK(k)'
    BY <1>2, <1>4, <1>11, HoldersKeep
  <1>13. \A c \in Conns : EntryOK(c)'
    BY <1>4, <1>5, <1>11 DEF PoolIInv, EntryOK
  <1>14. ClosedOK'
    <2>1. \A k \in Clients : client[k].pc = "put" => client[k].conn \in Conns
      BY ClientKnows DEF HolderOK
    <2> QED
      BY <1>1, <1>2, <1>5, <2>1 DEF ClosedOK, Held
  <1> QED
    BY <1>9, <1>10, <1>12, <1>13, <1>14 DEF PoolIInv

(* Close sets its flag. *)
LEMMA PoolCloseFlagKeeps == ASSUME PoolIInv, PoolCloseFlag PROVE PoolIInv'
  <1>1. /\ UNCHANGED <<entry, up, stats, mu, client>> /\ poolClose' = "draining"
    BY DEF PoolCloseFlag
  <1>2. PoolTypeOK' /\ CountersOK'
    BY <1>1, PoolKnows, PoolTypesNext, CountersStay
  <1>3. \A k \in Clients : HolderOK(k)'
    BY <1>1, HoldersKeep DEF Dialled
  <1>4. \A c \in Conns : EntryOK(c)'
    BY <1>1 DEF PoolIInv, EntryOK, Dialled
  <1>5. ClosedOK'
    BY <1>1 DEF ClosedOK
  <1> QED
    BY <1>2, <1>3, <1>4, <1>5 DEF PoolIInv

(* Close empties the pool, also of what is in use. *)
LEMMA PoolCloseDrainKeeps == ASSUME PoolIInv, PoolCloseDrain PROVE PoolIInv'
  <1>1. /\ PoolTypeOK /\ CountersOK
        /\ entry \in [Conns -> EntryRec] /\ up \in [Conns -> BOOLEAN] /\ stats \in StatsRec
    BY PoolKnows
  <1>2. /\ mu = NoOne /\ poolClose' = "drained"
        /\ up' = [c \in Conns |-> up[c] /\ c \notin Pooled]
        /\ entry' = [c \in Conns |-> IF c \in Pooled THEN Removed(c) ELSE entry[c]]
        /\ stats' = [stats EXCEPT !.total = 0, !.active = 0, !.idle = 0]
        /\ UNCHANGED <<mu, client>>
    BY DEF PoolCloseDrain
  <1>3. /\ entry' \in [Conns -> EntryRec]
        /\ \A c \in Conns : entry'[c].state = "none"
    BY <1>1, <1>2, RemovedIsNone DEF Pooled
  <1>4. /\ up' \in [Conns -> BOOLEAN] /\ \A c \in Conns : ~up'[c]
    BY <1>1, <1>2 DEF PoolIInv, EntryOK, Pooled
  <1>5. Pooled' = {} /\ InUse' = {} /\ Idle' = {}
    BY <1>3 DEF Pooled, InUse, Idle
  <1>6. /\ stats' \in StatsRec /\ stats'.created = stats.created
        /\ stats'.total = 0 /\ stats'.active = 0 /\ stats'.idle = 0
    BY <1>1, <1>2 DEF StatsRec
  <1>7. CountersOK'
    BY <1>2, <1>5, <1>6, FS_EmptySet, PoolAssumption DEF CountersOK
  <1>8. PoolTypeOK'
    BY <1>1, <1>2, <1>3, <1>4, <1>6, PoolTypes, PoolTypesNext
  <1>9. \A k \in Clients : HolderOK(k)'
    BY <1>2, <1>3, <1>6, HoldersKeep DEF Dialled
  <1>10. \A c \in Conns : EntryOK(c)'
    BY <1>3, <1>4 DEF EntryOK
  <1>11. ClosedOK'
    <2>1. \A k \in Clients : client[k].pc = "put" => client[k].conn \in Conns
      BY ClientKnows DEF HolderOK
    <2> QED
      BY <1>2, <1>4, <2>1 DEF ClosedOK
  <1> QED
    BY <1>7, <1>8, <1>9, <1>10, <1>11 DEF PoolIInv

(* Connections grow older. *)
LEMMA TickKeeps == ASSUME PoolIInv, Tick PROVE PoolIInv'
  <1>1. /\ PoolTypeOK /\ CountersOK /\ entry \in [Conns -> EntryRec]
        /\ UNCHANGED <<up, stats, mu, client, poolClose>>
        /\ entry' = [c \in Conns |->
                       IF c \in Pooled THEN [entry[c] EXCEPT !.age = older(@)] ELSE entry[c]]
    BY PoolKnows DEF Tick
  <1>2. \A n \in 0..MaxIdle + 1 : older(n) \in 0..MaxIdle + 1
    BY PoolAssumption DEF older
  <1>3. /\ entry' \in [Conns -> EntryRec]
        /\ \A c \in Conns : /\ entry'[c].state = entry[c].state
                            /\ entry'[c].key = entry[c].key
    <2>1. ASSUME NEW c \in Conns
          PROVE  /\ [entry[c] EXCEPT !.age = older(@)] \in EntryRec
                 /\ [entry[c] EXCEPT !.age = older(@)].state = entry[c].state
                 /\ [entry[c] EXCEPT !.age = older(@)].key = entry[c].key
      <3>1. entry[c] \in EntryRec
        BY <1>1
      <3>2. older(entry[c].age) \in 0..MaxIdle + 1
        BY <1>2, <3>1 DEF EntryRec
      <3> QED
        BY <3>1, <3>2 DEF EntryRec
    <2> QED
      BY <1>1, <2>1
  <1>4. PoolTypeOK' /\ CountersOK'
    BY <1>1, <1>3, PoolTypes, PoolTypesNext, CountersStay
  <1>5. \A k \in Clients : HolderOK(k)'
    BY <1>1, <1>3, HoldersKeep DEF Dialled
  <1>6. \A c \in Conns : EntryOK(c)'
    BY <1>1, <1>3 DEF PoolIInv, EntryOK, Dialled
  <1>7. ClosedOK'
    BY <1>1, PoolKnows DEF ClosedOK, Held
  <1> QED
    BY <1>4, <1>5, <1>6, <1>7 DEF PoolIInv

(* A connection ends. *)
LEMMA PeerClosesKeeps ==
  ASSUME PoolIInv, NEW c \in Conns, PeerCloses(c) PROVE PoolIInv'
  <1>1. /\ PoolTypeOK /\ CountersOK /\ ClosedOK /\ up \in [Conns -> BOOLEAN]
        /\ UNCHANGED <<entry, stats, mu, client, poolClose>>
        /\ up' = [up EXCEPT ![c] = FALSE]
    BY PoolKnows DEF PeerCloses
  <1>2. up' \in [Conns -> BOOLEAN] /\ \A d \in Conns : up'[d] => up[d]
    BY <1>1
  <1>3. PoolTypeOK' /\ CountersOK'
    BY <1>1, <1>2, PoolTypes, PoolTypesNext, CountersStay
  <1>4. \A k \in Clients : HolderOK(k)'
    BY <1>1, HoldersKeep DEF Dialled
  <1>5. \A d \in Conns : EntryOK(d)'
    BY <1>1, <1>2 DEF PoolIInv, EntryOK, Dialled
  <1>6. ClosedOK'
    <2>1. \A k \in Clients : client[k].pc = "put" => client[k].conn \in Conns
      BY ClientKnows DEF HolderOK
    <2> QED
      BY <1>1, <1>2, <2>1 DEF ClosedOK, Held
  <1> QED
    BY <1>3, <1>4, <1>5, <1>6 DEF PoolIInv

-------------------------------------------------------------------------------
(* The invariant, and what follows from it. *)

(* The invariant holds of a new pool. *)
LEMMA PoolInvariantInit == PoolInit => PoolIInv
  <1> SUFFICES ASSUME PoolInit PROVE PoolIInv
    OBVIOUS
  <1>1. entry \in [Conns -> EntryRec] /\ \A c \in Conns : entry[c].state = "none"
    <2>1. [state |-> "none", key |-> "", age |-> 0] \in EntryRec
      BY PoolAssumption DEF EntryRec
    <2> QED
      BY <2>1 DEF PoolInit
  <1>2. client \in [Clients -> ClientRec]
    BY DEF PoolInit, ClientRec, PoolPCs
  <1>3. stats \in StatsRec
    <2>1. 0 \in 0..MaxConns
      BY PoolAssumption
    <2> QED
      BY <2>1 DEF PoolInit, StatsRec
  <1>4. PoolTypeOK
    BY <1>1, <1>2, <1>3, PoolTypes DEF PoolInit
  <1>5. \A k \in Clients : HolderOK(k)
    BY ConnsAreNumbers DEF PoolInit, HolderOK
  <1>6. \A c \in Conns : EntryOK(c)
    BY <1>1 DEF PoolInit, EntryOK
  <1>7. Pooled = {} /\ InUse = {} /\ Idle = {}
    BY <1>1 DEF Pooled, InUse, Idle
  <1>8. CountersOK
    <2>1. /\ stats.total = 0 /\ stats.active = 0 /\ stats.idle = 0 /\ mu = NoOne
          /\ MaxPoolSize \in Nat
      BY PoolAssumption DEF PoolInit
    <2>2. Cardinality(Pooled) = 0 /\ Cardinality(InUse) = 0 /\ Cardinality(Idle) = 0
      BY <1>7, FS_EmptySet
    <2> QED
      BY <2>1, <2>2 DEF CountersOK
  <1>9. ClosedOK
    BY DEF PoolInit, ClosedOK
  <1> QED
    BY <1>4, <1>5, <1>6, <1>8, <1>9 DEF PoolIInv

(* Every step keeps the invariant. *)
LEMMA PoolInvariantNext == PoolIInv /\ [PoolNext]_poolVars => PoolIInv'
  <1> SUFFICES ASSUME PoolIInv, [PoolNext]_poolVars PROVE PoolIInv'
    OBVIOUS
  <1>1. ASSUME NEW k \in Clients, NEW addr \in Addrs, GetStarts(k, addr) PROVE PoolIInv'
    BY <1>1, GetStartsKeeps
  <1>2. ASSUME NEW k \in Clients, GetOrPut(k) \/ PutStarts(k) PROVE PoolIInv'
    BY <1>2, GetHitKeeps, GetMissKeeps, PutLockedKeeps, PutStartsKeeps DEF GetOrPut
  <1>3. ASSUME NEW k \in Clients, Dial(k) PROVE PoolIInv'
    BY <1>3, DialSucceedsKeeps, DialFailsKeeps DEF Dial
  <1>4. CASE CleanupExpired \/ PoolCloseFlag \/ PoolCloseDrain \/ Tick
    BY <1>4, CleanupExpiredKeeps, PoolCloseFlagKeeps, PoolCloseDrainKeeps, TickKeeps
  <1>5. ASSUME NEW c \in Conns, PeerCloses(c) PROVE PoolIInv'
    BY <1>5, PeerClosesKeeps
  <1>6. CASE UNCHANGED poolVars
    <2>1. UNCHANGED <<entry, up, stats, mu, client, poolClose>>
      BY <1>6 DEF poolVars
    <2>2. PoolTypeOK' /\ CountersOK'
      BY <2>1, PoolKnows, PoolTypesNext, CountersStay
    <2>3. \A k \in Clients : HolderOK(k)'
      BY <2>1, HoldersKeep DEF Dialled
    <2>4. (\A c \in Conns : EntryOK(c)') /\ ClosedOK'
      BY <2>1 DEF PoolIInv, EntryOK, Dialled, ClosedOK, Held
    <2> QED
      BY <2>2, <2>3, <2>4 DEF PoolIInv
  <1> QED
    BY <1>1, <1>2, <1>3, <1>4, <1>5, <1>6 DEF PoolNext

(* PoolIInv is an invariant of the pool. *)
LEMMA PoolInvariant == PoolSpec => []PoolIInv
  BY PoolInvariantInit, PoolInvariantNext, PTL DEF PoolSpec

-------------------------------------------------------------------------------
(* The pool keeps its promise. *)

(* Who has which connection, as PoolPromise sees it. *)
Lent == [c \in Conns |-> {k \in Clients : client[k].conn = c}]

(* A goroutine that had none takes a connection nobody had. *)
LEMMA TakesConn ==
  ASSUME NEW k \in Clients, NEW pc, NEW addr, NEW c \in Conns, Goes(k, pc, addr, c),
         client[k].conn = NoConn, \A j \in Clients : client[j].conn # c
  PROVE  /\ Lent[c] = {} /\ \A d \in Conns : k \notin Lent[d]
         /\ Lent' = [Lent EXCEPT ![c] = {k}]
  <1>1. \A d \in Conns : k \notin Lent[d]
    BY ConnsAreNumbers DEF Lent
  <1>2. Lent[c] = {}
    BY DEF Lent
  <1>3. \A d \in Conns : Lent'[d] = IF d = c THEN {k} ELSE Lent[d]
    BY <1>1, <1>2 DEF Lent, Goes
  <1>4. Lent' = [d \in Conns |-> Lent'[d]]
    BY DEF Lent
  <1>5. [Lent EXCEPT ![c] = {k}] = [d \in Conns |-> IF d = c THEN {k} ELSE Lent[d]]
    BY DEF Lent
  <1> QED
    BY <1>1, <1>2, <1>3, <1>4, <1>5

(* The one that has a connection gives it back. *)
LEMMA ReturnsConn ==
  ASSUME NEW k \in Clients, NEW pc, NEW addr, Goes(k, pc, addr, NoConn),
         client[k].conn \in Conns, \A j \in Clients \ {k} : client[j].conn # client[k].conn
  PROVE  /\ Lent[client[k].conn] = {k}
         /\ Lent' = [Lent EXCEPT ![client[k].conn] = {}]
  <1> DEFINE c == client[k].conn
  <1>1. c \in Conns /\ \A j \in Clients : client[j].conn = c <=> j = k
    OBVIOUS
  <1>2. \A j \in Clients : client'[j].conn = IF j = k THEN NoConn ELSE client[j].conn
    BY DEF Goes
  <1> HIDE DEF c
  <1>3. Lent[c] = {k}
    BY <1>1 DEF Lent
  <1>4. \A d \in Conns : Lent'[d] = IF d = c THEN {} ELSE Lent[d]
    <2>1. ASSUME NEW d \in Conns PROVE Lent'[d] = IF d = c THEN {} ELSE Lent[d]
      <3>1. \A j \in Clients : client'[j].conn = d <=> (client[j].conn = d /\ d # c)
        BY <1>1, <1>2, ConnsAreNumbers DEF c
      <3>2. Lent'[d] = {j \in Clients : client'[j].conn = d}
        BY DEF Lent
      <3>3. Lent[d] = {j \in Clients : client[j].conn = d}
        BY DEF Lent
      <3> QED
        BY <3>1, <3>2, <3>3
    <2> QED
      BY <2>1
  <1>5. Lent' = [d \in Conns |-> Lent'[d]]
    BY DEF Lent
  <1>6. [Lent EXCEPT ![c] = {}] = [d \in Conns |-> IF d = c THEN {} ELSE Lent[d]]
    BY DEF Lent
  <1> QED
    BY <1>3, <1>4, <1>5, <1>6 DEF c

(* What is lent or given back is a step of the promise. *)
LEMMA LentOrGivenBack ==
  ASSUME NEW k \in Clients, NEW c \in Conns, PP!Lend(k, c) \/ PP!GiveBack(k, c)
  PROVE  PP!PromiseNext
  BY DEF PP!PromiseNext

(* A hit lends what was on the shelf. *)
LEMMA HitLends == ASSUME PoolIInv, NEW k \in Clients, GetHit(k) PROVE PP!PromiseNext
  <1>1. PICK c \in Conns : c \in Available(client[k].addr)
                           /\ c = Min(Available(client[k].addr))
    BY MinIsLeast, ConnsAreNumbers DEF GetHit, Available, Pooled
  <1>2. /\ entry' = [entry EXCEPT ![c] = [@ EXCEPT !.state = "inuse", !.age = 0]]
        /\ stats' = [stats EXCEPT !.idle = @ - 1, !.active = @ + 1]
        /\ client' = Moves(k, "holding", client[k].addr, c)
        /\ client[k].pc = "get"
    BY <1>1 DEF GetHit, At
  <1>3. /\ c \in Conns /\ entry[c].state = "idle" /\ c <= Dialled /\ c >= 1
        /\ entry \in [Conns -> EntryRec] /\ stats \in StatsRec
        /\ client \in [Clients -> ClientRec] /\ Dialled \in Nat
    <2>1. c \in Conns /\ entry[c].state = "idle"
      BY <1>1 DEF Available, Pooled
    <2>2. Dialled \in Nat
      BY ClientKnows
    <2>3. c <= Dialled
      BY <2>1 DEF PoolIInv, EntryOK
    <2>4. c >= 1
      BY <2>1, PoolAssumption DEF Conns
    <2> QED
      BY <2>1, <2>2, <2>3, <2>4, PoolKnows
  <1>4. client[k].conn = NoConn /\ \A j \in Clients : client[j].conn # c
    BY <1>2, <1>3, ConnsAreNumbers DEF PoolIInv, HolderOK
  <1>5. Goes(k, "holding", client[k].addr, c)
    BY <1>2, <1>3, ClientKnows, ClientMoves DEF PoolPCs
  <1>6. Idle' = Idle \ {c} /\ c \in Idle
    BY <1>2, <1>3 DEF Idle, EntryRec
  <1>7. Dialled' = Dialled
    BY <1>2, <1>3 DEF Dialled, StatsRec
  <1>8. c \in 1..Dialled
    <2>1. c \in Nat
      BY <1>3, ConnsAreNumbers
    <2> QED
      BY <1>3, <2>1
  <1>9. 1..Dialled' = (1..Dialled) \union {c}
    BY <1>7, <1>8
  <1>10. /\ Lent[c] = {} /\ \A d \in Conns : k \notin Lent[d]
         /\ Lent' = [Lent EXCEPT ![c] = {k}]
    BY <1>3, <1>4, <1>5, TakesConn
  <1>11. PP!Lend(k, c)
    BY <1>3, <1>6, <1>9, <1>10 DEF PP!Lend, Lent
  <1> QED
    BY <1>3, <1>11, LentOrGivenBack

(* A dial lends what is new. *)
LEMMA DialLends ==
  ASSUME PoolIInv, NEW k \in Clients, At(k, "dialing"), DialSucceeds(k)
  PROVE  PP!PromiseNext
  <1>0. PICK c \in Conns : c = Dialled + 1
    BY DEF DialSucceeds
  <1>1. /\ entry' = [entry EXCEPT ![c] = [state |-> "inuse", key |-> client[k].addr,
                                          age |-> 0]]
        /\ stats' = [stats EXCEPT !.total = @ + 1, !.active = @ + 1, !.created = @ + 1]
        /\ client' = Moves(k, "holding", client[k].addr, c)
        /\ client[k].pc = "dialing" /\ c \in Conns
    BY <1>0 DEF DialSucceeds, At
  <1>2. /\ entry \in [Conns -> EntryRec] /\ stats \in StatsRec
        /\ client \in [Clients -> ClientRec]
        /\ Dialled \in Nat /\ stats.created = Dialled
    BY ClientKnows DEF Dialled
  <1>3. c \in Nat /\ c > Dialled /\ c = Dialled + 1
    BY <1>0, <1>2
  <1>4. Dialled' = c
    BY <1>0, <1>1, <1>2 DEF Dialled, StatsRec
  <1>5. entry[c].state = "none"
    BY <1>1, <1>2, <1>3 DEF PoolIInv, EntryOK
  <1>6. client[k].conn = NoConn
    BY <1>1 DEF PoolIInv, HolderOK
  <1>7. \A j \in Clients : client[j].conn # c
    <2>1. TAKE j \in Clients
    <2>2. client[j].conn # NoConn => client[j].conn <= Dialled
      BY DEF PoolIInv, HolderOK
    <2> QED
      BY <1>1, <1>2, <1>3, <2>2, ConnsAreNumbers
  <1>8. Goes(k, "holding", client[k].addr, c)
    BY <1>1, <1>2, ClientKnows, ClientMoves DEF PoolPCs
  <1>9. Idle' = Idle \ {c}
    BY <1>1, <1>2, <1>5 DEF Idle
  <1>10. c \notin 1..Dialled /\ 1..Dialled' = (1..Dialled) \union {c}
    BY <1>2, <1>3, <1>4
  <1>11. /\ Lent[c] = {} /\ \A d \in Conns : k \notin Lent[d]
         /\ Lent' = [Lent EXCEPT ![c] = {k}]
    BY <1>1, <1>6, <1>7, <1>8, TakesConn
  <1>12. PP!Lend(k, c)
    BY <1>1, <1>9, <1>10, <1>11 DEF PP!Lend, Lent
  <1> QED
    BY <1>1, <1>12, LentOrGivenBack

(* A Put that ends gives back. *)
LEMMA PutGivesBack ==
  ASSUME PoolIInv, NEW k \in Clients, PutStarts(k) \/ PutLocked(k),
         client' = Moves(k, "out", "", NoConn)
  PROVE  PP!PromiseNext
  <1>0. PICK c \in Conns : c = client[k].conn
    BY ClientKnows DEF PutStarts, PutLocked, At, HolderOK
  <1>1. /\ HolderOK(k) /\ client \in [Clients -> ClientRec]
        /\ entry \in [Conns -> EntryRec] /\ stats \in StatsRec
        /\ client[k].pc \in {"holding", "put"} /\ c \in Conns
        /\ \A j \in Clients \ {k} : client[j].conn # c
    BY <1>0, ClientKnows DEF PutStarts, PutLocked, At, HolderOK
  <1>2. Goes(k, "out", "", NoConn)
    BY <1>1, ClientMoves DEF PoolPCs
  <1>3. /\ Lent[c] = {k} /\ Lent' = [Lent EXCEPT ![c] = {}]
    BY <1>0, <1>1, <1>2, ReturnsConn
  <1>4. \/ UNCHANGED <<entry, stats>>
        \/ /\ entry' = [entry EXCEPT ![c].state = "idle"]
           /\ stats' = [stats EXCEPT !.active = @ - 1, !.idle = @ + 1]
    BY <1>0 DEF PutStarts, PutLocked, putIdle
  <1>5. Idle' \in {Idle, Idle \union {c}}
    <2>1. CASE UNCHANGED <<entry, stats>>
      BY <2>1 DEF Idle
    <2>2. CASE entry' = [entry EXCEPT ![c].state = "idle"]
      BY <1>1, <2>2 DEF Idle, EntryRec
    <2> QED
      BY <1>4, <2>1, <2>2
  <1>6. Dialled' = Dialled
    BY <1>1, <1>4 DEF Dialled, StatsRec
  <1>7. PP!GiveBack(k, c)
    BY <1>3, <1>5, <1>6 DEF PP!GiveBack, Lent
  <1> QED
    BY <1>1, <1>7, LentOrGivenBack

(* What is taken from the shelf is discarded. *)
LEMMA Discards ==
  ASSUME NEW S \in SUBSET Idle, Idle' = Idle \ S, client' = client, Dialled' = Dialled
  PROVE  PP!PromiseNext
  <1>1. PP!Discard(S)
    BY DEF PP!Discard
  <1> QED
    BY <1>1 DEF PP!PromiseNext

(* The cleanup discards from the shelf. *)
LEMMA CleanupDiscards == ASSUME PoolIInv, CleanupExpired PROVE PP!PromiseNext
  <1> DEFINE gone == {c \in Pooled : isExpired(c)}
  <1>1. /\ entry' = [c \in Conns |-> IF c \in gone THEN Removed(c) ELSE entry[c]]
        /\ stats' = [stats EXCEPT !.total = @ - Cardinality(gone),
                                  !.idle = @ - Cardinality(gone)]
        /\ client' = client
    BY DEF CleanupExpired
  <1>2. gone \in SUBSET Idle
    BY DEF isExpired, Idle, Pooled
  <1> HIDE DEF gone
  <1>3. Idle' = Idle \ gone
    BY <1>1, PoolKnows, RemovedIsNone DEF Idle
  <1>4. Dialled' = Dialled
    BY <1>1, PoolKnows DEF Dialled, StatsRec
  <1> QED
    BY <1>1, <1>2, <1>3, <1>4, Discards

(* Close discards the whole shelf. *)
LEMMA CloseDiscards == ASSUME PoolIInv, PoolCloseDrain PROVE PP!PromiseNext
  <1>1. /\ entry' = [c \in Conns |-> IF c \in Pooled THEN Removed(c) ELSE entry[c]]
        /\ stats' = [stats EXCEPT !.total = 0, !.active = 0, !.idle = 0]
        /\ client' = client
    BY DEF PoolCloseDrain
  <1>2. Idle' = Idle \ Idle /\ Idle \in SUBSET Idle
    BY <1>1, PoolKnows, RemovedIsNone DEF Idle, Pooled
  <1>3. Dialled' = Dialled
    BY <1>1, PoolKnows DEF Dialled, StatsRec
  <1> QED
    BY <1>1, <1>2, <1>3, Discards

(* Everything else is no step of the promise. *)
LEMMA PromiseStays ==
  ASSUME \A c \in Conns : entry'[c].state = entry[c].state,
         \A j \in Clients : client'[j].conn = client[j].conn,
         stats' = stats
  PROVE  UNCHANGED PP!promiseVars
  BY DEF PP!promiseVars, Idle, Dialled

(* Ages are no part of the promise. *)
LEMMA TickIsNoStep == ASSUME PoolIInv, Tick PROVE UNCHANGED PP!promiseVars
  <1>1. /\ entry' = [c \in Conns |->
                       IF c \in Pooled THEN [entry[c] EXCEPT !.age = older(@)] ELSE entry[c]]
        /\ UNCHANGED <<stats, client>>
    BY DEF Tick
  <1>2. \A c \in Conns : entry'[c].state = entry[c].state
    BY <1>1, PoolKnows DEF EntryRec
  <1> QED
    BY <1>1, <1>2, PromiseStays

(* A Get that begins, misses or does not connect had no connection. *)
LEMMA EmptyHandedIsNoStep ==
  ASSUME PoolIInv, NEW k \in Clients,
         \/ \E addr \in Addrs : GetStarts(k, addr)
         \/ GetMiss(k) \/ (At(k, "dialing") /\ DialFails(k))
  PROVE  UNCHANGED PP!promiseVars
  <1>1. /\ client \in [Clients -> ClientRec] /\ client[k].conn = NoConn
        /\ client[k].addr \in Addrs \union {""}
    BY ClientKnows DEF HolderOK, GetStarts, GetMiss, At
  <1>2. PICK pc \in PoolPCs, addr \in Addrs \union {""} : client' = Moves(k, pc, addr, NoConn)
    BY <1>1 DEF GetStarts, GetMiss, DialFails, PoolPCs
  <1>3. Goes(k, pc, addr, NoConn)
    BY <1>1, <1>2, ClientMoves
  <1>4. \A j \in Clients : client'[j].conn = client[j].conn
    BY <1>1, <1>3 DEF Goes
  <1> QED
    BY <1>4, PromiseStays DEF GetStarts, GetMiss, DialFails

(* A Put that waits for mu keeps its connection until it has mu. *)
LEMMA PutWaitsIsNoStep ==
  ASSUME PoolIInv, NEW k \in Clients, PutStarts(k), ~closedFlag
  PROVE  UNCHANGED PP!promiseVars
  <1>1. /\ client' = Moves(k, "put", client[k].addr, client[k].conn)
        /\ UNCHANGED <<entry, stats>>
    BY DEF PutStarts
  <1>2. Goes(k, "put", client[k].addr, client[k].conn)
    BY <1>1, ClientKnows, ClientMoves DEF PoolPCs
  <1>3. \A j \in Clients : client'[j].conn = client[j].conn
    BY <1>2 DEF Goes
  <1> QED
    BY <1>1, <1>3, PromiseStays

(* Each step of the pool is a step of its promise, or no step of it. *)
LEMMA PoolStepKeepsPromise ==
  PoolIInv /\ [PoolNext]_poolVars => [PP!PromiseNext]_(PP!promiseVars)
  <1> SUFFICES ASSUME PoolIInv, [PoolNext]_poolVars
               PROVE  PP!PromiseNext \/ UNCHANGED PP!promiseVars
    OBVIOUS
  <1>1. ASSUME NEW k \in Clients, NEW addr \in Addrs, GetStarts(k, addr)
        PROVE  UNCHANGED PP!promiseVars
    BY <1>1, EmptyHandedIsNoStep
  <1>2. ASSUME NEW k \in Clients, GetOrPut(k)
        PROVE  PP!PromiseNext \/ UNCHANGED PP!promiseVars
    <2>1. PutLocked(k) => client' = Moves(k, "out", "", NoConn)
      BY DEF PutLocked
    <2> QED
      BY <1>2, <2>1, HitLends, EmptyHandedIsNoStep, PutGivesBack DEF GetOrPut
  <1>3. ASSUME NEW k \in Clients, Dial(k)
        PROVE  PP!PromiseNext \/ UNCHANGED PP!promiseVars
    BY <1>3, DialLends, EmptyHandedIsNoStep DEF Dial
  <1>4. ASSUME NEW k \in Clients, PutStarts(k)
        PROVE  PP!PromiseNext \/ UNCHANGED PP!promiseVars
    <2>1. closedFlag => client' = Moves(k, "out", "", NoConn)
      BY <1>4 DEF PutStarts
    <2> QED
      BY <1>4, <2>1, PutGivesBack, PutWaitsIsNoStep
  <1>5. CASE CleanupExpired \/ PoolCloseDrain \/ Tick
    BY <1>5, CleanupDiscards, CloseDiscards, TickIsNoStep
  <1>6. ASSUME UNCHANGED <<entry, stats, client>> PROVE UNCHANGED PP!promiseVars
    BY <1>6, PromiseStays
  <1>7. CASE \/ PoolCloseFlag \/ UNCHANGED poolVars
             \/ \E c \in Conns : PeerCloses(c)
    BY <1>6, <1>7 DEF PoolCloseFlag, PeerCloses, poolVars
  <1> QED
    BY <1>1, <1>2, <1>3, <1>4, <1>5, <1>7 DEF PoolNext

-------------------------------------------------------------------------------
(* The client transport. *)

(* A step of one goroutine leaves the places of the others alone. *)
LEMMA OneMoves ==
  ASSUME PoolIInv, NEW k \in Clients,
         \/ \E addr \in Addrs : GetStarts(k, addr)
         \/ GetOrPut(k) \/ Dial(k) \/ PutStarts(k)
  PROVE  \A j \in Clients \ {k} : client'[j] = client[j]
  <1>1. PICK pc, addr, c : client' = Moves(k, pc, addr, c)
    <2>1. CASE \E addr \in Addrs : GetStarts(k, addr)
      BY <2>1 DEF GetStarts
    <2>2. CASE GetOrPut(k)
      BY <2>2 DEF GetOrPut, GetHit, GetMiss, PutLocked
    <2>3. CASE Dial(k)
      BY <2>3 DEF Dial, DialSucceeds, DialFails
    <2>4. CASE PutStarts(k)
      BY <2>4 DEF PutStarts
    <2> QED
      BY <2>1, <2>2, <2>3, <2>4
  <1>2. client \in [Clients -> ClientRec]
    BY PoolKnows
  <1> QED
    BY <1>1, <1>2 DEF Moves

(* Closing a control connection is, for the pool, the end of a connection; *)
(* every other step of the transport is one of the pool, or none.          *)
LEMMA ClientStepIsPoolStep ==
  ClientIInv /\ [ClientNext]_clientVars => [PoolNext]_poolVars
  <1> SUFFICES ASSUME ClientIInv, [ClientNext]_clientVars PROVE [PoolNext]_poolVars
    OBVIOUS
  <1>1. ASSUME NEW k \in Clients, Connect(k) \/ ConnectFails(k) \/ OnClosePuts(k)
        PROVE  PoolNext
    BY <1>1 DEF Connect, ConnectFails, OnClosePuts, PoolNext
  <1>2. ASSUME NEW k \in Clients, ConnectSucceeds(k) PROVE UNCHANGED poolVars
    BY <1>2 DEF ConnectSucceeds
  <1>3. ASSUME NEW k \in Clients, ControlCloses(k) PROVE [PoolNext]_poolVars
    <2>1. /\ up' = [up EXCEPT ![client[k].conn] = FALSE]
          /\ UNCHANGED <<entry, stats, mu, client, poolClose>>
          /\ client[k].pc = "holding"
      BY <1>3 DEF ControlCloses, ClientIInv, SessOK
    <2>2. PICK c \in Conns : c = client[k].conn
      BY <2>1, ClientKnows DEF ClientIInv, HolderOK
    <2>3. CASE up[c]
      BY <2>1, <2>2, <2>3 DEF PoolNext, PeerCloses
    <2>4. CASE ~up[c]
      <3>1. up' = up
        BY <2>1, <2>2, <2>4, PoolKnows DEF ClientIInv
      <3> QED
        BY <2>1, <3>1 DEF poolVars
    <2> QED
      BY <2>3, <2>4
  <1>4. CASE PoolStep
    BY <1>4 DEF PoolStep, PoolNext
  <1>5. CASE UNCHANGED clientVars
    BY <1>5 DEF clientVars
  <1> QED
    BY <1>1, <1>2, <1>3, <1>4, <1>5 DEF ClientNext

(* Every step of the transport keeps its invariant. *)
LEMMA ClientInvariantNext == ClientIInv /\ [ClientNext]_clientVars => ClientIInv'
  <1> SUFFICES ASSUME ClientIInv, [ClientNext]_clientVars PROVE ClientIInv'
    OBVIOUS
  <1>1. /\ PoolIInv /\ sess \in [Clients -> {"none", "open", "closing"}]
        /\ closedHere \subseteq Conns
        /\ \A k \in Clients : sess[k] # "none" => client[k].pc = "holding"
    BY DEF ClientIInv, ClientTypeOK, SessOK
  <1>2. PoolIInv' /\ PoolTypeOK'
    BY <1>1, ClientStepIsPoolStep, PoolInvariantNext DEF PoolIInv
  <1> DEFINE TransportOK ==
        /\ sess' \in [Clients -> {"none", "open", "closing"}]
        /\ closedHere' \subseteq Conns
        /\ \A k \in Clients : sess'[k] # "none" => client'[k].pc = "holding"
  <1>3. ASSUME NEW k \in Clients, Connect(k) PROVE TransportOK
    <2>1. /\ \A j \in Clients \ {k} : client'[j] = client[j]
          /\ sess' = sess /\ closedHere' = closedHere /\ sess[k] = "none"
      BY <1>1, <1>3, OneMoves DEF Connect, transportVars
    <2> QED
      BY <1>1, <2>1
  <1>4. ASSUME NEW k \in Clients, ConnectSucceeds(k) PROVE TransportOK
    <2>1. /\ client' = client /\ closedHere' = closedHere /\ client[k].pc = "holding"
          /\ sess' = [sess EXCEPT ![k] = "open"]
      BY <1>4 DEF ConnectSucceeds, poolVars, At
    <2> QED
      BY <1>1, <2>1
  <1>5. ASSUME NEW k \in Clients, ConnectFails(k) PROVE TransportOK
    <2>1. /\ \A j \in Clients \ {k} : client'[j] = client[j]
          /\ sess' = sess /\ closedHere' = closedHere /\ sess[k] = "none"
      BY <1>1, <1>5, OneMoves DEF ConnectFails, transportVars
    <2> QED
      BY <1>1, <2>1
  <1>6. ASSUME NEW k \in Clients, ControlCloses(k) PROVE TransportOK
    <2>1. /\ client' = client /\ closedHere' = closedHere \union {client[k].conn}
          /\ sess' = [sess EXCEPT ![k] = "closing"] /\ client[k].pc = "holding"
      BY <1>1, <1>6 DEF ControlCloses
    <2>2. client[k].conn \in Conns
      BY <1>1, <2>1, ClientKnows DEF HolderOK
    <2> QED
      BY <1>1, <2>1, <2>2
  <1>7. ASSUME NEW k \in Clients, OnClosePuts(k) PROVE TransportOK
    <2>1. /\ \A j \in Clients \ {k} : client'[j] = client[j]
          /\ sess' = [sess EXCEPT ![k] = "none"] /\ closedHere' = closedHere
      BY <1>1, <1>7, OneMoves DEF OnClosePuts
    <2> QED
      BY <1>1, <2>1
  <1>8. ASSUME PoolStep PROVE TransportOK
    <2>1. sess' = sess /\ closedHere' \subseteq closedHere
      BY <1>8 DEF PoolStep
    <2>2. ASSUME NEW k \in Clients, GetOrPut(k) \/ Dial(k)
          PROVE  \A j \in Clients : sess[j] # "none" => client'[j].pc = "holding"
      <3>1. client[k].pc \in {"get", "put", "dialing"}
        BY <2>2 DEF GetOrPut, GetHit, GetMiss, PutLocked, Dial, At
      <3>2. \A j \in Clients \ {k} : client'[j] = client[j]
        BY <1>1, <2>2, OneMoves
      <3> QED
        BY <1>1, <3>1, <3>2
    <2>3. ASSUME client' = client
          PROVE  \A j \in Clients : sess[j] # "none" => client'[j].pc = "holding"
      BY <1>1, <2>3
    <2>4. CASE \/ CleanupExpired \/ PoolCloseFlag \/ PoolCloseDrain \/ Tick
               \/ \E c \in Conns : PeerCloses(c)
      <3>1. client' = client
        BY <2>4 DEF CleanupExpired, PoolCloseFlag, PoolCloseDrain, Tick, PeerCloses
      <3> QED
        BY <1>1, <2>1, <2>3, <3>1
    <2>5. CASE \E k \in Clients : GetOrPut(k) \/ Dial(k)
      BY <1>1, <2>1, <2>2, <2>5
    <2> QED
      BY <1>8, <2>4, <2>5 DEF PoolStep
  <1>9. ASSUME UNCHANGED clientVars PROVE TransportOK
    BY <1>1, <1>9 DEF clientVars, transportVars, poolVars
  <1>10. TransportOK
    BY <1>3, <1>4, <1>5, <1>6, <1>7, <1>8, <1>9 DEF ClientNext
  <1> QED
    BY <1>2, <1>10 DEF ClientIInv, ClientTypeOK, SessOK

(* The inductive invariant of the client transport on its pool. *)
THEOREM ClientInvariant == ClientSpec => []ClientIInv
  <1>1. ClientInit => ClientIInv
    <2>1. ClientInit => PoolIInv
      BY PoolInvariantInit DEF ClientInit
    <2>2. ClientInit => /\ sess \in [Clients -> {"none", "open", "closing"}]
                        /\ closedHere \subseteq Conns /\ SessOK
      BY DEF ClientInit, SessOK
    <2> QED
      BY <2>1, <2>2 DEF ClientIInv, ClientTypeOK, PoolIInv
  <1> QED
    BY <1>1, ClientInvariantNext, PTL DEF ClientSpec

(* Types of the pool and the transport: ClientTypeOK, of client.go and     *)
(* quic_manager.go.                                                        *)
THEOREM ClientTypes == ClientSpec => []ClientTypeOK
  <1>1. ClientIInv => ClientTypeOK
    BY DEF ClientIInv
  <1> QED
    BY <1>1, ClientInvariant, PTL

(* The transport uses the pool by its operations and in no other way: each *)
(* run of clients that connect and close is a run of the pool.             *)
THEOREM ClientUsesPool == ClientSpec => PoolSpec
  <1>1. ClientInit => PoolInit
    BY DEF ClientInit
  <1> QED
    BY <1>1, ClientStepIsPoolStep, ClientInvariant, PTL DEF ClientSpec, PoolSpec

(* The counters that Get trusts agree with the map, and the pool never has *)
(* more than MaxPoolSize connections, whatever Get, Put, the cleanup and   *)
(* Close do at the same time.                                              *)
THEOREM LimitHolds == ClientSpec => []StatsMatchPool
  <1>1. PoolIInv => StatsMatchPool
    BY DEF PoolIInv, CountersOK, StatsMatchPool
  <1> QED
    BY <1>1, ClientUsesPool, PoolInvariant, PTL

(* A connection that a client has, from the answer of Get to the end of    *)
(* Put, is its own: no other client has it and Get cannot find it.         *)
OneHolder ==
    \A k \in Clients : client[k].conn # NoConn =>
        /\ client[k].conn \notin Idle
        /\ \A j \in Clients \ {k} : client[j].conn # client[k].conn

(* No two clients have the same connection, and none that is held is idle. *)
THEOREM HolderIsAlone == ClientSpec => []OneHolder
  <1>1. PoolIInv => OneHolder
    BY DEF PoolIInv, HolderOK, OneHolder, Idle
  <1> QED
    BY <1>1, ClientUsesPool, PoolInvariant, PTL

(* When Close has drained the pool, each connection that lives has a       *)
(* client that holds it and will put it back.                              *)
THEOREM CloseLeavesNothing == ClientSpec => []NothingLeftOpen
  <1>1. PoolIInv => NothingLeftOpen
    BY DEF PoolIInv, ClosedOK, Held, NothingLeftOpen
  <1> QED
    BY <1>1, ClientUsesPool, PoolInvariant, PTL

(* The pool implements its promise: one holder at a time, and nothing that *)
(* was given up is handed out again.                                       *)
THEOREM PoolKeepsPromise == ClientSpec => PoolKept
  <1>1. PoolInit => PP!PromiseInit
    <2> SUFFICES ASSUME PoolInit PROVE PP!PromiseInit
      OBVIOUS
    <2>1. \A k \in Clients : client[k].conn = NoConn
      BY DEF PoolInit
    <2>2. Lent = [c \in Conns |-> {}]
      BY <2>1, ConnsAreNumbers DEF Lent
    <2>3. Idle = {} /\ Dialled = 0
      BY DEF PoolInit, Idle, Dialled
    <2>4. 1..Dialled = {}
      BY <2>3
    <2> QED
      BY <2>2, <2>3, <2>4 DEF PP!PromiseInit, Lent
  <1>2. PoolSpec => PP!PromiseSpec
    BY <1>1, PoolStepKeepsPromise, PoolInvariant, PTL DEF PoolSpec, PP!PromiseSpec
  <1> QED
    BY <1>2, ClientUsesPool DEF PoolKept

(* What nobody but k held before a step of k is held by others after it. *)
LEMMA HeldStays ==
  ASSUME NEW k \in Clients, NEW pc, NEW addr, NEW c, Goes(k, pc, addr, c),
         NEW d \in Conns, Held(d), d # client[k].conn \/ d = c
  PROVE  Held(d)'
  BY DEF Held, Goes

(* The connection is filed under the address that it reports itself. *)
Literal(c) == RemoteAddr(entry[c].key) = entry[c].key

(* A Put finds the entry of the connection it puts back, if the entry is   *)
(* filed under the address that the connection reports.                    *)
LEMMA PutBackNext ==
  ASSUME PoolIInv, PutBackIsIdle, [PoolNext]_poolVars
  PROVE  PutBackIsIdle'
  <1>1. \A c \in InUse : poolClose = "open" /\ Literal(c) => Held(c)
    BY DEF PutBackIsIdle, Held, Literal
  <1> SUFFICES ASSUME NEW c \in Conns, c \in InUse', poolClose' = "open", Literal(c)'
               PROVE  Held(c)'
    BY SetsOfConns DEF PutBackIsIdle, Held, InUse, Literal
  <1>2. ASSUME NEW k \in Clients, NEW pc, NEW addr, NEW d, Goes(k, pc, addr, d),
               c \in InUse, Literal(c), poolClose = "open", c # client[k].conn \/ c = d
        PROVE  Held(c)'
    BY <1>1, <1>2, HeldStays
  <1>3. ASSUME c \in InUse, Literal(c), poolClose = "open", UNCHANGED client PROVE Held(c)'
    BY <1>1, <1>3 DEF Held
  <1>4. ASSUME NEW k \in Clients, NEW addr \in Addrs, GetStarts(k, addr) PROVE Held(c)'
    <2>1. /\ UNCHANGED <<entry, poolClose>> /\ client' = Moves(k, "get", addr, NoConn)
          /\ client[k].conn = NoConn
      BY <1>4, ClientKnows DEF GetStarts, At, HolderOK
    <2>2. Goes(k, "get", addr, NoConn)
      BY <2>1, PoolKnows, ClientMoves DEF PoolPCs
    <2> QED
      BY <1>2, <2>1, <2>2, ConnsAreNumbers DEF InUse, Literal
  <1>5. ASSUME NEW k \in Clients, GetMiss(k) \/ (At(k, "dialing") /\ DialFails(k)),
               UNCHANGED poolClose
        PROVE  Held(c)'
    <2>1. /\ UNCHANGED entry
          /\ client[k].conn = NoConn /\ client[k].addr \in Addrs
      BY <1>5, ClientKnows DEF GetMiss, DialFails, At, HolderOK
    <2>2. PICK pc \in PoolPCs, addr \in Addrs \union {""} : client' = Moves(k, pc, addr, NoConn)
      BY <1>5, <2>1 DEF GetMiss, DialFails, PoolPCs
    <2>3. Goes(k, pc, addr, NoConn)
      BY <2>1, <2>2, PoolKnows, ClientMoves
    <2> QED
      BY <1>2, <1>5, <2>1, <2>3, ConnsAreNumbers DEF InUse, Literal
  <1>6. ASSUME NEW k \in Clients, NEW d \in Conns,
               client' = Moves(k, "holding", client[k].addr, d),
               client[k].pc \in {"get", "dialing"}, UNCHANGED poolClose,
               NEW e, entry' = [entry EXCEPT ![d] = e]
        PROVE  Held(c)'
    <2>1. client[k].conn = NoConn
      BY <1>6, ClientKnows DEF HolderOK
    <2>2. Goes(k, "holding", client[k].addr, d)
      BY <1>6, ClientKnows, ClientMoves DEF PoolPCs
    <2>3. CASE c = d
      BY <2>2, <2>3 DEF Held, Goes
    <2>4. CASE c # d
      <3>1. c \in InUse /\ Literal(c)
        BY <1>6, <2>4, PoolKnows DEF InUse, Literal
      <3> QED
        BY <1>2, <1>6, <2>1, <2>2, <3>1, ConnsAreNumbers
    <2> QED
      BY <2>3, <2>4
  <1>7. ASSUME NEW k \in Clients, GetHit(k) PROVE Held(c)'
    <2>1. PICK d \in Conns : d = Min(Available(client[k].addr))
      BY <1>7, MinIsLeast, ConnsAreNumbers DEF GetHit, Available, Pooled
    <2>2. /\ entry' = [entry EXCEPT ![d] = [entry[d] EXCEPT !.state = "inuse", !.age = 0]]
          /\ client' = Moves(k, "holding", client[k].addr, d)
          /\ client[k].pc = "get" /\ UNCHANGED poolClose
      BY <1>7, <2>1, PoolKnows DEF GetHit, At
    <2> QED
      BY <1>6, <2>2
  <1>8. ASSUME NEW k \in Clients, At(k, "dialing"), DialSucceeds(k), UNCHANGED poolClose
        PROVE  Held(c)'
    <2>1. PICK d \in Conns : d = Dialled + 1
      BY <1>8 DEF DialSucceeds
    <2>2. /\ entry' = [entry EXCEPT ![d] = [state |-> "inuse", key |-> client[k].addr,
                                            age |-> 0]]
          /\ client' = Moves(k, "holding", client[k].addr, d)
          /\ client[k].pc = "dialing"
      BY <1>8, <2>1 DEF DialSucceeds, At
    <2> QED
      BY <1>6, <1>8, <2>2
  <1>9. ASSUME NEW k \in Clients, PutStarts(k) PROVE Held(c)'
    <2>1. /\ client' = Moves(k, "put", client[k].addr, client[k].conn)
          /\ UNCHANGED <<entry, poolClose>> /\ poolClose = "open"
      BY <1>9 DEF PutStarts, closedFlag
    <2>2. Goes(k, "put", client[k].addr, client[k].conn)
      BY <2>1, ClientKnows, ClientMoves DEF PoolPCs
    <2>3. \A d \in Conns : Held(d) => Held(d)'
      BY <2>2 DEF Held, Goes
    <2> QED
      BY <1>1, <2>1, <2>3 DEF InUse, Literal
  <1>10. ASSUME NEW k \in Clients, PutLocked(k) PROVE Held(c)'
    <2>1. /\ client' = Moves(k, "out", "", NoConn) /\ UNCHANGED poolClose
          /\ client[k].pc = "put"
      BY <1>10 DEF PutLocked, At
    <2>2. PICK d \in Conns : d = client[k].conn
      BY <2>1, ClientKnows DEF HolderOK
    <2>3. /\ entry[d].state # "idle" /\ client[k].addr \in Addrs
          /\ entry[d].state = "inuse" => entry[d].key = client[k].addr
      BY <2>1, <2>2, ClientKnows, ConnsAreNumbers DEF HolderOK
    <2>4. IF d \in Pooled /\ entry[d].key = RemoteAddr(client[k].addr)
            THEN entry' = [entry EXCEPT ![d].state = "idle"]
            ELSE entry' = entry
      BY <1>10, <2>2 DEF PutLocked, putIdle
    <2>5. entry \in [Conns -> EntryRec]
      BY PoolKnows
    <2>6. c # d /\ entry'[c] = entry[c]
      <3>1. CASE d \in Pooled /\ entry[d].key = RemoteAddr(client[k].addr)
        <4>1. entry'[d].state = "idle" /\ \A e \in Conns \ {d} : entry'[e] = entry[e]
          BY <2>4, <2>5, <3>1 DEF EntryRec
        <4> QED
          BY <4>1 DEF InUse
      <3>2. CASE ~(d \in Pooled /\ entry[d].key = RemoteAddr(client[k].addr))
        <4>1. entry' = entry
          BY <2>4, <3>2
        <4>2. c \in Pooled /\ entry[c].state = "inuse" /\ Literal(c)
          BY <4>1 DEF InUse, Pooled, Literal
        <4>3. c # d
          BY <2>3, <3>2, <4>2 DEF Literal
        <4> QED
          BY <4>1, <4>3
      <3> QED
        BY <3>1, <3>2
    <2>7. c \in InUse /\ Literal(c) /\ c # d
      BY <2>6 DEF InUse, Literal
    <2>8. Goes(k, "out", "", NoConn)
      BY <2>1, PoolKnows, ClientMoves DEF PoolPCs
    <2> QED
      BY <1>2, <2>1, <2>2, <2>7, <2>8
  <1>11. ASSUME entry'[c].state = "inuse" =>
                   entry[c].state = "inuse" /\ entry'[c].key = entry[c].key,
                UNCHANGED <<client, poolClose>>
         PROVE  Held(c)'
    BY <1>3, <1>11 DEF InUse, Literal
  <1>12. CASE CleanupExpired
    BY <1>11, <1>12, PoolKnows, RemovedIsNone DEF CleanupExpired
  <1>13. CASE Tick
    BY <1>11, <1>13, PoolKnows DEF Tick, EntryRec
  <1>14. CASE PoolCloseFlag \/ PoolCloseDrain
    BY <1>14 DEF PoolCloseFlag, PoolCloseDrain
  <1>15. CASE UNCHANGED poolVars \/ \E d \in Conns : PeerCloses(d)
    BY <1>11, <1>15 DEF PeerCloses, poolVars
  <1>16. ASSUME NEW k \in Clients, GetOrPut(k) \/ Dial(k) PROVE Held(c)'
    <2>1. GetMiss(k) => UNCHANGED poolClose
      BY DEF GetMiss
    <2> QED
      BY <1>5, <1>7, <1>8, <1>10, <1>16, <2>1 DEF GetOrPut, Dial
  <1> QED
    BY <1>4, <1>9, <1>12, <1>13, <1>14, <1>15, <1>16 DEF PoolNext

(* An entry that is marked in use and filed under the address which its    *)
(* connection reports is in use, as long as the pool is open: what is put  *)
(* back can be handed out again or expire.                                 *)
THEOREM PutBackGoesIdle == ClientSpec => []PutBackIsIdle
  <1>1. PoolInit => PutBackIsIdle
    <2> SUFFICES ASSUME PoolInit PROVE PutBackIsIdle
      OBVIOUS
    <2>1. entry \in [Conns -> EntryRec] /\ \A c \in Conns : entry[c].state = "none"
      <3>1. [state |-> "none", key |-> "", age |-> 0] \in EntryRec
        BY PoolAssumption DEF EntryRec
      <3> QED
        BY <3>1 DEF PoolInit
    <2> QED
      BY <2>1 DEF PutBackIsIdle, InUse
  <1>2. PoolIInv /\ PutBackIsIdle /\ [PoolNext]_poolVars => PutBackIsIdle'
    BY PutBackNext
  <1> QED
    BY <1>1, <1>2, ClientUsesPool, PoolInvariant, PTL DEF PoolSpec
================================================================================
