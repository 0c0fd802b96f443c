------------------------------ MODULE PoolPromise ------------------------------
(***************************************************************************)
(* What the connection pool promises its callers, without a mutex, keys,   *)
(* counters or ages: a connection is lent to one caller at a time, new or  *)
(* from the shelf; what is given back goes on the shelf or is given up,    *)
(* and what is given up, or discarded from the shelf, is never lent again. *)
(***************************************************************************)
CONSTANTS Borrowers, Items

VARIABLES
    lent,         \* [Items -> the borrowers that have it]
    shelf,        \* items that wait for a borrower
    made          \* items that have ever been lent

promiseVars == <<lent, shelf, made>>

PromiseInit ==
    /\ lent = [c \in Items |-> {}]
    /\ shelf = {}
    /\ made = {}

(* Get: a hit, or a connection dialled for the caller. *)
Lend(k, c) ==
    /\ \A d \in Items : k \notin lent[d]
    /\ lent[c] = {}
    /\ c \in shelf \/ c \notin made
    /\ lent' = [lent EXCEPT ![c] = {k}]
    /\ shelf' = shelf \ {c}
    /\ made' = made \union {c}

(* Put: back on the shelf, or closed because the pool is. *)
GiveBack(k, c) ==
    /\ lent[c] = {k}
    /\ lent' = [lent EXCEPT ![c] = {}]
    /\ shelf' \in {shelf, shelf \union {c}}
    /\ UNCHANGED made

(* The cleanup, and Close: only what nobody has is taken away. *)
Discard(S) ==
    /\ S \subseteq shelf
    /\ shelf' = shelf \ S
    /\ UNCHANGED <<lent, made>>

PromiseNext ==
    \/ \E k \in Borrowers, c \in Items : Lend(k, c) \/ GiveBack(k, c)
    \/ \E S \in SUBSET shelf : Discard(S)

PromiseSpec == PromiseInit /\ [][PromiseNext]_promiseVars
===============================================================================
