------------------------------ MODULE AckPromise ------------------------------
(***************************************************************************)
(* What the acknowledgment tracker promises its callers, without timers,   *)
(* locks or the pending map: a call of Track hands out a handle (the       *)
(* returned channel), and every handle receives at most one verdict.       *)
(* A tracker that is closed refuses a new handle by nacking it at once,    *)
(* and closing it may nack several handles in one step; an acknowledgment, *)
(* a refusal by the peer and a timeout settle one handle.                  *)
(***************************************************************************)
EXTENDS Naturals

CONSTANT Handles

VARIABLES
    promised,     \* handles returned by Track
    verdict       \* [Handles -> the verdict received, or "none"]

pvars == <<promised, verdict>>

Verdicts == {"acked", "nacked", "timeout"}

PInit ==
    /\ promised = {}
    /\ verdict = [h \in Handles |-> "none"]

(* Track: a fresh handle, refused immediately when the tracker is closed. *)
Promise(h) ==
    /\ h \notin promised
    /\ promised' = promised \union {h}
    /\ verdict' \in {verdict, [verdict EXCEPT ![h] = "nacked"]}

(* Ack, Nack, the timeout and Close: unsettled handles get their verdict. *)
Settle(S, v) ==
    /\ S # {}
    /\ S \subseteq promised
    /\ \A h \in S : verdict[h] = "none"
    /\ v = "nacked" \/ \E h \in S : S = {h}
    /\ verdict' = [h \in Handles |-> IF h \in S THEN v ELSE verdict[h]]
    /\ UNCHANGED promised

PNext ==
    \/ \E h \in Handles : Promise(h)
    \/ \E S \in SUBSET Handles, v \in Verdicts : Settle(S, v)

PSpec == PInit /\ [][PNext]_pvars
===============================================================================
