----------------------------- MODULE MCControlAcks -----------------------------
(* Instances of ControlAcks for TLC. *)
EXTENDS ControlAcks

MCTwoIDs == {"1", "2"}

(* Two requests, and a response that shares the id of the first. *)
MCMessages == {Request("1"), Response("1"), Request("2")}
===============================================================================
