----------------------------- MODULE MCControlConn -----------------------------
(* Instances of ControlConn for TLC. *)
EXTENDS ControlConn, TLC

CONSTANTS w1, w2

MCTwoWriters == {w1, w2}
MCOneWriter == {w1}

WriterSymmetry == Permutations(MCTwoWriters)
===============================================================================
