-------------------------- MODULE MCDataTrackHandler --------------------------
(* Instances of DataTrackHandler for TLC. *)
EXTENDS DataTrackHandler
===============================================================================
