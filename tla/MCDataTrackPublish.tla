-------------------------- MODULE MCDataTrackPublish --------------------------
(* Instances of DataTrackPublish for TLC. *)
EXTENDS DataTrackPublish
===============================================================================
