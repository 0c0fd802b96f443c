--------------------------- MODULE MCConfigWatcher ---------------------------
(* Instances of ConfigWatcher for TLC. *)
EXTENDS ConfigWatcher
===============================================================================
