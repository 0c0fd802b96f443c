--------------------------- MODULE MCServerTransport ---------------------------
(* Instances of ServerTransport for TLC. *)
EXTENDS ServerTransport
================================================================================
