--------------------------- MODULE MCClientTransport ---------------------------
(* Instances of ClientTransport for TLC. *)
EXTENDS ClientTransport

(* A literal address, and a host name such as docker-compose.yml's that    *)
(* resolves to it.                                                         *)
MCAddrs == {"192.0.2.1:8080", "server:8080"}
MCLiteral == {"192.0.2.1:8080"}

(* RemoteAddr prints the address of the socket, whatever was dialled. *)
MCRemoteAddr(addr) == "192.0.2.1:8080"
================================================================================
