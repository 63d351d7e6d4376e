---------------------------- MODULE MCBindSocket ----------------------------
(* Two sockets, clients or servers, a listener and one more reference. *)
EXTENDS BindSocket
=============================================================================
