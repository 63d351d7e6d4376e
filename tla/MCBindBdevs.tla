----------------------------- MODULE MCBindBdevs -----------------------------
(* Three userdata: a stack of three, or one device with two above it. *)
EXTENDS BindBdevs
=============================================================================
