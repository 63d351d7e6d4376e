---------------------------- MODULE MCAggregate ----------------------------
(***************************************************************************)
(* Two slices of an encrypted device of three blocks, at its beginning and *)
(* its end with a block of someone else between them, and a stripe over    *)
(* devices of two blocks and one block.                                    *)
(***************************************************************************)
EXTENDS Aggregate, TLC

MCStart == 0 :> 0 @@ 1 :> 2
MCLen == 0 :> 1 @@ 1 :> 1
MCSizes == 0 :> 4 @@ 1 :> 2 @@ 2 :> 1
=============================================================================
