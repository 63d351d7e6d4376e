---------------------------- MODULE MCPartitioner ----------------------------
(***************************************************************************)
(* Two partitions on nine blocks: the header, two of bitmap, up to three   *)
(* of maps, and the rest of data.                                          *)
(***************************************************************************)
EXTENDS Partitioner

OneValueEach == [p \in Parts |-> {p + 2}]
=============================================================================
