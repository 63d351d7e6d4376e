--------------------------- MODULE MCGenericBytes ---------------------------
(***************************************************************************)
(* Every range of a device of four blocks of three bytes.  A read that     *)
(* fails leaves another block in the buffer, or the beginning of one.     *)
(***************************************************************************)
EXTENDS GenericBytes

MCLeaves ==
    {[i \in Offsets |-> IF i < n THEN OldByte(0, i) ELSE NoByte] : n \in {BlockSize-1, BlockSize}}
=============================================================================
