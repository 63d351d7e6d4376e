---------------------------- MODULE MCBlockCache ----------------------------
(* Three blocks in two slots: blocks 0 and 2 compete for one of them. *)
EXTENDS BlockCacheDevice

MCHashSlot(b) == b % 2
MCAddresses == 0 .. 2
SharedSlotFails == {{}, {0}}
=============================================================================
