------------------------------ MODULE MCVerify ------------------------------
(* Instances of Verify for TLC: two hashes per block, five blocks below, so *)
(* a full chunk and a short one.  Hashes have three bits and the crc of no  *)
(* two blocks is the same.                                                  *)
EXTENDS Verify

CONSTANTS z, a, junk

MCValues == {z, a}
MCWords == 0 .. 7
MCCrc(x) == CASE x = z -> 5 [] x = a -> 6 [] x = junk -> 3
Bits(x, y) == {k \in {1, 2, 4} : (x \div k) % 2 # (y \div k) % 2}
XorTable == [x \in MCWords, y \in MCWords |->
                LET on(k) == IF k \in Bits(x, y) THEN k ELSE 0
                IN  on(1) + on(2) + on(4)]
MCWordXor(x, y) == XorTable[x, y]
=============================================================================
