------------------------------- MODULE MCXor -------------------------------
(* Instances of Xor for TLC: three devices of two blocks each. *)
EXTENDS Xor

Zeroed == {[d \in Devs |-> 0]}

AllWrites == Blocks \X Bit
FewWrites == {0, 1} \X Bit \cup {<<2, 1>>}

WriteFails(W) == [NoFault EXCEPT !.flush = W]
OneWrite == {NoFault, WriteFails({0})}
ReadsAndWrites == OneWrite \cup {WriteFails({0, 2}), [NoFault EXCEPT !.read = {1}],
                               [NoFault EXCEPT !.read = {1}, !.repair = {1}],
                               [NoFault EXCEPT !.repair = {2}]}
=============================================================================
