---------------------------- MODULE MCXorNewest ----------------------------
(* Xor with the history of what was written. *)
EXTENDS MCXor

VARIABLE newest       \* what was last written to each block

(* The layer without restarts, and what its caller knows.  With one device *)
(* that fails no call fails.                                               *)
HistoryInit == Init /\ newest = [b \in Blocks |-> 0]
HistoryNext ==
    \/ /\ \/ \E b \in Blocks : ReadBlock(b)
          \/ Flush
       /\ UNCHANGED newest
    \/ \E w \in Writes : WriteBlock(w[1], w[2]) /\ newest' = [newest EXCEPT ![w[1]] = w[2]]
HistorySpec == HistoryInit /\ [][HistoryNext]_<<vars, newest>>

(* xor.c:50 asks whether a write has failed "if any drives fail to write       *)
(* (ensuring loss of protection) or if any two do (ensuring immediate data     *)
(* loss)": where one device only ever fails, protection may be lost, and data  *)
(* is not: a read returns what was written last.                               *)
OneFailureLosesNoData == reply # NoReply => reply.val = newest[reply.at]
=============================================================================
