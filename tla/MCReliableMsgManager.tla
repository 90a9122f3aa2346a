------------------------ MODULE MCReliableMsgManager ------------------------
(* A small instance of ReliableMsgManager. *)
EXTENDS ReliableMsgManager

CONSTANTS c1, c2, t1, t2

\* Bounds.  In one behaviour the process only sends or only receives: the two share
\* nothing but the state of the connections, no send reads what a receive writes.
NoneSent    == sent = 0 /\ \A t \in Threads : target[t] = NoConn
NoneArrived == \A c \in Conns : arrived[c] = {}

\* The third send, with which the numbers come round, is on the only connection.
ThirdAlone == sent > 2 => connState[c2] = "new"

Bounds == (NoneSent \/ NoneArrived) /\ ThirdAlone

\* No step that the fairness is about leaves these bounds.
MCSpec == Init /\ [][Next /\ Bounds']_vars /\ Fairness

=============================================================================
