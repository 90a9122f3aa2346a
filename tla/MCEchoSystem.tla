---------------------------- MODULE MCEchoSystem ----------------------------
(* A small instance of EchoSystem. *)
EXTENDS EchoSystem

CONSTANTS c1, c2

MCMaxAsks == [c \in Clients |-> IF c = c1 THEN 2 ELSE 1]

\* Bounds.  One client is alone and makes two requests, which can overtake each
\* other, of different services, ...
Alone ==
  /\ link["client"][c2] = "new"
  /\ \A i, j \in DOMAIN asked[c1] :
       i # j => asked[c1][i].service # asked[c1][j].service

\* ... or two clients make one request each of a registered service, with loops
\* that do not stand still; the first of them connects and asks first, and only
\* the first writes its request again.
Together ==
  /\ link["client"][c1] # "new"
  /\ asked[c2] # <<>> => asked[c1] # <<>>
  /\ \A m \in pending[c2] : m.tries = 0
  /\ \A c \in Clients :
       /\ ~stalled[c]
       /\ Len(asked[c]) <= 1
       /\ \A i \in DOMAIN asked[c] : asked[c][i].service \in Registered

\* No step that the fairness is about leaves these bounds.
MCSpec ==
  /\ Init /\ [][Next /\ (Alone \/ Together)']_vars
  /\ LoopFairness("server") /\ SendFairness

=============================================================================
