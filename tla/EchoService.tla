----------------------------- MODULE EchoService -----------------------------
(***************************************************************************)
(* What the echo service promises a client on one connection: its requests *)
(* are served once each, and those of a registered service are answered    *)
(* once each; in the order of its calls of sendMessage, until its loop     *)
(* stands still for the timeout of a message (Stall).                      *)
(* Nothing says how far the service gets before the connection is lost.    *)
(***************************************************************************)
EXTENDS Naturals, Sequences

CONSTANTS
  Clients,      \* clients, each on a connection of its own
  Services,     \* service ids a client may name
  Registered    \* those BusinessHandler::registerHandler was called for

VARIABLES
  asked,        \* asked[c]: the requests of c, in order
  served,       \* served[c]: those handed to the business handler
  answered,     \* answered[c]: the requests whose answers reached c
  ordered       \* ordered[c]: the loop of c has not stood still

logs == <<asked, served, answered>>
vars == <<logs, ordered>>

Request == [num : Nat \ {0}, service : Services]

Among(r, log) == \E i \in DOMAIN log : log[i] = r

\* r may be the next entry of the log `to', which takes its entries from `from'.
MayFollow(c, r, from, to) ==
  /\ Among(r, from) /\ ~Among(r, to)
  /\ ordered[c] => \A q \in {from[i] : i \in DOMAIN from} :
                     q.num < r.num => Among(q, to)

Init ==
  /\ asked = [c \in Clients |-> <<>>]
  /\ served = [c \in Clients |-> <<>>]
  /\ answered = [c \in Clients |-> <<>>]
  /\ ordered = [c \in Clients |-> TRUE]

Ask(c, s) ==
  /\ asked' = [asked EXCEPT ![c] = Append(@, [num |-> Len(@) + 1, service |-> s])]
  /\ UNCHANGED <<served, answered, ordered>>

Serve(c) ==
  /\ \E i \in DOMAIN asked[c] :
       /\ MayFollow(c, asked[c][i], asked[c], served[c])
       /\ served' = [served EXCEPT ![c] = Append(@, asked[c][i])]
  /\ UNCHANGED <<asked, answered, ordered>>

\* The requests of a log that are answered at all.
Answerable(log) == SelectSeq(log, LAMBDA r : r.service \in Registered)

Answer(c) ==
  /\ \E i \in DOMAIN Answerable(served[c]) :
       LET r == Answerable(served[c])[i]
       IN  /\ MayFollow(c, r, Answerable(served[c]), answered[c])
           /\ answered' = [answered EXCEPT ![c] = Append(@, r)]
  /\ UNCHANGED <<asked, served, ordered>>

Stall(c) ==
  /\ ordered' = [ordered EXCEPT ![c] = FALSE]
  /\ UNCHANGED logs

Next ==
  \E c \in Clients : \/ \E s \in Services : Ask(c, s)
                     \/ Serve(c)
                     \/ Answer(c)
                     \/ Stall(c)

Spec == Init /\ [][Next]_vars

=============================================================================
