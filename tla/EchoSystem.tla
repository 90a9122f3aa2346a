----------------------------- MODULE EchoSystem -----------------------------
(***************************************************************************)
(* Clients and the echo server, put together: ConnectionHandler with its   *)
(* decoder and its ReliableMsgManager at both ends of every connection,    *)
(* TCP between them, and the server's BusinessHandler.                     *)
(*                                                                         *)
(* A frame travels whole; where a read ends is kept as far as it decides   *)
(* the fate of the decoder (as module FrameDecoder says, which module      *)
(* StreamDecoder implements): a decoder that meets a body it refuses, that *)
(* ends a read between a header and the end of its body, or in which two   *)
(* connections meet inside a header, delivers nothing more.                *)
(***************************************************************************)
EXTENDS Naturals, Sequences, FiniteSets

CONSTANTS
  Clients,      \* clients, each on a connection of its own
  Server,       \* the server
  Services,     \* service ids a client may name
  Registered,   \* those registered with the business handler
  MaxRetry,     \* MAX_RETRY_COUNT (3)
  Stalls,       \* a client's loop may stand still for the timeout of a message
  MaxAsks       \* bound: MaxAsks[c] calls of sendMessage by client c

ASSUME ServerAssumption ==
  /\ Server \notin Clients
  /\ {Server, "clean", "dead"} \cap Clients = {}
  /\ Registered \subseteq Services
ASSUME BoundsAssumption ==
  MaxRetry \in Nat /\ Stalls \in BOOLEAN /\ MaxAsks \in [Clients -> Nat]

Processes == Clients \cup {Server}
Ends      == {"client", "server"}

\* The process at end e of the connection of c, the end a process is at, and
\* the end of its peer.
At(e, c) == IF e = "client" THEN c ELSE Server
EndOf(p) == IF p = Server THEN "server" ELSE "client"
Peer(e)  == IF e = "client" THEN "server" ELSE "client"

VARIABLES
  link,       \* link[e][c]: end e of the connection of c is "new", "up", "down"
  alive,      \* alive[p]: the process runs
  next,       \* next[p]: nextSequence_, without its width: what the wrap after
              \* 2^32 sends does is in module ReliableMsgManager
  pending,    \* pending[p]: pendingMessages_
  processed,  \* processed[e][c]: processedSequences_
  acking,     \* acking[e][c]: lastAckTime_ has an entry
  queued,     \* queued[c]: writes of a sender thread that its loop has yet to do
  wire,       \* wire[e][c]: what end e has written and the peer not yet read
  decoder,    \* decoder[p]: "clean", "dead", or the connection in whose header
              \* the last read ended
  msgQ,       \* msgQ[e][c]: mMsgQ, while onMessage drains it under c
  \* History: what module EchoService is about
  asked, served, answered,
  stalled     \* stalled[c]: the loop of c stood still until a message that it
              \* had yet to write had timed out

manager == <<next, pending, processed, acking>>
logs    == <<asked, served, answered>>
vars    == <<link, alive, manager, queued, wire, decoder, msgQ, logs, stalled>>

Request == [num : Nat \ {0}, service : Services]

\* What a frame carries: a request, the answer to a request, or JSON null.
NoBody      == [kind |-> "null"]
Asking(r)   == [kind |-> "request", of |-> r]
Answered(r) == [kind |-> "answer", of |-> r]

Frame(s, b) == [seq |-> s, body |-> b]

\* The loop of p is free to start a callback.
LoopIdle(p) ==
  alive[p] /\ \A e \in Ends, c \in Clients : At(e, c) = p => msgQ[e][c] = <<>>

\* The wire of end e after it has written fs; a closed peer reads nothing.
Written(e, c, fs) ==
  IF link[Peer(e)][c] = "down" THEN wire[e][c] ELSE wire[e][c] \o fs

Write(e, c, fs) == wire' = [wire EXCEPT ![e][c] = Written(e, c, fs)]

-----------------------------------------------------------------------------

Init ==
  /\ link = [e \in Ends |-> [c \in Clients |-> "new"]]
  /\ alive = [p \in Processes |-> TRUE]
  /\ next = [p \in Processes |-> 1]
  /\ pending = [p \in Processes |-> {}]
  /\ processed = [e \in Ends |-> [c \in Clients |-> {}]]
  /\ acking = [e \in Ends |-> [c \in Clients |-> FALSE]]
  /\ queued = [c \in Clients |-> <<>>]
  /\ wire = [e \in Ends |-> [c \in Clients |-> <<>>]]
  /\ decoder = [p \in Processes |-> "clean"]
  /\ msgQ = [e \in Ends |-> [c \in Clients |-> <<>>]]
  /\ asked = [c \in Clients |-> <<>>]
  /\ served = [c \in Clients |-> <<>>]
  /\ answered = [c \in Clients |-> <<>>]
  /\ stalled = [c \in Clients |-> FALSE]

\* onConnection, connected: at the client when TCP has connected, at the server
\* when it accepts, by which time the client may have written.
Connect(e, c) ==
  /\ LoopIdle(At(e, c))
  /\ link[e][c] = "new"
  /\ IF e = "client" THEN alive[Server] ELSE link["client"][c] # "new"
  /\ link' = [link EXCEPT ![e][c] = "up"]
  /\ UNCHANGED <<alive, manager, queued, wire, decoder, msgQ, logs, stalled>>

\* onConnection, closed: cleanupConnection.  What the peer wrote and this end
\* has not read is lost; the decoder stays as it is.
Close(e, c) ==
  /\ LoopIdle(At(e, c))
  /\ link[e][c] = "up"
  /\ link' = [link EXCEPT ![e][c] = "down"]
  /\ pending' = [pending EXCEPT ![At(e, c)] = {m \in @ : m.conn # c}]
  /\ processed' = [processed EXCEPT ![e][c] = {}]
  /\ queued' = IF e = "client" THEN [queued EXCEPT ![c] = <<>>] ELSE queued
  /\ wire' = [wire EXCEPT ![Peer(e)][c] = <<>>]
  /\ UNCHANGED <<alive, next, acking, decoder, msgQ, logs, stalled>>

\* A signal or MyProtoServer::stop() queues the call of quit(), and main returns.
Quit ==
  /\ LoopIdle(Server)
  /\ alive' = [alive EXCEPT ![Server] = FALSE]
  /\ UNCHANGED <<link, manager, queued, wire, decoder, msgQ, logs, stalled>>

-----------------------------------------------------------------------------
(* Sending *)

\* An entry of pendingMessages_.
Entry(c, s, b) == [conn |-> c, seq |-> s, body |-> b, tries |-> 0]

\* sendTestMessage on the client's sender thread, as far as sendReliableMessage:
\* TcpConnection::send on another thread leaves the write to the loop ...
Ask(c, service) ==
  LET r == [num |-> Len(asked[c]) + 1, service |-> service]
  IN  /\ alive[c]
      /\ link["client"][c] = "up"
      /\ Len(asked[c]) < MaxAsks[c]
      /\ next' = [next EXCEPT ![c] = @ + 1]
      /\ pending' = [pending EXCEPT ![c] = @ \cup {Entry(c, next[c], Asking(r))}]
      /\ queued' = [queued EXCEPT ![c] = Append(@, Frame(next[c], Asking(r)))]
      /\ asked' = [asked EXCEPT ![c] = Append(@, r)]
      /\ UNCHANGED <<link, alive, processed, acking, wire, decoder, msgQ, served,
                     answered, stalled>>

\* ... which runs it after the callbacks of its sockets and timers.
SendInLoop(c) ==
  /\ LoopIdle(c)
  /\ queued[c] # <<>>
  /\ queued' = [queued EXCEPT ![c] = Tail(@)]
  /\ Write("client", c, <<Head(queued[c])>>)
  /\ UNCHANGED <<link, alive, manager, decoder, msgQ, logs, stalled>>

RetryOnceMore(m) == m.tries <= MaxRetry   \* variant of Retryable: off by one
Retryable(m)     == m.tries < MaxRetry

\* Its first copy has yet to be written.
Unwritten(m) == \E i \in DOMAIN queued[m.conn] : queued[m.conn][i].seq = m.seq

\* The orders in which a scan may come across the messages of S, for each
\* connection.
Of(c, S) == {m \in S : m.conn = c}

Orders(S) ==
  {o \in [1 .. Cardinality(S) -> S] : \A m \in S : \E i \in DOMAIN o : o[i] = m}

ScanOrders(S) ==
  {o \in [Clients -> UNION {Orders(Of(c, S)) : c \in Clients}] :
     \A c \in Clients : o[c] \in Orders(Of(c, S))}

Frames(o) == [i \in DOMAIN o |-> Frame(o[i].seq, o[i].body)]

\* checkTimeoutMessages: any messages may have timed out.  They are written
\* again, at once, or dropped; when that leaves none of a connection, the scan
\* may crash (module ReliableMsgManager).
Scan(p) ==
  /\ LoopIdle(p)
  /\ \E X \in (SUBSET pending[p]) \ {{}} :
       LET again == {m \in X : Retryable(m)}
           kept  == (pending[p] \ X) \cup {[m EXCEPT !.tries = @ + 1] : m \in again}
       IN  /\ p \in Clients /\ ~Stalls => \A m \in X : ~Unwritten(m)
           /\ stalled' = [c \in Clients |->
                stalled[c] \/ (c = p /\ \E m \in X : Unwritten(m))]
           /\ pending' = [pending EXCEPT ![p] = kept]
           /\ \E o \in ScanOrders(again) :
                wire' = [wire EXCEPT ![EndOf(p)] =
                           [c \in Clients |-> Written(EndOf(p), c, Frames(o[c]))]]
           /\ \/ UNCHANGED alive
              \/ /\ \E m \in pending[p] : \A n \in kept : n.conn # m.conn
                 /\ alive' = [alive EXCEPT ![p] = FALSE]
  /\ UNCHANGED <<link, next, processed, acking, queued, decoder, msgQ, logs>>

-----------------------------------------------------------------------------
(* Receiving *)

\* Where a read ends, after the whole frames it brings.
Cuts == {"frame", "head", "body"}

\* The body of an acknowledgement, which sendBatchAck does not set.
EmptyObject == [kind |-> "ack"]   \* variant of AckBody: one a decoder accepts
AckBody     == NoBody

\* onMessage up to the return of parser(): a read brings k whole frames and
\* perhaps a part of the next.
OnMessage(e, c, k, cut) ==
  LET p     == At(e, c)
      whole == SubSeq(wire[Peer(e)][c], 1, k)
      mixed == decoder[p] \notin {"clean", c}
  IN  /\ LoopIdle(p)
      /\ link[e][c] = "up"
      /\ IF cut = "frame" THEN k > 0 ELSE decoder[p] # "dead"
      /\ k + (IF cut = "frame" THEN 0 ELSE 1) <= Len(wire[Peer(e)][c])
      /\ wire' = [wire EXCEPT ![Peer(e)][c] = SubSeq(@, k + 1, Len(@))]
      /\ IF mixed \/ \E i \in DOMAIN whole : whole[i].body = NoBody
         THEN /\ decoder' = [decoder EXCEPT ![p] = "dead"]
              /\ UNCHANGED msgQ
         ELSE /\ decoder' = [decoder EXCEPT ![p] = CASE cut = "frame" -> "clean"
                                                     [] cut = "head"  -> c
                                                     [] cut = "body"  -> "dead"]
              /\ msgQ' = [msgQ EXCEPT ![e][c] = whole]
      /\ UNCHANGED <<link, alive, manager, queued, logs, stalled>>

\* processedSequences_ of the connection has s.
SeenNever(e, c, s) == FALSE                                     \* variant
SeenOnAny(e, c, s) == \E d \in Clients : s \in processed[e][d]  \* variant
Seen(e, c, s)      == s \in processed[e][c]

\* A request of a registered service is answered by the server.
Echoed(e, f) ==
  e = "server" /\ f.body.kind = "request" /\ f.body.of.service \in Registered

\* onMessage pops a message.  processDataMessage tells whether it is new, and
\* acknowledges at once the first of a connection, a later one if 50 ms have
\* passed; a new one goes to handleMessage, or to messageCallback_ at a client.
Dispatch(e, c) ==
  LET p      == At(e, c)
      f      == Head(msgQ[e][c])
      answer == Answered(f.body.of)
  IN  /\ alive[p]
      /\ msgQ[e][c] # <<>>
      /\ msgQ' = [msgQ EXCEPT ![e][c] = Tail(@)]
      /\ \/ /\ Seen(e, c, f.seq)
            /\ UNCHANGED <<manager, wire, served, answered>>
         \/ /\ ~Seen(e, c, f.seq)
            /\ processed' = [processed EXCEPT ![e][c] = @ \cup {f.seq}]
            /\ \E ack \in {TRUE, acking[e][c] = FALSE} :
                 LET acks == IF ack THEN <<Frame(f.seq, AckBody)>> ELSE <<>>
                 IN  /\ acking' = [acking EXCEPT ![e][c] = TRUE]
                     /\ IF Echoed(e, f)
                        THEN /\ next' = [next EXCEPT ![p] = @ + 1]
                             /\ pending' = [pending EXCEPT ![p] =
                                              @ \cup {Entry(c, next[p], answer)}]
                             /\ Write(e, c, Append(acks, Frame(next[p], answer)))
                        ELSE /\ UNCHANGED <<next, pending>>
                             /\ Write(e, c, acks)
            /\ served' = IF e = "server"
                         THEN [served EXCEPT ![c] = Append(@, f.body.of)]
                         ELSE served
            /\ answered' = IF e = "client" /\ f.body.kind = "answer"
                           THEN [answered EXCEPT ![c] = Append(@, f.body.of)]
                           ELSE answered
      /\ UNCHANGED <<link, alive, queued, decoder, asked, stalled>>

Next ==
  \/ \E e \in Ends, c \in Clients :
       \/ Connect(e, c) \/ Close(e, c) \/ Dispatch(e, c)
       \/ \E k \in 0 .. Len(wire[Peer(e)][c]), cut \in Cuts : OnMessage(e, c, k, cut)
  \/ \E c \in Clients : SendInLoop(c) \/ \E s \in Services : Ask(c, s)
  \/ \E p \in Processes : Scan(p)
  \/ Quit

Spec == Init /\ [][Next]_vars

\* The loop at an end accepts, reads its sockets and drains the decoder's queue.
LoopFairness(e) ==
  \A c \in Clients :
    /\ WF_vars(Connect(e, c))
    /\ WF_vars(\E k \in 0 .. Len(wire[Peer(e)][c]), cut \in Cuts :
                 OnMessage(e, c, k, cut))
    /\ WF_vars(Dispatch(e, c))

\* A client's loop runs what its sender thread has queued.
SendFairness == \A c \in Clients : WF_vars(SendInLoop(c))

ServerSpec == Spec /\ LoopFairness("server") /\ SendFairness

-----------------------------------------------------------------------------
(* Properties *)

Bodies   == {NoBody} \cup [kind : {"request", "answer"}, of : Request]
Messages == [seq : Nat \ {0}, body : Bodies]
Entries  == [conn : Clients, seq : Nat \ {0}, body : Bodies, tries : 0 .. MaxRetry]

\* Types: numbers start at 1, no message is retried more than MaxRetry times,
\* and an entry belongs to a connection of its process (ReliableMsgManager).
TypeOK ==
  /\ link \in [Ends -> [Clients -> {"new", "up", "down"}]]
  /\ alive \in [Processes -> BOOLEAN]
  /\ next \in [Processes -> Nat \ {0}]
  /\ pending \in [Processes -> SUBSET Entries]
  /\ \A p \in Processes : \A m \in pending[p] : At(EndOf(p), m.conn) = p
  /\ processed \in [Ends -> [Clients -> SUBSET (Nat \ {0})]]
  /\ acking \in [Ends -> [Clients -> BOOLEAN]]
  /\ queued \in [Clients -> Seq(Messages)]
  /\ wire \in [Ends -> [Clients -> Seq(Messages)]]
  /\ decoder \in [Processes -> {"clean", "dead"} \cup Clients]
  /\ msgQ \in [Ends -> [Clients -> Seq(Messages)]]
  /\ asked \in [Clients -> Seq(Request)]
  /\ served \in [Clients -> Seq(Request)]
  /\ answered \in [Clients -> Seq(Request)]
  /\ stalled \in [Clients -> BOOLEAN]

\* What the echo service promises, in module EchoService: in spite of scans that
\* write messages again, of acknowledgements without effect and of a decoder
\* shared by all connections, requests are served once each, and in the order
\* of the calls until a client's loop stands still.
Service == INSTANCE EchoService WITH ordered <- [c \in Clients |-> ~stalled[c]]
Implements == Service!Spec

\* No client ever receives an answer: what the server writes first on a
\* connection is the batch acknowledgement of its first message
\* (ReliableMsgManager.cpp:193-197), whose null body ends the client's decoder.
NoAnswerArrives == \A c \in Clients : answered[c] = <<>>

\* Neither end has lost the connection of c, and no read has killed the decoder of
\* the server.
Intact(c) == (\A e \in Ends : link[e][c] # "down") /\ decoder[Server] # "dead"

\* A sequence of messages has number n.
Has(s, n) == \E i \in DOMAIN s : s[i].seq = n

\* Between clients that share one decoder, one numbering and one table, with loops
\* that stand still, repeated messages and scans, no request is lost: as long as
\* its connection is intact it is served, or somewhere on the way to it.
NoneLost ==
  \A c \in Clients : Intact(c) => \A n \in DOMAIN asked[c] :
    \/ \E i \in DOMAIN served[c] : served[c][i].num = n
    \/ Has(msgQ["server"][c], n) \/ Has(wire["client"][c], n) \/ Has(queued[c], n)

\* A request is served unless the connection is lost, a process has died, or
\* the decoder of the server has been killed by some read.
Broken(c) == ~Intact(c) \/ \E e \in Ends : ~alive[At(e, c)]

Served ==
  \A c \in Clients : \A n \in 1 .. MaxAsks[c] :
    (Len(asked[c]) >= n)
      ~> (Broken(c) \/ \E i \in DOMAIN served[c] : served[c][i].num = n)

=============================================================================
