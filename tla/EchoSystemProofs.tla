-------------------------- MODULE EchoSystemProofs --------------------------
(***************************************************************************)
(* Theorems about EchoSystem, for any number of clients, services and      *)
(* requests: its types, that no answer arrives, and that the system        *)
(* implements the echo service.                                            *)
(***************************************************************************)
EXTENDS EchoSystem, FiniteSetTheorems, TLAPS

Links == {"new", "up", "down"}

\* Every table of pending messages is finite, and what waits in mMsgQ has been
\* accepted by validateJsonContent.
FiniteInv == \A p \in Processes : IsFiniteSet(pending[p])

NoNullInv ==
  \A e \in Ends, c \in Clients :
    \A i \in DOMAIN msgQ[e][c] : msgQ[e][c][i].body # NoBody

TypeInv == TypeOK /\ FiniteInv /\ NoNullInv

-----------------------------------------------------------------------------
(* Processes, bodies and scans *)

LEMMA ProcessFacts ==
  /\ Server \in Processes /\ Server \notin Clients /\ Clients \subseteq Processes
  /\ \A p \in Processes : EndOf(p) \in Ends
  /\ \A e \in Ends : Peer(e) \in Ends /\ Peer(e) # e
  /\ \A e \in Ends, c \in Clients : At(e, c) \in Processes /\ EndOf(At(e, c)) = e
  /\ \A c \in Clients : At("client", c) = c /\ At("server", c) = Server
                        /\ EndOf(c) = "client"
  /\ Peer("client") = "server" /\ Peer("server") = "client"
  /\ EndOf(Server) = "server" /\ Ends = {"client", "server"}
  /\ \A c \in Clients : c # "clean" /\ c # "dead"
BY ServerAssumption DEF Processes, Ends, At, EndOf, Peer

\* The kinds of body: null carries nothing, the others a request.
LEMMA BodyFacts ==
  /\ NoBody \in Bodies
  /\ \A r \in Request : Asking(r) \in Bodies /\ Answered(r) \in Bodies
  /\ \A r \in Request : Asking(r).of = r /\ Asking(r).kind = "request" /\ Asking(r) # NoBody
  /\ \A b \in Bodies : b # NoBody => b.of \in Request /\ b.kind \in {"request", "answer"}
  /\ \A r \in Request : r.num \in Nat \ {0} /\ r.service \in Services
<1>1. NoBody.kind = "null"
  BY DEF NoBody
<1>2. \A b \in [kind : {"request", "answer"}, of : Request] : b.of \in Request /\ b.kind \in {"request", "answer"}
  OBVIOUS
<1>3. \A r \in Request : Asking(r).kind = "request" /\ Asking(r).of = r
  BY DEF Asking
<1>4. \A r \in Request : Asking(r) \in [kind : {"request", "answer"}, of : Request]
                         /\ Answered(r) \in [kind : {"request", "answer"}, of : Request]
  BY DEF Asking, Answered
<1>5. \A r \in Request : r.num \in Nat \ {0} /\ r.service \in Services
  BY DEF Request
<1> QED BY <1>1, <1>2, <1>3, <1>4, <1>5 DEF Bodies

LEMMA FrameFacts ==
  ASSUME NEW s, NEW b
  PROVE  Frame(s, b).seq = s /\ Frame(s, b).body = b
BY DEF Frame

\* A table of both ends and all connections, changed at one place.
LEMMA Update ==
  ASSUME NEW T, NEW F \in [Ends -> [Clients -> T]], NEW e \in Ends, NEW c \in Clients,
         NEW v \in T, NEW G, G = [F EXCEPT ![e][c] = v]
  PROVE  /\ G \in [Ends -> [Clients -> T]]
         /\ \A x \in Ends, d \in Clients :
              G[x][d] = IF x = e /\ d = c THEN v ELSE F[x][d]
OBVIOUS

\* An order of finitely many messages is a sequence of them.
LEMMA OrderSeq ==
  ASSUME NEW S, IsFiniteSet(S), NEW o \in Orders(S)
  PROVE  o \in Seq(S) /\ (S = {} => o = <<>>)
<1>1. Cardinality(S) \in Nat /\ (S = {} => Cardinality(S) = 0)
  BY FS_CardinalityType, FS_EmptySet
<1>2. o \in [1 .. Cardinality(S) -> S]
  BY DEF Orders
<1> QED BY <1>1, <1>2

\* What a scan writes on a connection are messages it found timed out.
LEMMA ScanFrames ==
  ASSUME NEW S, IsFiniteSet(S), S \subseteq Entries, NEW o \in ScanOrders(S), NEW c \in Clients
  PROVE  /\ Frames(o[c]) \in Seq(Messages)
         /\ \A i \in DOMAIN Frames(o[c]) : \E m \in Of(c, S) :
              Frames(o[c])[i] = Frame(m.seq, m.body)
         /\ Of(c, S) = {} => Frames(o[c]) = <<>>
<1>1. o[c] \in Orders(Of(c, S))
  BY DEF ScanOrders
<1>2. Of(c, S) \subseteq S
  BY DEF Of
<1>3. IsFiniteSet(Of(c, S))
  BY <1>2, FS_Subset
<1>4. o[c] \in Seq(Of(c, S)) /\ (Of(c, S) = {} => o[c] = <<>>)
  BY <1>1, <1>3, OrderSeq
<1>5. \A m \in Of(c, S) : Frame(m.seq, m.body) \in Messages
  BY <1>2 DEF Entries, Messages, Frame
<1>6. \A i \in DOMAIN o[c] : o[c][i] \in Of(c, S)
  BY <1>4
<1>7. DOMAIN Frames(o[c]) = DOMAIN o[c]
      /\ \A i \in DOMAIN o[c] : Frames(o[c])[i] = Frame(o[c][i].seq, o[c][i].body)
  BY DEF Frames
<1>8. Frames(o[c]) \in Seq(Messages)
  BY <1>4, <1>5, <1>6, <1>7 DEF Frames
<1>9. Of(c, S) = {} => Frames(o[c]) = <<>>
  BY <1>4, <1>7, <1>8
<1> QED BY <1>6, <1>7, <1>8, <1>9

-----------------------------------------------------------------------------
(* Types *)

LEMMA TypeInit == Init => TypeInv
<1> SUFFICES ASSUME Init PROVE TypeInv
  OBVIOUS
<1>1. TypeOK
  BY DEF Init, TypeOK
<1>2. FiniteInv
  BY FS_EmptySet DEF Init, FiniteInv
<1>3. NoNullInv
  BY DEF Init, NoNullInv
<1> QED BY <1>1, <1>2, <1>3 DEF TypeInv

\* A frame of the right type may be written.
LEMMA WriteType ==
  ASSUME wire \in [Ends -> [Clients -> Seq(Messages)]],
         NEW e \in Ends, NEW c \in Clients, NEW fs \in Seq(Messages)
  PROVE  /\ Written(e, c, fs) \in Seq(Messages)
         /\ Write(e, c, fs) => wire' \in [Ends -> [Clients -> Seq(Messages)]]
<1>1. wire[e][c] \in Seq(Messages)
  OBVIOUS
<1>2. Written(e, c, fs) \in Seq(Messages)
  BY <1>1 DEF Written
<1>3. ASSUME Write(e, c, fs) PROVE wire' \in [Ends -> [Clients -> Seq(Messages)]]
  <2> DEFINE w == Written(e, c, fs)
  <2>1. wire' = [wire EXCEPT ![e][c] = w]
    BY <1>3 DEF Write
  <2> HIDE DEF w
  <2>2. w \in Seq(Messages)
    BY <1>2 DEF w
  <2> QED BY <2>1, <2>2
<1> QED BY <1>2, <1>3

LEMMA TypeConnect ==
  ASSUME TypeInv, NEW e \in Ends, NEW c \in Clients, Connect(e, c)
  PROVE  TypeInv'
<1>1. link' \in [Ends -> [Clients -> Links]]
  BY DEF Connect, TypeInv, TypeOK, Links
<1>2. UNCHANGED <<alive, manager, queued, wire, decoder, msgQ, logs, stalled>>
  BY DEF Connect
<1>3. TypeOK'
  BY <1>1, <1>2 DEF TypeInv, TypeOK, manager, logs, Links
<1>4. FiniteInv' /\ NoNullInv'
  BY <1>2 DEF TypeInv, FiniteInv, NoNullInv, manager
<1> QED BY <1>3, <1>4 DEF TypeInv

LEMMA TypeClose ==
  ASSUME TypeInv, NEW e \in Ends, NEW c \in Clients, Close(e, c)
  PROVE  TypeInv'
<1> DEFINE p == At(e, c)
           left == {m \in pending[p] : m.conn # c}
<1>0. p \in Processes /\ Peer(e) \in Ends
  BY ProcessFacts
<1>1. link' \in [Ends -> [Clients -> Links]]
  BY DEF Close, TypeInv, TypeOK, Links
<1>2. pending' = [pending EXCEPT ![p] = left]
  BY DEF Close
<1>3. left \subseteq pending[p] /\ IsFiniteSet(left)
  BY <1>0, FS_Subset DEF TypeInv, FiniteInv
<1>4. pending' \in [Processes -> SUBSET Entries]
  BY <1>0, <1>2, <1>3 DEF TypeInv, TypeOK
<1>5. \A q \in Processes : pending'[q] \subseteq pending[q] /\ IsFiniteSet(pending'[q])
  BY <1>0, <1>2, <1>3 DEF TypeInv, TypeOK, FiniteInv
<1>6. \A q \in Processes : \A m \in pending'[q] : At(EndOf(q), m.conn) = q
  BY <1>5 DEF TypeInv, TypeOK
<1>7. processed' \in [Ends -> [Clients -> SUBSET (Nat \ {0})]]
  BY DEF Close, TypeInv, TypeOK
<1>8. queued' \in [Clients -> Seq(Messages)]
  BY DEF Close, TypeInv, TypeOK
<1>9. wire' \in [Ends -> [Clients -> Seq(Messages)]]
  BY <1>0 DEF Close, TypeInv, TypeOK
<1> HIDE DEF left, p
<1>10. UNCHANGED <<alive, next, acking, decoder, msgQ, logs, stalled>>
  BY DEF Close
<1>11. TypeOK'
  BY <1>1, <1>4, <1>6, <1>7, <1>8, <1>9, <1>10 DEF TypeInv, TypeOK, logs, Links
<1>12. FiniteInv' /\ NoNullInv'
  BY <1>5, <1>10 DEF TypeInv, FiniteInv, NoNullInv
<1> QED BY <1>11, <1>12 DEF TypeInv

LEMMA TypeAsk ==
  ASSUME TypeInv, NEW c \in Clients, NEW service \in Services, Ask(c, service)
  PROVE  TypeInv'
<1> DEFINE r == [num |-> Len(asked[c]) + 1, service |-> service]
           n == next[c]
           m == Entry(c, n, Asking(r))
<1>0. c \in Processes /\ At(EndOf(c), c) = c
  BY ProcessFacts
<1>1. r \in Request /\ n \in Nat \ {0}
  BY <1>0 DEF TypeInv, TypeOK, Request
<1>2. Asking(r) \in Bodies
  BY <1>1, BodyFacts
<1>3. m \in Entries /\ m.conn = c /\ Frame(n, Asking(r)) \in Messages
  BY <1>1, <1>2, BoundsAssumption DEF Entry, Entries, Frame, Messages
<1>4. /\ next' = [next EXCEPT ![c] = @ + 1]
      /\ pending' = [pending EXCEPT ![c] = @ \cup {m}]
      /\ queued' = [queued EXCEPT ![c] = Append(@, Frame(n, Asking(r)))]
      /\ asked' = [asked EXCEPT ![c] = Append(@, r)]
      /\ UNCHANGED <<link, alive, processed, acking, wire, decoder, msgQ, served,
                     answered, stalled>>
  BY DEF Ask
<1> HIDE DEF r, n, m
<1>5. next' \in [Processes -> Nat \ {0}]
  BY <1>0, <1>4 DEF TypeInv, TypeOK
<1>6. pending' \in [Processes -> SUBSET Entries]
  BY <1>0, <1>3, <1>4 DEF TypeInv, TypeOK
<1>7. \A q \in Processes : \A x \in pending'[q] : At(EndOf(q), x.conn) = q
  BY <1>0, <1>3, <1>4 DEF TypeInv, TypeOK
<1>8. FiniteInv'
  BY <1>0, <1>4, FS_AddElement DEF TypeInv, TypeOK, FiniteInv
<1>9. queued' \in [Clients -> Seq(Messages)]
  BY <1>3, <1>4 DEF TypeInv, TypeOK
<1>10. asked' \in [Clients -> Seq(Request)]
  BY <1>1, <1>4 DEF TypeInv, TypeOK
<1> QED BY <1>4, <1>5, <1>6, <1>7, <1>8, <1>9, <1>10 DEF TypeInv, TypeOK, NoNullInv

LEMMA TypeSendInLoop ==
  ASSUME TypeInv, NEW c \in Clients, SendInLoop(c)
  PROVE  TypeInv'
<1>1. queued[c] \in Seq(Messages) /\ queued[c] # <<>>
  BY DEF SendInLoop, TypeInv, TypeOK
<1>2. Head(queued[c]) \in Messages /\ Tail(queued[c]) \in Seq(Messages)
  BY <1>1
<1>3. queued' \in [Clients -> Seq(Messages)]
  BY <1>2 DEF SendInLoop, TypeInv, TypeOK
<1>4. wire' \in [Ends -> [Clients -> Seq(Messages)]]
  <2>1. Write("client", c, <<Head(queued[c])>>) /\ <<Head(queued[c])>> \in Seq(Messages)
    BY <1>2 DEF SendInLoop
  <2>2. wire \in [Ends -> [Clients -> Seq(Messages)]] /\ "client" \in Ends
    BY ProcessFacts DEF TypeInv, TypeOK
  <2> QED BY <2>1, <2>2, WriteType
<1> QED BY <1>3, <1>4 DEF SendInLoop, TypeInv, TypeOK, FiniteInv, NoNullInv, manager, logs

\* What a scan does, as far as the invariants ask: X has timed out, kept is what
\* is left in the table, and of the messages `again' those of connection c are
\* written in the order o[c].
ScanEffect(p, X, again, kept, o) ==
  /\ X \subseteq pending[p] /\ X # {} /\ again \subseteq X
  /\ p \in Clients /\ ~Stalls => \A m \in X : ~Unwritten(m)
  /\ \A c \in Clients : stalled'[c] = (stalled[c] \/ (c = p /\ \E m \in X : Unwritten(m)))
  /\ stalled' \in [Clients -> BOOLEAN]
  /\ kept \subseteq Entries /\ IsFiniteSet(kept)
  /\ \A n \in kept : \E m \in pending[p] :
       n.conn = m.conn /\ n.seq = m.seq /\ n.body = m.body
  /\ pending' = [pending EXCEPT ![p] = kept]
  /\ wire' = [wire EXCEPT ![EndOf(p)] =
                [c \in Clients |-> Written(EndOf(p), c, Frames(o[c]))]]
  /\ \A c \in Clients :
       /\ Frames(o[c]) \in Seq(Messages)
       /\ \A i \in DOMAIN Frames(o[c]) : \E m \in again :
            m.conn = c /\ Frames(o[c])[i] = Frame(m.seq, m.body)
       /\ (\A m \in again : m.conn # c) => Frames(o[c]) = <<>>

LEMMA ScanStep ==
  ASSUME TypeInv, NEW p \in Processes, Scan(p)
  PROVE  \E X, again, kept, o : ScanEffect(p, X, again, kept, o)
<1>1. PICK X \in (SUBSET pending[p]) \ {{}} :
        LET again == {m \in X : Retryable(m)}
            kept  == (pending[p] \ X) \cup {[m EXCEPT !.tries = @ + 1] : m \in again}
        IN  /\ p \in Clients /\ ~Stalls => \A m \in X : ~Unwritten(m)
            /\ stalled' = [c \in Clients |->
                 stalled[c] \/ (c = p /\ \E m \in X : Unwritten(m))]
            /\ pending' = [pending EXCEPT ![p] = kept]
            /\ \E o \in ScanOrders(again) :
                 wire' = [wire EXCEPT ![EndOf(p)] =
                            [c \in Clients |-> Written(EndOf(p), c, Frames(o[c]))]]
  BY DEF Scan
<1> DEFINE again == {m \in X : Retryable(m)}
           kept  == (pending[p] \ X) \cup {[m EXCEPT !.tries = @ + 1] : m \in again}
<1>2. PICK o \in ScanOrders(again) :
        wire' = [wire EXCEPT ![EndOf(p)] =
                   [c \in Clients |-> Written(EndOf(p), c, Frames(o[c]))]]
  BY <1>1
<1>3. pending[p] \subseteq Entries /\ IsFiniteSet(pending[p]) /\ X \subseteq pending[p] /\ X # {}
  <2>1. pending \in [Processes -> SUBSET Entries] /\ IsFiniteSet(pending[p])
    BY DEF TypeInv, TypeOK, FiniteInv
  <2>2. X \subseteq pending[p] /\ X # {}
    OBVIOUS
  <2> QED BY <2>1, <2>2
<1>4. /\ kept \subseteq Entries /\ IsFiniteSet(kept) /\ IsFiniteSet(again)
      /\ \A n \in kept : \E m \in pending[p] :
           n.conn = m.conn /\ n.seq = m.seq /\ n.body = m.body
  <2> DEFINE f == [m \in again |-> [m EXCEPT !.tries = @ + 1]]
             T == {[m EXCEPT !.tries = @ + 1] : m \in again}
  <2>1. again \subseteq pending[p]
    BY <1>3
  <2>2. ASSUME NEW m \in again
        PROVE  /\ f[m] \in Entries /\ m \in pending[p]
               /\ f[m].conn = m.conn /\ f[m].seq = m.seq /\ f[m].body = m.body
    <3>1. m \in Entries /\ m.tries < MaxRetry /\ MaxRetry \in Nat
      BY <1>3, BoundsAssumption DEF Retryable
    <3>2. f[m] = [m EXCEPT !.tries = @ + 1]
      OBVIOUS
    <3> QED BY <2>1, <3>1, <3>2 DEF Entries
  <2>3. IsFiniteSet(again) /\ IsFiniteSet(pending[p] \ X)
    BY <1>3, <2>1, FS_Subset
  <2>4. f \in Surjection(again, T)
    BY DEF Surjection
  <2>5. IsFiniteSet(T)
    BY <2>3, <2>4, FS_Surjection
  <2>6. IsFiniteSet(kept)
    BY <2>3, <2>5, FS_Union
  <2>7. \A n \in kept : n \in pending[p] \/ \E m \in again : n = f[m]
    OBVIOUS
  <2> HIDE DEF f, T, again, kept
  <2>8. kept \subseteq Entries
    BY <1>3, <2>2, <2>7
  <2>9. \A n \in kept : \E m \in pending[p] :
           n.conn = m.conn /\ n.seq = m.seq /\ n.body = m.body
    BY <2>2, <2>7
  <2> QED BY <2>3, <2>6, <2>8, <2>9
<1>5. again \subseteq X /\ again \subseteq pending[p] /\ again \subseteq Entries
  BY <1>3
<1>6. /\ pending' = [pending EXCEPT ![p] = kept]
      /\ p \in Clients /\ ~Stalls => \A m \in X : ~Unwritten(m)
      /\ stalled' = [c \in Clients |-> stalled[c] \/ (c = p /\ \E m \in X : Unwritten(m))]
  BY <1>1
<1> HIDE DEF again, kept
<1>9. ASSUME NEW c \in Clients
      PROVE  /\ Frames(o[c]) \in Seq(Messages)
             /\ \A i \in DOMAIN Frames(o[c]) : \E m \in again :
                  m.conn = c /\ Frames(o[c])[i] = Frame(m.seq, m.body)
             /\ (\A m \in again : m.conn # c) => Frames(o[c]) = <<>>
  <2>1. /\ Frames(o[c]) \in Seq(Messages)
        /\ \A i \in DOMAIN Frames(o[c]) : \E m \in Of(c, again) :
             Frames(o[c])[i] = Frame(m.seq, m.body)
        /\ Of(c, again) = {} => Frames(o[c]) = <<>>
    BY <1>4, <1>5, ScanFrames
  <2>2. \A m \in Of(c, again) : m \in again /\ m.conn = c
    BY DEF Of
  <2>3. (\A m \in again : m.conn # c) => Of(c, again) = {}
    BY DEF Of
  <2> HIDE DEF Frames
  <2> QED BY <2>1, <2>2, <2>3
<1>10. /\ \A c \in Clients : stalled'[c] = (stalled[c] \/ (c = p /\ \E m \in X : Unwritten(m)))
       /\ stalled' \in [Clients -> BOOLEAN]
  BY <1>6 DEF TypeInv, TypeOK
<1>11. X \subseteq pending[p] /\ X # {} /\ again \subseteq X /\ kept \subseteq Entries
  BY <1>3, <1>4, <1>5
<1>12. \A n \in kept : \E m \in pending[p] :
         n.conn = m.conn /\ n.seq = m.seq /\ n.body = m.body
  BY <1>4
<1>13. ScanEffect(p, X, again, kept, o)
  BY <1>2, <1>4, <1>6, <1>9, <1>10, <1>11, <1>12 DEF ScanEffect
<1> QED BY <1>13

LEMMA TypeScan ==
  ASSUME TypeInv, NEW p \in Processes, Scan(p)
  PROVE  TypeInv'
<1>1. PICK X, again, kept, o : ScanEffect(p, X, again, kept, o)
  BY ScanStep
<1> USE DEF ScanEffect
<1>2. pending' \in [Processes -> SUBSET Entries]
  BY <1>1 DEF TypeInv, TypeOK
<1>3. \A q \in Processes : \A m \in pending'[q] : At(EndOf(q), m.conn) = q
  BY <1>1 DEF TypeInv, TypeOK
<1>4. FiniteInv'
  BY <1>1 DEF TypeInv, TypeOK, FiniteInv
<1>5. wire' \in [Ends -> [Clients -> Seq(Messages)]]
  <2>1. EndOf(p) \in Ends /\ wire \in [Ends -> [Clients -> Seq(Messages)]]
    BY ProcessFacts DEF TypeInv, TypeOK
  <2>2. \A c \in Clients : Written(EndOf(p), c, Frames(o[c])) \in Seq(Messages)
    BY <1>1, <2>1, WriteType
  <2> QED BY <1>1, <2>1, <2>2
<1>6. alive' \in [Processes -> BOOLEAN]
  BY DEF Scan, TypeInv, TypeOK
<1>7. UNCHANGED <<link, next, processed, acking, queued, decoder, msgQ, logs>>
  BY DEF Scan
<1>8. TypeOK'
  BY <1>1, <1>2, <1>3, <1>5, <1>6, <1>7 DEF TypeInv, TypeOK, logs
<1>9. NoNullInv'
  BY <1>7 DEF TypeInv, NoNullInv
<1> QED BY <1>4, <1>8, <1>9 DEF TypeInv

\* The first k elements of a sequence and the others.
LEMMA CutSeq ==
  ASSUME NEW S, NEW s \in Seq(S), NEW k \in 0 .. Len(s)
  PROVE  /\ SubSeq(s, 1, k) \in Seq(S) /\ Len(SubSeq(s, 1, k)) = k
         /\ \A i \in 1 .. k : SubSeq(s, 1, k)[i] = s[i]
         /\ SubSeq(s, k + 1, Len(s)) \in Seq(S)
         /\ Len(SubSeq(s, k + 1, Len(s))) = Len(s) - k
         /\ \A i \in 1 .. (Len(s) - k) : SubSeq(s, k + 1, Len(s))[i] = s[k + i]
<1>1. Len(s) \in Nat /\ \A i \in 1 .. Len(s) : s[i] \in S
  OBVIOUS
<1>2. SubSeq(s, 1, k) = [i \in 1 .. k |-> s[i]]
  BY <1>1
<1>3. SubSeq(s, k + 1, Len(s)) = [i \in 1 .. (Len(s) - k) |-> s[k + i]]
  BY <1>1
<1> QED BY <1>1, <1>2, <1>3

LEMMA TypeOnMessage ==
  ASSUME TypeInv, NEW e \in Ends, NEW c \in Clients,
         NEW k \in 0 .. Len(wire[Peer(e)][c]), NEW cut \in Cuts, OnMessage(e, c, k, cut)
  PROVE  TypeInv'
<1> DEFINE s == wire[Peer(e)][c]
           whole == SubSeq(s, 1, k)
           rest == SubSeq(s, k + 1, Len(s))
           p == At(e, c)
<1>0. p \in Processes /\ Peer(e) \in Ends
  BY ProcessFacts
<1>1. s \in Seq(Messages)
  BY <1>0 DEF TypeInv, TypeOK
<1>2. whole \in Seq(Messages) /\ rest \in Seq(Messages)
  BY <1>1, CutSeq
<1>3. wire' = [wire EXCEPT ![Peer(e)][c] = rest]
  BY <1>0 DEF OnMessage, TypeInv, TypeOK
<1>4. \/ /\ decoder' = [decoder EXCEPT ![p] = "dead"]
         /\ msgQ' = msgQ
      \/ /\ decoder' = [decoder EXCEPT ![p] = CASE cut = "frame" -> "clean"
                                                [] cut = "head"  -> c
                                                [] cut = "body"  -> "dead"]
         /\ msgQ' = [msgQ EXCEPT ![e][c] = whole]
         /\ \A i \in DOMAIN whole : whole[i].body # NoBody
  BY DEF OnMessage
<1>5. UNCHANGED <<link, alive, manager, queued, logs, stalled>>
  BY DEF OnMessage
<1> HIDE DEF s, whole, rest, p
<1>6. wire' \in [Ends -> [Clients -> Seq(Messages)]]
  BY <1>0, <1>2, <1>3 DEF TypeInv, TypeOK
<1>7. decoder' \in [Processes -> {"clean", "dead"} \cup Clients]
  BY <1>0, <1>4 DEF TypeInv, TypeOK, Cuts
<1>8. msgQ' \in [Ends -> [Clients -> Seq(Messages)]]
  <2>1. msgQ \in [Ends -> [Clients -> Seq(Messages)]]
    BY DEF TypeInv, TypeOK
  <2> QED BY <1>2, <1>4, <2>1, Update
<1>9. NoNullInv'
  <2>1. msgQ \in [Ends -> [Clients -> Seq(Messages)]]
    BY DEF TypeInv, TypeOK
  <2>2. CASE msgQ' = msgQ
    BY <2>2 DEF TypeInv, NoNullInv
  <2>3. CASE msgQ' = [msgQ EXCEPT ![e][c] = whole] /\ \A i \in DOMAIN whole : whole[i].body # NoBody
    <3>1. ASSUME NEW x \in Ends, NEW d \in Clients
          PROVE  msgQ'[x][d] = IF x = e /\ d = c THEN whole ELSE msgQ[x][d]
      BY <1>2, <2>1, <2>3, Update
    <3> QED BY <2>3, <3>1 DEF TypeInv, NoNullInv
  <2> QED BY <1>4, <2>2, <2>3
<1>10. TypeOK'
  BY <1>5, <1>6, <1>7, <1>8 DEF TypeInv, TypeOK, manager, logs
<1>11. FiniteInv'
  BY <1>5 DEF TypeInv, FiniteInv, manager
<1> QED BY <1>9, <1>10, <1>11 DEF TypeInv

LEMMA TypeDispatch ==
  ASSUME TypeInv, NEW e \in Ends, NEW c \in Clients, Dispatch(e, c)
  PROVE  TypeInv'
<1> DEFINE p == At(e, c)
           f == Head(msgQ[e][c])
           r == f.body.of
<1>0. /\ p \in Processes /\ At(EndOf(p), c) = p
      /\ wire \in [Ends -> [Clients -> Seq(Messages)]]
      /\ msgQ \in [Ends -> [Clients -> Seq(Messages)]]
      /\ next[p] \in Nat \ {0}
  BY ProcessFacts DEF TypeInv, TypeOK
<1>1. msgQ[e][c] # <<>> /\ msgQ' = [msgQ EXCEPT ![e][c] = Tail(@)]
  BY DEF Dispatch
<1>2. f \in Messages /\ f.body # NoBody
  <2>1. f = msgQ[e][c][1] /\ 1 \in DOMAIN msgQ[e][c] /\ f \in Messages
    BY <1>0, <1>1
  <2> QED BY <2>1 DEF TypeInv, NoNullInv
<1>3. r \in Request /\ f.seq \in Nat \ {0} /\ Answered(r) \in Bodies
  BY <1>2, BodyFacts DEF Messages
<1>4. /\ Frame(f.seq, AckBody) \in Messages
      /\ Frame(next[p], Answered(r)) \in Messages
  BY <1>0, <1>3, BodyFacts DEF Frame, Messages, AckBody
<1>5. Entry(c, next[p], Answered(r)) \in Entries /\ Entry(c, next[p], Answered(r)).conn = c
  BY <1>0, <1>3, BoundsAssumption DEF Entry, Entries
<1>6. UNCHANGED <<link, alive, queued, decoder, asked, stalled>>
  BY DEF Dispatch
<1>7. msgQ' \in [Ends -> [Clients -> Seq(Messages)]]
  <2>1. Tail(msgQ[e][c]) \in Seq(Messages)
    BY <1>0, <1>1
  <2> QED BY <1>0, <1>1, <2>1
<1>8. NoNullInv'
  <2>1. ASSUME NEW x \in Ends, NEW d \in Clients
        PROVE  msgQ'[x][d] = IF x = e /\ d = c THEN Tail(msgQ[e][c]) ELSE msgQ[x][d]
    BY <1>0, <1>1, Update
  <2>2. ASSUME NEW i \in DOMAIN Tail(msgQ[e][c])
        PROVE  Tail(msgQ[e][c])[i].body # NoBody
    <3>1. i + 1 \in DOMAIN msgQ[e][c] /\ Tail(msgQ[e][c])[i] = msgQ[e][c][i + 1]
      BY <1>0, <1>1
    <3> QED BY <3>1 DEF TypeInv, NoNullInv
  <2> DEFINE t == Tail(msgQ[e][c])
  <2> HIDE DEF t
  <2>3. ASSUME NEW x \in Ends, NEW d \in Clients
        PROVE  msgQ'[x][d] = IF x = e /\ d = c THEN t ELSE msgQ[x][d]
    BY <2>1 DEF t
  <2>4. \A i \in DOMAIN t : t[i].body # NoBody
    BY <2>2 DEF t
  <2> QED BY <2>3, <2>4 DEF TypeInv, NoNullInv
<1>9. CASE UNCHANGED <<manager, wire, served, answered>>
  <2>1. TypeOK'
    BY <1>6, <1>7, <1>9 DEF TypeInv, TypeOK, manager
  <2>2. FiniteInv'
    BY <1>9 DEF TypeInv, FiniteInv, manager
  <2> QED BY <1>8, <2>1, <2>2 DEF TypeInv
<1>10. CASE ~UNCHANGED <<manager, wire, served, answered>>
  <2>1. PICK ack \in {TRUE, acking[e][c] = FALSE} :
          LET acks == IF ack THEN <<Frame(f.seq, AckBody)>> ELSE <<>>
          IN  /\ acking' = [acking EXCEPT ![e][c] = TRUE]
              /\ IF Echoed(e, f)
                 THEN /\ next' = [next EXCEPT ![p] = @ + 1]
                      /\ pending' = [pending EXCEPT ![p] =
                                       @ \cup {Entry(c, next[p], Answered(r))}]
                      /\ Write(e, c, Append(acks, Frame(next[p], Answered(r))))
                 ELSE /\ UNCHANGED <<next, pending>>
                      /\ Write(e, c, acks)
    BY <1>10 DEF Dispatch
  <2>2. /\ processed' = [processed EXCEPT ![e][c] = @ \cup {f.seq}]
        /\ served' = IF e = "server"
                     THEN [served EXCEPT ![c] = Append(@, r)] ELSE served
        /\ answered' = IF e = "client" /\ f.body.kind = "answer"
                       THEN [answered EXCEPT ![c] = Append(@, r)] ELSE answered
    BY <1>10 DEF Dispatch
  <2> DEFINE acks == IF ack THEN <<Frame(f.seq, AckBody)>> ELSE <<>>
             m == Entry(c, next[p], Answered(r))
             g == Frame(next[p], Answered(r))
  <2>3. acks \in Seq(Messages) /\ Append(acks, g) \in Seq(Messages)
    BY <1>4
  <2>4. /\ acking' = [acking EXCEPT ![e][c] = TRUE]
        /\ \/ /\ next' = [next EXCEPT ![p] = @ + 1]
              /\ pending' = [pending EXCEPT ![p] = @ \cup {m}]
              /\ Write(e, c, Append(acks, g))
           \/ /\ UNCHANGED <<next, pending>>
              /\ Write(e, c, acks)
    BY <2>1
  <2>5. m \in Entries /\ m.conn = c
    BY <1>5
  <2> HIDE DEF acks, m, g, r, f, p
  <2>6. next' \in [Processes -> Nat \ {0}]
    BY <1>0, <2>4 DEF TypeInv, TypeOK
  <2>7. /\ pending' \in [Processes -> SUBSET Entries]
        /\ \A q \in Processes : pending'[q] = pending[q] \/ (q = p /\ pending'[q] = pending[q] \cup {m})
    <3>1. pending \in [Processes -> SUBSET Entries]
      BY DEF TypeInv, TypeOK
    <3>2. CASE pending' = pending
      BY <3>1, <3>2
    <3>3. CASE pending' = [pending EXCEPT ![p] = @ \cup {m}]
      BY <1>0, <2>5, <3>1, <3>3
    <3> QED BY <2>4, <3>2, <3>3
  <2>8. \A q \in Processes : \A x \in pending'[q] : At(EndOf(q), x.conn) = q
    <3>1. \A q \in Processes : \A x \in pending[q] : At(EndOf(q), x.conn) = q
      BY DEF TypeInv, TypeOK
    <3>2. At(EndOf(p), m.conn) = p
      BY <1>0, <2>5
    <3> QED BY <2>7, <3>1, <3>2
  <2>9. FiniteInv'
    BY <2>7, FS_AddElement DEF TypeInv, FiniteInv
  <2>10. wire' \in [Ends -> [Clients -> Seq(Messages)]]
    BY <1>0, <2>3, <2>4, WriteType
  <2>11. processed' \in [Ends -> [Clients -> SUBSET (Nat \ {0})]]
    BY <1>3, <2>2 DEF TypeInv, TypeOK
  <2>12. acking' \in [Ends -> [Clients -> BOOLEAN]]
    BY <2>4 DEF TypeInv, TypeOK
  <2>13. served' \in [Clients -> Seq(Request)] /\ answered' \in [Clients -> Seq(Request)]
    BY <1>3, <2>2 DEF TypeInv, TypeOK
  <2>14. TypeOK'
    BY <1>6, <1>7, <2>6, <2>7, <2>8, <2>10, <2>11, <2>12, <2>13 DEF TypeInv, TypeOK
  <2> QED BY <1>8, <2>9, <2>14 DEF TypeInv
<1> QED BY <1>9, <1>10

LEMMA TypeQuit == ASSUME TypeInv, Quit PROVE TypeInv'
<1>1. alive' \in [Processes -> BOOLEAN]
  BY ProcessFacts DEF Quit, TypeInv, TypeOK
<1> QED BY <1>1 DEF Quit, TypeInv, TypeOK, FiniteInv, NoNullInv, manager, logs

LEMMA TypeNext == TypeInv /\ [Next]_vars => TypeInv'
<1> SUFFICES ASSUME TypeInv, [Next]_vars PROVE TypeInv'
  OBVIOUS
<1>1. CASE UNCHANGED vars
  BY <1>1 DEF vars, TypeInv, TypeOK, FiniteInv, NoNullInv, manager, logs
<1> QED BY <1>1, TypeConnect, TypeClose, TypeAsk, TypeSendInLoop, TypeScan,
           TypeOnMessage, TypeDispatch, TypeQuit DEF Next

\* Every variable of the system stays within its type, whatever the number of
\* clients, services and requests: no message is retried more than MaxRetry times.
THEOREM TypeCorrect == Spec => []TypeOK
<1>1. TypeInv => TypeOK
  BY DEF TypeInv
<1> QED BY <1>1, TypeInit, TypeNext, PTL DEF Spec

-----------------------------------------------------------------------------
(* No answer arrives *)

\* What the server writes first on a connection is an acknowledgement, which
\* the client cannot read without losing its decoder.
Heralded(c) ==
  IF acking["server"][c]
  THEN \/ decoder[c] = "dead"
       \/ link["client"][c] = "down"
       \/ /\ wire["server"][c] # <<>>
          /\ wire["server"][c][1].body = NoBody
  ELSE /\ wire["server"][c] = <<>>
       /\ \A m \in pending[Server] : m.conn # c

SilentInv ==
  \A c \in Clients : msgQ["client"][c] = <<>> /\ answered[c] = <<>> /\ Heralded(c)

LEMMA SilentInit == Init => SilentInv
BY ProcessFacts DEF Init, SilentInv, Heralded

\* Steps that change nothing the invariant reads.
LEMMA SilentSame ==
  ASSUME TypeInv, SilentInv,
         UNCHANGED <<link, pending, acking, wire, decoder, msgQ, answered>>
  PROVE  SilentInv'
BY DEF SilentInv, Heralded

LEMMA SilentClose ==
  ASSUME TypeInv, SilentInv, NEW e \in Ends, NEW c \in Clients, Close(e, c)
  PROVE  SilentInv'
<1>0. /\ link \in [Ends -> [Clients -> Links]]
      /\ wire \in [Ends -> [Clients -> Seq(Messages)]]
      /\ pending \in [Processes -> SUBSET Entries]
  BY DEF TypeInv, TypeOK, Links
<1>1. \A x \in Ends, d \in Clients :
        link'[x][d] = IF x = e /\ d = c THEN "down" ELSE link[x][d]
  BY <1>0, Update DEF Close, Links
<1>2. \A x \in Ends, d \in Clients :
        wire'[x][d] = IF x = Peer(e) /\ d = c THEN <<>> ELSE wire[x][d]
  <2>1. <<>> \in Seq(Messages) /\ Peer(e) \in Ends
    BY ProcessFacts
  <2>2. wire' = [wire EXCEPT ![Peer(e)][c] = <<>>]
    BY DEF Close
  <2> QED BY <1>0, <2>1, <2>2, Update
<1>3. pending'[Server] \subseteq pending[Server]
  BY <1>0, ProcessFacts DEF Close
<1>4. UNCHANGED <<acking, decoder, msgQ, answered>>
  BY DEF Close, logs
<1> SUFFICES ASSUME NEW d \in Clients PROVE Heralded(d)'
  BY <1>4 DEF SilentInv
<1>5. Heralded(d)
  BY DEF SilentInv
<1>6. CASE e = "client"
  BY <1>1, <1>2, <1>3, <1>4, <1>5, <1>6, ProcessFacts DEF Heralded
<1>7. CASE e = "server"
  BY <1>1, <1>2, <1>3, <1>4, <1>5, <1>7, ProcessFacts DEF Heralded
<1> QED BY <1>6, <1>7, ProcessFacts

LEMMA SilentConnect ==
  ASSUME TypeInv, SilentInv, NEW e \in Ends, NEW c \in Clients, Connect(e, c)
  PROVE  SilentInv'
<1>1. \A x \in Ends, d \in Clients : link[x][d] = "down" => link'[x][d] = "down"
  BY Update DEF Connect, TypeInv, TypeOK
<1>2. UNCHANGED <<pending, acking, wire, decoder, msgQ, answered>>
  BY DEF Connect, manager, logs
<1> QED BY <1>1, <1>2, ProcessFacts DEF SilentInv, Heralded

LEMMA SilentAsk ==
  ASSUME TypeInv, SilentInv, NEW c \in Clients, NEW service \in Services, Ask(c, service)
  PROVE  SilentInv'
<1>1. pending'[Server] = pending[Server]
  BY ProcessFacts DEF Ask, TypeInv, TypeOK
<1>2. UNCHANGED <<link, acking, wire, decoder, msgQ, answered>>
  BY DEF Ask
<1> QED BY <1>1, <1>2 DEF SilentInv, Heralded

\* What is written on a wire leaves its first frame where it is.
LEMMA WrittenHead ==
  ASSUME wire \in [Ends -> [Clients -> Seq(Messages)]],
         NEW e \in Ends, NEW c \in Clients, NEW fs \in Seq(Messages)
  PROVE  /\ wire[e][c] # <<>> => /\ Written(e, c, fs) # <<>>
                                 /\ Written(e, c, fs)[1] = wire[e][c][1]
         /\ wire[e][c] = <<>> => \/ Written(e, c, fs) = fs
                                 \/ Written(e, c, fs) = <<>> /\ link[Peer(e)][c] = "down"
         /\ fs = <<>> => Written(e, c, fs) = wire[e][c]
<1> DEFINE w == wire[e][c]
<1>1. w \in Seq(Messages)
  OBVIOUS
<1>2. Written(e, c, fs) = IF link[Peer(e)][c] = "down" THEN w ELSE w \o fs
  BY DEF Written
<1> HIDE DEF w
<1>3. w # <<>> => w \o fs # <<>> /\ (w \o fs)[1] = w[1]
  BY <1>1
<1>4. (w = <<>> => w \o fs = fs) /\ (fs = <<>> => w \o fs = w)
  BY <1>1
<1>5. /\ w # <<>> => /\ Written(e, c, fs) # <<>>
                     /\ Written(e, c, fs)[1] = w[1]
      /\ w = <<>> => \/ Written(e, c, fs) = fs
                     \/ Written(e, c, fs) = <<>> /\ link[Peer(e)][c] = "down"
      /\ fs = <<>> => Written(e, c, fs) = w
  BY <1>2, <1>3, <1>4
<1> QED BY <1>5 DEF w

LEMMA SilentSendInLoop ==
  ASSUME TypeInv, SilentInv, NEW c \in Clients, SendInLoop(c)
  PROVE  SilentInv'
<1>1. wire'["server"] = wire["server"]
  BY ProcessFacts DEF SendInLoop, Write, TypeInv, TypeOK
<1>2. UNCHANGED <<link, pending, acking, decoder, msgQ, answered>>
  BY DEF SendInLoop, manager, logs
<1> QED BY <1>1, <1>2 DEF SilentInv, Heralded

LEMMA SilentScan ==
  ASSUME TypeInv, SilentInv, NEW p \in Processes, Scan(p)
  PROVE  SilentInv'
<1>1. PICK X, again, kept, o : ScanEffect(p, X, again, kept, o)
  BY ScanStep
<1>0. /\ wire \in [Ends -> [Clients -> Seq(Messages)]]
      /\ pending \in [Processes -> SUBSET Entries]
  BY DEF TypeInv, TypeOK
<1>2. UNCHANGED <<link, acking, decoder, msgQ, answered>>
  BY DEF Scan, logs
<1> SUFFICES ASSUME NEW c \in Clients PROVE Heralded(c)'
  BY <1>2 DEF SilentInv
<1>3. Heralded(c)
  BY DEF SilentInv
<1>4. CASE p # Server
  <2>1. EndOf(p) = "client" /\ "server" # EndOf(p)
    BY <1>4 DEF EndOf
  <2>2. wire'["server"] = wire["server"] /\ pending'[Server] = pending[Server]
    BY <1>0, <1>1, <1>4, <2>1, ProcessFacts DEF ScanEffect
  <2> QED BY <1>2, <1>3, <2>2 DEF Heralded
<1>5. CASE p = Server
  <2>1. /\ wire'["server"][c] = Written("server", c, Frames(o[c]))
        /\ Frames(o[c]) \in Seq(Messages)
        /\ (\A m \in again : m.conn # c) => Frames(o[c]) = <<>>
    BY <1>0, <1>1, <1>5, ProcessFacts DEF ScanEffect
  <2>2. /\ \A n \in pending'[Server] : \E m \in pending[Server] : n.conn = m.conn
        /\ again \subseteq pending[Server]
    BY <1>0, <1>1, <1>5 DEF ScanEffect
  <2> DEFINE fs == Frames(o[c])
             w == Written("server", c, fs)
  <2>3. /\ wire["server"][c] # <<>> => w # <<>> /\ w[1] = wire["server"][c][1]
        /\ fs = <<>> => w = wire["server"][c]
    BY <1>0, <2>1, WrittenHead, ProcessFacts
  <2>4. wire'["server"][c] = w /\ ((\A m \in again : m.conn # c) => fs = <<>>)
    BY <2>1
  <2> HIDE DEF w, fs
  <2> QED BY <1>2, <1>3, <2>2, <2>3, <2>4 DEF Heralded
<1> QED BY <1>4, <1>5

LEMMA SilentOnMessage ==
  ASSUME TypeInv, SilentInv, NEW e \in Ends, NEW c \in Clients,
         NEW k \in 0 .. Len(wire[Peer(e)][c]), NEW cut \in Cuts, OnMessage(e, c, k, cut)
  PROVE  SilentInv'
<1> DEFINE s == wire[Peer(e)][c]
           whole == SubSeq(s, 1, k)
           rest == SubSeq(s, k + 1, Len(s))
<1>0. /\ Peer(e) \in Ends
      /\ wire \in [Ends -> [Clients -> Seq(Messages)]]
      /\ msgQ \in [Ends -> [Clients -> Seq(Messages)]]
      /\ decoder \in [Processes -> {"clean", "dead"} \cup Clients]
  BY ProcessFacts DEF TypeInv, TypeOK
<1>1. /\ s \in Seq(Messages) /\ k \in 0 .. Len(s)
      /\ whole \in Seq(Messages) /\ rest \in Seq(Messages)
  BY <1>0, CutSeq
<1>2. UNCHANGED <<link, pending, acking, answered>>
  BY DEF OnMessage, manager, logs
<1>3. wire' = [wire EXCEPT ![Peer(e)][c] = rest]
  BY <1>0 DEF OnMessage
<1>4. \A x \in Ends, d \in Clients :
        wire'[x][d] = IF x = Peer(e) /\ d = c THEN rest ELSE wire[x][d]
  BY <1>0, <1>1, <1>3, Update
<1>5. CASE e = "server"
  <2>1. wire'["server"] = wire["server"] /\ msgQ'["client"] = msgQ["client"]
    BY <1>0, <1>3, <1>5, ProcessFacts DEF OnMessage
  <2>2. \A d \in Clients : decoder'[d] = decoder[d]
    BY <1>0, <1>5, ProcessFacts DEF OnMessage
  <2> QED BY <1>2, <2>1, <2>2 DEF SilentInv, Heralded
<1>6. CASE e = "client"
  <2>0. At(e, c) = c /\ Peer(e) = "server" /\ c \in Processes /\ s = wire["server"][c]
    BY <1>6, ProcessFacts
  <2>1. Heralded(c) /\ msgQ["client"][c] = <<>>
    BY DEF SilentInv
  <2>2. acking["server"][c] /\ (decoder[c] = "dead" \/ (s # <<>> /\ s[1].body = NoBody))
    <3>1. link["client"][c] = "up"
      BY <1>6, <2>0 DEF OnMessage
    <3>2. s # <<>>
      BY <1>1 DEF OnMessage
    <3> QED BY <2>0, <2>1, <3>1, <3>2 DEF Heralded
  <2>3. \/ decoder' = [decoder EXCEPT ![c] = "dead"] /\ msgQ' = msgQ
        \/ /\ decoder[c] \in {"clean", c}
           /\ \A i \in DOMAIN whole : whole[i].body # NoBody
           /\ \E v : decoder' = [decoder EXCEPT ![c] = v]
           /\ msgQ' = [msgQ EXCEPT ![e][c] = whole]
    BY <2>0 DEF OnMessage
  <2> HIDE DEF s, whole, rest
  <2>4. CASE decoder' = [decoder EXCEPT ![c] = "dead"] /\ msgQ' = msgQ
    <3>1. decoder'[c] = "dead" /\ \A d \in Clients : d # c => decoder'[d] = decoder[d]
      BY <1>0, <2>0, <2>4, ProcessFacts
    <3>2. \A d \in Clients : d # c => wire'["server"][d] = wire["server"][d]
      BY <1>4, ProcessFacts
    <3>3. Heralded(c)'
      BY <1>2, <2>2, <3>1 DEF Heralded
    <3>4. ASSUME NEW d \in Clients, d # c PROVE Heralded(d)'
      BY <1>2, <3>1, <3>2, <3>4 DEF SilentInv, Heralded
    <3> QED BY <1>2, <2>4, <3>3, <3>4 DEF SilentInv
  <2>5. CASE /\ decoder[c] \in {"clean", c}
             /\ \A i \in DOMAIN whole : whole[i].body # NoBody
             /\ \E v : decoder' = [decoder EXCEPT ![c] = v]
             /\ msgQ' = [msgQ EXCEPT ![e][c] = whole]
    <3>1. s # <<>> /\ s[1].body = NoBody
      BY <2>2, <2>5, ProcessFacts
    <3>2. k = 0
      <4>1. ASSUME k # 0 PROVE whole[1] = s[1] /\ 1 \in DOMAIN whole
        BY <1>1, <4>1, CutSeq DEF whole
      <4> QED BY <2>5, <3>1, <4>1
    <3>3. whole = <<>> /\ rest = s
      BY <1>1, <3>2, CutSeq DEF whole, rest
    <3>4. wire' = wire /\ msgQ'["client"][c] = <<>>
      BY <1>0, <1>3, <1>6, <2>5, <3>3, ProcessFacts DEF s
    <3>5. \A d \in Clients : d # c => decoder'[d] = decoder[d] /\ msgQ'["client"][d] = msgQ["client"][d]
      BY <1>0, <2>5, ProcessFacts
    <3>6. Heralded(c)'
      BY <1>2, <2>0, <2>1, <3>1, <3>4, <3>5 DEF Heralded, s
    <3>7. ASSUME NEW d \in Clients, d # c PROVE Heralded(d)' /\ msgQ'["client"][d] = <<>>
      BY <1>2, <3>4, <3>5, <3>7 DEF SilentInv, Heralded
    <3>8. \A d \in Clients : answered'[d] = <<>>
      BY <1>2 DEF SilentInv
    <3> QED BY <3>4, <3>6, <3>7, <3>8 DEF SilentInv
  <2> QED BY <2>3, <2>4, <2>5
<1> QED BY <1>5, <1>6, ProcessFacts

LEMMA SilentDispatch ==
  ASSUME TypeInv, SilentInv, NEW e \in Ends, NEW c \in Clients, Dispatch(e, c)
  PROVE  SilentInv'
<1> DEFINE f == Head(msgQ[e][c])
           r == f.body.of
           g == Frame(next[Server], Answered(r))
           m == Entry(c, next[Server], Answered(r))
<1>0. /\ wire \in [Ends -> [Clients -> Seq(Messages)]]
      /\ msgQ \in [Ends -> [Clients -> Seq(Messages)]]
      /\ acking \in [Ends -> [Clients -> BOOLEAN]]
      /\ pending \in [Processes -> SUBSET Entries]
      /\ next[Server] \in Nat \ {0}
  BY ProcessFacts DEF TypeInv, TypeOK
<1>1. msgQ[e][c] # <<>> /\ msgQ' = [msgQ EXCEPT ![e][c] = Tail(@)]
  BY DEF Dispatch
<1>2. e = "server" /\ At(e, c) = Server /\ e # "client" /\ "client" \in Ends
  BY <1>1, ProcessFacts DEF SilentInv
<1>3. UNCHANGED <<link, decoder>> /\ msgQ'["client"] = msgQ["client"] /\ answered' = answered
  BY <1>0, <1>1, <1>2 DEF Dispatch
<1>4. f \in Messages /\ r \in Request
  <2>1. f = msgQ[e][c][1] /\ 1 \in DOMAIN msgQ[e][c] /\ f \in Messages
    BY <1>0, <1>1
  <2>2. f.body # NoBody
    BY <2>1 DEF TypeInv, NoNullInv
  <2> QED BY <2>1, <2>2, BodyFacts DEF Messages
<1>5. Frame(f.seq, NoBody) \in Messages /\ g \in Messages
  BY <1>0, <1>4, BodyFacts DEF Frame, Messages
<1>6. CASE UNCHANGED <<manager, wire, served, answered>>
  BY <1>3, <1>6 DEF SilentInv, Heralded, manager
<1>7. CASE ~UNCHANGED <<manager, wire, served, answered>>
  <2>1. PICK ack \in {TRUE, acking[e][c] = FALSE} :
          LET acks == IF ack THEN <<Frame(f.seq, AckBody)>> ELSE <<>>
          IN  /\ acking' = [acking EXCEPT ![e][c] = TRUE]
              /\ IF Echoed(e, f)
                 THEN /\ next' = [next EXCEPT ![At(e, c)] = @ + 1]
                      /\ pending' = [pending EXCEPT ![At(e, c)] =
                                       @ \cup {Entry(c, next[At(e, c)], Answered(r))}]
                      /\ Write(e, c, Append(acks, Frame(next[At(e, c)], Answered(r))))
                 ELSE /\ UNCHANGED <<next, pending>>
                      /\ Write(e, c, acks)
    BY <1>7 DEF Dispatch
  <2> DEFINE acks == IF ack THEN <<Frame(f.seq, NoBody)>> ELSE <<>>
  <2>2. /\ acking' = [acking EXCEPT ![e][c] = TRUE]
        /\ \/ /\ pending' = [pending EXCEPT ![Server] = @ \cup {m}]
              /\ Write(e, c, Append(acks, g))
           \/ /\ pending' = pending
              /\ Write(e, c, acks)
    BY <1>2, <2>1 DEF AckBody
  <2>3. acks \in Seq(Messages) /\ (ack => acks # <<>> /\ acks[1].body = NoBody)
    BY <1>5, FrameFacts
  <2> HIDE DEF acks, g, m
  <2>4. PICK fs \in Seq(Messages) :
          Write(e, c, fs) /\ (ack => fs # <<>> /\ fs[1].body = NoBody)
    <3>1. Append(acks, g) \in Seq(Messages)
          /\ (ack => Append(acks, g) # <<>> /\ Append(acks, g)[1].body = NoBody)
      BY <1>5, <2>3
    <3> QED BY <2>2, <2>3, <3>1
  <2>5. /\ wire'["server"][c] = Written("server", c, fs)
        /\ \A d \in Clients : d # c => wire'["server"][d] = wire["server"][d]
    <3>1. wire' = [wire EXCEPT !["server"][c] = Written("server", c, fs)]
      BY <1>2, <2>4 DEF Write
    <3>2. Written("server", c, fs) \in Seq(Messages)
      BY <1>0, <1>2, WriteType
    <3> QED BY <1>0, <1>2, <3>1, <3>2, Update
  <2>6. /\ acking'["server"][c] = TRUE
        /\ \A d \in Clients : d # c => acking'["server"][d] = acking["server"][d]
    BY <1>0, <1>2, <2>2, Update
  <2>7. ASSUME NEW d \in Clients, d # c, \A x \in pending[Server] : x.conn # d
        PROVE  \A x \in pending'[Server] : x.conn # d
    <3>1. m.conn = c
      BY DEF Entry, m
    <3> QED BY <1>0, <2>2, <2>7, <3>1, ProcessFacts
  <2>8. ASSUME NEW d \in Clients, d # c PROVE Heralded(d)'
    BY <1>3, <2>5, <2>6, <2>7, <2>8 DEF SilentInv, Heralded
  <2>9. Heralded(c)'
    <3> DEFINE w == Written("server", c, fs)
    <3>1. /\ wire["server"][c] # <<>> => w # <<>> /\ w[1] = wire["server"][c][1]
          /\ wire["server"][c] = <<>> => w = fs \/ (w = <<>> /\ link["client"][c] = "down")
      BY <1>0, <1>2, WrittenHead, ProcessFacts
    <3>2. Heralded(c) /\ (~acking["server"][c] => ack)
      BY <1>0, <1>2 DEF SilentInv
    <3>3. wire'["server"][c] = w
      BY <2>5
    <3> HIDE DEF w
    <3> QED BY <1>3, <2>4, <2>6, <3>1, <3>2, <3>3 DEF Heralded
  <2> QED BY <1>3, <2>8, <2>9 DEF SilentInv
<1> QED BY <1>6, <1>7

LEMMA SilentQuit == ASSUME TypeInv, SilentInv, Quit PROVE SilentInv'
BY SilentSame DEF Quit, manager, logs

LEMMA SilentNext == TypeInv /\ SilentInv /\ [Next]_vars => SilentInv'
<1> SUFFICES ASSUME TypeInv, SilentInv, [Next]_vars PROVE SilentInv'
  OBVIOUS
<1>1. CASE UNCHANGED vars
  BY <1>1, SilentSame DEF vars, manager, logs
<1> QED BY <1>1, SilentConnect, SilentClose, SilentAsk, SilentSendInLoop, SilentScan,
           SilentOnMessage, SilentDispatch, SilentQuit DEF Next

\* No client ever receives an answer: the acknowledgement of its first message,
\* which the server writes before anything else, ends the client's decoder.
THEOREM NoAnswer == Spec => []NoAnswerArrives
<1>1. SilentInv => NoAnswerArrives
  BY DEF SilentInv, NoAnswerArrives
<1> QED BY <1>1, TypeInit, TypeNext, SilentInit, SilentNext, PTL DEF Spec

-----------------------------------------------------------------------------
(* Sequences of numbered messages *)

Nums(s) == {s[i].seq : i \in DOMAIN s}

\* Every lower number than that of a message of s is in P or comes before it.
Preceded(P, s) ==
  \A j \in DOMAIN s : \A n \in 1 .. (s[j].seq - 1) :
    n \in P \/ \E i \in 1 .. (j - 1) : s[i].seq = n

Closed(P) == \A n \in P : \A k \in 1 .. (n - 1) : k \in P

LEMMA PrecededMore ==
  ASSUME NEW P, NEW Q, P \subseteq Q, NEW s, Preceded(P, s)
  PROVE  Preceded(Q, s)
BY DEF Preceded

LEMMA PrecededEmpty == ASSUME NEW P PROVE Preceded(P, <<>>) /\ Nums(<<>>) = {}
BY DEF Preceded, Nums

LEMMA PrecededAll ==
  ASSUME NEW P, NEW s, \A j \in DOMAIN s : \A n \in 1 .. (s[j].seq - 1) : n \in P
  PROVE  Preceded(P, s)
BY DEF Preceded

LEMMA PrecededClosed ==
  ASSUME NEW P, NEW s \in Seq(Messages), Closed(P), Preceded(P, s)
  PROVE  Closed(P \cup Nums(s))
<1> SUFFICES ASSUME NEW n \in P \cup Nums(s), NEW k \in 1 .. (n - 1)
             PROVE  k \in P \cup Nums(s)
  BY DEF Closed
<1>1. CASE n \in P
  BY <1>1 DEF Closed
<1>2. CASE n \in Nums(s)
  <2>1. PICK j \in DOMAIN s : s[j].seq = n
    BY <1>2 DEF Nums
  <2>2. k \in P \/ \E i \in 1 .. (j - 1) : s[i].seq = k
    BY <2>1 DEF Preceded
  <2>3. \A i \in 1 .. (j - 1) : i \in DOMAIN s
    BY <2>1
  <2> QED BY <2>2, <2>3 DEF Nums
<1> QED BY <1>1, <1>2

\* Two sequences, one behind the other.
LEMMA PrecededConcat ==
  ASSUME NEW P, NEW s \in Seq(Messages), NEW t \in Seq(Messages),
         Preceded(P, s), Preceded(P \cup Nums(s), t)
  PROVE  Preceded(P, s \o t)
<1> DEFINE u == s \o t
<1>1. /\ Len(s) \in Nat /\ DOMAIN s = 1 .. Len(s) /\ DOMAIN t = 1 .. Len(t) /\ Len(t) \in Nat
      /\ DOMAIN u = 1 .. (Len(s) + Len(t))
      /\ \A i \in 1 .. Len(s) : u[i] = s[i]
      /\ \A i \in 1 .. Len(t) : u[Len(s) + i] = t[i]
  OBVIOUS
<1> HIDE DEF u
<1> SUFFICES ASSUME NEW j \in DOMAIN u, NEW n \in 1 .. (u[j].seq - 1)
             PROVE  n \in P \/ \E i \in 1 .. (j - 1) : u[i].seq = n
  BY DEF Preceded, u
<1>2. CASE j <= Len(s)
  <2>1. j \in DOMAIN s /\ u[j] = s[j]
    BY <1>1, <1>2
  <2>2. n \in P \/ \E i \in 1 .. (j - 1) : s[i].seq = n
    BY <2>1 DEF Preceded
  <2>3. \A i \in 1 .. (j - 1) : u[i] = s[i]
    BY <1>1, <2>1
  <2> QED BY <2>2, <2>3
<1>3. CASE j > Len(s)
  <2> DEFINE l == j - Len(s)
  <2>1. l \in DOMAIN t /\ u[j] = t[l]
    BY <1>1, <1>3
  <2>2. (n \in P \/ n \in Nums(s)) \/ \E i \in 1 .. (l - 1) : t[i].seq = n
    BY <2>1 DEF Preceded
  <2>3. CASE n \in P
    BY <2>3
  <2>4. CASE n \in Nums(s)
    <3>1. PICK i \in DOMAIN s : s[i].seq = n
      BY <2>4 DEF Nums
    <3>2. i \in 1 .. (j - 1) /\ u[i] = s[i]
      BY <1>1, <1>3
    <3> QED BY <3>1, <3>2
  <2>5. CASE \E i \in 1 .. (l - 1) : t[i].seq = n
    <3>1. PICK i \in 1 .. (l - 1) : t[i].seq = n
      BY <2>5
    <3>2. Len(s) + i \in 1 .. (j - 1) /\ u[Len(s) + i] = t[i]
      BY <1>1, <1>3, <2>1
    <3> QED BY <3>1, <3>2
  <2> QED BY <2>2, <2>3, <2>4, <2>5
<1> QED BY <1>1, <1>2, <1>3

LEMMA NumsConcat ==
  ASSUME NEW s \in Seq(Messages), NEW t \in Seq(Messages)
  PROVE  Nums(s \o t) = Nums(s) \cup Nums(t)
<1> DEFINE u == s \o t
<1>1. /\ Len(s) \in Nat /\ DOMAIN s = 1 .. Len(s) /\ DOMAIN t = 1 .. Len(t) /\ Len(t) \in Nat
      /\ DOMAIN u = 1 .. (Len(s) + Len(t))
      /\ \A i \in 1 .. Len(s) : u[i] = s[i]
      /\ \A i \in 1 .. Len(t) : u[Len(s) + i] = t[i]
  OBVIOUS
<1> HIDE DEF u
<1>2. ASSUME NEW i \in DOMAIN u
      PROVE  u[i].seq \in Nums(s) \cup Nums(t)
  <2>1. CASE i <= Len(s)
    BY <1>1, <2>1 DEF Nums
  <2>2. CASE i > Len(s)
    <3>1. i - Len(s) \in DOMAIN t /\ u[i] = t[i - Len(s)]
      BY <1>1, <2>2
    <3> QED BY <3>1 DEF Nums
  <2> QED BY <1>1, <2>1, <2>2
<1>3. ASSUME NEW i \in DOMAIN s PROVE s[i].seq \in Nums(u)
  BY <1>1 DEF Nums
<1>4. ASSUME NEW i \in DOMAIN t PROVE t[i].seq \in Nums(u)
  <2>1. Len(s) + i \in DOMAIN u /\ u[Len(s) + i] = t[i]
    BY <1>1
  <2> QED BY <2>1 DEF Nums
<1>5. Nums(u) \subseteq Nums(s) \cup Nums(t)
  BY <1>2 DEF Nums
<1>6. Nums(s) \cup Nums(t) \subseteq Nums(u)
  BY <1>3, <1>4 DEF Nums
<1> QED BY <1>5, <1>6 DEF u

\* A sequence cut in two.
LEMMA PrecededCut ==
  ASSUME NEW P, NEW s \in Seq(Messages), NEW k \in 0 .. Len(s), Preceded(P, s)
  PROVE  /\ Preceded(P, SubSeq(s, 1, k))
         /\ Preceded(P \cup Nums(SubSeq(s, 1, k)), SubSeq(s, k + 1, Len(s)))
<1> DEFINE a == SubSeq(s, 1, k)
           b == SubSeq(s, k + 1, Len(s))
<1>1. /\ Len(s) \in Nat /\ DOMAIN s = 1 .. Len(s) /\ DOMAIN a = 1 .. k
      /\ DOMAIN b = 1 .. (Len(s) - k)
      /\ \A i \in 1 .. k : a[i] = s[i]
      /\ \A i \in 1 .. (Len(s) - k) : b[i] = s[k + i]
  BY CutSeq
<1> HIDE DEF a, b
<1>2. Preceded(P, a)
  <2> SUFFICES ASSUME NEW j \in DOMAIN a, NEW n \in 1 .. (a[j].seq - 1)
               PROVE  n \in P \/ \E i \in 1 .. (j - 1) : a[i].seq = n
    BY DEF Preceded
  <2>1. j \in DOMAIN s /\ a[j] = s[j] /\ \A i \in 1 .. (j - 1) : a[i] = s[i]
    BY <1>1
  <2> QED BY <2>1 DEF Preceded
<1>3. Preceded(P \cup Nums(a), b)
  <2> SUFFICES ASSUME NEW j \in DOMAIN b, NEW n \in 1 .. (b[j].seq - 1)
               PROVE  (n \in P \/ n \in Nums(a)) \/ \E i \in 1 .. (j - 1) : b[i].seq = n
    BY DEF Preceded
  <2> DEFINE x == k + j
  <2>0. x \in Nat /\ x - 1 = k + j - 1 /\ j \in Nat
    BY <1>1
  <2>1. x \in DOMAIN s /\ b[j] = s[x]
    BY <1>1
  <2> HIDE DEF x
  <2>2. n \in P \/ \E i \in 1 .. (x - 1) : s[i].seq = n
    BY <2>1 DEF Preceded
  <2>3. ASSUME NEW i \in 1 .. (x - 1), s[i].seq = n
        PROVE  n \in Nums(a) \/ \E l \in 1 .. (j - 1) : b[l].seq = n
    <3>0. i \in Nat /\ i <= k + j - 1 /\ i >= 1
      BY <2>0
    <3>1. CASE i <= k
      <4>1. i \in DOMAIN a /\ a[i] = s[i]
        BY <1>1, <3>0, <3>1
      <4>2. n \in Nums(a)
        BY <2>3, <4>1 DEF Nums
      <4> QED BY <4>2
    <3>2. CASE i > k
      <4>1. i - k \in 1 .. (j - 1) /\ b[i - k] = s[i]
        BY <1>1, <2>0, <3>0, <3>2
      <4> QED BY <2>3, <4>1
    <3> QED BY <3>0, <3>1, <3>2
  <2> QED BY <2>2, <2>3
<1> QED BY <1>2, <1>3 DEF a, b

LEMMA NumsCut ==
  ASSUME NEW s \in Seq(Messages), NEW k \in 0 .. Len(s)
  PROVE  Nums(s) = Nums(SubSeq(s, 1, k)) \cup Nums(SubSeq(s, k + 1, Len(s)))
<1> DEFINE a == SubSeq(s, 1, k)
           b == SubSeq(s, k + 1, Len(s))
<1>1. /\ Len(s) \in Nat /\ DOMAIN s = 1 .. Len(s) /\ DOMAIN a = 1 .. k
      /\ DOMAIN b = 1 .. (Len(s) - k)
      /\ \A i \in 1 .. k : a[i] = s[i]
      /\ \A i \in 1 .. (Len(s) - k) : b[i] = s[k + i]
  BY CutSeq
<1> HIDE DEF a, b
<1>2. ASSUME NEW i \in DOMAIN s PROVE s[i].seq \in Nums(a) \cup Nums(b)
  <2>1. CASE i <= k
    BY <1>1, <2>1 DEF Nums
  <2>2. CASE i > k
    <3>1. i - k \in DOMAIN b /\ b[i - k] = s[i]
      BY <1>1, <2>2
    <3> QED BY <3>1 DEF Nums
  <2> QED BY <1>1, <2>1, <2>2
<1>3. ASSUME NEW i \in DOMAIN a PROVE a[i].seq \in Nums(s)
  BY <1>1 DEF Nums
<1>4. ASSUME NEW i \in DOMAIN b PROVE b[i].seq \in Nums(s)
  <2>1. k + i \in DOMAIN s /\ b[i] = s[k + i]
    BY <1>1
  <2> QED BY <2>1 DEF Nums
<1>5. Nums(s) \subseteq Nums(a) \cup Nums(b)
  BY <1>2 DEF Nums
<1>6. Nums(a) \cup Nums(b) \subseteq Nums(s)
  BY <1>3, <1>4 DEF Nums
<1> QED BY <1>5, <1>6 DEF a, b

\* A sequence without its first message.
LEMMA NumsTail ==
  ASSUME NEW s \in Seq(Messages), s # <<>>
  PROVE  Nums(s) = {Head(s).seq} \cup Nums(Tail(s))
<1> DEFINE t == Tail(s)
<1>0. /\ Len(s) \in Nat /\ Len(s) > 0 /\ DOMAIN s = 1 .. Len(s)
      /\ Head(s) = s[1]
      /\ DOMAIN t = 1 .. (Len(s) - 1)
      /\ \A i \in 1 .. (Len(s) - 1) : t[i] = s[i + 1]
  OBVIOUS
<1> HIDE DEF t
<1>1. ASSUME NEW i \in DOMAIN s PROVE s[i].seq \in {Head(s).seq} \cup Nums(t)
  <2>1. CASE i = 1
    BY <1>0, <2>1
  <2>2. CASE i # 1
    <3>1. i - 1 \in DOMAIN t /\ t[i - 1] = s[i]
      BY <1>0, <2>2
    <3> QED BY <3>1 DEF Nums
  <2> QED BY <2>1, <2>2
<1>2. ASSUME NEW i \in DOMAIN t PROVE t[i].seq \in Nums(s)
  <2>1. i + 1 \in DOMAIN s /\ t[i] = s[i + 1]
    BY <1>0
  <2> QED BY <2>1 DEF Nums
<1>3. Head(s).seq \in Nums(s)
  BY <1>0 DEF Nums
<1>4. Nums(s) \subseteq {Head(s).seq} \cup Nums(t)
  BY <1>1 DEF Nums
<1>5. Nums(t) \subseteq Nums(s)
  BY <1>2 DEF Nums
<1> QED BY <1>3, <1>4, <1>5 DEF t

LEMMA PrecededTail ==
  ASSUME NEW P, NEW s \in Seq(Messages), s # <<>>, Preceded(P, s)
  PROVE  /\ \A n \in 1 .. (Head(s).seq - 1) : n \in P
         /\ Preceded(P \cup {Head(s).seq}, Tail(s))
         /\ Nums(s) = {Head(s).seq} \cup Nums(Tail(s))
<1> DEFINE t == Tail(s)
<1>1. /\ Len(s) \in Nat /\ Len(s) > 0 /\ DOMAIN s = 1 .. Len(s)
      /\ Head(s) = s[1]
      /\ DOMAIN t = 1 .. (Len(s) - 1)
      /\ \A i \in 1 .. (Len(s) - 1) : t[i] = s[i + 1]
  OBVIOUS
<1> HIDE DEF t
<1>2. \A n \in 1 .. (Head(s).seq - 1) : n \in P
  BY <1>1 DEF Preceded
<1>3. Preceded(P \cup {Head(s).seq}, t)
  <2> SUFFICES ASSUME NEW j \in DOMAIN t, NEW n \in 1 .. (t[j].seq - 1)
               PROVE  (n \in P \/ n = Head(s).seq) \/ \E i \in 1 .. (j - 1) : t[i].seq = n
    BY DEF Preceded
  <2>1. j + 1 \in DOMAIN s /\ t[j] = s[j + 1]
    BY <1>1
  <2>2. n \in P \/ \E i \in 1 .. j : s[i].seq = n
    BY <1>1, <2>1 DEF Preceded
  <2>3. ASSUME NEW i \in 1 .. j, s[i].seq = n, i # 1
        PROVE  \E l \in 1 .. (j - 1) : t[l].seq = n
    <3>1. i - 1 \in 1 .. (j - 1) /\ t[i - 1] = s[i]
      BY <1>1, <2>1, <2>3
    <3> QED BY <2>3, <3>1
  <2> QED BY <1>1, <2>2, <2>3
<1> QED BY <1>2, <1>3, NumsTail DEF t

-----------------------------------------------------------------------------
(* Requests on their way *)

\* A message that carries the request of its number in the log.
Asks(log, f) == f.seq \in DOMAIN log /\ f.body = Asking(log[f.seq])

\* Client c has sent nothing but its requests, numbered one after the other.
Carry(c) ==
  /\ next[c] = Len(asked[c]) + 1
  /\ \A i \in DOMAIN asked[c] : asked[c][i].num = i
  /\ \A m \in pending[c] : Asks(asked[c], m)
  /\ \A i \in DOMAIN queued[c] : Asks(asked[c], queued[c][i])
  /\ \A i \in DOMAIN wire["client"][c] : Asks(asked[c], wire["client"][c][i])
  /\ \A i \in DOMAIN msgQ["server"][c] : Asks(asked[c], msgQ["server"][c][i])
  /\ link["client"][c] = "down" => queued[c] = <<>> /\ pending[c] = {}

\* While the server has the connection, it remembers what it has served.
ServedOnce(c) ==
  /\ \A i \in DOMAIN served[c] : \E n \in DOMAIN asked[c] : served[c][i] = asked[c][n]
  /\ IF link["server"][c] = "down"
     THEN msgQ["server"][c] = <<>> /\ processed["server"][c] = {}
     ELSE processed["server"][c] = {served[c][i].num : i \in DOMAIN served[c]}

\* What the server has taken from the wire of c.
Got(c) == processed["server"][c] \cup Nums(msgQ["server"][c])

\* Until the client's loop stands still, no request overtakes another one on its
\* way through the queue of the loop, the wire and the queue of the decoder; and
\* none is missing while the connection is intact.
Sorted(c) ==
  ~stalled[c] =>
    /\ Closed(processed["server"][c])
    /\ Preceded(processed["server"][c], msgQ["server"][c])
    /\ link["server"][c] # "down" /\ decoder[Server] # "dead" =>
         /\ Preceded(Got(c), wire["client"][c])
         /\ link["client"][c] # "down" =>
              /\ Preceded(Got(c) \cup Nums(wire["client"][c]), queued[c])
              /\ \A n \in 1 .. (next[c] - 1) :
                   n \in Got(c) \cup Nums(wire["client"][c]) \cup Nums(queued[c])

WayInv == \A c \in Clients : Carry(c) /\ ServedOnce(c) /\ Sorted(c)

SysInv == TypeInv /\ SilentInv /\ WayInv

LEMMA WayInit == Init => WayInv
<1> SUFFICES ASSUME Init, NEW c \in Clients PROVE Carry(c) /\ ServedOnce(c) /\ Sorted(c)
  BY DEF WayInv
<1>1. /\ c \in Processes /\ next[c] = 1 /\ asked[c] = <<>> /\ pending[c] = {}
      /\ queued[c] = <<>> /\ wire["client"][c] = <<>> /\ msgQ["server"][c] = <<>>
      /\ served[c] = <<>> /\ processed["server"][c] = {}
      /\ link["server"][c] = "new" /\ link["client"][c] = "new"
  BY ProcessFacts DEF Init
<1>2. Carry(c) /\ ServedOnce(c)
  BY <1>1 DEF Carry, ServedOnce
<1>3. Sorted(c)
  BY <1>1, PrecededEmpty DEF Sorted, Closed
<1> QED BY <1>2, <1>3

\* A step that leaves alone what concerns the requests of c keeps what is known
\* of them; the decoder may die and entries may leave the table.
LEMMA WaySame ==
  ASSUME NEW c \in Clients, Carry(c), ServedOnce(c), Sorted(c),
         asked'[c] = asked[c], next'[c] = next[c],
         \A m \in pending'[c] : \E n \in pending[c] : m.seq = n.seq /\ m.body = n.body,
         queued'[c] = queued[c], wire'["client"][c] = wire["client"][c],
         msgQ'["server"][c] = msgQ["server"][c], served'[c] = served[c],
         processed'["server"][c] = processed["server"][c], stalled'[c] = stalled[c],
         decoder[Server] = "dead" => decoder'[Server] = "dead",
         \A e \in Ends : link'[e][c] = "down" <=> link[e][c] = "down"
  PROVE  Carry(c)' /\ ServedOnce(c)' /\ Sorted(c)'
<1>0. "client" \in Ends /\ "server" \in Ends
  BY ProcessFacts
<1>2. Carry(c)'
  <2>1. \A m \in pending'[c] : Asks(asked'[c], m)
    BY DEF Carry, Asks
  <2>2. link'["client"][c] = "down" => queued'[c] = <<>> /\ pending'[c] = {}
    BY <1>0 DEF Carry
  <2>3. (/\ \A i \in DOMAIN queued[c] : Asks(asked[c], queued[c][i])
         /\ \A i \in DOMAIN wire["client"][c] : Asks(asked[c], wire["client"][c][i])
         /\ \A i \in DOMAIN msgQ["server"][c] : Asks(asked[c], msgQ["server"][c][i]))'
    BY DEF Carry, Asks
  <2>4. next'[c] = Len(asked'[c]) + 1 /\ \A i \in DOMAIN asked'[c] : asked'[c][i].num = i
    BY DEF Carry
  <2> QED BY <2>1, <2>2, <2>3, <2>4 DEF Carry
<1>3. ServedOnce(c)'
  BY <1>0 DEF ServedOnce
<1>4. Sorted(c)'
  BY <1>0 DEF Sorted, Got
<1> QED BY <1>2, <1>3, <1>4

LEMMA WayConnect ==
  ASSUME SysInv, NEW e \in Ends, NEW c \in Clients, Connect(e, c)
  PROVE  WayInv'
<1>1. \A x \in Ends, d \in Clients : link'[x][d] = "down" <=> link[x][d] = "down"
  BY Update DEF Connect, SysInv, TypeInv, TypeOK
<1>2. UNCHANGED <<manager, queued, wire, decoder, msgQ, logs, stalled>>
  BY DEF Connect
<1> QED BY <1>1, <1>2, WaySame DEF SysInv, WayInv, manager, logs

LEMMA WayClose ==
  ASSUME SysInv, NEW e \in Ends, NEW c \in Clients, Close(e, c)
  PROVE  WayInv'
<1>0. /\ link \in [Ends -> [Clients -> Links]]
      /\ pending \in [Processes -> SUBSET Entries]
      /\ processed \in [Ends -> [Clients -> SUBSET (Nat \ {0})]]
      /\ queued \in [Clients -> Seq(Messages)]
      /\ wire \in [Ends -> [Clients -> Seq(Messages)]]
  BY DEF SysInv, TypeInv, TypeOK, Links
<1>t. \A m \in pending[c] : m.conn = c
  <2>1. \A m \in pending[c] : At("client", m.conn) = c /\ m.conn \in Clients
    BY <1>0, ProcessFacts DEF SysInv, TypeInv, TypeOK, Entries
  <2> QED BY <2>1, ProcessFacts
<1>1. \A x \in Ends, d \in Clients :
        link'[x][d] = IF x = e /\ d = c THEN "down" ELSE link[x][d]
  BY <1>0, Update DEF Close, Links
<1>2. \A x \in Ends, d \in Clients :
        wire'[x][d] = IF x = Peer(e) /\ d = c THEN <<>> ELSE wire[x][d]
  <2>1. <<>> \in Seq(Messages) /\ Peer(e) \in Ends
    BY ProcessFacts
  <2>2. wire' = [wire EXCEPT ![Peer(e)][c] = <<>>]
    BY DEF Close
  <2> QED BY <1>0, <2>1, <2>2, Update
<1>3. \A x \in Ends, d \in Clients :
        processed'[x][d] = IF x = e /\ d = c THEN {} ELSE processed[x][d]
  BY <1>0, Update DEF Close
<1>4. /\ queued' = IF e = "client" THEN [queued EXCEPT ![c] = <<>>] ELSE queued
      /\ pending' = [pending EXCEPT ![At(e, c)] = {m \in @ : m.conn # c}]
      /\ UNCHANGED <<next, decoder, msgQ, asked, served, stalled>>
  BY DEF Close, logs
<1>5. ASSUME NEW d \in Clients, d # c PROVE Carry(d)' /\ ServedOnce(d)' /\ Sorted(d)'
  <2>1. pending'[d] = pending[d] /\ queued'[d] = queued[d]
    BY <1>0, <1>4, <1>5, ProcessFacts
  <2>2. \A x \in Ends : link'[x][d] = link[x][d] /\ wire'[x][d] = wire[x][d]
                        /\ processed'[x][d] = processed[x][d]
    BY <1>1, <1>2, <1>3, <1>5
  <2> QED BY <1>4, <2>1, <2>2, WaySame, ProcessFacts DEF SysInv, WayInv
<1>6. Carry(c) /\ ServedOnce(c) /\ Sorted(c)
  BY DEF SysInv, WayInv
<1>7. CASE e = "client"
  <2>1. At(e, c) = c /\ Peer(e) = "server" /\ c \in Processes
    BY <1>7, ProcessFacts
  <2>2. /\ pending'[c] = {} /\ queued'[c] = <<>> /\ link'["client"][c] = "down"
        /\ link'["server"][c] = link["server"][c]
        /\ wire'["client"][c] = wire["client"][c]
        /\ processed'["server"][c] = processed["server"][c]
    BY <1>0, <1>t, <1>1, <1>2, <1>3, <1>4, <1>7, <2>1, ProcessFacts
  <2>3. Carry(c)'
    BY <1>4, <1>6, <2>2 DEF Carry, Asks
  <2>4. ServedOnce(c)'
    BY <1>4, <1>6, <2>2 DEF ServedOnce
  <2>5. Sorted(c)'
    BY <1>4, <1>6, <2>2 DEF Sorted, Got
  <2> QED BY <1>5, <2>3, <2>4, <2>5 DEF WayInv
<1>8. CASE e = "server"
  <2>1. At(e, c) = Server /\ Peer(e) = "client"
    BY <1>8, ProcessFacts
  <2>2. msgQ["server"][c] = <<>>
    BY <2>1, ProcessFacts DEF Close, LoopIdle
  <2>3. /\ pending'[c] = pending[c] /\ queued'[c] = queued[c]
        /\ link'["server"][c] = "down" /\ link'["client"][c] = link["client"][c]
        /\ wire'["client"][c] = <<>> /\ processed'["server"][c] = {}
    BY <1>0, <1>1, <1>2, <1>3, <1>4, <1>8, <2>1, ProcessFacts
  <2>4. Carry(c)'
    BY <1>4, <1>6, <2>3 DEF Carry, Asks
  <2>5. ServedOnce(c)'
    BY <1>4, <1>6, <2>2, <2>3 DEF ServedOnce
  <2>6. Sorted(c)'
    BY <1>4, <2>2, <2>3, PrecededEmpty DEF Sorted, Closed
  <2> QED BY <1>5, <2>4, <2>5, <2>6 DEF WayInv
<1> QED BY <1>7, <1>8, ProcessFacts

LEMMA WayAsk ==
  ASSUME SysInv, NEW c \in Clients, NEW service \in Services, Ask(c, service)
  PROVE  WayInv'
<1> DEFINE l == Len(asked[c])
           r == [num |-> l + 1, service |-> service]
           f == Frame(next[c], Asking(r))
           m == Entry(c, next[c], Asking(r))
<1>0. /\ pending \in [Processes -> SUBSET Entries]
      /\ queued \in [Clients -> Seq(Messages)]
      /\ asked \in [Clients -> Seq(Request)]
      /\ next \in [Processes -> Nat \ {0}]
      /\ c \in Processes /\ l \in Nat /\ \A d \in Clients : d \in Processes
  BY ProcessFacts DEF SysInv, TypeInv, TypeOK
<1>1. /\ next' = [next EXCEPT ![c] = @ + 1]
      /\ pending' = [pending EXCEPT ![c] = @ \cup {m}]
      /\ queued' = [queued EXCEPT ![c] = Append(@, f)]
      /\ asked' = [asked EXCEPT ![c] = Append(@, r)]
      /\ UNCHANGED <<link, processed, wire, decoder, msgQ, served, stalled>>
  BY DEF Ask
<1>2. link["client"][c] = "up"
  BY DEF Ask
<1>3. Carry(c) /\ ServedOnce(c) /\ Sorted(c)
  BY DEF SysInv, WayInv
<1>4. next[c] = l + 1 /\ f.seq = l + 1 /\ f.body = Asking(r) /\ r.num = l + 1
  BY <1>3, FrameFacts DEF Carry
<1>5. m.seq = l + 1 /\ m.body = Asking(r)
  BY <1>4 DEF Entry
<1>6. f \in Messages
  <2>1. r \in Request
    BY <1>0 DEF Request
  <2> QED BY <1>0, <2>1, BodyFacts DEF Frame, Messages
<1>7. r \in Request
  BY <1>0 DEF Request
<1> HIDE DEF r, f, m
<1>8. ASSUME NEW d \in Clients, d # c PROVE Carry(d)' /\ ServedOnce(d)' /\ Sorted(d)'
  <2>1. pending'[d] = pending[d] /\ queued'[d] = queued[d] /\ next'[d] = next[d]
        /\ asked'[d] = asked[d]
    BY <1>0, <1>1, <1>8
  <2> QED BY <1>1, <2>1, WaySame, ProcessFacts DEF SysInv, WayInv
<1>9. /\ DOMAIN asked'[c] = 1 .. (l + 1) /\ asked'[c][l + 1] = r /\ Len(asked'[c]) = l + 1
      /\ \A n \in DOMAIN asked[c] : n \in DOMAIN asked'[c] /\ asked'[c][n] = asked[c][n]
  BY <1>0, <1>1, <1>7
<1>10. \A x : Asks(asked[c], x) => Asks(asked'[c], x)
  BY <1>9 DEF Asks
<1>11. Asks(asked'[c], f) /\ Asks(asked'[c], m)
  BY <1>0, <1>4, <1>5, <1>9 DEF Asks
<1>12. /\ pending'[c] = pending[c] \cup {m} /\ next'[c] = next[c] + 1
       /\ queued'[c] = Append(queued[c], f)
  BY <1>0, <1>1
<1>13. Carry(c)'
  <2>1. next'[c] = Len(asked'[c]) + 1
    BY <1>0, <1>4, <1>9, <1>12
  <2>2. \A i \in DOMAIN asked'[c] : asked'[c][i].num = i
    <3>1. \A i \in 1 .. l : i \in DOMAIN asked[c]
      BY <1>0
    <3> QED BY <1>0, <1>3, <1>4, <1>9, <3>1 DEF Carry
  <2>3. \A x \in pending'[c] : Asks(asked'[c], x)
    BY <1>3, <1>10, <1>11, <1>12 DEF Carry
  <2>4. ASSUME NEW i \in DOMAIN queued'[c] PROVE Asks(asked'[c], queued'[c][i])
    <3> DEFINE q == queued[c]
    <3>1. q \in Seq(Messages)
      BY <1>0
    <3> HIDE DEF q
    <3>2. i \in DOMAIN Append(q, f)
      BY <1>12 DEF q
    <3>3. (i \in DOMAIN q /\ Append(q, f)[i] = q[i]) \/ Append(q, f)[i] = f
      BY <1>6, <3>1, <3>2
    <3>4. queued'[c][i] = Append(q, f)[i]
      BY <1>12 DEF q
    <3>5. \A j \in DOMAIN q : Asks(asked'[c], q[j])
      BY <1>3, <1>10 DEF Carry, q
    <3> QED BY <1>11, <3>3, <3>4, <3>5 DEF Asks
  <2>5. (/\ \A i \in DOMAIN wire["client"][c] : Asks(asked[c], wire["client"][c][i])
         /\ \A i \in DOMAIN msgQ["server"][c] : Asks(asked[c], msgQ["server"][c][i]))'
    BY <1>1, <1>3, <1>10 DEF Carry, Asks
  <2> QED BY <1>1, <1>2, <2>1, <2>2, <2>3, <2>4, <2>5 DEF Carry
<1>14. ServedOnce(c)'
  BY <1>1, <1>3, <1>9 DEF ServedOnce
<1>15. Sorted(c)'
  <2> DEFINE G == Got(c) \cup Nums(wire["client"][c])
  <2>1. CASE ~stalled[c] /\ link["server"][c] # "down" /\ decoder[Server] # "dead"
    <3>1. Preceded(G, queued[c]) /\ \A n \in 1 .. l : n \in G \cup Nums(queued[c])
      BY <1>0, <1>2, <1>3, <1>4, <2>1 DEF Sorted
    <3>2. <<f>> \in Seq(Messages) /\ queued[c] \in Seq(Messages)
          /\ queued'[c] = queued[c] \o <<f>> /\ Nums(<<f>>) = {l + 1}
      <4>1. queued[c] \in Seq(Messages)
        BY <1>0
      <4> QED BY <1>4, <1>6, <1>12, <4>1 DEF Nums
    <3>3. Preceded(G \cup Nums(queued[c]), <<f>>)
      <4>1. \A j \in DOMAIN <<f>> : <<f>>[j].seq = l + 1
        BY <1>4
      <4> QED BY <1>0, <3>1, <4>1, PrecededAll
    <3>4. Preceded(G, queued'[c])
      BY <3>1, <3>2, <3>3, PrecededConcat
    <3>5. Nums(queued'[c]) = Nums(queued[c]) \cup {l + 1}
      BY <3>2, NumsConcat
    <3>6. \A n \in 1 .. (next'[c] - 1) : n \in G \cup Nums(queued'[c])
      <4>1. \A n \in 1 .. (next'[c] - 1) : n \in 1 .. l \/ n = l + 1
        BY <1>0, <1>4, <1>12
      <4> QED BY <3>1, <3>5, <4>1
    <3>7. G' = G /\ Got(c)' = Got(c)
      BY <1>1 DEF Got
    <3> QED BY <1>1, <1>3, <2>1, <3>4, <3>6, <3>7 DEF Sorted
  <2>2. CASE ~(~stalled[c] /\ link["server"][c] # "down" /\ decoder[Server] # "dead")
    BY <1>1, <1>3, <2>2 DEF Sorted
  <2> QED BY <2>1, <2>2
<1> QED BY <1>8, <1>13, <1>14, <1>15 DEF WayInv

\* Every frame of a sequence and of what it is extended by.
LEMMA AsksConcat ==
  ASSUME NEW log, NEW s \in Seq(Messages), NEW t \in Seq(Messages),
         \A i \in DOMAIN s : Asks(log, s[i]), \A i \in DOMAIN t : Asks(log, t[i])
  PROVE  \A i \in DOMAIN (s \o t) : Asks(log, (s \o t)[i])
<1> DEFINE u == s \o t
<1>1. /\ Len(s) \in Nat /\ DOMAIN s = 1 .. Len(s) /\ DOMAIN t = 1 .. Len(t) /\ Len(t) \in Nat
      /\ DOMAIN u = 1 .. (Len(s) + Len(t))
      /\ \A i \in 1 .. Len(s) : u[i] = s[i]
      /\ \A i \in 1 .. Len(t) : u[Len(s) + i] = t[i]
  OBVIOUS
<1> HIDE DEF u
<1>2. ASSUME NEW i \in DOMAIN u PROVE Asks(log, u[i])
  <2>1. CASE i <= Len(s)
    BY <1>1, <2>1
  <2>2. CASE i > Len(s)
    <3>1. i - Len(s) \in DOMAIN t /\ u[i] = t[i - Len(s)]
      BY <1>1, <2>2
    <3> QED BY <3>1
  <2> QED BY <1>1, <2>1, <2>2
<1> QED BY <1>2 DEF u

LEMMA WaySendInLoop ==
  ASSUME SysInv, NEW c \in Clients, SendInLoop(c)
  PROVE  WayInv'
<1> DEFINE q == queued[c]
           w == wire["client"][c]
           h == <<Head(q)>>
<1>0. /\ queued \in [Clients -> Seq(Messages)]
      /\ wire \in [Ends -> [Clients -> Seq(Messages)]]
      /\ q \in Seq(Messages) /\ w \in Seq(Messages)
      /\ "client" \in Ends /\ Peer("client") = "server"
  BY ProcessFacts DEF SysInv, TypeInv, TypeOK
<1>1. /\ q # <<>> /\ queued' = [queued EXCEPT ![c] = Tail(@)]
      /\ Write("client", c, h)
      /\ UNCHANGED <<link, manager, decoder, msgQ, logs, stalled>>
  BY DEF SendInLoop
<1>2. Head(q) \in Messages /\ h \in Seq(Messages) /\ Tail(q) \in Seq(Messages)
      /\ DOMAIN h = {1} /\ h[1] = Head(q)
  BY <1>0, <1>1
<1>3. \A x \in Ends, d \in Clients :
        wire'[x][d] = IF x = "client" /\ d = c THEN Written("client", c, h) ELSE wire[x][d]
  <2>1. Written("client", c, h) \in Seq(Messages)
    BY <1>0, <1>2, WriteType
  <2>2. wire' = [wire EXCEPT !["client"][c] = Written("client", c, h)]
    BY <1>1 DEF Write
  <2> QED BY <1>0, <2>1, <2>2, Update
<1>4. wire'["client"][c] = IF link["server"][c] = "down" THEN w ELSE w \o h
  BY <1>0, <1>3 DEF Written
<1>5. queued'[c] = Tail(q)
  BY <1>0, <1>1
<1>6. Carry(c) /\ ServedOnce(c) /\ Sorted(c)
  BY DEF SysInv, WayInv
<1>7. ASSUME NEW d \in Clients, d # c PROVE Carry(d)' /\ ServedOnce(d)' /\ Sorted(d)'
  <2>1. wire'["client"][d] = wire["client"][d] /\ queued'[d] = queued[d]
    BY <1>0, <1>1, <1>3, <1>7
  <2> QED BY <1>1, <2>1, WaySame DEF SysInv, WayInv, manager, logs
<1> HIDE DEF q, w, h
<1>8. \A i \in DOMAIN q : Asks(asked[c], q[i])
  BY <1>6 DEF Carry, q
<1>9. \A i \in DOMAIN w : Asks(asked[c], w[i])
  BY <1>6 DEF Carry, w
<1>10. Asks(asked[c], Head(q)) /\ \A i \in DOMAIN Tail(q) : Asks(asked[c], Tail(q)[i])
  <2>1. 1 \in DOMAIN q /\ Head(q) = q[1]
    BY <1>0, <1>1
  <2>2. \A i \in DOMAIN Tail(q) : i + 1 \in DOMAIN q /\ Tail(q)[i] = q[i + 1]
    BY <1>0, <1>1
  <2> QED BY <1>8, <2>1, <2>2
<1>11. \A i \in DOMAIN (w \o h) : Asks(asked[c], (w \o h)[i])
  <2>1. \A i \in DOMAIN h : Asks(asked[c], h[i])
    BY <1>2, <1>10
  <2> QED BY <1>0, <1>2, <1>9, <2>1, AsksConcat
<1>12. Carry(c)'
  <2>1. \A i \in DOMAIN wire'["client"][c] : Asks(asked[c], wire'["client"][c][i])
    BY <1>4, <1>9, <1>11
  <2>2. \A i \in DOMAIN queued'[c] : Asks(asked[c], queued'[c][i])
    BY <1>5, <1>10
  <2>3. link["client"][c] # "down"
    BY <1>1, <1>6 DEF Carry, q
  <2> QED BY <1>1, <1>6, <2>1, <2>2, <2>3 DEF Carry, manager, logs
<1>13. ServedOnce(c)'
  BY <1>1, <1>6 DEF ServedOnce, manager, logs
<1>14. Sorted(c)'
  <2>1. CASE ~stalled[c] /\ link["server"][c] # "down" /\ decoder[Server] # "dead"
    <3> DEFINE G == Got(c)
    <3>0. link["client"][c] # "down"
      BY <1>1, <1>6 DEF Carry, q
    <3>1. Preceded(G, w) /\ Preceded(G \cup Nums(w), q)
          /\ \A n \in 1 .. (next[c] - 1) : n \in G \cup Nums(w) \cup Nums(q)
      BY <1>6, <2>1, <3>0 DEF Sorted, q, w
    <3>2. G' = G /\ Got(c)' = Got(c)
      BY <1>1 DEF Got, manager
    <3> HIDE DEF G
    <3>3. /\ \A n \in 1 .. (Head(q).seq - 1) : n \in G \cup Nums(w)
          /\ Preceded(G \cup Nums(w) \cup {Head(q).seq}, Tail(q))
          /\ Nums(q) = {Head(q).seq} \cup Nums(Tail(q))
      BY <1>0, <1>1, <3>1, PrecededTail
    <3>4. Preceded(G \cup Nums(w), h) /\ Nums(h) = {Head(q).seq}
      BY <1>2, <3>3, PrecededAll DEF Nums
    <3>5. Preceded(G, w \o h) /\ Nums(w \o h) = Nums(w) \cup {Head(q).seq}
      BY <1>0, <1>2, <3>1, <3>4, PrecededConcat, NumsConcat
    <3>6. Preceded(G \cup Nums(w \o h), Tail(q))
      <4>1. G \cup Nums(w) \cup {Head(q).seq} \subseteq G \cup Nums(w \o h)
        BY <3>5
      <4> QED BY <3>3, <4>1, PrecededMore
    <3>7. \A n \in 1 .. (next[c] - 1) : n \in G \cup Nums(w \o h) \cup Nums(Tail(q))
      BY <3>1, <3>3, <3>5
    <3>8. wire'["client"][c] = w \o h
      BY <1>4, <2>1
    <3>9. Got(c)' = G
      BY <3>2 DEF G
    <3> QED BY <1>1, <1>5, <1>6, <2>1, <3>5, <3>6, <3>7, <3>8, <3>9 DEF Sorted, manager
  <2>2. CASE ~(~stalled[c] /\ link["server"][c] # "down" /\ decoder[Server] # "dead")
    BY <1>1, <1>6, <2>2 DEF Sorted, manager
  <2> QED BY <2>1, <2>2
<1> QED BY <1>7, <1>12, <1>13, <1>14 DEF WayInv

LEMMA WayScan ==
  ASSUME SysInv, NEW p \in Processes, Scan(p)
  PROVE  WayInv'
<1>1. PICK X, again, kept, o : ScanEffect(p, X, again, kept, o)
  BY ScanStep DEF SysInv
<1>0. /\ wire \in [Ends -> [Clients -> Seq(Messages)]]
      /\ pending \in [Processes -> SUBSET Entries]
      /\ \A c \in Clients : c \in Processes /\ c # Server
      /\ \A q \in Processes : \A m \in pending[q] : At(EndOf(q), m.conn) = q /\ m.conn \in Clients
  BY ProcessFacts DEF SysInv, TypeInv, TypeOK, Entries
<1>2. UNCHANGED <<link, next, processed, queued, decoder, msgQ, asked, served>>
  BY DEF Scan, logs
<1>3. /\ pending' = [pending EXCEPT ![p] = kept]
      /\ \A n \in kept : \E m \in pending[p] : n.seq = m.seq /\ n.body = m.body
      /\ X \subseteq pending[p] /\ again \subseteq X
      /\ \A c \in Clients : stalled'[c] = (stalled[c] \/ (c = p /\ \E m \in X : Unwritten(m)))
      /\ wire' = [wire EXCEPT ![EndOf(p)] =
                    [c \in Clients |-> Written(EndOf(p), c, Frames(o[c]))]]
  BY <1>1 DEF ScanEffect
<1>4. \A c \in Clients : \A m \in pending'[c] : \E n \in pending[c] : m.seq = n.seq /\ m.body = n.body
  BY <1>0, <1>3
<1>5. CASE p = Server
  <2>1. wire'["client"] = wire["client"]
    BY <1>0, <1>3, <1>5, ProcessFacts
  <2>2. \A c \in Clients : stalled'[c] = stalled[c]
    BY <1>0, <1>3, <1>5 DEF SysInv, TypeInv, TypeOK
  <2> QED BY <1>2, <1>4, <2>1, <2>2, WaySame DEF SysInv, WayInv
<1>6. CASE p # Server
  <2>1. p \in Clients /\ EndOf(p) = "client"
    BY <1>6 DEF Processes, EndOf
  <2>2. \A m \in again : m.conn = p
    BY <1>0, <1>3, <2>1, ProcessFacts
  <2>3. \A c \in Clients : wire'["client"][c] = Written("client", c, Frames(o[c]))
    BY <1>0, <1>3, <2>1, ProcessFacts
  <2>4. ASSUME NEW d \in Clients, d # p PROVE Carry(d)' /\ ServedOnce(d)' /\ Sorted(d)'
    <3>1. Frames(o[d]) = <<>>
      BY <1>1, <2>2, <2>4 DEF ScanEffect
    <3>2. wire'["client"][d] = wire["client"][d]
      <4> DEFINE fs == Frames(o[d])
      <4>1. wire'["client"][d] = Written("client", d, fs)
        BY <2>3
      <4>2. fs = <<>> /\ fs \in Seq(Messages)
        BY <3>1
      <4> HIDE DEF fs
      <4> QED BY <1>0, <4>1, <4>2, WrittenHead, ProcessFacts
    <3>3. stalled'[d] = stalled[d]
      BY <1>3, <2>4 DEF SysInv, TypeInv, TypeOK
    <3> QED BY <1>2, <1>4, <3>2, <3>3, WaySame DEF SysInv, WayInv
  <2> DEFINE w == wire["client"][p]
             fs == Frames(o[p])
  <2>5. /\ w \in Seq(Messages) /\ fs \in Seq(Messages)
        /\ \A i \in DOMAIN fs : \E m \in again : fs[i].seq = m.seq /\ fs[i].body = m.body
        /\ again = {} => fs = <<>>
    <3>1. /\ fs \in Seq(Messages)
          /\ \A i \in DOMAIN fs : \E m \in again : m.conn = p /\ fs[i] = Frame(m.seq, m.body)
          /\ (\A m \in again : m.conn # p) => fs = <<>>
      <4>1. \A c \in Clients :
              /\ Frames(o[c]) \in Seq(Messages)
              /\ \A i \in DOMAIN Frames(o[c]) : \E m \in again :
                   m.conn = c /\ Frames(o[c])[i] = Frame(m.seq, m.body)
              /\ (\A m \in again : m.conn # c) => Frames(o[c]) = <<>>
        BY <1>1 DEF ScanEffect
      <4> QED BY <2>1, <4>1
    <3> HIDE DEF fs
    <3>2. \A i \in DOMAIN fs : \E m \in again : fs[i].seq = m.seq /\ fs[i].body = m.body
      BY <3>1, FrameFacts
    <3>3. w \in Seq(Messages)
      BY <1>0, <2>1, ProcessFacts
    <3>4. again = {} => fs = <<>>
      BY <3>1
    <3> QED BY <3>1, <3>2, <3>3, <3>4
  <2>6. wire'["client"][p] = IF link["server"][p] = "down" THEN w ELSE w \o fs
    BY <2>1, <2>3, ProcessFacts DEF Written
  <2> HIDE DEF w, fs
  <2>7. Carry(p) /\ ServedOnce(p) /\ Sorted(p)
    BY <2>1 DEF SysInv, WayInv
  <2>8. \A i \in DOMAIN w : Asks(asked[p], w[i])
    BY <2>7 DEF Carry, w
  <2>9. \A i \in DOMAIN fs : Asks(asked[p], fs[i])
    <3>1. \A m \in again : Asks(asked[p], m)
      BY <1>3, <2>7 DEF Carry
    <3> QED BY <2>5, <3>1 DEF Asks
  <2>10. Carry(p)'
    <3>1. \A i \in DOMAIN wire'["client"][p] : Asks(asked[p], wire'["client"][p][i])
      BY <2>5, <2>6, <2>8, <2>9, AsksConcat
    <3>2. \A m \in pending'[p] : Asks(asked[p], m)
      BY <1>4, <2>1, <2>7 DEF Carry, Asks
    <3>3. pending[p] = {} => pending'[p] = {}
      BY <1>4, <2>1
    <3> QED BY <1>2, <2>7, <3>1, <3>2, <3>3 DEF Carry
  <2>11. ServedOnce(p)'
    BY <1>2, <2>7 DEF ServedOnce
  <2>12. Sorted(p)'
    <3>1. Got(p)' = Got(p)
      BY <1>2 DEF Got
    <3>2. CASE ~stalled'[p] /\ link["server"][p] # "down" /\ decoder[Server] # "dead"
      <4> DEFINE G == Got(p) \cup Nums(w)
      <4>1. ~stalled[p] /\ \A m \in again : ~Unwritten(m)
        BY <1>3, <2>1, <3>2
      <4>2. /\ Closed(processed["server"][p])
            /\ Preceded(processed["server"][p], msgQ["server"][p])
            /\ Preceded(Got(p), w)
        BY <2>7, <3>2, <4>1 DEF Sorted, w
      <4>3. Closed(G)
        <5>1. msgQ["server"][p] \in Seq(Messages)
          BY <2>1, ProcessFacts DEF SysInv, TypeInv, TypeOK
        <5>2. Closed(Got(p))
          BY <4>2, <5>1, PrecededClosed DEF Got
        <5> QED BY <2>5, <4>2, <5>2, PrecededClosed
      <4>4. CASE link["client"][p] = "down"
        <5>1. again = {}
          BY <1>3, <2>7, <4>4 DEF Carry
        <5>2. fs = <<>>
          BY <2>5, <5>1
        <5>3. wire'["client"][p] = w
          BY <2>5, <2>6, <5>2
        <5> QED BY <1>2, <2>7, <3>1, <4>1, <4>4, <5>3 DEF Sorted, w
      <4>5. CASE link["client"][p] # "down"
        <5>1. /\ Preceded(G, queued[p])
              /\ \A n \in 1 .. (next[p] - 1) : n \in G \cup Nums(queued[p])
          BY <2>7, <3>2, <4>1, <4>5 DEF Sorted, w
        <5>2. ASSUME NEW m \in again PROVE m.seq \in G
          <6>1. m.seq \in DOMAIN asked[p] /\ next[p] = Len(asked[p]) + 1
                /\ asked[p] \in Seq(Request)
            BY <1>3, <2>1, <2>7 DEF Carry, Asks, SysInv, TypeInv, TypeOK
          <6>2. m.seq \in 1 .. (next[p] - 1)
            BY <6>1
          <6>3. m.seq \notin Nums(queued[p])
            BY <2>2, <4>1 DEF Unwritten, Nums
          <6> QED BY <5>1, <6>2, <6>3
        <5> HIDE DEF G
        <5>3. Preceded(G, fs)
          <6>1. \A j \in DOMAIN fs : fs[j].seq \in G
            BY <2>5, <5>2
          <6>2. \A j \in DOMAIN fs : \A n \in 1 .. (fs[j].seq - 1) : n \in G
            BY <4>3, <6>1 DEF Closed
          <6> QED BY <6>2, PrecededAll
        <5>4. Preceded(Got(p), w \o fs)
          BY <2>5, <4>2, <5>3, PrecededConcat DEF G
        <5>5. G \subseteq Got(p) \cup Nums(w \o fs)
          BY <2>5, NumsConcat DEF G
        <5>6. Preceded(Got(p) \cup Nums(w \o fs), queued[p])
          BY <5>1, <5>5, PrecededMore
        <5>7. \A n \in 1 .. (next[p] - 1) : n \in Got(p) \cup Nums(w \o fs) \cup Nums(queued[p])
          BY <5>1, <5>5
        <5>8. wire'["client"][p] = w \o fs
          BY <2>6, <3>2
        <5> QED BY <1>2, <3>1, <4>2, <5>4, <5>6, <5>7, <5>8 DEF Sorted
      <4> QED BY <4>4, <4>5
    <3>3. CASE ~(~stalled'[p] /\ link["server"][p] # "down" /\ decoder[Server] # "dead")
      BY <1>2, <1>3, <2>1, <2>7, <3>3 DEF Sorted
    <3> QED BY <3>2, <3>3
  <2> QED BY <2>1, <2>4, <2>10, <2>11, <2>12 DEF WayInv
<1> QED BY <1>5, <1>6

\* The server's decoder takes whole frames off the wire of c, or dies.
LEMMA WayOnMessage ==
  ASSUME SysInv, NEW e \in Ends, NEW c \in Clients,
         NEW k \in 0 .. Len(wire[Peer(e)][c]), NEW cut \in Cuts, OnMessage(e, c, k, cut)
  PROVE  WayInv'
<1> DEFINE s == wire[Peer(e)][c]
           whole == SubSeq(s, 1, k)
           rest == SubSeq(s, k + 1, Len(s))
<1>0. /\ Peer(e) \in Ends
      /\ wire \in [Ends -> [Clients -> Seq(Messages)]]
      /\ msgQ \in [Ends -> [Clients -> Seq(Messages)]]
      /\ decoder \in [Processes -> {"clean", "dead"} \cup Clients]
  BY ProcessFacts DEF SysInv, TypeInv, TypeOK
<1>1. /\ s \in Seq(Messages) /\ k \in 0 .. Len(s)
      /\ whole \in Seq(Messages) /\ rest \in Seq(Messages)
  BY <1>0, CutSeq
<1>2. UNCHANGED <<link, next, pending, processed, queued, asked, served, stalled>>
  BY DEF OnMessage, manager, logs
<1>3. \A x \in Ends, d \in Clients :
        wire'[x][d] = IF x = Peer(e) /\ d = c THEN rest ELSE wire[x][d]
  <2>1. wire' = [wire EXCEPT ![Peer(e)][c] = rest]
    BY <1>0 DEF OnMessage
  <2> QED BY <1>0, <1>1, <2>1, Update
<1>4. \/ decoder' = [decoder EXCEPT ![At(e, c)] = "dead"] /\ msgQ' = msgQ
      \/ /\ decoder[At(e, c)] # "dead"
         /\ \E v : decoder' = [decoder EXCEPT ![At(e, c)] = v]
         /\ msgQ' = [msgQ EXCEPT ![e][c] = whole]
  BY ProcessFacts DEF OnMessage
<1> HIDE DEF s, whole, rest
<1>5. CASE e = "client"
  <2>1. At(e, c) # Server /\ Peer(e) = "server"
    BY <1>5, ProcessFacts
  <2>2. decoder'[Server] = decoder[Server]
    BY <1>0, <1>4, <2>1, ProcessFacts
  <2>3. \A d \in Clients : wire'["client"][d] = wire["client"][d]
                           /\ msgQ'["server"][d] = msgQ["server"][d]
    <3>1. e # "server" /\ "server" \in Ends
      BY <1>5, ProcessFacts
    <3> QED BY <1>0, <1>1, <1>3, <1>4, <2>1, <3>1, ProcessFacts
  <2> QED BY <1>2, <2>2, <2>3, WaySame DEF SysInv, WayInv
<1>6. CASE e = "server"
  <2>1. At(e, c) = Server /\ Peer(e) = "client" /\ Server \in Processes /\ s = wire["client"][c]
    BY <1>6, ProcessFacts DEF s
  <2>2. msgQ["server"][c] = <<>> /\ link["server"][c] = "up"
    BY <1>6, <2>1, ProcessFacts DEF OnMessage, LoopIdle
  <2>3. decoder[Server] = "dead" => decoder'[Server] = "dead"
    BY <1>0, <1>4, <2>1
  <2>4. \A d \in Clients : d # c => wire'["client"][d] = wire["client"][d]
                                    /\ msgQ'["server"][d] = msgQ["server"][d]
    BY <1>0, <1>1, <1>3, <1>4, <1>6, <2>1, ProcessFacts
  <2>5. ASSUME NEW d \in Clients, d # c PROVE Carry(d)' /\ ServedOnce(d)' /\ Sorted(d)'
    BY <1>2, <2>3, <2>4, <2>5, WaySame DEF SysInv, WayInv
  <2>6. Carry(c) /\ ServedOnce(c) /\ Sorted(c)
    BY DEF SysInv, WayInv
  <2>7. wire'["client"][c] = rest
    BY <1>0, <1>3, <2>1, ProcessFacts
  <2>8. \/ msgQ'["server"][c] = <<>> /\ decoder'[Server] = "dead"
        \/ msgQ'["server"][c] = whole
    BY <1>0, <1>1, <1>4, <1>6, <2>1, <2>2, Update
  <2>9. Carry(c)'
    <3>1. \A i \in DOMAIN s : Asks(asked[c], s[i])
      BY <2>1, <2>6 DEF Carry
    <3>2. /\ \A i \in DOMAIN whole : i \in DOMAIN s /\ whole[i] = s[i]
          /\ \A i \in DOMAIN rest : k + i \in DOMAIN s /\ rest[i] = s[k + i]
      BY <1>1, CutSeq DEF whole, rest
    <3>3. \A i \in DOMAIN rest : Asks(asked[c], rest[i])
      BY <3>1, <3>2
    <3>4. \A i \in DOMAIN msgQ'["server"][c] : Asks(asked[c], msgQ'["server"][c][i])
      BY <2>8, <3>1, <3>2
    <3> QED BY <1>2, <2>6, <2>7, <3>3, <3>4 DEF Carry
  <2>10. ServedOnce(c)'
    BY <1>2, <2>2, <2>6 DEF ServedOnce
  <2>11. Sorted(c)'
    <3> DEFINE P == processed["server"][c]
    <3>1. CASE ~stalled[c] /\ decoder[Server] # "dead"
      <4>1. Got(c) = P
        BY <2>2, PrecededEmpty DEF Got
      <4>2. Closed(P) /\ Preceded(P, s)
        BY <2>1, <2>2, <2>6, <3>1, <4>1 DEF Sorted
      <4>3. link["client"][c] # "down" =>
              /\ Preceded(P \cup Nums(s), queued[c])
              /\ \A n \in 1 .. (next[c] - 1) : n \in P \cup Nums(s) \cup Nums(queued[c])
        BY <2>1, <2>2, <2>6, <3>1, <4>1 DEF Sorted
      <4>4. /\ Preceded(P, whole) /\ Preceded(P \cup Nums(whole), rest)
            /\ Nums(s) = Nums(whole) \cup Nums(rest)
        BY <1>1, <4>2, PrecededCut, NumsCut DEF whole, rest
      <4>5. CASE msgQ'["server"][c] = whole
        <5>1. Got(c)' = P \cup Nums(whole) /\ processed'["server"][c] = P
          BY <1>2, <4>5 DEF Got
        <5>2. P \cup Nums(whole) \cup Nums(rest) = P \cup Nums(s)
          BY <4>4
        <5> HIDE DEF P
        <5> QED BY <1>2, <2>7, <4>2, <4>3, <4>4, <4>5, <5>1, <5>2 DEF Sorted
      <4>6. CASE msgQ'["server"][c] = <<>> /\ decoder'[Server] = "dead"
        BY <1>2, <4>2, <4>6, PrecededEmpty DEF Sorted
      <4> QED BY <2>8, <4>5, <4>6
    <3>2. CASE ~stalled[c] /\ decoder[Server] = "dead"
      <4>1. decoder'[Server] = "dead" /\ msgQ' = msgQ
        BY <1>4, <2>1, <2>3, <3>2
      <4> QED BY <1>2, <2>6, <3>2, <4>1 DEF Sorted
    <3>3. CASE stalled[c]
      BY <1>2, <3>3 DEF Sorted
    <3> QED BY <3>1, <3>2, <3>3 DEF SysInv, TypeInv, TypeOK
  <2> QED BY <2>5, <2>9, <2>10, <2>11 DEF WayInv
<1> QED BY <1>5, <1>6, ProcessFacts

\* What a step of the server's loop does with the message f it pops.
DispatchEffect(c, f) ==
  /\ msgQ["server"][c] # <<>> /\ f = Head(msgQ["server"][c]) /\ f \in Messages
  /\ \A d \in Clients :
       msgQ'["server"][d] = IF d = c THEN Tail(msgQ["server"][c]) ELSE msgQ["server"][d]
  /\ \A d \in Clients : next'[d] = next[d] /\ pending'[d] = pending[d]
  /\ wire'["client"] = wire["client"]
  /\ UNCHANGED <<link, queued, decoder, asked, answered, stalled>>
  /\ \/ /\ f.seq \in processed["server"][c]
        /\ UNCHANGED <<processed, served>>
     \/ /\ f.seq \notin processed["server"][c]
        /\ served' = [served EXCEPT ![c] = Append(@, f.body.of)]
        /\ \A d \in Clients :
             processed'["server"][d] = IF d = c THEN processed["server"][c] \cup {f.seq}
                                                ELSE processed["server"][d]

LEMMA DispatchStep ==
  ASSUME SysInv, NEW e \in Ends, NEW c \in Clients, Dispatch(e, c)
  PROVE  \E f : DispatchEffect(c, f)
<1> DEFINE f == Head(msgQ[e][c])
           r == f.body.of
<1>0. /\ wire \in [Ends -> [Clients -> Seq(Messages)]]
      /\ msgQ \in [Ends -> [Clients -> Seq(Messages)]]
      /\ processed \in [Ends -> [Clients -> SUBSET (Nat \ {0})]]
      /\ pending \in [Processes -> SUBSET Entries]
      /\ next \in [Processes -> Nat \ {0}]
      /\ \A d \in Clients : d # Server /\ d \in Processes
  BY ProcessFacts DEF SysInv, TypeInv, TypeOK
<1>1. msgQ[e][c] # <<>> /\ msgQ' = [msgQ EXCEPT ![e][c] = Tail(@)]
  BY DEF Dispatch
<1>2. e = "server" /\ At(e, c) = Server /\ e # "client" /\ "client" \in Ends
  BY <1>1, ProcessFacts DEF SysInv, SilentInv
<1>3. f = msgQ[e][c][1] /\ 1 \in DOMAIN msgQ[e][c] /\ f \in Messages
      /\ Tail(msgQ[e][c]) \in Seq(Messages)
  BY <1>0, <1>1
<1>4. r \in Request
  <2>1. f.body # NoBody
    BY <1>3 DEF SysInv, TypeInv, NoNullInv
  <2> QED BY <1>3, <2>1, BodyFacts DEF Messages
<1>5. \A d \in Clients :
        msgQ'["server"][d] = IF d = c THEN Tail(msgQ["server"][c]) ELSE msgQ["server"][d]
  BY <1>0, <1>1, <1>2, <1>3, Update
<1>6. UNCHANGED <<link, queued, decoder, asked, answered, stalled>>
  BY <1>2 DEF Dispatch
<1>7. CASE Seen(e, c, f.seq)
  <2>1. UNCHANGED <<manager, wire, served>>
    BY <1>7 DEF Dispatch
  <2>2. f.seq \in processed["server"][c]
    BY <1>2, <1>7 DEF Seen
  <2> QED BY <1>1, <1>2, <1>3, <1>5, <1>6, <2>1, <2>2 DEF DispatchEffect, manager
<1>8. CASE ~Seen(e, c, f.seq)
  <2>1. /\ processed' = [processed EXCEPT ![e][c] = @ \cup {f.seq}]
        /\ served' = IF e = "server" THEN [served EXCEPT ![c] = Append(@, r)] ELSE served
    BY <1>8 DEF Dispatch
  <2>2. PICK ack \in {TRUE, acking[e][c] = FALSE} :
          LET acks == IF ack THEN <<Frame(f.seq, AckBody)>> ELSE <<>>
          IN  IF Echoed(e, f)
              THEN /\ next' = [next EXCEPT ![At(e, c)] = @ + 1]
                   /\ pending' = [pending EXCEPT ![At(e, c)] =
                                    @ \cup {Entry(c, next[At(e, c)], Answered(r))}]
                   /\ Write(e, c, Append(acks, Frame(next[At(e, c)], Answered(r))))
              ELSE /\ UNCHANGED <<next, pending>>
                   /\ Write(e, c, acks)
    BY <1>8 DEF Dispatch
  <2>3. \A d \in Clients : next'[d] = next[d] /\ pending'[d] = pending[d]
    <3>1. \/ UNCHANGED <<next, pending>>
          \/ /\ next' = [next EXCEPT ![Server] = @ + 1]
             /\ pending' = [pending EXCEPT ![Server] =
                              @ \cup {Entry(c, next[Server], Answered(r))}]
      BY <1>2, <2>2
    <3> HIDE DEF r, f
    <3> QED BY <1>0, <3>1
  <2>4. wire'["client"] = wire["client"]
    <3>1. \E fs : Write("server", c, fs)
      BY <1>2, <2>2
    <3>2. PICK fs : wire' = [wire EXCEPT !["server"][c] = Written("server", c, fs)]
      BY <3>1 DEF Write
    <3> QED BY <1>0, <1>2, <3>2
  <2>5. \A d \in Clients :
          processed'["server"][d] = IF d = c THEN processed["server"][c] \cup {f.seq}
                                             ELSE processed["server"][d]
    BY <1>0, <1>2, <2>1
  <2>6. f.seq \notin processed["server"][c] /\ served' = [served EXCEPT ![c] = Append(@, r)]
    BY <1>2, <1>8, <2>1 DEF Seen
  <2> QED BY <1>1, <1>2, <1>3, <1>5, <1>6, <2>3, <2>4, <2>5, <2>6 DEF DispatchEffect
<1> QED BY <1>7, <1>8

LEMMA WayDispatch ==
  ASSUME SysInv, NEW e \in Ends, NEW c \in Clients, Dispatch(e, c)
  PROVE  WayInv'
<1>1. PICK f : DispatchEffect(c, f)
  BY DispatchStep
<1> DEFINE q == msgQ["server"][c]
           P == processed["server"][c]
<1>2. /\ q \in Seq(Messages) /\ q # <<>> /\ f = Head(q) /\ f \in Messages
      /\ msgQ'["server"][c] = Tail(q)
      /\ served[c] \in Seq(Request) /\ asked[c] \in Seq(Request)
      /\ served \in [Clients -> Seq(Request)]
  BY <1>1, ProcessFacts DEF DispatchEffect, SysInv, TypeInv, TypeOK
<1>3. /\ UNCHANGED <<link, queued, decoder, asked, stalled>>
      /\ next'[c] = next[c] /\ pending'[c] = pending[c]
      /\ wire'["client"][c] = wire["client"][c]
  BY <1>1 DEF DispatchEffect
<1>4. \/ /\ f.seq \in P
         /\ processed'["server"][c] = P /\ served' = served
      \/ /\ f.seq \notin P
         /\ processed'["server"][c] = P \cup {f.seq}
         /\ served' = [served EXCEPT ![c] = Append(@, f.body.of)]
  BY <1>1 DEF DispatchEffect
<1>5. Carry(c) /\ ServedOnce(c) /\ Sorted(c)
  BY DEF SysInv, WayInv
<1>6. ASSUME NEW d \in Clients, d # c PROVE Carry(d)' /\ ServedOnce(d)' /\ Sorted(d)'
  <2>1. served'[d] = served[d]
    BY <1>2, <1>4, <1>6
  <2>2. /\ msgQ'["server"][d] = msgQ["server"][d] /\ next'[d] = next[d]
        /\ pending'[d] = pending[d] /\ wire'["client"][d] = wire["client"][d]
        /\ processed'["server"][d] = processed["server"][d]
    BY <1>1, <1>6 DEF DispatchEffect
  <2> QED BY <1>3, <1>6, <2>1, <2>2, WaySame DEF SysInv, WayInv
<1>7. link["server"][c] # "down"
  BY <1>2, <1>5 DEF ServedOnce
<1> HIDE DEF q, P
<1>8. /\ 1 \in DOMAIN q /\ f = q[1]
      /\ \A i \in DOMAIN Tail(q) : i + 1 \in DOMAIN q /\ Tail(q)[i] = q[i + 1]
  BY <1>2
<1>9. \A i \in DOMAIN q : Asks(asked[c], q[i])
  BY <1>5 DEF Carry, q
<1>10. f.seq \in DOMAIN asked[c] /\ f.body.of = asked[c][f.seq] /\ asked[c][f.seq].num = f.seq
       /\ asked[c][f.seq] \in Request
  <2>1. f.seq \in DOMAIN asked[c] /\ f.body = Asking(asked[c][f.seq])
    BY <1>8, <1>9 DEF Asks
  <2>2. asked[c][f.seq] \in Request /\ asked[c][f.seq].num = f.seq
    BY <1>2, <1>5, <2>1 DEF Carry
  <2> QED BY <2>1, <2>2, BodyFacts
<1>11. Carry(c)'
  <2>1. \A i \in DOMAIN msgQ'["server"][c] : Asks(asked[c], msgQ'["server"][c][i])
    BY <1>2, <1>8, <1>9
  <2> QED BY <1>3, <1>5, <2>1 DEF Carry
<1>12. ServedOnce(c)'
  <2>1. P = {served[c][i].num : i \in DOMAIN served[c]}
    BY <1>5, <1>7 DEF ServedOnce, P
  <2>2. CASE processed'["server"][c] = P /\ served' = served
    BY <1>3, <1>5, <1>7, <2>1, <2>2 DEF ServedOnce
  <2>3. CASE /\ processed'["server"][c] = P \cup {f.seq}
             /\ served' = [served EXCEPT ![c] = Append(@, f.body.of)]
    <3> DEFINE l == served[c]
               r == f.body.of
    <3>1. l \in Seq(Request) /\ r \in Request /\ served'[c] = Append(l, r) /\ r.num = f.seq
      BY <1>2, <1>10, <2>3
    <3>2. \A i \in DOMAIN l : \E n \in DOMAIN asked[c] : l[i] = asked[c][n]
      BY <1>5 DEF ServedOnce
    <3> HIDE DEF l, r
    <3>3. /\ Len(l) \in Nat /\ DOMAIN l = 1 .. Len(l)
          /\ DOMAIN Append(l, r) = 1 .. (Len(l) + 1) /\ Append(l, r)[Len(l) + 1] = r
          /\ \A i \in 1 .. Len(l) : Append(l, r)[i] = l[i]
      BY <3>1
    <3>4. \A i \in DOMAIN Append(l, r) : \E n \in DOMAIN asked[c] : Append(l, r)[i] = asked[c][n]
      <4>1. \E n \in DOMAIN asked[c] : r = asked[c][n]
        BY <1>10 DEF r
      <4> QED BY <3>2, <3>3, <4>1
    <3>5. {Append(l, r)[i].num : i \in DOMAIN Append(l, r)} = {l[i].num : i \in DOMAIN l} \cup {r.num}
      <4>1. \A i \in DOMAIN Append(l, r) : i \in DOMAIN l \/ i = Len(l) + 1
        BY <3>3
      <4>2. \A i \in DOMAIN l : i \in DOMAIN Append(l, r) /\ Append(l, r)[i] = l[i]
        BY <3>3
      <4>3. Len(l) + 1 \in DOMAIN Append(l, r) /\ Append(l, r)[Len(l) + 1] = r
        BY <3>3
      <4> QED BY <4>1, <4>2, <4>3
    <3>6. processed'["server"][c] = {served'[c][i].num : i \in DOMAIN served'[c]}
      BY <2>1, <2>3, <3>1, <3>5 DEF l
    <3> QED BY <1>3, <1>7, <3>1, <3>4, <3>6 DEF ServedOnce
  <2> QED BY <1>4, <2>2, <2>3
<1>13. Sorted(c)'
  <2> SUFFICES ASSUME ~stalled[c] PROVE Sorted(c)'
    BY <1>3 DEF Sorted
  <2>1. Closed(P) /\ Preceded(P, q)
    BY <1>5 DEF Sorted, P, q
  <2>2. /\ \A n \in 1 .. (f.seq - 1) : n \in P
        /\ Preceded(P \cup {f.seq}, Tail(q))
        /\ Nums(q) = {f.seq} \cup Nums(Tail(q))
    BY <1>2, <2>1, PrecededTail
  <2>3. processed'["server"][c] = P \cup {f.seq}
    BY <1>4
  <2>4. Closed(P \cup {f.seq})
    BY <2>1, <2>2 DEF Closed
  <2>5. Got(c)' = Got(c)
    BY <1>2, <2>2, <2>3 DEF Got, P, q
  <2> QED BY <1>2, <1>3, <1>5, <2>2, <2>3, <2>4, <2>5 DEF Sorted
<1> QED BY <1>6, <1>11, <1>12, <1>13 DEF WayInv

LEMMA WayQuit == ASSUME SysInv, Quit PROVE WayInv'
<1>1. UNCHANGED <<link, next, pending, processed, queued, wire, decoder, msgQ, asked, served,
                  stalled>>
  BY DEF Quit, manager, logs
<1> QED BY <1>1, WaySame DEF SysInv, WayInv

LEMMA SysInit == Init => SysInv
BY TypeInit, SilentInit, WayInit DEF SysInv

LEMMA SysNext == SysInv /\ [Next]_vars => SysInv'
<1> SUFFICES ASSUME SysInv, [Next]_vars PROVE SysInv'
  OBVIOUS
<1>1. TypeInv' /\ SilentInv'
  BY TypeNext, SilentNext DEF SysInv
<1>2. CASE UNCHANGED vars
  <2>1. UNCHANGED <<link, next, pending, processed, queued, wire, decoder, msgQ, asked, served,
                    stalled>>
    BY <1>2 DEF vars, manager, logs
  <2>2. WayInv'
    BY <2>1, WaySame DEF SysInv, WayInv
  <2> QED BY <1>1, <2>2 DEF SysInv
<1>3. CASE Next
  <2>1. WayInv'
    BY <1>3, WayConnect, WayClose, WayAsk, WaySendInLoop, WayScan, WayOnMessage,
       WayDispatch, WayQuit DEF Next
  <2> QED BY <1>1, <2>1 DEF SysInv
<1> QED BY <1>2, <1>3

-----------------------------------------------------------------------------
(* No request is lost *)

\* The numbers of what client c has sent, wherever the server has got with it.
Way(c) == Got(c) \cup Nums(wire["client"][c]) \cup Nums(queued[c])

\* They are all of its numbers, even when its loop has stood still.
OnWay(c) == Intact(c) => \A n \in 1 .. (next[c] - 1) : n \in Way(c)

OnWayInv == \A c \in Clients : OnWay(c)

LEMMA OnWayInit == Init => OnWayInv
<1> SUFFICES ASSUME Init, NEW c \in Clients PROVE OnWay(c)
  BY DEF OnWayInv
<1>1. next[c] = 1
  BY ProcessFacts DEF Init
<1> QED BY <1>1 DEF OnWay

\* A step by which client c sends nothing new and nothing leaves the way.
LEMMA OnWayKept ==
  ASSUME NEW c \in Clients, OnWay(c), next'[c] = next[c],
         Intact(c)' => Intact(c) /\ Way(c) \subseteq Way(c)'
  PROVE  OnWay(c)'
BY DEF OnWay

\* A step that leaves alone the way of c.
LEMMA OnWaySame ==
  ASSUME NEW c \in Clients, OnWay(c), next'[c] = next[c],
         queued'[c] = queued[c], wire'["client"][c] = wire["client"][c],
         msgQ'["server"][c] = msgQ["server"][c],
         processed'["server"][c] = processed["server"][c],
         decoder[Server] = "dead" => decoder'[Server] = "dead",
         \A e \in Ends : link[e][c] = "down" => link'[e][c] = "down"
  PROVE  OnWay(c)'
<1>1. Way(c)' = Way(c)
  BY DEF Way, Got
<1>2. Intact(c)' => Intact(c)
  BY DEF Intact
<1> QED BY <1>1, <1>2, OnWayKept

LEMMA OnWayConnect ==
  ASSUME SysInv, OnWayInv, NEW e \in Ends, NEW c \in Clients, Connect(e, c)
  PROVE  OnWayInv'
<1>1. \A x \in Ends, d \in Clients : link[x][d] = "down" => link'[x][d] = "down"
  BY Update DEF Connect, SysInv, TypeInv, TypeOK
<1>2. UNCHANGED <<manager, queued, wire, decoder, msgQ>>
  BY DEF Connect
<1> QED BY <1>1, <1>2, OnWaySame DEF OnWayInv, manager

LEMMA OnWayClose ==
  ASSUME SysInv, OnWayInv, NEW e \in Ends, NEW c \in Clients, Close(e, c)
  PROVE  OnWayInv'
<1>0. /\ link \in [Ends -> [Clients -> Links]]
      /\ processed \in [Ends -> [Clients -> SUBSET (Nat \ {0})]]
      /\ queued \in [Clients -> Seq(Messages)]
      /\ wire \in [Ends -> [Clients -> Seq(Messages)]]
      /\ <<>> \in Seq(Messages) /\ Peer(e) \in Ends
  BY ProcessFacts DEF SysInv, TypeInv, TypeOK, Links
<1>1. /\ link' = [link EXCEPT ![e][c] = "down"]
      /\ processed' = [processed EXCEPT ![e][c] = {}]
      /\ wire' = [wire EXCEPT ![Peer(e)][c] = <<>>]
      /\ queued' = IF e = "client" THEN [queued EXCEPT ![c] = <<>>] ELSE queued
      /\ UNCHANGED <<next, decoder, msgQ>>
  BY DEF Close
<1>2. \A x \in Ends, d \in Clients :
        link'[x][d] = IF x = e /\ d = c THEN "down" ELSE link[x][d]
  BY <1>0, <1>1, Update DEF Links
<1>3. \A x \in Ends, d \in Clients : d # c =>
        wire'[x][d] = wire[x][d] /\ processed'[x][d] = processed[x][d]
  BY <1>0, <1>1
<1>4. ASSUME NEW d \in Clients, d # c PROVE OnWay(d)'
  <2>1. queued'[d] = queued[d]
    BY <1>0, <1>1, <1>4
  <2> QED BY <1>1, <1>2, <1>3, <1>4, <2>1, OnWaySame, ProcessFacts DEF OnWayInv
<1>5. OnWay(c)'
  BY <1>2 DEF OnWay, Intact
<1> QED BY <1>4, <1>5 DEF OnWayInv

LEMMA OnWayAsk ==
  ASSUME SysInv, OnWayInv, NEW c \in Clients, NEW service \in Services, Ask(c, service)
  PROVE  OnWayInv'
<1> DEFINE r == [num |-> Len(asked[c]) + 1, service |-> service]
           f == Frame(next[c], Asking(r))
<1>0. /\ queued \in [Clients -> Seq(Messages)]
      /\ asked \in [Clients -> Seq(Request)]
      /\ next \in [Processes -> Nat \ {0}]
      /\ c \in Processes /\ \A d \in Clients : d \in Processes
  BY ProcessFacts DEF SysInv, TypeInv, TypeOK
<1>1. /\ next' = [next EXCEPT ![c] = @ + 1]
      /\ queued' = [queued EXCEPT ![c] = Append(@, f)]
      /\ UNCHANGED <<link, processed, wire, decoder, msgQ>>
  BY DEF Ask
<1>2. f \in Messages /\ f.seq = next[c]
  <2>1. r \in Request
    BY <1>0 DEF Request
  <2> QED BY <1>0, <2>1, BodyFacts DEF Frame, Messages
<1> HIDE DEF r, f
<1>3. ASSUME NEW d \in Clients, d # c PROVE OnWay(d)'
  <2>1. queued'[d] = queued[d] /\ next'[d] = next[d]
    BY <1>0, <1>1, <1>3
  <2> QED BY <1>1, <2>1, OnWaySame DEF OnWayInv
<1>4. Nums(queued'[c]) = Nums(queued[c]) \cup {next[c]}
  <2> DEFINE q == queued[c]
  <2>1. q \in Seq(Messages) /\ <<f>> \in Seq(Messages) /\ Nums(<<f>>) = {next[c]}
    BY <1>0, <1>2 DEF Nums
  <2>2. queued'[c] = Append(q, f)
    BY <1>0, <1>1
  <2> HIDE DEF q
  <2>3. Append(q, f) = q \o <<f>>
    BY <1>2, <2>1
  <2>4. Nums(q \o <<f>>) = Nums(q) \cup Nums(<<f>>)
    BY <2>1, NumsConcat
  <2> QED BY <2>1, <2>2, <2>3, <2>4 DEF q
<1>5. Way(c)' = Way(c) \cup {next[c]}
  BY <1>1, <1>4 DEF Way, Got
<1>6. \A n \in 1 .. (next'[c] - 1) : n \in 1 .. (next[c] - 1) \/ n = next[c]
  BY <1>0, <1>1
<1>7. Intact(c)' => Intact(c)
  BY <1>1 DEF Intact
<1>8. OnWay(c)'
  BY <1>5, <1>6, <1>7 DEF OnWayInv, OnWay
<1> QED BY <1>3, <1>8 DEF OnWayInv

\* What leaves the queue of the client's loop is written on the wire.
LEMMA OnWaySendInLoop ==
  ASSUME SysInv, OnWayInv, NEW c \in Clients, SendInLoop(c)
  PROVE  OnWayInv'
<1> DEFINE q == queued[c]
           w == wire["client"][c]
           h == <<Head(q)>>
<1>0. /\ queued \in [Clients -> Seq(Messages)]
      /\ wire \in [Ends -> [Clients -> Seq(Messages)]]
      /\ q \in Seq(Messages) /\ w \in Seq(Messages)
      /\ "client" \in Ends /\ "server" \in Ends /\ Peer("client") = "server"
  BY ProcessFacts DEF SysInv, TypeInv, TypeOK
<1>1. /\ q # <<>> /\ queued' = [queued EXCEPT ![c] = Tail(@)]
      /\ wire' = [wire EXCEPT !["client"][c] = Written("client", c, h)]
      /\ UNCHANGED <<link, manager, decoder, msgQ>>
  BY DEF SendInLoop, Write
<1>2. h \in Seq(Messages) /\ Tail(q) \in Seq(Messages) /\ Nums(h) = {Head(q).seq}
  BY <1>0, <1>1 DEF Nums
<1>3. \A d \in Clients :
        /\ wire'["client"][d] = IF d = c THEN Written("client", c, h) ELSE wire["client"][d]
        /\ queued'[d] = IF d = c THEN Tail(q) ELSE queued[d]
  BY <1>0, <1>1
<1>4. ASSUME NEW d \in Clients, d # c PROVE OnWay(d)'
  BY <1>1, <1>3, <1>4, OnWaySame DEF OnWayInv, manager
<1> HIDE DEF q, w, h
<1>5. Nums(q) = {Head(q).seq} \cup Nums(Tail(q))
  BY <1>0, <1>1, NumsTail
<1>6. Intact(c)' => Intact(c) /\ wire'["client"][c] = w \o h
  BY <1>0, <1>1, <1>3 DEF Intact, Written, w
<1>7. Nums(w \o h) = Nums(w) \cup Nums(h)
  BY <1>0, <1>2, NumsConcat
<1>8. Intact(c)' => Way(c) \subseteq Way(c)'
  <2>1. Got(c)' = Got(c) /\ queued'[c] = Tail(q)
    BY <1>1, <1>3 DEF Got, manager
  <2> QED BY <1>2, <1>5, <1>6, <1>7, <2>1 DEF Way, q, w
<1>9. OnWay(c)'
  BY <1>1, <1>6, <1>8, OnWayKept DEF OnWayInv, manager
<1> QED BY <1>4, <1>9 DEF OnWayInv

\* A scan of the client writes more messages on the wire.
LEMMA OnWayScan ==
  ASSUME SysInv, OnWayInv, NEW p \in Processes, Scan(p)
  PROVE  OnWayInv'
<1>1. PICK X, again, kept, o : ScanEffect(p, X, again, kept, o)
  BY ScanStep DEF SysInv
<1>2. UNCHANGED <<link, next, processed, queued, decoder, msgQ>>
  BY DEF Scan
<1>3. wire \in [Ends -> [Clients -> Seq(Messages)]]
  BY DEF SysInv, TypeInv, TypeOK
<1>4. wire' = [wire EXCEPT ![EndOf(p)] =
                 [c \in Clients |-> Written(EndOf(p), c, Frames(o[c]))]]
  BY <1>1 DEF ScanEffect
<1>5. ASSUME NEW c \in Clients PROVE OnWay(c)'
  <2> DEFINE w == wire["client"][c]
             fs == Frames(o[c])
  <2>1. w \in Seq(Messages) /\ fs \in Seq(Messages)
    BY <1>1, <1>3, ProcessFacts DEF ScanEffect
  <2>2. wire'["client"][c] = w \/ wire'["client"][c] = w \o fs
    BY <1>3, <1>4, ProcessFacts DEF Written
  <2> HIDE DEF w, fs
  <2>3. Nums(w) \subseteq Nums(wire'["client"][c])
    BY <2>1, <2>2, NumsConcat
  <2>4. Way(c) \subseteq Way(c)'
    BY <1>2, <2>3 DEF Way, Got, w
  <2> QED BY <1>2, <2>4, OnWayKept DEF OnWayInv, Intact
<1> QED BY <1>5 DEF OnWayInv

\* What leaves the wire goes to the queue of the server's decoder, which
\* otherwise is dead.
LEMMA OnWayOnMessage ==
  ASSUME SysInv, OnWayInv, NEW e \in Ends, NEW c \in Clients,
         NEW k \in 0 .. Len(wire[Peer(e)][c]), NEW cut \in Cuts, OnMessage(e, c, k, cut)
  PROVE  OnWayInv'
<1> DEFINE s == wire[Peer(e)][c]
           whole == SubSeq(s, 1, k)
           rest == SubSeq(s, k + 1, Len(s))
<1>0. /\ Peer(e) \in Ends
      /\ wire \in [Ends -> [Clients -> Seq(Messages)]]
      /\ msgQ \in [Ends -> [Clients -> Seq(Messages)]]
      /\ decoder \in [Processes -> {"clean", "dead"} \cup Clients]
  BY ProcessFacts DEF SysInv, TypeInv, TypeOK
<1>1. /\ s \in Seq(Messages) /\ k \in 0 .. Len(s)
      /\ whole \in Seq(Messages) /\ rest \in Seq(Messages)
  BY <1>0, CutSeq
<1>2. UNCHANGED <<link, next, processed, queued>>
  BY DEF OnMessage, manager
<1>3. \A x \in Ends, d \in Clients :
        wire'[x][d] = IF x = Peer(e) /\ d = c THEN rest ELSE wire[x][d]
  <2>1. wire' = [wire EXCEPT ![Peer(e)][c] = rest]
    BY <1>0 DEF OnMessage
  <2> QED BY <1>0, <1>1, <2>1, Update
<1>4. \/ decoder' = [decoder EXCEPT ![At(e, c)] = "dead"] /\ msgQ' = msgQ
      \/ /\ decoder[At(e, c)] # "dead"
         /\ \E v : decoder' = [decoder EXCEPT ![At(e, c)] = v]
         /\ msgQ' = [msgQ EXCEPT ![e][c] = whole]
  BY ProcessFacts DEF OnMessage
<1>5. Nums(s) = Nums(whole) \cup Nums(rest)
  BY <1>1, NumsCut
<1> HIDE DEF s, whole, rest
<1>6. CASE e = "client"
  <2>1. At(e, c) # Server /\ Peer(e) = "server" /\ "client" \in Ends /\ "server" \in Ends
    BY <1>6, ProcessFacts
  <2>2. decoder'[Server] = decoder[Server]
    BY <1>0, <1>4, <2>1, ProcessFacts
  <2>3. \A d \in Clients : wire'["client"][d] = wire["client"][d]
                           /\ msgQ'["server"][d] = msgQ["server"][d]
    <3>1. e # "server"
      BY <1>6
    <3> QED BY <1>0, <1>1, <1>3, <1>4, <2>1, <3>1
  <2> QED BY <1>2, <2>2, <2>3, OnWaySame DEF OnWayInv
<1>7. CASE e = "server"
  <2>1. At(e, c) = Server /\ Peer(e) = "client" /\ Server \in Processes /\ s = wire["client"][c]
    BY <1>7, ProcessFacts DEF s
  <2>2. msgQ["server"][c] = <<>>
    BY <1>7, <2>1, ProcessFacts DEF OnMessage, LoopIdle
  <2>3. decoder[Server] = "dead" => decoder'[Server] = "dead"
    BY <1>0, <1>4, <2>1
  <2>4. \A d \in Clients : d # c => wire'["client"][d] = wire["client"][d]
                                    /\ msgQ'["server"][d] = msgQ["server"][d]
    BY <1>0, <1>1, <1>3, <1>4, <1>7, <2>1, ProcessFacts
  <2>5. ASSUME NEW d \in Clients, d # c PROVE OnWay(d)'
    BY <1>2, <2>3, <2>4, <2>5, OnWaySame DEF OnWayInv
  <2>6. wire'["client"][c] = rest
    BY <1>0, <1>3, <2>1, ProcessFacts
  <2>7. decoder'[Server] = "dead" \/ msgQ'["server"][c] = whole
    BY <1>0, <1>1, <1>4, <1>7, <2>1, Update
  <2>8. Intact(c)' => Intact(c) /\ msgQ'["server"][c] = whole
    BY <1>2, <2>3, <2>7 DEF Intact
  <2>9. Nums(msgQ["server"][c]) = {}
    BY <2>2, PrecededEmpty
  <2>10. Intact(c)' => Way(c) \subseteq Way(c)'
    BY <1>2, <1>5, <2>1, <2>6, <2>8, <2>9 DEF Way, Got
  <2>11. OnWay(c)'
    BY <1>2, <2>8, <2>10, OnWayKept DEF OnWayInv
  <2> QED BY <2>5, <2>11 DEF OnWayInv
<1> QED BY <1>6, <1>7, ProcessFacts

\* What leaves the queue of the server's decoder has been processed by then.
LEMMA OnWayDispatch ==
  ASSUME SysInv, OnWayInv, NEW e \in Ends, NEW c \in Clients, Dispatch(e, c)
  PROVE  OnWayInv'
<1>1. PICK f : DispatchEffect(c, f)
  BY DispatchStep
<1> DEFINE q == msgQ["server"][c]
           P == processed["server"][c]
<1>2. q \in Seq(Messages) /\ q # <<>> /\ f = Head(q) /\ msgQ'["server"][c] = Tail(q)
  BY <1>1, ProcessFacts DEF DispatchEffect, SysInv, TypeInv, TypeOK
<1>3. /\ UNCHANGED <<link, queued, decoder>>
      /\ \A d \in Clients : next'[d] = next[d] /\ wire'["client"][d] = wire["client"][d]
      /\ \A d \in Clients : d # c =>
           /\ msgQ'["server"][d] = msgQ["server"][d]
           /\ processed'["server"][d] = processed["server"][d]
  BY <1>1 DEF DispatchEffect
<1>4. processed'["server"][c] = P \cup {f.seq}
  <2>1. CASE f.seq \in P
    <3>1. processed' = processed
      BY <1>1, <2>1 DEF DispatchEffect
    <3> QED BY <2>1, <3>1
  <2>2. CASE f.seq \notin P
    BY <1>1, <2>2 DEF DispatchEffect
  <2> QED BY <2>1, <2>2
<1>5. ASSUME NEW d \in Clients, d # c PROVE OnWay(d)'
  BY <1>3, <1>5, OnWaySame DEF OnWayInv
<1> HIDE DEF q, P
<1>6. Nums(q) = {f.seq} \cup Nums(Tail(q))
  BY <1>2, NumsTail
<1>7. Way(c)' = Way(c)
  BY <1>2, <1>3, <1>4, <1>6 DEF Way, Got, q, P
<1>8. OnWay(c)'
  BY <1>3, <1>7, OnWayKept DEF OnWayInv, Intact
<1> QED BY <1>5, <1>8 DEF OnWayInv

LEMMA OnWayQuit == ASSUME SysInv, OnWayInv, Quit PROVE OnWayInv'
<1>1. UNCHANGED <<link, next, processed, queued, wire, decoder, msgQ>>
  BY DEF Quit, manager
<1> QED BY <1>1, OnWaySame DEF OnWayInv

LEMMA OnWayNext == SysInv /\ OnWayInv /\ [Next]_vars => OnWayInv'
<1> SUFFICES ASSUME SysInv, OnWayInv, [Next]_vars PROVE OnWayInv'
  OBVIOUS
<1>1. CASE UNCHANGED vars
  <2>1. UNCHANGED <<link, next, processed, queued, wire, decoder, msgQ>>
    BY <1>1 DEF vars, manager
  <2> QED BY <2>1, OnWaySame DEF OnWayInv
<1>2. CASE Next
  BY <1>2, OnWayConnect, OnWayClose, OnWayAsk, OnWaySendInLoop, OnWayScan, OnWayOnMessage,
     OnWayDispatch, OnWayQuit DEF Next
<1> QED BY <1>1, <1>2

\* The number of a message in a sequence.
LEMMA HasNumber == ASSUME NEW s, NEW n PROVE n \in Nums(s) <=> Has(s, n)
BY DEF Nums, Has

\* As long as neither end has lost its connection and the decoder of the server
\* lives, every request of a client has been served or is on its way: in the queue of
\* the client's loop, on the wire, or in the queue of the decoder that all
\* connections share.
THEOREM NoRequestLost == Spec => []NoneLost
<1>1. SysInv /\ OnWayInv => NoneLost
  <2> SUFFICES ASSUME SysInv, OnWayInv, NEW c \in Clients, Intact(c), NEW n \in DOMAIN asked[c]
               PROVE  \/ \E i \in DOMAIN served[c] : served[c][i].num = n
                      \/ Has(msgQ["server"][c], n) \/ Has(wire["client"][c], n)
                      \/ Has(queued[c], n)
    BY DEF NoneLost
  <2>1. Carry(c) /\ ServedOnce(c) /\ OnWay(c) /\ asked[c] \in Seq(Request)
    BY DEF SysInv, WayInv, OnWayInv, TypeInv, TypeOK
  <2>2. n \in 1 .. (next[c] - 1)
    BY <2>1 DEF Carry
  <2>3. n \in Way(c)
    BY <2>1, <2>2 DEF OnWay
  <2>4. processed["server"][c] = {served[c][i].num : i \in DOMAIN served[c]}
    BY <2>1, ProcessFacts DEF ServedOnce, Intact
  <2> QED BY <2>3, <2>4, HasNumber DEF Way, Got
<1> QED BY <1>1, SysInit, SysNext, OnWayInit, OnWayNext, PTL DEF Spec

-----------------------------------------------------------------------------
(* The system implements the echo service *)

\* A step that nobody who uses the service can see.
LEMMA Stutter ==
  ASSUME UNCHANGED <<asked, served, answered, stalled>>
  PROVE  UNCHANGED Service!vars
BY DEF Service!vars, Service!logs

LEMMA ServiceInit == Init => Service!Init
BY DEF Init, Service!Init

LEMMA ServiceAsk ==
  ASSUME SysInv, NEW c \in Clients, NEW service \in Services, Ask(c, service)
  PROVE  Service!Next
<1>1. asked \in [Clients -> Seq(Request)]
  BY DEF SysInv, TypeInv, TypeOK
<1>2. /\ asked' = [asked EXCEPT ![c] = Append(@, [num |-> Len(@) + 1, service |-> service])]
      /\ UNCHANGED <<served, answered, stalled>>
  BY <1>1 DEF Ask
<1>3. Service!Ask(c, service)
  BY <1>2 DEF Service!Ask
<1> QED BY <1>3 DEF Service!Next

\* A scan that finds a message timed out which is yet to be written is the
\* service's Stall, and any other one is nothing to it.
LEMMA ServiceScan ==
  ASSUME SysInv, NEW p \in Processes, Scan(p)
  PROVE  [Service!Next]_(Service!vars)
<1>1. PICK X, again, kept, o : ScanEffect(p, X, again, kept, o)
  BY ScanStep DEF SysInv
<1>2. UNCHANGED <<asked, served, answered>>
  BY DEF Scan, logs
<1>3. /\ stalled \in [Clients -> BOOLEAN] /\ stalled' \in [Clients -> BOOLEAN]
      /\ \A c \in Clients : stalled'[c] = (stalled[c] \/ (c = p /\ \E m \in X : Unwritten(m)))
  BY <1>1 DEF ScanEffect, SysInv, TypeInv, TypeOK
<1>4. CASE p \in Clients /\ \E m \in X : Unwritten(m)
  <2>1. /\ stalled'[p] = TRUE
        /\ \A c \in Clients : c # p => stalled'[c] = stalled[c]
    BY <1>3, <1>4
  <2>2. [c \in Clients |-> ~stalled'[c]]
          = [[c \in Clients |-> ~stalled[c]] EXCEPT ![p] = FALSE]
    BY <1>3, <2>1
  <2>3. Service!Stall(p)
    BY <1>2, <2>2 DEF Service!Stall, Service!logs
  <2> QED BY <1>4, <2>3 DEF Service!Next
<1>5. CASE ~(p \in Clients /\ \E m \in X : Unwritten(m))
  <2>1. \A c \in Clients : stalled'[c] = stalled[c]
    BY <1>3, <1>5
  <2>2. stalled' = stalled
    BY <1>3, <2>1
  <2> QED BY <1>2, <2>2, Stutter
<1> QED BY <1>4, <1>5

\* A message that the server has not seen is the next request it serves.
LEMMA ServiceDispatch ==
  ASSUME SysInv, NEW e \in Ends, NEW c \in Clients, Dispatch(e, c)
  PROVE  [Service!Next]_(Service!vars)
<1>1. PICK f : DispatchEffect(c, f)
  BY DispatchStep
<1> DEFINE q == msgQ["server"][c]
           P == processed["server"][c]
           i == f.seq
<1>2. UNCHANGED <<asked, answered, stalled>>
  BY <1>1 DEF DispatchEffect
<1>3. Carry(c) /\ ServedOnce(c) /\ Sorted(c)
  BY DEF SysInv, WayInv
<1>4. q \in Seq(Messages) /\ q # <<>> /\ f = Head(q) /\ asked[c] \in Seq(Request)
      /\ served[c] \in Seq(Request)
  BY <1>1, ProcessFacts DEF DispatchEffect, SysInv, TypeInv, TypeOK
<1>5. link["server"][c] # "down"
  BY <1>3, <1>4 DEF ServedOnce
<1>6. P = {served[c][n].num : n \in DOMAIN served[c]}
  BY <1>3, <1>5 DEF ServedOnce
<1>7. /\ i \in DOMAIN asked[c] /\ f.body.of = asked[c][i] /\ asked[c][i].num = i
      /\ asked[c][i] \in Request
  <2>1. 1 \in DOMAIN q /\ f = q[1]
    BY <1>4
  <2>2. i \in DOMAIN asked[c] /\ f.body = Asking(asked[c][i])
    BY <1>3, <2>1 DEF Carry, Asks
  <2>3. asked[c][i] \in Request /\ asked[c][i].num = i
    BY <1>3, <1>4, <2>2 DEF Carry
  <2> QED BY <2>2, <2>3, BodyFacts
<1>8. CASE i \in P
  BY <1>1, <1>2, <1>8, Stutter DEF DispatchEffect
<1>9. CASE i \notin P
  <2>1. served' = [served EXCEPT ![c] = Append(@, asked[c][i])]
    BY <1>1, <1>7, <1>9 DEF DispatchEffect
  <2>2. ~Service!Among(asked[c][i], served[c])
    BY <1>6, <1>7, <1>9 DEF Service!Among
  <2>3. Service!Among(asked[c][i], asked[c])
    BY <1>7 DEF Service!Among
  <2>4. ASSUME ~stalled[c], NEW n \in DOMAIN asked[c], asked[c][n].num < i
        PROVE  Service!Among(asked[c][n], served[c])
    <3>1. \A x \in 1 .. (i - 1) : x \in P
      BY <1>3, <1>4, <2>4, PrecededTail DEF Sorted
    <3>2. asked[c][n].num = n /\ n \in 1 .. (i - 1) /\ i \in Nat
      BY <1>3, <1>4, <1>7, <2>4 DEF Carry
    <3>3. PICK x \in DOMAIN served[c] : served[c][x].num = n
      BY <1>6, <3>1, <3>2
    <3>4. PICK y \in DOMAIN asked[c] : served[c][x] = asked[c][y]
      BY <1>3 DEF ServedOnce
    <3>5. y = n
      BY <1>3, <3>3, <3>4 DEF Carry
    <3> QED BY <3>4, <3>5 DEF Service!Among
  <2>5. Service!MayFollow(c, asked[c][i], asked[c], served[c])
    <3>1. \A n \in DOMAIN asked[c] :
            ~stalled[c] /\ asked[c][n].num < asked[c][i].num =>
              Service!Among(asked[c][n], served[c])
      BY <1>7, <2>4
    <3> QED BY <2>2, <2>3, <3>1 DEF Service!MayFollow
  <2>6. Service!Serve(c)
    BY <1>2, <1>7, <2>1, <2>5 DEF Service!Serve
  <2> QED BY <2>6 DEF Service!Next
<1> QED BY <1>8, <1>9

LEMMA ServiceNext == SysInv /\ [Next]_vars => [Service!Next]_(Service!vars)
<1> SUFFICES ASSUME SysInv, [Next]_vars PROVE [Service!Next]_(Service!vars)
  OBVIOUS
<1>1. CASE UNCHANGED vars
  BY <1>1, Stutter DEF vars, logs
<1>2. ASSUME NEW e \in Ends, NEW c \in Clients, Connect(e, c) \/ Close(e, c)
      PROVE  [Service!Next]_(Service!vars)
  BY <1>2, Stutter DEF Connect, Close, logs
<1>3. ASSUME NEW e \in Ends, NEW c \in Clients,
             NEW k \in 0 .. Len(wire[Peer(e)][c]), NEW cut \in Cuts, OnMessage(e, c, k, cut)
      PROVE  [Service!Next]_(Service!vars)
  BY <1>3, Stutter DEF OnMessage, logs
<1>4. ASSUME NEW c \in Clients, SendInLoop(c) PROVE [Service!Next]_(Service!vars)
  BY <1>4, Stutter DEF SendInLoop, logs
<1>5. ASSUME Quit PROVE [Service!Next]_(Service!vars)
  BY <1>5, Stutter DEF Quit, logs
<1> QED BY <1>1, <1>2, <1>3, <1>4, <1>5, ServiceAsk, ServiceScan, ServiceDispatch DEF Next

\* In spite of messages written again, of acknowledgements that end a decoder and
\* of a decoder shared by all connections, what clients and server do is what
\* the echo service does: requests are served once each, and in the order of the
\* calls until a client's loop stands still for the timeout of a message.
THEOREM Implementation == Spec => Implements
<1>1. SysInv /\ [Next]_vars => [Service!Next]_(Service!vars)
  BY ServiceNext
<1> QED BY <1>1, SysInit, SysNext, ServiceInit, PTL DEF Spec, Implements, Service!Spec

=============================================================================
