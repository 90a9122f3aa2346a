---------------------- MODULE ReliableMsgManagerProofs ----------------------
(***************************************************************************)
(* Theorems about ReliableMsgManager, for any connections, threads, retry  *)
(* and acknowledgement limits, and width of the sequence numbers.          *)
(***************************************************************************)
EXTENDS ReliableMsgManager, TLAPS

-----------------------------------------------------------------------------
(* Type correctness *)

LEMMA ConstantTypes ==
  /\ SeqMod \in Nat /\ SeqMod > 1 /\ MaxRetry \in Nat /\ Timeout \in Nat
  /\ AckGap \in Nat /\ AckBatch \in Nat /\ MaxSends \in Nat /\ MaxPeer \in Nat
BY BoundsAssumption

\* Every number reduced to uint32_t is one.
LEMMA InWidth == \A n \in Int : n % SeqMod \in Sequences32
BY ConstantTypes DEF Sequences32

\* A clock stays within its interval and one tick past it.
LEMMA OlderType ==
  ASSUME NEW interval \in Nat, NEW age \in 0 .. interval + 1
  PROVE  Older(age, interval) \in 0 .. interval + 1
BY DEF Older

\* Overwriting an entry, scanning and ageing leave a table of entries.
LEMMA PutType ==
  ASSUME NEW P \in SUBSET PendingMessage, NEW e \in PendingMessage
  PROVE  Put(P, e) \in SUBSET PendingMessage
BY DEF Put

LEMMA ScannedType ==
  ASSUME NEW c \in Conns, pending[c] \in SUBSET PendingMessage
  PROVE  Scanned(c) \in SUBSET PendingMessage
<1> SUFFICES ASSUME NEW p \in Resent(c)
             PROVE  [p EXCEPT !.retryCount = @ + 1, !.age = 0] \in PendingMessage
  BY DEF Scanned
<1>1. p \in PendingMessage /\ p.retryCount < MaxRetry
  BY DEF Resent, Retryable
<1>2. p.retryCount + 1 \in 0 .. MaxRetry /\ 0 \in 0 .. Timeout + 1
  BY <1>1, ConstantTypes DEF PendingMessage
<1> QED BY <1>1, <1>2 DEF PendingMessage

LEMMA AgedType ==
  ASSUME NEW P \in SUBSET PendingMessage
  PROVE  {[p EXCEPT !.age = Older(@, Timeout)] : p \in P} \in SUBSET PendingMessage
<1> SUFFICES ASSUME NEW p \in P
             PROVE  [p EXCEPT !.age = Older(@, Timeout)] \in PendingMessage
  OBVIOUS
<1>1. Older(p.age, Timeout) \in 0 .. Timeout + 1
  BY ConstantTypes, OlderType DEF PendingMessage
<1> QED BY <1>1 DEF PendingMessage

LEMMA TypeInit == Init => TypeOK
<1> SUFFICES ASSUME Init PROVE TypeOK
  OBVIOUS
<1>1. 0 \in Sequences32 /\ 1 \in Sequences32
  BY ConstantTypes DEF Sequences32
<1>2. xmits \in [Conns -> [Sequences32 -> Nat]]
  BY DEF Init
<1>3. handled \in [Conns -> Seq(1 .. MaxPeer)]
  BY DEF Init
<1>4. ackAge \in [Conns -> 0 .. AckGap + 1]
  BY ConstantTypes DEF Init
<1>5. /\ target \in [Threads -> Conns \cup {NoConn}]
      /\ sent \in 0 .. MaxSends
      /\ nextSequence \in Sequences32
  BY <1>1, ConstantTypes DEF Init
<1>6. /\ pending \in [Conns -> SUBSET PendingMessage]
      /\ processed \in [Conns -> SUBSET Sequences32]
      /\ arrived \in [Conns -> SUBSET (1 .. MaxPeer)]
      /\ acked \in [Conns -> SUBSET Sequences32]
      /\ lastAcked \in [Conns -> Sequences32]
      /\ batchAck \in [Conns -> Sequences32]
  BY <1>1 DEF Init
<1> QED BY <1>2, <1>3, <1>4, <1>5, <1>6 DEF Init, TypeOK

LEMMA TypeNext == TypeOK /\ [Next]_vars => TypeOK'
<1> SUFFICES ASSUME TypeOK, [Next]_vars PROVE TypeOK'
  OBVIOUS
<1> USE ConstantTypes
<1>1. ASSUME NEW c \in Conns, Connect(c) PROVE TypeOK'
  BY <1>1 DEF Connect, TypeOK, sending, receiving, sendLog, recvLog
<1>2. ASSUME NEW c \in Conns, Shutdown(c) \/ Disconnect(c) PROVE TypeOK'
  BY <1>2 DEF Shutdown, Disconnect, TypeOK, sending, receiving, sendLog, recvLog
<1>3. ASSUME NEW c \in Conns, CleanupConnection(c) PROVE TypeOK'
  BY <1>3 DEF CleanupConnection, TypeOK, sendLog, recvLog
<1>4. ASSUME NEW c \in Conns, NEW s \in Sequences32, ProcessAck(c, s) PROVE TypeOK'
  BY <1>4 DEF ProcessAck, TypeOK, sending, receiving, recvLog
<1>5. ASSUME NEW c \in Conns, NEW n \in 1 .. MaxPeer, ProcessData(c, n)
      PROVE  TypeOK'
  <2> DEFINE s   == n % SeqMod
             top == IF s > lastAcked[c] THEN s ELSE lastAcked[c]
  <2>1. s \in Sequences32
    BY InWidth
  <2> HIDE DEF s
  <2>2. top \in Sequences32
    BY <2>1 DEF TypeOK
  <2>3. /\ UNCHANGED <<connState, sending, target, crashed, sendLog>>
        /\ arrived' = [arrived EXCEPT ![c] = @ \cup {n}]
    BY <1>5 DEF ProcessData
  <2>4. \/ UNCHANGED <<receiving, handled, batchAck>>
        \/ /\ processed' = [processed EXCEPT ![c] = @ \cup {s}]
           /\ lastAcked' = [lastAcked EXCEPT ![c] = top]
           /\ handled' = [handled EXCEPT ![c] = Append(@, n)]
           /\ \/ batchAck' = [batchAck EXCEPT ![c] = top]
                 /\ ackAge' = [ackAge EXCEPT ![c] = 0]
              \/ UNCHANGED <<batchAck, ackAge>>
    BY <1>5 DEF ProcessData, s
  <2>5. arrived' \in [Conns -> SUBSET (1 .. MaxPeer)]
    BY <2>3 DEF TypeOK
  <2>6. handled' \in [Conns -> Seq(1 .. MaxPeer)]
    <3>1. handled[c] \in Seq(1 .. MaxPeer)
      BY DEF TypeOK
    <3>2. Append(handled[c], n) \in Seq(1 .. MaxPeer)
      BY <3>1
    <3> QED BY <2>4, <3>2 DEF TypeOK
  <2>7. /\ processed' \in [Conns -> SUBSET Sequences32]
        /\ lastAcked' \in [Conns -> Sequences32]
        /\ batchAck' \in [Conns -> Sequences32]
        /\ ackAge' \in [Conns -> 0 .. AckGap + 1]
    <3> HIDE DEF top
    <3>1. 0 \in 0 .. AckGap + 1
      OBVIOUS
    <3>2. processed' \in [Conns -> SUBSET Sequences32]
      <4>1. processed[c] \cup {s} \in SUBSET Sequences32
        BY <2>1 DEF TypeOK
      <4> QED BY <2>4, <4>1 DEF TypeOK, receiving
    <3>3. lastAcked' \in [Conns -> Sequences32]
      BY <2>2, <2>4 DEF TypeOK, receiving
    <3>4. batchAck' \in [Conns -> Sequences32]
      BY <2>2, <2>4 DEF TypeOK, receiving
    <3>5. ackAge' \in [Conns -> 0 .. AckGap + 1]
      BY <2>4, <3>1 DEF TypeOK, receiving
    <3> QED BY <3>2, <3>3, <3>4, <3>5
  <2> QED BY <2>3, <2>5, <2>6, <2>7 DEF TypeOK, sending, sendLog
<1>6. ASSUME NEW t \in Threads, NEW c \in Conns, CheckConnected(t, c) PROVE TypeOK'
  BY <1>6 DEF CheckConnected, TypeOK, sending, receiving, sendLog, recvLog
<1>7. ASSUME NEW t \in Threads, NEW ok \in BOOLEAN, SendReliable(t, ok)
      PROVE  TypeOK'
  <2> DEFINE c == target[t]
             e == [seq |-> nextSequence, retryCount |-> 0, age |-> 0, ok |-> ok]
  <2>1. c \in Conns /\ nextSequence \in Sequences32 /\ nextSequence \in Int
    BY <1>7 DEF SendReliable, TypeOK, Sequences32
  <2>2. nextSequence' \in Sequences32
    BY <1>7, <2>1, InWidth DEF SendReliable, NextInWidth
  <2>3. e \in PendingMessage
    BY <2>1 DEF PendingMessage
  <2>4. Put(pending[c], e) \in SUBSET PendingMessage
    BY <2>1, <2>3, PutType DEF TypeOK
  <2>5. pending' \in [Conns -> SUBSET PendingMessage]
    <3>1. pending' = [pending EXCEPT ![c] = Put(pending[c], e)]
      BY <1>7 DEF SendReliable
    <3> HIDE DEF e, c
    <3> QED BY <2>4, <3>1 DEF TypeOK
  <2>6. xmits' \in [Conns -> [Sequences32 -> Nat]]
    <3>1. xmits[c][nextSequence] \in Nat
      BY <2>1 DEF TypeOK
    <3> QED BY <1>7, <2>1, <3>1 DEF SendReliable, TypeOK
  <2>7. /\ connectionMap' \subseteq Conns
        /\ target' \in [Threads -> Conns \cup {NoConn}]
        /\ sent' \in 0 .. MaxSends
    BY <1>7, <2>1 DEF SendReliable, TypeOK
  <2> QED BY <1>7, <2>2, <2>5, <2>6, <2>7 DEF SendReliable, TypeOK, receiving, recvLog
<1>8. ASSUME CheckTimeout PROVE TypeOK'
  <2>1. PICK S \in SUBSET Nonempty :
          /\ crashed' \in {FALSE, Emptied(S)}
          /\ pending' = [c \in Conns |-> IF c \in S THEN Scanned(c) ELSE pending[c]]
          /\ connectionMap' \subseteq connectionMap
          /\ xmits' = [c \in Conns |-> [s \in Sequences32 |->
               IF c \in S /\ (\E p \in Resent(c) : p.seq = s)
               THEN xmits[c][s] + 1 ELSE xmits[c][s]]]
    BY <1>8 DEF CheckTimeout
  <2>2. pending' \in [Conns -> SUBSET PendingMessage]
    BY <2>1, ScannedType DEF TypeOK
  <2>3. xmits' \in [Conns -> [Sequences32 -> Nat]]
    BY <2>1 DEF TypeOK
  <2>4. crashed' \in BOOLEAN
    BY <2>1 DEF Emptied
  <2>5. UNCHANGED <<connState, nextSequence, receiving, target, sent, acked, recvLog>>
    BY <1>8 DEF CheckTimeout
  <2> QED BY <2>1, <2>2, <2>3, <2>4, <2>5 DEF TypeOK, receiving, recvLog
<1>9. ASSUME Tick PROVE TypeOK'
  <2>1. pending' \in [Conns -> SUBSET PendingMessage]
    BY <1>9, AgedType DEF Tick, TypeOK
  <2>2. ackAge' \in [Conns -> 0 .. AckGap + 1]
    BY <1>9, OlderType DEF Tick, TypeOK
  <2> QED BY <1>9, <2>1, <2>2 DEF Tick, TypeOK, sendLog, recvLog
<1>10. ASSUME UNCHANGED vars PROVE TypeOK'
  BY <1>10 DEF vars, TypeOK, sending, receiving, sendLog, recvLog
<1> QED
  BY <1>1, <1>2, <1>3, <1>4, <1>5, <1>6, <1>7, <1>8, <1>9, <1>10 DEF Next

\* Every variable stays within its type: retry counts never exceed the maximum,
\* sequence numbers never their width.
THEOREM TypeCorrect == Spec => []TypeOK
BY TypeInit, TypeNext, PTL DEF Spec

-----------------------------------------------------------------------------
(* Duplicates *)

\* Up to SeqMod, reducing a number to its width keeps numbers apart.
LEMMA ModInjective ==
  ASSUME NEW m \in Nat, NEW n \in Nat, 0 < m, m < n, n <= SeqMod
  PROVE  m % SeqMod # n % SeqMod
<1> USE ConstantTypes
<1>1. m % SeqMod = m
  OBVIOUS
<1>2. CASE n < SeqMod
  <2>1. n % SeqMod = n
    BY <1>2
  <2> QED BY <1>1, <2>1
<1>3. CASE n = SeqMod
  <2>1. n % SeqMod = 0
    BY <1>3
  <2> QED BY <1>1, <2>1
<1> QED BY <1>2, <1>3

\* Until its connection is cleaned up, the set of processed numbers is exactly
\* the set of the numbers that have arrived.
ReceiveInv ==
  /\ HandledOnceInOrder
  /\ NothingSkipped
  /\ \A c \in Conns :
       /\ \A i \in DOMAIN handled[c] : handled[c][i] \in arrived[c]
       /\ connState[c] # "down" =>
            \A n \in arrived[c] : n % SeqMod \in processed[c]
       /\ \A s \in processed[c] : \E m \in arrived[c] : m % SeqMod = s

LEMMA ReceiveInit == Init => ReceiveInv
BY DEF Init, ReceiveInv, HandledOnceInOrder, NothingSkipped

\* A step that leaves the log of arrivals and handled messages alone keeps the
\* invariant, if it closes a connection only by forgetting what it processed.
LEMMA ReceiveFrame ==
  ASSUME TypeOK, ReceiveInv, UNCHANGED <<arrived, handled>>,
         \A c \in Conns : \/ UNCHANGED <<connState[c], processed[c]>>
                          \/ connState'[c] = "down" /\ processed'[c] = {}
                          \/ connState[c] # "down" /\ UNCHANGED processed[c]
  PROVE  ReceiveInv'
BY DEF ReceiveInv, HandledOnceInOrder, NothingSkipped

LEMMA ReceiveNext == TypeOK /\ ReceiveInv /\ [Next]_vars => ReceiveInv'
<1> SUFFICES ASSUME TypeOK, ReceiveInv, [Next]_vars PROVE ReceiveInv'
  OBVIOUS
<1>1. ASSUME NEW c \in Conns, Connect(c) \/ Shutdown(c) \/ Disconnect(c)
      PROVE  ReceiveInv'
  <2>1. /\ connState[c] # "down" /\ UNCHANGED <<arrived, handled, processed>>
        /\ \A d \in Conns \ {c} : connState'[d] = connState[d]
    BY <1>1 DEF Connect, Shutdown, Disconnect, TypeOK, receiving, recvLog
  <2>2. \A d \in Conns : \/ UNCHANGED <<connState[d], processed[d]>>
                         \/ connState[d] # "down" /\ UNCHANGED processed[d]
    BY <2>1
  <2> QED BY <2>1, <2>2, ReceiveFrame
<1>2. ASSUME NEW c \in Conns, CleanupConnection(c) PROVE ReceiveInv'
  <2>1. /\ UNCHANGED <<arrived, handled>>
        /\ connState'[c] = "down" /\ processed'[c] = {}
        /\ \A d \in Conns \ {c} : UNCHANGED <<connState[d], processed[d]>>
    BY <1>2 DEF CleanupConnection, TypeOK, recvLog
  <2>2. \A d \in Conns : \/ UNCHANGED <<connState[d], processed[d]>>
                         \/ connState'[d] = "down" /\ processed'[d] = {}
    BY <2>1
  <2> QED BY <2>1, <2>2, ReceiveFrame
<1>3. ASSUME NEW c \in Conns, NEW n \in 1 .. MaxPeer, ProcessData(c, n)
      PROVE  ReceiveInv'
  <2> DEFINE s == n % SeqMod
  <2>1. /\ connState' = connState /\ connState[c] = "up" /\ Arrival(c, n)
        /\ arrived'[c] = arrived[c] \cup {n}
        /\ \A d \in Conns \ {c} :
             UNCHANGED <<arrived[d], processed[d], handled[d]>>
    BY <1>3 DEF ProcessData, TypeOK, receiving
  <2>2. \/ s \in processed[c] /\ UNCHANGED <<processed[c], handled[c]>>
        \/ /\ s \notin processed[c]
           /\ processed'[c] = processed[c] \cup {s}
           /\ handled'[c] = Append(handled[c], n)
    BY <1>3 DEF ProcessData, Seen, TypeOK, receiving
  <2> HIDE DEF s
  <2>3. /\ handled[c] \in Seq(1 .. MaxPeer)
        /\ arrived[c] \subseteq 1 .. MaxPeer
    BY DEF TypeOK
  <2>4. /\ \A i \in DOMAIN handled[c] : handled[c][i] \in arrived[c]
        /\ \A m \in arrived[c] : m % SeqMod \in processed[c]
        /\ \A t \in processed[c] : \E m \in arrived[c] : m % SeqMod = t
        /\ \A i, j \in DOMAIN handled[c] : i < j => handled[c][i] < handled[c][j]
        /\ \A m \in arrived[c] :
             m <= SeqMod => \E i \in DOMAIN handled[c] : handled[c][i] = m
    BY <2>1 DEF ReceiveInv, HandledOnceInOrder, NothingSkipped
  \* A number that was not processed has not arrived, so it is the highest.
  <2>5. s \notin processed[c] => \A m \in arrived[c] : m < n
    BY <2>1, <2>4 DEF Arrival, s
  <2>6. ASSUME s \notin processed[c]
        PROVE  /\ \A i \in DOMAIN handled'[c] : handled'[c][i] \in arrived'[c]
               /\ \A i, j \in DOMAIN handled'[c] :
                    i < j => handled'[c][i] < handled'[c][j]
               /\ \A m \in arrived'[c] :
                    m <= SeqMod => \E i \in DOMAIN handled'[c] : handled'[c][i] = m
    <3>1. handled'[c] = Append(handled[c], n) /\ n \in 1 .. MaxPeer
      BY <2>2, <2>6
    <3>2. /\ DOMAIN handled[c] = 1 .. Len(handled[c]) /\ Len(handled[c]) \in Nat
          /\ DOMAIN handled'[c] = 1 .. Len(handled[c]) + 1
          /\ \A i \in DOMAIN handled[c] : handled'[c][i] = handled[c][i]
          /\ handled'[c][Len(handled[c]) + 1] = n
      BY <2>3, <3>1
    <3>3. \A i \in DOMAIN handled'[c] : handled'[c][i] \in arrived'[c]
      BY <2>1, <2>4, <3>2
    <3>4. \A i, j \in DOMAIN handled'[c] :
            i < j => handled'[c][i] < handled'[c][j]
      <4> SUFFICES ASSUME NEW i \in DOMAIN handled'[c], NEW j \in DOMAIN handled'[c],
                          i < j
                   PROVE  handled'[c][i] < handled'[c][j]
        OBVIOUS
      <4>1. i \in DOMAIN handled[c] /\ handled'[c][i] = handled[c][i]
            /\ handled[c][i] \in arrived[c]
        BY <2>4, <3>2
      <4>2. CASE j \in DOMAIN handled[c]
        BY <2>4, <3>2, <4>1, <4>2
      <4>3. CASE j = Len(handled[c]) + 1
        BY <2>5, <2>6, <3>2, <4>1, <4>3
      <4> QED BY <3>2, <4>2, <4>3
    <3>5. \A m \in arrived'[c] :
            m <= SeqMod => \E i \in DOMAIN handled'[c] : handled'[c][i] = m
      BY <2>1, <2>4, <3>2
    <3> QED BY <3>3, <3>4, <3>5
  \* A number that was processed belongs to a message that has arrived.
  <2>7. ASSUME s \in processed[c], n <= SeqMod
        PROVE  n \in arrived[c]
    <3> SUFFICES ASSUME n \notin arrived[c] PROVE FALSE
      OBVIOUS
    <3>1. PICK m \in arrived[c] : m % SeqMod = s
      BY <2>4, <2>7
    <3>2. m < n /\ m \in Nat /\ n \in Nat /\ 0 < m
      BY <2>1, <2>3 DEF Arrival
    <3> QED BY <2>7, <3>1, <3>2, ModInjective DEF s
  <2>8. /\ \A i \in DOMAIN handled'[c] : handled'[c][i] \in arrived'[c]
        /\ \A i, j \in DOMAIN handled'[c] :
             i < j => handled'[c][i] < handled'[c][j]
        /\ \A m \in arrived'[c] :
             m <= SeqMod => \E i \in DOMAIN handled'[c] : handled'[c][i] = m
    <3>1. CASE s \in processed[c]
      BY <2>1, <2>2, <2>4, <2>7, <3>1
    <3> QED BY <2>6, <3>1
  <2>9. /\ \A m \in arrived'[c] : m % SeqMod \in processed'[c]
        /\ \A t \in processed'[c] : \E m \in arrived'[c] : m % SeqMod = t
    BY <2>1, <2>2, <2>4 DEF s
  <2> QED BY <2>1, <2>8, <2>9 DEF ReceiveInv, HandledOnceInOrder, NothingSkipped
<1>4. ASSUME UNCHANGED <<connState, processed, arrived, handled>> PROVE ReceiveInv'
  BY <1>4, ReceiveFrame
<1>5. ASSUME NEW c \in Conns, NEW s \in Sequences32, ProcessAck(c, s)
      PROVE  ReceiveInv'
  BY <1>4, <1>5 DEF ProcessAck, receiving, recvLog
<1>6. ASSUME NEW t \in Threads, NEW c \in Conns, CheckConnected(t, c)
      PROVE  ReceiveInv'
  BY <1>4, <1>6 DEF CheckConnected, receiving, recvLog
<1>7. ASSUME NEW t \in Threads, NEW ok \in BOOLEAN, SendReliable(t, ok)
      PROVE  ReceiveInv'
  BY <1>4, <1>7 DEF SendReliable, receiving, recvLog
<1>8. ASSUME CheckTimeout PROVE ReceiveInv'
  BY <1>4, <1>8 DEF CheckTimeout, receiving, recvLog
<1>9. ASSUME Tick PROVE ReceiveInv'
  BY <1>4, <1>9 DEF Tick, recvLog
<1>10. ASSUME UNCHANGED vars PROVE ReceiveInv'
  BY <1>4, <1>10 DEF vars, receiving, recvLog
<1> QED
  BY <1>1, <1>2, <1>3, <1>5, <1>6, <1>7, <1>8, <1>9, <1>10 DEF Next

\* The business handler gets each message at most once and in order.
THEOREM HandledOnce == Spec => []HandledOnceInOrder
<1>1. ReceiveInv => HandledOnceInOrder
  BY DEF ReceiveInv
<1> QED BY <1>1, TypeInit, TypeNext, ReceiveInit, ReceiveNext, PTL DEF Spec

\* It gets every message that arrives before the peer's numbers wrap.
THEOREM NoneSkipped == Spec => []NothingSkipped
<1>1. ReceiveInv => NothingSkipped
  BY DEF ReceiveInv
<1> QED BY <1>1, TypeInit, TypeNext, ReceiveInit, ReceiveNext, PTL DEF Spec

-----------------------------------------------------------------------------
(* Acknowledgements *)

\* lastAckedSequence_ is the number of a message that has arrived, as long as the
\* numbers are the messages' own.
AckInv ==
  \A c \in Conns :
    (\A n \in arrived[c] : n < SeqMod) => lastAcked[c] \in arrived[c] \cup {0}

\* A new message raises lastAckedSequence_ to its number before the distance of the
\* two is taken: the distance is 0, and only the clock is left.
LEMMA NewIsHighest ==
  ASSUME TypeOK, ReceiveInv, AckInv, NEW c \in Conns, NEW n \in 1 .. MaxPeer,
         connState[c] = "up", Arrival(c, n), n % SeqMod \notin processed[c],
         \A m \in arrived[c] \cup {n} : m < SeqMod
  PROVE  /\ n % SeqMod = n /\ n > lastAcked[c]
         /\ BatchAckDue(c, n, n) => ackAge[c] > AckGap
<1>1. /\ n \in Nat /\ MaxPeer \in Nat /\ SeqMod \in Nat /\ SeqMod > 1 /\ AckBatch \in Nat
      /\ arrived[c] \subseteq 1 .. MaxPeer /\ lastAcked[c] \in Nat
  BY ConstantTypes DEF TypeOK, Sequences32
<1>2. n % SeqMod = n /\ (n - n) % SeqMod = 0
  BY <1>1
<1>3. \A m \in arrived[c] : m < n
  BY DEF ReceiveInv, Arrival
<1>4. n > lastAcked[c]
  BY <1>1, <1>3 DEF AckInv
<1>5. BatchAckDue(c, n, n) => ackAge[c] > AckGap
  BY <1>1, <1>2 DEF BatchAckDue
<1> QED BY <1>2, <1>4, <1>5

LEMMA AckNext == TypeOK /\ ReceiveInv /\ AckInv /\ [Next]_vars => AckInv'
<1> SUFFICES ASSUME TypeOK, ReceiveInv, AckInv, [Next]_vars PROVE AckInv'
  OBVIOUS
<1>1. ASSUME NEW c \in Conns, NEW n \in 1 .. MaxPeer, ProcessData(c, n)
      PROVE  AckInv'
  <2>1. /\ connState[c] = "up" /\ Arrival(c, n)
        /\ arrived'[c] = arrived[c] \cup {n}
        /\ \A d \in Conns \ {c} : UNCHANGED <<arrived[d], lastAcked[d]>>
        /\ \/ lastAcked'[c] = lastAcked[c]
           \/ n % SeqMod \notin processed[c] /\ lastAcked'[c] \in {n % SeqMod, lastAcked[c]}
    BY <1>1 DEF ProcessData, TypeOK, receiving, Seen
  <2>2. (\A m \in arrived'[c] : m < SeqMod) => lastAcked'[c] \in arrived'[c] \cup {0}
    BY <2>1, NewIsHighest DEF AckInv
  <2> QED BY <2>1, <2>2 DEF AckInv
<1>2. ASSUME UNCHANGED <<arrived, lastAcked>> PROVE AckInv'
  BY <1>2 DEF AckInv
<1>3. ASSUME NEW c \in Conns,
             Connect(c) \/ Shutdown(c) \/ Disconnect(c) \/ CleanupConnection(c)
      PROVE  AckInv'
  BY <1>2, <1>3 DEF Connect, Shutdown, Disconnect, CleanupConnection, receiving, recvLog
<1>4. ASSUME NEW c \in Conns, NEW s \in Sequences32, ProcessAck(c, s) PROVE AckInv'
  BY <1>2, <1>4 DEF ProcessAck, receiving, recvLog
<1>5. ASSUME NEW t \in Threads,
             (\E c \in Conns : CheckConnected(t, c)) \/ \E ok \in BOOLEAN : SendReliable(t, ok)
      PROVE  AckInv'
  BY <1>2, <1>5 DEF CheckConnected, SendReliable, receiving, recvLog
<1>6. ASSUME CheckTimeout \/ Tick \/ UNCHANGED vars PROVE AckInv'
  BY <1>2, <1>6 DEF CheckTimeout, Tick, vars, receiving, recvLog
<1> QED BY <1>1, <1>3, <1>4, <1>5, <1>6 DEF Next

\* Until the numbers come round only the clock brings an acknowledgement, for the
\* message that has just been handled.
THEOREM AckedByClock == Spec => AcksOnlyByClock
<1>1. Init => AckInv
  BY DEF Init, AckInv
<1>2. TypeOK /\ ReceiveInv /\ AckInv /\ [Next]_vars =>
        [\A c \in Conns :
           batchAck'[c] # batchAck[c] /\ (\A n \in arrived'[c] : n < SeqMod) =>
             /\ ackAge[c] > AckGap
             /\ Len(handled'[c]) = Len(handled[c]) + 1
             /\ batchAck'[c] = handled'[c][Len(handled'[c])]]_vars
  <2> DEFINE Due(c) ==
        batchAck'[c] # batchAck[c] /\ (\A n \in arrived'[c] : n < SeqMod) =>
          /\ ackAge[c] > AckGap
          /\ Len(handled'[c]) = Len(handled[c]) + 1
          /\ batchAck'[c] = handled'[c][Len(handled'[c])]
  <2> SUFFICES ASSUME TypeOK, ReceiveInv, AckInv, Next PROVE \A c \in Conns : Due(c)
    OBVIOUS
  <2>1. ASSUME NEW c \in Conns, NEW n \in 1 .. MaxPeer, ProcessData(c, n), NEW d \in Conns
        PROVE  Due(d)
    <3> SUFFICES ASSUME batchAck'[d] # batchAck[d], \A m \in arrived'[d] : m < SeqMod
                 PROVE  /\ ackAge[d] > AckGap
                        /\ Len(handled'[d]) = Len(handled[d]) + 1
                        /\ batchAck'[d] = handled'[d][Len(handled'[d])]
      OBVIOUS
    <3> DEFINE s   == n % SeqMod
               top == IF s > lastAcked[c] THEN s ELSE lastAcked[c]
    <3>1. /\ d = c /\ connState[c] = "up" /\ Arrival(c, n) /\ s \notin processed[c]
          /\ arrived'[c] = arrived[c] \cup {n}
          /\ handled'[c] = Append(handled[c], n)
          /\ BatchAckDue(c, s, top) /\ batchAck'[c] = top
      BY <2>1 DEF ProcessData, Seen, TypeOK
    <3>2. s = n /\ n > lastAcked[c] /\ (BatchAckDue(c, n, n) => ackAge[c] > AckGap)
      BY <3>1, NewIsHighest
    <3>3. top = n /\ ackAge[c] > AckGap
      BY <3>1, <3>2
    <3>4. handled[c] \in Seq(1 .. MaxPeer)
      BY DEF TypeOK
    <3> QED BY <3>1, <3>3, <3>4
  <2>2. (\E c \in Conns : \E n \in 1 .. MaxPeer : ProcessData(c, n)) \/ batchAck' = batchAck
    BY DEF Next, Connect, Shutdown, Disconnect, CleanupConnection, ProcessAck,
           CheckConnected, SendReliable, CheckTimeout, Tick, recvLog
  <2> QED BY <2>1, <2>2
<1> QED BY <1>1, <1>2, TypeInit, TypeNext, ReceiveInit, ReceiveNext, AckNext, PTL
        DEF Spec, AcksOnlyByClock

=============================================================================
