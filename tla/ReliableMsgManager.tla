------------------------- MODULE ReliableMsgManager -------------------------
(***************************************************************************)
(* ReliableMsgManager of one process: sequence numbers, retransmission of  *)
(* pending messages, suppression of duplicates, batch acknowledgements and *)
(* the cleanup of closed connections.                                      *)
(*                                                                         *)
(* The event loop runs the connection callbacks, the message callbacks and *)
(* the timer that scans for timeouts; sender threads call                  *)
(* sendReliableMessage.  A manager method is one step under mutex_, except *)
(* for the test of the connection that sendReliableMessage makes before it *)
(* takes the lock.  Connections and their names are used once.             *)
(***************************************************************************)
EXTENDS Integers, Sequences, FiniteSets

CONSTANTS
  Conns,       \* connections, named by their TcpConnection::name()
  Threads,     \* threads that call sendReliableMessage
  NoConn,      \* not a connection
  SeqMod,      \* 2^32: sequence numbers are uint32_t
  MaxRetry,    \* MAX_RETRY_COUNT (3)
  Timeout,     \* RETRY_INTERVAL_MS, in ticks
  AckGap,      \* the 50 ms between two batch acknowledgements, in ticks
  AckBatch,    \* the 10 messages a batch acknowledgement may wait for
  MaxSends,    \* bound: calls of sendReliableMessage
  MaxPeer      \* bound: messages the peer of a connection numbers

ASSUME ConnAssumption == NoConn \notin Conns
ASSUME BoundsAssumption ==
  /\ SeqMod \in Nat /\ SeqMod > 1
  /\ MaxRetry > 0
  /\ {MaxRetry, Timeout, AckGap, AckBatch, MaxSends, MaxPeer} \subseteq Nat

VARIABLES
  connState,      \* state of each TcpConnection; connected() is true in "up".
                  \* "shut": shutdown() was called, "closing": onConnection is due
  nextSequence,   \* nextSequence_
  pending,        \* pendingMessages_[c]; the empty set also for no map at all
  connectionMap,  \* the connections connectionMap_ has an entry for
  processed,      \* processedSequences_[c]
  lastAcked,      \* lastAckedSequence_[c]
  ackAge,         \* time since lastAckTime_[c]
  target,         \* the connection a thread found connected, before the lock
  crashed,        \* the process has died in a scan
  \* History, read by no action of the manager:
  sent,           \* calls of sendReliableMessage that took a number
  xmits,          \* xmits[c][s]: times message s was written to connection c
  arrived,        \* arrived[c]: messages the peer of c has got through
  handled,        \* handled[c]: those handed to the business handler, in order
  batchAck,       \* the last batch acknowledgement sent on c, 0 if none
  acked           \* acked[c]: messages the peer of c has acknowledged

sending   == <<nextSequence, pending, connectionMap>>
receiving == <<processed, lastAcked, ackAge>>
sendLog   == <<sent, xmits, acked>>
recvLog   == <<arrived, handled, batchAck>>
vars      == <<connState, sending, receiving, target, crashed, sendLog, recvLog>>

\* uint32_t
Sequences32 == 0 .. SeqMod - 1

\* PendingMessage: what is kept of a sent message.  `ok' tells whether its body
\* can be dumped (json::dump throws on a string that is not UTF-8).
PendingMessage ==
  [seq : Sequences32, retryCount : 0 .. MaxRetry, age : 0 .. Timeout + 1, ok : BOOLEAN]

\* map[e.seq] = e
Put(map, e) == {p \in map : p.seq # e.seq} \cup {e}

\* The loop thread is free to start a callback.
LoopIdle == ~crashed /\ \A c \in Conns : connState[c] # "closing"

-----------------------------------------------------------------------------

Init ==
  /\ connState = [c \in Conns |-> "new"]
  /\ nextSequence = 1
  /\ pending = [c \in Conns |-> {}]
  /\ connectionMap = {}
  /\ processed = [c \in Conns |-> {}]
  /\ lastAcked = [c \in Conns |-> 0]
  /\ ackAge = [c \in Conns |-> AckGap + 1]   \* lastAckTime_[c] is the epoch
  /\ target = [t \in Threads |-> NoConn]
  /\ crashed = FALSE
  /\ sent = 0
  /\ xmits = [c \in Conns |-> [s \in Sequences32 |-> 0]]
  /\ arrived = [c \in Conns |-> {}]
  /\ handled = [c \in Conns |-> <<>>]
  /\ batchAck = [c \in Conns |-> 0]
  /\ acked = [c \in Conns |-> {}]

Connect(c) ==
  /\ LoopIdle
  /\ connState[c] = "new"
  /\ connState' = [connState EXCEPT ![c] = "up"]
  /\ UNCHANGED <<sending, receiving, target, crashed, sendLog, recvLog>>

\* disconnect(), on any thread, shuts the connection down: it stays in the
\* manager's tables, and connected() is false from here on.
Shutdown(c) ==
  /\ ~crashed
  /\ connState[c] = "up"
  /\ connState' = [connState EXCEPT ![c] = "shut"]
  /\ UNCHANGED <<sending, receiving, target, crashed, sendLog, recvLog>>

\* muduo closes the connection, shut down by this side or not ...
Disconnect(c) ==
  /\ LoopIdle
  /\ connState[c] \in {"up", "shut"}
  /\ connState' = [connState EXCEPT ![c] = "closing"]
  /\ UNCHANGED <<sending, receiving, target, crashed, sendLog, recvLog>>

\* Variant of CleanupConnection: the pending messages are kept.
CleanupKeepsPending(c) ==
  /\ ~crashed
  /\ connState[c] = "closing"
  /\ connState' = [connState EXCEPT ![c] = "down"]
  /\ processed' = [processed EXCEPT ![c] = {}]
  /\ connectionMap' = connectionMap \ {c}
  /\ UNCHANGED <<nextSequence, pending, lastAcked, ackAge, target, crashed,
                 sendLog, recvLog>>

\* ... and onConnection calls cleanupConnection, which leaves lastAckedSequence_
\* and lastAckTime_ alone.
CleanupConnection(c) ==
  /\ ~crashed
  /\ connState[c] = "closing"
  /\ connState' = [connState EXCEPT ![c] = "down"]
  /\ pending' = [pending EXCEPT ![c] = {}]
  /\ processed' = [processed EXCEPT ![c] = {}]
  /\ connectionMap' = connectionMap \ {c}
  /\ UNCHANGED <<nextSequence, lastAcked, ackAge, target, crashed, sendLog, recvLog>>

-----------------------------------------------------------------------------
(* Sending *)

\* sendReliableMessage, up to the lock.  When the test fails it returns 0.
CheckConnected(t, c) ==
  /\ ~crashed
  /\ target[t] = NoConn
  /\ connState[c] = "up"
  /\ target' = [target EXCEPT ![t] = c]
  /\ UNCHANGED <<connState, sending, receiving, crashed, sendLog, recvLog>>

\* The number after s.
NextWide(s)    == s + 1    \* variant of NextInWidth: a counter that never wraps
NextInWidth(s) == (s + 1) % SeqMod

\* sendReliableMessage, under the lock.  The message is stored before it is
\* encoded; encoding may throw, and a connection closed meanwhile sends nothing.
SendReliable(t, ok) ==
  LET c == target[t]
  IN  /\ ~crashed
      /\ c # NoConn
      /\ sent < MaxSends
      /\ nextSequence' = NextInWidth(nextSequence)
      /\ pending' = [pending EXCEPT ![c] =
           Put(@, [seq |-> nextSequence, retryCount |-> 0, age |-> 0, ok |-> ok])]
      /\ connectionMap' = connectionMap \cup {c}
      /\ target' = [target EXCEPT ![t] = NoConn]
      /\ sent' = sent + 1
      /\ xmits' = IF ok /\ connState[c] = "up"
                  THEN [xmits EXCEPT ![c][nextSequence] = @ + 1]
                  ELSE xmits
      /\ UNCHANGED <<connState, receiving, crashed, acked, recvLog>>

\* onMessage passes acknowledgements of type 1 only, and processAckMessage
\* removes messages for type 2 only: the message stays pending.
ProcessAck(c, s) ==
  /\ LoopIdle
  /\ connState[c] = "up"
  /\ xmits[c][s] > 0
  /\ acked' = [acked EXCEPT ![c] = @ \cup {s}]
  /\ UNCHANGED <<connState, sending, receiving, target, crashed, sent, xmits, recvLog>>

-----------------------------------------------------------------------------
(* Receiving *)

\* TCP delivers what the peer writes in order, and the peer numbers its messages
\* upward: an arrival is the next one it has for c or one sent again.
Arrival(c, n) == n \in arrived[c] \/ \A m \in arrived[c] : m < n

AckDueEarly(c, s, top) ==      \* variant of BatchAckDue: off by one
  ackAge[c] >= AckGap \/ (s - top) % SeqMod > AckBatch

BatchAckDue(c, s, top) ==
  ackAge[c] > AckGap \/ (s - top) % SeqMod > AckBatch

\* processedSequences_[c] has s.
SeenOnAny(c, s) == \E d \in Conns : s \in processed[d]  \* variant: one set for all
SeenNever(c, s) == FALSE                                \* variant: no suppression
Seen(c, s)      == s \in processed[c]

\* processDataMessage on the peer's n-th message, and the dispatch of a new one
\* to the business handler.  On a connection shut down it returns false at once.
\* What it refuses for its version, type or length (155-173) no peer sends.
ProcessData(c, n) ==
  LET s   == n % SeqMod
      top == IF s > lastAcked[c] THEN s ELSE lastAcked[c]
  IN  /\ LoopIdle
      /\ connState[c] = "up"
      /\ Arrival(c, n)
      /\ arrived' = [arrived EXCEPT ![c] = @ \cup {n}]
      /\ \/ /\ Seen(c, s)
            /\ UNCHANGED <<receiving, handled, batchAck>>
         \/ /\ ~Seen(c, s)
            /\ processed' = [processed EXCEPT ![c] = @ \cup {s}]
            /\ lastAcked' = [lastAcked EXCEPT ![c] = top]
            /\ handled' = [handled EXCEPT ![c] = Append(@, n)]
            /\ IF BatchAckDue(c, s, top)
               THEN /\ batchAck' = [batchAck EXCEPT ![c] = top]
                    /\ ackAge' = [ackAge EXCEPT ![c] = 0]
               ELSE UNCHANGED <<batchAck, ackAge>>
      /\ UNCHANGED <<connState, sending, target, crashed, sendLog>>

-----------------------------------------------------------------------------
(* The scan for timeouts *)

Expired(p) == p.age > Timeout

RetryOnceMore(p) == Expired(p) /\ p.retryCount <= MaxRetry     \* variant: off by one
RetryOnceLess(p) == Expired(p) /\ p.retryCount + 1 < MaxRetry  \* variant: off by one
Retryable(p)     == Expired(p) /\ p.retryCount < MaxRetry

\* getConnectionByName(c) finds a live connection
Reachable(c) == c \in connectionMap /\ connState[c] = "up"

\* The messages of c the scan sends again, and the entries it leaves.
Resent(c) == {p \in pending[c] : Retryable(p) /\ p.ok /\ Reachable(c)}

\* Variant of Scanned: a message out of retries is not erased.
ScannedKeepingExhausted(c) ==
  {p \in pending[c] : ~Expired(p) \/ p.retryCount = MaxRetry}
    \cup {[p EXCEPT !.retryCount = @ + 1, !.age = 0] : p \in Resent(c)}

Scanned(c) == {p \in pending[c] : ~Expired(p)}
                \cup {[p EXCEPT !.retryCount = @ + 1, !.age = 0] : p \in Resent(c)}

\* Erasing the entry of a connection inside the range-for over pendingMessages_
\* leaves the loop with a dangling iterator: it may go on with the remaining
\* connections, miss some of them, or crash.
Emptied(S) == \E c \in S : Scanned(c) = {}

Nonempty == {c \in Conns : pending[c] # {}}

CheckTimeout ==
  /\ LoopIdle
  /\ \E S \in SUBSET Nonempty :
       /\ S = Nonempty \/ Emptied(S)
       /\ crashed' \in {FALSE, Emptied(S)}
       /\ pending' = [c \in Conns |-> IF c \in S THEN Scanned(c) ELSE pending[c]]
       /\ connectionMap' = {c \in connectionMap :
            c \in S /\ (\E p \in pending[c] : Retryable(p)) => Reachable(c)}
       /\ xmits' = [c \in Conns |-> [s \in Sequences32 |->
            IF c \in S /\ (\E p \in Resent(c) : p.seq = s)
            THEN xmits[c][s] + 1 ELSE xmits[c][s]]]
  /\ UNCHANGED <<connState, nextSequence, receiving, target, sent, acked, recvLog>>

\* Time passes; the clocks are read only to be compared with the intervals.
Older(age, interval) == IF age > interval THEN age ELSE age + 1

Tick ==
  /\ ~crashed
  /\ pending' = [c \in Conns |->
                   {[p EXCEPT !.age = Older(@, Timeout)] : p \in pending[c]}]
  /\ ackAge' = [c \in Conns |-> Older(ackAge[c], AckGap)]
  /\ UNCHANGED <<connState, nextSequence, connectionMap, processed, lastAcked,
                 target, crashed, sendLog, recvLog>>

Next ==
  \/ \E c \in Conns : \/ Connect(c) \/ Shutdown(c)
                      \/ Disconnect(c) \/ CleanupConnection(c)
                      \/ \E s \in Sequences32 : ProcessAck(c, s)
                      \/ \E n \in 1 .. MaxPeer : ProcessData(c, n)
  \/ \E t \in Threads : \/ \E c \in Conns : CheckConnected(t, c)
                        \/ \E ok \in BOOLEAN : SendReliable(t, ok)
  \/ CheckTimeout
  \/ Tick

Spec == Init /\ [][Next]_vars

\* Time goes on, the loop finishes a close it has begun, and its timer fires
\* again and again.
Fairness ==
  /\ WF_vars(Tick)
  /\ WF_vars(CheckTimeout)
  /\ \A c \in Conns : WF_vars(CleanupConnection(c))

FairSpec == Spec /\ Fairness

-----------------------------------------------------------------------------
(* Properties *)

TypeOK ==
  /\ connState \in [Conns -> {"new", "up", "shut", "closing", "down"}]
  /\ nextSequence \in Sequences32
  /\ pending \in [Conns -> SUBSET PendingMessage]
  /\ connectionMap \subseteq Conns
  /\ processed \in [Conns -> SUBSET Sequences32]
  /\ lastAcked \in [Conns -> Sequences32]
  /\ ackAge \in [Conns -> 0 .. AckGap + 1]
  /\ target \in [Threads -> Conns \cup {NoConn}]
  /\ crashed \in BOOLEAN
  /\ sent \in 0 .. MaxSends
  /\ xmits \in [Conns -> [Sequences32 -> Nat]]
  /\ arrived \in [Conns -> SUBSET (1 .. MaxPeer)]
  /\ handled \in [Conns -> Seq(1 .. MaxPeer)]
  /\ batchAck \in [Conns -> Sequences32]
  /\ acked \in [Conns -> SUBSET Sequences32]

\* However often the peer sends its messages again, the business handler gets
\* each one at most once, in the order of their numbers.
HandledOnceInOrder ==
  \A c \in Conns : \A i, j \in DOMAIN handled[c] :
    i < j => handled[c][i] < handled[c][j]

\* Suppressing duplicates loses nothing: every message that arrives is handled,
\* as long as the peer has not used a sequence number twice.
NothingSkipped ==
  \A c \in Conns : \A n \in arrived[c] :
    n <= SeqMod => \E i \in DOMAIN handled[c] : handled[c][i] = n

\* Until the peer's numbers come round, an acknowledgement goes out only for a
\* message that arrives more than AckGap after the last one, and names it: the last
\* messages of a burst are not acknowledged, however many they are.
AcksOnlyByClock ==
  [][\A c \in Conns :
       batchAck'[c] # batchAck[c] /\ (\A n \in arrived'[c] : n < SeqMod) =>
         /\ ackAge[c] > AckGap
         /\ Len(handled'[c]) = Len(handled[c]) + 1
         /\ batchAck'[c] = handled'[c][Len(handled'[c])]]_vars

\* No sequence number has been given out twice.
NoWrap == sent <= SeqMod

\* The retry count is the number of times the message was written to its
\* connection after the first, and never exceeds the maximum.
RetryBudget ==
  NoWrap => \A c \in Conns :
    /\ \A s \in Sequences32 : xmits[c][s] <= MaxRetry + 1
    /\ \A p \in pending[c] : /\ xmits[c][p.seq] \in {0, p.retryCount + 1}
                             /\ p.ok /\ connState[c] = "up" => xmits[c][p.seq] > 0

\* A message that can be encoded is dropped, while its connection lives, only
\* after it was written MaxRetry + 1 times.
GiveUpOnlyExhausted ==
  [][sent' <= SeqMod =>
       \A c \in Conns : \A p \in pending[c] :
         p.ok /\ connState'[c] = "up" /\ (\A q \in pending'[c] : q.seq # p.seq)
           => xmits[c][p.seq] = MaxRetry + 1]_vars

\* What is left of a closed connection after its cleanup was put there by a
\* thread that had found it connected, and was never written to it.
OnlyRacingSendsRemain ==
  \A c \in Conns : connState[c] = "down" =>
    /\ processed[c] = {}
    /\ NoWrap => \A p \in pending[c] : xmits[c][p.seq] = 0 /\ p.retryCount = 0
    /\ c \in connectionMap => pending[c] # {}

\* Every pending message eventually leaves the table, unless a scan crashes.
PendingDrains ==
  \A c \in Conns : \A s \in Sequences32 :
    (\E p \in pending[c] : p.seq = s)
      ~> (crashed \/ \A p \in pending[c] : p.seq # s)

-----------------------------------------------------------------------------
(* What the comments of the code say of it *)

\* ReliableMsgManager.cpp, processAckMessage: a message that has been
\* acknowledged is found and removed from the pending ones.
AckedNotPending ==
  \A c \in Conns : \A p \in pending[c] : p.seq \notin acked[c]

\* ReliableMsgManager.cpp, checkTimeoutMessages: the scan traverses all pending
\* messages, and drops the entry of a connection that has none left.
ScanSurvives == ~crashed

\* ReliableMsgManager.cpp, processDataMessage: a batch acknowledgement is sent
\* when more than AckBatch messages have accumulated unacknowledged.
FewUnacked ==
  \A c \in Conns : Cardinality({s \in processed[c] : s > batchAck[c]}) <= AckBatch

=============================================================================
