------------------------- MODULE MyProtoClientProofs -------------------------
(* Theorems about MyProtoClient, for any number of connections and functors. *)
EXTENDS MyProtoClient, TLAPS

Status == {"connecting", "connected", "disconnecting", "disconnected"}
Functors == {"start", "disconnect", "reset"}

\* A connection that has not been made is not there; one whose closing runs its
\* callbacks is closed already; and in a client whose connections never
\* overlapped, what is there, or closing, is what the client holds.
ConnInv ==
  /\ \A c \in Conns : c > made => tcp[c] = "disconnected"
  /\ loop \in {"callback", "remove"} => tcp[subject] = "disconnected"
  /\ loop = "established" => tcp[subject] = "connecting"
  /\ ~overlapped => /\ \A c \in Conns : tcp[c] # "disconnected" => c = connection
                    /\ loop # "idle" => connection = subject
                    /\ ~reconnectTimer

-----------------------------------------------------------------------------
(* Types *)

LEMMA TypeInit == Init => TypeOK /\ ConnInv
<1> SUFFICES ASSUME Init PROVE TypeOK /\ ConnInv
  OBVIOUS
<1>1. made \in 0 .. MaxConns /\ connection \in 0 .. made /\ subject \in 0 .. made
  BY BoundsAssumption DEF Init
<1>2. tcp \in [Conns -> Status] /\ functors \in Seq(Functors)
  BY DEF Init, Status
<1>3. TypeOK
  BY <1>1, <1>2 DEF Init, TypeOK, Status, Functors
<1>4. ConnInv
  BY DEF Init, ConnInv
<1> QED BY <1>3, <1>4

\* A shutdown leaves every connection with a status, and closes none.
LEMMA Shutdown ==
  ASSUME tcp \in [Conns -> Status], ShutdownConnection
  PROVE  /\ tcp' \in [Conns -> Status]
         /\ \A c \in Conns : tcp'[c] = "disconnected" <=> tcp[c] = "disconnected"
         /\ \A c \in Conns : tcp[c] = "connecting" => tcp'[c] = "connecting"
BY DEF ShutdownConnection, Status

LEMMA TypeNext == TypeOK /\ ConnInv /\ [Next]_vars => TypeOK'
<1> SUFFICES ASSUME TypeOK, ConnInv, [Next]_vars PROVE TypeOK'
  OBVIOUS
<1>0. /\ tcp \in [Conns -> Status] /\ made \in Nat /\ MaxConns \in Nat
      /\ functors \in Seq(Functors)
  BY BoundsAssumption DEF TypeOK, Status, Functors
<1> USE DEF TypeOK, muduo, events, client, history
<1>1. CASE ConnectRefused
  <2>1. functors' \in Seq(Functors)
    BY <1>0, <1>1 DEF ConnectRefused, Functors
  <2> QED BY <1>1, <2>1 DEF ConnectRefused, Functors
<1>2. CASE RetryConnect \/ ReconnectTimer
  BY <1>2 DEF RetryConnect, ReconnectTimer, StartInLoop
<1>3. CASE NewConnection
  <2>1. /\ made' = made + 1 /\ made' \in 0 .. MaxConns
        /\ connection' \in 0 .. made' /\ subject' \in 0 .. made' /\ subject' # 0
    BY <1>0, <1>3 DEF NewConnection
  <2>2. tcp' \in [Conns -> Status]
    BY <1>0, <1>3 DEF NewConnection, Status
  <2>3. functors' \in Seq(Functors)
    BY <1>0, <1>3 DEF NewConnection, Functors
  <2>4. overlapped' \in BOOLEAN
    BY <1>3 DEF NewConnection
  <2> QED BY <1>3, <2>1, <2>2, <2>3, <2>4 DEF NewConnection, Status, Functors
<1>4. CASE ConnectEstablished
  BY <1>4 DEF ConnectEstablished
<1>5. ASSUME NEW c \in Conns, HandleClose(c) PROVE TypeOK'
  <2>1. c \in 0 .. made /\ c # 0
    BY <1>0, <1>5 DEF HandleClose, ConnInv, Conns
  <2> QED BY <1>5, <2>1 DEF HandleClose
<1>6. CASE HandleConnectionClosed
  <2>1. reconnectTimer' \in BOOLEAN
    BY <1>6 DEF HandleConnectionClosed, ReconnectIsDue
  <2> QED BY <1>6, <2>1 DEF HandleConnectionClosed
<1>7. CASE RemoveConnection
  BY <1>0, <1>7 DEF RemoveConnection
<1>8. CASE RunFunctor
  <2>1. functors' \in Seq(Functors)
    BY <1>0, <1>8 DEF RunFunctor
  <2>2. tcp' \in [Conns -> Status]
    BY <1>0, <1>8, Shutdown DEF RunFunctor
  <2>3. fault' \in {"none", "null", "channel"} /\ connector' \in {"disconnected", "connecting", "connected"}
    BY <1>8 DEF RunFunctor, StartInLoop
  <2> QED BY <1>8, <2>1, <2>2, <2>3 DEF RunFunctor, Status, Functors
<1>9. CASE SendMessage
  <2>1. functors' \in Seq(Functors)
    BY <1>0, <1>9 DEF SendMessage, SendFindsNone, SendFindsOne, ReadNull,
       ReadConnected, ReadUnconnected, SendOrRefuse, TryConnect, QueueInLoop, Functors
  <2>2. sender' \in {"idle", "second", "send"} /\ fault' \in {"none", "null", "channel"}
    BY <1>9 DEF SendMessage, SendFindsNone, SendFindsOne, ReadNull,
       ReadConnected, ReadUnconnected, SendOrRefuse
  <2>3. UNCHANGED <<muduo, loop, subject, autoReconnect, reconnectTimer, overlapped>>
    BY <1>9 DEF SendMessage, SendFindsNone, SendFindsOne, ReadNull,
       ReadConnected, ReadUnconnected, SendOrRefuse
  <2>4. resent' \in BOOLEAN
    BY <1>9 DEF SendMessage, SendFindsNone, SendFindsOne, ReadNull,
       ReadConnected, ReadUnconnected, SendOrRefuse, TryConnect
  <2> QED BY <2>1, <2>2, <2>3, <2>4 DEF Functors
<1>10. CASE Disconnect
  <2>1. tcp' \in [Conns -> Status]
    BY <1>0, <1>10, Shutdown DEF Disconnect
  <2> QED BY <1>10, <2>1 DEF Disconnect, Status
<1>11. CASE Stop
  <2>1. functors' \in Seq(Functors)
    BY <1>0, <1>11 DEF Stop, QueueInLoop, Functors
  <2> QED BY <1>11, <2>1 DEF Stop, Functors
<1>12. ASSUME NEW enable \in BOOLEAN, EnableAutoReconnect(enable) PROVE TypeOK'
  BY <1>12 DEF EnableAutoReconnect
<1>13. CASE UNCHANGED vars
  BY <1>13 DEF vars
<1> QED BY <1>1, <1>2, <1>3, <1>4, <1>5, <1>6, <1>7, <1>8, <1>9, <1>10, <1>11,
           <1>12, <1>13 DEF Next

-----------------------------------------------------------------------------
(* The reconnect timer *)

LEMMA ConnNext == TypeOK /\ ConnInv /\ [Next]_vars => ConnInv'
<1> SUFFICES ASSUME TypeOK, ConnInv, [Next]_vars PROVE ConnInv'
  OBVIOUS
<1>0. /\ tcp \in [Conns -> Status] /\ made \in Nat /\ connection \in Nat
      /\ subject \in Nat /\ (loop # "idle" => subject \in Conns)
  BY BoundsAssumption DEF TypeOK, Status, Conns
<1> USE DEF muduo, events, client, history
\* Steps that move no connection and no callback.
<1>a. ASSUME UNCHANGED <<tcp, connection, made, loop, subject, overlapped>>,
             reconnectTimer' => reconnectTimer
      PROVE  ConnInv'
  BY <1>a DEF ConnInv
<1>b. ASSUME ShutdownConnection,
             UNCHANGED <<connection, made, loop, subject, overlapped, reconnectTimer>>
      PROVE  ConnInv'
  BY <1>0, <1>b, Shutdown DEF ConnInv
<1>1. CASE ConnectRefused \/ RetryConnect \/ ReconnectTimer \/ Stop
  BY <1>1, <1>a DEF ConnectRefused, RetryConnect, ReconnectTimer, Stop
<1>2. CASE NewConnection
  <2>1. \A c \in Conns : tcp'[c] = IF c = made + 1 THEN "connecting" ELSE tcp[c]
    BY <1>0, <1>2 DEF NewConnection
  <2>2. /\ made' = made + 1 /\ connection' = made + 1 /\ subject' = made + 1
        /\ loop' = "established" /\ reconnectTimer' = reconnectTimer
    BY <1>2 DEF NewConnection
  <2>3. ~overlapped' => ~overlapped /\ connection = 0
    BY <1>2 DEF NewConnection
  <2>4. ~overlapped' => \A c \in Conns : tcp[c] = "disconnected"
    BY <1>0, <2>3 DEF ConnInv, Conns
  <2>5. \A c \in Conns : c > made' => tcp'[c] = "disconnected"
    BY <1>0, <2>1, <2>2 DEF ConnInv, Conns
  <2>6. tcp'[subject'] = "connecting"
    <3>1. made < MaxConns
      BY <1>2 DEF NewConnection
    <3>2. made + 1 \in Conns
      BY BoundsAssumption, <1>0, <3>1 DEF Conns
    <3> QED BY <2>1, <2>2, <3>2
  <2> QED BY <2>1, <2>2, <2>3, <2>4, <2>5, <2>6 DEF ConnInv
<1>3. CASE ConnectEstablished
  <2>1. \A c \in Conns : c > made => c # subject
    BY <1>3 DEF ConnectEstablished, TypeOK, Conns
  <2> QED BY <1>0, <1>3, <2>1 DEF ConnectEstablished, ConnInv
<1>4. ASSUME NEW c \in Conns, HandleClose(c) PROVE ConnInv'
  BY <1>0, <1>4 DEF HandleClose, ConnInv
<1>5. CASE HandleConnectionClosed
  <2>1. ~overlapped => ~ReconnectIsDue
    BY <1>0, <1>5 DEF HandleConnectionClosed, ReconnectIsDue, ConnInv, Conns
  <2> QED BY <1>5, <2>1 DEF HandleConnectionClosed, ConnInv
<1>6. CASE RemoveConnection
  BY <1>0, <1>6 DEF RemoveConnection, ConnInv
<1>7. CASE RunFunctor
  BY <1>7, <1>a, <1>b DEF RunFunctor
<1>8. CASE SendMessage
  BY <1>8, <1>a DEF SendMessage, SendFindsNone, SendFindsOne, ReadNull,
     ReadConnected, ReadUnconnected, SendOrRefuse
<1>9. CASE Disconnect
  BY <1>9, <1>b DEF Disconnect
<1>10. ASSUME NEW enable \in BOOLEAN, EnableAutoReconnect(enable) PROVE ConnInv'
  BY <1>10, <1>a DEF EnableAutoReconnect
<1>11. CASE UNCHANGED vars
  BY <1>11, <1>a DEF vars
<1> QED BY <1>1, <1>2, <1>3, <1>4, <1>5, <1>6, <1>7, <1>8, <1>9, <1>10, <1>11 DEF Next

\* Every variable of the client stays within its type.
THEOREM TypeCorrect == Spec => []TypeOK
BY TypeInit, TypeNext, ConnNext, PTL DEF Spec

\* handleConnectionClosed never arms the reconnect timer, unless the client has
\* had two connections at once: it runs while connection_ is still set.
THEOREM NoReconnectTimer == Spec => []TimerOnlyAfterOverlap
<1>1. ConnInv => TimerOnlyAfterOverlap
  BY DEF ConnInv, TimerOnlyAfterOverlap
<1> QED BY <1>1, TypeInit, TypeNext, ConnNext, PTL DEF Spec

-----------------------------------------------------------------------------
(* The second connection *)

Queued(f) == \E i \in DOMAIN functors : functors[i] = f

\* Until a refused sendMessage asks for a connection, the Connector makes one in
\* its life: no start waits, none runs into another, and none comes after it.
OneInv ==
  ~resent =>
    /\ ~overlapped /\ made <= 1
    /\ fault # "channel"
    /\ ~Queued("start")
    /\ connector = "connecting" => made = 0 /\ ~retries /\ ~Queued("reset")
    /\ made = 1 => connector = "connected" /\ ~retries
    /\ retries => connector = "disconnected"

\* What the loop has dropped under the application thread was closed.
LossInv ==
  /\ sender # "idle" /\ connection = 0 => \E c \in 1 .. made : tcp[c] = "disconnected"
  /\ fault = "null" => \E c \in 1 .. made : tcp[c] = "disconnected"

\* What is appended to a queue, and what is left of it without its first entry.
LEMMA Appended ==
  ASSUME NEW S, NEW q \in Seq(S), NEW f \in S, NEW g
  PROVE  (\E i \in DOMAIN Append(q, f) : Append(q, f)[i] = g)
           <=> (f = g \/ \E i \in DOMAIN q : q[i] = g)
<1>1. ASSUME NEW i \in DOMAIN q PROVE i \in DOMAIN Append(q, f) /\ Append(q, f)[i] = q[i]
  OBVIOUS
<1>2. Len(q) + 1 \in DOMAIN Append(q, f) /\ Append(q, f)[Len(q) + 1] = f
  OBVIOUS
<1>3. ASSUME NEW i \in DOMAIN Append(q, f), i # Len(q) + 1
      PROVE  i \in DOMAIN q /\ Append(q, f)[i] = q[i]
  BY <1>3
<1> QED BY <1>1, <1>2, <1>3

LEMMA Shortened ==
  ASSUME NEW S, NEW q \in Seq(S), q # <<>>, NEW g, NEW i \in DOMAIN Tail(q), Tail(q)[i] = g
  PROVE  \E j \in DOMAIN q : q[j] = g
<1>1. i + 1 \in DOMAIN q /\ q[i + 1] = Tail(q)[i]
  OBVIOUS
<1> QED BY <1>1

LEMMA OneNext == TypeOK /\ ConnInv /\ OneInv /\ [Next]_vars => OneInv'
<1> SUFFICES ASSUME TypeOK, ConnInv, OneInv, [Next]_vars, ~resent' PROVE OneInv'
  BY DEF OneInv
<1>0. made \in Nat /\ connection \in 0 .. made /\ functors \in Seq(Functors)
  BY BoundsAssumption DEF TypeOK, Functors
<1> USE DEF muduo, events, client, history
<1>r. ~resent
  BY DEF Next, vars, ConnectRefused, RetryConnect, NewConnection,
     ConnectEstablished, HandleClose, HandleConnectionClosed, RemoveConnection,
     RunFunctor, ReconnectTimer, SendMessage, SendFindsNone, SendFindsOne,
     ReadNull, ReadConnected, ReadUnconnected, SendOrRefuse, TryConnect,
     TypeOK, Disconnect, Stop, EnableAutoReconnect
\* Steps that leave the Connector and its functors alone.
<1>a. ASSUME UNCHANGED <<connector, retries, made, functors, overlapped>>,
             fault' = "channel" => fault = "channel"
      PROVE  OneInv'
  BY <1>a, <1>r DEF OneInv, Queued
<1>1. CASE ConnectRefused
  <2>1. ~Queued("start")'
    <3>1. CASE functors' = functors
      BY <3>1, <1>r DEF OneInv, Queued
    <3>2. CASE functors' = Append(functors, "reset")
      BY <3>2, <1>0, <1>r, Appended DEF OneInv, Queued, Functors
    <3> QED BY <1>1, <3>1, <3>2 DEF ConnectRefused
  <2> QED BY <1>1, <2>1, <1>0, <1>r DEF ConnectRefused, OneInv
<1>2. CASE RetryConnect
  <2>1. ~ChannelInUse /\ ~Queued("reset")
    BY <1>2, <1>r DEF RetryConnect, ChannelInUse, OneInv, Queued
  <2>2. connector' = "connecting" /\ fault' = fault /\ ~retries'
    BY <1>2, <2>1 DEF RetryConnect, StartInLoop
  <2>3. UNCHANGED <<made, functors, overlapped>>
    BY <1>2 DEF RetryConnect
  <2>4. made = 0
    BY <1>0, <1>2, <1>r DEF RetryConnect, OneInv
  <2> QED BY <2>1, <2>2, <2>3, <2>4, <1>r DEF OneInv, Queued
<1>3. CASE NewConnection
  <2>1. made = 0 /\ connection = 0 /\ ~retries
    BY <1>0, <1>3, <1>r DEF NewConnection, OneInv
  <2>2. ~Queued("start")'
    BY <1>0, <1>3, <1>r, Appended DEF NewConnection, OneInv, Queued, Functors
  <2>3. connector' = "connected" /\ made' = 1 /\ fault' = fault
    BY <1>3, <2>1 DEF NewConnection
  <2>4. ~retries'
    BY <1>3, <2>1 DEF NewConnection
  <2>5. ~overlapped'
    <3>1. overlapped' = (overlapped \/ connection # 0)
      BY <1>3 DEF NewConnection
    <3> QED BY <3>1, <2>1, <1>r DEF OneInv
  <2> QED BY <2>2, <2>3, <2>4, <2>5, <1>r DEF OneInv
<1>4. CASE ConnectEstablished
  BY <1>4, <1>a DEF ConnectEstablished
<1>5. ASSUME NEW c \in Conns, HandleClose(c) PROVE OneInv'
  BY <1>5, <1>a DEF HandleClose
<1>6. CASE HandleConnectionClosed \/ RemoveConnection
  BY <1>6, <1>a DEF HandleConnectionClosed, RemoveConnection
<1>7. CASE RunFunctor
  <2>1. Head(functors) # "start"
    <3>1. 1 \in DOMAIN functors /\ Head(functors) = functors[1]
      BY <1>0, <1>7 DEF RunFunctor
    <3> QED BY <3>1, <1>r DEF OneInv, Queued
  <2>2. UNCHANGED <<connector, fault, retries, made, overlapped>>
    BY <1>7, <2>1 DEF RunFunctor
  <2>3. ASSUME NEW f, Queued(f)' PROVE Queued(f)
    BY <1>0, <1>7, <2>3, Shortened DEF RunFunctor, Queued
  <2> QED BY <2>2, <2>3, <1>r DEF OneInv
<1>8. CASE ReconnectTimer
  BY <1>8, <1>r DEF ReconnectTimer, ConnInv, OneInv
<1>9. CASE SendMessage
  <2>1. UNCHANGED <<connector, retries, made, functors, overlapped>>
    BY <1>9, <1>r DEF SendMessage, SendFindsNone, SendFindsOne, ReadNull,
       ReadConnected, ReadUnconnected, SendOrRefuse, TryConnect
  <2>2. fault' = "channel" => fault = "channel"
    BY <1>9 DEF SendMessage, SendFindsNone, SendFindsOne, ReadNull,
       ReadConnected, ReadUnconnected, SendOrRefuse
  <2> QED BY <2>1, <2>2, <1>a
<1>10. CASE Disconnect
  BY <1>10, <1>a DEF Disconnect
<1>11. CASE Stop
  <2>1. ASSUME NEW f, f \in {"start", "reset"}, Queued(f)' PROVE Queued(f)
    BY <1>0, <1>11, <2>1, Appended DEF Stop, QueueInLoop, Queued, Functors
  <2>2. UNCHANGED <<connector, fault, retries, made, overlapped>>
    BY <1>11 DEF Stop
  <2> QED BY <2>1, <2>2, <1>r DEF OneInv
<1>12. ASSUME NEW enable \in BOOLEAN, EnableAutoReconnect(enable) PROVE OneInv'
  BY <1>12, <1>a DEF EnableAutoReconnect
<1>13. CASE UNCHANGED vars
  BY <1>13, <1>a DEF vars
<1> QED BY <1>1, <1>2, <1>3, <1>4, <1>5, <1>6, <1>7, <1>8, <1>9, <1>10, <1>11,
           <1>12, <1>13 DEF Next

LEMMA LossNext == TypeOK /\ ConnInv /\ LossInv /\ [Next]_vars => LossInv'
<1> SUFFICES ASSUME TypeOK, ConnInv, LossInv, [Next]_vars PROVE LossInv'
  OBVIOUS
<1>0. made \in Nat /\ made <= MaxConns /\ MaxConns \in Nat
      /\ tcp \in [Conns -> Status] /\ (loop # "idle" => subject \in 1 .. made)
  BY BoundsAssumption DEF TypeOK, Status
<1>s. \A c \in 1 .. made : c \in Conns
  BY <1>0 DEF Conns
<1> USE DEF muduo, events, client, history
\* A connection that has been closed stays closed.
<1>a. ASSUME made' \in Nat, made' >= made,
             \A c \in 1 .. made : tcp[c] = "disconnected" => tcp'[c] = "disconnected",
             fault' = "null" => fault = "null" \/ (sender # "idle" /\ connection = 0),
             sender' # "idle" /\ connection' = 0 => sender # "idle" /\ connection = 0
      PROVE  LossInv'
  <2>1. \A c \in 1 .. made : c \in 1 .. made'
    BY <1>0, <1>a
  <2> QED BY <1>a, <2>1 DEF LossInv
<1>1. CASE ConnectRefused \/ RetryConnect \/ ReconnectTimer
  BY <1>0, <1>1, <1>a DEF ConnectRefused, RetryConnect, ReconnectTimer, StartInLoop
<1>2. CASE NewConnection
  BY <1>0, <1>s, <1>2, <1>a DEF NewConnection
<1>3. CASE ConnectEstablished
  <2>1. \A c \in 1 .. made : tcp[c] = "disconnected" => tcp'[c] = "disconnected"
    BY <1>0, <1>s, <1>3 DEF ConnectEstablished, ConnInv
  <2> QED BY <1>0, <1>3, <1>a, <2>1 DEF ConnectEstablished
<1>4. ASSUME NEW c \in Conns, HandleClose(c) PROVE LossInv'
  BY <1>0, <1>s, <1>4, <1>a DEF HandleClose
<1>5. CASE HandleConnectionClosed
  BY <1>0, <1>5, <1>a DEF HandleConnectionClosed
<1>6. CASE RemoveConnection
  BY <1>0, <1>6 DEF RemoveConnection, ConnInv, LossInv
<1>7. CASE RunFunctor
  BY <1>0, <1>s, <1>7, <1>a, Shutdown DEF RunFunctor, StartInLoop
<1>8. CASE SendMessage
  BY <1>0, <1>8, <1>a DEF SendMessage, SendFindsNone, SendFindsOne, ReadNull,
     ReadConnected, ReadUnconnected, SendOrRefuse
<1>9. CASE Disconnect
  BY <1>0, <1>s, <1>9, <1>a, Shutdown DEF Disconnect
<1>10. CASE Stop
  BY <1>0, <1>10, <1>a DEF Stop
<1>11. ASSUME NEW enable \in BOOLEAN, EnableAutoReconnect(enable) PROVE LossInv'
  BY <1>0, <1>11, <1>a DEF EnableAutoReconnect
<1>12. CASE UNCHANGED vars
  BY <1>0, <1>12, <1>a DEF vars
<1> QED BY <1>1, <1>2, <1>3, <1>4, <1>5, <1>6, <1>7, <1>8, <1>9, <1>10, <1>11,
           <1>12 DEF Next

LEMMA OneInit == Init => OneInv /\ LossInv
BY DEF Init, OneInv, LossInv, Queued

\* A client gets a second connection only by an attempt of sendMessage: the loss
\* of the first schedules none.
THEOREM OneUnlessSending == Spec => []SecondNeedsSend
<1>1. TypeOK /\ OneInv => SecondNeedsSend
  BY BoundsAssumption DEF TypeOK, OneInv, SecondNeedsSend
<1> QED BY <1>1, TypeInit, TypeNext, ConnNext, OneInit, OneNext, PTL DEF Spec

\* isConnected dereferences a null connection only after a loss, and a Connector
\* runs into its own channel only at the request of sendMessage.
THEOREM FaultsHaveCauses == Spec => []FaultHasCause
<1>1. OneInv /\ LossInv => FaultHasCause
  BY DEF OneInv, LossInv, FaultHasCause
<1> QED BY <1>1, TypeInit, TypeNext, ConnNext, OneInit, OneNext, LossNext, PTL DEF Spec

=============================================================================
