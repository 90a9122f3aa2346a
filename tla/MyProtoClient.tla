---------------------------- MODULE MyProtoClient ----------------------------
(***************************************************************************)
(* MyProtoClient: the connection of a client as its event loop and one     *)
(* application thread see it.                                              *)
(*                                                                         *)
(* The loop runs muduo's Connector and TcpClient, the connection callbacks *)
(* and the reconnect timer; the application thread calls sendMessage,      *)
(* disconnect, stop and enableAutoReconnect, and waits for none of them.   *)
(* TcpClient::connect on a thread that is not the loop's only queues a     *)
(* functor.  Connections are numbered in the order in which they are made. *)
(***************************************************************************)
EXTENDS Naturals, Sequences

CONSTANTS
  MaxConns,     \* bound: connections made
  MaxFunctors   \* bound: functors waiting in the loop's queue

ASSUME BoundsAssumption == MaxConns \in Nat /\ MaxFunctors \in Nat

Conns == 1 .. MaxConns

VARIABLES
  connector,      \* Connector::state_: "disconnected", "connecting", "connected"
  retries,        \* a retry of the Connector is due (its runAfter)
  connection,     \* TcpClient::connection_: a connection, or 0 for none
  made,           \* connections made so far
  tcp,            \* tcp[c]: "connecting", "connected", "disconnecting"
                  \* (after shutdown()) or "disconnected"
  functors,       \* EventLoop::pendingFunctors_: "start", "disconnect" and
                  \* "reset", which drops the channel of a connect that ended
  loop,           \* the loop's callback: "idle", "established" (a connection
                  \* is about to be), "callback" and "remove" (one is closing)
  subject,        \* the connection the callback is about
  autoReconnect,  \* autoReconnect_
  reconnectTimer, \* reconnectTimerId_ is a timer that has not fired
  sender,         \* the application thread: "idle", "second" and "send" inside
                  \* sendMessage
  fault,          \* "none"; "null": a null TcpConnectionPtr was dereferenced;
                  \* "channel": a Connector was started over its old channel
  \* History, read by no action:
  overlapped,     \* a connection was made while another one was still there
  resent          \* sendMessage has asked for a connection

muduo   == <<connector, retries, connection, made, tcp>>
events  == <<functors, loop, subject>>
client  == <<autoReconnect, reconnectTimer, sender>>
history == <<overlapped, resent>>
vars    == <<muduo, events, client, fault, history>>

LoopIdle == fault = "none" /\ loop = "idle"

-----------------------------------------------------------------------------

Init ==
  /\ connector = "connecting"   \* connect(), on the loop's thread
  /\ retries = FALSE
  /\ connection = 0
  /\ made = 0
  /\ tcp = [c \in Conns |-> "disconnected"]
  /\ functors = <<>>
  /\ loop = "idle"
  /\ subject = 0
  /\ autoReconnect = TRUE
  /\ reconnectTimer = FALSE
  /\ sender = "idle"
  /\ fault = "none"
  /\ overlapped = FALSE
  /\ resent = FALSE

(* muduo: Connector, TcpClient and TcpConnection *)

\* The channel of a connect is dropped by a functor, after the connect ended.
ChannelInUse ==
  \/ connector = "connecting"
  \/ \E i \in DOMAIN functors : functors[i] = "reset"

\* Connector::startInLoop.  Its assertion, that the state is "disconnected", is
\* compiled out of a release build.  What a start over a channel in use does
\* is undefined: the channel or its successor is destroyed while it is polled.
StartInLoop ==
  /\ connector' = "connecting"
  /\ fault' = IF ChannelInUse THEN "channel" ELSE fault

\* At once, before there is a channel, or later.
ConnectRefused ==
  /\ LoopIdle
  /\ connector = "connecting"
  /\ connector' = "disconnected"
  /\ retries' = TRUE
  /\ functors' \in {functors, Append(functors, "reset")}
  /\ UNCHANGED <<connection, made, tcp, loop, subject, client, fault, history>>

\* Half a second later, when the functors of that round have long run.
RetryConnect ==
  /\ LoopIdle
  /\ retries
  /\ \A i \in DOMAIN functors : functors[i] # "reset"
  /\ retries' = FALSE
  /\ StartInLoop
  /\ UNCHANGED <<connection, made, tcp, events, client, history>>

\* Variant of NewConnection: the connection is not counted.
NewUncounted ==
  /\ LoopIdle
  /\ connector = "connecting"
  /\ made < MaxConns
  /\ connector' = "connected"
  /\ tcp' = [tcp EXCEPT ![made + 1] = "connecting"]
  /\ connection' = made + 1
  /\ loop' = "established"
  /\ subject' = made + 1
  /\ functors' = Append(functors, "reset")
  /\ overlapped' = (overlapped \/ connection # 0)
  /\ UNCHANGED <<retries, made, client, fault, resent>>

\* TcpClient::newConnection publishes the connection ...
NewConnection ==
  /\ LoopIdle
  /\ connector = "connecting"
  /\ made < MaxConns
  /\ connector' = "connected"
  /\ made' = made + 1
  /\ tcp' = [tcp EXCEPT ![made + 1] = "connecting"]
  /\ connection' = made + 1
  /\ loop' = "established"
  /\ subject' = made + 1
  /\ functors' = Append(functors, "reset")
  /\ overlapped' = (overlapped \/ connection # 0)
  /\ UNCHANGED <<retries, client, fault, resent>>

\* ... before it is established; onConnection does nothing but log that.
ConnectEstablished ==
  /\ fault = "none"
  /\ loop = "established"
  /\ tcp' = [tcp EXCEPT ![subject] = "connected"]
  /\ loop' = "idle"
  /\ UNCHANGED <<connector, retries, connection, made, functors, subject,
                 client, fault, history>>

\* TcpConnection::handleClose marks the connection, calls the connection
\* callback ...
HandleClose(c) ==
  /\ LoopIdle
  /\ tcp[c] \in {"connected", "disconnecting"}
  /\ tcp' = [tcp EXCEPT ![c] = "disconnected"]
  /\ loop' = "callback"
  /\ subject' = c
  /\ UNCHANGED <<connector, retries, connection, made, functors, client, fault,
                 history>>

\* ... and only then TcpClient::removeConnection.
RemoveConnection ==
  /\ fault = "none"
  /\ loop = "remove"
  /\ connection' = 0
  /\ loop' = "idle"
  /\ UNCHANGED <<connector, retries, made, tcp, functors, subject, client,
                 fault, history>>

\* TcpClient::disconnect: the connection there is, if any, is shut down.
ShutdownConnection ==
  tcp' = [c \in Conns |-> IF c = connection /\ tcp[c] = "connected"
                          THEN "disconnecting" ELSE tcp[c]]

RunFunctor ==
  /\ LoopIdle
  /\ functors # <<>>
  /\ functors' = Tail(functors)
  /\ \/ /\ Head(functors) = "start"
        /\ StartInLoop
        /\ tcp' = tcp
     \/ /\ Head(functors) = "disconnect"
        /\ ShutdownConnection
        /\ UNCHANGED <<connector, fault>>
     \/ /\ Head(functors) = "reset"
        /\ UNCHANGED <<connector, fault, tcp>>
  /\ UNCHANGED <<retries, connection, made, loop, subject, client, history>>

-----------------------------------------------------------------------------
(* MyProtoClient, on the loop *)

\* Variant of ReconnectIsDue: whether the client still holds a connection is
\* not asked.
ClosedIsEnough == tcp[subject] = "disconnected" /\ autoReconnect

ReconnectIsDue ==
  /\ tcp[subject] = "disconnected"
  /\ autoReconnect
  /\ connection = 0

\* onConnection cleans up and calls handleConnectionClosed.
HandleConnectionClosed ==
  /\ fault = "none"
  /\ loop = "callback"
  /\ reconnectTimer' = (reconnectTimer \/ ReconnectIsDue)
  /\ loop' = "remove"
  /\ UNCHANGED <<muduo, functors, subject, autoReconnect, sender, fault, history>>

\* The reconnect timer calls connect() on the loop, which starts at once.
ReconnectTimer ==
  /\ LoopIdle
  /\ reconnectTimer
  /\ reconnectTimer' = FALSE
  /\ StartInLoop
  /\ UNCHANGED <<retries, connection, made, tcp, events, autoReconnect, sender,
                 history>>

(* MyProtoClient, on the application thread *)

QueueInLoop(f) ==
  /\ Len(functors) < MaxFunctors
  /\ functors' = Append(functors, f)

\* What sendMessage does when isConnected() is false, before it returns 0.
TryConnect ==
  \/ autoReconnect /\ QueueInLoop("start") /\ resent' = TRUE
  \/ ~autoReconnect /\ UNCHANGED <<functors, resent>>

\* sendMessage, isConnected: client_.connection() is empty ...
SendFindsNone ==
  /\ fault = "none"
  /\ sender = "idle"
  /\ connection = 0
  /\ TryConnect
  /\ UNCHANGED <<muduo, loop, subject, client, fault, overlapped>>

\* ... or is there, and will be read once more for its state.
SendFindsOne ==
  /\ fault = "none"
  /\ sender = "idle"
  /\ connection # 0
  /\ sender' = "second"
  /\ UNCHANGED <<muduo, events, autoReconnect, reconnectTimer, fault, history>>

\* isConnected: client_.connection()->connected()
ReadNull ==
  /\ fault = "none"
  /\ sender = "second"
  /\ connection = 0
  /\ fault' = "null"
  /\ UNCHANGED <<muduo, events, client, history>>

ReadConnected ==
  /\ fault = "none"
  /\ sender = "second"
  /\ connection # 0
  /\ tcp[connection] = "connected"
  /\ sender' = "send"
  /\ UNCHANGED <<muduo, events, autoReconnect, reconnectTimer, fault, history>>

ReadUnconnected ==
  /\ fault = "none"
  /\ sender = "second"
  /\ connection # 0
  /\ tcp[connection] # "connected"
  /\ TryConnect
  /\ sender' = "idle"
  /\ UNCHANGED <<muduo, loop, subject, autoReconnect, reconnectTimer, fault,
                 overlapped>>

\* A third client_.connection() goes to the connection handler, whose
\* sendReliableMessage accepts an empty one and refuses what is not connected.
SendOrRefuse ==
  /\ fault = "none"
  /\ sender = "send"
  /\ sender' = "idle"
  /\ UNCHANGED <<muduo, events, autoReconnect, reconnectTimer, fault, history>>

SendMessage ==
  \/ SendFindsNone \/ SendFindsOne
  \/ ReadNull \/ ReadConnected \/ ReadUnconnected \/ SendOrRefuse

Disconnect ==
  /\ fault = "none"
  /\ sender = "idle"
  /\ ShutdownConnection
  /\ UNCHANGED <<connector, retries, connection, made, events, client, fault,
                 history>>

\* stop() leaves the disconnect to the loop.
Stop ==
  /\ fault = "none"
  /\ sender = "idle"
  /\ QueueInLoop("disconnect")
  /\ UNCHANGED <<muduo, loop, subject, client, fault, history>>

\* Variant of EnableAutoReconnect: switching it on connects.
EnableAndConnect(enable) ==
  /\ fault = "none"
  /\ sender = "idle"
  /\ autoReconnect' = enable
  /\ IF enable THEN QueueInLoop("start") ELSE UNCHANGED functors
  /\ UNCHANGED <<muduo, loop, subject, reconnectTimer, sender, fault, history>>

EnableAutoReconnect(enable) ==
  /\ fault = "none"
  /\ sender = "idle"
  /\ autoReconnect' = enable
  /\ UNCHANGED <<muduo, events, reconnectTimer, sender, fault, history>>

Next ==
  \/ ConnectRefused \/ RetryConnect \/ NewConnection \/ ConnectEstablished
  \/ \E c \in Conns : HandleClose(c)
  \/ HandleConnectionClosed \/ RemoveConnection
  \/ RunFunctor \/ ReconnectTimer
  \/ SendMessage \/ Disconnect \/ Stop
  \/ \E enable \in BOOLEAN : EnableAutoReconnect(enable)

Spec == Init /\ [][Next]_vars

\* The loop runs what is due, an attempt to connect succeeds in the end if attempts
\* are made again and again (the server is there), and a call of sendMessage comes
\* to its end.  Nobody has to make one, least of all while not connected.
Fairness ==
  /\ WF_vars(ConnectEstablished \/ HandleConnectionClosed \/ RemoveConnection)
  /\ WF_vars(RunFunctor)
  /\ WF_vars(RetryConnect)
  /\ WF_vars(ReconnectTimer)
  /\ SF_vars(NewConnection)
  /\ WF_vars(ReadNull \/ ReadConnected \/ ReadUnconnected \/ SendOrRefuse)

FairSpec == Spec /\ Fairness

-----------------------------------------------------------------------------
(* Properties *)

\* Types: connection_ and the subject of a callback are connections that have
\* been made, and a callback has a subject (TcpClient).
TypeOK ==
  /\ connector \in {"disconnected", "connecting", "connected"}
  /\ retries \in BOOLEAN
  /\ connection \in 0 .. made
  /\ made \in 0 .. MaxConns
  /\ tcp \in [Conns -> {"connecting", "connected", "disconnecting", "disconnected"}]
  /\ functors \in Seq({"start", "disconnect", "reset"})
  /\ loop \in {"idle", "established", "callback", "remove"}
  /\ subject \in 0 .. made
  /\ loop # "idle" => subject # 0
  /\ autoReconnect \in BOOLEAN /\ reconnectTimer \in BOOLEAN
  /\ sender \in {"idle", "second", "send"}
  /\ fault \in {"none", "null", "channel"}
  /\ overlapped \in BOOLEAN /\ resent \in BOOLEAN

\* The reconnect timer is armed only in a client that has had two connections
\* at once: in every other run a close finds connection_ still set.
TimerOnlyAfterOverlap == reconnectTimer => overlapped

\* Nothing but the attempt of a refused sendMessage (MyProtoClient.cpp:104-107)
\* leads to a second connection: the loss of the first one schedules none.
SecondNeedsSend == made > 1 => resent

\* A null connection is dereferenced only after one has been lost, and the
\* Connector started over its channel only if a refused sendMessage asked it to.
FaultHasCause ==
  /\ fault = "null" => \E c \in 1 .. made : tcp[c] = "disconnected"
  /\ fault = "channel" => resent

-----------------------------------------------------------------------------
(* What the code says of itself *)

\* MyProtoClient.cpp, handleConnectionClosed: when a connection is closed and
\* autoReconnect_ is on, a reconnection is scheduled; so the client gets another
\* connection (up to the bound on them), unless it faults or is told not to.
LossIsRepaired ==
  (connection = 0 /\ autoReconnect /\ 0 < made /\ made < MaxConns)
    ~> (connection # 0 \/ ~autoReconnect \/ fault # "none")

=============================================================================
