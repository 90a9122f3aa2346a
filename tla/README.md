# MyProto in TLA+

MyProto is an echo service over TCP written with muduo: a length-prefixed
protocol with a CRC-16 and a JSON body, a decoder, and a manager that numbers
messages, retransmits them, suppresses duplicates and acknowledges them. About
1800 lines are its own; the rest of the repository is the vendored JSON
library, design-pattern notes and build output.

This directory holds TLA+ modules translated from that code, the TLC
configurations that check them on small instances, and theorems checked by
TLAPS. Line numbers below are lines of the files under `src/`.

## 1. Inventory

| Part | Source | State | Operations |
|---|---|---|---|
| Encoder | `Myproto/myproto.cpp:75-99` | none | `encode`: header, CRC, JSON dump |
| Stream decoder | `Myproto/myproto.cpp:124-382` | `mCurReserved`, `mCurParserStatus`, `mCurMsg`, `mMsgQ` | `parser`, `parserHead`, `parserBody`, `front`, `pop` |
| Reliable message manager | `Myproto/ReliableMsgManager.cpp` | `nextSequence_`, `pendingMessages_`, `connectionMap_`, `processedSequences_`, `lastAckedSequence_`, `lastAckTime_` | `sendReliableMessage`, `processAckMessage`, `processDataMessage`, `sendBatchAck`, `checkTimeoutMessages`, `cleanupConnection` |
| Connection handler | `Connect/ConnectionHandler.cpp` | one decoder, one manager, one business handler | `onMessage`, `onConnection`, `sendMessage`, `checkTimeoutMessages` |
| Business handler | `ServiceHandler/BusinessHandler.cpp` | table of handlers by service id | `handleMessage`, echo, error reply |
| Client | `Client/MyProtoClient.cpp` | `TcpClient`, reconnect timer, scan timer (0.5 s) | `connect`, `disconnect`, `stop`, `sendMessage`, `handleConnectionClosed` |
| Server | `Server/MyProtoServer.cpp`, `main.cpp` | `TcpServer`, scan timer (2 s) | `start`, `stop`, `onTimeout` |
| Thread pool | `Myproto/ThreadPool.cc` | queue, `running_`, workers | `addTask`, `stop`, worker loop |
| Logger | `Logger/MyLogger.cpp` | spdlog handle | output only |

### How they interact

- The event loop thread runs every connection, message and timer callback.
  Any other thread may call `MyProtoClient::sendMessage`, which ends in
  `ReliableMsgManager::sendReliableMessage` on the calling thread.
- `TcpConnection` hands bytes to `ConnectionHandler::onMessage`, which gives
  the **whole** muduo buffer to `decoder_.parser()`, retrieves the buffer if
  `parser()` returns true, and dispatches the queued messages: type 1 to
  `processAckMessage`, every other type to `processDataMessage` and, if that
  says the message is new, to the business handler.
- `decoder_` is a member of `ConnectionHandler` (`ConnectionHandler.h:40`).
  A server has one handler for all its connections and a client one for all
  its successive connections: **all of them share one decoder**, which is
  reset by its constructor and by the exception path of `parser()` only.
- The business handler replies through `ConnectionHandler::sendMessage`, so a
  reply is itself a reliable message with a sequence number of its own.
- Acknowledgements (`sendAck`, which nothing calls, and `sendBatchAck`) set no
  body, so their body is JSON `null`. `validateJsonContent`
  (`myproto.cpp:385-424`) refuses `null`: the peer's decoder fails on every
  acknowledgement it receives.

### What is hard, and what makes each part correct

- **Decoder.** TCP decides where reads end and in which order the reads of two
  connections come. Correct: what is handed on is a prefix of what was sent,
  whole and in order; nothing is held back; it fails only on bytes it has to
  refuse; after a failure or a suspended frame it goes on.
- **Manager.** Sender threads race the loop between the test of the connection
  and the lock; scans interleave with closes, cleanups and new sends; numbers
  wrap. Correct: each message is written at most four times and given up only
  after that; nothing of a closed connection stays; pending messages leave the
  table; each received message is handled once, in order.
- **Client.** A close, a reconnect timer and an application thread act on one
  `TcpClient`. Correct: a lost connection comes back; there is one connection
  at a time; nobody uses a connection that has gone.
- **Thread pool.** `addTask` and `stop` race workers that test `running_`
  without the lock. Correct: no wake-up is lost, no task is lost, repeated or
  overtaken, `stop` returns and leaves nothing running.
- **Codec.** Byte orders, widths and the CRC. Correct: a frame is accepted
  exactly if it arrives as it was sent and may be sent at all.
- **The whole.** Two clients, wires, one shared decoder, scans that write
  messages again, acknowledgements that end a decoder. Correct: a request is
  served once, in order, and in the end.

`PROJECT.json` lists every hazard at the line where it bites and the property
that covers it, or why none does.

## 2. Modules

| Module | Contents |
|---|---|
| `StreamDecoder` | `MyProtoDecode` and the loop of `onMessage` that feeds and drains it |
| `MCStreamDecoder` | small wire streams for it |
| `FrameDecoder` | the abstract specification: what a shared decoder does, told in whole frames |
| `StreamDecoderProofs` | theorems about it: types, failure and suspension |
| `DeliveryProofs` | theorems about it: order, completeness, causes of failure, and that it implements `FrameDecoder` |
| `ReliableMsgManager` | the manager, connection states, sender threads, peers |
| `MCReliableMsgManager` | a small instance of it |
| `ReliableMsgManagerProofs` | theorems about its types and about receiving |
| `RetransmissionProofs` | theorems about sending and sending again |
| `Codec`, `MCCodec` | the bytes of a frame, the CRC, `validateJsonContent`; messages at the bounds of the fields |
| `CodecProofs` | theorems about it: the CRC is a remainder, what is accepted was sent |
| `ThreadPool`, `ThreadPoolProofs` | `start`, `addTask`, `stop` and the worker loop; theorems |
| `MyProtoClient`, `MyProtoClientProofs` | the client's connection as the loop and the application thread see it; theorems |
| `EchoService` | the abstract specification: what the echo service promises a client |
| `EchoSystem`, `MCEchoSystem` | clients and server composed: handlers, decoders, managers, TCP, business handler |
| `EchoSystemProofs` | theorems about it, among them that it implements `EchoService` |

### StreamDecoder

A byte is the frame it belongs to and its place in that frame; the model knows
which bytes make a whole frame without spelling out any. `fed` is the log of
all bytes ever pushed into `mCurReserved`, and `mCurReserved` is its suffix
after `base` erased bytes: `Cell(i)` is `mCurReserved[i-1]`. `off` stands for
`curData` and `parserLen`, which are always equal.

| Action | Code |
|---|---|
| `OnMessage` | more bytes arrive; the whole buffer is pushed, with the bytes an earlier call left unretrieved (`ConnectionHandler.cpp:24-33`, `myproto.cpp:142-157`) |
| `HeadIncomplete`, `HeadRefused`, `HeadParsed` | `parserHead` breaks, fails, or moves `curData` behind the header |
| `BodyIncomplete`, `BodyRefused`, `BodyParsed` | `parserBody` breaks, fails on the JSON or the CRC, or accepts |
| `PushMsg` | the message is queued and its bytes erased (`myproto.cpp:192-212`) |
| `Dispatch`, `DrainDone` | `onMessage` pops the queue (`ConnectionHandler.cpp:39-66`) |

What the model keeps of the code's details:

- A failed header erases nothing (`parserLen` is 0 there). A failed body in the
  call that parsed its header erases the 14 header bytes and stays in
  `ON_PARSER_HEAD`. After `parser()` returns false, the buffer is not retrieved
  and the queue is not drained.
- When `parser()` returns in `ON_PARSER_HEAD` to wait for the body, the header
  is still in front of `mCurReserved`, and the next call starts with `curData`
  there: the header bytes are taken for the body. The CRC window then starts
  14 bytes before the vector, and the outcome is undefined (`oob`).

Assumptions about the data:

- The CRC tells every whole, unchanged frame from everything else. (`Codec`
  shows it of frames damaged in a burst of up to 16 bits within two bytes; of
  arbitrary bytes a CRC-16 takes one string in 65536 for a frame.)
- A run of one frame's header bytes spells that header. Bytes that start inside
  a body never spell a supported version; any other mixture spells arbitrary
  fields (body length up to `MaxBody`) or is refused, the same way each time.
- A body is JSON only if it does not begin in header bytes; an empty body is
  refused; a whole body is judged by its content; other pieces of bodies may or
  may not parse, at every attempt anew.

`FrameDecoder` says what all of this amounts to: a read ends with every frame
that has arrived as a whole queued (`Accept`), or kills the decoder with a frame
it must refuse (`Refuse`); a read that ends between a header and the end of its
body kills it too, and so does one that brings bytes of another connection than
the frame that is begun (`Read`). `StreamDecoder` maps onto it (`FrameByFrame`):
`whole`, `cut` and `unfit` are read off the bytes that have arrived; `queue` is
`mMsgQ` while it is drained (what a failed call leaves in it is never handed on);
`handed` is `delivered`; `dead` is `failed`, `suspended` or `Broken`, the last a
decoder in which two connections have met and which may or may not have found
out. `astray` is `oob`: after a CRC check outside the vector nothing is promised.

### ReliableMsgManager

| Variable | Code |
|---|---|
| `connState` | state of each `TcpConnection`: `connected()` is true in `"up"`; `"shut"` after `shutdown()`, `"closing"` between muduo's close and the end of `onConnection` |
| `nextSequence` | `nextSequence_`, modulo `SeqMod` (2^32) |
| `pending[c]` | `pendingMessages_[c]`: sequence number, retry count, age, whether it can be encoded |
| `connectionMap`, `processed`, `lastAcked`, `ackAge` | the other members |
| `target[t]` | the connection thread `t` found connected before it took the lock |
| `xmits`, `sent`, `arrived`, `handled`, `batchAck`, `acked` | logs that no action of the manager reads (two bound the model) |

| Action | Code |
|---|---|
| `Connect`, `Shutdown`, `Disconnect`, `CleanupConnection` | muduo's state changes, `disconnect` on any thread (`MyProtoClient.cpp:91-93`), then `onConnection` → `cleanupConnection` (`ReliableMsgManager.cpp:352-361`) |
| `CheckConnected`, `SendReliable` | `sendReliableMessage` before the lock (18-23) and under it (24-62) |
| `ProcessAck` | `processAckMessage` (65-135) as `onMessage` calls it |
| `ProcessData` | `processDataMessage` (144-201), the batch acknowledgement and the handing on |
| `CheckTimeout` | `checkTimeoutMessages` (262-349), one scan over all connections |
| `Tick` | the clocks |

- Clocks are ages, capped one past the interval they are compared with.
- A message is stored before it is encoded; one that cannot be encoded
  (`json::dump` throws on text that is not UTF-8) is stored and never written.
- When the last pending message of a connection is given up, the scan erases
  the element its range-for stands in (346), which is undefined behaviour. The
  scan may then go on with all remaining connections, miss some, or crash
  (`crashed`). The same loop over the same map types, compiled with g++ at
  `-O0` and at `-O2`, ended in a segmentation fault.
- A method of the manager is one step under `mutex_`. A thread that shuts the
  connection down does not take that lock; the model lets it do so before or
  after a method, and not between a method's last test of `connected()` and the
  write that follows, where muduo itself would discard the write.
- `processDataMessage` also refuses a version other than 0 and 1, a type that is
  a brace or a bracket, and a length out of range (155-173). They are left out:
  no peer sends such a type, and the decoder has refused the others already.
- The peer numbers upward and TCP keeps its order, so an arrival is either the
  peer's next message or a repetition of one sent before. (A peer whose loop
  has stood still may write a later message first; that case is `Stalls` of
  `EchoSystem`.)

### Codec

A frame is encoded (`Encode`, `FillCRC`), damaged in one byte or two
neighbours, or not (`Damage`), and decoded (`Refuse`, or `CheckCRC` and
`CompareCRC`); `AddNext` is one turn of the outer loop of `calculateCRC`
(`myproto.cpp:22-39`), which both ends run.

- An unsigned integer is the set of the places of its one bits: `^` is the
  symmetric difference, `<<` moves the places up, `htonl` takes the bytes apart.
  The same sets are the polynomials over GF(2) that a CRC divides, which is what
  lets a theorem speak of the CRC.
- `quotient` is history: the bits the loop has shifted out of `crc`.
- The byte orders of the two hosts vary, because the CRC alone is stored in host
  order (`myproto.cpp:94-96`); what arrives is only promised between hosts of
  one order.
- A body is its dump and what `validateJsonContent` (385-424) looks at. A damaged
  body may pass as JSON or not (`BodyDamaged`), so that only the CRC can be
  relied on.
- `MaxSize` is `MY_PROTO_MAX_SIZE`, which `parserHead` tests and `encode` does
  not: a longer message is sent and refused.
- Damage leaves the length alone: a changed length moves the end of the frame,
  which is the matter of `StreamDecoder`. It lies in the CRC field or outside of
  it. (Across its border the two halves of a burst are further apart in the
  division than on the wire.)

### ThreadPool

What a thread does under `mtx_` is one step; `pc[w]` is the place of worker `w`
in `workerLoop`.

| Action | Code |
|---|---|
| `Start`, `EmplaceWorker` | `start` (`ThreadPool.cc:22-29`), one thread at a time |
| `AddTask` | `addTask` (33-37): any sleeping worker may be the one `notify_one` wakes |
| `StopLocked`, `NotifyAll`, `Join`, `ClearWorkers` | `stop` (40-50), released between its steps |
| `TestRunning` | the unlocked read of `running_` in the while condition (63), a step of its own |
| `Sleep`, `WakeSpuriously`, `BreakLoop`, `TakeTask`, `FinishTask` | the body of the loop (64-81) |

`running_` is a plain `bool` read in a race with `stop`. The read is a step of
its own, so it sees the old or the new value depending on when it happens. A
task returns and does not call `stop`. No other file of the repository
uses the pool.

### MyProtoClient

The module keeps the pieces of muduo the client's code depends on, as that
code uses them: the `Connector` with its states and its retry half a second
later, `TcpClient::connection_`, `TcpConnection`'s states, and the queue of
functors of the loop.

| Action | Code |
|---|---|
| `ConnectRefused`, `RetryConnect`, `NewConnection`, `ConnectEstablished`, `RunFunctor` | muduo's side of `connect()` |
| `HandleClose`, `HandleConnectionClosed`, `RemoveConnection` | a close: the connection is marked, then the callback runs (`MyProtoClient.cpp:67-89`), and only then is `connection_` reset |
| `ReconnectTimer` | the timer armed at 79-83; on the loop's thread `connect()` runs at once |
| `SendFindsNone`, `SendFindsOne`, `ReadNull`, `ReadConnected`, `ReadUnconnected`, `SendOrRefuse` | `sendMessage` (101-116) and the two reads of `isConnected` (53-64), one step per read of `connection_` |
| `Disconnect`, `Stop`, `EnableAutoReconnect` | 91-99, 129-131 |

- The Connector stays `"connected"` after its connection is lost; its
  assertions are compiled out of a release build. A start over a channel that
  is still there is the fault `"channel"`, a dereferenced null pointer the
  fault `"null"`; a faulty client does nothing more.
- `overlapped` and `resent` are history: a connection was made while another
  was there; a refused `sendMessage` has asked for a connection.

### EchoService and EchoSystem

`EchoService` is what a client may expect: requests are served once each and
answered once each, in the order of its calls, until its loop stands still
(`Stall`). `EchoSystem` maps onto it by its own logs `asked`, `served` and
`answered`, and `ordered[c]` is `~stalled[c]`.

| Action | Code |
|---|---|
| `Connect`, `Close` | `onConnection` (`ConnectionHandler.cpp:90-106`) with `cleanupConnection` |
| `Ask`, `SendInLoop` | `sendTestMessage` → `sendReliableMessage` on the sender thread; muduo leaves the write to the loop |
| `Scan` | `onTimeout` → `checkTimeoutMessages` (`ReliableMsgManager.cpp:262-349`) |
| `OnMessage` | `onMessage` as far as `parser()`: whole frames are taken off the wire, or the decoder dies |
| `Dispatch` | the loop that pops `mMsgQ` (39-66): `processDataMessage`, the batch acknowledgement, `handleMessage`, the echo, or `messageCallback_` |
| `Quit` | the quit queued by `stop()` and by the signal handler |

What is abstracted, and where it is shown in detail:

- A frame travels whole. A read may end after a frame, inside a header or
  inside a body (`Cuts`); what that does to a decoder is what `FrameDecoder`
  says and `StreamDecoder` implements: a null body, a body cut off its header,
  and two connections that meet inside a header each kill it for good
  (`decoder[p] = "dead"`).
- A scan may find any set of messages timed out and meets them in any order
  (`unordered_map`); when it leaves a connection without entries it may crash
  (`scan_iterator`). A message times out at a client before its
  first copy has been written only if the loop stands still for a second: such a
  client is `stalled`, and with `Stalls` = `FALSE` there is none.
- `next[p]` does not wrap: the wrap of the 32-bit number after 2^32 sends, and
  what it does to the suppression of duplicates, are in `ReliableMsgManager`.
- `sendReliableMessage` is one step; the race between its test and its lock is
  in `ReliableMsgManager`.
- A client has one connection; its successive connections are in
  `MyProtoClient`.
- The error reply of `handleMessage` is a reply like the echo. A type 1 message
  of a test client does not exist, and acknowledgements never get past a
  decoder, so `processAckMessage` has no action here.

## 3. Runs

| Run | Instance | Shows |
|---|---|---|
| `decoder` | two connections, five stream shapes for one and two for the other, reads cut anywhere and interleaved anyhow; 924 538 states | `TypeOK`, `InOrderPrefix`, `Complete`, `OobNeedsBadCrc`, `FailureHasCause`, `FailureIsPermanent`, `SuspensionIsFatal`, `FrameByFrame` |
| `manager` | two connections; either two sender threads and up to three sends (the third on the only connection), `MaxRetry` = 3, or four messages from each peer; numbers modulo 3; 272 834 states, with fairness | `TypeOK`, `RetryBudget`, `OnlyRacingSendsRemain`, `HandledOnceInOrder`, `NothingSkipped`, `GiveUpOnlyExhausted`, `AcksOnlyByClock`, `PendingDrains` |
| `pool` | three workers, four tasks, two starts; 14 445 states, with fairness | `TypeOK`, `TakenOnceInOrder`, `NoneSleepsOverWork`, `QuietAfterStop`, `NoneSleepsThroughStop`, `TaskIsTaken`, `StopReturns` |
| `client` | three connections, two functors of the application; 72 642 states | `TypeOK`, `TimerOnlyAfterOverlap`, `SecondNeedsSend`, `FaultHasCause` |
| `system` | either one client with two requests, of a registered and an unregistered service in either order, and a loop that may stand still, or two clients on one server with one request each; 205 478 states, with fairness | `TypeOK`, `NoAnswerArrives`, `NoneLost`, `Implements`, `Served` |
| `codec` | 14 messages, both byte orders at both ends, 21 masks on every pair of bytes; 114 808 states | `CrcIsRemainder`, `AcceptedAsSent` |
| `decoder_split` | one connection, two valid frames | violates `GoodStreamNeverFails` |
| `acked_pending` | one connection, one message | violates `AckedNotPending` |
| `scan_iterator` | two connections, `MaxRetry` = 1 | violates `ScanSurvives` |
| `batch_ack` | one connection, threshold 2 | violates `FewUnacked` |
| `pool_stop` | one worker, two tasks, with fairness | violates `StopExecutesAll` |
| `client_loss` | two connections, an application that queues nothing in the loop, with fairness | violates `LossIsRepaired` |

Every property of a passing run comes with a variant of one definition (the
operators whose comment says *Variant of*), which is that definition with a
plausible bug; with the variant in its place TLC finds the property violated.
No specification uses these operators.

### Bounds, and why they are enough

- `HeadSize` = 2 is the least size at which a read can end inside a header.
  Bodies are 1 byte (no read ends inside) or 4 (a read can); 4 is more than a
  header plus a body of 1, so a body may be mistaken for a frame. `MaxBody` = 2
  lets a header spelled by stray bytes announce nothing, less than a body and
  more than one. The shapes put each kind of frame next to a good one. Streams
  end, so re-fed bytes do not make the state space infinite.
- `manager`: two threads can both stand between the test of the connection and
  the lock. `SeqMod` = 3: the third send is numbered 0 when its two predecessors
  have used up the others, and `MaxPeer` = 4 messages of a peer go round.
  `MaxRetry` = 3 is the code's. `Timeout` = 0 keeps what the scan can tell apart:
  expired or not. `AckGap` = 1 leaves room for messages inside the interval.
- Sending and receiving share only the state of the connection: no send reads
  what a receive writes. `MCSpec` of `MCReliableMsgManager` therefore lets a
  behaviour do only one of them, and leaves a third send to a process that has
  one connection. These bounds, and those of `MCEchoSystem`, are conjuncts of the
  next-state relation that no action under fairness can leave; the theorems do
  not have them.
- `pool` has more tasks than workers and more than one worker, so that a task
  can be added while some sleep and others are between two tests; two starts
  let a pool begin with tasks of its first life. `client` has three connections,
  so that one can be lost, its successor overlap with another, and that one be
  lost too; the application queues a call while fewer than two functors wait,
  and muduo its `"reset"` at any time. `client_loss` has none of them
  (`MaxFunctors` = 0): the test program neither stops the client before its end
  nor calls `sendMessage` while it is not connected (`client_main.cpp:12-16`).
- `system` has `MaxRetry` = 1: each message is written up to twice, and the
  second time in any order. One client alone needs two requests for them to
  overtake each other; they are of different services, as no reply, the first or
  the second, gets past the client's dead decoder. Two clients need one each to
  meet in the shared decoder and manager; the first one connects and asks first
  (they are interchangeable), and only its request is written again. The
  theorems of `EchoSystemProofs` lift the number of clients, requests and
  retries.
- `codec`: fields at 0, at single bits and at the bounds of their widths, every
  single bit damaged, whole bytes, and bursts over two bytes; one body for each
  rule of `validateJsonContent`, and one a byte longer than `MaxSize` allows. The
  theorems of `CodecProofs` lift all of these.
- `CHECK_DEADLOCK FALSE`: a peer's stream ends, a process whose connections
  are closed for good, a stopped pool, a client with a fault and a decoded
  frame have nothing to do.

### Fairness

`FairSpec` asks for weak fairness of `Tick` (time passes), of `CheckTimeout`
(`runEvery` of the client every 0.5 s, `MyProtoClient.cpp:33`, and of the server
every 2 s) and of each `CleanupConnection` (muduo calls the connection callback
in the handler that changed the state). Nothing is asked of sender threads,
peers or the network. `PendingDrains` excepts a scan that crashes.

`ThreadPool!FairSpec`: the scheduler runs every thread that can go on, the mutex
reaches who asks for it, and a task returns. Nobody has to add a task, or to
call `start` or `stop`.

`MyProtoClient!FairSpec` serves `client_loss` only: the loop runs what is due, a
call of `sendMessage` comes to its end, and an attempt to connect succeeds in
the end if attempts are made again and again (strong, as refusals come between):
the server is there. Nobody has to call `sendMessage`: `sendTestMessage` returns
without doing so while the client is not connected (`client_main.cpp:12-16`), and
its loop ends after five turns (59-62).

`EchoSystem!ServerSpec`: the server's loop accepts, reads and dispatches, and a
client's loop writes what is queued (`EventLoop::loop`). Closes, scans, quits
and the clients' reads are left free; `Served` excepts a lost connection, a dead
process and a dead decoder of the server.

## 4. What the runs found

- **A body in a later read than its header kills the decoder**
  (`decoder_split`). `myproto.h:80` says the buffer caches all data not parsed
  yet. `SuspensionIsFatal` says what follows: nothing is queued any more, on
  any connection, unless a CRC check reads outside the decoder's memory.
- **A failure is permanent and shared.** `FailureIsPermanent`: after the first
  failure the shared decoder hands nothing on for any connection, past or
  future, unless a CRC check reads outside its memory. Every batch
  acknowledgement is such a failure for the peer.
- **Acknowledged messages are retransmitted all the same** (`acked_pending`):
  `processAckMessage` acts on type 2 only and is called with type 1 only.
- **The scan invalidates its own iterator** (`scan_iterator`) when the last
  message of a connection is given up. As acknowledgements have no effect, a
  process that keeps a connection open for some seconds after its last message
  gets there. (The test client disconnects two seconds after its last one.)
- **The count of unacknowledged messages never triggers** (`batch_ack`): it is
  compared after the value it is compared with has been raised. `AcksOnlyByClock`
  says what is left: an acknowledgement names a message that arrives more than
  the interval after the one before, so the rest of a burst is not acknowledged.

- **`stop()` does not wait for queued tasks** (`pool_stop`), as
  `ThreadPool.cc:39` says it does: a worker leaves its loop at the condition, and
  so takes at most the one task it was about to take. `TakenOnceInOrder` says
  that the rest stays queued, in order, for the next `start`.
- **The loss of a connection schedules no reconnection** (`client_loss`), as
  `MyProtoClient.cpp:73` says it does: the callback runs before `TcpClient` drops
  the connection, so `!client_.connection()` is false. The timer is armed only in
  a client that has had two connections at once (`TimerOnlyAfterOverlap`), and
  what brings a connection back is the attempt of the next `sendMessage`
  (`SecondNeedsSend`), which the test program does not call while it is not
  connected: there a lost connection never comes back.

Further disagreements of code and comment show in the modules without a run of
their own:

- `isConnected` reads `client_.connection()` twice; a loss in between is a null
  dereference. An attempt to connect that runs when the client is already
  connected, or connecting, makes a second connection or destroys the
  Connector's channel in use (`FaultHasCause`, `overlapped`).
- No echo ever reaches a client (`NoAnswerArrives`): the first thing the server
  writes on a connection is the acknowledgement of its first message, whose
  null body ends the client's decoder. `main.cpp:116` registers an echo service.
- After a standstill of the client's loop a message written again overtakes the
  first copies of earlier ones, and requests are served out of order
  (`Stall` of `EchoService`).

What holds is as informative: in spite of the above, what a decoder hands on is
an in-order prefix of what the peer sent (`InOrderPrefix`), no message is
written more than four times or dropped earlier while its connection lives, and
repetitions neither repeat nor lose a message (`HandledOnceInOrder`,
`NothingSkipped`). The pool loses no wake-up (`NoneSleepsOverWork`,
`NoneSleepsThroughStop`), and in the
composed system every request is served once and in order (`Implements`); none
is lost on its way while its connection and the shared decoder are intact
(`NoneLost`), and it is served in the end, unless something it depends on is
lost (`Served`).

## 5. Theorems

All are for arbitrary constants under the modules' named assumptions
(`SizesAssumption`, `StreamsAssumption`; `ConnAssumption`, `CountsAssumption`,
`ServerAssumption`, `BoundsAssumption`; `MessagesAssumption`, `WireAssumption`).
Every safety property of a passing run is among them.

| Theorem | Property | Argument |
|---|---|---|
| `StreamDecoderProofs!TypeCorrect` | `TypeOK` | `TypeInv` adds what a call may rely on between its steps: `off` is 0 in state INIT, at most `Size` otherwise, and BODY lives within a call |
| `StreamDecoderProofs!FailurePermanent` | `FailureIsPermanent` | `FailInv`: after a failure the front of `mCurReserved` is a header already refused, or a body that is all there but would be read with its CRC window before the vector (`Stuck`). New bytes go behind; the front never changes |
| `StreamDecoderProofs!SuspensionFatal` | `SuspensionIsFatal` | `SuspInv`: the front cell stays a header byte and the state stays HEAD, so every later body is refused as JSON |
| `DeliveryProofs!DeliveredInOrder` | `InOrderPrefix` | `OutInv`, see below |
| `DeliveryProofs!NoneHeldBack` | `Complete` | from `Aligned`: everything before the front is accounted for, and the cells are less than a frame |
| `DeliveryProofs!FailureCaused` | `FailureHasCause` | an aligned decoder has a whole header in front, so only the content of its frame can fail (`FirstFailure`) |
| `DeliveryProofs!OutOfBoundsCaused` | `OobNeedsBadCrc` | `CauseInv`: without damage and interleaving a decoder that has failed stands at a header it refuses again, or at a body that is refused as JSON before its CRC is looked at |
| `DeliveryProofs!DecodesFrameByFrame` | `FrameByFrame` | one lemma per abstract action, see below |
| `ReliableMsgManagerProofs!TypeCorrect` | `TypeOK` | inductive as it stands; the arithmetic is in `InWidth`, `OlderType`, `ScannedType` |
| `ReliableMsgManagerProofs!HandledOnce` | `HandledOnceInOrder` | `ReceiveInv`: what was handled has arrived, and until the cleanup the number of every arrival is in `processed`; so a number that is not there belongs to a message that arrives for the first time and is higher than all before it |
| `ReliableMsgManagerProofs!AckedByClock` | `AcksOnlyByClock` | `AckInv`: `lastAckedSequence_` is 0 or the number of a message that has arrived; a new one is higher (`ReceiveInv`) and raises it first, so the distance is 0 and only the clock is left (`NewIsHighest`) |
| `ReliableMsgManagerProofs!NoneSkipped` | `NothingSkipped` | `ReceiveInv` with `ModInjective`: below `SeqMod` a number has one origin |
| `RetransmissionProofs!RetryBounded` | `RetryBudget` | `SendInv`: the counter stands at a number no message has had (`CounterInv`, `Unused`), no two entries of a table share one, and every entry agrees with what was written (`EntryInv`) |
| `RetransmissionProofs!GivenUpExhausted` | `GiveUpOnlyExhausted` | from `SendInv`: a connection that is up and has entries is in `connectionMap`, so a scan reaches it, and it drops an entry only at `MaxRetry` |
| `RetransmissionProofs!OnlyRacingRemain` | `OnlyRacingSendsRemain` | from `SendInv`: what is stored for a closed connection has a number of its own and is never written; the first scan that finds it expired removes its `connectionMap` entry as well (this needs `MaxRetry` > 0) |
| `ThreadPoolProofs!TypeCorrect` | `TypeOK` | `ControlInv` adds which threads exist at each place of `start` and `stop` |
| `ThreadPoolProofs!TakenOnce` | `TakenOnceInOrder` | inductive with the types: a task moves from the front of one sequence to the end of the other |
| `ThreadPoolProofs!NoLostWakeUp` | `NoneSleepsOverWork` | a woken worker is a taker, and one that takes a task has taken it off the queue, so the count of takers never falls below the tasks while somebody sleeps |
| `ThreadPoolProofs!Quiet` | `QuietAfterStop` | from `ControlInv`: `stop` joins in order, and only what has returned |
| `ThreadPoolProofs!StopWakesAll` | `NoneSleepsThroughStop` | inductive with `ControlInv`: after `notify_all` `running_` is false, and a worker looks at it under the lock under which it goes to sleep |
| `MyProtoClientProofs!TypeCorrect` | `TypeOK` | `ConnInv` ties the loop's callback to the state of its connection |
| `MyProtoClientProofs!NoReconnectTimer` | `TimerOnlyAfterOverlap` | from `ConnInv`: without an overlap the only connection not closed is `connection_`, so it is the subject of every close |
| `MyProtoClientProofs!OneUnlessSending` | `SecondNeedsSend` | `OneInv`: until `sendMessage` asks for a connection no start is queued, and the Connector makes one connection in its life |
| `MyProtoClientProofs!FaultsHaveCauses` | `FaultHasCause` | `OneInv`, and `LossInv`: what the loop has dropped under the application thread was closed |
| `EchoSystemProofs!TypeCorrect` | `TypeOK` | `TypeInv` adds that tables are finite and that no null body waits in `mMsgQ` |
| `EchoSystemProofs!NoAnswer` | `NoAnswerArrives` | `Heralded`: once a connection is being acknowledged, its first unread frame is an acknowledgement, or the client's decoder or end is gone; so the client's `mMsgQ` stays empty |
| `EchoSystemProofs!Implementation` | `Implements` | see below |
| `EchoSystemProofs!NoRequestLost` | `NoneLost` | `OnWay`, see below |
| `CodecProofs!CrcComputesRemainder` | `CrcIsRemainder` | `CrcInv`: one bit of the division (`ShiftOnce`) keeps the equation, so eight do, and a byte added at the end keeps it (`DividendStep`) |
| `CodecProofs!AcceptsWhatWasSent` | `AcceptedAsSent` | `FrameInv`, see below |

The delivery of the decoder rests on `LiveInv`. Until its first failure
`mCurReserved` is `Aligned`: its cells are the last bytes of the connection that
ran last and start where a frame starts, and all bytes before, and all of the
other connections, are accounted for by what is handed on or queued. Or it is
`Broken`: bytes of another connection stand inside the front frame, and no CRC
check on that front succeeds. A frame that is pushed was therefore in front as
a whole, in an aligned decoder, and is the next one of its connection. That the
bytes after a frame's first are those of the same frame is the one induction
(`FrontRun`), by the least cell where it fails.

That a `StreamDecoder` is a `FrameDecoder` needs one fact more about a decoder
that has not failed: a call that finds it suspended or broken has nothing in
`mMsgQ` and queues nothing (`CallInv`). In an aligned decoder the cells left when
a call ends are less than the front frame, so they tell where the arrived bytes
end (`FrontIsCut`), and the frames queued are the whole ones not handed on yet
(`QueueLists`): a call that waits for a header or a body is `Accept`
(`HeadIncompleteAccepts`, `BodyIncompleteAccepts`), one that fails is `Refuse`
(`FramesRefuse`), a new read breaks the front frame exactly if another connection
has begun it (`ReadBreaks`), and the steps in between do not show.

The refinement of `EchoService` rests on `SysInv`, three facts about each
client. `Carry`: whatever is pending, queued, on the wire or in `mMsgQ` carries
the request of its number. `ServedOnce`: while the server has the connection,
its `processedSequences_` are the numbers of the requests served. `Sorted`:
until the loop stands still, each message on its way is preceded by all lower
numbers (`Preceded`), and as long as nothing is lost, each number given out is
somewhere on the way; a message written again is therefore one whose
predecessors are before it. `Dispatch` of a number not seen is then
`EchoService!Serve`, `Ask` is `Ask`, a scan that finds an unwritten message
timed out is `Stall`, and every other step stutters. `Answer` is never taken
(`NoAnswer`).

That nothing vanishes does not need the loop to run on time. `OnWay`: while the
connection is intact, every number given out is in the queue of the loop, on the
wire, in `mMsgQ` or processed (`Way`). A step of another client, or of the
decoder all clients share, takes nothing off the way of this one without
killing the decoder, and each of its own steps moves the front of one sequence
to the end of the next (`NumsTail`, `NumsConcat`, `NumsCut`). With `Carry` and
`ServedOnce` the numbers are the requests asked and served. `NoneLost` is the
safety half of `Served`; that what is on its way gets there is fairness, and
TLC's.

What the codec accepts rests on `FrameInv`, which says of each stage what is on
the wire: the frame sealed with the remainder of what `Encode` wrote, and after
`Damage` that frame with two neighbours changed. `CrcIsRemainder` holds at both
ends. Undamaged, both ends divide the same bytes, and a remainder is determined
by what is divided (`RemainderUnique`: two of them would differ by a multiple of
the generator, and such a multiple spans more than 16 places, `MultipleSpan`).
Damaged outside the CRC field, the two dividends differ by the burst, which spans
at most 16 places and is therefore no multiple (`BurstChangesCRC`); damaged in the
field, the stored CRC is not the one computed. That the fields come back is
arithmetic on places (`SignedFrame`, `ShortOf`, `LongOf`).

Model-checked only: `PendingDrains`, `TaskIsTaken`, `StopReturns` and `Served`,
which are liveness properties and out of the
prover's reach.

## 6. Not modelled

- The round-trip statistics in `processAckMessage` (computed for type 2 only,
  which its caller never passes) and `sendAck` (no caller).
- The client's destructor: the one program that has a client keeps it until its
  loop has ended. The length of the reconnect interval
  (`MyProtoClient.cpp:118-127`): time is not measured there.
- A task of the pool that calls `stop()` and so joins itself: no task does.
- The signal handler's use of a mutex inside muduo: outside this repository.
- Saving messages to files (`main.cpp:28-77`), the logger, printing: output
  without protocol state.
- `json.hpp` (vendored, 21 045 lines), `shejimoshi/`, `build/` and `output/`
  (generated). They are nine tenths of the repository's lines; of the some 1 800
  hand-written ones the modules cover what keeps state.

## 7. Plan

Done: the pool, the client, the composed system with its abstract specification
and the refinement, the codec, the theorems about what the decoder hands on,
and its refinement of the decoder of frames.
Left: a client with successive connections in `EchoSystem`, whose decoder
survives its connection.
