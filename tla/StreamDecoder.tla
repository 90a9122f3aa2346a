--------------------------- MODULE StreamDecoder ---------------------------
(***************************************************************************)
(* MyProtoDecode::parser and the part of ConnectionHandler::onMessage that *)
(* feeds it.  A ConnectionHandler owns ONE decoder, and all connections of *)
(* the server (and all successive connections of a client) share it.       *)
(*                                                                         *)
(* A byte on the wire is the frame it belongs to and its place in it, so   *)
(* the model knows which bytes make a whole frame without spelling out     *)
(* any.  The vector mCurReserved only grows at its end and is only erased  *)
(* at its front: it is the suffix of `fed', the log of every byte pushed   *)
(* so far, that starts after the `base' bytes erased so far.               *)
(***************************************************************************)
EXTENDS Naturals, Sequences

CONSTANTS
  Conns,      \* connections, concurrent or successive, served by one handler
  HeadSize,   \* MY_PROTO_HEAD_SIZE (14)
  MaxBody,    \* body lengths a header spelled by stray bytes may announce
  Streams     \* Streams[c]: what the peer of c may put on the wire

\* What a frame's content does to the parser.
\*  data     : a body that validateJsonContent accepts and a matching CRC
\*  nullBody : the body is JSON null, as in every acknowledgement that
\*             sendAck and sendBatchAck build (they set no body)
\*  oversize : the length field exceeds MY_PROTO_MAX_SIZE
\*  badCrc   : an acceptable body, but the CRC field does not match
Kinds == {"data", "nullBody", "oversize", "badCrc"}

Frame == [conn: Conns, num: Nat \ {0}, kind: Kinds, body: Nat \ {0}]
Byte  == [frame: Frame, at: Nat \ {0}]

LastAt(f) == HeadSize + f.body

\* y may stand after x in a stream: the next byte of the same frame, or the
\* first byte of the next frame.
Follows(x, y) ==
  \/ /\ x.at < LastAt(x.frame)
     /\ y = [frame |-> x.frame, at |-> x.at + 1]
  \/ /\ x.at = LastAt(x.frame)
     /\ y.at = 1
     /\ y.frame.conn = x.frame.conn
     /\ y.frame.num = x.frame.num + 1

WellFormed(c, s) ==
  /\ s \in Seq(Byte)
  /\ \A i \in 1 .. Len(s) : /\ s[i].frame.conn = c
                            /\ s[i].at <= LastAt(s[i].frame)
  /\ s # <<>> => s[1].frame.num = 1 /\ s[1].at = 1
  /\ \A i \in 1 .. Len(s) - 1 : Follows(s[i], s[i + 1])

ASSUME SizesAssumption == HeadSize \in Nat \ {0} /\ MaxBody \in Nat
ASSUME StreamsAssumption ==
  \A c \in Conns : \A s \in Streams[c] : WellFormed(c, s)

VARIABLES
  stream,     \* stream[c]: the bytes the peer of c sends, in order
  arrived,    \* how many of them TCP has put into c's muduo Buffer
  retrieved,  \* how many of them onMessage has retrieved from that Buffer
  fed,        \* every byte ever pushed into mCurReserved
  base,       \* bytes erased from the front of mCurReserved
  status,     \* mCurParserStatus
  curMsg,     \* mCurMsg: the frame its header came from, the body length
  off,        \* curData - &mCurReserved[0], equal to parserLen
  msgQ,       \* mMsgQ
  pc,         \* the loop thread: "idle", in "parser", or in "drain"
  conn,       \* the connection whose onMessage is running (or ran last)
  delivered,  \* delivered[c]: messages handed on under connection c
  failed,     \* parser() has returned false at least once
  suspended,  \* parser() has returned true in state HEAD at least once
  oob         \* a CRC check read before the first byte of mCurReserved

wire     == <<stream, arrived, retrieved>>
decoder  == <<fed, base, status, curMsg, off, msgQ>>
control  == <<pc, conn>>
history  == <<failed, suspended, oob>>
vars     == <<wire, decoder, control, delivered, history>>

\* The header fields when they were not read from one frame's header, and
\* mCurMsg when the header read last was refused.
NoFrame == [conn |-> "none"]
Refused == [frame |-> NoFrame, body |-> MaxBody + 1]

-----------------------------------------------------------------------------
(* What the parser sees *)

Size    == Len(fed) - base          \* mCurReserved.size()
Cell(i) == fed[base + i]            \* mCurReserved[i - 1]

\* Cells p+1 .. p+n hold, in order, the bytes k+1 .. k+n of frame f.
IsRun(p, n, f, k) ==
  \A i \in 1 .. n : Cell(p + i) = [frame |-> f, at |-> k + i]

HeadIntact == IsRun(0, HeadSize, Cell(1).frame, 0)

\* The headers the first HeadSize cells can spell; {} when every reading is
\* refused.  A run of one frame's header bytes spells that header.  A JSON
\* character is never a supported version (0 or 1).  Any other mixture spells
\* arbitrary fields, and may be refused; the header in front stays there
\* after it is refused, and reads the same when it is tried again.
Headers ==
  IF curMsg = Refused
  THEN {}
  ELSE IF HeadIntact
  THEN IF Cell(1).frame.kind = "oversize"
       THEN {}
       ELSE {[frame |-> Cell(1).frame, body |-> Cell(1).frame.body]}
  ELSE IF Cell(1).at > HeadSize
       THEN {}
       ELSE {[frame |-> NoFrame, body |-> b] : b \in 0 .. MaxBody}

HeadMayBeRefused ==
  \/ Headers = {}
  \/ ~HeadIntact

\* json::parse and validateJsonContent on the curMsg.body cells from off:
\* an empty body becomes {} and is refused as empty, header bytes are not
\* JSON text, a whole body is judged by its content, other pieces of bodies
\* may or may not parse.
JsonVerdicts ==
  LET f == Cell(off + 1).frame
  IN  IF curMsg.body = 0 \/ Cell(off + 1).at <= HeadSize
      THEN {FALSE}
      ELSE IF f.body = curMsg.body /\ IsRun(off, f.body, f, HeadSize)
           THEN {f.kind # "nullBody"}
           ELSE BOOLEAN

\* The CRC window starts HeadSize bytes before curData.  With off = 0 that is
\* before the first byte of the vector, and the outcome is undefined.
ReadsBeforeBuffer == off = 0

\* Variant of CrcVerdicts: the check is skipped.
CrcSkipped == {TRUE}

CrcVerdicts ==
  IF ReadsBeforeBuffer
  THEN BOOLEAN
  ELSE LET f == Cell(1).frame
       IN  {/\ f.body = curMsg.body
            /\ IsRun(0, HeadSize + f.body, f, 0)
            /\ f.kind # "badCrc"}

-----------------------------------------------------------------------------
(* onMessage and parser, one action per way through a step *)

Init ==
  /\ stream \in [Conns -> UNION {Streams[c] : c \in Conns}]
  /\ \A c \in Conns : stream[c] \in Streams[c]
  /\ arrived = [c \in Conns |-> 0]
  /\ retrieved = [c \in Conns |-> 0]
  /\ fed = <<>>
  /\ base = 0
  /\ status = "INIT"
  /\ curMsg = [frame |-> NoFrame, body |-> 0]
  /\ off = 0
  /\ msgQ = <<>>
  /\ pc = "idle"
  /\ conn \in Conns
  /\ delivered = [c \in Conns |-> <<>>]
  /\ failed = FALSE
  /\ suspended = FALSE
  /\ oob = FALSE

\* n more bytes arrive on c; muduo appends them to c's Buffer and calls
\* onMessage, which hands the WHOLE buffer to parser(): bytes that an earlier
\* call left unretrieved are pushed again.
OnMessage(c, n) ==
  /\ pc = "idle"
  /\ arrived[c] + n <= Len(stream[c])
  /\ arrived' = [arrived EXCEPT ![c] = @ + n]
  /\ fed' = fed \o SubSeq(stream[c], retrieved[c] + 1, arrived[c] + n)
  /\ off' = 0
  /\ pc' = "parser"
  /\ conn' = c
  /\ UNCHANGED <<stream, retrieved, base, status, curMsg, msgQ, delivered,
                 history>>

\* parser() returns true: the buffer is retrieved and the queue is drained.
ReturnTrue ==
  /\ retrieved' = [retrieved EXCEPT ![conn] = arrived[conn]]
  /\ pc' = "drain"
  /\ UNCHANGED <<stream, arrived, conn, delivered, failed>>

\* Variants of ReturnFalse: the queue is drained, or the buffer is retrieved,
\* although parsing failed.
DrainedOnFailure ==
  /\ base' = base + off
  /\ failed' = TRUE
  /\ pc' = "drain"
  /\ UNCHANGED <<wire, fed, conn, delivered, suspended>>

RetrievedOnFailure ==
  /\ base' = base + off
  /\ failed' = TRUE
  /\ retrieved' = [retrieved EXCEPT ![conn] = arrived[conn]]
  /\ pc' = "idle"
  /\ UNCHANGED <<stream, arrived, fed, conn, delivered, suspended>>

\* parser() returns false: parserLen cells are erased, onMessage leaves its
\* loop without retrieving the buffer and without draining the queue.
ReturnFalse ==
  /\ base' = base + off
  /\ failed' = TRUE
  /\ pc' = "idle"
  /\ UNCHANGED <<wire, fed, conn, delivered, suspended>>

\* The loop ends on an empty buffer, or breaks on less than a header.
HeadIncomplete ==
  /\ pc = "parser" /\ status = "INIT"
  /\ Size < HeadSize
  /\ ReturnTrue
  /\ UNCHANGED <<decoder, suspended, oob>>

HeadRefused ==
  /\ pc = "parser" /\ status = "INIT"
  /\ Size >= HeadSize
  /\ HeadMayBeRefused
  /\ curMsg' = Refused
  /\ ReturnFalse
  /\ UNCHANGED <<status, off, msgQ, oob>>

HeadParsed ==
  /\ pc = "parser" /\ status = "INIT"
  /\ Size >= HeadSize
  /\ curMsg' \in Headers
  /\ off' = HeadSize
  /\ status' = "HEAD"
  /\ UNCHANGED <<wire, fed, base, msgQ, control, delivered, history>>

\* Variants of BodyIncomplete: the parser goes back to INIT, or it erases the
\* header it has parsed.
BackToInit ==
  /\ pc = "parser" /\ status = "HEAD"
  /\ Size - off < curMsg.body
  /\ ReturnTrue
  /\ status' = "INIT"
  /\ suspended' = TRUE
  /\ UNCHANGED <<fed, base, curMsg, off, msgQ, oob>>

HeaderErased ==
  /\ pc = "parser" /\ status = "HEAD"
  /\ Size - off < curMsg.body
  /\ ReturnTrue
  /\ base' = base + off
  /\ suspended' = TRUE
  /\ UNCHANGED <<fed, status, curMsg, off, msgQ, oob>>

\* Not enough cells for the body: return true and stay in HEAD.  The header
\* bytes stay in front of mCurReserved, and the next call starts with off = 0.
BodyIncomplete ==
  /\ pc = "parser" /\ status = "HEAD"
  /\ Size - off < curMsg.body
  /\ ReturnTrue
  /\ suspended' = TRUE
  /\ UNCHANGED <<decoder, oob>>

BodyRefused ==
  /\ pc = "parser" /\ status = "HEAD"
  /\ Size - off >= curMsg.body
  /\ \/ /\ FALSE \in JsonVerdicts
        /\ oob' = oob
     \/ /\ TRUE \in JsonVerdicts
        /\ FALSE \in CrcVerdicts
        /\ oob' = (oob \/ ReadsBeforeBuffer)
  /\ ReturnFalse
  /\ UNCHANGED <<status, curMsg, off, msgQ>>

BodyParsed ==
  /\ pc = "parser" /\ status = "HEAD"
  /\ Size - off >= curMsg.body
  /\ TRUE \in JsonVerdicts
  /\ TRUE \in CrcVerdicts
  /\ oob' = (oob \/ ReadsBeforeBuffer)
  /\ status' = "BODY"
  /\ UNCHANGED <<wire, fed, base, curMsg, off, msgQ, control, delivered,
                 failed, suspended>>

\* Variants of PushMsg: the size is not checked before erasing, or only the
\* body is erased.
ErasedUnchecked ==
  /\ pc = "parser" /\ status = "BODY"
  /\ msgQ' = Append(msgQ, curMsg.frame)
  /\ status' = "INIT"
  /\ base' = base + HeadSize + curMsg.body
  /\ off' = 0
  /\ UNCHANGED <<wire, fed, curMsg, control, delivered, history>>

OnlyBodyErased ==
  /\ pc = "parser" /\ status = "BODY"
  /\ msgQ' = Append(msgQ, curMsg.frame)
  /\ status' = "INIT"
  /\ base' = base + curMsg.body
  /\ off' = 0
  /\ UNCHANGED <<wire, fed, curMsg, control, delivered, history>>

\* The message is queued, its cells are erased (if there are that many) and
\* the loop starts over at the front of what is left.
PushMsg ==
  /\ pc = "parser" /\ status = "BODY"
  /\ msgQ' = Append(msgQ, curMsg.frame)
  /\ status' = "INIT"
  /\ base' = IF HeadSize + curMsg.body <= Size
             THEN base + HeadSize + curMsg.body
             ELSE base
  /\ off' = 0
  /\ UNCHANGED <<wire, fed, curMsg, control, delivered, history>>

\* onMessage pops a message and dispatches it under the running connection.
Dispatch ==
  /\ pc = "drain"
  /\ msgQ # <<>>
  /\ msgQ' = Tail(msgQ)
  /\ delivered' = [delivered EXCEPT ![conn] = Append(@, Head(msgQ))]
  /\ UNCHANGED <<wire, fed, base, status, curMsg, off, control, history>>

\* Variant of DrainDone: one message at most is taken from the queue.
DrainedOnce ==
  /\ pc = "drain"
  /\ pc' = "idle"
  /\ UNCHANGED <<wire, decoder, conn, delivered, history>>

DrainDone ==
  /\ pc = "drain"
  /\ msgQ = <<>>
  /\ pc' = "idle"
  /\ UNCHANGED <<wire, decoder, conn, delivered, history>>

Next ==
  \/ \E c \in Conns : \E n \in 1 .. Len(stream[c]) : OnMessage(c, n)
  \/ HeadIncomplete \/ HeadRefused \/ HeadParsed
  \/ BodyIncomplete \/ BodyRefused \/ BodyParsed
  \/ PushMsg \/ Dispatch \/ DrainDone

Spec == Init /\ [][Next]_vars

-----------------------------------------------------------------------------
(* Properties *)

\* Every variable stays within its type, and the erased bytes were fed.
TypeOK ==
  /\ DOMAIN stream = Conns /\ \A c \in Conns : stream[c] \in Streams[c]
  /\ arrived \in [Conns -> Nat] /\ retrieved \in [Conns -> Nat]
  /\ \A c \in Conns : /\ retrieved[c] <= arrived[c]
                       /\ arrived[c] <= Len(stream[c])
  /\ fed \in Seq(Byte)
  /\ base \in 0 .. Len(fed)
  /\ status \in {"INIT", "HEAD", "BODY"}
  /\ curMsg \in [frame : Frame \cup {NoFrame}, body : Nat]
  /\ off \in {0, HeadSize}
  /\ msgQ \in Seq(Frame \cup {NoFrame})
  /\ pc \in {"idle", "parser", "drain"}
  /\ conn \in Conns
  /\ delivered \in [Conns -> Seq(Frame \cup {NoFrame})]
  /\ failed \in BOOLEAN /\ suspended \in BOOLEAN /\ oob \in BOOLEAN

\* The bytes of two connections meet in mCurReserved inside a frame.
Seam(x, y) ==
  \/ y = [frame |-> x.frame, at |-> x.at + 1]
  \/ x.at = LastAt(x.frame) /\ y.at = 1

Interleaved == \E i \in 1 .. Len(fed) - 1 : ~Seam(fed[i], fed[i + 1])

\* However the byte streams of the connections are cut up and interleaved in
\* the one decoder, what is handed on under a connection is what its own peer
\* sent, whole, valid, in order, without a gap or a repetition, until a CRC
\* check reads memory the decoder does not own.
InOrderPrefix ==
  ~oob => \A c \in Conns : \A i \in DOMAIN delivered[c] :
            LET f == delivered[c][i]
            IN  /\ f \in Frame
                /\ f.conn = c /\ f.num = i /\ f.kind = "data"
                /\ \E j \in 1 .. arrived[c] :
                     stream[c][j] = [frame |-> f, at |-> LastAt(f)]

\* Between two calls of onMessage, a decoder that never failed holds back
\* nothing: every frame whose last byte arrived has been handed on, unless the
\* connections interleaved inside a frame.
Complete ==
  pc = "idle" /\ ~failed /\ ~Interleaved =>
    \A c \in Conns : \A j \in 1 .. arrived[c] :
      stream[c][j].at = LastAt(stream[c][j].frame) =>
        \E i \in DOMAIN delivered[c] : delivered[c][i] = stream[c][j].frame

\* parser() first fails only on a frame it must refuse, on a body whose header
\* an earlier call parsed, or after two connections interleaved in a frame.
FailureHasCause ==
  [][~failed /\ failed' => \/ Cell(1).frame.kind # "data"
                          \/ (status = "HEAD" /\ off = 0)
                          \/ Interleaved]_vars

\* After the first failure nothing is retrieved and nothing handed on any
\* more, under any connection, short of an undefined CRC check.
FailureIsPermanent ==
  [][failed /\ ~oob' => UNCHANGED <<retrieved, delivered>>]_vars

\* Once a call has returned between a header and its body, no frame is queued
\* any more, under any connection, short of an undefined CRC check.
SuspensionIsFatal ==
  [][suspended /\ ~oob' => Len(msgQ') <= Len(msgQ)]_vars

\* The CRC check leaves the decoder's memory only after an earlier one failed:
\* on a frame with a wrong CRC, or on bytes of interleaved connections.
OobNeedsBadCrc ==
  oob => Interleaved \/ \E i \in DOMAIN fed : fed[i].frame.kind = "badCrc"

\* The frames of c that have arrived to their last byte, where what has arrived
\* ends, and whether it has begun a frame that must be refused.
Ended(b) == b.at = LastAt(b.frame)

Whole(c) ==
  {stream[c][j].frame : j \in {i \in 1 .. arrived[c] : Ended(stream[c][i])}}

CutAt(c) ==
  LET b == stream[c][arrived[c]]
  IN  IF arrived[c] = 0 \/ Ended(b) THEN "frame"
      ELSE IF b.at < HeadSize THEN "head" ELSE "body"

Unfit(c) == \E j \in 1 .. arrived[c] : stream[c][j].frame.kind # "data"

\* Bytes of another frame stand where the rest of the front frame should be.
Broken ==
  \E i \in 1 .. Size : /\ i <= LastAt(Cell(1).frame)
                       /\ Cell(i).frame # Cell(1).frame

\* The decoder is the one of module FrameDecoder: a call hands on every frame that
\* has arrived as a whole, or none at all; none if it fails, and none any more once
\* a call has failed or has suspended a frame, or two connections have met in one.
Frames == INSTANCE FrameDecoder WITH
  whole  <- [c \in Conns |-> Whole(c)],
  cut    <- [c \in Conns |-> CutAt(c)],
  unfit  <- [c \in Conns |-> Unfit(c)],
  queue  <- IF pc = "drain" THEN msgQ ELSE <<>>,
  handed <- delivered,
  dead   <- failed \/ suspended \/ Broken,
  astray <- oob

FrameByFrame == Frames!Spec

\* What myproto.h says of mCurReserved, that it caches all data not parsed yet,
\* for a peer that sends valid data frames on the only connection.
GoodStreamNeverFails ==
  (\A i \in DOMAIN fed : fed[i].frame.kind = "data") => ~failed

=============================================================================
