------------------------- MODULE StreamDecoderProofs -------------------------
(***************************************************************************)
(* Theorems about StreamDecoder, for any connections, header size, body    *)
(* bound and wire streams.                                                 *)
(***************************************************************************)
EXTENDS StreamDecoder, SequenceTheorems, TLAPS

-----------------------------------------------------------------------------
(* Type correctness *)

\* What a call of parser() may rely on between its steps.
InCall ==
  /\ status = "INIT" /\ pc = "parser" => off = 0
  /\ pc = "parser" /\ off = HeadSize => HeadSize <= Size
  /\ status = "BODY" => pc = "parser"

TypeInv == TypeOK /\ InCall

\* The streams are sequences of bytes.
LEMMA StreamType ==
  ASSUME NEW c \in Conns, NEW s \in Streams[c]
  PROVE  s \in Seq(Byte)
BY StreamsAssumption DEF WellFormed

\* A piece of a stream appended to the log leaves it a log of bytes, and the
\* bytes that were there stay where they were.
LEMMA FedGrows ==
  ASSUME NEW s \in Seq(Byte), NEW t \in Seq(Byte), NEW a \in Nat, NEW b \in Nat,
         b <= Len(t)
  PROVE  LET r == s \o SubSeq(t, a + 1, b)
         IN  /\ r \in Seq(Byte)
             /\ Len(r) >= Len(s)
             /\ \A i \in 1 .. Len(s) : r[i] = s[i]
<1> DEFINE u == SubSeq(t, a + 1, b)
<1>1. u \in Seq(Byte)
  <2>1. \A i \in (a + 1) .. b : t[i] \in Byte
    OBVIOUS
  <2> QED BY <2>1
<1> HIDE DEF u
<1>2. s \o u \in Seq(Byte) /\ Len(s \o u) = Len(s) + Len(u) /\ Len(u) \in Nat
  BY <1>1
<1>3. \A i \in 1 .. Len(s) : (s \o u)[i] = s[i]
  BY <1>1
<1> QED BY <1>2, <1>3 DEF u

\* A call of onMessage adds bytes behind those fed before.
LEMMA OnMessageFeeds ==
  ASSUME TypeOK, NEW c \in Conns, NEW n \in 1 .. Len(stream[c]), OnMessage(c, n)
  PROVE  /\ fed' \in Seq(Byte) /\ Len(fed') \in Nat /\ Len(fed') >= Len(fed)
         /\ \A i \in 1 .. Len(fed) : fed'[i] = fed[i]
<1>1. /\ fed \in Seq(Byte) /\ Len(fed) \in Nat
      /\ arrived \in [Conns -> Nat] /\ retrieved \in [Conns -> Nat]
  BY DEF TypeOK
<1>2. stream[c] \in Seq(Byte) /\ Len(stream[c]) \in Nat
  BY StreamType DEF TypeOK
<1>3. /\ arrived[c] + n \in Nat /\ arrived[c] + n <= Len(stream[c])
      /\ retrieved[c] \in Nat
  BY <1>1, <1>2 DEF OnMessage
<1> DEFINE r == fed \o SubSeq(stream[c], retrieved[c] + 1, arrived[c] + n)
<1>4. /\ r \in Seq(Byte) /\ Len(r) >= Len(fed)
      /\ \A i \in 1 .. Len(fed) : r[i] = fed[i]
  BY <1>1, <1>2, <1>3, FedGrows
<1>5. fed' = r
  BY DEF OnMessage
<1> HIDE DEF r
<1> QED BY <1>4, <1>5

\* A cell of mCurReserved is a byte.
LEMMA CellType ==
  ASSUME TypeOK, NEW i \in 1 .. Size
  PROVE  /\ Cell(i) \in Byte
         /\ Cell(i).frame \in Frame
         /\ Cell(i).frame.body \in Nat
         /\ Cell(i).at \in Nat
<1>1. base + i \in 1 .. Len(fed)
  BY DEF TypeOK, Size
<1>2. Cell(i) \in Byte
  BY <1>1 DEF TypeOK, Cell
<1> QED BY <1>2 DEF Byte, Frame

\* A header that is accepted comes from the frame in front of mCurReserved or
\* from no frame, and announces a natural number of body bytes.
LEMMA HeadersType ==
  ASSUME TypeOK, Size >= HeadSize
  PROVE  /\ Headers \subseteq [frame : Frame \cup {NoFrame}, body : Nat]
         /\ Headers # {} => Cell(1).at <= HeadSize
<1>1. 1 \in 1 .. Size
  BY SizesAssumption DEF TypeOK, Size
<1>2. Cell(1).frame \in Frame /\ Cell(1).frame.body \in Nat /\ Cell(1).at \in Nat
  BY <1>1, CellType
<1>3. HeadIntact => Cell(1).at <= HeadSize
  <2> SUFFICES ASSUME HeadIntact PROVE Cell(1).at <= HeadSize
    OBVIOUS
  <2>1. Cell(0 + 1) = [frame |-> Cell(1).frame, at |-> 0 + 1]
    <3>1. 1 \in 1 .. HeadSize
      BY SizesAssumption
    <3> QED BY <3>1 DEF HeadIntact, IsRun
  <2> QED BY <2>1, SizesAssumption
<1> QED BY <1>2, <1>3, SizesAssumption DEF Headers

LEMMA TypeInit == Init => TypeInv
<1> SUFFICES ASSUME Init PROVE TypeInv
  OBVIOUS
<1>1. \A c \in Conns : Len(stream[c]) \in Nat
  <2> TAKE c \in Conns
  <2>1. stream[c] \in Streams[c]
    BY DEF Init
  <2> QED BY <2>1, StreamType
<1>2. fed \in Seq(Byte) /\ Len(fed) = 0
  BY DEF Init
<1>3. <<>> \in Seq(Frame \cup {NoFrame})
  OBVIOUS
<1>4. delivered \in [Conns -> Seq(Frame \cup {NoFrame})]
  BY <1>3 DEF Init
<1>5. /\ arrived \in [Conns -> Nat] /\ retrieved \in [Conns -> Nat]
      /\ \A c \in Conns : /\ retrieved[c] <= arrived[c]
                          /\ arrived[c] <= Len(stream[c])
  BY <1>1 DEF Init
<1>6. curMsg \in [frame : Frame \cup {NoFrame}, body : Nat]
  BY DEF Init
<1>7. TypeOK
  <2>1. DOMAIN stream = Conns /\ \A c \in Conns : stream[c] \in Streams[c]
    BY DEF Init
  <2>2. base \in 0 .. Len(fed) /\ off \in {0, HeadSize}
    BY <1>2 DEF Init
  <2> QED BY <1>2, <1>3, <1>4, <1>5, <1>6, <2>1, <2>2 DEF Init, TypeOK
<1> QED BY <1>2, <1>7, SizesAssumption DEF Init, TypeInv, InCall, Size

LEMMA TypeNext == TypeInv /\ [Next]_vars => TypeInv'
<1> SUFFICES ASSUME TypeInv, [Next]_vars PROVE TypeInv'
  OBVIOUS
<1> USE SizesAssumption
<1>0. TypeOK /\ InCall
  BY DEF TypeInv
<1>1. ASSUME NEW c \in Conns, NEW n \in 1 .. Len(stream[c]), OnMessage(c, n)
      PROVE  TypeInv'
  <2>1. stream[c] \in Seq(Byte) /\ Len(stream[c]) \in Nat
    BY <1>0, StreamType DEF TypeOK
  <2>2. n \in Nat /\ arrived[c] \in Nat /\ retrieved[c] \in Nat
    BY <1>0, <2>1 DEF TypeOK
  <2>3. /\ fed \in Seq(Byte) /\ Len(fed) \in Nat /\ base \in 0 .. Len(fed)
        /\ arrived \in [Conns -> Nat] /\ retrieved \in [Conns -> Nat]
        /\ \A d \in Conns : /\ retrieved[d] <= arrived[d]
                            /\ arrived[d] <= Len(stream[d])
    BY <1>0 DEF TypeOK
  <2>4. fed' \in Seq(Byte) /\ Len(fed') \in Nat /\ Len(fed') >= Len(fed)
    BY <1>0, <1>1, OnMessageFeeds
  <2>5. base' \in 0 .. Len(fed')
    <3>1. base' = base
      BY <1>1 DEF OnMessage
    <3> QED BY <2>3, <2>4, <3>1
  <2>6. /\ arrived' \in [Conns -> Nat] /\ retrieved' \in [Conns -> Nat]
        /\ \A d \in Conns : /\ retrieved'[d] <= arrived'[d]
                            /\ arrived'[d] <= Len(stream'[d])
    <3>1. /\ arrived' = [arrived EXCEPT ![c] = @ + n]
          /\ stream' = stream /\ retrieved' = retrieved
          /\ arrived[c] + n <= Len(stream[c])
      BY <1>1 DEF OnMessage
    <3> QED BY <2>3, <2>2, <3>1
  <2>7. TypeOK'
    BY <1>0, <1>1, <2>4, <2>5, <2>6 DEF OnMessage, TypeOK, history
  <2>8. InCall'
    BY <1>0, <1>1 DEF OnMessage, InCall
  <2> QED BY <2>7, <2>8 DEF TypeInv
\* Two ways a step ends a call: parser() returns true, or it returns false.
<1>2. ASSUME ReturnTrue, UNCHANGED <<fed, base, status, curMsg, off, msgQ>>,
             status # "BODY", suspended' \in BOOLEAN, UNCHANGED oob
      PROVE  TypeInv'
  <2>1. /\ retrieved' \in [Conns -> Nat]
        /\ \A d \in Conns : retrieved'[d] <= arrived'[d]
    BY <1>0, <1>2 DEF ReturnTrue, TypeOK
  <2>2. TypeOK'
    BY <1>0, <1>2, <2>1 DEF ReturnTrue, TypeOK
  <2> QED BY <1>0, <1>2, <2>2 DEF ReturnTrue, TypeInv, InCall
<1>3. ASSUME ReturnFalse, UNCHANGED <<status, off, msgQ>>,
             pc = "parser", status # "BODY", oob' \in BOOLEAN,
             curMsg' \in [frame : Frame \cup {NoFrame}, body : Nat]
      PROVE  TypeInv'
  <2>1. base' \in 0 .. Len(fed')
    BY <1>0, <1>3 DEF ReturnFalse, TypeOK, InCall, Size
  <2>2. TypeOK'
    BY <1>0, <1>3, <2>1 DEF ReturnFalse, TypeOK, wire
  <2> QED BY <1>0, <1>3, <2>2 DEF ReturnFalse, TypeInv, InCall
<1>4. ASSUME HeadIncomplete PROVE TypeInv'
  BY <1>0, <1>2, <1>4 DEF HeadIncomplete, decoder, TypeOK
<1>5. ASSUME HeadRefused PROVE TypeInv'
  <2>1. curMsg' \in [frame : Frame \cup {NoFrame}, body : Nat]
    BY <1>5 DEF HeadRefused, Refused
  <2> QED BY <1>0, <1>3, <1>5, <2>1 DEF HeadRefused, TypeOK
<1>6. ASSUME HeadParsed PROVE TypeInv'
  <2>1. curMsg' \in [frame : Frame \cup {NoFrame}, body : Nat]
    BY <1>0, <1>6, HeadersType DEF HeadParsed
  <2>2. TypeOK'
    BY <1>0, <1>6, <2>1 DEF HeadParsed, TypeOK, wire, control, history
  <2> QED BY <1>0, <1>6, <2>2 DEF HeadParsed, TypeInv, InCall, Size, control
<1>7. ASSUME BodyIncomplete PROVE TypeInv'
  BY <1>0, <1>2, <1>7 DEF BodyIncomplete, decoder
<1>8. ASSUME BodyRefused PROVE TypeInv'
  <2>1. oob' \in BOOLEAN
    BY <1>0, <1>8 DEF BodyRefused, ReadsBeforeBuffer, TypeOK
  <2>2. UNCHANGED <<status, curMsg, off, msgQ>> /\ ReturnFalse
        /\ pc = "parser" /\ status # "BODY"
    BY <1>8 DEF BodyRefused
  <2>3. curMsg' \in [frame : Frame \cup {NoFrame}, body : Nat]
    BY <1>0, <2>2 DEF TypeOK
  <2> QED BY <1>3, <2>1, <2>2, <2>3
<1>9. ASSUME BodyParsed PROVE TypeInv'
  <2>1. oob' \in BOOLEAN
    BY <1>0, <1>9 DEF BodyParsed, ReadsBeforeBuffer, TypeOK
  <2>2. TypeOK'
    BY <1>0, <1>9, <2>1 DEF BodyParsed, TypeOK, wire, control
  <2> QED BY <1>0, <1>9, <2>2 DEF BodyParsed, TypeInv, InCall, Size, control
<1>10. ASSUME PushMsg PROVE TypeInv'
  <2>1. base' \in 0 .. Len(fed')
    BY <1>0, <1>10 DEF PushMsg, TypeOK, Size
  <2>2. msgQ' \in Seq(Frame \cup {NoFrame})
    BY <1>0, <1>10 DEF PushMsg, TypeOK
  <2>3. TypeOK'
    BY <1>0, <1>10, <2>1, <2>2 DEF PushMsg, TypeOK, wire, control, history
  <2> QED BY <1>0, <1>10, <2>3 DEF PushMsg, TypeInv, InCall, control
<1>11. ASSUME Dispatch PROVE TypeInv'
  <2>1. Head(msgQ) \in Frame \cup {NoFrame} /\ msgQ' \in Seq(Frame \cup {NoFrame})
    BY <1>0, <1>11 DEF Dispatch, TypeOK
  <2>2. delivered[conn] \in Seq(Frame \cup {NoFrame}) /\ conn \in Conns
    BY <1>0 DEF TypeOK
  <2>3. Append(delivered[conn], Head(msgQ)) \in Seq(Frame \cup {NoFrame})
    BY <2>1, <2>2
  <2>4. delivered' \in [Conns -> Seq(Frame \cup {NoFrame})]
    BY <1>0, <1>11, <2>3 DEF Dispatch, TypeOK
  <2>5. TypeOK'
    BY <1>0, <1>11, <2>1, <2>4 DEF Dispatch, TypeOK, wire, control, history
  <2> QED BY <1>0, <1>11, <2>5 DEF Dispatch, TypeInv, InCall, control
<1>12. ASSUME DrainDone PROVE TypeInv'
  <2>1. TypeOK'
    BY <1>0, <1>12 DEF DrainDone, TypeOK, wire, decoder, history
  <2> QED BY <1>0, <1>12, <2>1 DEF DrainDone, TypeInv, InCall, decoder
<1>13. ASSUME UNCHANGED vars PROVE TypeInv'
  BY <1>0, <1>13 DEF vars, wire, decoder, control, history, TypeInv, TypeOK,
                     InCall, Size
<1> QED
  BY <1>1, <1>4, <1>5, <1>6, <1>7, <1>8, <1>9, <1>10, <1>11, <1>12, <1>13
  DEF Next

\* Every variable of the decoder stays within its type: in particular nothing
\* is ever erased that mCurReserved does not hold.
THEOREM TypeCorrect == Spec => []TypeOK
<1>1. Spec => []TypeInv
  BY TypeInit, TypeNext, PTL DEF Spec
<1> QED BY <1>1, PTL DEF TypeInv

-----------------------------------------------------------------------------
(* A decoder that has failed stays as it is *)

\* Front cells that parser() takes up in its next step without getting past
\* them: a header it refused, or a body that is all there but whose CRC window
\* would start before the first cell.
Stuck ==
  \/ status = "INIT" /\ Size >= HeadSize /\ curMsg = Refused
  \/ status = "HEAD" /\ Size >= curMsg.body

FailInv ==
  failed /\ ~oob => /\ pc \in {"idle", "parser"}
                    /\ pc = "parser" => off = 0
                    /\ Stuck

\* Stuck is about the size and the front of mCurReserved; a call of onMessage
\* only adds cells behind.
LEMMA OnMessageKeeps ==
  ASSUME TypeInv, NEW c \in Conns, NEW n \in 1 .. Len(stream[c]), OnMessage(c, n)
  PROVE  /\ Size \in Nat /\ Size' \in Nat /\ Size' >= Size
         /\ \A i \in 1 .. Size : Cell(i)' = Cell(i)
<1>1. TypeOK
  BY DEF TypeInv
<1>2. Len(fed) \in Nat /\ base \in 0 .. Len(fed)
  BY <1>1 DEF TypeOK
<1>3. /\ Len(fed') \in Nat /\ Len(fed') >= Len(fed)
      /\ \A i \in 1 .. Len(fed) : fed'[i] = fed[i]
  BY <1>1, OnMessageFeeds
<1>4. base' = base
  BY DEF OnMessage
<1>5. Size \in Nat /\ Size' \in Nat /\ Size' >= Size
  BY <1>2, <1>3, <1>4 DEF Size
<1>6. ASSUME NEW i \in 1 .. Size PROVE Cell(i)' = Cell(i)
  <2>1. base + i \in 1 .. Len(fed)
    BY <1>2 DEF Size
  <2> QED BY <1>3, <1>4, <2>1 DEF Cell
<1> QED BY <1>5, <1>6

LEMMA FailInit == Init => FailInv
BY DEF Init, FailInv

LEMMA FailNext == TypeInv /\ FailInv /\ [Next]_vars => FailInv'
<1> SUFFICES ASSUME TypeInv, FailInv, [Next]_vars, failed', ~oob'
             PROVE  /\ pc' \in {"idle", "parser"}
                    /\ pc' = "parser" => off' = 0
                    /\ Stuck'
  BY DEF FailInv
<1> USE SizesAssumption
<1> DEFINE Goal == /\ pc' \in {"idle", "parser"}
                   /\ pc' = "parser" => off' = 0
                   /\ Stuck'
<1>0. /\ TypeOK /\ InCall /\ Size \in Nat /\ base \in Nat /\ Len(fed) \in Nat
      /\ curMsg.body \in Nat /\ Size = Len(fed) - base
  BY DEF TypeInv, TypeOK, Size
<1>1. ASSUME NEW c \in Conns, NEW n \in 1 .. Len(stream[c]), OnMessage(c, n)
      PROVE  Goal
  <2>1. failed /\ ~oob
    BY <1>1 DEF OnMessage, history
  <2>2. Size' >= Size /\ Size' \in Nat
    BY <1>1, OnMessageKeeps
  <2> QED BY <1>0, <1>1, <2>1, <2>2 DEF OnMessage, FailInv, Stuck
<1>2. ASSUME HeadIncomplete PROVE Goal
  BY <1>0, <1>2 DEF HeadIncomplete, ReturnTrue, FailInv, Stuck
<1>3. ASSUME HeadRefused PROVE Goal
  <2>1. off = 0
    BY <1>0, <1>3 DEF HeadRefused, InCall
  <2>2. base' = base /\ fed' = fed /\ status' = "INIT" /\ curMsg' = Refused
        /\ pc' = "idle"
    BY <1>0, <1>3, <2>1 DEF HeadRefused, ReturnFalse
  <2> QED BY <1>0, <1>3, <2>2 DEF HeadRefused, Stuck, Size
<1>4. ASSUME HeadParsed PROVE Goal
  <2>1. failed /\ ~oob /\ status = "INIT" /\ curMsg' \in Headers
    BY <1>4 DEF HeadParsed, history
  <2>2. curMsg = Refused
    BY <2>1 DEF FailInv, Stuck
  <2> QED BY <2>1, <2>2 DEF Headers
<1>5. ASSUME BodyIncomplete PROVE Goal
  BY <1>0, <1>5 DEF BodyIncomplete, ReturnTrue, FailInv, Stuck
<1>6. ASSUME BodyRefused PROVE Goal
  <2>1. /\ Size - off >= curMsg.body /\ status = "HEAD" /\ status' = status
        /\ curMsg' = curMsg /\ base' = base + off /\ fed' = fed /\ pc' = "idle"
    BY <1>6 DEF BodyRefused, ReturnFalse
  <2>2. off \in Nat
    BY <1>0 DEF TypeOK
  <2>3. Size' >= curMsg'.body
    BY <1>0, <2>1, <2>2 DEF Size
  <2> QED BY <2>1, <2>3 DEF Stuck
<1>7. ASSUME BodyParsed PROVE Goal
  <2>1. failed /\ ~oob /\ pc = "parser" /\ off # 0
    BY <1>7 DEF BodyParsed, ReadsBeforeBuffer
  <2> QED BY <2>1 DEF FailInv
<1>8. ASSUME PushMsg PROVE Goal
  BY <1>8 DEF PushMsg, FailInv, Stuck, history
<1>9. ASSUME Dispatch PROVE Goal
  BY <1>9 DEF Dispatch, FailInv, history
<1>10. ASSUME DrainDone PROVE Goal
  BY <1>10 DEF DrainDone, FailInv, history
<1>11. ASSUME UNCHANGED vars PROVE Goal
  BY <1>11 DEF vars, decoder, control, history, FailInv, Stuck, Size
<1> QED
  BY <1>1, <1>2, <1>3, <1>4, <1>5, <1>6, <1>7, <1>8, <1>9, <1>10, <1>11
  DEF Next

\* Once parser() has returned false, no later step retrieves a byte or hands a
\* message on, under any connection, short of an undefined CRC check.
THEOREM FailurePermanent == Spec => FailureIsPermanent
<1>1. TypeInv /\ FailInv /\ [Next]_vars =>
        [failed /\ ~oob' => UNCHANGED <<retrieved, delivered>>]_vars
  <2> SUFFICES ASSUME TypeInv, FailInv, Next, failed, ~oob'
               PROVE  UNCHANGED <<retrieved, delivered>>
    OBVIOUS
  <2>1. Size \in Nat /\ curMsg.body \in Nat
    BY DEF TypeInv, TypeOK, Size
  <2>2. ~oob => pc # "drain" /\ (pc = "parser" => off = 0) /\ Stuck
    BY DEF FailInv
  <2>3. ASSUME NEW c \in Conns, NEW n \in 1 .. Len(stream[c]), OnMessage(c, n)
        PROVE  UNCHANGED <<retrieved, delivered>>
    BY <2>3 DEF OnMessage
  <2>4. ~HeadIncomplete
    BY <2>1, <2>2, SizesAssumption DEF HeadIncomplete, Stuck
  <2>5. ~BodyIncomplete
    BY <2>1, <2>2 DEF BodyIncomplete, Stuck
  <2>6. ~Dispatch
    <3> SUFFICES ASSUME Dispatch PROVE FALSE
      OBVIOUS
    <3>1. oob' = oob /\ pc = "drain"
      BY DEF Dispatch, history
    <3> QED BY <2>2, <3>1
  <2>7. HeadRefused \/ BodyRefused => UNCHANGED <<retrieved, delivered>>
    BY DEF HeadRefused, BodyRefused, ReturnFalse, wire
  <2>8. HeadParsed \/ BodyParsed \/ PushMsg \/ DrainDone =>
          UNCHANGED <<retrieved, delivered>>
    BY DEF HeadParsed, BodyParsed, PushMsg, DrainDone, wire
  <2> QED BY <2>3, <2>4, <2>5, <2>6, <2>7, <2>8 DEF Next
<1> QED BY <1>1, TypeInit, TypeNext, FailInit, FailNext, PTL
        DEF Spec, FailureIsPermanent

-----------------------------------------------------------------------------
(* A body whose header an earlier call parsed is never accepted *)

SuspInv ==
  /\ pc = "parser" /\ status = "HEAD" /\ off = HeadSize => Cell(1).at <= HeadSize
  /\ status = "HEAD" /\ ~oob /\ ~(pc = "parser" /\ off = HeadSize) =>
       suspended \/ failed
  /\ suspended /\ ~oob => /\ status = "HEAD"
                          /\ Size >= HeadSize
                          /\ Cell(1).at <= HeadSize
                          /\ pc = "parser" => off = 0

LEMMA SuspInit == Init => SuspInv
BY DEF Init, SuspInv

LEMMA SuspNext == TypeInv /\ FailInv /\ SuspInv /\ [Next]_vars => SuspInv'
<1> SUFFICES ASSUME TypeInv, FailInv, SuspInv, [Next]_vars PROVE SuspInv'
  OBVIOUS
<1> USE SizesAssumption
<1>0. /\ TypeOK /\ InCall /\ Size \in Nat /\ base \in Nat /\ Len(fed) \in Nat
      /\ curMsg.body \in Nat /\ Size = Len(fed) - base
  BY DEF TypeInv, TypeOK, Size
<1>1. ASSUME NEW c \in Conns, NEW n \in 1 .. Len(stream[c]), OnMessage(c, n)
      PROVE  SuspInv'
  <2>1. /\ Size' >= Size /\ Size' \in Nat
        /\ Size >= HeadSize => Cell(1)' = Cell(1)
    BY <1>0, <1>1, OnMessageKeeps
  <2> QED BY <1>0, <1>1, <2>1 DEF OnMessage, SuspInv, history
<1>2. ASSUME HeadIncomplete PROVE SuspInv'
  BY <1>2 DEF HeadIncomplete, ReturnTrue, decoder, SuspInv
<1>3. ASSUME HeadRefused PROVE SuspInv'
  BY <1>3 DEF HeadRefused, ReturnFalse, SuspInv
<1>4. ASSUME HeadParsed PROVE SuspInv'
  <2>1. Cell(1).at <= HeadSize /\ Cell(1)' = Cell(1)
    BY <1>0, <1>4, HeadersType DEF HeadParsed, Cell
  <2> QED BY <1>4, <2>1 DEF HeadParsed, SuspInv, control, history
<1>5. ASSUME BodyIncomplete PROVE SuspInv'
  <2>1. /\ pc' = "drain" /\ status' = "HEAD" /\ suspended' /\ oob' = oob
        /\ pc = "parser" /\ status = "HEAD" /\ Size - off < curMsg.body
        /\ base' = base /\ fed' = fed
    BY <1>5 DEF BodyIncomplete, ReturnTrue, decoder
  <2>2. Size' = Size /\ Cell(1)' = Cell(1)
    BY <2>1 DEF Size, Cell
  <2>3. CASE off = HeadSize
    BY <1>0, <2>1, <2>2, <2>3 DEF InCall, SuspInv
  <2>4. CASE off = 0
    <3>1. failed => oob
      BY <1>0, <2>1, <2>4 DEF FailInv, Stuck
    <3> QED BY <2>1, <2>2, <2>4, <3>1 DEF SuspInv
  <2> QED BY <1>0, <2>3, <2>4 DEF TypeOK
<1>6. ASSUME BodyRefused PROVE SuspInv'
  <2>1. /\ pc = "parser" /\ pc' = "idle" /\ failed' /\ base' = base + off
        /\ fed' = fed /\ UNCHANGED <<status, suspended, off>>
    BY <1>6 DEF BodyRefused, ReturnFalse
  <2>2. oob => oob'
    BY <1>6 DEF BodyRefused
  <2>3. suspended /\ ~oob' => base' = base
    <3>1. suspended /\ ~oob' => off = 0
      BY <2>2, <2>1 DEF SuspInv
    <3> QED BY <1>0, <2>1, <3>1
  <2>4. suspended /\ ~oob' => Size' = Size /\ Cell(1)' = Cell(1)
    BY <2>1, <2>3 DEF Size, Cell
  <2> QED BY <2>2, <2>1, <2>4 DEF SuspInv
<1>7. ASSUME BodyParsed PROVE SuspInv'
  <2>1. /\ status' = "BODY" /\ status = "HEAD" /\ pc = "parser"
        /\ TRUE \in JsonVerdicts /\ UNCHANGED <<suspended, off>>
        /\ oob' = (oob \/ ReadsBeforeBuffer)
    BY <1>7 DEF BodyParsed
  <2>2. suspended /\ ~oob' => off = 0
    BY <2>1 DEF SuspInv
  <2> QED BY <2>1, <2>2 DEF SuspInv, ReadsBeforeBuffer
<1>8. ASSUME PushMsg PROVE SuspInv'
  BY <1>8 DEF PushMsg, SuspInv, history
<1>9. ASSUME Dispatch PROVE SuspInv'
  BY <1>9 DEF Dispatch, SuspInv, history, control, Size, Cell
<1>10. ASSUME DrainDone PROVE SuspInv'
  BY <1>10 DEF DrainDone, SuspInv, history, decoder, Size, Cell
<1>11. ASSUME UNCHANGED vars PROVE SuspInv'
  BY <1>11 DEF vars, decoder, control, history, SuspInv, Size, Cell
<1> QED
  BY <1>1, <1>2, <1>3, <1>4, <1>5, <1>6, <1>7, <1>8, <1>9, <1>10, <1>11
  DEF Next

\* Once a call of parser() has ended between a header and its body, no step
\* queues a message, under any connection, short of an undefined CRC check.
THEOREM SuspensionFatal == Spec => SuspensionIsFatal
<1>1. TypeInv /\ SuspInv /\ [Next]_vars =>
        [suspended /\ ~oob' => Len(msgQ') <= Len(msgQ)]_vars
  <2> SUFFICES ASSUME TypeInv, SuspInv, Next, suspended, ~oob'
               PROVE  Len(msgQ') <= Len(msgQ)
    OBVIOUS
  <2>1. msgQ \in Seq(Frame \cup {NoFrame})
    BY DEF TypeInv, TypeOK
  <2>2. ~PushMsg
    <3> SUFFICES ASSUME PushMsg PROVE FALSE
      OBVIOUS
    <3>1. oob' = oob /\ status = "BODY"
      BY DEF PushMsg, history
    <3> QED BY <3>1 DEF SuspInv
  <2>3. ASSUME Dispatch PROVE Len(msgQ') <= Len(msgQ)
    BY <2>1, <2>3 DEF Dispatch
  <2>4. ASSUME NEW c \in Conns, NEW n \in 1 .. Len(stream[c]), OnMessage(c, n)
        PROVE  msgQ' = msgQ
    BY <2>4 DEF OnMessage
  <2>5. \/ HeadIncomplete \/ HeadRefused \/ HeadParsed \/ BodyIncomplete
        \/ BodyRefused \/ BodyParsed \/ DrainDone
        => msgQ' = msgQ
    BY DEF HeadIncomplete, HeadRefused, HeadParsed, BodyIncomplete, BodyRefused,
           BodyParsed, DrainDone, decoder
  <2> QED BY <2>1, <2>2, <2>3, <2>4, <2>5 DEF Next
<1> QED BY <1>1, TypeInit, TypeNext, FailInit, FailNext, SuspInit, SuspNext, PTL
        DEF Spec, SuspensionIsFatal

=============================================================================
