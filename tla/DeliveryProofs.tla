--------------------------- MODULE DeliveryProofs ---------------------------
(***************************************************************************)
(* Theorems about what StreamDecoder hands on: in order and without gaps,  *)
(* completely as long as it has not failed, and why it fails.              *)
(***************************************************************************)
EXTENDS StreamDecoderProofs, WellFoundedInduction

-----------------------------------------------------------------------------
(* The invariant *)

\* The messages of connection c handed on, and those queued for it by a decoder
\* that has not failed.
Out(c) == delivered[c] \o (IF c = conn /\ ~failed THEN msgQ ELSE <<>>)

\* f is the i-th frame of c, a valid one, and has arrived as a whole.
Sent(c, f, i) ==
  /\ f \in Frame
  /\ f.conn = c /\ f.num = i /\ f.kind = "data"
  /\ \E j \in 1 .. arrived[c] : stream[c][j] = [frame |-> f, at |-> LastAt(f)]

\* The sequence q of frames accounts for the first p bytes of c: they end with
\* frame number Len(q), and q has every frame that ends among them.
Accounts(c, p, q) ==
  /\ p \in Nat
  /\ IF p = 0
     THEN Len(q) = 0
     ELSE /\ stream[c][p].at = LastAt(stream[c][p].frame)
          /\ stream[c][p].frame.num = Len(q)
  /\ \A j \in 1 .. p :
       stream[c][j].at = LastAt(stream[c][j].frame) =>
         \E i \in DOMAIN q : q[i] = stream[c][j].frame

\* mCurReserved holds the last bytes of the connection that ran last, from the
\* start of a frame on, and between two calls less than that frame; everything
\* before, and everything of the other connections, is accounted for.
Aligned ==
  /\ Size <= arrived[conn]
  /\ \A i \in 1 .. Size : Cell(i) = stream[conn][arrived[conn] - Size + i]
  /\ Accounts(conn, arrived[conn] - Size, Out(conn))
  /\ \A c \in Conns \ {conn} : Accounts(c, arrived[c], delivered[c])
  /\ pc # "parser" /\ Size > 0 => Size < LastAt(Cell(1).frame)

\* The header parsed is that in front, if that is one frame's.
HeadInv ==
  status = "HEAD" =>
    /\ Size >= HeadSize
    /\ HeadIntact => /\ curMsg = [frame |-> Cell(1).frame,
                                  body |-> Cell(1).frame.body]
                     /\ Cell(1).frame.kind # "oversize"

\* An accepted body belongs to a valid frame that stands in front as a whole.
BodyInv ==
  status = "BODY" =>
    /\ curMsg.frame \in Frame /\ curMsg.frame.kind = "data"
    /\ curMsg.body = curMsg.frame.body
    /\ LastAt(curMsg.frame) <= Size
    /\ IsRun(0, LastAt(curMsg.frame), curMsg.frame, 0)

\* What holds until the first failure.
LiveInv ==
  ~failed =>
    /\ \A c \in Conns : (pc = "parser" => c # conn) => retrieved[c] = arrived[c]
    /\ pc = "idle" => msgQ = <<>>
    /\ HeadInv /\ BodyInv
    /\ Aligned \/ (Interleaved /\ Broken)

OutInv == ~oob => \A c \in Conns : \A i \in DOMAIN Out(c) : Sent(c, Out(c)[i], i)

Damaged == \E i \in DOMAIN fed : fed[i].frame.kind = "badCrc"

\* The front is the body of a null frame, whose header was erased.
NullFront ==
  LET f == Cell(1).frame
  IN  /\ Size > 0 /\ Cell(1).at > HeadSize
      /\ f.kind = "nullBody" /\ f.body = curMsg.body /\ f.body <= Size
      /\ IsRun(0, f.body, f, HeadSize)

\* Without damage and interleaving a failure ends at a header that is refused
\* again or at a body that is no message.
CauseInv ==
  /\ oob => failed
  /\ curMsg = Refused => failed
  /\ failed /\ ~Interleaved /\ ~Damaged =>
       /\ ~oob
       /\ \/ status = "INIT" /\ curMsg = Refused
          \/ status = "HEAD" /\ (suspended \/ NullFront)

DeliveryInv == LiveInv /\ OutInv /\ CauseInv

-----------------------------------------------------------------------------
(* Streams and the front of mCurReserved *)

\* The least element of a set of naturals.
LEMMA LeastElement ==
  ASSUME NEW T, T \subseteq Nat, T # {}
  PROVE  \E x \in T : \A y \in T : x <= y
<1>1. PICK x \in T : \A y \in T : ~ (<<y, x>> \in OpToRel(<, Nat))
  BY NatLessThanWellFounded, WFMin
<1>2. ASSUME NEW y \in T, ~ (x <= y) PROVE FALSE
  <2>1. y \in Nat /\ x \in Nat /\ y < x
    BY <1>2
  <2>2. <<y, x>> \in OpToRel(<, Nat)
    BY <2>1 DEF OpToRel
  <2> QED BY <1>1, <2>2
<1> QED BY <1>2

\* What a byte is made of.
LEMMA ByteFields ==
  ASSUME NEW b \in Byte
  PROVE  /\ b.frame \in Frame /\ b.frame.conn \in Conns
         /\ b.frame.num \in Nat \ {0} /\ b.frame.kind \in Kinds
         /\ b.frame.body \in Nat \ {0}
         /\ b.at \in Nat \ {0} /\ b = [frame |-> b.frame, at |-> b.at]
         /\ LastAt(b.frame) \in Nat /\ LastAt(b.frame) > HeadSize
BY SizesAssumption DEF Byte, Frame, LastAt

\* The bytes of a connection are its own frames', in the order of the stream.
LEMMA StreamFacts ==
  ASSUME TypeOK, NEW c \in Conns
  PROVE  /\ stream[c] \in Seq(Byte) /\ Len(stream[c]) \in Nat
         /\ arrived[c] \in Nat /\ arrived[c] <= Len(stream[c])
         /\ \A j \in 1 .. Len(stream[c]) :
              /\ stream[c][j] \in Byte /\ stream[c][j].frame.conn = c
              /\ stream[c][j].at <= LastAt(stream[c][j].frame)
         /\ Len(stream[c]) > 0 => /\ stream[c][1].frame.num = 1
                                  /\ stream[c][1].at = 1
         /\ \A j \in 1 .. Len(stream[c]) - 1 : Follows(stream[c][j], stream[c][j + 1])
<1>1. stream[c] \in Streams[c] /\ arrived[c] \in Nat /\ arrived[c] <= Len(stream[c])
  BY DEF TypeOK
<1>2. WellFormed(c, stream[c]) /\ stream[c] \in Seq(Byte)
  BY <1>1, StreamsAssumption, StreamType
<1>3. Len(stream[c]) > 0 => stream[c] # <<>>
  OBVIOUS
<1> QED BY <1>1, <1>2, <1>3 DEF WellFormed

\* After the bytes q accounts for stands the first byte of the frame after q's.
LEMMA NextFrame ==
  ASSUME TypeOK, NEW c \in Conns, NEW q, NEW p, Accounts(c, p, q),
         Len(q) \in Nat, p < Len(stream[c])
  PROVE  stream[c][p + 1].at = 1 /\ stream[c][p + 1].frame.num = Len(q) + 1
<1>1. p \in Nat /\ Len(stream[c]) \in Nat
  BY StreamFacts DEF Accounts
<1>2. CASE p = 0
  BY <1>1, <1>2, StreamFacts DEF Accounts
<1>3. CASE p # 0
  <2>1. p \in 1 .. Len(stream[c]) - 1
    BY <1>1, <1>3
  <2>2. Follows(stream[c][p], stream[c][p + 1])
    BY <2>1, StreamFacts
  <2>3. stream[c][p] \in Byte
    BY <1>1, <2>1, StreamFacts
  <2>4. /\ stream[c][p].at = LastAt(stream[c][p].frame)
        /\ stream[c][p].frame.num = Len(q) /\ LastAt(stream[c][p].frame) \in Nat
    BY <1>3, <2>3, ByteFields DEF Accounts
  <2> QED BY <2>2, <2>4 DEF Follows
<1> QED BY <1>2, <1>3

\* In an aligned decoder the front is the beginning of one frame, as far as the
\* frame and the cells go.
LEMMA FrontRun ==
  ASSUME TypeOK, Aligned, Len(Out(conn)) \in Nat
  PROVE  \A i \in 1 .. Size : i <= LastAt(Cell(1).frame) =>
           Cell(i) = [frame |-> Cell(1).frame, at |-> i]
<1> DEFINE p == arrived[conn] - Size
           f == Cell(1).frame
           Bad == {i \in 1 .. Size : /\ i <= LastAt(f)
                                     /\ Cell(i) # [frame |-> f, at |-> i]}
<1>1. /\ conn \in Conns /\ Size \in Nat /\ p \in Nat
      /\ arrived[conn] \in Nat /\ arrived[conn] <= Len(stream[conn])
      /\ Len(stream[conn]) \in Nat
  BY StreamFacts DEF TypeOK, Size, Aligned, Accounts
<1>2. \A i \in 1 .. Size : Cell(i) = stream[conn][p + i] /\ p + i \in 1 .. Len(stream[conn])
  BY <1>1 DEF Aligned
<1>3. \A i \in 1 .. Size : Cell(i) \in Byte
  BY <1>2, <1>1, StreamFacts
<1>4. Size > 0 => Cell(1) = [frame |-> f, at |-> 1]
  <2> SUFFICES ASSUME Size > 0 PROVE Cell(1) = [frame |-> f, at |-> 1]
    OBVIOUS
  <2>1. p < Len(stream[conn]) /\ 1 \in 1 .. Size
    BY <1>1
  <2>2. stream[conn][p + 1].at = 1
    BY <1>1, <2>1, NextFrame DEF Aligned
  <2> QED BY <1>2, <1>3, <2>1, <2>2, ByteFields
<1>5. SUFFICES ASSUME Bad # {} PROVE FALSE
  BY <1>5
<1>6. PICK i \in Bad : \A y \in Bad : i <= y
  <2>1. Bad \subseteq Nat
    BY <1>1
  <2> HIDE DEF Bad
  <2> QED BY <1>5, <2>1, LeastElement
<1>7. i \in 1 .. Size /\ i <= LastAt(f) /\ Cell(i) # [frame |-> f, at |-> i]
  BY <1>6
<1>8. i - 1 \in 1 .. Size /\ i - 1 \in Nat
  BY <1>1, <1>4, <1>7
<1>9. LastAt(f) \in Nat
  BY <1>3, <1>8, <1>1, ByteFields
<1>10. Cell(i - 1) = [frame |-> f, at |-> i - 1]
  BY <1>6, <1>7, <1>8, <1>9
<1>11. Follows(Cell(i - 1), Cell(i))
  <2>1. p + (i - 1) \in 1 .. Len(stream[conn]) - 1 /\ p + (i - 1) + 1 = p + i
    <3>1. /\ p \in Nat /\ i \in Nat /\ i - 1 >= 1
          /\ p + i <= Len(stream[conn]) /\ Len(stream[conn]) \in Nat
      BY <1>1, <1>2, <1>7, <1>8
    <3> HIDE DEF p, f, Bad
    <3> QED BY <3>1
  <2>2. Follows(stream[conn][p + (i - 1)], stream[conn][p + i])
    BY <1>1, <2>1, StreamFacts
  <2> QED BY <1>2, <1>7, <1>8, <2>2
<1> QED BY <1>7, <1>8, <1>9, <1>10, <1>11 DEF Follows

\* An aligned decoder that holds a header's worth of cells holds a header.
LEMMA AlignedHead ==
  ASSUME TypeOK, Aligned, Len(Out(conn)) \in Nat, Size >= HeadSize
  PROVE  HeadIntact
<1>1. /\ 1 \in 1 .. Size /\ Size \in Nat /\ HeadSize \in Nat
      /\ \A i \in 1 .. HeadSize : i \in 1 .. Size
  BY SizesAssumption DEF TypeOK, Size
<1>2. LastAt(Cell(1).frame) \in Nat /\ LastAt(Cell(1).frame) > HeadSize
  BY <1>1, CellType, ByteFields
<1>3. \A i \in 1 .. HeadSize : Cell(i) = [frame |-> Cell(1).frame, at |-> i]
  BY <1>1, <1>2, FrontRun
<1>4. \A i \in 1 .. HeadSize : 0 + i = i
  BY <1>1
<1> QED BY <1>3, <1>4 DEF HeadIntact, IsRun

\* Messages handed on and queued are a sequence of frames.
LEMMA OutType ==
  ASSUME TypeOK
  PROVE  /\ \A c \in Conns : /\ delivered[c] \in Seq(Frame \cup {NoFrame})
                             /\ Out(c) \in Seq(Frame \cup {NoFrame})
                             /\ Len(Out(c)) \in Nat
                             /\ c # conn \/ failed \/ msgQ = <<>> => Out(c) = delivered[c]
         /\ conn \in Conns /\ msgQ \in Seq(Frame \cup {NoFrame})
<1>1. /\ conn \in Conns /\ msgQ \in Seq(Frame \cup {NoFrame})
      /\ \A c \in Conns : delivered[c] \in Seq(Frame \cup {NoFrame})
  BY DEF TypeOK
<1>2. ASSUME NEW c \in Conns
      PROVE  /\ Out(c) \in Seq(Frame \cup {NoFrame}) /\ Len(Out(c)) \in Nat
             /\ c # conn \/ failed \/ msgQ = <<>> => Out(c) = delivered[c]
  <2>1. CASE c # conn \/ failed
    <3>1. Out(c) = delivered[c] \o <<>>
      BY <2>1 DEF Out
    <3>2. delivered[c] \o <<>> = delivered[c]
      BY <1>1
    <3> QED BY <1>1, <3>1, <3>2
  <2>2. CASE ~(c # conn \/ failed)
    <3>1. Out(c) = delivered[c] \o msgQ
      BY <2>2 DEF Out
    <3>2. msgQ = <<>> => delivered[c] \o msgQ = delivered[c]
      BY <1>1
    <3> QED BY <1>1, <2>2, <3>1, <3>2
  <2> QED BY <2>1, <2>2
<1> QED BY <1>1, <1>2

\* Where the cells and what is accounted for stay, so does the alignment.
LEMMA FrontKept ==
  ASSUME UNCHANGED <<stream, arrived, fed, base, conn>>,
         Out(conn)' = Out(conn),
         \A c \in Conns \ {conn} : delivered'[c] = delivered[c],
         Aligned \/ (Interleaved /\ Broken),
         Aligned /\ pc' # "parser" /\ Size > 0 => Size < LastAt(Cell(1).frame)
  PROVE  Aligned' \/ (Interleaved' /\ Broken')
<1>1. Size' = Size /\ \A i : Cell(i)' = Cell(i)
  BY DEF Size, Cell
<1>2. CASE Aligned
  <2>1. Accounts(conn, arrived[conn] - Size, Out(conn))'
    BY <1>1, <1>2 DEF Aligned, Accounts
  <2>2. \A c \in Conns \ {conn} : Accounts(c, arrived[c], delivered[c])'
    BY <1>2 DEF Aligned, Accounts
  <2>3. (pc # "parser" /\ Size > 0 => Size < LastAt(Cell(1).frame))'
    BY <1>1, <1>2 DEF LastAt
  <2>4. (Size <= arrived[conn]
         /\ \A i \in 1 .. Size : Cell(i) = stream[conn][arrived[conn] - Size + i])'
    BY <1>1, <1>2 DEF Aligned
  <2> QED BY <2>1, <2>2, <2>3, <2>4 DEF Aligned
<1>3. CASE Interleaved /\ Broken
  <2>1. Interleaved'
    BY <1>3 DEF Interleaved
  <2>2. Broken'
    BY <1>1, <1>3 DEF Broken, LastAt
  <2> QED BY <2>1, <2>2
<1> QED BY <1>2, <1>3

\* A body that is accepted belongs to the frame whose header was parsed, a
\* valid one, unless the CRC check reads before the first cell.
LEMMA AcceptedIsWhole ==
  ASSUME TypeOK, HeadInv, status = "HEAD", off = HeadSize,
         Size - off >= curMsg.body, TRUE \in JsonVerdicts, TRUE \in CrcVerdicts
  PROVE  LET f == Cell(1).frame
         IN  /\ f \in Frame /\ f.kind = "data"
             /\ curMsg.frame = f /\ curMsg.body = f.body
             /\ LastAt(f) <= Size /\ IsRun(0, LastAt(f), f, 0)
<1> DEFINE f == Cell(1).frame
<1>1. /\ Size \in Nat /\ HeadSize \in Nat \ {0} /\ curMsg.body \in Nat
      /\ 1 \in 1 .. Size
  BY SizesAssumption DEF TypeOK, Size, HeadInv
<1>2. /\ f \in Frame /\ f.body \in Nat \ {0} /\ f.kind \in Kinds
      /\ LastAt(f) \in Nat /\ LastAt(f) = HeadSize + f.body
  BY <1>1, CellType, ByteFields DEF LastAt
<1>3. ~ReadsBeforeBuffer
  BY <1>1 DEF ReadsBeforeBuffer
<1>4. f.body = curMsg.body /\ IsRun(0, LastAt(f), f, 0) /\ f.kind # "badCrc"
  BY <1>2, <1>3 DEF CrcVerdicts
<1>5. \A i \in 1 .. LastAt(f) : Cell(i) = [frame |-> f, at |-> i]
  <2>1. \A i \in 1 .. LastAt(f) : Cell(0 + i) = [frame |-> f, at |-> 0 + i]
    BY <1>4 DEF IsRun
  <2>2. \A i \in 1 .. LastAt(f) : 0 + i = i
    BY <1>2
  <2> QED BY <2>1, <2>2
<1>6. HeadIntact
  <2>1. \A i \in 1 .. HeadSize : i \in 1 .. LastAt(f) /\ 0 + i = i
    BY <1>1, <1>2
  <2> QED BY <1>5, <2>1 DEF HeadIntact, IsRun
<1>7. curMsg.frame = f /\ f.kind # "oversize"
  BY <1>6 DEF HeadInv
<1>8. Cell(off + 1) = [frame |-> f, at |-> HeadSize + 1]
  BY <1>1, <1>2, <1>5
<1>9. IsRun(off, f.body, f, HeadSize)
  <2>1. \A i \in 1 .. f.body : HeadSize + i \in 1 .. LastAt(f)
    BY <1>1, <1>2
  <2> QED BY <1>5, <2>1 DEF IsRun
<1>10. f.kind # "nullBody"
  <2>1. Cell(off + 1).frame = f /\ ~(Cell(off + 1).at <= HeadSize)
    BY <1>1, <1>8
  <2> QED BY <1>2, <1>4, <1>9, <2>1 DEF JsonVerdicts
<1>11. f.kind = "data"
  BY <1>2, <1>4, <1>7, <1>10 DEF Kinds
<1> QED BY <1>1, <1>2, <1>4, <1>7, <1>11

\* A frame pushed is the next one of the running connection, and what is left
\* in front is aligned again.
LEMMA PushAligned ==
  ASSUME TypeInv, ~failed, Aligned, BodyInv, PushMsg
  PROVE  /\ Aligned'
         /\ Out(conn)' = Append(Out(conn), curMsg.frame)
         /\ Sent(conn, curMsg.frame, Len(Out(conn)) + 1)
<1> DEFINE f == curMsg.frame
           L == LastAt(curMsg.frame)
           p == arrived[conn] - Size
<1>0. TypeOK /\ conn \in Conns /\ pc = "parser"
  BY DEF TypeInv, TypeOK, PushMsg
<1>1. /\ Len(fed) \in Nat /\ base \in 0 .. Len(fed) /\ Size \in Nat
      /\ Size = Len(fed) - base
      /\ p \in Nat /\ arrived[conn] \in Nat /\ Len(stream[conn]) \in Nat
      /\ p + Size <= Len(stream[conn]) /\ p + Size = arrived[conn]
      /\ p = arrived[conn] - Size
  BY <1>0, StreamFacts DEF TypeOK, Size, Aligned, Accounts
<1>2. /\ f \in Frame /\ f.kind = "data" /\ f.body \in Nat \ {0}
      /\ curMsg.body = f.body /\ L = HeadSize + f.body
      /\ L \in Nat /\ L > HeadSize /\ HeadSize \in Nat \ {0} /\ L <= Size
      /\ f = curMsg.frame /\ L = LastAt(f) /\ LastAt(f) = HeadSize + f.body
  BY SizesAssumption DEF PushMsg, BodyInv, LastAt, Frame
<1>b. L \in Nat /\ 1 <= L /\ L <= Size
  BY SizesAssumption DEF PushMsg, BodyInv, LastAt, Frame
<1> HIDE DEF f, L, p
<1>a. /\ p \in Nat /\ L \in Nat /\ Size \in Nat /\ arrived[conn] \in Nat
      /\ Len(stream[conn]) \in Nat /\ 1 <= L /\ L <= Size
      /\ p + Size = arrived[conn] /\ arrived[conn] <= Len(stream[conn])
  BY <1>1, <1>b
<1>3. \A i \in 1 .. L : stream[conn][p + i] = [frame |-> f, at |-> i]
  <2>1. \A i \in 1 .. L : Cell(0 + i) = [frame |-> f, at |-> 0 + i]
    BY <1>2 DEF PushMsg, BodyInv, IsRun
  <2>2. \A i \in 1 .. L : 0 + i = i /\ i \in 1 .. Size
    BY <1>1, <1>2
  <2> QED BY <1>1, <2>1, <2>2 DEF Aligned
<1>4. /\ base' = base + L /\ fed' = fed /\ pc' = "parser"
      /\ UNCHANGED <<stream, arrived, conn, delivered, failed>>
      /\ msgQ' = Append(msgQ, f)
  <2>1. base' = base + L
    BY <1>1, <1>2 DEF PushMsg
  <2> QED BY <1>0, <1>2, <2>1 DEF PushMsg, wire, control, history
<1>5. Out(conn)' = Append(Out(conn), f)
  <2>1. Out(conn) = delivered[conn] \o msgQ /\ Out(conn)' = delivered[conn] \o msgQ'
    BY <1>4 DEF Out
  <2>2. delivered[conn] \in Seq(Frame \cup {NoFrame}) /\ msgQ \in Seq(Frame \cup {NoFrame})
    BY <1>0, OutType
  <2>3. \A s, q \in Seq(Frame \cup {NoFrame}) : \A x \in Frame \cup {NoFrame} :
          s \o Append(q, x) = Append(s \o q, x)
    OBVIOUS
  <2>4. delivered[conn] \o Append(msgQ, f) = Append(delivered[conn] \o msgQ, f)
    BY <1>2, <2>2, <2>3
  <2> QED BY <1>4, <2>1, <2>4
<1>6. /\ Out(conn) \in Seq(Frame \cup {NoFrame}) /\ Len(Out(conn)) \in Nat
      /\ DOMAIN Out(conn) = 1 .. Len(Out(conn))
  BY <1>0, OutType
<1>7. f.num = Len(Out(conn)) + 1 /\ f.conn = conn
  <2>1. p < Len(stream[conn]) /\ p + 1 \in 1 .. Len(stream[conn]) /\ 1 \in 1 .. L
    BY <1>a
  <2>2. stream[conn][p + 1].frame.num = Len(Out(conn)) + 1
    BY <1>0, <1>6, <2>1, <1>1, NextFrame DEF Aligned
  <2>3. stream[conn][p + 1].frame.conn = conn
    BY <1>0, <2>1, StreamFacts
  <2>4. stream[conn][p + 1] = [frame |-> f, at |-> 1]
    BY <1>3, <1>a
  <2> QED BY <2>2, <2>3, <2>4
<1>8. p + L \in 1 .. arrived[conn] /\ stream[conn][p + L] = [frame |-> f, at |-> L]
  <2>1. p + L \in 1 .. arrived[conn] /\ L \in 1 .. L
    BY <1>a
  <2> QED BY <1>3, <2>1
<1>9. Sent(conn, f, Len(Out(conn)) + 1)
  BY <1>2, <1>7, <1>8 DEF Sent
<1>10. Size' = Size - L /\ \A i \in 1 .. Size' : Cell(i)' = Cell(L + i)
  <2>1. Size' = Size - L
    BY <1>1, <1>2, <1>4 DEF Size
  <2>2. \A i \in 1 .. Size - L : (base + L) + i = base + (L + i)
    BY <1>1, <1>2
  <2> QED BY <1>4, <2>1, <2>2 DEF Cell
<1>11. (arrived[conn] - Size)' = p + L
  <2>1. (arrived[conn] - Size)' = arrived[conn] - Size'
    BY <1>4
  <2> QED BY <1>1, <1>2, <1>10, <2>1
<1>12. Accounts(conn, p + L, Append(Out(conn), f))
  <2> DEFINE q == Append(Out(conn), f)
  <2>1. /\ Len(q) = Len(Out(conn)) + 1 /\ DOMAIN q = 1 .. Len(Out(conn)) + 1
        /\ \A i \in DOMAIN Out(conn) : i \in DOMAIN q /\ q[i] = Out(conn)[i]
        /\ q[Len(Out(conn)) + 1] = f
    BY <1>2, <1>6
  <2>2. p + L \in Nat /\ p + L # 0
    BY <1>1, <1>2
  <2>3. ASSUME NEW j \in 1 .. p + L,
               stream[conn][j].at = LastAt(stream[conn][j].frame)
        PROVE  \E i \in DOMAIN q : q[i] = stream[conn][j].frame
    <3>1. CASE j \in 1 .. p
      <4>1. PICK i \in DOMAIN Out(conn) : Out(conn)[i] = stream[conn][j].frame
        BY <1>1, <2>3, <3>1 DEF Aligned, Accounts
      <4> QED BY <2>1, <4>1
    <3>2. CASE j \notin 1 .. p
      <4>1. j - p \in 1 .. L /\ p + (j - p) = j
        BY <1>a, <3>2
      <4>2. stream[conn][j] = [frame |-> f, at |-> j - p]
        BY <1>3, <4>1
      <4>3. Len(Out(conn)) + 1 \in DOMAIN q
        BY <1>6, <2>1
      <4> QED BY <2>1, <4>2, <4>3
    <3> QED BY <3>1, <3>2
  <2>4. stream[conn][p + L].at = LastAt(stream[conn][p + L].frame)
        /\ stream[conn][p + L].frame.num = Len(q)
    BY <1>2, <1>7, <1>8, <2>1
  <2> HIDE DEF q
  <2>5. Accounts(conn, p + L, q)
    BY <2>2, <2>3, <2>4 DEF Accounts
  <2> QED BY <2>5 DEF q
<1>13. Aligned'
  <2>1. Size' <= arrived'[conn']
    <3>1. Size' = Size - L /\ arrived'[conn'] = arrived[conn]
      BY <1>4, <1>10
    <3> QED BY <1>a, <3>1
  <2>2. ASSUME NEW i \in 1 .. Size'
        PROVE  Cell(i)' = stream'[conn'][arrived'[conn'] - Size' + i]
    <3>1. L + i \in 1 .. Size /\ p + (L + i) = (p + L) + i
      <4>1. Size' = Size - L
        BY <1>10
      <4> QED BY <1>a, <4>1
    <3>2. Cell(L + i) = stream[conn][p + (L + i)]
      BY <1>1, <3>1 DEF Aligned
    <3> QED BY <1>4, <1>10, <1>11, <3>1, <3>2
  <2>3. Accounts(conn, arrived[conn] - Size, Out(conn))'
    BY <1>4, <1>5, <1>11, <1>12 DEF Accounts
  <2>4. \A c \in Conns \ {conn'} : Accounts(c, arrived[c], delivered[c])'
    BY <1>4 DEF Aligned, Accounts
  <2> QED BY <1>4, <2>1, <2>2, <2>3, <2>4 DEF Aligned
<1> QED BY <1>2, <1>5, <1>9, <1>13

\* Where the bytes of a piece of a stream stand after it was appended to the log.
LEMMA Appended ==
  ASSUME NEW s \in Seq(Byte), NEW t \in Seq(Byte), NEW a \in Nat, NEW n \in Nat,
         a + n <= Len(t)
  PROVE  LET r == s \o SubSeq(t, a + 1, a + n)
         IN  /\ Len(r) = Len(s) + n
             /\ \A i \in 1 .. n : r[Len(s) + i] = t[a + i]
<1> DEFINE u == SubSeq(t, a + 1, a + n)
<1>1. \A i \in (a + 1) .. (a + n) : t[i] \in Byte
  OBVIOUS
<1>2. u \in Seq(Byte)
  BY <1>1
<1>3. Len(u) = n
  OBVIOUS
<1>4. ASSUME NEW i \in 1 .. n PROVE u[i] = t[a + i]
  <2>1. a + 1 + i - 1 = a + i
    OBVIOUS
  <2> QED BY <1>3, <2>1
<1> HIDE DEF u
<1>5. Len(s \o u) = Len(s) + n /\ Len(s) \in Nat
  BY <1>2, <1>3
<1>6. ASSUME NEW i \in 1 .. n PROVE (s \o u)[Len(s) + i] = u[i]
  BY <1>2, <1>3
<1> QED BY <1>4, <1>5, <1>6 DEF u

\* The cells of mCurReserved that a call of onMessage adds, when everything that
\* arrived before has been retrieved.
LEMMA NewCells ==
  ASSUME TypeInv, NEW c \in Conns, NEW n \in 1 .. Len(stream[c]), OnMessage(c, n),
         retrieved[c] = arrived[c]
  PROVE  /\ n \in Nat /\ n > 0 /\ arrived[c] + n <= Len(stream[c])
         /\ Len(fed') = Len(fed) + n /\ Size' = Size + n
         /\ \A i \in 1 .. Size : Cell(i)' = Cell(i)
         /\ \A i \in 1 .. n : fed'[base' + (Size + i)] = stream[c][arrived[c] + i]
         /\ fed'[Len(fed) + 1] = stream[c][arrived[c] + 1]
<1>1. /\ fed \in Seq(Byte) /\ Len(fed) \in Nat /\ base \in 0 .. Len(fed)
      /\ stream[c] \in Seq(Byte) /\ Len(stream[c]) \in Nat /\ arrived[c] \in Nat
  BY StreamFacts DEF TypeInv, TypeOK
<1>2. n \in Nat /\ n > 0
  BY <1>1
<1>3. /\ arrived[c] + n <= Len(stream[c]) /\ base' = base
      /\ fed' = fed \o SubSeq(stream[c], arrived[c] + 1, arrived[c] + n)
  BY DEF OnMessage
<1>4. /\ Len(fed') = Len(fed) + n
      /\ \A i \in 1 .. n : fed'[Len(fed) + i] = stream[c][arrived[c] + i]
  <2> DEFINE r == fed \o SubSeq(stream[c], arrived[c] + 1, arrived[c] + n)
  <2>1. Len(r) = Len(fed) + n /\ \A i \in 1 .. n : r[Len(fed) + i] = stream[c][arrived[c] + i]
    BY <1>1, <1>2, <1>3, Appended
  <2>2. fed' = r
    BY <1>3
  <2> HIDE DEF r
  <2> QED BY <2>1, <2>2
<1>5. \A i \in 1 .. Size : Cell(i)' = Cell(i)
  BY OnMessageKeeps
<1>6. Size = Len(fed) - base /\ Size' = Size + n
  BY <1>1, <1>2, <1>3, <1>4 DEF Size
<1>7. \A i \in 1 .. n : fed'[base' + (Size + i)] = stream[c][arrived[c] + i]
  <2> TAKE i \in 1 .. n
  <2>1. base + (Size + i) = Len(fed) + i
    BY <1>1, <1>2, <1>6
  <2> QED BY <1>3, <1>4, <2>1
<1>8. 1 \in 1 .. n
  BY <1>2
<1> QED BY <1>2, <1>3, <1>4, <1>5, <1>6, <1>7, <1>8

\* Bytes fed once stay: what was interleaved or damaged remains so.
LEMMA FedKept ==
  ASSUME TypeInv, NEW c \in Conns, NEW n \in 1 .. Len(stream[c]), OnMessage(c, n)
  PROVE  (Interleaved => Interleaved') /\ (Damaged => Damaged')
<1>1. /\ fed \in Seq(Byte) /\ Len(fed) \in Nat
      /\ fed' \in Seq(Byte) /\ Len(fed') \in Nat /\ Len(fed') >= Len(fed)
      /\ \A i \in 1 .. Len(fed) : fed'[i] = fed[i]
  BY OnMessageFeeds DEF TypeInv, TypeOK
<1>2. ASSUME NEW i \in 1 .. Len(fed) - 1
      PROVE  /\ i \in 1 .. Len(fed') - 1
             /\ fed'[i] = fed[i] /\ fed'[i + 1] = fed[i + 1]
  BY <1>1
<1>3. ASSUME NEW i \in DOMAIN fed PROVE i \in DOMAIN fed' /\ fed'[i] = fed[i]
  BY <1>1
<1>4. Interleaved => Interleaved'
  BY <1>2 DEF Interleaved, Seam, LastAt
<1> QED BY <1>3, <1>4 DEF Damaged

\* Bytes of the connection that ran last go on where its own end.
LEMMA SameConnection ==
  ASSUME TypeInv, LiveInv, ~failed, Aligned, NEW n \in 1 .. Len(stream[conn]),
         OnMessage(conn, n)
  PROVE  Aligned'
<1> DEFINE p == arrived[conn] - Size
<1>a. TypeOK /\ conn \in Conns /\ pc = "idle" /\ Aligned
  BY DEF TypeInv, TypeOK, OnMessage
<1>b. retrieved[conn] = arrived[conn]
  BY <1>a DEF LiveInv
<1>c. Size \in Nat /\ arrived[conn] \in Nat /\ p \in Nat /\ p = arrived[conn] - Size
  BY <1>a, StreamFacts DEF TypeOK, Size, Aligned, Accounts
<1>1. /\ TypeOK /\ conn \in Conns /\ pc = "idle" /\ retrieved[conn] = arrived[conn]
      /\ Size \in Nat /\ arrived[conn] \in Nat /\ p \in Nat /\ p + Size = arrived[conn]
      /\ p = arrived[conn] - Size
  BY <1>a, <1>b, <1>c
<1> HIDE DEF p
<1>2. /\ n \in Nat /\ Size' = Size + n
      /\ \A i \in 1 .. Size : Cell(i)' = Cell(i)
      /\ \A i \in 1 .. n : fed'[base' + (Size + i)] = stream[conn][arrived[conn] + i]
  BY <1>1, NewCells
<1>3. /\ conn' = conn /\ pc' = "parser" /\ failed' = failed
      /\ UNCHANGED <<stream, msgQ, delivered>>
      /\ arrived' = [arrived EXCEPT ![conn] = @ + n]
  BY DEF OnMessage, history
<1>4. arrived'[conn] = arrived[conn] + n /\ arrived'[conn] - Size' = p
      /\ \A d \in Conns \ {conn} : arrived'[d] = arrived[d]
  <2>1. arrived \in [Conns -> Nat]
    BY <1>1 DEF TypeOK
  <2>2. arrived'[conn] = arrived[conn] + n
        /\ \A d \in Conns \ {conn} : arrived'[d] = arrived[d]
    BY <1>1, <1>3, <2>1
  <2> QED BY <1>1, <1>2, <2>2
<1>5. Out(conn)' = Out(conn)
  BY <1>3 DEF Out
<1>6. Size' <= arrived'[conn]
  BY <1>1, <1>2, <1>4
<1>7. ASSUME NEW i \in 1 .. Size' PROVE Cell(i)' = stream[conn][p + i]
  <2>1. CASE i <= Size
    BY <1>1, <1>2, <2>1 DEF Aligned
  <2>2. CASE ~(i <= Size)
    <3>1. i - Size \in 1 .. n /\ Size + (i - Size) = i
          /\ arrived[conn] + (i - Size) = p + i
      BY <1>1, <1>2, <2>2
    <3>2. fed'[base' + (Size + (i - Size))] = stream[conn][arrived[conn] + (i - Size)]
      BY <1>2, <3>1
    <3> QED BY <3>1, <3>2 DEF Cell
  <2> QED BY <2>1, <2>2
<1>8. Accounts(conn, arrived[conn] - Size, Out(conn))'
  <2>1. Accounts(conn, p, Out(conn))
    BY <1>1 DEF Aligned
  <2> QED BY <1>3, <1>4, <1>5, <2>1 DEF Accounts
<1>9. \A d \in Conns \ {conn} : Accounts(d, arrived[d], delivered[d])'
  BY <1>3, <1>4 DEF Aligned, Accounts
<1>10. ~(pc' # "parser") /\ Size' <= arrived'[conn'] /\ p = arrived'[conn'] - Size'
  BY <1>3, <1>4, <1>6
<1>11. \A i \in 1 .. Size' : Cell(i)' = stream'[conn'][arrived'[conn'] - Size' + i]
  BY <1>3, <1>7, <1>10
<1> QED BY <1>3, <1>8, <1>9, <1>10, <1>11 DEF Aligned

\* Bytes of another connection find the vector empty, or break the frame that
\* the bytes in it began.
LEMMA OtherConnection ==
  ASSUME TypeInv, LiveInv, ~failed, Aligned,
         NEW c \in Conns, NEW n \in 1 .. Len(stream[c]), OnMessage(c, n), c # conn
  PROVE  /\ Size = 0 => Aligned'
         /\ Size # 0 => Interleaved' /\ Broken'
<1>1. /\ TypeOK /\ conn \in Conns /\ pc = "idle" /\ msgQ = <<>>
      /\ retrieved[c] = arrived[c]
      /\ Len(Out(conn)) \in Nat /\ Out(conn) = delivered[conn]
  <2>1. TypeOK /\ conn \in Conns /\ pc = "idle"
    BY DEF TypeInv, TypeOK, OnMessage
  <2> QED BY <2>1, OutType DEF LiveInv
<1>2. /\ n \in Nat /\ n > 0 /\ arrived[c] + n <= Len(stream[c])
      /\ Len(fed') = Len(fed) + n /\ Size' = Size + n
      /\ \A i \in 1 .. Size : Cell(i)' = Cell(i)
      /\ \A i \in 1 .. n : fed'[base' + (Size + i)] = stream[c][arrived[c] + i]
      /\ fed'[Len(fed) + 1] = stream[c][arrived[c] + 1]
  BY <1>1, NewCells
<1>3. /\ conn' = c /\ pc' = "parser" /\ failed' = failed /\ base' = base
      /\ UNCHANGED <<stream, msgQ, delivered>>
      /\ arrived' = [arrived EXCEPT ![c] = @ + n]
  BY DEF OnMessage, history
<1>4. /\ arrived[c] \in Nat /\ arrived'[c] = arrived[c] + n
      /\ \A d \in Conns \ {c} : arrived'[d] = arrived[d]
      /\ Size \in Nat /\ Len(fed) \in Nat /\ base \in Nat /\ Len(fed) = base + Size
      /\ fed \in Seq(Byte)
  BY <1>1, <1>3 DEF TypeOK, Size
<1>5. CASE Size = 0
  <2>1. arrived'[conn'] - Size' = arrived[c] /\ Size' <= arrived'[conn'] /\ Size' = n
    BY <1>2, <1>3, <1>4, <1>5
  <2>2. ASSUME NEW i \in 1 .. Size'
        PROVE  Cell(i)' = stream'[conn'][arrived'[conn'] - Size' + i]
    <3>1. i \in 1 .. n /\ Size + i = i
      BY <1>5, <2>1
    <3>2. fed'[base' + i] = stream[c][arrived[c] + i]
      BY <1>2, <3>1
    <3> QED BY <1>3, <2>1, <3>2 DEF Cell
  <2>3. Accounts(conn, arrived[conn] - Size, Out(conn))'
    <3>1. Accounts(c, arrived[c], delivered[c])
      BY DEF Aligned
    <3>2. Out(c)' = delivered[c]
      <4>1. Out(c)' = delivered[c] \o <<>>
        BY <1>1, <1>3 DEF Out
      <4>2. delivered[c] \in Seq(Frame \cup {NoFrame})
        BY <1>1, OutType
      <4> QED BY <4>1, <4>2
    <3> QED BY <1>3, <2>1, <3>1, <3>2 DEF Accounts
  <2>4. ASSUME NEW d \in Conns \ {c} PROVE Accounts(d, arrived[d], delivered[d])'
    <3>1. Accounts(d, arrived[d], delivered[d])
      <4>1. CASE d = conn
        <5>1. arrived[conn] - Size = arrived[conn]
          BY <1>1, <1>5 DEF TypeOK
        <5> QED BY <1>1, <4>1, <5>1 DEF Aligned
      <4> QED BY <4>1 DEF Aligned
    <3> QED BY <1>3, <1>4, <3>1 DEF Accounts
  <2>5. ~(pc' # "parser")
    BY <1>3
  <2>6. Aligned'
    BY <1>3, <2>1, <2>2, <2>3, <2>4, <2>5 DEF Aligned
  <2> QED BY <1>5, <2>6
<1>6. CASE Size # 0
  <2> DEFINE f == Cell(1).frame
             y == stream[c][arrived[c] + 1]
  <2>1. /\ 1 \in 1 .. Size /\ Size \in 1 .. Size
        /\ f \in Frame /\ LastAt(f) \in Nat /\ Size < LastAt(f)
    <3>1. 1 \in 1 .. Size /\ Size \in 1 .. Size
      BY <1>4, <1>6
    <3>2. f \in Frame /\ LastAt(f) \in Nat
      BY <1>1, <3>1, CellType, ByteFields
    <3> QED BY <1>1, <1>4, <1>6, <3>1, <3>2 DEF Aligned
  <2>2. Cell(Size) = [frame |-> f, at |-> Size]
    BY <1>1, <2>1, FrontRun
  <2>3. f.conn = conn
    <3>1. Cell(1) = stream[conn][arrived[conn] - Size + 1]
      BY <2>1 DEF Aligned
    <3>2. arrived[conn] - Size + 1 \in 1 .. Len(stream[conn])
      BY <1>1, <1>4, <2>1, StreamFacts DEF Aligned
    <3> QED BY <1>1, <3>1, <3>2, StreamFacts
  <2>4. y.frame.conn = c
    <3>1. arrived[c] + 1 \in 1 .. Len(stream[c])
      BY <1>1, <1>2, <1>4, StreamFacts
    <3> QED BY <1>1, <3>1, StreamFacts
  <2> HIDE DEF f, y
  <2>5. y.frame # f
    BY <2>3, <2>4
  <2>6. Interleaved'
    <3>1. Len(fed) \in 1 .. Len(fed') - 1
      BY <1>2, <1>4, <1>6
    <3>2. fed'[Len(fed)] = [frame |-> f, at |-> Size]
      <4>1. Len(fed) = base + Size /\ Len(fed) \in 1 .. Len(fed)
        BY <1>4, <1>6
      <4>2. Cell(Size) = fed[Len(fed)]
        BY <4>1 DEF Cell
      <4>3. fed'[Len(fed)] = fed[Len(fed)]
        BY <1>1, <4>1, OnMessageFeeds
      <4> QED BY <2>2, <4>2, <4>3
    <3>3. fed'[Len(fed) + 1] = y
      BY <1>2 DEF y
    <3>4. ~Seam(fed'[Len(fed)], fed'[Len(fed) + 1])
      BY <2>1, <2>5, <3>2, <3>3, <1>4 DEF Seam
    <3> QED BY <3>1, <3>4 DEF Interleaved, Seam, LastAt
  <2>7. Broken'
    <3>1. Size + 1 \in 1 .. Size' /\ Size + 1 <= LastAt(f)
      BY <1>2, <1>4, <2>1
    <3>2. Cell(1)' = Cell(1)
      BY <1>2, <2>1
    <3>3. 1 \in 1 .. n
      BY <1>2
    <3>4. fed'[base' + (Size + 1)] = y
      BY <1>2, <3>3 DEF y
    <3> QED BY <2>5, <3>1, <3>2, <3>4 DEF Broken, Cell, LastAt, f
  <2> QED BY <1>6, <2>6, <2>7
<1> QED BY <1>5, <1>6

-----------------------------------------------------------------------------
(* Every step keeps the invariant *)

\* In the beginning nothing has arrived and nothing is in front.
LEMMA DeliveryInit == Init => DeliveryInv
<1> SUFFICES ASSUME Init PROVE DeliveryInv
  OBVIOUS
<1>1. TypeOK /\ conn \in Conns /\ Size = 0
  BY TypeInit DEF TypeInv, TypeOK, Init, Size
<1>2. \A c \in Conns : Out(c) = <<>> /\ delivered[c] = <<>> /\ arrived[c] = 0
  BY <1>1, OutType DEF Init
<1>3. \A c \in Conns : Accounts(c, 0, <<>>)
  BY DEF Accounts
<1>4. Aligned
  <2>1. arrived[conn] - Size = 0 /\ Size <= arrived[conn]
    BY <1>1, <1>2
  <2> QED BY <1>1, <1>2, <1>3, <2>1 DEF Aligned
<1>5. LiveInv
  BY <1>4 DEF Init, LiveInv, HeadInv, BodyInv
<1>6. OutInv
  BY <1>2 DEF OutInv
<1>7. curMsg # Refused
  BY SizesAssumption DEF Init, Refused
<1> QED BY <1>5, <1>6, <1>7 DEF Init, DeliveryInv, CauseInv

\* The facts every step below starts from.
LEMMA Standing ==
  ASSUME TypeInv, CauseInv
  PROVE  /\ TypeOK /\ InCall /\ conn \in Conns
         /\ Size \in Nat /\ Len(fed) \in Nat /\ base \in Nat /\ Size = Len(fed) - base
         /\ curMsg.body \in Nat /\ off \in {0, HeadSize}
         /\ HeadSize \in Nat \ {0} /\ Len(Out(conn)) \in Nat
         /\ ~failed => ~oob
<1>1. TypeOK /\ InCall
  BY DEF TypeInv
<1> QED BY <1>1, OutType, SizesAssumption DEF TypeOK, Size, CauseInv

\* A header parsed before this call is followed by nothing that could be a body.
LEMMA ResumedIsRefused ==
  ASSUME TypeInv, SuspInv, CauseInv, ~failed, pc = "parser", status = "HEAD", off = 0
  PROVE  suspended /\ ~oob /\ JsonVerdicts = {FALSE}
<1>1. ~oob /\ suspended
  BY Standing DEF SuspInv
<1>2. Cell(1).at <= HeadSize /\ 0 + 1 = 1
  BY <1>1 DEF SuspInv
<1> QED BY <1>1, <1>2 DEF JsonVerdicts

\* A whole frame in front is not broken.
LEMMA WholeNotBroken ==
  ASSUME TypeOK, BodyInv, status = "BODY"
  PROVE  ~Broken
<1> SUFFICES ASSUME Broken PROVE FALSE
  OBVIOUS
<1>1. PICK i \in 1 .. Size : i <= LastAt(Cell(1).frame) /\ Cell(i).frame # Cell(1).frame
  BY DEF Broken
<1> DEFINE f == curMsg.frame
<1>2. /\ f \in Frame /\ LastAt(f) \in Nat /\ LastAt(f) >= 1 /\ Size \in Nat
      /\ \A k \in 1 .. LastAt(f) : Cell(0 + k) = [frame |-> f, at |-> 0 + k]
  BY SizesAssumption DEF TypeOK, BodyInv, IsRun, LastAt, Frame, Size
<1> HIDE DEF f
<1>3. 1 \in 1 .. LastAt(f) /\ 0 + 1 = 1
  BY <1>2
<1>4. Cell(1) = [frame |-> f, at |-> 1]
  BY <1>2, <1>3
<1>5. i \in 1 .. LastAt(f) /\ 0 + i = i
  BY <1>1, <1>2, <1>4
<1>6. Cell(i) = [frame |-> f, at |-> i]
  BY <1>2, <1>5
<1> QED BY <1>1, <1>4, <1>6

\* A message popped and handed on stays where it was in its connection's sequence.
LEMMA DispatchKeeps ==
  ASSUME TypeOK, ~failed, Dispatch
  PROVE  /\ \A c \in Conns : Out(c)' = Out(c)
         /\ Out(conn)' = Out(conn)
         /\ \A c \in Conns \ {conn} : delivered'[c] = delivered[c]
<1>1. /\ msgQ # <<>> /\ msgQ' = Tail(msgQ) /\ conn' = conn /\ ~failed'
      /\ delivered' = [delivered EXCEPT ![conn] = Append(@, Head(msgQ))]
  BY DEF Dispatch, control, history
<1>2. /\ delivered \in [Conns -> Seq(Frame \cup {NoFrame})]
      /\ msgQ \in Seq(Frame \cup {NoFrame}) /\ conn \in Conns
  BY DEF TypeOK
<1>3. /\ delivered'[conn] = Append(delivered[conn], Head(msgQ))
      /\ \A c \in Conns \ {conn} : delivered'[c] = delivered[c]
  BY <1>1, <1>2
<1>4. \A s, q \in Seq(Frame \cup {NoFrame}) :
        q # <<>> => Append(s, Head(q)) \o Tail(q) = s \o q
  OBVIOUS
<1>5. ASSUME NEW c \in Conns PROVE Out(c)' = Out(c)
  <2>1. CASE c = conn
    <3>1. Out(c) = delivered[c] \o msgQ /\ Out(c)' = delivered'[c] \o Tail(msgQ)
      BY <1>1, <2>1 DEF Out
    <3> QED BY <1>1, <1>2, <1>3, <1>4, <2>1, <3>1
  <2>2. CASE c # conn
    BY <1>1, <1>3, <2>2 DEF Out
  <2> QED BY <2>1, <2>2
<1>6. Out(conn)' = Out(conn)
  <2>1. Out(conn)' = delivered'[conn] \o Tail(msgQ)
    BY <1>1 DEF Out
  <2>2. Out(conn) = delivered[conn] \o msgQ
    BY DEF Out
  <2> QED BY <1>1, <1>2, <1>3, <1>4, <2>1, <2>2
<1> QED BY <1>3, <1>5, <1>6

\* What holds until the first failure: one step per action, the two parts of the
\* front and the rest.
LEMMA LiveNext == TypeInv /\ FailInv /\ SuspInv /\ DeliveryInv /\ [Next]_vars => LiveInv'
<1> SUFFICES ASSUME TypeInv, FailInv, SuspInv, DeliveryInv, [Next]_vars, ~failed'
             PROVE  LiveInv'
  BY DEF LiveInv
<1> DEFINE Front == Aligned \/ (Interleaved /\ Broken)
           Rest == /\ \A c \in Conns : (pc = "parser" => c # conn) => retrieved[c] = arrived[c]
                   /\ pc = "idle" => msgQ = <<>>
                   /\ HeadInv /\ BodyInv
<1>0. /\ LiveInv /\ CauseInv /\ OutInv /\ TypeOK /\ InCall /\ conn \in Conns
      /\ Size \in Nat /\ Len(fed) \in Nat /\ base \in Nat /\ Size = Len(fed) - base
      /\ curMsg.body \in Nat /\ off \in {0, HeadSize}
      /\ HeadSize \in Nat \ {0} /\ Len(Out(conn)) \in Nat
      /\ ~failed => ~oob
  BY Standing DEF DeliveryInv
<1>1. ~failed => Front /\ Rest
  BY <1>0 DEF LiveInv
<1>2. SUFFICES ~failed => Front' /\ Rest' /\ ~failed
  <2>1. failed => failed'
    BY DEF Next, OnMessage, HeadIncomplete, HeadRefused, HeadParsed, BodyIncomplete,
           BodyRefused, BodyParsed, PushMsg, Dispatch, DrainDone, ReturnTrue,
           ReturnFalse, vars, history
  <2> QED BY <1>2, <2>1 DEF LiveInv
<1> SUFFICES ASSUME ~failed PROVE Front' /\ Rest'
  OBVIOUS
<1>3. ASSUME NEW c \in Conns, NEW n \in 1 .. Len(stream[c]), OnMessage(c, n)
      PROVE  Front' /\ Rest'
  <2>1. /\ pc = "idle" /\ pc' = "parser" /\ conn' = c /\ base' = base
        /\ UNCHANGED <<retrieved, status, curMsg, msgQ>>
        /\ arrived' = [arrived EXCEPT ![c] = @ + n]
    BY <1>3 DEF OnMessage
  <2>2. /\ Size' \in Nat /\ Size' >= Size
        /\ \A i \in 1 .. Size : Cell(i)' = Cell(i)
    BY <1>3, OnMessageKeeps
  <2>3. Front'
    <3>1. CASE Interleaved /\ Broken
      <4>1. Interleaved'
        BY <1>3, <3>1, FedKept
      <4>2. Broken'
        <5>1. PICK i \in 1 .. Size : /\ i <= LastAt(Cell(1).frame)
                                     /\ Cell(i).frame # Cell(1).frame
          BY <3>1 DEF Broken
        <5>2. i \in 1 .. Size' /\ 1 \in 1 .. Size
          BY <1>0, <2>2
        <5>3. Cell(i)' = Cell(i) /\ Cell(1)' = Cell(1)
          BY <2>2, <5>2
        <5> QED BY <5>1, <5>2, <5>3 DEF Broken, LastAt
      <4> QED BY <4>1, <4>2
    <3>2. CASE Aligned /\ c = conn
      <4>1. n \in 1 .. Len(stream[conn]) /\ OnMessage(conn, n)
        BY <1>3, <3>2
      <4> QED BY <1>0, <3>2, <4>1, SameConnection
    <3>3. CASE Aligned /\ c # conn
      BY <1>0, <1>3, <3>3, OtherConnection
    <3> QED BY <1>1, <3>1, <3>2, <3>3
  <2>4. HeadInv'
    <3> SUFFICES ASSUME status = "HEAD"
                 PROVE  (/\ Size >= HeadSize
                         /\ HeadIntact => /\ curMsg = [frame |-> Cell(1).frame,
                                                       body |-> Cell(1).frame.body]
                                          /\ Cell(1).frame.kind # "oversize")'
      BY <2>1 DEF HeadInv
    <3>1. Size >= HeadSize /\ \A i \in 1 .. HeadSize : i \in 1 .. Size /\ 0 + i = i
      BY <1>0, <1>1 DEF HeadInv
    <3>2. 1 \in 1 .. HeadSize
      BY <1>0
    <3>3. Cell(1)' = Cell(1) /\ \A i \in 1 .. HeadSize : Cell(i)' = Cell(i)
      BY <2>2, <3>1, <3>2
    <3>4. HeadIntact' => HeadIntact
      BY <3>1, <3>3 DEF HeadIntact, IsRun
    <3>5. Size' >= HeadSize
      BY <1>0, <2>2, <3>1
    <3> QED BY <1>1, <2>1, <3>3, <3>4, <3>5 DEF HeadInv
  <2>5. BodyInv'
    BY <1>0, <2>1 DEF InCall, BodyInv
  <2>6. \A d \in Conns : (pc' = "parser" => d # conn') => retrieved'[d] = arrived'[d]
    BY <1>0, <1>1, <2>1 DEF TypeOK
  <2> QED BY <2>1, <2>3, <2>4, <2>5, <2>6
\* The steps that leave the front as it is.
<1>4. ASSUME UNCHANGED <<stream, arrived, fed, base, conn, failed>>,
             UNCHANGED <<msgQ, delivered>>,
             Aligned /\ pc' # "parser" /\ Size > 0 => Size < LastAt(Cell(1).frame)
      PROVE  Front'
  <2>1. Out(conn)' = Out(conn)
    BY <1>4 DEF Out
  <2> QED BY <1>1, <1>4, <2>1, FrontKept
<1>5. ASSUME UNCHANGED <<fed, base, status, curMsg>>
      PROVE  HeadInv' /\ BodyInv'
  BY <1>1, <1>5 DEF HeadInv, BodyInv, HeadIntact, IsRun, LastAt, Cell, Size
<1>6. Aligned /\ Size > 0 => /\ LastAt(Cell(1).frame) = HeadSize + Cell(1).frame.body
                             /\ Cell(1).frame.body \in Nat \ {0}
  <2>1. Size > 0 => 1 \in 1 .. Size
    BY <1>0
  <2>2. Size > 0 => Cell(1) \in Byte
    BY <1>0, <2>1, CellType
  <2> QED BY <2>2, ByteFields DEF LastAt
<1>7. ASSUME HeadIncomplete PROVE Front' /\ Rest'
  <2>1. /\ Size < HeadSize /\ pc = "parser" /\ pc' = "drain" /\ UNCHANGED decoder
        /\ UNCHANGED <<stream, arrived, conn, delivered, failed>>
        /\ retrieved' = [retrieved EXCEPT ![conn] = arrived[conn]]
    BY <1>7 DEF HeadIncomplete, ReturnTrue
  <2>2. Front'
    BY <1>0, <1>4, <1>6, <2>1 DEF decoder
  <2>3. HeadInv' /\ BodyInv'
    BY <1>5, <2>1 DEF decoder
  <2>4. \A c \in Conns : retrieved'[c] = arrived'[c]
    BY <1>0, <1>1, <2>1 DEF TypeOK
  <2> QED BY <2>1, <2>2, <2>3, <2>4
<1>8. ASSUME HeadRefused \/ BodyRefused PROVE FALSE
  BY <1>8 DEF HeadRefused, BodyRefused, ReturnFalse
<1>9. ASSUME HeadParsed PROVE Front' /\ Rest'
  <2>1. /\ Size >= HeadSize /\ pc' = pc /\ pc = "parser" /\ curMsg' \in Headers
        /\ status' = "HEAD" /\ UNCHANGED <<wire, fed, base, msgQ, conn, delivered, failed>>
    BY <1>9 DEF HeadParsed, control, history
  <2>2. Front'
    BY <1>4, <2>1 DEF wire
  <2>3. Size' = Size /\ Cell(1)' = Cell(1) /\ HeadIntact' = HeadIntact
    BY <2>1 DEF Size, Cell, HeadIntact, IsRun
  <2>4. HeadIntact => /\ curMsg' = [frame |-> Cell(1).frame, body |-> Cell(1).frame.body]
                      /\ Cell(1).frame.kind # "oversize"
    BY <2>1 DEF Headers
  <2>5. HeadInv' /\ BodyInv'
    BY <2>1, <2>3, <2>4 DEF HeadInv, BodyInv
  <2> QED BY <1>1, <2>1, <2>2, <2>5 DEF wire
<1>10. ASSUME BodyIncomplete PROVE Front' /\ Rest'
  <2>1. /\ Size - off < curMsg.body /\ pc = "parser" /\ pc' = "drain"
        /\ status = "HEAD" /\ UNCHANGED decoder
        /\ UNCHANGED <<stream, arrived, conn, delivered, failed>>
        /\ retrieved' = [retrieved EXCEPT ![conn] = arrived[conn]]
    BY <1>10 DEF BodyIncomplete, ReturnTrue
  <2>2. Aligned => Size < LastAt(Cell(1).frame)
    <3> SUFFICES ASSUME Aligned PROVE Size < LastAt(Cell(1).frame)
      OBVIOUS
    <3>1. Size >= HeadSize /\ Size > 0
      BY <1>0, <1>1, <2>1 DEF HeadInv
    <3>2. HeadIntact
      BY <1>0, <3>1, AlignedHead
    <3>3. curMsg.body = Cell(1).frame.body
      BY <1>1, <2>1, <3>2 DEF HeadInv
    <3> QED BY <1>0, <1>6, <2>1, <3>1, <3>3
  <2>3. Front'
    BY <1>4, <2>1, <2>2 DEF decoder
  <2>4. HeadInv' /\ BodyInv'
    BY <1>5, <2>1 DEF decoder
  <2>5. \A c \in Conns : retrieved'[c] = arrived'[c]
    BY <1>0, <1>1, <2>1 DEF TypeOK
  <2> QED BY <2>1, <2>3, <2>4, <2>5
<1>11. ASSUME BodyParsed PROVE Front' /\ Rest'
  <2>1. /\ Size - off >= curMsg.body /\ pc = "parser" /\ pc' = pc /\ status = "HEAD"
        /\ TRUE \in JsonVerdicts /\ TRUE \in CrcVerdicts /\ status' = "BODY"
        /\ UNCHANGED <<wire, fed, base, curMsg, msgQ, conn, delivered, failed>>
    BY <1>11 DEF BodyParsed, control
  <2>2. off = HeadSize
    BY <1>0, <2>1, ResumedIsRefused
  <2>3. LET f == Cell(1).frame
        IN  /\ f \in Frame /\ f.kind = "data"
            /\ curMsg.frame = f /\ curMsg.body = f.body
            /\ LastAt(f) <= Size /\ IsRun(0, LastAt(f), f, 0)
    BY <1>0, <1>1, <2>1, <2>2, AcceptedIsWhole
  <2>4. BodyInv' /\ HeadInv'
    BY <2>1, <2>3 DEF BodyInv, HeadInv, IsRun, LastAt, Cell, Size
  <2>5. Front'
    BY <1>4, <2>1 DEF wire
  <2> QED BY <1>1, <2>1, <2>4, <2>5 DEF wire
<1>12. ASSUME PushMsg PROVE Front' /\ Rest'
  <2>1. Aligned
    <3>1. ~Broken
      BY <1>0, <1>1, <1>12, WholeNotBroken DEF PushMsg
    <3> QED BY <1>1, <3>1
  <2>2. Aligned'
    BY <1>1, <1>12, <2>1, PushAligned
  <2>3. /\ status' = "INIT" /\ pc' = pc /\ pc = "parser"
        /\ UNCHANGED <<arrived, retrieved, conn>>
    BY <1>12 DEF PushMsg, wire, control
  <2> QED BY <1>1, <2>2, <2>3 DEF HeadInv, BodyInv
<1>13. ASSUME Dispatch PROVE Front' /\ Rest'
  <2>1. /\ pc = "drain" /\ pc' = pc /\ msgQ # <<>> /\ msgQ' = Tail(msgQ)
        /\ UNCHANGED <<wire, fed, base, status, curMsg, conn, failed>>
        /\ delivered' = [delivered EXCEPT ![conn] = Append(@, Head(msgQ))]
    BY <1>13 DEF Dispatch, control, history
  <2>2. Out(conn)' = Out(conn) /\ \A c \in Conns \ {conn} : delivered'[c] = delivered[c]
    BY <1>0, <1>13, DispatchKeeps
  <2>3. Front'
    BY <1>1, <2>1, <2>2, FrontKept DEF wire, Aligned
  <2>4. HeadInv' /\ BodyInv'
    BY <1>5, <2>1
  <2> QED BY <1>1, <2>1, <2>3, <2>4 DEF wire
<1>14. ASSUME DrainDone PROVE Front' /\ Rest'
  <2>1. /\ pc = "drain" /\ pc' = "idle" /\ msgQ = <<>>
        /\ UNCHANGED <<wire, decoder, conn, delivered, failed>>
    BY <1>14 DEF DrainDone, history
  <2>2. Front'
    BY <1>4, <2>1 DEF wire, decoder, Aligned
  <2>3. HeadInv' /\ BodyInv'
    BY <1>5, <2>1 DEF decoder
  <2> QED BY <1>1, <2>1, <2>2, <2>3 DEF wire, decoder
<1>15. ASSUME UNCHANGED vars PROVE Front' /\ Rest'
  <2>1. UNCHANGED <<wire, decoder, pc, conn, delivered, failed>>
    BY <1>15 DEF vars, control, history
  <2>2. Front'
    BY <1>4, <2>1 DEF wire, decoder, Aligned
  <2>3. HeadInv' /\ BodyInv'
    BY <1>5, <2>1 DEF decoder
  <2> QED BY <1>1, <2>1, <2>2, <2>3 DEF wire, decoder
<1> QED BY <1>3, <1>7, <1>8, <1>9, <1>10, <1>11, <1>12, <1>13, <1>14, <1>15 DEF Next

\* Only a pushed frame is new among those handed on and queued.
LEMMA OutNext == TypeInv /\ FailInv /\ DeliveryInv /\ [Next]_vars => OutInv'
<1> SUFFICES ASSUME TypeInv, FailInv, DeliveryInv, [Next]_vars, ~oob'
             PROVE  \A c \in Conns : \A i \in DOMAIN Out(c)' : Sent(c, Out(c)[i], i)'
  BY DEF OutInv
<1>0. /\ LiveInv /\ CauseInv /\ OutInv /\ TypeOK /\ InCall /\ conn \in Conns
      /\ \A c \in Conns : delivered[c] \in Seq(Frame \cup {NoFrame})
      /\ msgQ \in Seq(Frame \cup {NoFrame})
  BY Standing, OutType DEF DeliveryInv
<1>1. ~oob
  BY DEF Next, OnMessage, HeadIncomplete, HeadRefused, HeadParsed, BodyIncomplete,
         BodyRefused, BodyParsed, PushMsg, Dispatch, DrainDone, vars, history
<1>2. \A c \in Conns : \A i \in DOMAIN Out(c) : Sent(c, Out(c)[i], i)
  BY <1>0, <1>1 DEF OutInv
\* It is enough that nothing is handed on or queued that was not before.
<1>3. ASSUME NEW c \in Conns, NEW s \in Seq(Frame \cup {NoFrame}),
             UNCHANGED stream, arrived'[c] \in Nat, arrived'[c] >= arrived[c],
             \A i \in DOMAIN s : Sent(c, s[i], i), Out(c)' = s
      PROVE  \A i \in DOMAIN Out(c)' : Sent(c, Out(c)[i], i)'
  <2> TAKE i \in DOMAIN Out(c)'
  <2>1. Sent(c, s[i], i) /\ arrived[c] \in Nat
    BY <1>0, <1>3 DEF TypeOK
  <2>2. PICK j \in 1 .. arrived[c] : stream[c][j] = [frame |-> s[i], at |-> LastAt(s[i])]
    BY <2>1 DEF Sent
  <2>3. j \in 1 .. arrived'[c]
    BY <1>3, <2>1
  <2> QED BY <1>3, <2>1, <2>2, <2>3 DEF Sent, LastAt
<1>4. ASSUME NEW c \in Conns
      PROVE  \A i \in DOMAIN delivered[c] : Sent(c, delivered[c][i], i)
  <2>1. CASE Out(c) = delivered[c]
    BY <1>2, <2>1
  <2>2. CASE Out(c) = delivered[c] \o msgQ
    <3>1. \A i \in DOMAIN delivered[c] : i \in DOMAIN Out(c) /\ Out(c)[i] = delivered[c][i]
      BY <1>0, <2>2
    <3> QED BY <1>2, <3>1
  <2> QED BY <1>0, <2>1, <2>2, OutType DEF Out
<1>5. \A c \in Conns : arrived[c] \in Nat
  BY <1>0 DEF TypeOK
<1>6. ASSUME NEW c \in Conns, NEW n \in 1 .. Len(stream[c]), OnMessage(c, n)
      PROVE  \A d \in Conns : \A i \in DOMAIN Out(d)' : Sent(d, Out(d)[i], i)'
  <2> TAKE d \in Conns
  <2>1. /\ UNCHANGED <<stream, delivered, msgQ, failed>>
        /\ arrived' = [arrived EXCEPT ![c] = @ + n] /\ pc = "idle"
    BY <1>6 DEF OnMessage, history
  <2>2. Len(stream[c]) \in Nat /\ n \in Nat
    BY <1>0, StreamFacts
  <2>3. arrived'[d] \in Nat /\ arrived'[d] >= arrived[d]
    BY <1>0, <2>1, <2>2 DEF TypeOK
  <2>4. ~failed => msgQ = <<>>
    BY <1>0, <2>1 DEF LiveInv
  <2>5. Out(d)' = delivered[d]
    <3>1. Out(d)' = delivered[d] \o <<>>
      BY <2>1, <2>4 DEF Out
    <3> QED BY <1>0, <3>1
  <2> QED BY <1>0, <1>3, <1>4, <2>1, <2>3, <2>5
<1>7. ASSUME UNCHANGED <<stream, arrived, delivered, msgQ, conn>>, failed => failed'
      PROVE  \A c \in Conns : \A i \in DOMAIN Out(c)' : Sent(c, Out(c)[i], i)'
  <2> TAKE c \in Conns
  <2>1. Out(c)' = Out(c) \/ Out(c)' = delivered[c]
    <3>1. Out(c)' = Out(c) \/ Out(c)' = delivered[c] \o <<>>
      BY <1>7 DEF Out
    <3> QED BY <1>0, <3>1
  <2>2. Out(c) \in Seq(Frame \cup {NoFrame}) /\ arrived'[c] \in Nat /\ arrived'[c] >= arrived[c]
    BY <1>0, <1>5, <1>7, OutType
  <2> QED BY <1>0, <1>2, <1>3, <1>4, <1>7, <2>1, <2>2
<1>8. CASE HeadIncomplete \/ BodyIncomplete
  BY <1>7, <1>8 DEF HeadIncomplete, BodyIncomplete, ReturnTrue, decoder
<1>9. CASE HeadRefused \/ BodyRefused
  BY <1>7, <1>9 DEF HeadRefused, BodyRefused, ReturnFalse, wire
<1>10. CASE HeadParsed \/ BodyParsed
  BY <1>7, <1>10 DEF HeadParsed, BodyParsed, wire, control, history
<1>11. CASE DrainDone \/ UNCHANGED vars
  BY <1>7, <1>11 DEF DrainDone, vars, wire, decoder, control, history
<1>12. ASSUME PushMsg
       PROVE  \A c \in Conns : \A i \in DOMAIN Out(c)' : Sent(c, Out(c)[i], i)'
  <2> TAKE c \in Conns
  <2>1. /\ UNCHANGED <<stream, arrived, delivered, conn, failed>> /\ status = "BODY"
        /\ arrived'[c] >= arrived[c] /\ arrived'[c] \in Nat
    BY <1>5, <1>12 DEF PushMsg, wire, control, history
  <2>2. ~failed
    BY <1>1, <2>1 DEF FailInv, Stuck
  <2>3. BodyInv /\ (Aligned \/ Broken)
    BY <1>0, <2>2 DEF LiveInv
  <2>4. Aligned
    BY <1>0, <1>12, <2>1, <2>2, <2>3, WholeNotBroken
  <2>5. /\ Out(conn)' = Append(Out(conn), curMsg.frame)
        /\ Sent(conn, curMsg.frame, Len(Out(conn)) + 1)
    BY <1>12, <2>2, <2>3, <2>4, PushAligned
  <2>6. CASE c = conn
    <3> DEFINE s == Append(Out(conn), curMsg.frame)
    <3>1. /\ Out(conn) \in Seq(Frame \cup {NoFrame}) /\ Len(Out(conn)) \in Nat
          /\ curMsg.frame \in Frame
      BY <1>0, <2>3, <2>1, OutType DEF BodyInv
    <3>2. s \in Seq(Frame \cup {NoFrame})
      BY <3>1
    <3>3. ASSUME NEW i \in DOMAIN s PROVE Sent(conn, s[i], i)
      <4>1. CASE i \in DOMAIN Out(conn)
        <5>1. s[i] = Out(conn)[i]
          BY <3>1, <4>1
        <5> QED BY <1>0, <1>2, <4>1, <5>1
      <4>2. CASE i \notin DOMAIN Out(conn)
        <5>1. i = Len(Out(conn)) + 1 /\ s[i] = curMsg.frame
          BY <3>1, <4>2
        <5> QED BY <2>5, <5>1
      <4> QED BY <4>1, <4>2
    <3>4. Out(conn)' = s
      BY <2>5
    <3> HIDE DEF s
    <3> QED BY <1>3, <2>1, <2>6, <3>2, <3>3, <3>4
  <2>7. CASE c # conn
    <3>1. Out(c)' = delivered[c]
      <4>1. Out(c)' = delivered[c] \o <<>>
        BY <2>1, <2>7 DEF Out
      <4> QED BY <1>0, <4>1
    <3> QED BY <1>0, <1>3, <1>4, <2>1, <3>1
  <2> QED BY <2>6, <2>7
<1>13. ASSUME Dispatch
       PROVE  \A c \in Conns : \A i \in DOMAIN Out(c)' : Sent(c, Out(c)[i], i)'
  <2> TAKE c \in Conns
  <2>1. /\ pc = "drain" /\ UNCHANGED <<wire, conn, failed>>
    BY <1>13 DEF Dispatch, control, history
  <2>2. ~failed
    BY <1>1, <2>1 DEF FailInv
  <2>3. Out(c)' = Out(c)
    BY <1>0, <1>13, <2>2, DispatchKeeps
  <2>4. Out(c) \in Seq(Frame \cup {NoFrame}) /\ arrived'[c] \in Nat /\ arrived'[c] >= arrived[c]
    BY <1>0, <1>5, <2>1, OutType DEF wire
  <2> QED BY <1>2, <1>3, <2>1, <2>3, <2>4 DEF wire
<1> QED BY <1>6, <1>8, <1>9, <1>10, <1>11, <1>12, <1>13 DEF Next

\* Why a call of an aligned decoder fails that is the first to fail.
LEMMA FirstFailure ==
  ASSUME TypeInv, SuspInv, DeliveryInv, ~failed, Aligned
  PROVE  /\ HeadRefused => Cell(1).frame.kind = "oversize"
         /\ BodyRefused =>
              \/ off = 0 /\ suspended /\ ~oob'
              \/ /\ off = HeadSize /\ Cell(1).frame.kind \in {"nullBody", "badCrc"}
                 /\ ~oob' /\ curMsg.body = Cell(1).frame.body
                 /\ LastAt(Cell(1).frame) <= Size
                 /\ \A i \in 1 .. LastAt(Cell(1).frame) :
                      Cell(i) = [frame |-> Cell(1).frame, at |-> i]
<1> DEFINE f == Cell(1).frame
<1>0. /\ LiveInv /\ CauseInv /\ TypeOK /\ InCall
      /\ Size \in Nat /\ curMsg.body \in Nat /\ off \in {0, HeadSize}
      /\ HeadSize \in Nat \ {0} /\ Len(Out(conn)) \in Nat
      /\ ~oob
  BY Standing DEF DeliveryInv
<1>1. Aligned /\ HeadInv
  BY <1>0 DEF LiveInv
<1>2. HeadRefused => f.kind = "oversize"
  <2> SUFFICES ASSUME HeadRefused PROVE f.kind = "oversize"
    OBVIOUS
  <2>1. Size >= HeadSize /\ HeadMayBeRefused
    BY DEF HeadRefused
  <2>2. HeadIntact
    BY <1>0, <1>1, <2>1, AlignedHead
  <2>3. curMsg # Refused
    BY <1>0 DEF CauseInv
  <2> QED BY <2>1, <2>2, <2>3 DEF HeadMayBeRefused, Headers
<1>3. ASSUME BodyRefused, off = 0 PROVE suspended /\ ~oob'
  <2>1. suspended /\ ~oob /\ JsonVerdicts = {FALSE}
    BY <1>0, <1>3, ResumedIsRefused DEF BodyRefused
  <2> QED BY <1>3, <2>1 DEF BodyRefused
<1>4. ASSUME BodyRefused, off = HeadSize
      PROVE  /\ f.kind \in {"nullBody", "badCrc"} /\ ~oob' /\ curMsg.body = f.body
             /\ LastAt(f) <= Size
             /\ \A i \in 1 .. LastAt(f) : Cell(i) = [frame |-> f, at |-> i]
  <2>1. status = "HEAD" /\ Size - HeadSize >= curMsg.body /\ ~ReadsBeforeBuffer
    BY <1>0, <1>4 DEF BodyRefused, ReadsBeforeBuffer
  <2>2. Size >= HeadSize /\ 1 \in 1 .. Size
    BY <1>0, <1>1, <2>1 DEF HeadInv
  <2>3. HeadIntact
    BY <1>0, <1>1, <2>2, AlignedHead
  <2>4. curMsg.frame = f /\ curMsg.body = f.body
    BY <1>1, <2>1, <2>3 DEF HeadInv
  <2>5. /\ f.body \in Nat \ {0} /\ LastAt(f) = HeadSize + f.body /\ LastAt(f) \in Nat
    BY <1>0, <2>2, CellType, ByteFields DEF LastAt
  <2>6. LastAt(f) <= Size
    BY <1>0, <2>1, <2>4, <2>5
  <2>7. \A i \in 1 .. LastAt(f) : Cell(i) = [frame |-> f, at |-> i]
    <3>1. \A i \in 1 .. LastAt(f) : i \in 1 .. Size /\ i <= LastAt(f)
      BY <1>0, <2>5, <2>6
    <3> QED BY <1>0, <1>1, <3>1, FrontRun
  <2>8. IsRun(0, LastAt(f), f, 0)
    <3>1. \A i \in 1 .. LastAt(f) : 0 + i = i
      BY <2>5
    <3> QED BY <2>7, <3>1 DEF IsRun
  <2>9. IsRun(off, f.body, f, HeadSize)
    <3>1. \A i \in 1 .. f.body : HeadSize + i \in 1 .. LastAt(f)
      BY <1>0, <2>5
    <3> QED BY <1>4, <2>7, <3>1 DEF IsRun
  <2>10. Cell(off + 1).frame = f /\ ~(Cell(off + 1).at <= HeadSize)
    <3>1. HeadSize + 1 \in 1 .. LastAt(f)
      BY <1>0, <2>5
    <3>2. Cell(off + 1) = [frame |-> f, at |-> HeadSize + 1]
      BY <1>4, <2>7, <3>1
    <3> QED BY <1>0, <3>2
  <2>11. JsonVerdicts = {f.kind # "nullBody"}
    BY <2>4, <2>5, <2>9, <2>10 DEF JsonVerdicts
  <2>12. CrcVerdicts = {f.kind # "badCrc"}
    BY <2>1, <2>4, <2>5, <2>8 DEF CrcVerdicts
  <2>13. f.kind \in {"nullBody", "badCrc"}
    BY <1>4, <2>11, <2>12 DEF BodyRefused
  <2>14. ~oob'
    BY <1>0, <1>4, <2>1 DEF BodyRefused
  <2> QED BY <2>4, <2>6, <2>7, <2>13, <2>14
<1> QED BY <1>0, <1>2, <1>3, <1>4

\* The null body in front is no message: it is refused as JSON every time.
LEMMA NullFrontIsRefused ==
  ASSUME off = 0, NullFront
  PROVE  JsonVerdicts = {FALSE}
<1>1. 0 + 1 = 1 /\ Cell(off + 1) = Cell(1)
  BY DEF Cell
<1> QED BY <1>1 DEF JsonVerdicts, NullFront

\* No frame is mistaken for the mark of a header that was not one frame's.
LEMMA FrameIsNoMark ==
  ASSUME NEW f \in Frame
  PROVE  f # NoFrame
<1>1. "num" \in DOMAIN f
  BY DEF Frame
<1>2. "num" \notin DOMAIN NoFrame
  BY DEF NoFrame
<1> QED BY <1>1, <1>2

\* A decoder that failed without interleaving or damage stays in its place.
LEMMA CauseNext ==
  TypeInv /\ FailInv /\ SuspInv /\ DeliveryInv /\ [Next]_vars => CauseInv'
<1> SUFFICES ASSUME TypeInv, FailInv, SuspInv, DeliveryInv, [Next]_vars PROVE CauseInv'
  OBVIOUS
<1> DEFINE Clean == failed /\ ~Interleaved /\ ~Damaged
           Barred == \/ status = "INIT" /\ curMsg = Refused
                     \/ status = "HEAD" /\ (suspended \/ NullFront)
           Goal == /\ oob' => failed'
                   /\ curMsg' = Refused => failed'
                   /\ Clean' => ~oob' /\ Barred'
<1>0. /\ CauseInv /\ TypeOK /\ InCall /\ conn \in Conns
      /\ Size \in Nat /\ Len(fed) \in Nat /\ base \in Nat /\ Size = Len(fed) - base
      /\ curMsg.body \in Nat /\ off \in {0, HeadSize}
      /\ HeadSize \in Nat \ {0}
      /\ ~failed => ~oob
  BY Standing DEF DeliveryInv
<1>1. /\ curMsg = Refused => failed
      /\ Clean => ~oob /\ Barred
  BY <1>0 DEF CauseInv
\* What a decoder that has failed cleanly still does.
<1>2. Clean => /\ pc \in {"idle", "parser"} /\ (pc = "parser" => off = 0) /\ Stuck
               /\ status = "HEAD" /\ pc = "parser" => JsonVerdicts = {FALSE}
  <2> SUFFICES ASSUME Clean
               PROVE  /\ pc \in {"idle", "parser"} /\ (pc = "parser" => off = 0) /\ Stuck
                      /\ status = "HEAD" /\ pc = "parser" => JsonVerdicts = {FALSE}
    OBVIOUS
  <2>1. pc \in {"idle", "parser"} /\ (pc = "parser" => off = 0) /\ Stuck
    BY <1>1 DEF FailInv
  <2>2. ASSUME status = "HEAD", pc = "parser", suspended PROVE JsonVerdicts = {FALSE}
    <3>1. off = 0 /\ Cell(1).at <= HeadSize
      BY <1>1, <2>1, <2>2 DEF SuspInv
    <3>2. Cell(off + 1) = Cell(1)
      BY <3>1
    <3> QED BY <3>1, <3>2 DEF JsonVerdicts
  <2> QED BY <1>1, <2>1, <2>2, NullFrontIsRefused
<1>3. UNCHANGED <<fed, base>> =>
        /\ Size' = Size /\ (Interleaved' <=> Interleaved) /\ (Damaged' <=> Damaged)
        /\ UNCHANGED curMsg => (NullFront' <=> NullFront)
  BY DEF Size, Cell, Interleaved, Damaged, NullFront, IsRun
<1>4. ASSUME NEW c \in Conns, NEW n \in 1 .. Len(stream[c]), OnMessage(c, n)
      PROVE  Goal
  <2>1. UNCHANGED <<status, curMsg, failed, suspended, oob>>
    BY <1>4 DEF OnMessage, history
  <2>2. Clean' => Clean
    BY <1>4, <2>1, FedKept
  <2>3. /\ Size' \in Nat /\ Size' >= Size /\ \A i \in 1 .. Size : Cell(i)' = Cell(i)
    BY <1>4, OnMessageKeeps
  <2>4. NullFront => NullFront'
    <3> SUFFICES ASSUME NullFront PROVE NullFront'
      OBVIOUS
    <3> DEFINE f == Cell(1).frame
    <3>1. /\ Size > 0 /\ Cell(1).at > HeadSize
          /\ f.kind = "nullBody" /\ f.body = curMsg.body /\ f.body <= Size
          /\ \A i \in 1 .. f.body : Cell(0 + i) = [frame |-> f, at |-> HeadSize + i]
      BY DEF NullFront, IsRun
    <3>2. f.body \in Nat \ {0} /\ 1 \in 1 .. Size
      <4>1. 1 \in 1 .. Size
        BY <1>0, <3>1
      <4> QED BY <1>0, <4>1, CellType, ByteFields
    <3>3. Cell(1)' = Cell(1) /\ \A i \in 1 .. f.body : 0 + i = i /\ Cell(i)' = Cell(i)
      BY <1>0, <2>3, <3>1, <3>2
    <3> QED BY <1>0, <2>1, <2>3, <3>1, <3>3 DEF NullFront, IsRun
  <2> QED BY <1>0, <1>1, <2>1, <2>2, <2>4
<1>5. ASSUME UNCHANGED <<fed, base, failed, oob>>, ~Clean,
             curMsg' = Refused => curMsg = Refused
      PROVE  Goal
  BY <1>0, <1>1, <1>3, <1>5
<1>6. ASSUME HeadIncomplete \/ BodyIncomplete PROVE Goal
  <2>1. ~Clean
    <3>1. CASE HeadIncomplete
      <4>1. status = "INIT" /\ Size < HeadSize
        BY <3>1 DEF HeadIncomplete
      <4> QED BY <1>0, <1>2, <4>1 DEF Stuck
    <3>2. CASE BodyIncomplete
      <4>1. status = "HEAD" /\ pc = "parser" /\ Size - off < curMsg.body
        BY <3>2 DEF BodyIncomplete
      <4>2. Clean => off = 0 /\ Size >= curMsg.body
        BY <1>2, <4>1 DEF Stuck
      <4> HIDE DEF Clean
      <4> QED BY <1>0, <4>1, <4>2
    <3> QED BY <1>6, <3>1, <3>2
  <2> QED BY <1>5, <1>6, <2>1 DEF HeadIncomplete, BodyIncomplete, ReturnTrue, decoder
<1>7. ASSUME HeadRefused PROVE Goal
  <2>1. off = 0 /\ base' = base /\ fed' = fed /\ status' = "INIT" /\ curMsg' = Refused
        /\ failed' /\ oob' = oob
    BY <1>0, <1>7 DEF HeadRefused, ReturnFalse, InCall
  <2> QED BY <1>0, <1>1, <1>3, <2>1
<1>8. ASSUME HeadParsed PROVE Goal
  <2>1. /\ status = "INIT" /\ pc = "parser" /\ curMsg' \in Headers
        /\ Size >= HeadSize /\ UNCHANGED <<fed, base, failed, oob>>
    BY <1>8 DEF HeadParsed, history
  <2>2. curMsg # Refused
    BY <2>1 DEF Headers
  <2>3. ~Clean
    BY <1>2, <2>1, <2>2 DEF Stuck
  <2>4. curMsg' # Refused
    <3>1. 1 \in 1 .. Size
      BY <1>0, <2>1
    <3>2. Cell(1).frame # NoFrame
      BY <1>0, <3>1, CellType, FrameIsNoMark
    <3> QED BY <2>1, <3>2, SizesAssumption DEF Headers, Refused
  <2> QED BY <1>5, <2>1, <2>3, <2>4
<1>9. ASSUME BodyRefused PROVE Goal
  <2>1. /\ pc = "parser" /\ status = "HEAD" /\ failed' /\ base' = base + off
        /\ UNCHANGED <<fed, status, curMsg, suspended>>
    BY <1>9 DEF BodyRefused, ReturnFalse
  <2> SUFFICES ASSUME Clean' PROVE ~oob' /\ (suspended \/ NullFront')
    BY <1>1, <2>1
  <2>2. ~Interleaved /\ ~Damaged
    BY <2>1 DEF Interleaved, Damaged
  <2>3. CASE failed
    <3>1. Clean
      BY <2>2, <2>3
    <3>2. off = 0 /\ JsonVerdicts = {FALSE} /\ ~oob /\ Barred
      BY <1>1, <1>2, <2>1, <3>1
    <3>3. oob' = oob /\ base' = base
      BY <1>0, <1>9, <2>1, <3>2 DEF BodyRefused
    <3> QED BY <1>3, <2>1, <3>2, <3>3
  <2>4. CASE ~failed
    <3> DEFINE f == Cell(1).frame
    <3>0. Aligned
      BY <2>2, <2>4 DEF DeliveryInv, LiveInv
    <3>1. CASE off = 0
      BY <1>0, <1>9, <2>4, <3>0, <3>1, FirstFailure
    <3>2. CASE off = HeadSize
      <4>1. /\ f.kind \in {"nullBody", "badCrc"} /\ ~oob' /\ curMsg.body = f.body
            /\ LastAt(f) <= Size
            /\ \A i \in 1 .. LastAt(f) : Cell(i) = [frame |-> f, at |-> i]
        BY <1>0, <1>9, <2>4, <3>0, <3>2, FirstFailure
      <4>2. /\ f.body \in Nat \ {0} /\ LastAt(f) = HeadSize + f.body /\ LastAt(f) \in Nat
            /\ 1 \in 1 .. Size
        <5>1. 1 \in 1 .. Size
          BY <1>0, <2>1, <2>4 DEF DeliveryInv, LiveInv, HeadInv
        <5> QED BY <1>0, <5>1, CellType, ByteFields DEF LastAt
      <4>3. f.kind = "nullBody"
        <5>1. base + 1 \in DOMAIN fed /\ fed[base + 1].frame = f
          BY <1>0, <4>2 DEF TypeOK, Cell
        <5> QED BY <2>2, <4>1, <5>1 DEF Damaged
      <4> HIDE DEF f
      <4>4. Size' = Size - HeadSize /\ f.body <= Size'
        <5>1. Size' = Size - HeadSize
          BY <1>0, <2>1, <3>2 DEF Size
        <5> QED BY <1>0, <4>1, <4>2, <5>1
      <4>5. ASSUME NEW i \in 1 .. f.body PROVE Cell(i)' = [frame |-> f, at |-> HeadSize + i]
        <5>1. HeadSize + i \in 1 .. LastAt(f) /\ (base + HeadSize) + i = base + (HeadSize + i)
          BY <1>0, <4>2
        <5>2. Cell(i)' = Cell(HeadSize + i)
          BY <2>1, <3>2, <5>1 DEF Cell
        <5> QED BY <4>1, <5>1, <5>2
      <4>6. Cell(1)' = [frame |-> f, at |-> HeadSize + 1]
        BY <4>2, <4>5
      <4>7. \A i \in 1 .. f.body : 0 + i = i
        BY <4>2
      <4>8. \A i \in 1 .. f.body : Cell(0 + i)' = [frame |-> f, at |-> HeadSize + i]
        BY <4>5, <4>7
      <4>9. Size' > 0 /\ HeadSize + 1 > HeadSize
        BY <1>0, <4>2, <4>4
      <4>10. Cell(1)'.frame = f /\ Cell(1)'.at = HeadSize + 1 /\ curMsg'.body = f.body
        BY <2>1, <4>1, <4>6
      <4>11. NullFront'
        BY <4>3, <4>4, <4>8, <4>9, <4>10 DEF NullFront, IsRun
      <4> QED BY <4>1, <4>11
    <3> QED BY <1>0, <3>1, <3>2
  <2> QED BY <2>3, <2>4
<1>10. ASSUME BodyParsed PROVE Goal
  <2>1. /\ pc = "parser" /\ status = "HEAD" /\ TRUE \in JsonVerdicts
        /\ oob' = (oob \/ ReadsBeforeBuffer)
        /\ UNCHANGED <<fed, base, curMsg, failed>>
    BY <1>10 DEF BodyParsed
  <2>2. ~Clean
    BY <1>2, <2>1
  <2>3. oob' => failed
    BY <1>0, <2>1, ResumedIsRefused DEF ReadsBeforeBuffer
  <2> QED BY <1>0, <1>1, <1>3, <2>1, <2>2, <2>3
<1>11. ASSUME PushMsg \/ Dispatch \/ DrainDone PROVE Goal
  <2>1. ~Clean \/ UNCHANGED <<fed, base, status, curMsg, suspended>>
    BY <1>2, <1>11 DEF PushMsg, Dispatch, DrainDone, Stuck
  <2>2. UNCHANGED <<fed, curMsg, failed, oob>>
    BY <1>11 DEF PushMsg, Dispatch, DrainDone, decoder, history
  <2>3. Clean' => Clean
    BY <2>2 DEF Interleaved, Damaged
  <2> QED BY <1>0, <1>1, <1>3, <2>1, <2>2, <2>3
<1>12. ASSUME UNCHANGED vars PROVE Goal
  BY <1>0, <1>1, <1>3, <1>12 DEF vars, decoder, history
<1>13. Goal
  BY <1>4, <1>6, <1>7, <1>8, <1>9, <1>10, <1>11, <1>12 DEF Next
<1> QED BY <1>13 DEF CauseInv

\* The invariants hold in every reachable state.
LEMMA DeliveryCorrect == Spec => [](TypeInv /\ FailInv /\ SuspInv /\ DeliveryInv)
<1>1. TypeInv /\ FailInv /\ SuspInv /\ DeliveryInv /\ [Next]_vars => DeliveryInv'
  BY LiveNext, OutNext, CauseNext DEF DeliveryInv
<1> QED BY <1>1, TypeInit, TypeNext, FailInit, FailNext, SuspInit, SuspNext,
           DeliveryInit, PTL DEF Spec

-----------------------------------------------------------------------------
(* What follows *)

\* However the streams of the connections are cut up and interleaved, what is
\* handed on under a connection is what its peer sent, valid, in order and
\* without a gap, until a CRC check reads before mCurReserved.
THEOREM DeliveredInOrder == Spec => []InOrderPrefix
<1>1. TypeInv /\ DeliveryInv => InOrderPrefix
  <2> SUFFICES ASSUME TypeInv, DeliveryInv, ~oob,
                      NEW c \in Conns, NEW i \in DOMAIN delivered[c]
               PROVE  Sent(c, delivered[c][i], i)
    BY DEF InOrderPrefix, Sent
  <2>1. \A k \in DOMAIN Out(c) : Sent(c, Out(c)[k], k)
    BY DEF DeliveryInv, OutInv
  <2>2. i \in DOMAIN Out(c) /\ Out(c)[i] = delivered[c][i]
    <3>1. TypeOK /\ delivered[c] \in Seq(Frame \cup {NoFrame})
          /\ msgQ \in Seq(Frame \cup {NoFrame})
      BY OutType DEF TypeInv
    <3>2. CASE Out(c) = delivered[c]
      BY <3>2
    <3>3. CASE Out(c) = delivered[c] \o msgQ
      BY <3>1, <3>3
    <3> QED BY <3>1, <3>2, <3>3, OutType DEF Out
  <2> QED BY <2>1, <2>2
<1> QED BY <1>1, DeliveryCorrect, PTL

\* In an aligned decoder that holds less than its front frame, that frame is what
\* has arrived in part.
LEMMA FrontIsCut ==
  ASSUME TypeOK, Aligned, Len(Out(conn)) \in Nat,
         Size > 0 => Size < LastAt(Cell(1).frame)
  PROVE  /\ CutAt(conn) = IF Size = 0 THEN "frame"
                          ELSE IF Size < HeadSize THEN "head" ELSE "body"
         /\ \A j \in 1 .. arrived[conn] :
              Ended(stream[conn][j]) => j <= arrived[conn] - Size
<1> DEFINE p == arrived[conn] - Size
           f == Cell(1).frame
<1>1. /\ Size \in Nat /\ arrived[conn] \in Nat /\ p \in Nat /\ p + Size = arrived[conn]
  BY StreamFacts DEF TypeOK, Size, Aligned, Accounts
<1>2. CASE Size = 0
  BY <1>1, <1>2 DEF Aligned, Accounts, CutAt, Ended
<1>3. CASE Size # 0
  <2>1. 1 \in 1 .. Size /\ Size \in 1 .. Size /\ Size < LastAt(f) /\ LastAt(f) \in Nat
    <3>1. 1 \in 1 .. Size /\ Size \in 1 .. Size
      BY <1>1, <1>3
    <3> QED BY <1>1, <1>3, <3>1, CellType, ByteFields
  <2>2. \A i \in 1 .. Size : i <= LastAt(f)
    BY <1>1, <2>1
  <2>3. \A i \in 1 .. Size : stream[conn][p + i] = [frame |-> f, at |-> i]
    <3>1. \A i \in 1 .. Size : Cell(i) = [frame |-> f, at |-> i]
      BY <2>2, FrontRun
    <3> QED BY <3>1 DEF Aligned
  <2> HIDE DEF f, p
  <2>4. ASSUME NEW i \in 1 .. Size PROVE ~Ended(stream[conn][p + i])
    <3>1. i # LastAt(f)
      BY <1>1, <2>1
    <3>2. stream[conn][p + i] = [frame |-> f, at |-> i]
      BY <2>3
    <3> QED BY <3>1, <3>2 DEF Ended
  <2>5. stream[conn][arrived[conn]] = [frame |-> f, at |-> Size]
    BY <1>1, <2>1, <2>3
  <2>6. CutAt(conn) = IF Size < HeadSize THEN "head" ELSE "body"
    BY <1>1, <1>3, <2>1, <2>5 DEF CutAt, Ended
  <2>7. ASSUME NEW j \in 1 .. arrived[conn], Ended(stream[conn][j]), ~(j <= p)
        PROVE  FALSE
    <3>1. j - p \in 1 .. Size /\ p + (j - p) = j
      BY <1>1, <2>7
    <3> QED BY <2>4, <2>7, <3>1
  <2> QED BY <1>3, <2>6, <2>7 DEF p
<1> QED BY <1>2, <1>3

\* Then the messages handed on and queued for the connection that ran last are
\* its whole frames, in order, and all of them are valid.
LEMMA OutIsWhole ==
  ASSUME TypeOK, OutInv, ~oob, Aligned, Len(Out(conn)) \in Nat,
         Size > 0 => Size < LastAt(Cell(1).frame)
  PROVE  /\ {Out(conn)[i] : i \in DOMAIN Out(conn)} = Whole(conn)
         /\ \A i \in DOMAIN Out(conn) : Out(conn)[i].num = i
         /\ \A f \in Whole(conn) : f.kind = "data"
<1> DEFINE q == Out(conn)
<1>1. conn \in Conns /\ Size \in Nat /\ arrived[conn] \in Nat
  BY StreamFacts DEF TypeOK, Size
<1>2. \A i \in DOMAIN q : Sent(conn, q[i], i)
  BY <1>1 DEF OutInv
<1>3. ASSUME NEW i \in DOMAIN q PROVE q[i] \in Whole(conn)
  <2>1. PICK j \in 1 .. arrived[conn] : stream[conn][j] = [frame |-> q[i], at |-> LastAt(q[i])]
    BY <1>2 DEF Sent
  <2> QED BY <2>1 DEF Whole, Ended
<1>4. ASSUME NEW f \in Whole(conn) PROVE \E i \in DOMAIN q : q[i] = f
  <2>1. PICK j \in 1 .. arrived[conn] : Ended(stream[conn][j]) /\ f = stream[conn][j].frame
    BY DEF Whole
  <2>2. j \in 1 .. arrived[conn] - Size
    BY <1>1, <2>1, FrontIsCut
  <2> QED BY <2>1, <2>2 DEF Aligned, Accounts, Ended
<1> HIDE DEF q
<1>5. {q[i] : i \in DOMAIN q} = Whole(conn)
  BY <1>3, <1>4
<1>6. \A i \in DOMAIN q : q[i].num = i /\ q[i].kind = "data"
  BY <1>2 DEF Sent
<1> QED BY <1>4, <1>5, <1>6 DEF q

\* A decoder that has not failed holds no whole frame back between two calls,
\* unless the connections interleaved inside a frame.
THEOREM NoneHeldBack == Spec => []Complete
<1>1. TypeInv /\ DeliveryInv => Complete
  <2> SUFFICES ASSUME TypeInv, DeliveryInv, pc = "idle", ~failed, ~Interleaved,
                      NEW c \in Conns, NEW j \in 1 .. arrived[c],
                      stream[c][j].at = LastAt(stream[c][j].frame)
               PROVE  \E i \in DOMAIN delivered[c] : delivered[c][i] = stream[c][j].frame
    BY DEF Complete
  <2>1. /\ TypeOK /\ conn \in Conns /\ Size \in Nat /\ arrived[conn] \in Nat
        /\ Len(Out(conn)) \in Nat /\ Aligned /\ msgQ = <<>> /\ ~oob /\ OutInv
    BY Standing, StreamFacts DEF DeliveryInv, LiveInv
  <2>2. CASE c # conn
    BY <2>1, <2>2 DEF Aligned, Accounts
  <2>3. CASE c = conn
    <3>1. stream[conn][j].frame \in Whole(conn)
      BY <2>3 DEF Whole, Ended
    <3>2. {Out(conn)[i] : i \in DOMAIN Out(conn)} = Whole(conn)
      BY <2>1, OutIsWhole DEF Aligned
    <3>3. Out(conn) = delivered[conn]
      BY <2>1, OutType
    <3> QED BY <2>3, <3>1, <3>2, <3>3
  <2> QED BY <2>2, <2>3
<1> QED BY <1>1, DeliveryCorrect, PTL

\* The first call to fail does so on a frame that is no data frame, on a body
\* whose header an earlier call parsed, or after connections interleaved.
THEOREM FailureCaused == Spec => FailureHasCause
<1>1. TypeInv /\ SuspInv /\ DeliveryInv /\ [Next]_vars =>
        [~failed /\ failed' => \/ Cell(1).frame.kind # "data"
                               \/ (status = "HEAD" /\ off = 0)
                               \/ Interleaved]_vars
  <2> SUFFICES ASSUME TypeInv, SuspInv, DeliveryInv, Next, ~failed, failed', ~Interleaved
               PROVE  Cell(1).frame.kind # "data" \/ (status = "HEAD" /\ off = 0)
    OBVIOUS
  <2>1. HeadRefused \/ BodyRefused
    BY DEF Next, OnMessage, HeadIncomplete, HeadParsed, BodyIncomplete, BodyParsed,
           PushMsg, Dispatch, DrainDone, ReturnTrue, history
  <2>a. Aligned
    BY DEF DeliveryInv, LiveInv
  <2>2. CASE HeadRefused
    BY <2>a, <2>2, FirstFailure
  <2>3. CASE BodyRefused
    BY <2>a, <2>3, FirstFailure DEF BodyRefused
  <2> QED BY <2>1, <2>2, <2>3
<1> QED BY <1>1, DeliveryCorrect, PTL DEF Spec, FailureHasCause

\* The CRC check reads before mCurReserved only if a frame with a wrong CRC was
\* fed, or bytes of interleaved connections.
THEOREM OutOfBoundsCaused == Spec => []OobNeedsBadCrc
<1>1. DeliveryInv => OobNeedsBadCrc
  BY DEF DeliveryInv, CauseInv, OobNeedsBadCrc, Damaged
<1> QED BY <1>1, DeliveryCorrect, PTL


-----------------------------------------------------------------------------
(* The decoder frame by frame *)

\* A frame in an aligned decoder is not broken.
LEMMA AlignedNotBroken == TypeOK /\ Aligned => ~Broken
<1> SUFFICES ASSUME TypeOK, Aligned, Broken PROVE FALSE
  OBVIOUS
<1>0. Len(Out(conn)) \in Nat
  BY OutType
<1>1. PICK i \in 1 .. Size : i <= LastAt(Cell(1).frame) /\ Cell(i).frame # Cell(1).frame
  BY DEF Broken
<1>2. Cell(i) = [frame |-> Cell(1).frame, at |-> i]
  BY <1>0, <1>1, FrontRun
<1> QED BY <1>1, <1>2

\* The same of the state after a step.
LEMMA AlignedNotBrokenNext == TypeOK' /\ Aligned' => ~Broken'
BY AlignedNotBroken, PTL

\* What a decoder that has not failed holds in mMsgQ when its calls bring nothing
\* any more.
CallInv ==
  ~failed => /\ Broken => msgQ = <<>>
             /\ suspended /\ pc = "parser" => msgQ = <<>>

Steady == TypeInv /\ FailInv /\ SuspInv /\ DeliveryInv

\* What the steps of a call leave alone.
LEMMA BrokenKept ==
  UNCHANGED <<fed, base>> => Size' = Size /\ (Broken' <=> Broken)
BY DEF Broken, Size, Cell, LastAt

\* A frame that is pushed was not broken, and none is after it.
LEMMA PushNotBroken ==
  ASSUME Steady, PushMsg, ~failed
  PROVE  ~Broken /\ ~Broken'
<1>1. TypeInv /\ TypeOK /\ BodyInv /\ LiveInv /\ status = "BODY"
  BY DEF Steady, DeliveryInv, LiveInv, TypeInv, PushMsg
<1>2. ~Broken
  BY <1>1, WholeNotBroken
<1>3. Aligned
  BY <1>1, <1>2 DEF LiveInv
<1>4. Aligned' /\ TypeOK'
  BY <1>1, <1>3, PushAligned, TypeNext DEF Next, TypeInv
<1> QED BY <1>2, <1>4, AlignedNotBrokenNext

\* Bytes that arrive go behind those of a broken frame, and break one if they are
\* of another connection than its.
LEMMA ReadBreaks ==
  ASSUME Steady, NEW c \in Conns, NEW n \in 1 .. Len(stream[c]), OnMessage(c, n), ~failed
  PROVE  Broken' <=> Broken \/ \E d \in Conns \ {c} : CutAt(d) # "frame"
<1>1. /\ TypeInv /\ TypeOK /\ LiveInv /\ pc = "idle" /\ msgQ = <<>>
      /\ conn \in Conns /\ Size \in Nat /\ Len(Out(conn)) \in Nat
      /\ Out(conn) = delivered[conn]
      /\ Aligned \/ Broken
  <2>1. TypeInv /\ TypeOK /\ LiveInv /\ pc = "idle" /\ CauseInv
    BY DEF Steady, DeliveryInv, TypeInv, OnMessage
  <2> QED BY <2>1, Standing, OutType DEF LiveInv
<1>2. CASE Broken
  <2>1. PICK i \in 1 .. Size : i <= LastAt(Cell(1).frame) /\ Cell(i).frame # Cell(1).frame
    BY <1>2 DEF Broken
  <2>2. /\ Size' \in Nat /\ Size' >= Size
        /\ \A k \in 1 .. Size : Cell(k)' = Cell(k)
    BY <1>1, OnMessageKeeps
  <2>3. 1 \in 1 .. Size /\ i \in 1 .. Size'
    BY <1>1, <2>1, <2>2
  <2>4. Cell(1)' = Cell(1) /\ Cell(i)' = Cell(i)
    BY <2>2, <2>3
  <2> QED BY <1>2, <2>1, <2>3, <2>4 DEF Broken, LastAt
<1>3. CASE Aligned
  <2>0. ~Broken
    BY <1>1, <1>3, AlignedNotBroken
  <2>1. /\ CutAt(conn) = IF Size = 0 THEN "frame"
                         ELSE IF Size < HeadSize THEN "head" ELSE "body"
        /\ \A d \in Conns \ {conn} : CutAt(d) = "frame"
    <3>1. Size > 0 => Size < LastAt(Cell(1).frame)
      BY <1>1, <1>3 DEF Aligned
    <3>2. \A d \in Conns \ {conn} : CutAt(d) = "frame"
      BY <1>3 DEF Aligned, Accounts, CutAt, Ended
    <3> QED BY <1>1, <1>3, <3>1, <3>2, FrontIsCut
  <2>2. Aligned' => ~Broken'
    BY <1>1, TypeNext, AlignedNotBrokenNext DEF Next, TypeInv
  <2>3. CASE c = conn
    <3>1. n \in 1 .. Len(stream[conn]) /\ OnMessage(conn, n)
      BY <2>3
    <3>2. Aligned'
      BY <1>1, <1>3, <3>1, SameConnection
    <3> QED BY <2>0, <2>1, <2>2, <2>3, <3>2
  <2>4. CASE c # conn
    <3>1. (Size = 0 => Aligned') /\ (Size # 0 => Broken')
      BY <1>1, <1>3, <2>4, OtherConnection
    <3> QED BY <1>1, <2>0, <2>1, <2>2, <2>4, <3>1
  <2> QED BY <2>3, <2>4
<1> QED BY <1>1, <1>2, <1>3

LEMMA CallNext == Steady /\ CallInv /\ [Next]_vars => CallInv'
<1> SUFFICES ASSUME Steady, CallInv, [Next]_vars, ~failed'
             PROVE  /\ Broken' => msgQ' = <<>>
                    /\ suspended' /\ pc' = "parser" => msgQ' = <<>>
  BY DEF CallInv
<1> DEFINE Goal == /\ Broken' => msgQ' = <<>>
                   /\ suspended' /\ pc' = "parser" => msgQ' = <<>>
<1>1. ASSUME NEW c \in Conns, NEW n \in 1 .. Len(stream[c]), OnMessage(c, n)
      PROVE  Goal
  <2>1. msgQ' = msgQ /\ pc = "idle" /\ ~failed
    BY <1>1 DEF OnMessage, history
  <2> QED BY <2>1 DEF Steady, DeliveryInv, LiveInv
<1>2. ASSUME HeadIncomplete \/ BodyIncomplete PROVE Goal
  <2>1. UNCHANGED <<fed, base, msgQ, failed>> /\ pc' = "drain"
    BY <1>2 DEF HeadIncomplete, BodyIncomplete, ReturnTrue, decoder
  <2> QED BY <2>1, BrokenKept DEF CallInv
<1>3. ASSUME HeadParsed \/ BodyParsed PROVE Goal
  <2>1. UNCHANGED <<fed, base, msgQ, failed, suspended, pc>>
    BY <1>3 DEF HeadParsed, BodyParsed, control, history
  <2> QED BY <2>1, BrokenKept DEF CallInv
<1>4. ~HeadRefused /\ ~BodyRefused
  BY DEF HeadRefused, BodyRefused, ReturnFalse
<1>5. ASSUME PushMsg PROVE Goal
  <2>1. ~failed /\ suspended' = suspended /\ status = "BODY"
    BY <1>5 DEF PushMsg, history
  <2>2. ~Broken'
    BY <1>5, <2>1, PushNotBroken
  <2>3. ~oob
    BY <2>1 DEF Steady, DeliveryInv, CauseInv
  <2> QED BY <2>1, <2>2, <2>3 DEF Steady, SuspInv
<1>6. ASSUME Dispatch PROVE Goal
  <2>1. UNCHANGED <<fed, base, failed, pc>> /\ msgQ # <<>> /\ pc = "drain"
    BY <1>6 DEF Dispatch, control, history
  <2> QED BY <2>1, BrokenKept DEF CallInv
<1>7. ASSUME DrainDone PROVE Goal
  BY <1>7 DEF DrainDone, decoder
<1>8. ASSUME UNCHANGED vars PROVE Goal
  <2>1. UNCHANGED <<fed, base, msgQ, failed, suspended, pc>>
    BY <1>8 DEF vars, decoder, control, history
  <2> QED BY <2>1, BrokenKept DEF CallInv
<1> QED BY <1>1, <1>2, <1>3, <1>4, <1>5, <1>6, <1>7, <1>8 DEF Next


\* A call of onMessage is a read.
LEMMA FramesRead ==
  ASSUME Steady, NEW c \in Conns, NEW n \in 1 .. Len(stream[c]), OnMessage(c, n)
  PROVE  Frames!Read(c)
<1>1. /\ TypeOK /\ n \in Nat /\ arrived \in [Conns -> Nat]
      /\ arrived' = [arrived EXCEPT ![c] = @ + n]
      /\ UNCHANGED <<stream, msgQ, delivered, failed, suspended, oob>>
      /\ pc = "idle" /\ pc' = "parser" /\ conn' = c
  <2>1. TypeOK
    BY DEF Steady, TypeInv
  <2>2. n \in Nat /\ arrived \in [Conns -> Nat]
    BY <2>1, StreamFacts DEF TypeOK
  <2> QED BY <2>1, <2>2 DEF OnMessage, history
<1>2. /\ arrived[c] \in Nat /\ arrived'[c] = arrived[c] + n
      /\ \A d \in Conns \ {c} : arrived'[d] = arrived[d]
  BY <1>1
<1>3. \A d \in Conns \ {c} : /\ Whole(d)' = Whole(d) /\ CutAt(d)' = CutAt(d)
                             /\ Unfit(d)' = Unfit(d)
  BY <1>1, <1>2 DEF Whole, CutAt, Unfit, Ended, LastAt
<1>4. Whole(c) \subseteq Whole(c)' /\ (Unfit(c) => Unfit(c)')
  <2>1. \A j \in 1 .. arrived[c] : j \in 1 .. arrived'[c]
    BY <1>1, <1>2
  <2> QED BY <1>1, <2>1 DEF Whole, Unfit, Ended, LastAt
<1>5. CutAt(c)' \in {"frame", "head", "body"}
  BY DEF CutAt
<1>6. (failed \/ suspended \/ Broken)' <=>
        \/ failed \/ suspended \/ Broken
        \/ \E d \in Conns \ {c} : CutAt(d) # "frame"
  <2>1. CASE failed \/ suspended
    BY <1>1, <2>1
  <2>2. CASE ~failed
    BY <1>1, <2>2, ReadBreaks
  <2> QED BY <2>1, <2>2
<1>7. /\ [d \in Conns |-> Whole(d)]' = [[d \in Conns |-> Whole(d)] EXCEPT ![c] = Whole(c)']
      /\ [d \in Conns |-> CutAt(d)]' = [[d \in Conns |-> CutAt(d)] EXCEPT ![c] = CutAt(c)']
      /\ [d \in Conns |-> Unfit(d)]' = [[d \in Conns |-> Unfit(d)] EXCEPT ![c] = Unfit(c)']
  BY <1>3
<1> QED BY <1>1, <1>3, <1>4, <1>5, <1>6, <1>7 DEF Frames!Read

\* The rest of a decoder's steps leave what has arrived alone.
LEMMA WireKept ==
  UNCHANGED <<stream, arrived>> => UNCHANGED Frames!wire
BY DEF Frames!wire, Whole, CutAt, Unfit, Ended, LastAt


\* What a call has queued when it ends, or is over with it.
LEMMA CallStanding ==
  ASSUME Steady, CallInv, pc = "parser", ~oob
  PROVE  /\ TypeOK /\ conn \in Conns /\ Len(Out(conn)) \in Nat /\ Size \in Nat
         /\ failed \/ suspended \/ Broken \/ Aligned
         /\ ~failed /\ (suspended \/ Broken) => msgQ = <<>>
         /\ ~failed => Out(conn) = delivered[conn] \o msgQ
<1>1. TypeOK /\ CauseInv /\ LiveInv
  BY DEF Steady, TypeInv, DeliveryInv
<1> QED BY <1>1, Standing DEF Steady, CallInv, LiveInv, Out

\* A decoder that holds less than its front frame has queued all of the whole
\* frames of the running connection that are not handed on yet.
LEMMA QueueLists ==
  ASSUME Steady, CallInv, pc = "parser", ~oob, ~failed, Aligned,
         Size > 0 => Size < LastAt(Cell(1).frame)
  PROVE  /\ \A f \in Whole(conn) : f.kind = "data"
         /\ msgQ \in Seq(Whole(conn))
         /\ Frames!Lists(delivered[conn] \o msgQ, Whole(conn))
<1> DEFINE q == delivered[conn] \o msgQ
<1>1. /\ TypeOK /\ conn \in Conns /\ Len(Out(conn)) \in Nat /\ Out(conn) = q /\ OutInv
  BY CallStanding DEF Steady, DeliveryInv
<1>2. /\ {q[i] : i \in DOMAIN q} = Whole(conn)
      /\ \A i \in DOMAIN q : q[i].num = i
      /\ \A f \in Whole(conn) : f.kind = "data"
  BY <1>1, OutIsWhole
<1>3. msgQ \in Seq(Whole(conn))
  <2>1. /\ delivered[conn] \in Seq(Frame \cup {NoFrame})
        /\ msgQ \in Seq(Frame \cup {NoFrame})
    BY <1>1, OutType
  <2>2. ASSUME NEW i \in 1 .. Len(msgQ) PROVE msgQ[i] \in Whole(conn)
    <3>1. Len(delivered[conn]) + i \in DOMAIN q /\ q[Len(delivered[conn]) + i] = msgQ[i]
      BY <2>1
    <3> HIDE DEF q
    <3> QED BY <1>2, <3>1
  <2> QED BY <2>1, <2>2
<1> QED BY <1>2, <1>3 DEF Frames!Lists

\* A call that ends with parser() returning true: a decoder that is not dead
\* holds less than its front frame, and is if that has its header.
LEMMA FramesAccept ==
  ASSUME Steady, CallInv, pc = "parser", ~oob, ~failed, ReturnTrue,
         UNCHANGED <<fed, base, msgQ, oob>>,
         suspended => suspended',
         ~suspended /\ Aligned =>
           /\ Size > 0 => Size < LastAt(Cell(1).frame)
           /\ suspended' <=> CutAt(conn) = "body"
  PROVE  Frames!Accept
<1>1. /\ TypeOK /\ conn \in Conns
      /\ suspended \/ Broken \/ Aligned
      /\ suspended \/ Broken => msgQ = <<>>
  BY CallStanding
<1>2. /\ pc' = "drain" /\ UNCHANGED <<conn, delivered, failed>>
      /\ (Broken' <=> Broken) /\ UNCHANGED Frames!wire
  BY BrokenKept, WireKept DEF ReturnTrue
<1>3. CASE suspended \/ Broken
  BY <1>1, <1>2, <1>3 DEF Frames!Accept
<1>4. CASE ~suspended /\ ~Broken
  <2>1. Aligned /\ (Size > 0 => Size < LastAt(Cell(1).frame))
    BY <1>1, <1>4
  <2>2. /\ \A f \in Whole(conn) : f.kind = "data"
        /\ msgQ \in Seq(Whole(conn))
        /\ Frames!Lists(delivered[conn] \o msgQ, Whole(conn))
    BY <2>1, QueueLists
  <2>3. (failed \/ suspended \/ Broken)' <=> CutAt(conn) = "body"
    BY <1>2, <1>4, <2>1
  <2> QED BY <1>1, <1>2, <1>4, <2>2, <2>3 DEF Frames!Accept
<1> QED BY <1>3, <1>4

\* An incomplete header: what is left of the wire is less than one.
LEMMA HeadIncompleteAccepts ==
  ASSUME Steady, CallInv, ~oob, HeadIncomplete
  PROVE  Frames!Accept
<1>1. /\ pc = "parser" /\ status = "INIT" /\ Size < HeadSize /\ ReturnTrue
      /\ UNCHANGED <<fed, base, msgQ, oob, suspended>>
  BY DEF HeadIncomplete, decoder
<1>2. Size \in Nat /\ HeadSize \in Nat \ {0} /\ TypeOK /\ Len(Out(conn)) \in Nat
  BY <1>1, CallStanding, SizesAssumption
<1>3. ~failed /\ ~suspended
  BY <1>1, <1>2 DEF Steady, FailInv, SuspInv, Stuck
<1>4. ASSUME Aligned
      PROVE  /\ Size > 0 => Size < LastAt(Cell(1).frame)
             /\ CutAt(conn) # "body"
  <2>1. Size > 0 => Size < LastAt(Cell(1).frame)
    <3> SUFFICES ASSUME Size > 0 PROVE Size < LastAt(Cell(1).frame)
      OBVIOUS
    <3>1. 1 \in 1 .. Size
      BY <1>2
    <3>2. LastAt(Cell(1).frame) \in Nat /\ LastAt(Cell(1).frame) > HeadSize
      BY <1>2, <3>1, CellType, ByteFields
    <3> QED BY <1>1, <1>2, <3>2
  <2> QED BY <1>1, <1>2, <1>4, <2>1, FrontIsCut
<1> QED BY <1>1, <1>3, <1>4, FramesAccept

\* An incomplete body: what is left of the wire ends between the header in front
\* and the end of its body.
LEMMA BodyIncompleteAccepts ==
  ASSUME Steady, CallInv, ~oob, BodyIncomplete
  PROVE  Frames!Accept
<1>1. /\ pc = "parser" /\ status = "HEAD" /\ Size - off < curMsg.body /\ ReturnTrue
      /\ UNCHANGED <<fed, base, msgQ, oob>> /\ suspended' = TRUE
  BY DEF BodyIncomplete, decoder
<1>2. /\ Size \in Nat /\ HeadSize \in Nat \ {0} /\ TypeOK /\ Len(Out(conn)) \in Nat
      /\ curMsg.body \in Nat /\ off \in {0, HeadSize}
  BY <1>1, CallStanding, SizesAssumption DEF TypeOK
<1>3. ~failed
  BY <1>1, <1>2 DEF Steady, FailInv, Stuck
<1>4. ASSUME Aligned, ~suspended
      PROVE  Size < LastAt(Cell(1).frame) /\ CutAt(conn) = "body"
  <2>1. off = HeadSize
    BY <1>1, <1>3, <1>4 DEF Steady, SuspInv
  <2>2. Size >= HeadSize /\ HeadInv
    BY <1>1, <1>3 DEF Steady, DeliveryInv, LiveInv, HeadInv
  <2>3. curMsg.body = Cell(1).frame.body
    <3>1. HeadIntact
      BY <1>2, <1>4, <2>2, AlignedHead
    <3> QED BY <1>1, <2>2, <3>1 DEF HeadInv
  <2>4. Size < LastAt(Cell(1).frame)
    BY <1>1, <1>2, <2>1, <2>3 DEF LastAt
  <2> QED BY <1>2, <1>4, <2>2, <2>4, FrontIsCut
<1> QED BY <1>1, <1>3, <1>4, FramesAccept

\* A call that fails kills the decoder, which was dead already or has met a frame
\* that has to be refused.
LEMMA FramesRefuse ==
  ASSUME Steady, CallInv, ~oob', HeadRefused \/ BodyRefused
  PROVE  Frames!Refuse /\ oob' = oob
<1>1. /\ pc = "parser" /\ pc' = "idle" /\ failed' = TRUE
      /\ UNCHANGED <<stream, arrived, conn, delivered>>
  BY DEF HeadRefused, BodyRefused, ReturnFalse, wire
<1>0. oob \in BOOLEAN /\ oob' \in BOOLEAN
  <2>1. TypeInv /\ TypeInv'
    BY TypeNext DEF Steady, Next
  <2> QED BY <2>1 DEF TypeInv, TypeOK
<1>2. ~oob /\ oob' = oob
  BY <1>0 DEF HeadRefused, BodyRefused
<1>3. UNCHANGED Frames!wire
  BY <1>1, WireKept
<1>4. ASSUME ~(failed \/ suspended \/ Broken) PROVE Unfit(conn)
  <2>1. TypeInv /\ TypeOK /\ SuspInv /\ DeliveryInv /\ Aligned /\ conn \in Conns
    BY <1>1, <1>2, <1>4, CallStanding DEF Steady
  <2>2. Size >= 1 /\ Cell(1).frame.kind # "data"
    <3>1. CASE HeadRefused
      BY <1>4, <2>1, <3>1, FirstFailure, SizesAssumption, CallStanding, <1>1, <1>2 DEF HeadRefused
    <3>2. CASE BodyRefused
      <4>1. /\ Cell(1).frame.kind \in {"nullBody", "badCrc"}
            /\ status = "HEAD"
        BY <1>4, <2>1, <3>2, FirstFailure DEF BodyRefused
      <4>2. Size >= HeadSize
        BY <1>4, <2>1, <4>1 DEF DeliveryInv, LiveInv, HeadInv
      <4> QED BY <4>1, <4>2, SizesAssumption, CallStanding, <1>1, <1>2
    <3> QED BY <3>1, <3>2
  <2>3. /\ Size \in Nat /\ arrived[conn] \in Nat /\ Size <= arrived[conn]
        /\ 1 \in 1 .. Size
    BY <2>1, <2>2, StreamFacts, CallStanding, <1>1, <1>2 DEF Aligned
  <2>4. Cell(1) = stream[conn][arrived[conn] - Size + 1]
    BY <2>1, <2>3 DEF Aligned
  <2>5. arrived[conn] - Size + 1 \in 1 .. arrived[conn]
    BY <2>2, <2>3
  <2> QED BY <2>2, <2>4, <2>5 DEF Unfit
<1>5. conn \in Conns
  BY <1>1, <1>2, CallStanding
<1> QED BY <1>1, <1>2, <1>3, <1>4, <1>5 DEF Frames!Refuse

\* The steps inside of a call do not show, and those that drain the queue are the
\* abstract decoder's.
LEMMA FramesInside ==
  ASSUME Steady, CallInv, ~oob', HeadParsed \/ BodyParsed \/ PushMsg
  PROVE  UNCHANGED Frames!vars
<1>0. oob \in BOOLEAN /\ oob' \in BOOLEAN
  <2>1. TypeInv /\ TypeInv'
    BY TypeNext DEF Steady, Next
  <2> QED BY <2>1 DEF TypeInv, TypeOK
<1>1. /\ pc = "parser" /\ ~oob /\ oob' = oob
      /\ UNCHANGED <<stream, arrived, pc, conn, delivered, failed, suspended>>
  BY <1>0 DEF HeadParsed, BodyParsed, PushMsg, wire, control, history
<1>2. UNCHANGED Frames!wire
  BY <1>1, WireKept
<1>3. Broken' <=> Broken
  <2>1. CASE HeadParsed \/ BodyParsed
    <3>1. UNCHANGED <<fed, base>>
      BY <2>1 DEF HeadParsed, BodyParsed
    <3> QED BY <3>1, BrokenKept
  <2>2. CASE PushMsg
    <3>1. ~failed
      BY <1>1, <2>2 DEF PushMsg, Steady, FailInv, Stuck
    <3> QED BY <2>2, <3>1, PushNotBroken
  <2> QED BY <2>1, <2>2
<1> QED BY <1>1, <1>2, <1>3 DEF Frames!vars

LEMMA FramesDrain ==
  ASSUME Dispatch \/ DrainDone
  PROVE  (Frames!HandOn \/ Frames!Done) /\ oob' = oob
<1>1. /\ pc = "drain" /\ UNCHANGED <<stream, arrived, fed, base, conn, failed, suspended, oob>>
  BY DEF Dispatch, DrainDone, wire, decoder, control, history
<1>2. UNCHANGED Frames!wire /\ (Broken' <=> Broken)
  BY <1>1, WireKept, BrokenKept
<1>3. CASE Dispatch
  BY <1>1, <1>2, <1>3 DEF Dispatch, control, Frames!HandOn
<1>4. CASE DrainDone
  BY <1>1, <1>2, <1>4 DEF DrainDone, decoder, Frames!Done
<1> QED BY <1>3, <1>4

LEMMA FramesInit == Init => CallInv /\ Frames!Init
<1> SUFFICES ASSUME Init PROVE CallInv /\ Frames!Init
  OBVIOUS
<1>1. /\ Size = 0 /\ ~failed /\ ~suspended /\ ~oob /\ msgQ = <<>> /\ pc = "idle"
      /\ conn \in Conns /\ delivered = [c \in Conns |-> <<>>]
      /\ \A c \in Conns : arrived[c] = 0
  BY DEF Init, Size
<1>2. ~Broken
  BY <1>1 DEF Broken
<1>3. ASSUME NEW c \in Conns PROVE Whole(c) = {} /\ CutAt(c) = "frame" /\ Unfit(c) = FALSE
  <2>1. 1 .. arrived[c] = {}
    BY <1>1
  <2>2. Whole(c) = {} /\ Unfit(c) = FALSE
    BY <2>1 DEF Whole, Unfit
  <2> QED BY <1>1, <2>2 DEF CutAt
<1>4. /\ [c \in Conns |-> Whole(c)] = [c \in Conns |-> {}]
      /\ [c \in Conns |-> CutAt(c)] = [c \in Conns |-> "frame"]
      /\ [c \in Conns |-> Unfit(c)] = [c \in Conns |-> FALSE]
  BY <1>3
<1>5. (failed \/ suspended \/ Broken) = FALSE /\ oob = FALSE
  BY <1>1, <1>2 DEF Init
<1> QED BY <1>1, <1>2, <1>4, <1>5 DEF CallInv, Frames!Init

\* Every step of the decoder is one of the abstract decoder's, or does not show.
LEMMA FramesNext == Steady /\ CallInv /\ [Next]_vars => [Frames!Next]_(Frames!vars)
<1> SUFFICES ASSUME Steady, CallInv, [Next]_vars
             PROVE  Frames!Next \/ UNCHANGED Frames!vars
  OBVIOUS
<1>0. oob' \in BOOLEAN
  <2>1. TypeInv'
    BY TypeNext DEF Steady
  <2> QED BY <2>1 DEF TypeInv, TypeOK
<1> SUFFICES ASSUME ~oob' PROVE Frames!Next \/ UNCHANGED Frames!vars
  BY <1>0 DEF Frames!Next
<1>1. ASSUME NEW c \in Conns, NEW n \in 1 .. Len(stream[c]), OnMessage(c, n)
      PROVE  Frames!Next
  BY <1>1, FramesRead DEF OnMessage, history, Frames!Next
<1>2. ASSUME HeadIncomplete \/ BodyIncomplete PROVE Frames!Next
  <2>1. oob' = oob
    BY <1>2 DEF HeadIncomplete, BodyIncomplete
  <2> QED BY <1>2, <2>1, HeadIncompleteAccepts, BodyIncompleteAccepts DEF Frames!Next
<1>3. ASSUME HeadRefused \/ BodyRefused PROVE Frames!Next
  BY <1>3, FramesRefuse DEF Frames!Next
<1>4. ASSUME HeadParsed \/ BodyParsed \/ PushMsg PROVE UNCHANGED Frames!vars
  BY <1>4, FramesInside
<1>5. ASSUME Dispatch \/ DrainDone PROVE Frames!Next
  BY <1>5, FramesDrain DEF Frames!Next
<1>6. ASSUME UNCHANGED vars PROVE UNCHANGED Frames!vars
  <2>1. UNCHANGED <<stream, arrived, fed, base, msgQ, pc, conn, delivered, failed, suspended, oob>>
    BY <1>6 DEF vars, wire, decoder, control, history
  <2>2. UNCHANGED Frames!wire /\ (Broken' <=> Broken)
    BY <2>1, WireKept, BrokenKept
  <2> QED BY <2>1, <2>2 DEF Frames!vars
<1> QED BY <1>1, <1>2, <1>3, <1>4, <1>5, <1>6 DEF Next

\* The decoder that all connections share does what module FrameDecoder says in
\* frames: a read has every whole frame handed on, or none, and none any more once
\* a call has failed, a frame was suspended, or two connections met in one.
THEOREM DecodesFrameByFrame == Spec => FrameByFrame
<1>1. Init => Steady /\ CallInv /\ Frames!Init
  BY TypeInit, FailInit, SuspInit, DeliveryInit, FramesInit DEF Steady
<1>2. Steady /\ CallInv /\ [Next]_vars => (Steady /\ CallInv)'
  BY TypeNext, FailNext, SuspNext, LiveNext, OutNext, CauseNext, CallNext DEF Steady, DeliveryInv
<1> QED BY <1>1, <1>2, FramesNext, PTL DEF Spec, FrameByFrame, Frames!Spec

=============================================================================
