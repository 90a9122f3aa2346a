-------------------------------- MODULE Codec --------------------------------
(***************************************************************************)
(* The bytes of a frame: MyProtoEncode::encode, the fields parserHead      *)
(* reads, the CRC-16 and validateJsonContent.  A frame is encoded, may be  *)
(* damaged on its way in one byte or two neighbours, and is decoded.       *)
(*                                                                         *)
(* An unsigned integer of w bits is the set of the places of its one bits: *)
(* ^ is the symmetric difference, << moves the places up, and the same     *)
(* sets are the polynomials over GF(2) that a CRC divides.                 *)
(***************************************************************************)
EXTENDS Integers, Sequences

CONSTANTS
  Messages,    \* messages to encode: fields of the header, a body
  Masks,       \* pairs of bytes two bytes on the wire may be XORed with
  MaxSize      \* MY_PROTO_MAX_SIZE (10 MB)

VARIABLES
  msg,         \* the message encoded
  sender,      \* byte order of the host that encodes,
  receiver,    \* and of the one that decodes
  frame,       \* the bytes on the wire
  stage,       \* "message", "encoding", "sent", "checking" or "decoded"
  data, done, crc,  \* calculateCRC: its input, the bytes it has done, its result
  quotient,    \* history: the bits calculateCRC has shifted out of crc
  damaged,     \* bytes were changed on the way
  decoded      \* what the receiver makes of the frame

sum  == <<data, done, crc, quotient>>
ends == <<msg, sender, receiver>>
vars == <<ends, frame, stage, sum, damaged, decoded>>

HeadSize == 14
Refused  == [accepted |-> FALSE]

Word(w) == SUBSET (0 .. w - 1)
Byte    == Word(8)

Plus(x, y) == (x \ y) \cup (y \ x)
Up(x, n)   == {k + n : k \in x}

\* The number n as a uint32_t: bit k is bit k % 8 of byte k \div 8.
Bits(n) == {k \in 0 .. 31 : ((n \div 256 ^ (k \div 8)) \div 2 ^ (k % 8)) % 2 = 1}

\* A body is its dump and what validateJsonContent looks at: the kind of value,
\* and for an object the keys and values at its top level.
\* The length of a frame is a uint32_t, too.
ASSUME MessagesAssumption ==
  \A m \in Messages :
    /\ m.version \in Byte /\ m.server \in Word(16)
    /\ m.sequence \in Word(32) /\ m.type \in Byte
    /\ m.body.dump \in Seq(Byte)
    /\ (HeadSize + Len(m.body.dump)) \div 65536 < 65536
ASSUME WireAssumption ==
  Masks \subseteq (Byte \X Byte) \ {<<{}, {}>>} /\ MaxSize \in Nat

-----------------------------------------------------------------------------
(* Header fields *)

\* Byte n of x, byte 0 the least significant one.
ByteOf(x, n) == {k \in 0 .. 7 : k + 8 * n \in x}

\* htons and htonl: the most significant byte comes first.
headEncode(m, len) ==
  <<m.version,
    ByteOf(m.server, 1), ByteOf(m.server, 0),
    ByteOf(len, 3), ByteOf(len, 2), ByteOf(len, 1), ByteOf(len, 0),
    {}, {},
    ByteOf(m.sequence, 3), ByteOf(m.sequence, 2),
    ByteOf(m.sequence, 1), ByteOf(m.sequence, 0),
    m.type>>

\* ntohs and ntohl of the bytes of f from offset i on.
Short(f, i) == Up(f[i + 1], 8) \cup f[i + 2]
Long(f, i)  == Up(Short(f, i), 16) \cup Short(f, i + 2)

\* The two bytes of a uint16_t as a host stores them.
HostOrder(x, order) ==
  IF order = "big" THEN <<ByteOf(x, 1), ByteOf(x, 0)>>
                   ELSE <<ByteOf(x, 0), ByteOf(x, 1)>>

\* f with the two bytes v in its CRC field, which is at offset 7.
WithCRC(f, v) == [f EXCEPT ![8] = v[1], ![9] = v[2]]

-----------------------------------------------------------------------------
(* CRC-16/CCITT-FALSE *)

Polynomial == {0, 5, 12}   \* 0x1021

ShiftOnce(r) ==
  LET shifted == Up(r, 1) \cap 0 .. 15
  IN  IF 15 \in r THEN Plus(shifted, Polynomial) ELSE shifted

\* ShiftOnce of s.crc; s.quotient takes the bit shifted out.
Shift(s) ==
  [crc |-> ShiftOnce(s.crc),
   quotient |-> Up(s.quotient, 1) \cup (IF 15 \in s.crc THEN {0} ELSE {})]

ShiftTwice(s) == Shift(Shift(s))

AddByte(s, byte) ==
  ShiftTwice(ShiftTwice(ShiftTwice(ShiftTwice(
    [s EXCEPT !.crc = Plus(@, Up(byte, 8))]))))

\* calculateCRC(d), before its loop.
StartCRC(d) == data' = d /\ done' = 0 /\ crc' = 0 .. 15 /\ quotient' = {}

-----------------------------------------------------------------------------
(* Bodies *)

\* key() throws on the elements of anything but an object.
validateJsonContent(j) ==
  /\ j.kind = "object" /\ j.members # {}
  /\ \A m \in j.members : m.key # "special" /\ m.value # "over 1024 long"

-----------------------------------------------------------------------------
(* Encoding and decoding *)

Init ==
  /\ msg \in Messages
  /\ sender \in {"little", "big"}
  /\ receiver \in {"little", "big"}
  /\ frame = <<>>
  /\ stage = "message"
  /\ data = <<>> /\ done = 0 /\ crc = {} /\ quotient = {}
  /\ damaged = FALSE
  /\ decoded = Refused

\* encode, up to the CRC ...
Encode ==
  LET blank == headEncode(msg, Bits(HeadSize + Len(msg.body.dump))) \o msg.body.dump
  IN  /\ stage = "message"
      /\ frame' = blank
      /\ stage' = "encoding"
      /\ StartCRC(blank)
      /\ UNCHANGED <<ends, damaged, decoded>>

\* An iteration of the outer loop of calculateCRC.
AddThis(byte) ==
  LET s == AddByte([crc |-> crc, quotient |-> quotient], byte)
  IN  crc' = s.crc /\ quotient' = s.quotient

\* Variant of AddNext: the last byte is left out.
SkipLast ==
  /\ done < Len(data)
  /\ done' = done + 1
  /\ IF done' = Len(data) THEN UNCHANGED <<crc, quotient>> ELSE AddThis(data[done'])
  /\ UNCHANGED <<ends, frame, stage, data, damaged, decoded>>

AddNext ==
  /\ done < Len(data)
  /\ done' = done + 1
  /\ AddThis(data[done'])
  /\ UNCHANGED <<ends, frame, stage, data, damaged, decoded>>

\* ... and from there on: the CRC is stored as the host stores it.
FillCRC ==
  /\ stage = "encoding" /\ done = Len(data)
  /\ frame' = WithCRC(frame, HostOrder(crc, sender))
  /\ stage' = "sent"
  /\ UNCHANGED <<ends, sum, damaged, decoded>>

\* A burst of errors: bytes i and i + 1 are damaged, or one of them.  It spares
\* the length, which decides where a frame ends, and lies in the CRC or outside.
Hurt(f, i, mask) == [f EXCEPT ![i] = Plus(@, mask[1]), ![i + 1] = Plus(@, mask[2])]

Damage(i, mask) ==
  /\ stage = "sent" /\ ~damaged
  /\ i + 1 \in DOMAIN frame /\ i \notin 3 .. 7 /\ i # 9
  /\ frame' = Hurt(frame, i, mask)
  /\ damaged' = TRUE
  /\ UNCHANGED <<ends, stage, sum, decoded>>

\* What parserHead tests in a frame of undamaged length.
HeadPasses == frame[1] \in {{}, {0}} /\ Len(frame) <= MaxSize

\* parserBody up to the CRC: a damaged body may pass as JSON or not, whatever the
\* one sent did.
BodyDamaged == SubSeq(frame, HeadSize + 1, Len(frame)) # msg.body.dump

Refuse ==
  /\ stage = "sent"
  /\ HeadPasses => BodyDamaged \/ ~validateJsonContent(msg.body)
  /\ stage' = "decoded"
  /\ UNCHANGED <<ends, frame, sum, damaged, decoded>>

Passes == stage = "sent" /\ HeadPasses /\ (BodyDamaged \/ validateJsonContent(msg.body))

\* Variant of CheckCRC: the CRC field is not set to zero.
CheckAsItIs ==
  /\ Passes
  /\ stage' = "checking"
  /\ StartCRC(frame)
  /\ UNCHANGED <<ends, frame, damaged, decoded>>

CheckCRC ==
  /\ Passes
  /\ stage' = "checking"
  /\ StartCRC(WithCRC(frame, <<{}, {}>>))
  /\ UNCHANGED <<ends, frame, damaged, decoded>>

\* The fields of the frame f.
Fields(f) ==
  [accepted |-> TRUE, version |-> f[1], server |-> Short(f, 1), len |-> Long(f, 3),
   sequence |-> Long(f, 9), type |-> f[14], dump |-> SubSeq(f, HeadSize + 1, Len(f))]

CompareCRC ==
  /\ stage = "checking" /\ done = Len(data)
  /\ decoded' = IF HostOrder(crc, receiver) = <<frame[8], frame[9]>>
                THEN Fields(frame) ELSE Refused
  /\ stage' = "decoded"
  /\ UNCHANGED <<ends, frame, sum, damaged>>

Next ==
  \/ Encode \/ AddNext \/ FillCRC
  \/ \E i \in DOMAIN frame, mask \in Masks : Damage(i, mask)
  \/ Refuse \/ CheckCRC \/ CompareCRC

Spec == Init /\ [][Next]_vars

-----------------------------------------------------------------------------
(* Properties *)

\* What the first n of some bytes spell, and a multiple of the generator
\* x^16 + x^12 + x^5 + 1.
Spelled(bytes, n) == {k \in 0 .. 8 * n - 1 : k % 8 \in bytes[n - k \div 8]}

Multiple(q) == Plus(Plus(Up(q, 16), Up(q, 12)), Plus(Up(q, 5), q))

\* What the loop of calculateCRC has computed after any number of bytes is the
\* CRC its comment names (myproto.cpp:21-22): the remainder, by the generator, of
\* these bytes, their first 16 bits inverted, times x^16.
Dividend == Plus(Up(Spelled(data, done), 16), 8 * done .. 8 * done + 15)

CrcIsRemainder ==
  stage # "message" =>
    /\ crc \in Word(16) /\ quotient \in Word(8 * done)
    /\ Plus(Dividend, crc) = Multiple(quotient)

\* Between hosts of one byte order a frame is accepted exactly if it is undamaged,
\* of a supported version, no longer than MaxSize, and of a body that passes
\* validation, and then every field arrives as it was sent (headEncode against
\* parserHead, and the CRC, the only field in host order, taken over a frame that
\* contains it).
AcceptedAsSent ==
  stage = "decoded" /\ sender = receiver =>
    decoded =
      IF /\ ~damaged /\ msg.version \in {{}, {0}}
         /\ HeadSize + Len(msg.body.dump) <= MaxSize /\ validateJsonContent(msg.body)
      THEN [accepted |-> TRUE, version |-> msg.version, server |-> msg.server,
            len |-> Bits(HeadSize + Len(msg.body.dump)), sequence |-> msg.sequence,
            type |-> msg.type, dump |-> msg.body.dump]
      ELSE Refused

=============================================================================
