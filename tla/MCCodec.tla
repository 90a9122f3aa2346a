------------------------------- MODULE MCCodec -------------------------------
(***************************************************************************)
(* Messages whose fields reach the bounds of their widths, and bodies each *)
(* rule of validateJsonContent decides; TooLong has a body one byte longer *)
(* than MaxSize allows.                                                    *)
(***************************************************************************)
EXTENDS Codec, TLC

Body(kind, members, chars) ==
  [kind |-> kind, members |-> members,
   dump |-> [i \in DOMAIN chars |-> Bits(chars[i])]]

Member(key, value) == {[key |-> key, value |-> value]}

Number  == Body("object", Member("plain", "number"), <<123, 34, 97, 34, 58, 49, 125>>)
Brief   == Body("object", Member("plain", "string"), <<0, 255>>)
TooLong == Body("object", Member("plain", "number"), <<123, 34, 97, 34, 58, 49, 49, 125>>)
Null    == Body("null", {}, <<110, 117, 108, 108>>)
Empty   == Body("object", {}, <<123, 125>>)
Array   == Body("array", {}, <<91, 49, 93>>)
OddKey  == Body("object", Member("special", "number"), <<123, 36, 125>>)
LongOne == Body("object", Member("plain", "over 1024 long"), <<123, 1, 125>>)

Header(v, s, q, t) == [version |-> v, server |-> s, sequence |-> q, type |-> t]

Headers == {Header({0}, {0}, {0}, {}), Header({}, 0 .. 15, 0 .. 31, 0 .. 7),
            Header({0}, {8}, {16}, {0}), Header({1}, {0}, {0}, {})}

MCMessages ==
  {h @@ [body |-> b] : h \in Headers, b \in {Number, Brief}}
    \cup {Header({0}, {0}, {0}, {1}) @@ [body |-> b] :
            b \in {TooLong, Null, Empty, Array, OddKey, LongOne}}

\* Every single bit, one byte as a whole, and bursts of up to 16 bits.
MCMasks ==
  {<<{k}, {}>> : k \in 0 .. 7} \cup {<<{}, {k}>> : k \in 0 .. 7}
    \cup {<<0 .. 7, {}>>, <<0 .. 7, 0 .. 7>>, <<{0}, {7}>>, <<{7}, {0}>>,
          <<{4}, {0, 5}>>}

=============================================================================
