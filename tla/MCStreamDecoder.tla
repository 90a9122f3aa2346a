-------------------------- MODULE MCStreamDecoder --------------------------
(***************************************************************************)
(* Small wire streams for StreamDecoder.  MCShapes[c] lists, for each peer, *)
(* the sequences of frames it may send, a frame given as <<kind, body>>.   *)
(***************************************************************************)
EXTENDS StreamDecoder, SequencesExt

CONSTANTS c1, c2

\* The bytes of a sequence of frames.
Wire(c, shape) ==
  FlattenSeq([k \in DOMAIN shape |->
    [i \in 1 .. HeadSize + shape[k][2] |->
      [frame |-> [conn |-> c, num |-> k,
                  kind |-> shape[k][1], body |-> shape[k][2]],
       at |-> i]]])

MCShapes ==
  c1 :> { << <<"data", 1>>, <<"data", 4>> >>,
          << <<"data", 4>>, <<"data", 1>> >>,
          << <<"data", 1>>, <<"nullBody", 1>> >>,
          << <<"data", 1>>, <<"badCrc", 1>> >>,
          << <<"oversize", 1>>, <<"data", 1>> >> }
  @@ c2 :> { << <<"data", 1>> >>, << <<"nullBody", 1>> >> }

MCStreams ==
  [c \in {c1, c2} |-> {Wire(c, shape) : shape \in MCShapes[c]}]

\* One connection, valid data frames only.
MCGoodStreams == [c \in {c1} |-> {Wire(c, << <<"data", 1>>, <<"data", 2>> >>)}]

=============================================================================
