---------------------------- MODULE FrameDecoder ----------------------------
(***************************************************************************)
(* What a decoder that several connections share does, told in frames: a   *)
(* read either kills it or has its whole frames handed on, and where the   *)
(* reads end decides which.  Module EchoSystem puts such a decoder at each *)
(* end of its connections.                                                 *)
(***************************************************************************)
EXTENDS Naturals, Sequences

CONSTANT Conns   \* connections, concurrent or successive, served by one handler

VARIABLES
  whole,    \* whole[c]: the frames of c that have arrived to their last byte
  cut,      \* cut[c]: what has arrived on c ends after a "frame", inside a
            \* "head", or inside a "body" (which may be wholly missing)
  unfit,    \* unfit[c]: a frame that has begun to arrive on c has to be refused
  pc,       \* a read is with the "parser", its frames "drain", or "idle"
  conn,     \* the connection read last
  queue,    \* frames of this read still to be handed on
  handed,   \* handed[c]: the frames handed on under c
  dead,     \* nothing is handed on any more
  astray    \* memory that is not the decoder's has been read

wire == <<whole, cut, unfit>>
vars == <<wire, pc, conn, queue, handed, dead, astray>>

\* Frames are numbered in the order of their stream; q lists those in S.
Lists(q, S) ==
  /\ {q[i] : i \in DOMAIN q} = S
  /\ \A i \in DOMAIN q : q[i].num = i

Init ==
  /\ whole = [c \in Conns |-> {}]
  /\ cut = [c \in Conns |-> "frame"]
  /\ unfit = [c \in Conns |-> FALSE]
  /\ pc = "idle" /\ conn \in Conns /\ queue = <<>>
  /\ handed = [c \in Conns |-> <<>>]
  /\ dead = FALSE /\ astray = FALSE

\* More arrives on c.  A frame that another connection has begun cannot go on.
Read(c) ==
  /\ pc = "idle" /\ pc' = "parser" /\ conn' = c
  /\ whole[c] \subseteq whole'[c] /\ whole' = [whole EXCEPT ![c] = whole'[c]]
  /\ cut' = [cut EXCEPT ![c] = cut'[c]] /\ cut'[c] \in {"frame", "head", "body"}
  /\ unfit[c] => unfit'[c] /\ unfit' = [unfit EXCEPT ![c] = unfit'[c]]
  /\ dead' = (dead \/ \E d \in Conns \ {c} : cut[d] # "frame")
  /\ UNCHANGED <<queue, handed>>

\* parser() returns true: every whole frame is one to be handed on.  A read that
\* ends between a header and the end of its body is the last to bring any.
Accept ==
  /\ pc = "parser" /\ pc' = "drain"
  /\ IF dead
     THEN queue' = <<>>
     ELSE /\ \A f \in whole[conn] : f.kind = "data"
          /\ queue' \in Seq(whole[conn])
          /\ Lists(handed[conn] \o queue', whole[conn])
  /\ dead' = (dead \/ cut[conn] = "body")
  /\ UNCHANGED <<wire, conn, handed>>

\* parser() returns false: none of this read's frames is handed on, and nothing
\* of any later one.
Refuse ==
  /\ pc = "parser" /\ pc' = "idle"
  /\ dead \/ unfit[conn]
  /\ dead' = TRUE
  /\ UNCHANGED <<wire, conn, queue, handed>>

HandOn ==
  /\ pc = "drain" /\ queue # <<>>
  /\ handed' = [handed EXCEPT ![conn] = Append(@, Head(queue))]
  /\ queue' = Tail(queue)
  /\ UNCHANGED <<wire, pc, conn, dead>>

Done ==
  /\ pc = "drain" /\ queue = <<>> /\ pc' = "idle"
  /\ UNCHANGED <<wire, conn, queue, handed, dead>>

\* Once memory of others has been read, nothing is promised.
Next ==
  \/ astray' = TRUE
  \/ /\ (\E c \in Conns : Read(c)) \/ Accept \/ Refuse \/ HandOn \/ Done
     /\ UNCHANGED astray

Spec == Init /\ [][Next]_vars

=============================================================================
