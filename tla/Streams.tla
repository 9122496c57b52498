------------------------------ MODULE Streams -------------------------------
(***************************************************************************)
(* The byte streams in terms of which the properties of the systems are    *)
(* stated: what a sequence of messages, pieces or chunks carries.          *)
(***************************************************************************)
EXTENDS Wire, SequencesExt

(* The cells of payload among some cells, and in a sequence of chunks.     *)
IsData(cell) == cell.t = "data"
Payload(cells) ==
  FlattenSeq([i \in DOMAIN cells |-> IF IsData(cells[i]) THEN << cells[i] >> ELSE << >>])
PayloadOf(chunks) == Payload(FlattenSeq(chunks))

(* The messages whose pieces these are.                                    *)
Messages(pieces) == [i \in 1 .. Whole(pieces) |-> Msg(pieces, i)]

(* The bodies of the data messages, or of all messages, of a sequence.     *)
DataIn(msgs) ==
  FlattenSeq([i \in DOMAIN msgs |-> IF msgs[i].sub = 2 THEN msgs[i].body ELSE << >>])
BodiesIn(msgs) == FlattenSeq([i \in DOMAIN msgs |-> msgs[i].body])

PiecesOf(msgs) == FlattenSeq([i \in DOMAIN msgs |-> Encoded(msgs[i])])

(* The first n tokens of a stream.                                         *)
Tokens(n) == [i \in 1 .. n |-> C("data", i)]
=============================================================================
