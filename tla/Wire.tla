-------------------------------- MODULE Wire --------------------------------
(***************************************************************************)
(* The data that crosses the three TCP connections of a tunnel             *)
(* (browser - tun_local - tun_remote - target), abstracted to what the     *)
(* properties tell apart.                                                  *)
(*                                                                         *)
(* A cell is a run of bytes of one meaning: one half of a SOCKS greeting   *)
(* or request, the two port bytes a request may leave behind, one token of *)
(* payload, the greeting answer, the SOCKS reply, or the body of a connect *)
(* message.  Its value numbers a payload token or names a variant.         *)
(*                                                                         *)
(* On the link between the two processes a ProxyMsg is encoded and framed. *)
(* A framed message occupies two pieces, so that a read of the socket may  *)
(* end inside it, and a receiver that lost a piece is out of step with the *)
(* frame boundaries.                                                       *)
(***************************************************************************)
EXTENDS Integers, Sequences

CellTypes == {"greet", "req", "port", "data",
              "greetrsp", "reply", "connreq", "connrsp"}

Cell == [t : CellTypes, v : Nat]

C(type, val) == [t |-> type, v |-> val]

(* A ProxyMsg: its subcmd (1 connect, 2 data), whether err_code is zero    *)
(* and check_sum matches the body, and the body.  A neighbour that is none *)
(* of the two programs may send bytes that are no frame.                   *)
Frame == [sub : 0 .. 2, ok : BOOLEAN, body : Seq(Cell)]

NoFrame == [sub |-> 0, ok |-> FALSE, body |-> << >>]

ConnectMsg(cells) == [sub |-> 1, ok |-> TRUE, body |-> cells]

DataMsg(cells) == [sub |-> 2, ok |-> TRUE, body |-> cells]

(* One half of a framed message.                                           *)
Piece == [f : Frame, half : {1, 2}]

(* Mutant: the body goes out as it is, without message and frame.          *)
Unframed(f) == f.body

(* encode() and addFrames(): the bytes a message becomes on the link.      *)
Encoded(f) == << [f |-> f, half |-> 1], [f |-> f, half |-> 2] >>

-----------------------------------------------------------------------------
(* The i-th two pieces of a receive buffer b are one framed message.       *)
Intact(b, i) ==
  /\ 2*i <= Len(b)
  /\ b[2*i - 1].half = 1 /\ b[2*i - 1].f.sub # 0
  /\ b[2*i] = [f |-> b[2*i - 1].f, half |-> 2]

(* It begins with anything but a message or the first half of one: with    *)
(* bytes that are no frame, inside a frame, or where a piece was lost.     *)
Garbled(b) ==
  /\ b # << >>
  /\ ~ Intact(b, 1)
  /\ Len(b) = 1 => b[1].half = 2 \/ b[1].f.sub = 0

(* Mutant: the frame is complete only when more bytes follow it.           *)
CheckWantsMore(b) == IF Garbled(b) THEN {-1, 0, 2}
                     ELSE IF Len(b) <= 2 THEN {0} ELSE {2}

(* FrameFacade::check on b, the values it may return: 0 for more data, 2   *)
(* for a frame, -1 for a length that none can have.  What the length of    *)
(* garbled bytes is read from may be anything: it may ask for more data,   *)
(* make a "frame" of them that will not parse, be an error that HttpFrame  *)
(* answers by a negative length, or wrap around at the fixed length frame  *)
(* to fewer bytes than its header has.  In the last two cases substr() or  *)
(* removeFrame() throws.                                                   *)
Check(b) == IF Garbled(b) THEN {-1, 0, 2}
            ELSE IF Len(b) < 2 THEN {0} ELSE {2}

(* The number of frames that have room in b.                               *)
Whole(b) == Len(b) \div 2

(* removeFrame, decode and parseAndCheck of the i-th frame of b succeed.   *)
FrameOk(b, i) ==
  Intact(b, i) /\ b[2*i].f.ok /\ b[2*i].f.body # << >>

Msg(b, i) == b[2*i].f

(* What is left of b behind its first n frames.                            *)
After(b, n) == SubSeq(b, 2*n + 1, Len(b))

(* Mutant: one message is handled per read instead of all.                 *)
ExtractsOne(b, len) ==
  { n \in 0 .. Whole(b) :
      IF n = 0 THEN len \in Check(b) ELSE n = 1 /\ FrameOk(b, 1) /\ len = 0 }

(* The numbers of messages the drain loops may have taken off b and parsed *)
(* when check() answers len for what is left.                              *)
Extracts(b, len) ==
  { n \in 0 .. Whole(b) :
      (\A i \in 1 .. n : FrameOk(b, i)) /\ len \in Check(After(b, n)) }

-----------------------------------------------------------------------------
(* The states of one end of a TCP connection.  Every socket is closed with *)
(* linger(true, 0), that is by a reset, which discards what TCP has not    *)
(* delivered: the reader at the other end of a closed connection may see   *)
(* the error while bytes are still in flight.                              *)
Ends == {"new", "up", "closed"}

Close(end) == IF end = "up" THEN "closed" ELSE end

(* What async_write adds to the stream q of a socket: nothing if the       *)
(* socket is closed, the write then only fails.                            *)
Sent(end, q, x) == IF end = "up" THEN q \o x ELSE q
=============================================================================
