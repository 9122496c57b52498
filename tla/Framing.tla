------------------------------ MODULE Framing -------------------------------
(***************************************************************************)
(* One direction of the link at the level of strings: the sender frames    *)
(* its messages, TCP cuts and joins them anywhere, and the drain loop of   *)
(* Session::handleReadDataFromRemote and                                   *)
(* RemoteSession::handleWriteDataToTarget takes them out of its buffer.    *)
(* Wire takes for granted what is checked here.                            *)
(***************************************************************************)
EXTENDS Frames

CONSTANTS
  Payloads,  \* the encoded messages, as sequences of tokens
  Lists,     \* the lists of frames a setting may name
  Foreign,   \* strings of peers that frame otherwise: [to, text], to the list here
  MaxMsgs    \* bound: messages sent

VARIABLES
  list,   \* headerList_ of the receiver
  theirs, \* and of a sender that frames
  peer,   \* "framed", or "foreign" if it has another setting or is another program
  sent,   \* the messages the sender framed
  wire,   \* tokens in flight
  tmp,    \* tmpRBuffer_ of Session, tmpBBuffer_ of RemoteSession
  got,    \* the messages the receiver took out
  ended   \* "no", "shutdown", or "thrown" when an exception left the handler

ASSUME FramingAssumption ==
  /\ Payloads \subseteq Seq(Token) \ {<< >>}
  /\ Lists \subseteq Seq(FrameNames) \ {<< >>}
  /\ Foreign \subseteq [to : Lists, text : Seq(Token)]
  /\ MaxMsgs \in Nat
  /\ \A m \in Payloads, l \in Lists : Len(addFrames(l, m)) < Width

vars == << list, theirs, peer, sent, wire, tmp, got, ended >>

(* tun_local may send requests and tun_remote responses: both know both.   *)
Fits(a, b) ==
  /\ Len(a) = Len(b)
  /\ \A i \in 1 .. Len(a) :
       a[i] = b[i] \/ {a[i], b[i]} = {"http_client", "http_server"}

Init ==
  /\ list \in Lists /\ theirs \in { l \in Lists : Fits(l, list) }
  /\ peer \in {"framed", "foreign"}
  /\ sent = << >> /\ wire = << >>
  /\ tmp = << >> /\ got = << >>
  /\ ended = "no"

Sends(m) ==
  /\ peer = "framed" /\ Len(sent) < MaxMsgs
  /\ sent' = Append(sent, m)
  /\ wire' = wire \o addFrames(theirs, m)
  /\ UNCHANGED << list, theirs, peer, tmp, got, ended >>

SendsForeign(x) ==
  /\ peer = "foreign" /\ ended = "no" /\ tmp = << >> /\ got = << >> /\ wire = << >>
  /\ x.to = list /\ wire' = x.text
  /\ UNCHANGED << list, theirs, peer, sent, tmp, got, ended >>

(* Mutant: one message is taken per read.                                  *)
DrainedOnce(b) ==
  LET Outcomes(len) ==
        IF len <= 0 THEN { [msgs |-> << >>, rest |-> b, ended |-> "no"] }
        ELSE { [msgs |-> << m >>, rest |-> SubSeq(b, len + 1, Len(b)), ended |-> "no"] :
                 m \in remoteFrames(list, SubSeq(b, 1, len)) }
  IN UNION { Outcomes(len) : len \in check(list, b) }

(* One round of the loop, on what it has so far.  A negative len goes to   *)
(* substr() as a huge position, which throws.  Data that is no message     *)
(* does not parse, and the session shuts down.                             *)
Round(o) ==
  LET b == o.rest
      Ends(rest, how) == [o EXCEPT !.rest = rest, !.ended = how]
      Takes(m, rest) ==
        IF m \in Payloads THEN [o EXCEPT !.msgs = Append(@, m), !.rest = rest]
        ELSE Ends(rest, "shutdown")
      After(len) ==
        LET rest == SubSeq(b, len + 1, Len(b))
            msg == remoteFrames(list, SubSeq(b, 1, len)) IN
        CASE len < 0 -> { Ends(b, "thrown") }
          [] len = 0 -> { Ends(b, "no") }
          [] len > 0 /\ msg = {} -> { Ends(rest, "thrown") }
          [] OTHER -> { Takes(m, rest) : m \in msg }
  IN IF o.ended = "going" THEN UNION { After(len) : len \in check(list, b) } ELSE {o}

(* The loop: one outcome for each way it can go on buffer b.  Every round  *)
(* but the last takes something off the buffer.                            *)
Drained(b) ==
  LET after[n \in 0 .. Len(b) + 1] ==
        IF n = 0 THEN { [msgs |-> << >>, rest |-> b, ended |-> "going"] }
        ELSE UNION { Round(o) : o \in after[n - 1] }
  IN after[Len(b) + 1]

Receives ==
  /\ ended = "no"
  /\ \E k \in 1 .. Len(wire) :
     \E o \in Drained(tmp \o SubSeq(wire, 1, k)) :
       /\ wire' = SubSeq(wire, k + 1, Len(wire))
       /\ tmp' = o.rest /\ ended' = o.ended
       /\ got' = IF o.ended = "no" THEN got \o o.msgs ELSE got
       /\ UNCHANGED << list, theirs, peer, sent >>

Next ==
  \/ \E m \in Payloads : Sends(m)
  \/ \E x \in Foreign : SendsForeign(x)
  \/ Receives

Spec == Init /\ [][Next]_vars

-----------------------------------------------------------------------------
(* The messages come out as they were sent, in order, each once, and       *)
(* what is not out yet is in the buffer and in flight: no cut, no contents *)
(* of a message and no nesting of frames gets the receiver out of step.    *)
InOrder ==
  peer = "framed" =>
    /\ ended = "no"
    /\ IsPrefix(got, sent)
    /\ tmp \o wire
       = FlattenSeq([i \in 1 .. Len(sent) - Len(got) |-> addFrames(theirs, sent[Len(got) + i])])

(* A message is out as soon as its last byte has been read: what the drain *)
(* loop leaves in the buffer is never a whole frame.                       *)
NothingWaits ==
  Len(got) < Len(sent) => Len(tmp) < Len(addFrames(theirs, sent[Len(got) + 1]))
=============================================================================
