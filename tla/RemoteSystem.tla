---------------------------- MODULE RemoteSystem ----------------------------
(***************************************************************************)
(* A RemoteSession between a target and an arbitrary client of its port:   *)
(* the client may send any messages at any time, before the answer too and *)
(* also bytes that are no frame, read or not read, and close whenever it   *)
(* likes.                                                                  *)
(***************************************************************************)
EXTENDS RemoteSession, Streams, FiniteSets

CONSTANTS
  ClientKinds,  \* messages the client sends: 0 to 5 a connect message with that
                \* value, 6 a data message, 7 one that does not check, 8 no frame
  LaterKinds,   \* those it sends after its first message
  MaxFrames     \* bound: messages it sends

VARIABLES
  clientSent,  \* the messages the client sent
  clientGot    \* the pieces the client read

ASSUME ClientAssumption ==
  /\ ClientKinds \subseteq 0 .. 8
  /\ LaterKinds \subseteq 0 .. 8
  /\ MaxFrames \in Nat

vars == << r2t, t2r, Service, session, Link, clientSent, clientGot >>

ClientMsg(kind) ==
  CASE kind \in 0 .. 5 -> ConnectMsg(<< C("connreq", kind) >>)
    [] kind = 6 -> DataMsg(<< C("data", Len(clientSent) + 1) >>)
    [] kind = 7 -> [DataMsg(<< C("data", 0) >>) EXCEPT !.ok = FALSE]
    [] kind = 8 -> NoFrame

Init ==
  /\ TargetInit
  /\ RemoteInit
  /\ l2r = << >> /\ r2l = << >> /\ peer = "new"
  /\ clientSent = << >> /\ clientGot = << >>

Handler(A) == A /\ UNCHANGED << clientSent, clientGot >>

TargetStep == TargetNext /\ UNCHANGED << session, Link, clientSent, clientGot >>

ClientConnects ==
  /\ peer = "new"
  /\ peer' = "up"
  /\ UNCHANGED << r2t, t2r, Service, session, l2r, r2l, clientSent, clientGot >>

ClientSends(kind) ==
  /\ peer = "up" /\ Len(clientSent) < MaxFrames
  /\ clientSent # << >> => kind \in LaterKinds
  /\ clientSent' = Append(clientSent, ClientMsg(kind))
  /\ l2r' = l2r \o Encoded(ClientMsg(kind))
  /\ UNCHANGED << r2t, t2r, Service, session, r2l, peer, clientGot >>

ClientReads ==
  /\ peer = "up" /\ r2l # << >>
  /\ clientGot' = Append(clientGot, Head(r2l))
  /\ r2l' = Tail(r2l)
  /\ UNCHANGED << r2t, t2r, Service, session, l2r, peer, clientSent >>

ClientCloses ==
  /\ peer = "up"
  /\ peer' = "closed"
  /\ UNCHANGED << r2t, t2r, Service, session, l2r, r2l, clientSent, clientGot >>

ClientStep ==
  \/ ClientConnects
  \/ \E kind \in ClientKinds : ClientSends(kind)
  \/ ClientReads
  \/ ClientCloses

Next == Handler(RemoteNext) \/ TargetStep \/ ClientStep

Spec == Init /\ [][Next]_vars

(* The acceptor and the io_service thread run what completed, and both     *)
(* neighbours of the session keep reading; neither has to send or close.   *)
Fairness ==
  /\ WF_vars(Handler(handleAccept))
  /\ WF_vars(Handler(handleAuthFromBrowser))
  /\ WF_vars(Handler(handleQueryDns))
  /\ WF_vars(Handler(handleConnectToTarget))
  /\ WF_vars(Handler(handleWriteRespToBrowser))
  /\ WF_vars(Handler(handleWriteDataToBrowser))
  /\ WF_vars(Handler(handleReadDataFromTarget))
  /\ WF_vars(Handler(handleWriteDataToTarget))
  /\ WF_vars(Handler(handleReadDataFromBrowser))
  /\ WF_vars(TargetReceives /\ UNCHANGED << session, Link, clientSent, clientGot >>)
  /\ WF_vars(ClientReads)

FairSpec == Spec /\ Fairness

-----------------------------------------------------------------------------
(* Every variable has its type: the one type invariant of this module.     *)
TypeOK ==
  /\ TargetTypeOK
  /\ pend \in SUBSET Ops /\ queued \in SUBSET Ops
  /\ sock \in Ends /\ rsock \in Ends /\ peer \in Ends
  /\ tmpB \in Seq(Piece) /\ tmpR \in Seq(Cell)
  /\ terminated \in BOOLEAN
  /\ l2r \in Seq(Piece) /\ r2l \in Seq(Piece)
  /\ clientSent \in Seq(Frame) /\ clientGot \in Seq(Piece)

Setup == {"handleAuthFromBrowser", "handleQueryDns", "handleConnectToTarget",
          "handleWriteRespToBrowser"}
UpPipe == {"handleWriteDataToTarget", "handleReadDataFromBrowser"}
DownPipe == {"handleWriteDataToBrowser", "handleReadDataFromTarget"}

(* As in Session: the operations of one direction share their buffers, and *)
(* a socket takes one async_write at a time, so neither direction ever has *)
(* two operations in progress, nor the set-up one beside another.          *)
NoOverlap ==
  /\ pend \cap Setup # {} => Cardinality(pend) = 1
  /\ Cardinality(pend \cap UpPipe) <= 1
  /\ Cardinality(pend \cap DownPipe) <= 1

(* With a socket open, the set-up has its operation or both directions of  *)
(* the pipe have theirs; a destroyed session holds no connection.          *)
NoDeadDirection ==
  sock = "up" \/ rsock = "up" =>
    \/ pend \cap Setup # {}
    \/ pend \cap UpPipe # {} /\ pend \cap DownPipe # {}

(* tun_remote dials, or resolves, only for a client whose first message is *)
(* an intact connect message with a user, password and address type that   *)
(* pass (RemoteSession.cpp:38-91), whatever else the client sends and      *)
(* however its messages are cut.                                           *)
DialsOnlyForUsers ==
  (target # "new" \/ pend \cap (Ops \ {"handleAuthFromBrowser"}) # {}) =>
    /\ clientSent # << >>
    /\ clientSent[1] \in { ClientMsg(v) : v \in {1, 3, 4} }

(* The link carries an answer only when the target is connected, one, and  *)
(* before any data.                                                        *)
OneAnswerFirst ==
  LET out == Messages(clientGot \o r2l) IN
  \A i \in DOMAIN out : /\ target # "new"
                        /\ out[i].sub = 1 <=> i = 1

(* A client that frames what it sends cannot end the process any more once *)
(* its target is connected: an exception then leaves a handler only for    *)
(* bytes that are no frame, however the messages are cut and whenever      *)
(* either neighbour goes away.                                             *)
FramedNeverThrows ==
  terminated => \/ rsock = "new"
                \/ \E i \in DOMAIN clientSent : clientSent[i] = NoFrame

(* While both sockets are open: what the target has or is being written,   *)
(* what waits in tmpBBuffer_ and what is in flight are the bodies of all   *)
(* messages behind the connect message, in order and once.  Also across    *)
(* aborts, closed sockets and corrupt messages the target gets a prefix of *)
(* what the client sent.                                                   *)
TargetGets == FlattenSeq(tgot \o r2t)
ClientData == BodiesIn(SubSeq(clientSent, 2, Len(clientSent)))
UpConserved ==
  /\ IsPrefix(TargetGets, ClientData)
  /\ sock = "up" /\ rsock = "up" =>
       TargetGets \o BodiesIn(Messages(tmpB \o l2r)) = ClientData

(* While both sockets are open: the data messages on the link, what waits  *)
(* in tmpRBuffer_ and what is in flight are the tokens the target sent.    *)
DownConserved ==
  sock = "up" /\ rsock = "up" =>
    DataIn(Messages(clientGot \o r2l)) \o tmpR \o t2r = Tokens(downSent)

(* When either neighbour goes away the session, in the pipe or waiting for *)
(* the connect message, ends.                                              *)
TornDown ==
  (\/ pend \cap (UpPipe \cup DownPipe) # {} /\ (target # "up" \/ peer = "closed")
   \/ pend = {"handleAuthFromBrowser"} /\ peer = "closed")
    ~> pend = {}

(* A user's request is never left without an outcome: the client gets the  *)
(* answer or the session ends.  (Bytes that are no frame may keep it       *)
(* waiting for more of them.)                                              *)
Answered ==
  (pend = {"handleAuthFromBrowser"} /\ clientSent # << >> /\ clientSent[1] # NoFrame)
    ~> (clientGot # << >> \/ pend = {})
=============================================================================
