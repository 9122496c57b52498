---------------------------- MODULE LocalSystem -----------------------------
(***************************************************************************)
(* A Session between a browser and an arbitrary server: the peer of the    *)
(* link may send any messages at any time, also bytes that are no frame,   *)
(* read or not read, and close whenever it likes.  What holds here holds   *)
(* for tun_remote and for whoever else listens on its port.                *)
(***************************************************************************)
EXTENDS LocalSession, Streams, FiniteSets

CONSTANTS
  PeerKinds,  \* kinds of messages the peer sends
  LaterKinds, \* those it sends after its first message
  MaxFrames   \* bound: messages it sends

VARIABLES
  peerSent,  \* the messages the peer sent
  peerGot,   \* the pieces the peer read
  cut        \* has the session found the connect response incomplete?

ASSUME PeerAssumption ==
  /\ PeerKinds \subseteq {"accept", "refuse", "corrupt", "other", "data", "foreign"}
  /\ MaxFrames \in Nat

vars == << b2l, l2b, Dialogue, session, Link, peerSent, peerGot, cut >>

PeerMsg(kind) ==
  CASE kind = "accept"  -> ConnectMsg(<< C("connrsp", 0) >>)
    [] kind = "refuse"  -> ConnectMsg(<< C("connrsp", 1) >>)
    [] kind = "corrupt" -> [DataMsg(<< C("data", 0) >>) EXCEPT !.ok = FALSE]
    [] kind = "other"   -> ConnectMsg(<< C("data", 0) >>)
    [] kind = "data"    -> DataMsg(<< C("data", Len(peerSent) + 1) >>)
    [] kind = "foreign" -> NoFrame

Init ==
  /\ BrowserInit
  /\ LocalInit
  /\ l2r = << >> /\ r2l = << >> /\ peer = "new"
  /\ peerSent = << >> /\ peerGot = << >> /\ cut = FALSE

Handler(A) ==
  /\ A
  /\ cut' = (cut \/ ReadAgain \in pend')
  /\ UNCHANGED << peerSent, peerGot >>

BrowserStep == BrowserNext /\ UNCHANGED << session, Link, peerSent, peerGot, cut >>

PeerAccepts ==
  /\ rsock # "new" /\ peer = "new"
  /\ peer' = "up"
  /\ UNCHANGED << b2l, l2b, Dialogue, session, l2r, r2l, peerSent, peerGot, cut >>

PeerSends(kind) ==
  /\ peer = "up" /\ Len(peerSent) < MaxFrames
  /\ peerSent # << >> => kind \in LaterKinds
  /\ peerSent' = Append(peerSent, PeerMsg(kind))
  /\ r2l' = r2l \o Encoded(PeerMsg(kind))
  /\ UNCHANGED << b2l, l2b, Dialogue, session, l2r, peer, peerGot, cut >>

PeerReads ==
  /\ peer = "up" /\ l2r # << >>
  /\ peerGot' = Append(peerGot, Head(l2r))
  /\ l2r' = Tail(l2r)
  /\ UNCHANGED << b2l, l2b, Dialogue, session, r2l, peer, peerSent, cut >>

PeerCloses ==
  /\ peer = "up"
  /\ peer' = "closed"
  /\ UNCHANGED << b2l, l2b, Dialogue, session, l2r, r2l, peerSent, peerGot, cut >>

PeerStep ==
  \/ PeerAccepts
  \/ \E kind \in PeerKinds : PeerSends(kind)
  \/ PeerReads
  \/ PeerCloses

Next == Handler(LocalNext) \/ BrowserStep \/ PeerStep

Spec == Init /\ [][Next]_vars

(* The io_service thread runs every handler whose operation completed.     *)
(* Both ends of the session keep reading; neither has to send or close.    *)
Fairness ==
  /\ WF_vars(Handler(handleReadHandShake))
  /\ WF_vars(Handler(handleWriteHandShake))
  /\ WF_vars(Handler(handleReadSockv5Req))
  /\ WF_vars(Handler(handleConnectToRemote))
  /\ WF_vars(Handler(handleReadAuthRspFromRemote))
  /\ WF_vars(Handler(handleReadAuthRspFromRemoteRead))
  /\ WF_vars(Handler(handleWriteSockv5RspToBrowser))
  /\ WF_vars(Handler(handleBeginPipeTransfer))
  /\ WF_vars(Handler(handleReadDataFromBrowser))
  /\ WF_vars(Handler(handleWriteDataToRemote))
  /\ WF_vars(Handler(handleReadDataFromRemote))
  /\ WF_vars(Handler(handleWriteDataToBrowser))
  /\ WF_vars(BrowserReceives /\ UNCHANGED << session, Link, peerSent, peerGot, cut >>)
  /\ WF_vars(PeerReads)

FairSpec == Spec /\ Fairness

-----------------------------------------------------------------------------
(* Every variable has its type: the one type invariant of this module.     *)
TypeOK ==
  /\ BrowserTypeOK
  /\ pend \in SUBSET Ops /\ queued \in SUBSET Ops
  /\ sock \in Ends /\ rsock \in Ends /\ peer \in Ends
  /\ tmpB \in Seq(Cell) /\ tmpR \in Seq(Piece)
  /\ req \in Nat
  /\ terminated \in BOOLEAN
  /\ l2r \in Seq(Piece) /\ r2l \in Seq(Piece)
  /\ peerSent \in Seq(Frame) /\ peerGot \in Seq(Piece)
  /\ cut \in BOOLEAN

Setup == {"handleReadHandShake", "handleWriteHandShake", "handleReadSockv5Req",
          "handleConnectToRemote", "handleReadAuthRspFromRemote", ReadAgain,
          "handleWriteSockv5RspToBrowser", "handleBeginPipeTransfer"}
UpPipe == {"handleReadDataFromBrowser", "handleWriteDataToRemote"}
DownPipe == {"handleReadDataFromRemote", "handleWriteDataToBrowser"}

(* The operations of one direction share a buffer (bbuffer_ and            *)
(* tmpBBuffer_, rbuffer_ and tmpRBuffer_), and asio forbids two async_write*)
(* on a socket at a time.  No step of the two directions, of shutdown() or *)
(* of a completion queued before it ever leaves two operations of one      *)
(* direction in progress, or one of the set-up phase beside any other.     *)
NoOverlap ==
  /\ pend \cap Setup # {} => Cardinality(pend) = 1
  /\ Cardinality(pend \cap UpPipe) <= 1
  /\ Cardinality(pend \cap DownPipe) <= 1

(* While the session has its sockets open, the set-up has its operation or *)
(* both directions of the pipe have theirs: no handler leaves a direction  *)
(* dead, and a session without operations (destroyed) has no open socket.  *)
NoDeadDirection ==
  sock = "up" \/ rsock = "up" =>
    \/ pend \cap Setup # {}
    \/ pend \cap UpPipe # {} /\ pend \cap DownPipe # {}

(* A server that frames what it sends cannot end the process.  Once a      *)
(* session opened its link, an exception leaves one of its handlers only   *)
(* for bytes of the server that are no frame, or because the session lost  *)
(* a part of the connect response (Session.cpp:177) and takes what follows *)
(* for the length of a frame; the browser can do nothing to it any more.   *)
FramedNeverThrows ==
  terminated => \/ rsock = "new"
                \/ cut
                \/ \E i \in DOMAIN peerSent : peerSent[i] = NoFrame

-----------------------------------------------------------------------------
(* The streams.                                                            *)

BrowserGets == PayloadOf(got \o l2b)
ServerSent == Payload(DataIn(peerSent))

(* Until the connect response is handled, what the session kept of it and  *)
(* what is in flight are all the server sent: an incomplete response is    *)
(* continued, not restarted (Session.cpp:174-178, BaseFrame.h:20).         *)
ResponseWhole ==
  pend \cap {ReadAgain, "handleWriteSockv5RspToBrowser"} # {} =>
    tmpR \o r2l = PiecesOf(peerSent)

(* A server that does not answer twice in the same words.                  *)
AnswersOnce == \A i \in 2 .. Len(peerSent) : peerSent[i] # peerSent[1]

(* While both sockets are open and the connect response was not cut, no    *)
(* byte from the server is lost, doubled or reordered: what the browser    *)
(* has, what is written to it, what waits in tmpRBuffer_ and what is in    *)
(* flight make up the stream that was sent.  When connections close and    *)
(* operations are aborted in any order, the browser gets a prefix of the   *)
(* data the server sent.  Also when the response was cut, unless the       *)
(* server answers again: the second answer can then complete the first.    *)
DownConserved ==
  /\ ~ cut \/ AnswersOnce => IsPrefix(BrowserGets, ServerSent)
  /\ sock = "up" /\ rsock = "up" /\ ~ cut =>
       BrowserGets \o Payload(DataIn(Messages(tmpR \o r2l))) = ServerSent

(* The same for the data of the browser, from the moment its request is    *)
(* parsed: what went out on the link, what waits in tmpBBuffer_ and what   *)
(* is in flight are what the request left behind and the tokens it sent.   *)
UpConserved ==
  sock = "up" /\ rsock # "closed" /\ req # 0 =>
    DataIn(Messages(peerGot \o l2r))
      \o (IF "handleWriteDataToRemote" \in pend THEN << >> ELSE tmpB) \o b2l
    = PortCells(req) \o Tokens(upSent)

(* The browser is told of success only when the first message of the       *)
(* server was a connect response with result 0, and it gets no data before.*)
SuccessOnlyIfAccepted ==
  \A i \in DOMAIN (got \o l2b) : \A j \in DOMAIN (got \o l2b)[i] :
    (got \o l2b)[i][j].t \in {"reply", "data"} =>
      /\ peerSent # << >> /\ peerSent[1] = PeerMsg("accept")
      /\ i >= 2 /\ (got \o l2b)[2][1].t = "reply"

(* When one side of an established pipe goes away, the session is torn     *)
(* down: no queued completion, blocked write or half-closed connection     *)
(* keeps it.                                                               *)
TornDown ==
  (pend \cap (UpPipe \cup DownPipe) # {} /\ (browser # "up" \/ peer = "closed"))
    ~> pend = {}

(* A server that accepts is answered for: the browser gets the SOCKS reply *)
(* unless somebody closes or the answer is cut.                            *)
Replied == \E i \in DOMAIN got : got[i] # << >> /\ got[i][1].t = "reply"
AcceptedIsReplied ==
  ("handleWriteSockv5RspToBrowser" \in pend
     /\ peerSent # << >> /\ peerSent[1] = PeerMsg("accept"))
    ~> (Replied \/ browser # "up" \/ peer = "closed" \/ cut)
=============================================================================
