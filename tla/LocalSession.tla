---------------------------- MODULE LocalSession ----------------------------
(***************************************************************************)
(* class Session (server/sockv5): the tun_local end of one tunnel.  It     *)
(* speaks SOCKS5 with the browser on sock_, connects rsock_ to tun_remote, *)
(* sends the connect message, waits for its answer and then pipes data     *)
(* both ways, framing it on the link.                                      *)
(*                                                                         *)
(* Every handler of the class is an action.                                *)
(***************************************************************************)
EXTENDS Browser, AsioSession

CONSTANTS
  SndCap,   \* chunks the kernel accepts for a browser that does not read
  LinkCap,  \* pieces the kernels hold for a link end that does not read
  RspCut    \* may the read that brings the connect response end inside it?

VARIABLES
  tmpB,        \* tmpBBuffer_
  tmpR,        \* tmpRBuffer_
  req,         \* sockReqStringData_: the kind of the request, 0 before it is stored
  l2r,         \* pieces on their way to tun_remote
  r2l,         \* pieces on their way from tun_remote
  peer         \* the other end of the link

ASSUME LocalAssumption ==
  /\ SndCap \in Nat
  /\ LinkCap \in Nat
  /\ RspCut \in BOOLEAN

session == << control, tmpB, tmpR, req >>

(* The operations by socket and direction.  handleReadAuthRspFromRemote is *)
(* bound to the write of the connect message (line 142) and, when the      *)
(* answer is incomplete, to a read as well (line 177).                     *)
ReadAgain == "handleReadAuthRspFromRemote (read)"

BrowserReads == {"handleReadHandShake", "handleReadSockv5Req",
                 "handleReadDataFromBrowser"}
BrowserWrites == {"handleWriteHandShake", "handleBeginPipeTransfer",
                  "handleWriteDataToBrowser"}
RemoteReads == {ReadAgain, "handleWriteSockv5RspToBrowser",
                "handleReadDataFromRemote"}
RemoteWrites == {"handleReadAuthRspFromRemote", "handleWriteDataToRemote"}

Ops == BrowserReads \cup BrowserWrites \cup RemoteReads \cup RemoteWrites
       \cup {"handleConnectToRemote"}

LocalInit ==
  /\ pend = {"handleReadHandShake"}
  /\ queued = {}
  /\ sock = "up"
  /\ rsock = "new"
  /\ tmpB = << >>
  /\ tmpR = << >>
  /\ req = 0
  /\ terminated = FALSE

-----------------------------------------------------------------------------
(* Completions.                                                            *)

ReadFromBrowser(op, k) ==
  Runs(op, sock) /\ b2l' = SubSeq(b2l, k + 1, Len(b2l))

ReadFromRemote(op, k) ==
  Runs(op, rsock) /\ r2l' = SubSeq(r2l, k + 1, Len(r2l))

(* async_write completes once the kernel has taken the last byte.          *)
Written(op) ==
  \/ op \in pend \cap queued
  \/ op \in BrowserWrites /\ Runs(op, sock) /\ Len(l2b) <= SndCap
  \/ op \in RemoteWrites /\ Runs(op, rsock) /\ Len(l2r) <= LinkCap

(* After a reset unread bytes may be lost, after FIN they are read first.  *)
BrowserFails(op) ==
  Fails(op, sock, \/ browser = "rst"
                  \/ browser = "fin" /\ b2l = << >> /\ op \in BrowserReads)

RemoteFails(op) == Fails(op, rsock, peer = "closed")

(* The pipe operations whose success may be queued at this moment.         *)
Done ==
  pend \cap UNION { IF sock = "up" /\ b2l # << >> THEN BrowserReads ELSE {},
                   IF rsock = "up" /\ r2l # << >> THEN RemoteReads ELSE {},
                   { op \in Ops : Written(op) } }

-----------------------------------------------------------------------------
(* SOCKS5 with the browser.                                                *)

Link == << l2r, r2l, peer >>
Dialogue == << browser, asked, got, upSent >>   \* the browser's own state

(* SF_LOG_WITH_CLIENT after the browser's RST arrived.                     *)
BrowserReset == browser = "rst" /\ Throw

(* Sockv5HandShakeReq::check and Sockv5Req::check: 0 until the message is  *)
(* complete.                                                               *)
MsgLen(buf) == IF Len(buf) < 2 THEN 0 ELSE 2

Behind(buf) == SubSeq(buf, MsgLen(buf) + 1, Len(buf))

handleReadHandShake ==
  LET op == "handleReadHandShake" IN
  /\ UNCHANGED << Link, Dialogue, tmpR, req >>
  /\ \/ \E k \in 1 .. Len(b2l) :
          LET buf == tmpB \o SubSeq(b2l, 1, k) IN
          /\ ReadFromBrowser(op, k)
          /\ \/ /\ MsgLen(buf) = 0
                /\ tmpB' = buf
                /\ Start(op, {op})
                /\ UNCHANGED l2b
             \/ /\ MsgLen(buf) > 0 /\ buf[1].v # 0
                /\ tmpB' = Behind(buf)
                /\ Return(op)
                /\ UNCHANGED l2b
             \/ /\ MsgLen(buf) > 0 /\ buf[1].v = 0
                /\ tmpB' = Behind(buf)
                /\ l2b' = Append(l2b, << C("greetrsp", 0) >>)
                /\ Start(op, {"handleWriteHandShake"})
     \/ /\ BrowserFails(op)
        /\ UNCHANGED << b2l, l2b, tmpB >>
        /\ \/ BrowserReset
           \/ browser = "fin" /\ Return(op)

handleWriteHandShake ==
  LET op == "handleWriteHandShake" IN
  /\ UNCHANGED << Link, Dialogue, b2l, l2b, tmpB, tmpR, req >>
  /\ \/ /\ Written(op)
        /\ \/ Start(op, {"handleReadSockv5Req"})
           \/ Logged(0) /\ BrowserReset
     \/ BrowserFails(op) /\ BrowserReset

handleReadSockv5Req ==
  LET op == "handleReadSockv5Req" IN
  /\ UNCHANGED << Link, Dialogue, l2b, tmpR >>
  /\ \/ \E k \in 1 .. Len(b2l) :
          LET buf == tmpB \o SubSeq(b2l, 1, k) IN
          /\ ReadFromBrowser(op, k)
          /\ \/ /\ MsgLen(buf) = 0
                /\ tmpB' = buf
                /\ Start(op, {op})
                /\ UNCHANGED req
             \/ /\ MsgLen(buf) > 0 /\ buf[1].v = 0
                /\ tmpB' = buf
                /\ \/ Return(op)
                   \/ BrowserReset
                /\ UNCHANGED req
             \/ /\ MsgLen(buf) > 0 /\ buf[1].v # 0
                /\ req' = buf[1].v
                /\ tmpB' = Behind(buf)
                /\ \/ Start(op, {"handleConnectToRemote"})
                   \/ Behind(buf) # << >> /\ BrowserReset
     \/ /\ BrowserFails(op)
        /\ UNCHANGED << b2l, tmpB, req >>
        /\ \/ BrowserReset
           \/ browser = "fin" /\ Return(op)

-----------------------------------------------------------------------------
(* The link to tun_remote.                                                 *)

(* The connection is made or refused.                                      *)
handleConnectToRemote ==
  LET op == "handleConnectToRemote" IN
  /\ op \in pend
  /\ UNCHANGED << Dialogue, b2l, l2b, tmpB, tmpR, req, r2l, peer >>
  /\ \/ /\ Connected(op, "handleReadAuthRspFromRemote")
        /\ l2r' = l2r \o Encoded(ConnectMsg(<< C("connreq", req) >>))
     \/ Return(op) /\ UNCHANGED l2r

(* The completion of the write of the connect message ...                  *)
handleReadAuthRspFromRemote ==
  LET op == "handleReadAuthRspFromRemote" IN
  /\ UNCHANGED << Link, Dialogue, b2l, l2b, tmpB, tmpR, req >>
  /\ \/ /\ Written(op)
        /\ Start(op, {"handleWriteSockv5RspToBrowser"})
     \/ RemoteFails(op) /\ Return(op)

(* ... and of the read that follows an incomplete answer: the bytes in     *)
(* rbuffer_ are not appended to tmpRBuffer_, the next read overwrites them.*)
handleReadAuthRspFromRemoteRead ==
  LET op == ReadAgain IN
  /\ UNCHANGED << Dialogue, b2l, l2b, tmpB, tmpR, req, l2r, peer >>
  /\ \/ \E k \in 1 .. Len(r2l) :
          /\ ReadFromRemote(op, k)
          /\ Start(op, {"handleWriteSockv5RspToBrowser"})
     \/ RemoteFails(op) /\ Return(op) /\ UNCHANGED r2l

(* Mutant: the result in the connect response is not looked at.            *)
AnyRspOk(b) == FrameOk(b, 1) /\ Msg(b, 1).body[1].t = "connrsp"

(* Mutant: the result is taken for a flag of success.                      *)
FlagRspOk(b) == FrameOk(b, 1) /\ Msg(b, 1).body = << C("connrsp", 1) >>

ConnectRspOk(b) ==
  FrameOk(b, 1) /\ Msg(b, 1).body = << C("connrsp", 0) >>

handleWriteSockv5RspToBrowser ==
  LET op == "handleWriteSockv5RspToBrowser" IN
  /\ UNCHANGED << Dialogue, b2l, tmpB, req, l2r, peer >>
  /\ \/ \E k \in 1 .. Len(r2l) :
          LET buf == tmpR \o SubSeq(r2l, 1, k) IN
          /\ ReadFromRemote(op, k)
          /\ RspCut \/ Len(buf) >= 2
          /\ \/ /\ 0 \in Check(buf)
                /\ tmpR' = buf
                /\ Start(op, {ReadAgain})
                /\ UNCHANGED l2b
             \/ /\ 2 \in Check(buf) /\ ~ ConnectRspOk(buf)
                /\ tmpR' = After(buf, 1)
                /\ Shutdown(op, Done)
                /\ UNCHANGED l2b
             \/ /\ 2 \in Check(buf) /\ ConnectRspOk(buf)
                /\ tmpR' = After(buf, 1)
                /\ l2b' = Sent(sock, l2b, << << C("reply", req) >> >>)
                /\ Start(op, {"handleBeginPipeTransfer"})
             \/ -1 \in Check(buf) /\ Throw /\ UNCHANGED << tmpR, l2b >>
     \/ RemoteFails(op) /\ Shutdown(op, Done) /\ UNCHANGED << r2l, l2b, tmpR >>

(* Mutant: the pipe starts in one direction only.                          *)
BeginPipeUp ==
  LET op == "handleBeginPipeTransfer" IN
  /\ UNCHANGED << Link, Dialogue, b2l, l2b, tmpB, tmpR, req >>
  /\ \/ Written(op) /\ Start(op, {"handleReadDataFromBrowser"})
     \/ BrowserFails(op) /\ Return(op)

handleBeginPipeTransfer ==
  LET op == "handleBeginPipeTransfer" IN
  /\ UNCHANGED << Link, Dialogue, b2l, l2b, tmpB, tmpR, req >>
  /\ \/ /\ Written(op)
        /\ Start(op, {"handleReadDataFromRemote", "handleReadDataFromBrowser"})
     \/ BrowserFails(op) /\ Return(op)

-----------------------------------------------------------------------------
(* The pipe.                                                               *)

(* tmpBBuffer_ is the buffer of the write: while it is in progress it      *)
(* stands for the message encoded in it.                                   *)
handleReadDataFromBrowser ==
  LET op == "handleReadDataFromBrowser" IN
  /\ UNCHANGED << Dialogue, l2b, tmpR, req, r2l, peer >>
  /\ \/ \E k \in 1 .. Len(b2l) :
          LET buf == tmpB \o SubSeq(b2l, 1, k) IN
          /\ ReadFromBrowser(op, k)
          /\ tmpB' = buf
          /\ l2r' = Sent(rsock, l2r, Encoded(DataMsg(buf)))
          /\ Start(op, {"handleWriteDataToRemote"})
     \/ BrowserFails(op) /\ Shutdown(op, Done) /\ UNCHANGED << b2l, l2r, tmpB >>

(* Mutant: tmpBBuffer_ is not cleared after the write.                     *)
WriteDataKeepsBuffer ==
  LET op == "handleWriteDataToRemote" IN
  /\ UNCHANGED << Link, Dialogue, b2l, l2b, tmpB, tmpR, req >>
  /\ \/ Written(op) /\ Start(op, {"handleReadDataFromBrowser"})
     \/ RemoteFails(op) /\ Shutdown(op, Done)

handleWriteDataToRemote ==
  LET op == "handleWriteDataToRemote" IN
  /\ UNCHANGED << Link, Dialogue, b2l, l2b, tmpR, req >>
  /\ \/ /\ Written(op)
        /\ tmpB' = << >>
        /\ Start(op, {"handleReadDataFromBrowser"})
     \/ RemoteFails(op) /\ Shutdown(op, Done) /\ UNCHANGED tmpB

(* Mutant: each body replaces the packet instead of extending it.          *)
LastBody(b, n) == [i \in 1 .. n |-> IF i = n THEN Msg(b, i).body ELSE << >>]

(* The bodies of the first n messages of b; those that are not data        *)
(* messages are skipped.                                                   *)
DataBodies(b, n) ==
  [i \in 1 .. n |-> IF Msg(b, i).sub = 2 THEN Msg(b, i).body ELSE << >>]

handleReadDataFromRemote ==
  LET op == "handleReadDataFromRemote" IN
  /\ UNCHANGED << Dialogue, b2l, tmpB, req, l2r, peer >>
  /\ \/ \E k \in 1 .. Len(r2l) :
          LET buf == tmpR \o SubSeq(r2l, 1, k) IN
          /\ ReadFromRemote(op, k)
          /\ \/ /\ 0 \in Extracts(buf, 0)
                /\ tmpR' = buf
                /\ Start(op, {op})
                /\ UNCHANGED l2b
             \/ \E n \in Extracts(buf, 0) \ {0} :
                /\ tmpR' = After(buf, n)
                /\ l2b' = Sent(sock, l2b, DataBodies(buf, n))
                /\ Start(op, {"handleWriteDataToBrowser"})
             \/ \E n \in Extracts(buf, 2) :
                /\ ~ FrameOk(buf, n + 1)
                /\ tmpR' = After(buf, n + 1)
                /\ Shutdown(op, Done)
                /\ UNCHANGED l2b
             \/ Extracts(buf, -1) # {} /\ Throw /\ UNCHANGED << tmpR, l2b >>
     \/ RemoteFails(op) /\ Shutdown(op, Done) /\ UNCHANGED << r2l, l2b, tmpR >>

(* Mutant: the handler returns without reading on.                         *)
WriteDataStopsReading ==
  LET op == "handleWriteDataToBrowser" IN
  /\ UNCHANGED << Link, Dialogue, b2l, l2b, tmpB, tmpR, req >>
  /\ \/ Written(op) /\ Start(op, {})
     \/ BrowserFails(op) /\ Shutdown(op, Done)

(* Mutant: the error of the pipe is logged with the address of the         *)
(* browser.                                                                *)
WriteDataLogsClient ==
  LET op == "handleWriteDataToBrowser" IN
  /\ UNCHANGED << Link, Dialogue, b2l, l2b, tmpB, tmpR, req >>
  /\ \/ Written(op) /\ Start(op, {"handleReadDataFromRemote"})
     \/ BrowserFails(op) /\ (Shutdown(op, Done) \/ BrowserReset)

handleWriteDataToBrowser ==
  LET op == "handleWriteDataToBrowser" IN
  /\ UNCHANGED << Link, Dialogue, b2l, l2b, tmpB, tmpR, req >>
  /\ \/ /\ Written(op)
        /\ Start(op, {"handleReadDataFromRemote"})
     \/ BrowserFails(op) /\ Shutdown(op, Done)

LocalNext ==
  \/ handleReadHandShake
  \/ handleWriteHandShake
  \/ handleReadSockv5Req
  \/ handleConnectToRemote
  \/ handleReadAuthRspFromRemote
  \/ handleReadAuthRspFromRemoteRead
  \/ handleWriteSockv5RspToBrowser
  \/ handleBeginPipeTransfer
  \/ handleReadDataFromBrowser
  \/ handleWriteDataToRemote
  \/ handleReadDataFromRemote
  \/ handleWriteDataToBrowser
=============================================================================
