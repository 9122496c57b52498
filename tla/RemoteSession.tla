--------------------------- MODULE RemoteSession ----------------------------
(***************************************************************************)
(* class RemoteSession (server/remote): the tun_remote end of one tunnel.  *)
(* It accepts the link on sock_, checks the connect message, resolves and  *)
(* connects the target on rsock_, answers and then pipes data both ways.   *)
(*                                                                         *)
(* In the pipe the class names a handler by what it goes on to do:         *)
(* handleWriteDataToTarget completes a read of sock_, and                  *)
(* handleReadDataFromBrowser the write to the target it starts.            *)
(***************************************************************************)
EXTENDS Target, AsioSession

CONSTANTS
  SndCap,   \* chunks the kernel accepts for a target that does not read
  LinkCap   \* pieces the kernels hold for a link end that does not read

VARIABLES
  tmpB,   \* tmpBBuffer_
  tmpR,   \* tmpRBuffer_
  l2r,    \* pieces on their way from the client of the link
  r2l,    \* pieces on their way to it
  peer    \* the client's end of the link

ASSUME RemoteAssumption == SndCap \in Nat /\ LinkCap \in Nat

session == << control, tmpB, tmpR >>
Link == << l2r, r2l, peer >>
Service == << target, tgot, downSent >>  \* the target's own state

LinkReads == {"handleAuthFromBrowser", "handleWriteDataToTarget"}
LinkWrites == {"handleWriteRespToBrowser", "handleReadDataFromTarget"}
TargetReads == {"handleWriteDataToBrowser"}
TargetWrites == {"handleReadDataFromBrowser"}

Ops == LinkReads \cup LinkWrites \cup TargetReads \cup TargetWrites
       \cup {"handleQueryDns", "handleConnectToTarget"}

RemoteInit ==
  /\ pend = {}
  /\ queued = {}
  /\ sock = "new"
  /\ rsock = "new"
  /\ tmpB = << >>
  /\ tmpR = << >>
  /\ terminated = FALSE

ReadFromLink(op, k) ==
  Runs(op, sock) /\ l2r' = SubSeq(l2r, k + 1, Len(l2r))

ReadFromTarget(op, k) ==
  Runs(op, rsock) /\ t2r' = SubSeq(t2r, k + 1, Len(t2r))

Written(op) ==
  \/ op \in pend \cap queued
  \/ op \in LinkWrites /\ Runs(op, sock) /\ Len(r2l) <= LinkCap
  \/ op \in TargetWrites /\ Runs(op, rsock) /\ Len(r2t) <= SndCap

LinkFails(op) == Fails(op, sock, peer = "closed")

TargetFails(op) ==
  Fails(op, rsock, \/ target = "rst"
                   \/ target = "fin" /\ t2r = << >> /\ op \in TargetReads)

Done ==
  pend \cap UNION { IF sock = "up" /\ l2r # << >> THEN LinkReads ELSE {},
                   IF rsock = "up" /\ t2r # << >> THEN TargetReads ELSE {},
                   { op \in Ops : Written(op) } }

(* SF_LOG_WITH_CLIENT after the reset of the link arrived.                 *)
LinkReset == peer = "closed" /\ Throw

-----------------------------------------------------------------------------
(* RemoteSvr::handleAccept and start(): the link is accepted, if only      *)
(* after the client reset it; the log of its address throws then.          *)
handleAccept ==
  /\ sock = "new" /\ peer # "new"
  /\ UNCHANGED << Link, Service, r2t, t2r, rsock, tmpB, tmpR, queued >>
  /\ \/ sock' = "up" /\ pend' = {"handleAuthFromBrowser"} /\ UNCHANGED terminated
     \/ /\ Logged(2) /\ peer = "closed"
        /\ sock' = "closed" /\ terminated' = TRUE
        /\ UNCHANGED pend

(* The first message parses as a connect message; its subcmd is not looked *)
(* at.  The value is the address type, or 0 for a host name asked for with *)
(* a user and password that userList_ does not hold, or 5 for an address   *)
(* type 1 or 4 with an address that is none.                               *)
IsConnectReq(b) ==
  FrameOk(b, 1) /\ \E v \in 0 .. 5 : Msg(b, 1).body = << C("connreq", v) >>

Type(b) == Msg(b, 1).body[1].v

(* Mutant: every user is let in.                                           *)
EveryUser(b) == TRUE

checkUser(b) == Type(b) # 0

handleAuthFromBrowser ==
  LET op == "handleAuthFromBrowser" IN
  /\ UNCHANGED << Service, r2t, t2r, tmpR, r2l, peer >>
  /\ \/ \E k \in 1 .. Len(l2r) :
          LET buf == tmpB \o SubSeq(l2r, 1, k) IN
          /\ ReadFromLink(op, k)
          /\ \/ /\ 0 \in Check(buf)
                /\ tmpB' = buf
                /\ Start(op, {op})
             \/ /\ 2 \in Check(buf) /\ ~ (IsConnectReq(buf) /\ checkUser(buf))
                /\ tmpB' = After(buf, 1)
                /\ \/ Shutdown(op, Done)
                   \/ FrameOk(buf, 1) /\ LinkReset
             \/ /\ 2 \in Check(buf) /\ IsConnectReq(buf) /\ checkUser(buf)
                /\ tmpB' = After(buf, 1)
                /\ \/ Type(buf) = 2 /\ Return(op)
                   \/ Type(buf) \in {0, 3} /\ Start(op, {"handleQueryDns"})
                   \/ Type(buf) \in {1, 4} /\ Start(op, {"handleConnectToTarget"})
                   \/ Type(buf) = 5 /\ Throw  \* address::from_string
                   \/ (Type(buf) = 2 \/ (Type(buf) # 5 /\ Logged(2))) /\ LinkReset
             \/ -1 \in Check(buf) /\ Throw /\ UNCHANGED tmpB
     \/ /\ LinkFails(op)
        /\ UNCHANGED << l2r, tmpB >>
        /\ \/ Shutdown(op, Done)
           \/ LinkReset

(* Mutant: the client is answered before the target is connected.          *)
QueryDnsAnswers ==
  LET op == "handleQueryDns" IN
  /\ op \in pend
  /\ UNCHANGED << l2r, peer, Service, r2t, t2r, tmpB, tmpR >>
  /\ \/ /\ Start(op, {"handleWriteRespToBrowser"})
        /\ r2l' = Sent(sock, r2l, Encoded(ConnectMsg(<< C("connrsp", 0) >>)))
     \/ Return(op) /\ UNCHANGED r2l

handleQueryDns ==
  LET op == "handleQueryDns" IN
  /\ op \in pend
  /\ UNCHANGED << Link, Service, r2t, t2r, tmpB, tmpR >>
  /\ \/ Start(op, {"handleConnectToTarget"})
     \/ Return(op)

(* The target accepts the connection, or refuses it.                       *)
handleConnectToTarget ==
  LET op == "handleConnectToTarget" IN
  /\ op \in pend
  /\ UNCHANGED << r2t, t2r, tgot, downSent, tmpB, tmpR, l2r, peer >>
  /\ \/ /\ target' = "up"
        /\ Connected(op, "handleWriteRespToBrowser")
        /\ r2l' = Sent(sock, r2l, Encoded(ConnectMsg(<< C("connrsp", 0) >>)))
     \/ Return(op) /\ UNCHANGED << target, r2l >>

(* Mutant: the pipe starts in one direction only.                          *)
WriteRespReadsTarget ==
  LET op == "handleWriteRespToBrowser" IN
  /\ UNCHANGED << Link, Service, r2t, t2r, tmpB, tmpR >>
  /\ \/ Written(op) /\ Start(op, {"handleWriteDataToBrowser"})
     \/ LinkFails(op) /\ Return(op)

handleWriteRespToBrowser ==
  LET op == "handleWriteRespToBrowser" IN
  /\ UNCHANGED << Link, Service, r2t, t2r, tmpB, tmpR >>
  /\ \/ /\ Written(op)
        /\ Start(op, {"handleWriteDataToTarget", "handleWriteDataToBrowser"})
     \/ LinkFails(op) /\ Return(op)

-----------------------------------------------------------------------------
(* From the target to the link.                                            *)

(* Mutant: tmpRBuffer_ is not cleared once it is in a message.             *)
WriteDataKeepsBuffer ==
  LET op == "handleWriteDataToBrowser" IN
  /\ UNCHANGED << Service, r2t, tmpB, l2r, peer >>
  /\ \/ \E k \in 1 .. Len(t2r) :
          /\ ReadFromTarget(op, k)
          /\ tmpR' = tmpR \o SubSeq(t2r, 1, k)
          /\ r2l' = Sent(sock, r2l, Encoded(DataMsg(tmpR')))
          /\ Start(op, {"handleReadDataFromTarget"})
     \/ TargetFails(op) /\ Shutdown(op, Done) /\ UNCHANGED << t2r, r2l, tmpR >>

(* Mutant: the end of the target closes nothing.                           *)
WriteDataReturns ==
  LET op == "handleWriteDataToBrowser" IN
  /\ UNCHANGED << Service, r2t, tmpB, l2r, peer >>
  /\ \/ \E k \in 1 .. Len(t2r) :
          /\ ReadFromTarget(op, k)
          /\ tmpR' = << >>
          /\ r2l' = Sent(sock, r2l, Encoded(DataMsg(tmpR \o SubSeq(t2r, 1, k))))
          /\ Start(op, {"handleReadDataFromTarget"})
     \/ TargetFails(op) /\ Return(op) /\ UNCHANGED << t2r, r2l, tmpR >>

handleWriteDataToBrowser ==
  LET op == "handleWriteDataToBrowser" IN
  /\ UNCHANGED << Service, r2t, tmpB, l2r, peer >>
  /\ \/ \E k \in 1 .. Len(t2r) :
          /\ ReadFromTarget(op, k)
          /\ tmpR' = << >>
          /\ r2l' = Sent(sock, r2l, Encoded(DataMsg(tmpR \o SubSeq(t2r, 1, k))))
          /\ Start(op, {"handleReadDataFromTarget"})
     \/ TargetFails(op) /\ Shutdown(op, Done) /\ UNCHANGED << t2r, r2l, tmpR >>

(* Mutant: the error of the pipe is logged with the address of the         *)
(* client.                                                                 *)
ReadDataLogsClient ==
  LET op == "handleReadDataFromTarget" IN
  /\ UNCHANGED << Link, Service, r2t, t2r, tmpB, tmpR >>
  /\ \/ Written(op) /\ Start(op, {"handleWriteDataToBrowser"})
     \/ LinkFails(op) /\ (Shutdown(op, Done) \/ LinkReset)

handleReadDataFromTarget ==
  LET op == "handleReadDataFromTarget" IN
  /\ UNCHANGED << Link, Service, r2t, t2r, tmpB, tmpR >>
  /\ \/ Written(op) /\ Start(op, {"handleWriteDataToBrowser"})
     \/ LinkFails(op) /\ Shutdown(op, Done)

-----------------------------------------------------------------------------
(* From the link to the target.                                            *)

(* Mutant: each body replaces the packet instead of extending it.          *)
LastBody(b, n) == [i \in 1 .. n |-> IF i = n THEN Msg(b, i).body ELSE << >>]

Bodies(b, n) == [i \in 1 .. n |-> Msg(b, i).body]

handleWriteDataToTarget ==
  LET op == "handleWriteDataToTarget" IN
  /\ UNCHANGED << Service, t2r, tmpR, r2l, peer >>
  /\ \/ \E k \in 1 .. Len(l2r) :
          LET buf == tmpB \o SubSeq(l2r, 1, k) IN
          /\ ReadFromLink(op, k)
          /\ \/ /\ 0 \in Extracts(buf, 0)
                /\ tmpB' = buf
                /\ Start(op, {op})
                /\ UNCHANGED r2t
             \/ \E n \in Extracts(buf, 0) \ {0} :
                /\ tmpB' = After(buf, n)
                /\ r2t' = Sent(rsock, r2t, Bodies(buf, n))
                /\ Start(op, {"handleReadDataFromBrowser"})
             \/ \E n \in Extracts(buf, 2) :
                /\ ~ FrameOk(buf, n + 1)
                /\ tmpB' = After(buf, n + 1)
                /\ Shutdown(op, Done)
                /\ UNCHANGED r2t
             \/ Extracts(buf, -1) # {} /\ Throw /\ UNCHANGED << tmpB, r2t >>
     \/ LinkFails(op) /\ Shutdown(op, Done) /\ UNCHANGED << l2r, r2t, tmpB >>

handleReadDataFromBrowser ==
  LET op == "handleReadDataFromBrowser" IN
  /\ UNCHANGED << Link, Service, r2t, t2r, tmpB, tmpR >>
  /\ \/ Written(op) /\ Start(op, {"handleWriteDataToTarget"})
     \/ TargetFails(op) /\ Shutdown(op, Done)

RemoteNext ==
  \/ handleAccept
  \/ handleAuthFromBrowser
  \/ handleQueryDns
  \/ handleConnectToTarget
  \/ handleWriteRespToBrowser
  \/ handleWriteDataToBrowser
  \/ handleReadDataFromTarget
  \/ handleWriteDataToTarget
  \/ handleReadDataFromBrowser
=============================================================================
