------------------------------- MODULE Tunnel -------------------------------
(***************************************************************************)
(* One tunnel end to end: browser, Session of tun_local, the link,         *)
(* RemoteSession of tun_remote and target.  The two sessions share nothing *)
(* but the link: l2r and r2l, and the socket of each is the "peer" of the  *)
(* other.                                                                  *)
(***************************************************************************)
EXTENDS LocalSession, Target, Streams

CONSTANT Kills  \* may a process be killed at any moment?

ASSUME TunnelAssumption == Kills \in BOOLEAN

VARIABLES
  rpend, rqueued,  \* the operations of the RemoteSession
  tsock,           \* its connection to the target
  rtmpB, rtmpR,    \* its buffers
  rterminated      \* tun_remote is gone

R == INSTANCE RemoteSession WITH
  pend <- rpend, queued <- rqueued, sock <- peer, rsock <- tsock,
  tmpB <- rtmpB, tmpR <- rtmpR, terminated <- rterminated, peer <- rsock

client == << browser, asked, got, upSent, b2l, l2b >>
local == << pend, queued, sock, tmpB, tmpR, req, terminated >>
link == << l2r, r2l, rsock, peer >>
remote == << rpend, rqueued, tsock, rtmpB, rtmpR, rterminated >>
service == << target, tgot, downSent, r2t, t2r >>

vars == << client, local, link, remote, service >>

Init ==
  /\ BrowserInit
  /\ LocalInit
  /\ R!RemoteInit
  /\ TargetInit
  /\ l2r = << >> /\ r2l = << >>

OnLocal(A) == A /\ UNCHANGED << remote, service >>
OnRemote(A) == A /\ UNCHANGED << client, local >>

BrowserStep == BrowserNext /\ UNCHANGED << local, link, remote, service >>
TargetStep == TargetNext /\ UNCHANGED << client, local, link, remote >>

(* A process is killed, or another of its sessions threw.                  *)
LocalDies ==
  /\ Kills /\ ~ terminated
  /\ Throw
  /\ UNCHANGED << client, tmpB, tmpR, req, l2r, r2l, peer, remote, service >>

RemoteDies ==
  /\ Kills /\ ~ rterminated /\ peer # "new"
  /\ R!Throw
  /\ UNCHANGED << client, local, l2r, r2l, rsock, rtmpB, rtmpR, service >>

Next ==
  \/ OnLocal(LocalNext)
  \/ OnRemote(R!RemoteNext)
  \/ BrowserStep
  \/ TargetStep
  \/ LocalDies
  \/ RemoteDies

Spec == Init /\ [][Next]_vars

(* The io_service threads run what completed, DNS and connects come to an  *)
(* end, and browser and target read.  Nobody has to send or close.         *)
LocalFairness ==
  /\ WF_vars(OnLocal(handleReadHandShake))
  /\ WF_vars(OnLocal(handleWriteHandShake))
  /\ WF_vars(OnLocal(handleReadSockv5Req))
  /\ WF_vars(OnLocal(handleConnectToRemote))
  /\ WF_vars(OnLocal(handleReadAuthRspFromRemote))
  /\ WF_vars(OnLocal(handleReadAuthRspFromRemoteRead))
  /\ WF_vars(OnLocal(handleWriteSockv5RspToBrowser))
  /\ WF_vars(OnLocal(handleBeginPipeTransfer))
  /\ WF_vars(OnLocal(handleReadDataFromBrowser))
  /\ WF_vars(OnLocal(handleWriteDataToRemote))
  /\ WF_vars(OnLocal(handleReadDataFromRemote))
  /\ WF_vars(OnLocal(handleWriteDataToBrowser))

RemoteFairness ==
  /\ WF_vars(OnRemote(R!handleAccept))
  /\ WF_vars(OnRemote(R!handleAuthFromBrowser))
  /\ WF_vars(OnRemote(R!handleQueryDns))
  /\ WF_vars(OnRemote(R!handleConnectToTarget))
  /\ WF_vars(OnRemote(R!handleWriteRespToBrowser))
  /\ WF_vars(OnRemote(R!handleWriteDataToBrowser))
  /\ WF_vars(OnRemote(R!handleReadDataFromTarget))
  /\ WF_vars(OnRemote(R!handleWriteDataToTarget))
  /\ WF_vars(OnRemote(R!handleReadDataFromBrowser))

FairSpec ==
  /\ Spec /\ LocalFairness /\ RemoteFairness
  /\ WF_vars(BrowserReceives /\ UNCHANGED << local, link, remote, service >>)
  /\ WF_vars(TargetReceives /\ UNCHANGED << client, local, link, remote >>)

-----------------------------------------------------------------------------
Replied(chunks) == \E i \in DOMAIN chunks : chunks[i] # << >> /\ chunks[i][1].t = "reply"

AllOpen == sock = "up" /\ rsock = "up" /\ peer = "up" /\ tsock = "up"

(* While the four sockets are open, what the target has and what is on its *)
(* way to it through both processes, frames and buffers, is the stream of  *)
(* the browser, from what its request left behind on.                      *)
UpEndToEnd ==
  AllOpen =>
    FlattenSeq(tgot \o r2t)
      \o DataIn(Messages(rtmpB \o l2r))
      \o (IF "handleWriteDataToRemote" \in pend THEN << >> ELSE tmpB) \o b2l
    = PortCells(req) \o Tokens(upSent)

(* The same for the stream of the target.                                  *)
DownEndToEnd ==
  AllOpen =>
    PayloadOf(got \o l2b)
      \o DataIn(Messages(tmpR \o r2l)) \o rtmpR \o t2r
    = Tokens(downSent)

(* No whole message ever waits in tun_remote's buffer for more data.       *)
RemoteKeepsNoMessage ==
  "handleWriteDataToTarget" \in rpend => Whole(rtmpB) = 0

(* The target receives nothing but what the browser sent behind its        *)
(* request: the request is the business of tun_local (Sockv5Def.cpp:38-54).*)
UpIntact == IsPrefix(FlattenSeq(tgot), Tokens(upSent))

(* The two sessions implement the tunnel service.                          *)
TunnelToken(i) == C("data", i)
Service == INSTANCE TunnelService WITH
  connected <- target # "new", told <- Replied(got),
  upGot <- FlattenSeq(tgot), downGot <- PayloadOf(got), Token <- TunnelToken
ImplementsService == Service!Spec

(* Browser or target ended the tunnel.                                     *)
Ended == browser # "up" \/ target \in {"fin", "rst"}

(* What the browser sends arrives, unless browser or target ends the       *)
(* tunnel: neither session ends it by itself, by shutdown() or by an       *)
(* exception, as long as nobody kills the processes (Kills = FALSE).       *)
UpArrives ==
  \A i \in 1 .. MaxUp : (upSent = i) ~> (Len(FlattenSeq(tgot)) >= i \/ Ended)

(* The same for what the target sends.                                     *)
DownArrives ==
  \A i \in 1 .. MaxDown : (downSent = i) ~> (Len(PayloadOf(got)) >= i \/ Ended)

(* When the browser leaves, at any stage, or the target an established     *)
(* tunnel, everything the tunnel holds is given back for good: both        *)
(* sessions end and no socket stays open.                                  *)
GivenBack ==
  Ended ~> [](pend = {} /\ rpend = {} /\ \A s \in {sock, rsock, peer, tsock} : s # "up")
=============================================================================
