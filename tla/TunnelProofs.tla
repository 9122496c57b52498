---------------------------- MODULE TunnelProofs ----------------------------
(***************************************************************************)
(* The tunnel end to end.  Seen from Session, the rest of the tunnel is a  *)
(* server that sends one answer, when the target is connected, and then    *)
(* data; seen from RemoteSession it is a client.  So what LocalSystemProofs*)
(* and RemoteSystemProofs show of every handler holds here, and what is    *)
(* left is how the two sessions move each other.                           *)
(***************************************************************************)
EXTENDS Tunnel, WireLemmas, TLAPS

(* The one connect message tun_remote sends.                               *)
Answer == ConnectMsg(<< C("connrsp", 0) >>)

(* Session and its server; what the server read and did not handle yet is  *)
(* in the receive buffer of RemoteSession.                                 *)
Local == INSTANCE LocalSystemProofs WITH
  peerSent <- IF target # "new" THEN << Answer >> ELSE << >>,
  peerGot <- rtmpB, cut <- FALSE, PeerKinds <- {}, LaterKinds <- {}, MaxFrames <- 0

(* RemoteSession and its client.                                           *)
Remote == INSTANCE RemoteSystemProofs WITH
  pend <- rpend, queued <- rqueued, sock <- peer, rsock <- tsock,
  tmpB <- rtmpB, tmpR <- rtmpR, terminated <- rterminated, peer <- rsock,
  clientSent <- << >>, clientGot <- tmpR,
  ClientKinds <- {}, LaterKinds <- {}, MaxFrames <- 0

-----------------------------------------------------------------------------
(* The sessions and their neighbours are the same in both.                 *)
LEMMA LocalHandlers == LocalNext <=> Local!LocalNext
BY DEF
   LocalNext, handleReadHandShake, handleWriteHandShake,
   handleReadSockv5Req, handleConnectToRemote,
   handleReadAuthRspFromRemote, handleReadAuthRspFromRemoteRead,
   handleWriteSockv5RspToBrowser, handleBeginPipeTransfer,
   handleReadDataFromBrowser, handleWriteDataToRemote,
   handleReadDataFromRemote, handleWriteDataToBrowser, Link, Dialogue,
   ReadFromBrowser, MsgLen, Start, Behind, Return, C, BrowserFails,
   BrowserReset, Written, Logged, Connected, Encoded, ConnectMsg,
   RemoteFails, ReadAgain, ReadFromRemote, Check, ConnectRspOk, After,
   Shutdown, Done, Sent, DataMsg, Extracts, FrameOk, DataBodies, Runs,
   CloseBoth, Fails, BrowserReads, Throw, BrowserWrites, RemoteWrites,
   Garbled, Intact, Msg, RemoteReads, Ops, Whole, Close, Local!LocalNext,
   Local!handleReadHandShake, Local!handleWriteHandShake,
   Local!handleReadSockv5Req, Local!handleConnectToRemote,
   Local!handleReadAuthRspFromRemote,
   Local!handleReadAuthRspFromRemoteRead,
   Local!handleWriteSockv5RspToBrowser, Local!handleBeginPipeTransfer,
   Local!handleReadDataFromBrowser, Local!handleWriteDataToRemote,
   Local!handleReadDataFromRemote, Local!handleWriteDataToBrowser,
   Local!Link, Local!Dialogue, Local!ReadFromBrowser, Local!MsgLen,
   Local!Start, Local!Behind, Local!Return, Local!C, Local!BrowserFails,
   Local!BrowserReset, Local!Written, Local!Logged, Local!Connected,
   Local!Encoded, Local!ConnectMsg, Local!RemoteFails, Local!ReadAgain,
   Local!ReadFromRemote, Local!Check, Local!ConnectRspOk, Local!After,
   Local!Shutdown, Local!Done, Local!Sent, Local!DataMsg,
   Local!Extracts, Local!FrameOk, Local!DataBodies, Local!Runs,
   Local!CloseBoth, Local!Fails, Local!BrowserReads, Local!Throw,
   Local!BrowserWrites, Local!RemoteWrites, Local!Garbled, Local!Intact, Local!Msg,
   Local!RemoteReads, Local!Ops, Local!Whole, Local!Close

LEMMA RemoteHandlers == R!RemoteNext <=> Remote!RemoteNext
BY DEF
   R!RemoteNext, R!handleAccept, R!handleAuthFromBrowser,
   R!handleQueryDns, R!handleConnectToTarget,
   R!handleWriteRespToBrowser, R!handleWriteDataToBrowser,
   R!handleReadDataFromTarget, R!handleWriteDataToTarget,
   R!handleReadDataFromBrowser, R!Link, R!Service, R!Logged,
   R!ReadFromLink, R!Check, R!Start, R!IsConnectReq, R!checkUser,
   R!After, R!Shutdown, R!Done, R!FrameOk, R!LinkReset, R!Type,
   R!Return, R!Throw, R!LinkFails, R!Connected, R!Sent, R!Encoded,
   R!ConnectMsg, R!C, R!Written, R!ReadFromTarget, R!DataMsg,
   R!TargetFails, R!Extracts, R!Bodies, R!Runs, R!Garbled, R!Intact, R!Msg,
   R!CloseBoth, R!LinkReads, R!TargetReads, R!Ops, R!Fails,
   R!LinkWrites, R!TargetWrites, R!Whole, R!Close, Remote!RemoteNext,
   Remote!handleAccept, Remote!handleAuthFromBrowser,
   Remote!handleQueryDns, Remote!handleConnectToTarget,
   Remote!handleWriteRespToBrowser, Remote!handleWriteDataToBrowser,
   Remote!handleReadDataFromTarget, Remote!handleWriteDataToTarget,
   Remote!handleReadDataFromBrowser, Remote!Link, Remote!Service,
   Remote!Logged, Remote!ReadFromLink, Remote!Check, Remote!Start,
   Remote!IsConnectReq, Remote!checkUser, Remote!After, Remote!Shutdown,
   Remote!Done, Remote!FrameOk, Remote!LinkReset, Remote!Type,
   Remote!Return, Remote!Throw, Remote!LinkFails, Remote!Connected,
   Remote!Sent, Remote!Encoded, Remote!ConnectMsg, Remote!C,
   Remote!Written, Remote!ReadFromTarget, Remote!DataMsg,
   Remote!TargetFails, Remote!Extracts, Remote!Bodies, Remote!Runs,
   Remote!Garbled, Remote!Intact, Remote!Msg, Remote!CloseBoth, Remote!LinkReads,
   Remote!TargetReads, Remote!Ops, Remote!Fails, Remote!LinkWrites,
   Remote!TargetWrites, Remote!Whole, Remote!Close

LEMMA BrowserActs == BrowserNext <=> Local!BrowserNext
BY DEF
   BrowserNext, Greet, Request, SendData, BrowserReceives,
   BrowserCloses, BrowserResets, GreetCells, ReqCells, C, PortCells,
   Local!BrowserNext, Local!Greet, Local!Request, Local!SendData,
   Local!BrowserReceives, Local!BrowserCloses, Local!BrowserResets,
   Local!GreetCells, Local!ReqCells, Local!C, Local!PortCells

LEMMA TargetActs == TargetNext <=> Remote!TargetNext
BY DEF
   TargetNext, TargetSends, TargetReceives, TargetCloses, TargetResets,
   C, Remote!TargetNext, Remote!TargetSends, Remote!TargetReceives,
   Remote!TargetCloses, Remote!TargetResets, Remote!C

-----------------------------------------------------------------------------
(* The control of the two sessions.                                        *)

(* A process that was killed, or that another session took along.          *)
Dead(operations, kept, accepted, made) ==
  /\ operations = {} /\ kept = {}
  /\ accepted = "closed" /\ made \in {"new", "closed"}

LocalDead == Dead(pend, queued, sock, rsock)
RemoteDead == Dead(rpend, rqueued, peer, tsock)

ControlInv ==
  /\ Local!ControlInv \/ LocalDead
  /\ Remote!ControlInv \/ RemoteDead

LEMMA LocalActs ==
  ASSUME ControlInv, LocalNext
  PROVE  Local!ControlInv /\ Local!LocalNext /\ Local!ControlInv'
<1>1. ~ LocalDead
  BY DEF LocalNext, LocalDead, Dead, handleReadHandShake, handleWriteHandShake,
         handleReadSockv5Req, handleConnectToRemote, handleReadAuthRspFromRemote,
         handleReadAuthRspFromRemoteRead, handleWriteSockv5RspToBrowser,
         handleBeginPipeTransfer, handleReadDataFromBrowser, handleWriteDataToRemote,
         handleReadDataFromRemote, handleWriteDataToBrowser, ReadFromBrowser,
         ReadFromRemote, Written, BrowserFails, RemoteFails, Runs, Fails
<1>2. Local!ControlInv /\ Local!LocalNext
  BY <1>1, LocalHandlers DEF ControlInv
<1> QED
  BY <1>2, Local!HandlersKeepControl, LocalAssumption, BrowserAssumption,
     LogLvAssumption, TargetAssumption

LEMMA RemoteActs ==
  ASSUME ControlInv, R!RemoteNext
  PROVE  Remote!ControlInv /\ Remote!RemoteNext /\ Remote!ControlInv'
<1>1. ~ RemoteDead
  BY DEF R!RemoteNext, RemoteDead, Dead, R!handleAccept, R!handleAuthFromBrowser,
         R!handleQueryDns, R!handleConnectToTarget, R!handleWriteRespToBrowser,
         R!handleWriteDataToBrowser, R!handleReadDataFromTarget,
         R!handleWriteDataToTarget, R!handleReadDataFromBrowser, R!ReadFromLink,
         R!ReadFromTarget, R!Written, R!LinkFails, R!TargetFails, R!Runs, R!Fails
<1>2. Remote!ControlInv /\ Remote!RemoteNext
  BY <1>1, RemoteHandlers DEF ControlInv
<1> QED
  BY <1>2, Remote!AcceptKeepsControl, Remote!HandlersKeepControl,
     Remote!WaitingOnlyAccepts, LocalAssumption, TargetAssumption, LogLvAssumption
     DEF Remote!ControlInv, Remote!RemoteNext

(* A process dies: its session is gone.                                    *)
LEMMA DeathsEndControl ==
  ASSUME ControlInv, LocalDies \/ RemoteDies
  PROVE  ControlInv'
<1>1. CASE LocalDies
  <2>1. /\ pend' = {} /\ queued' = {}
        /\ sock' = Close(sock) /\ rsock' = Close(rsock)
        /\ UNCHANGED << remote, peer >>
    BY <1>1 DEF LocalDies, Throw, CloseBoth
  <2>2. sock \in {"up", "closed"} /\ rsock \in {"new", "up", "closed"}
    BY DEF ControlInv, LocalDead, Dead, Local!ControlInv, Local!Phases,
           Local!SettingUp, Local!Piping, Local!Closing, Local!Gone
  <2>3. LocalDead'
    BY <2>1, <2>2 DEF LocalDead, Dead, Close
  <2>4. (Remote!ControlInv \/ RemoteDead)'
    BY <2>1 DEF ControlInv, remote, RemoteDead, Dead, Remote!ControlInv,
                Remote!Waiting, Remote!Phases, Remote!SettingUp, Remote!Piping,
                Remote!Closing, Remote!Gone
  <2> QED
    BY <2>3, <2>4 DEF ControlInv
<1>2. CASE RemoteDies
  <2>1. /\ rpend' = {} /\ rqueued' = {}
        /\ peer' = Close(peer) /\ tsock' = Close(tsock) /\ peer # "new"
        /\ UNCHANGED << local, rsock >>
    BY <1>2 DEF RemoteDies, R!Throw, R!CloseBoth, R!Close, Close
  <2>2. peer \in {"up", "closed"} /\ tsock \in {"new", "up", "closed"}
    BY <2>1 DEF ControlInv, RemoteDead, Dead, Remote!ControlInv, Remote!Waiting,
                Remote!Phases, Remote!SettingUp, Remote!Piping, Remote!Closing,
                Remote!Gone
  <2>3. RemoteDead'
    BY <2>1, <2>2 DEF RemoteDead, Dead, Close
  <2>4. (Local!ControlInv \/ LocalDead)'
    BY <2>1 DEF ControlInv, local, LocalDead, Dead, Local!ControlInv,
                Local!Phases, Local!SettingUp, Local!Piping, Local!Closing, Local!Gone
  <2> QED
    BY <2>3, <2>4 DEF ControlInv
<1> QED
  BY <1>1, <1>2

(* What one session is made of no other process touches.                   *)
LEMMA LocalControlStays ==
  ASSUME ControlInv, UNCHANGED << pend, queued, sock, rsock, terminated >>
  PROVE  (Local!ControlInv \/ LocalDead)'
BY DEF ControlInv, LocalDead, Dead, Local!ControlInv, Local!Phases,
       Local!SettingUp, Local!Piping, Local!Closing, Local!Gone

LEMMA RemoteControlStays ==
  ASSUME ControlInv, UNCHANGED << rpend, rqueued, peer, tsock, rterminated >>
  PROVE  (Remote!ControlInv \/ RemoteDead)'
BY DEF ControlInv, RemoteDead, Dead, Remote!ControlInv, Remote!Waiting,
       Remote!Phases, Remote!SettingUp, Remote!Piping, Remote!Closing, Remote!Gone

(* A handler of one session does not touch the other.                      *)
LEMMA HandlersApart ==
  /\ LocalNext => peer' = peer
  /\ R!RemoteNext => rsock' = rsock
BY DEF LocalNext, handleReadHandShake, handleWriteHandShake, handleReadSockv5Req,
       handleConnectToRemote, handleReadAuthRspFromRemote,
       handleReadAuthRspFromRemoteRead, handleWriteSockv5RspToBrowser,
       handleBeginPipeTransfer, handleReadDataFromBrowser, handleWriteDataToRemote,
       handleReadDataFromRemote, handleWriteDataToBrowser, Link,
       R!RemoteNext, R!handleAccept, R!handleAuthFromBrowser, R!handleQueryDns,
       R!handleConnectToTarget, R!handleWriteRespToBrowser,
       R!handleWriteDataToBrowser, R!handleReadDataFromTarget,
       R!handleWriteDataToTarget, R!handleReadDataFromBrowser, R!Link

LEMMA StepsKeepControl == ControlInv /\ [Next]_vars => ControlInv'
<1> SUFFICES ASSUME ControlInv, [Next]_vars PROVE ControlInv'
  OBVIOUS
<1>1. CASE OnLocal(LocalNext)
  BY <1>1, LocalActs, HandlersApart, RemoteControlStays DEF OnLocal, ControlInv, remote
<1>2. CASE OnRemote(R!RemoteNext)
  BY <1>2, RemoteActs, HandlersApart, LocalControlStays DEF OnRemote, ControlInv, local
<1>3. CASE BrowserStep \/ TargetStep \/ UNCHANGED vars
  BY <1>3, LocalControlStays, RemoteControlStays
     DEF BrowserStep, TargetStep, vars, local, link, remote, ControlInv
<1> QED
  BY <1>1, <1>2, <1>3, DeathsEndControl DEF Next

-----------------------------------------------------------------------------
(* Types.                                                                  *)
TypeInv == Local!DataType /\ Remote!DataType

(* The two sides mean the same by a cell, a message and a piece.           *)
LEMMA SameWords ==
  /\ Local!Cell = Cell /\ Local!Frame = Frame /\ Local!Piece = Piece
  /\ Remote!Cell = Cell /\ Remote!Frame = Frame /\ Remote!Piece = Piece
  /\ Local!Ends = Ends /\ Remote!Ends = Ends
BY DEF Local!Cell, Local!Frame, Local!Piece, Local!CellTypes, Local!Ends,
       Remote!Cell, Remote!Frame, Remote!Piece, Remote!CellTypes, Remote!Ends,
       Cell, Frame, Piece, CellTypes, Ends

LEMMA AnswerType == Answer \in Frame
BY CellType, SingletonType, FrameType DEF Answer, CellTypes

(* What keeps the types of the two sides.                                  *)
LEMMA LocalTypeIs ==
  Local!DataType <=>
    /\ BrowserTypeOK /\ peer \in Ends
    /\ tmpB \in Seq(Cell) /\ tmpR \in Seq(Piece) /\ req \in Nat
    /\ l2r \in Seq(Piece) /\ r2l \in Seq(Piece) /\ rtmpB \in Seq(Piece)
<1>1. (IF target # "new" THEN << Answer >> ELSE << >>) \in Seq(Frame)
  BY AnswerType, SingletonType, EmptySeq
<1>2. Local!BrowserTypeOK <=> BrowserTypeOK
  BY SameWords DEF Local!BrowserTypeOK, BrowserTypeOK
<1> QED
  BY <1>1, <1>2, SameWords DEF Local!DataType

LEMMA RemoteTypeIs ==
  Remote!DataType <=>
    /\ TargetTypeOK /\ rsock \in Ends
    /\ rtmpB \in Seq(Piece) /\ rtmpR \in Seq(Cell)
    /\ l2r \in Seq(Piece) /\ r2l \in Seq(Piece) /\ tmpR \in Seq(Piece)
<1>1. << >> \in Seq(Frame)
  BY EmptySeq
<1>2. Remote!TargetTypeOK <=> TargetTypeOK
  BY SameWords DEF Remote!TargetTypeOK, TargetTypeOK
<1> QED
  BY <1>1, <1>2, SameWords DEF Remote!DataType

LEMMA EndsType ==
  ASSUME ControlInv
  PROVE  sock \in Ends /\ rsock \in Ends /\ peer \in Ends /\ tsock \in Ends
BY DEF ControlInv, LocalDead, RemoteDead, Dead, Ends, Local!ControlInv,
       Local!Phases, Local!SettingUp, Local!Piping, Local!Closing, Local!Gone,
       Remote!ControlInv, Remote!Waiting, Remote!Phases, Remote!SettingUp,
       Remote!Piping, Remote!Closing, Remote!Gone

LEMMA LocalKeepsType ==
  ASSUME ControlInv, ControlInv', TypeInv, OnLocal(LocalNext)
  PROVE  TypeInv'
<1>1. Local!DataType /\ Local!LocalNext
  BY LocalActs DEF OnLocal, TypeInv
<1>2. UNCHANGED << IF target # "new" THEN << Answer >> ELSE << >>, rtmpB >>
  BY DEF OnLocal, remote, service
<1>3. Local!DataType'
  BY <1>1, <1>2, Local!HandshakeKeepsType, Local!RequestKeepsType,
     Local!ConnectKeepsType, Local!ResponseKeepsType, Local!FromBrowserKeepsType,
     Local!FromRemoteKeepsType, Local!WritesKeepType, LocalAssumption,
     BrowserAssumption, LogLvAssumption, TargetAssumption
     DEF Local!LocalNext
<1>4. TargetTypeOK /\ rtmpB \in Seq(Piece) /\ rtmpR \in Seq(Cell)
  BY RemoteTypeIs DEF TypeInv
<1>5. TargetTypeOK' /\ (rtmpB \in Seq(Piece))' /\ (rtmpR \in Seq(Cell))'
  BY <1>4 DEF OnLocal, remote, service, TargetTypeOK
<1>6. (rsock \in Ends)'
  BY EndsType DEF ControlInv, LocalDead, Dead, Ends, Local!ControlInv,
       Local!Phases, Local!SettingUp, Local!Piping, Local!Closing, Local!Gone
<1>7. (l2r \in Seq(Piece))' /\ (r2l \in Seq(Piece))' /\ (tmpR \in Seq(Piece))'
  BY <1>3, SameWords DEF Local!DataType
<1>8. Remote!DataType'
  BY <1>5, <1>6, <1>7, SameWords, EmptySeq
     DEF Remote!DataType, TargetTypeOK, Remote!TargetTypeOK
<1> QED
  BY <1>3, <1>8 DEF TypeInv

LEMMA RemoteKeepsType ==
  ASSUME ControlInv, ControlInv', TypeInv, OnRemote(R!RemoteNext)
  PROVE  TypeInv'
<1>1. Remote!DataType /\ Remote!RemoteNext
  BY RemoteActs DEF OnRemote, TypeInv
<1>2. UNCHANGED << << >>, tmpR >>
  BY DEF OnRemote, local
<1>3. Remote!DataType'
  BY <1>1, <1>2, Remote!AuthKeepsType, Remote!ConnectKeepsType,
     Remote!FromTargetKeepsType, Remote!FromLinkKeepsType, Remote!OthersKeepType,
     LocalAssumption, LogLvAssumption, TargetAssumption
     DEF Remote!RemoteNext
<1>4. BrowserTypeOK /\ tmpB \in Seq(Cell) /\ tmpR \in Seq(Piece) /\ req \in Nat
  BY LocalTypeIs DEF TypeInv
<1>5. BrowserTypeOK' /\ (tmpB \in Seq(Cell))' /\ (tmpR \in Seq(Piece))'
      /\ (req \in Nat)'
  BY <1>4 DEF OnRemote, client, local, BrowserTypeOK
<1>6. (peer \in Ends)'
  BY DEF ControlInv, RemoteDead, Dead, Ends, Remote!ControlInv, Remote!Waiting,
         Remote!Phases, Remote!SettingUp, Remote!Piping, Remote!Closing, Remote!Gone
<1>7. (l2r \in Seq(Piece))' /\ (r2l \in Seq(Piece))' /\ (rtmpB \in Seq(Piece))'
  BY <1>3, SameWords DEF Remote!DataType
<1>8. (IF target # "new" THEN << Answer >> ELSE << >>)' \in Seq(Frame)
  BY AnswerType, SingletonType, EmptySeq
<1>9. Local!DataType'
  BY <1>5, <1>6, <1>7, <1>8, SameWords
     DEF Local!DataType, BrowserTypeOK, Local!BrowserTypeOK
<1> QED
  BY <1>3, <1>9 DEF TypeInv

LEMMA NeighboursKeepType ==
  ASSUME TypeInv, ControlInv',
         BrowserStep \/ TargetStep \/ LocalDies \/ RemoteDies \/ UNCHANGED vars
  PROVE  TypeInv'
<1>1. CASE BrowserStep
  <2>1. Local!BrowserStep
    BY <1>1, BrowserActs
       DEF BrowserStep, Local!BrowserStep, local, link, remote, service,
           Local!session, Local!control, Local!Link
  <2>2. Local!DataType'
    BY <2>1, Local!BrowserKeepsType, LocalAssumption, BrowserAssumption,
       LogLvAssumption, TargetAssumption DEF TypeInv
  <2>3. Remote!DataType'
    BY <1>1 DEF BrowserStep, local, link, remote, service, TypeInv, Remote!DataType,
                Remote!TargetTypeOK
  <2> QED
    BY <2>2, <2>3 DEF TypeInv
<1>2. CASE TargetStep
  <2>1. Remote!TargetStep
    BY <1>2, TargetActs
       DEF TargetStep, Remote!TargetStep, client, local, link, remote,
           Remote!session, Remote!control, Remote!Link
  <2>2. Remote!DataType'
    BY <2>1, Remote!TargetKeepsType, LocalAssumption, LogLvAssumption,
       TargetAssumption DEF TypeInv
  <2>3. (IF target # "new" THEN << Answer >> ELSE << >>)' \in Seq(Frame)
    BY AnswerType, SingletonType, EmptySeq
  <2>4. Local!DataType'
    BY <1>2, <2>3, SameWords
       DEF TargetStep, client, local, link, remote, TypeInv, Local!DataType,
           Local!BrowserTypeOK
  <2> QED
    BY <2>2, <2>4 DEF TypeInv
<1>3. CASE LocalDies \/ RemoteDies \/ UNCHANGED vars
  <2>1. UNCHANGED << client, tmpB, tmpR, req, l2r, r2l, rtmpB, rtmpR, service >>
    BY <1>3 DEF LocalDies, RemoteDies, vars, remote, local, link
  <2>2. BrowserTypeOK /\ TargetTypeOK
        /\ tmpB \in Seq(Cell) /\ tmpR \in Seq(Piece) /\ req \in Nat
        /\ l2r \in Seq(Piece) /\ r2l \in Seq(Piece)
        /\ rtmpB \in Seq(Piece) /\ rtmpR \in Seq(Cell)
    BY LocalTypeIs, RemoteTypeIs DEF TypeInv
  <2>3. BrowserTypeOK' /\ TargetTypeOK'
        /\ (tmpB \in Seq(Cell))' /\ (tmpR \in Seq(Piece))' /\ (req \in Nat)'
        /\ (l2r \in Seq(Piece))' /\ (r2l \in Seq(Piece))'
        /\ (rtmpB \in Seq(Piece))' /\ (rtmpR \in Seq(Cell))'
    BY <2>1, <2>2 DEF client, service, BrowserTypeOK, TargetTypeOK
  <2>4. (peer \in Ends)' /\ (rsock \in Ends)'
    BY DEF ControlInv, LocalDead, RemoteDead, Dead, Ends, Local!ControlInv,
           Local!Phases, Local!SettingUp, Local!Piping, Local!Closing, Local!Gone,
           Remote!ControlInv, Remote!Waiting, Remote!Phases, Remote!SettingUp,
           Remote!Piping, Remote!Closing, Remote!Gone
  <2>5. (IF target # "new" THEN << Answer >> ELSE << >>)' \in Seq(Frame)
        /\ << >> \in Seq(Frame)
    BY AnswerType, SingletonType, EmptySeq
  <2>6. Local!DataType'
    BY <2>3, <2>4, <2>5, SameWords
       DEF Local!DataType, BrowserTypeOK, Local!BrowserTypeOK
  <2>7. Remote!DataType'
    BY <2>3, <2>4, <2>5, SameWords
       DEF Remote!DataType, TargetTypeOK, Remote!TargetTypeOK
  <2> QED
    BY <2>6, <2>7 DEF TypeInv
<1> QED
  BY <1>1, <1>2, <1>3

LEMMA StepsKeepType == ControlInv /\ TypeInv /\ [Next]_vars => TypeInv'
BY StepsKeepControl, LocalKeepsType, RemoteKeepsType, NeighboursKeepType DEF Next

-----------------------------------------------------------------------------
(* The link joins the phases of the two sessions: RemoteSession accepts    *)
(* what Session connected, and the target is connected between its set-up  *)
(* and its pipe.                                                           *)
LinkInv ==
  /\ peer # "new" => rsock # "new"
  /\ Remote!BeforeTarget => target = "new"
  /\ rpend \cap (Remote!Ops \ Remote!Asking) # {} => target # "new"

(* No handler of Session takes its connection back.                        *)
LEMMA ConnectionStays ==
  ASSUME LocalNext, rsock # "new"
  PROVE  rsock' # "new"
<1>1. CASE handleConnectToRemote
  BY <1>1 DEF handleConnectToRemote, Connected, Return, CloseBoth, Close
<1>2. CASE ~ handleConnectToRemote
  BY <1>2 DEF LocalNext, handleReadHandShake, handleWriteHandShake,
       handleReadSockv5Req, handleReadAuthRspFromRemote,
       handleReadAuthRspFromRemoteRead, handleWriteSockv5RspToBrowser,
       handleBeginPipeTransfer, handleReadDataFromBrowser, handleWriteDataToRemote,
       handleReadDataFromRemote, handleWriteDataToBrowser, Start, Shutdown, Return,
       Throw, BrowserReset, CloseBoth, Close
<1> QED
  BY <1>1, <1>2

LEMMA RemoteMoves ==
  ASSUME ControlInv, OnRemote(R!RemoteNext)
  PROVE  /\ Remote!BeforeTarget' => Remote!BeforeTarget
         /\ peer # "new" => peer' # "new"
         /\ peer = "new" => rsock # "new"
         /\ \/ /\ target' = target
               /\ rpend' \cap (Remote!Ops \ Remote!Asking) # {}
                    => rpend \cap (Remote!Ops \ Remote!Asking) # {}
            \/ /\ target' = "up" /\ ~ Remote!BeforeTarget'
               /\ Remote!BeforeTarget /\ peer = "up" /\ peer' = "up"
               /\ r2l' = r2l \o Encoded(Answer)
<1>1. Remote!ControlInv /\ Remote!RemoteNext
  BY RemoteActs DEF OnRemote
<1>2. Remote!Encoded(Remote!ConnectMsg(<< Remote!C("connrsp", 0) >>)) = Encoded(Answer)
  BY DEF Answer, Encoded, ConnectMsg, C, Remote!Encoded, Remote!ConnectMsg, Remote!C
<1>3. peer = "new" => rsock # "new"
  BY <1>1, Remote!WaitingOnlyAccepts, LocalAssumption, TargetAssumption,
     LogLvAssumption
     DEF Remote!ControlInv, Remote!Phases, Remote!SettingUp, Remote!Piping,
         Remote!Closing, Remote!Gone, Remote!handleAccept
<1> QED
  BY <1>1, <1>2, <1>3, Remote!PhasesGoOn, LocalAssumption, TargetAssumption,
     LogLvAssumption

LEMMA RemoteKeepsLink ==
  ASSUME ControlInv, LinkInv, OnRemote(R!RemoteNext)
  PROVE  LinkInv'
<1>1. rsock' = rsock
  BY HandlersApart DEF OnRemote
<1> QED
  BY <1>1, RemoteMoves DEF LinkInv, Remote!BeforeTarget

LEMMA OthersKeepLink ==
  ASSUME ControlInv, LinkInv, \/ OnLocal(LocalNext) \/ BrowserStep \/ TargetStep
                              \/ LocalDies \/ RemoteDies \/ UNCHANGED vars
  PROVE  LinkInv'
<1>1. CASE OnLocal(LocalNext)
  BY <1>1, ConnectionStays, HandlersApart
     DEF OnLocal, remote, service, LinkInv, Remote!BeforeTarget, Remote!AtStart
<1>2. CASE BrowserStep \/ TargetStep \/ UNCHANGED vars
  <2>1. UNCHANGED << rpend, peer, rsock >> /\ (target' = "new" <=> target = "new")
    BY <1>2 DEF BrowserStep, TargetStep, TargetNext, TargetSends, TargetReceives,
                TargetCloses, TargetResets, vars, link, remote, service
  <2> QED
    BY <2>1 DEF LinkInv, Remote!BeforeTarget, Remote!AtStart
<1>3. CASE LocalDies
  BY <1>3 DEF LocalDies, Throw, CloseBoth, Close, remote, service, LinkInv,
              Remote!BeforeTarget, Remote!AtStart
<1>4. CASE RemoteDies
  BY <1>4 DEF RemoteDies, R!Throw, R!CloseBoth, R!Close, service, LinkInv,
              Remote!BeforeTarget, Remote!AtStart
<1> QED
  BY <1>1, <1>2, <1>3, <1>4

LEMMA StepsKeepLink == ControlInv /\ LinkInv /\ [Next]_vars => LinkInv'
BY RemoteKeepsLink, OthersKeepLink DEF Next

-----------------------------------------------------------------------------
(* The dialogue.  What Session heard from its server, told the browser and *)
(* holds of its messages stays what LocalSystemProofs says of any server.  *)
DialogueInv == Local!HeardInv /\ Local!ToldInv /\ Local!SpokenInv

(* RemoteSession sends nothing before its answer.                          *)
LEMMA RemoteSends ==
  ASSUME ControlInv, TypeInv, LinkInv, OnRemote(R!RemoteNext)
  PROVE  \/ r2l' = r2l /\ target' = target
         \/ /\ target = "new" /\ target' = "up" /\ peer = "up"
            /\ r2l' = r2l \o Encoded(Answer)
         \/ /\ target # "new" /\ target' = target
            /\ \E x \in Seq(Piece) : r2l' = r2l \o x
<1>1. Remote!DataType /\ Remote!RemoteNext
  BY RemoteActs DEF OnRemote, TypeInv
<1>2. \/ r2l' = r2l
      \/ Remote!handleConnectToTarget
      \/ /\ "handleWriteDataToBrowser" \in rpend
         /\ \E x \in Seq(Piece) : r2l' = r2l \o x
  BY <1>1, Remote!SendsBehind, SameWords, LocalAssumption, TargetAssumption,
     LogLvAssumption
<1>3. "handleWriteDataToBrowser" \in rpend => target # "new"
  BY DEF LinkInv, Remote!Ops, Remote!Asking, Remote!TargetReads
<1>4. Remote!handleConnectToTarget =>
        target' = "up" \/ (target' = target /\ r2l' = r2l)
  BY DEF Remote!handleConnectToTarget
<1>5. "handleConnectToTarget" \in rpend => target = "new"
  BY DEF LinkInv, Remote!BeforeTarget, Remote!Asking
<1>6. Remote!handleConnectToTarget => "handleConnectToTarget" \in rpend
  BY DEF Remote!handleConnectToTarget
<1> QED
  BY <1>2, <1>3, <1>4, <1>5, <1>6, RemoteMoves DEF LinkInv

LEMMA RemoteKeepsHeard ==
  ASSUME ControlInv, TypeInv, LinkInv, Local!HeardInv, OnRemote(R!RemoteNext)
  PROVE  Local!HeardInv'
<1> DEFINE sent == IF target # "new" THEN << Answer >> ELSE << >>
<1>1. UNCHANGED << pend, tmpR, rsock >>
  BY HandlersApart DEF OnRemote, local
<1>2. tmpR \in Seq(Piece) /\ r2l \in Seq(Piece)
  BY LocalTypeIs DEF TypeInv
<1>3. Local!Accepted <=> target # "new"
  BY DEF Local!Accepted, Answer, ConnectMsg, C, Local!ConnectMsg, Local!C
<1>4. Local!Accepted' <=> target' # "new"
  BY DEF Local!Accepted, Answer, ConnectMsg, C, Local!ConnectMsg, Local!C
<1>5. Local!Unanswered <=>
        \/ target = "new" /\ tmpR = << >> /\ r2l = << >>
        \/ /\ target # "new" /\ (tmpR = << >> => r2l # << >>)
           /\ (IF tmpR # << >> THEN tmpR[1] ELSE r2l[1]) = [f |-> Answer, half |-> 1]
  BY DEF Local!Unanswered
<1>6. Local!Unanswered' <=>
        \/ target' = "new" /\ tmpR' = << >> /\ r2l' = << >>
        \/ /\ target' # "new" /\ (tmpR' = << >> => r2l' # << >>)
           /\ (IF tmpR' # << >> THEN tmpR'[1] ELSE r2l'[1]) = [f |-> Answer, half |-> 1]
  BY DEF Local!Unanswered
<1>7. pend \cap Local!Asking # {} => peer = "new" /\ peer' = "new"
  <2>1. pend \cap Local!Asking # {} => rsock = "new"
    BY Local!HandlersApart, LocalAssumption, BrowserAssumption, LogLvAssumption,
       TargetAssumption
       DEF ControlInv, LocalDead, Dead, Local!ControlInv, Local!Phases,
           Local!SettingUp, Local!Piping, Local!Closing, Local!Gone, Local!Apart
  <2> QED
    BY <1>1, <2>1, RemoteKeepsLink DEF LinkInv
<1>8. Local!Unanswered => Local!Unanswered'
  <2>1. CASE r2l' = r2l /\ target' = target
    BY <1>1, <1>5, <1>6, <2>1
  <2>2. CASE /\ target = "new" /\ target' = "up"
             /\ r2l' = r2l \o Encoded(Answer)
    <3>1. << >> \o Encoded(Answer) = Encoded(Answer)
      BY AnswerType, EncodedType, ConcatEmptySeq
    <3>2. Encoded(Answer) # << >> /\ Encoded(Answer)[1] = [f |-> Answer, half |-> 1]
      BY DEF Encoded
    <3> QED
      BY <1>1, <1>5, <1>6, <2>2, <3>1, <3>2
  <2>3. CASE /\ target # "new" /\ target' = target
             /\ \E x \in Seq(Piece) : r2l' = r2l \o x
    <3>1. PICK x \in Seq(Piece) : r2l' = r2l \o x
      BY <2>3
    <3>2. r2l # << >> => r2l' # << >> /\ r2l'[1] = r2l[1]
      BY <1>2, <3>1
    <3> QED
      BY <1>1, <1>5, <1>6, <2>3, <3>2
  <2> QED
    BY <2>1, <2>2, <2>3, RemoteSends
<1>10. (sent # << >> /\ sent[1].body = << Local!C("connrsp", 0) >>
          => Local!Accepted)'
  BY <1>4
<1> QED
  BY <1>1, <1>7, <1>8, <1>10 DEF Local!HeardInv

(* No step but Session's own changes what it told and asked.               *)
LEMMA ToldStays ==
  ASSUME Local!ToldInv, UNCHANGED << pend, got, l2b >>, target # "new" => target' # "new"
  PROVE  Local!ToldInv'
<1>1. Local!Accepted => Local!Accepted'
  BY DEF Local!Accepted, Answer, ConnectMsg, C, Local!ConnectMsg, Local!C
<1>2. Local!Chunks' = Local!Chunks
  BY DEF Local!Chunks
<1> QED
  BY <1>1, <1>2 DEF Local!ToldInv, Local!Told, Local!Silent

LEMMA SpokenStays ==
  ASSUME Local!SpokenInv, UNCHANGED << pend, tmpB, b2l, req, asked, upSent >>
  PROVE  Local!SpokenInv'
BY DEF Local!SpokenInv, Local!Greets, Local!Requests, Local!Linking

LEMMA HeardStays ==
  ASSUME Local!HeardInv, UNCHANGED << pend, tmpR, r2l >>,
         target' # "new" <=> target # "new",
         pend \cap Local!Asking # {} /\ peer = "new" => peer' = "new"
  PROVE  Local!HeardInv'
<1>1. (IF target # "new" THEN << Answer >> ELSE << >>)'
        = IF target # "new" THEN << Answer >> ELSE << >>
  OBVIOUS
<1> QED
  BY <1>1 DEF Local!HeardInv, Local!Unanswered, Local!Accepted

LEMMA LocalKeepsDialogue ==
  ASSUME ControlInv, TypeInv, DialogueInv, OnLocal(LocalNext)
  PROVE  DialogueInv'
<1>1. Local!ControlInv /\ Local!LocalNext /\ Local!DataType
  BY LocalActs DEF OnLocal, TypeInv
<1>2. UNCHANGED (IF target # "new" THEN << Answer >> ELSE << >>)
  BY DEF OnLocal, service
<1> QED
  BY <1>1, <1>2, Local!HandlersKeepHeard, Local!HandlersKeepTold,
     Local!HandlersKeepSpoken, LocalAssumption, BrowserAssumption,
     LogLvAssumption, TargetAssumption DEF DialogueInv

LEMMA BrowserKeepsDialogue ==
  ASSUME ControlInv, TypeInv, DialogueInv, BrowserStep
  PROVE  DialogueInv'
<1>1. Local!BrowserStep /\ Local!BrowserNext
  BY BrowserActs
     DEF BrowserStep, Local!BrowserStep, local, link, remote, service,
         Local!session, Local!control, Local!Link
<1>2. UNCHANGED << pend, tmpB, req >>
  BY DEF BrowserStep, local
<1>3. Local!HeardInv' /\ Local!ToldInv'
  BY <1>1, Local!BrowserKeepsTold, LocalAssumption, BrowserAssumption,
     LogLvAssumption, TargetAssumption DEF DialogueInv, TypeInv
<1>4. CASE Local!ControlInv
  BY <1>1, <1>2, <1>3, <1>4, Local!BrowserKeepsSpoken, LocalAssumption,
     BrowserAssumption, LogLvAssumption, TargetAssumption DEF DialogueInv, TypeInv
<1>5. CASE LocalDead
  <2>1. pend' = {}
    BY <1>2, <1>5 DEF LocalDead, Dead
  <2>2. Local!SpokenInv'
    BY <2>1 DEF Local!SpokenInv, Local!Greets, Local!Requests, Local!Linking
  <2> QED
    BY <1>3, <2>2 DEF DialogueInv
<1> QED
  BY <1>4, <1>5 DEF ControlInv

LEMMA StepsKeepDialogue ==
  ControlInv /\ TypeInv /\ LinkInv /\ DialogueInv /\ [Next]_vars => DialogueInv'
<1> SUFFICES ASSUME ControlInv, TypeInv, LinkInv, DialogueInv, [Next]_vars
             PROVE  DialogueInv'
  OBVIOUS
<1>1. CASE OnRemote(R!RemoteNext)
  <2>1. UNCHANGED << pend, got, l2b, tmpB, b2l, req, asked, upSent >>
    BY <1>1 DEF OnRemote, client, local
  <2>2. target # "new" => target' # "new"
    BY <1>1, RemoteSends
  <2> QED
    BY <1>1, <2>1, <2>2, RemoteKeepsHeard, ToldStays, SpokenStays DEF DialogueInv
<1>2. CASE TargetStep \/ UNCHANGED vars
  <2>1. /\ UNCHANGED << pend, got, l2b, tmpB, tmpR, b2l, r2l, req, asked, upSent, peer >>
        /\ target' # "new" <=> target # "new"
    BY <1>2 DEF TargetStep, TargetNext, TargetSends, TargetReceives, TargetCloses,
                TargetResets, vars, client, local, link, service
  <2> QED
    BY <2>1, HeardStays, ToldStays, SpokenStays DEF DialogueInv
<1>3. CASE RemoteDies
  <2>1. /\ UNCHANGED << pend, got, l2b, tmpB, tmpR, b2l, r2l, req, asked, upSent, target >>
        /\ peer # "new"
    BY <1>3 DEF RemoteDies, client, local, service
  <2> QED
    BY <2>1, HeardStays, ToldStays, SpokenStays DEF DialogueInv
<1>4. CASE LocalDies
  <2>1. pend' = {} /\ UNCHANGED << got, l2b, target >>
    BY <1>4 DEF LocalDies, Throw, client, service
  <2>2. Local!HeardInv'
    BY <2>1 DEF DialogueInv, Local!HeardInv, Local!Accepted
  <2>3. Local!ToldInv'
    BY <2>1 DEF DialogueInv, Local!ToldInv, Local!Silent, Local!Told, Local!Chunks,
                Local!Accepted
  <2>4. Local!SpokenInv'
    BY <2>1 DEF Local!SpokenInv, Local!Greets, Local!Requests, Local!Linking
  <2> QED
    BY <2>2, <2>3, <2>4 DEF DialogueInv
<1> QED
  BY <1>1, <1>2, <1>3, <1>4, LocalKeepsDialogue, BrowserKeepsDialogue DEF Next

-----------------------------------------------------------------------------
(* Together.                                                               *)
BaseInv == ControlInv /\ TypeInv /\ LinkInv /\ DialogueInv

LEMMA StepsKeepBase == BaseInv /\ [Next]_vars => BaseInv'
BY StepsKeepControl, StepsKeepType, StepsKeepLink, StepsKeepDialogue DEF BaseInv

LEMMA StartsInBase == Init => BaseInv
<1> SUFFICES ASSUME Init PROVE BaseInv
  OBVIOUS
<1>1. /\ pend = {"handleReadHandShake"} /\ queued = {} /\ sock = "up" /\ rsock = "new"
      /\ tmpB = << >> /\ tmpR = << >> /\ req = 0 /\ terminated = FALSE
      /\ rpend = {} /\ rqueued = {} /\ peer = "new" /\ tsock = "new"
      /\ rtmpB = << >> /\ rtmpR = << >> /\ rterminated = FALSE
      /\ b2l = << >> /\ l2b = << >> /\ browser = "up" /\ asked = "nothing"
      /\ got = << >> /\ upSent = 0
      /\ r2t = << >> /\ t2r = << >> /\ target = "new" /\ tgot = << >> /\ downSent = 0
      /\ l2r = << >> /\ r2l = << >>
  BY DEF Init, BrowserInit, LocalInit, R!RemoteInit, TargetInit
<1>2. ControlInv
  BY <1>1 DEF ControlInv, Local!ControlInv, Local!Phases, Local!SettingUp,
              Local!Setup, Local!Asking, Remote!ControlInv, Remote!Waiting
<1>3. TypeInv
  BY <1>1, EmptySeq, LocalTypeIs, RemoteTypeIs
     DEF TypeInv, BrowserTypeOK, TargetTypeOK, Ends
<1>4. LinkInv
  BY <1>1 DEF LinkInv
<1>5. DialogueInv
  <2>1. Local!Chunks = << >> /\ tmpB \o b2l = << >>
    BY <1>1, EmptySeq, ConcatEmptySeq DEF Local!Chunks
  <2>2. Local!HeardInv
    BY <1>1 DEF Local!HeardInv, Local!Unanswered, Local!Asking, Local!Hearing,
                Local!ReadAgain
  <2>3. Local!ToldInv
    BY <1>1, <2>1 DEF Local!ToldInv, Local!Silent, Local!Greeted, Local!Established,
                Local!Asking, Local!Hearing, Local!UpPipe, Local!DownPipe,
                Local!ReadAgain
  <2>4. Local!SpokenInv
    BY <1>1, <2>1 DEF Local!SpokenInv, Local!Greets, Local!Requests, Local!Linking,
                      Local!Hearing, Local!ReadAgain
  <2> QED
    BY <2>2, <2>3, <2>4 DEF DialogueInv
<1> QED
  BY <1>2, <1>3, <1>4, <1>5 DEF BaseInv

-----------------------------------------------------------------------------
(* The stream of the browser, through both sessions.  m are the messages   *)
(* in the receive buffer of RemoteSession and on the link, as long as it   *)
(* reads the link.  Before it takes the first of them, they are the        *)
(* connect message at most; behind it they are data messages, so that it   *)
(* may write every body it finds.  Session sends nothing but frames.       *)
TargetGets == FlattenSeq(tgot \o r2t)
UpStream == PortCells(req) \o Tokens(upSent)

Established == pend \cap Local!Established # {}

UpHeld(m) ==
  /\ Remote!Reading => Carries(rtmpB \o l2r, m)
  /\ AllFramed(m)
  /\ Remote!AtStart => Len(m) <= 1 /\ (rsock = "new" => m = << >>)
  /\ ~ Remote!AtStart /\ peer # "closed" => \A i \in 1 .. Len(m) : m[i].sub = 2
  /\ Local!Early => TargetGets = << >> /\ DataIn(m) = << >>
  /\ Established /\ sock = "up" /\ peer # "closed" =>
       TargetGets \o (DataIn(m) \o Local!Waits) = UpStream
  /\ peer # "closed" => Begins(TargetGets \o DataIn(m), UpStream)
  /\ Begins(TargetGets, UpStream)

UpInv == \E m \in Seq(Frame) : UpHeld(m)

(* The two sides mean the same by the streams.                             *)
LEMMA SameStreams ==
  /\ \A p, m : Local!Carries(p, m) <=> Carries(p, m)
  /\ \A p, m : Remote!Carries(p, m) <=> Carries(p, m)
  /\ \A m : Remote!AllFramed(m) <=> AllFramed(m)
  /\ \A m : Local!DataIn(m) = DataIn(m) /\ Remote!DataIn(m) = DataIn(m)
  /\ \A m : Remote!BodiesIn(m) = BodiesIn(m)
  /\ \A m, n : Remote!Without(m, n) = Without(m, n)
  /\ \A m : Remote!Later(m) = Later(m)
  /\ \A a : Local!PortCells(a) = PortCells(a)
  /\ \A x : Local!DataMsg(x) = DataMsg(x) /\ Local!ConnectMsg(x) = ConnectMsg(x)
  /\ \A t, p : Local!C(t, p) = C(t, p)
BY DEF Local!Carries, Remote!Carries, Carries, Remote!AllFramed, AllFramed,
       Local!DataIn, Remote!DataIn, DataIn,
       Remote!BodiesIn, BodiesIn, Local!FlattenSeq, Remote!FlattenSeq, FlattenSeq,
       Remote!Without, Without, Remote!Later, Later, Local!PortCells, PortCells,
       Local!DataMsg, DataMsg, Local!ConnectMsg, ConnectMsg, Local!C, C

LEMMA SameGets == Remote!TargetGets = TargetGets /\ Remote!TargetGets' = TargetGets'
BY DEF Remote!TargetGets, TargetGets, Remote!FlattenSeq, FlattenSeq

(* The types of the stream of the browser.                                 *)
LEMMA UpTypes ==
  ASSUME TypeInv
  PROVE  /\ tgot \in Seq(Seq(Cell)) /\ r2t \in Seq(Seq(Cell)) /\ TargetGets \in Seq(Cell)
         /\ upSent \in Nat /\ req \in Nat
         /\ PortCells(req) \in Seq(Cell) /\ Tokens(upSent) \in Seq(Cell)
         /\ UpStream \in Seq(Cell)
         /\ Local!Held \in Seq(Cell) /\ b2l \in Seq(Cell) /\ Local!Waits \in Seq(Cell)
         /\ rtmpB \in Seq(Piece) /\ l2r \in Seq(Piece)
<1>1. /\ tgot \in Seq(Seq(Cell)) /\ r2t \in Seq(Seq(Cell)) /\ upSent \in Nat
      /\ req \in Nat /\ tmpB \in Seq(Cell) /\ b2l \in Seq(Cell)
      /\ rtmpB \in Seq(Piece) /\ l2r \in Seq(Piece)
  BY LocalTypeIs, RemoteTypeIs DEF TypeInv, BrowserTypeOK, TargetTypeOK
<1>2. TargetGets \in Seq(Cell)
  BY <1>1, ChunksSent DEF TargetGets
<1>3. PortCells(req) \in Seq(Cell) /\ Tokens(upSent) \in Seq(Cell)
  BY <1>1, CellType, SingletonType, EmptySeq, TokensGrow DEF PortCells, CellTypes
<1>4. UpStream \in Seq(Cell)
  BY <1>3, ConcatProperties DEF UpStream
<1>5. Local!Held \in Seq(Cell)
  BY <1>1, EmptySeq DEF Local!Held
<1>6. Local!Waits \in Seq(Cell)
  BY <1>1, <1>5, ConcatProperties DEF Local!Waits
<1> QED
  BY <1>1, <1>2, <1>3, <1>4, <1>5, <1>6

(* Data messages have all their bodies in the stream.                      *)
LEMMA AllData ==
  ASSUME NEW m \in Seq(Frame), \A i \in 1 .. Len(m) : m[i].sub = 2
  PROVE  BodiesIn(m) = DataIn(m)
<1>1. DOMAIN m = 1 .. Len(m)
  OBVIOUS
<1>2. [i \in DOMAIN m |-> IF m[i].sub = 2 THEN m[i].body ELSE << >>]
        = [i \in DOMAIN m |-> m[i].body]
  BY <1>1
<1> QED
  BY <1>2 DEF DataIn, BodiesIn

(* Taking messages leaves the others, and a part of the data.              *)
LEMMA WithoutIs ==
  ASSUME NEW m \in Seq(Frame), NEW n \in Nat
  PROVE  /\ \A i \in 1 .. Len(Without(m, n)) :
              \E j \in 1 .. Len(m) : Without(m, n)[i] = m[j]
         /\ DataIn(m) = << >> => DataIn(Without(m, n)) = << >>
<1>1. Len(m) \in Nat
  BY LenProperties
<1>2. CASE n <= Len(m)
  <2> DEFINE r == Without(m, n)
  <2>1. /\ r \in Seq(Frame) /\ Len(r) = Len(m) - n
        /\ \A i \in 1 .. Len(m) - n : r[i] = m[n + i]
    <3>1. n + 1 \in 1 .. Len(m) + 1 /\ Len(m) \in n + 1 - 1 .. Len(m)
      BY <1>1, <1>2
    <3> QED
      BY <1>1, <1>2, <3>1, SubSeqProperties DEF Without
  <2>2. \A i \in 1 .. Len(m) - n : n + i \in 1 .. Len(m)
    BY <1>1, <1>2
  <2>3. n \in 0 .. Len(m)
    BY <1>1, <1>2
  <2>4. SubSeq(m, 1, n) \in Seq(Frame) /\ SubSeq(m, 1, n) \o r = m
    BY <2>3, Splits DEF Without
  <2> HIDE DEF r
  <2>5. /\ DataIn(m) = DataIn(SubSeq(m, 1, n)) \o DataIn(r)
        /\ DataIn(SubSeq(m, 1, n)) \in Seq(Cell) /\ DataIn(r) \in Seq(Cell)
    BY <2>1, <2>4, DataInAdds
  <2>6. DataIn(m) = << >> => DataIn(r) = << >>
    <3>1. Len(DataIn(m)) = Len(DataIn(SubSeq(m, 1, n))) + Len(DataIn(r))
      BY <2>5, ConcatProperties
    <3>2. Len(DataIn(m)) = 0 => Len(DataIn(r)) = 0
      BY <2>5, <3>1, LenProperties
    <3> QED
      BY <2>5, <3>2, EmptySeq
  <2> QED
    BY <2>1, <2>2, <2>6 DEF r
<1>3. CASE ~ n <= Len(m)
  <2>1. Without(m, n) = << >>
    BY <1>1, <1>3, SubSeqEmpty DEF Without
  <2> QED
    BY <2>1, ShortStreams
<1> QED
  BY <1>2, <1>3

(* While Session hears its server, or talks to the browser before, the     *)
(* connection is not established.                                          *)
LEMMA EarlyIsNot ==
  ASSUME ControlInv, Local!Early
  PROVE  ~ Established /\ "handleWriteDataToRemote" \notin pend
<1>1. PICK op \in Local!Setup : op \in pend /\ op \notin Local!Established
  BY DEF Local!Early, Local!Greets, Local!Requests, Local!Linking, Local!Hearing,
         Local!Setup, Local!ReadAgain, Local!Established, Local!UpPipe, Local!DownPipe
<1>2. Local!ControlInv
  BY <1>1 DEF ControlInv, LocalDead, Dead
<1>3. pend = {op}
  BY <1>1, <1>2, Local!SetupEnds, LocalAssumption, BrowserAssumption, LogLvAssumption,
     TargetAssumption
<1> QED
  BY <1>1, <1>3 DEF Established, Local!Established, Local!UpPipe, Local!DownPipe

(* A connection is established only behind the answer of tun_remote, which *)
(* it sends when it is past the first message.                             *)
LEMMA EstablishedIs ==
  ASSUME BaseInv, Established
  PROVE  target # "new" /\ ~ Remote!BeforeTarget /\ ~ Remote!AtStart
<1>1. Local!Accepted
  BY DEF BaseInv, DialogueInv, Local!ToldInv, Local!Told, Established
<1>2. target # "new"
  BY <1>1 DEF Local!Accepted
<1> QED
  BY <1>2 DEF BaseInv, LinkInv, Remote!BeforeTarget

(* RemoteSession reads the link as long as it has it.                      *)
LEMMA ReadingIs ==
  ASSUME ControlInv
  PROVE  /\ peer # "closed" => Remote!Reading
         /\ Remote!AtStart => Remote!Reading
BY DEF ControlInv, RemoteDead, Dead, Remote!ControlInv, Remote!Waiting, Remote!Phases,
       Remote!SettingUp, Remote!Piping, Remote!Closing, Remote!Gone, Remote!Reading,
       Remote!AtStart, Remote!Setup

(* A handler that takes a request knows no port before.                    *)
LEMMA ReqStays ==
  ASSUME LocalNext
  PROVE  req' = req \/ Local!Early
BY DEF LocalNext, handleReadHandShake, handleWriteHandShake, handleReadSockv5Req,
       handleConnectToRemote, handleReadAuthRspFromRemote,
       handleReadAuthRspFromRemoteRead, handleWriteSockv5RspToBrowser,
       handleBeginPipeTransfer, handleReadDataFromBrowser, handleWriteDataToRemote,
       handleReadDataFromRemote, handleWriteDataToBrowser, Local!Early, Local!Requests,
       ReadFromBrowser, BrowserFails, Runs, Fails

(* Session sends what waited, and connects before it sends.                *)
LEMMA LocalKeepsUp ==
  ASSUME BaseInv, BaseInv', UpInv, OnLocal(LocalNext)
  PROVE  UpInv'
<1>0. PICK m \in Seq(Frame) : UpHeld(m)
  BY DEF UpInv
<1>1. /\ tgot' = tgot /\ r2t' = r2t /\ rtmpB' = rtmpB /\ rpend' = rpend /\ peer' = peer
      /\ LocalNext
  BY HandlersApart DEF OnLocal, remote, service
<1>2. /\ TargetGets' = TargetGets /\ (Remote!AtStart' <=> Remote!AtStart)
      /\ (Remote!Reading' <=> Remote!Reading)
  BY <1>1 DEF TargetGets, Remote!AtStart, Remote!Reading
<1>3. upSent' = upSent
  BY <1>1 DEF LocalNext, handleReadHandShake, handleWriteHandShake,
       handleReadSockv5Req, handleConnectToRemote, handleReadAuthRspFromRemote,
       handleReadAuthRspFromRemoteRead, handleWriteSockv5RspToBrowser,
       handleBeginPipeTransfer, handleReadDataFromBrowser, handleWriteDataToRemote,
       handleReadDataFromRemote, handleWriteDataToBrowser, Dialogue
<1>4. CASE ~ Remote!Reading
  <2>1. peer = "closed" /\ ~ Remote!AtStart
    BY <1>4, ReadingIs DEF BaseInv
  <2>2. Local!Early' => Local!Early
    <3>1. Local!ControlInv /\ Local!LocalNext
      BY LocalActs DEF OnLocal, BaseInv
    <3>2. Local!Unheard' => Local!Unheard
      BY <3>1, Local!HandlersDirect, LocalAssumption, BrowserAssumption,
         LogLvAssumption, TargetAssumption
    <3> QED
      BY <3>2 DEF Local!Unheard, Local!Early, Local!Greets, Local!Requests,
                  Local!Linking, Local!Asking
  <2>3. Begins(TargetGets, UpStream')
    <3>1. CASE req' = req
      BY <1>0, <1>3, <3>1 DEF UpHeld, UpStream
    <3>2. CASE Local!Early
      <4>1. TargetGets = << >>
        BY <1>0, <3>2 DEF UpHeld
      <4>2. (upSent \in Nat)' /\ (req \in Nat)'
        BY SameWords DEF BaseInv, TypeInv, Local!DataType, Local!BrowserTypeOK
      <4>3. (PortCells(req) \in Seq(Cell))' /\ (Tokens(upSent) \in Seq(Cell))'
        BY <4>2, CellType, SingletonType, EmptySeq, TokensGrow DEF PortCells, CellTypes
      <4>4. UpStream' \in Seq(Cell)
        BY <4>3, ConcatProperties DEF UpStream
      <4> QED
        BY <4>1, <4>4, BeginsItself
    <3> QED
      BY <1>1, <3>1, <3>2, ReqStays
  <2>4. UpHeld(m)'
    BY <1>0, <1>1, <1>2, <1>4, <2>1, <2>2, <2>3 DEF UpHeld
  <2> QED
    BY <2>4 DEF UpInv
<1>14. ASSUME Remote!Reading
       PROVE  \E r \in Seq(Frame) : Carries((rtmpB \o l2r)', r) /\ Local!UpMoves(m, r)
  <2>1. Local!ControlInv /\ Local!LocalNext /\ Local!DataType
    BY LocalActs DEF OnLocal, BaseInv, TypeInv
  <2>2. m \in Seq(Local!Frame) /\ Local!Carries(rtmpB \o l2r, m)
    BY <1>0, <1>14, SameWords, SameStreams DEF UpHeld
  <2>3. Local!UpCarried(m)
    BY <1>1, <2>1, <2>2, Local!HandlersCarry, LocalAssumption, BrowserAssumption,
       LogLvAssumption, TargetAssumption
  <2> QED
    BY <2>3, SameWords, SameStreams DEF Local!UpCarried
<1> SUFFICES ASSUME NEW r \in Seq(Frame), Carries((rtmpB \o l2r)', r),
                    Local!UpMoves(m, r)
             PROVE  UpInv'
  BY <1>4, <1>14
<1>5. /\ TargetGets \in Seq(Cell) /\ Local!Waits \in Seq(Cell) /\ UpStream \in Seq(Cell)
      /\ PortCells(req) \in Seq(Cell) /\ DataIn(m) \in Seq(Cell) /\ DataIn(r) \in Seq(Cell)
      /\ upSent \in Nat /\ req \in Nat
  BY UpTypes, DataInAdds DEF BaseInv
<1>6. (Local!Waits \in Seq(Cell))' /\ (UpStream \in Seq(Cell))'
  <2>1. (upSent \in Nat)' /\ (req \in Nat)' /\ (tmpB \in Seq(Cell))' /\ (b2l \in Seq(Cell))'
    BY SameWords DEF BaseInv, TypeInv, Local!DataType, Local!BrowserTypeOK
  <2>2. (PortCells(req) \in Seq(Cell))' /\ (Tokens(upSent) \in Seq(Cell))'
    BY <2>1, CellType, SingletonType, EmptySeq, TokensGrow DEF PortCells, CellTypes
  <2>3. (Local!Held \in Seq(Cell))'
    BY <2>1, EmptySeq DEF Local!Held
  <2> QED
    BY <2>1, <2>2, <2>3, ConcatProperties DEF Local!Waits, UpStream
<1>7. req' = req => UpStream' = UpStream
  BY <1>3 DEF UpStream
<1>8. Local!Early => TargetGets = << >> /\ DataIn(m) = << >>
  BY <1>0 DEF UpHeld
<1>9. << >> \o << >> = << >>
  OBVIOUS
<1>10. CASE /\ r = m /\ (Local!Early' => Local!Early) /\ (rsock' = "new" <=> rsock = "new")
            /\ Established' /\ sock' = "up" =>
                 /\ sock = "up" /\ (Local!Linking \/ Established)
                 /\ req' = req /\ Local!Waits' = Local!Waits
  <2>1. ASSUME Established', sock' = "up", peer # "closed"
        PROVE  TargetGets \o (DataIn(r) \o Local!Waits') = UpStream'
    <3>1. CASE Established
      BY <1>0, <1>7, <1>10, <2>1, <3>1 DEF UpHeld
    <3>2. CASE Local!Linking
      <4>1. Local!Early /\ tmpB \o b2l = PortCells(req) /\ upSent = 0
        BY <3>2, SameStreams DEF Local!Early, BaseInv, DialogueInv, Local!SpokenInv
      <4>2. Local!Waits = PortCells(req)
        BY <4>1, EarlyIsNot DEF BaseInv, Local!Waits, Local!Held
      <4>3. << >> \o (<< >> \o PortCells(req)) = PortCells(req) \o << >>
        BY <1>5, ConcatEmptySeq
      <4>4. UpStream = PortCells(req) \o << >>
        BY <4>1, NoTokens DEF UpStream
      <4> QED
        BY <1>7, <1>8, <1>10, <2>1, <4>1, <4>2, <4>3, <4>4
    <3> QED
      BY <1>10, <2>1, <3>1, <3>2
  <2>2. (peer # "closed" => Begins(TargetGets \o DataIn(r), UpStream'))
        /\ Begins(TargetGets, UpStream')
    <3>1. CASE req' = req
      BY <1>0, <1>7, <1>10, <3>1 DEF UpHeld
    <3>2. CASE Local!Early
      <4>1. Begins(<< >>, UpStream')
        BY <1>6, BeginsItself
      <4> QED
        BY <1>8, <1>9, <1>10, <3>2, <4>1
    <3> QED
      BY <1>1, <3>1, <3>2, ReqStays
  <2>3. UpHeld(r)'
    BY <1>0, <1>1, <1>2, <1>8, <1>10, <2>1, <2>2 DEF UpHeld
  <2> QED
    BY <2>3 DEF UpInv
<1>11. CASE /\ Local!Linking /\ ~ Established' /\ rsock = "new" /\ rsock' = "up"
            /\ r = Append(m, ConnectMsg(<< C("connreq", req) >>))
  <2>1. Remote!AtStart /\ m = << >>
    <3>1. peer = "new"
      BY <1>11 DEF BaseInv, LinkInv
    <3> QED
      BY <1>0, <1>11, <3>1 DEF UpHeld, Remote!AtStart
  <2>2. ConnectMsg(<< C("connreq", req) >>) \in Frame
    <3>1. << C("connreq", req) >> \in Seq(Cell)
      BY <1>5, CellType, SingletonType DEF CellTypes
    <3> QED
      BY <3>1, FrameType
  <2>3. Len(r) = 1
    BY <1>11, <2>1
  <2>4. Local!Early
    BY <1>11 DEF Local!Early
  <2>5. DataIn(r) = << >>
    BY <1>8, <1>11, <2>2, <2>4, DataInGrows DEF ConnectMsg
  <2>6. Begins(<< >>, UpStream')
    BY <1>6, BeginsItself
  <2>8. AllFramed(r)
    BY <1>0, <1>11, <2>2, FramedGrows DEF UpHeld, ConnectMsg
  <2>7. UpHeld(r)'
    BY <1>2, <1>8, <1>9, <1>11, <2>1, <2>3, <2>4, <2>5, <2>6, <2>8 DEF UpHeld
  <2> QED
    BY <2>7 DEF UpInv
<1>12. CASE /\ Established /\ sock = "up" /\ ~ Local!Early' /\ req' = req
            /\ \E x \in Seq(Cell) : r = Append(m, DataMsg(x)) /\ x \o Local!Waits' = Local!Waits
  <2>1. PICK x \in Seq(Cell) : r = Append(m, DataMsg(x)) /\ x \o Local!Waits' = Local!Waits
    BY <1>12
  <2>2. DataMsg(x) \in Frame /\ DataMsg(x).sub = 2 /\ DataMsg(x).body = x
    BY FrameType DEF DataMsg
  <2>3. DataIn(r) = DataIn(m) \o x
    BY <2>1, <2>2, DataInGrows
  <2>4. ~ Remote!AtStart
    BY <1>12, EstablishedIs
  <2>5. peer # "closed" => \A i \in 1 .. Len(r) : r[i].sub = 2
    <3>1. Len(r) = Len(m) + 1 /\ r[Len(m) + 1] = DataMsg(x) /\ Len(m) \in Nat
          /\ \A i \in 1 .. Len(m) : r[i] = m[i]
      BY <2>1, <2>2, AppendProperties
    <3>2. \A i \in 1 .. Len(r) : i \in 1 .. Len(m) \/ i = Len(m) + 1
      BY <3>1
    <3> QED
      BY <1>0, <2>2, <2>4, <3>1, <3>2 DEF UpHeld
  <2>6. peer # "closed" => (TargetGets \o DataIn(r)) \o Local!Waits' = UpStream
                           /\ TargetGets \o (DataIn(r) \o Local!Waits') = UpStream
    <3>1. /\ DataIn(m) \in Seq(Cell) /\ x \in Seq(Cell) /\ Local!Waits' \in Seq(Cell)
          /\ TargetGets \in Seq(Cell) /\ DataIn(r) \in Seq(Cell)
      BY <1>5, <1>6
    <3>2. (DataIn(m) \o x) \o Local!Waits' = DataIn(m) \o (x \o Local!Waits')
      BY ONLY <3>1, Regroup
    <3>3. (TargetGets \o DataIn(r)) \o Local!Waits' = TargetGets \o (DataIn(r) \o Local!Waits')
      <4>1. /\ TargetGets \in Seq(Cell) /\ DataIn(r) \in Seq(Cell)
            /\ Local!Waits' \in Seq(Cell)
        BY <3>1
      <4> QED
        BY ONLY <4>1, Regroup
    <3> QED
      BY <1>0, <1>12, <2>1, <2>3, <3>2, <3>3 DEF UpHeld
  <2>7. peer # "closed" => Begins(TargetGets \o DataIn(r), UpStream)
    BY <1>6, <2>6 DEF Begins
  <2>8. Begins(TargetGets, UpStream)
    BY <1>0 DEF UpHeld
  <2>10. AllFramed(r)
    BY <1>0, <2>1, <2>2, FramedGrows DEF UpHeld
  <2>9. UpHeld(r)'
    BY <1>1, <1>2, <1>7, <1>12, <2>4, <2>5, <2>6, <2>7, <2>8, <2>10 DEF UpHeld
  <2> QED
    BY <2>9 DEF UpInv
<1>13. /\ Local!ConnectMsg(<< Local!C("connreq", req) >>) = ConnectMsg(<< C("connreq", req) >>)
       /\ \A x : Local!DataMsg(x) = DataMsg(x)
       /\ Seq(Local!Cell) = Seq(Cell)
  BY SameStreams, SameWords
<1> QED
  BY <1>10, <1>11, <1>12, <1>13 DEF Local!UpMoves, Established

(* RemoteSession takes the first message, then writes what the others hold.*)
LEMMA RemoteTakesFirst ==
  ASSUME BaseInv, NEW m \in Seq(Frame), UpHeld(m), OnRemote(R!RemoteNext),
         Remote!handleAuthFromBrowser, UNCHANGED << UpStream, Local!Waits >>
  PROVE  UpInv'
<1>1. UNCHANGED << pend, sock, rsock, UpStream, Local!Waits >>
  BY HandlersApart DEF OnRemote, local
<1>2. /\ Remote!AtStart /\ TargetGets' = TargetGets
      /\ \/ Carries((rtmpB \o l2r)', m) /\ Remote!AtStart'
         \/ ~ Remote!Reading' /\ ~ Remote!AtStart' /\ peer' = "closed"
         \/ /\ Carries((rtmpB \o l2r)', Later(m)) /\ Later(m) \in Seq(Frame)
            /\ m # << >> /\ ~ Remote!AtStart'
  <2>1. Remote!ControlInv /\ Remote!DataType
    BY RemoteActs DEF BaseInv, TypeInv, OnRemote
  <2>2. m \in Seq(Remote!Frame) /\ Remote!Carries(rtmpB \o l2r, m)
    <3>1. "handleAuthFromBrowser" \in rpend
      BY DEF Remote!handleAuthFromBrowser, Remote!ReadFromLink, Remote!LinkFails,
             Remote!Runs, Remote!Fails
    <3>2. Remote!Reading
      BY <3>1 DEF Remote!Reading, Remote!Setup
    <3> QED
      BY <3>2, SameWords, SameStreams DEF UpHeld
  <2>3. /\ Remote!AtStart /\ Remote!TargetGets' = Remote!TargetGets
        /\ \/ Remote!Carries((rtmpB \o l2r)', m) /\ Remote!AtStart'
           \/ ~ Remote!AtStart' /\ peer' = "closed" /\ rpend' = {}
           \/ /\ Remote!Carries((rtmpB \o l2r)', Remote!Later(m))
              /\ Remote!Later(m) \in Seq(Remote!Frame)
              /\ m # << >> /\ ~ Remote!AtStart'
    BY <2>1, <2>2, Remote!AuthTakes, LocalAssumption, TargetAssumption, LogLvAssumption
  <2>4. rpend' = {} /\ peer' = "closed" => ~ Remote!Reading'
    BY DEF Remote!Reading
  <2> QED
    BY <2>3, <2>4, SameWords, SameStreams, SameGets
<1>3. peer # "closed" /\ ~ Established /\ Len(m) <= 1
  <2>1. "handleAuthFromBrowser" \in rpend
    BY DEF Remote!handleAuthFromBrowser, Remote!ReadFromLink, Remote!LinkFails,
           Remote!Runs, Remote!Fails
  <2>2. peer = "up"
    BY <2>1, Remote!HandlersApart, LocalAssumption, TargetAssumption, LogLvAssumption
       DEF BaseInv, ControlInv, RemoteDead, Dead, Remote!ControlInv, Remote!Waiting,
           Remote!Phases, Remote!SettingUp, Remote!Piping, Remote!Closing, Remote!Gone,
           Remote!Apart, Remote!Setup
  <2> QED
    BY <1>2, <2>2, EstablishedIs DEF UpHeld
<1>4. CASE \/ Carries((rtmpB \o l2r)', m) /\ Remote!AtStart'
           \/ ~ Remote!Reading' /\ ~ Remote!AtStart' /\ peer' = "closed"
  <2>1. UpHeld(m)'
    BY <1>1, <1>2, <1>3, <1>4
       DEF UpHeld, Established, Local!Early, Local!Greets, Local!Requests, Local!Linking
  <2> QED
    BY <2>1 DEF UpInv
<1>5. CASE Carries((rtmpB \o l2r)', Later(m)) /\ ~ Remote!AtStart'
  <2>1. Later(m) = << >>
    <3>1. Len(m) \in Nat /\ Len(m) < 2
      BY <1>3, LenProperties
    <3> QED
      BY <3>1, SubSeqEmpty DEF Later
  <2>2. /\ DataIn(<< >>) = << >> /\ << >> \in Seq(Frame) /\ Len(<< >>) <= 1
        /\ \A i \in 1 .. Len(<< >>) : << >>[i].sub = 2
    BY ShortStreams
  <2>3. TargetGets \o << >> = TargetGets
    BY UpTypes, ConcatEmptySeq DEF BaseInv
  <2>4. Carries((rtmpB \o l2r)', << >>)
    BY <1>5, <2>1
  <2>5. Local!Early' => TargetGets = << >>
    BY <1>1 DEF UpHeld, Local!Early, Local!Greets, Local!Requests, Local!Linking
  <2>6. Begins(TargetGets, UpStream)
    BY DEF UpHeld
  <2>7. ~ Established'
    BY <1>1, <1>3 DEF Established
  <2>9. AllFramed(<< >>)
    BY EmptySeq DEF AllFramed
  <2>8. UpHeld(<< >>)'
    BY <1>1, <1>2, <1>5, <2>2, <2>3, <2>4, <2>5, <2>6, <2>7, <2>9 DEF UpHeld
  <2> QED
    BY <2>2, <2>8 DEF UpInv
<1> QED
  BY <1>2, <1>4, <1>5

LEMMA RemoteTakesData ==
  ASSUME BaseInv, BaseInv', NEW m \in Seq(Frame), UpHeld(m), OnRemote(R!RemoteNext),
         Remote!handleWriteDataToTarget, UNCHANGED << UpStream, Local!Waits >>
  PROVE  UpInv'
<1>1. UNCHANGED << pend, sock, rsock, UpStream, Local!Waits >>
  BY HandlersApart DEF OnRemote, local
<1>2. ~ Remote!AtStart /\ ~ Remote!AtStart'
      /\ \/ ~ Remote!Reading' /\ peer' = "closed" /\ TargetGets' = TargetGets
         \/ \E n \in Nat :
              /\ Without(m, n) \in Seq(Frame)
              /\ Carries((rtmpB \o l2r)', Without(m, n))
              /\ \/ peer' = "closed" /\ TargetGets' = TargetGets
                 \/ /\ peer' = "up" /\ peer = "up"
                    /\ TargetGets' \o BodiesIn(Without(m, n)) = TargetGets \o BodiesIn(m)
  <2>1. Remote!ControlInv /\ Remote!DataType
    BY RemoteActs DEF BaseInv, TypeInv, OnRemote
  <2>0. "handleWriteDataToTarget" \in rpend
    BY DEF Remote!handleWriteDataToTarget, Remote!ReadFromLink, Remote!LinkFails,
           Remote!Runs, Remote!Fails
  <2>2. m \in Seq(Remote!Frame) /\ Remote!Carries(rtmpB \o l2r, m)
    <3>1. Remote!Reading
      BY <2>0 DEF Remote!Reading, Remote!UpPipe
    <3> QED
      BY <3>1, SameWords, SameStreams DEF UpHeld
  <2>3. ~ Remote!AtStart /\ ~ Remote!AtStart'
        /\ \/ /\ rpend' \cap Remote!UpPipe = {} /\ peer' = "closed"
              /\ Remote!TargetGets' = Remote!TargetGets
           \/ \E n \in Nat :
                /\ Remote!Without(m, n) \in Seq(Remote!Frame)
                /\ Remote!Carries((rtmpB \o l2r)', Remote!Without(m, n))
                /\ \/ peer' = "closed" /\ Remote!TargetGets' = Remote!TargetGets
                   \/ /\ peer' = "up" /\ peer = "up"
                      /\ Remote!TargetGets' \o Remote!BodiesIn(Remote!Without(m, n))
                           = Remote!TargetGets \o Remote!BodiesIn(m)
    BY <2>1, <2>2, Remote!ReadTakes, LocalAssumption, TargetAssumption, LogLvAssumption
  <2>4. rpend' \cap Remote!Setup = {}
    <3>0. "handleWriteDataToTarget" \in Remote!UpPipe
      BY DEF Remote!UpPipe
    <3>1. rpend \cap Remote!Setup = {}
      BY <2>0, <2>1, <3>0, Remote!HandlersApart, LocalAssumption, TargetAssumption,
         LogLvAssumption
         DEF Remote!ControlInv, Remote!Waiting, Remote!Phases, Remote!SettingUp,
             Remote!Piping, Remote!Closing, Remote!Gone, Remote!Apart
    <3> QED
      BY <3>1 DEF Remote!handleWriteDataToTarget, Remote!Start, Remote!Throw,
                  Remote!Shutdown, Remote!Setup
  <2>5. rpend' \cap Remote!UpPipe = {} /\ peer' = "closed" => ~ Remote!Reading'
    BY <2>4 DEF Remote!Reading
  <2> QED
    BY <2>3, <2>5, SameWords, SameStreams, SameGets
<1>7. CASE ~ Remote!Reading' /\ peer' = "closed" /\ TargetGets' = TargetGets
  <2>1. UpHeld(m)'
    BY <1>1, <1>2, <1>7
       DEF UpHeld, Established, Local!Early, Local!Greets, Local!Requests, Local!Linking
  <2> QED
    BY <2>1 DEF UpInv
<1> SUFFICES ASSUME ~ (~ Remote!Reading' /\ peer' = "closed" /\ TargetGets' = TargetGets)
             PROVE  UpInv'
  BY <1>7
<1>3. PICK n \in Nat :
           /\ Without(m, n) \in Seq(Frame)
           /\ Carries((rtmpB \o l2r)', Without(m, n))
           /\ \/ peer' = "closed" /\ TargetGets' = TargetGets
              \/ /\ peer' = "up" /\ peer = "up"
                 /\ TargetGets' \o BodiesIn(Without(m, n)) = TargetGets \o BodiesIn(m)
  BY <1>2
<1>4. (DataIn(m) = << >> => DataIn(Without(m, n)) = << >>)
      /\ \A i \in 1 .. Len(Without(m, n)) : \E j \in 1 .. Len(m) : Without(m, n)[i] = m[j]
  BY WithoutIs
<1>8. AllFramed(Without(m, n))
  BY <1>4 DEF UpHeld, AllFramed
<1>5. CASE peer' = "closed" /\ TargetGets' = TargetGets
  <2>1. UpHeld(Without(m, n))'
    BY <1>1, <1>2, <1>3, <1>4, <1>5, <1>8
       DEF UpHeld, Established, Local!Early, Local!Greets, Local!Requests, Local!Linking
  <2> QED
    BY <1>3, <2>1 DEF UpInv
<1>6. CASE /\ peer' = "up" /\ peer = "up"
           /\ TargetGets' \o BodiesIn(Without(m, n)) = TargetGets \o BodiesIn(m)
  <2> DEFINE r == Without(m, n)
             g == TargetGets
  <2>1. \A i \in 1 .. Len(m) : m[i].sub = 2
    BY <1>2, <1>6 DEF UpHeld
  <2>2. \A i \in 1 .. Len(r) : r[i].sub = 2
    BY <1>4, <2>1
  <2>3. BodiesIn(m) = DataIn(m) /\ BodiesIn(r) = DataIn(r)
    BY <1>3, <2>1, <2>2, AllData
  <2>4. PICK h : h = TargetGets'
    OBVIOUS
  <2>5. h \o DataIn(r) = g \o DataIn(m)
    BY <1>6, <2>3, <2>4
  <2>6. /\ h \in Seq(Cell) /\ g \in Seq(Cell) /\ DataIn(r) \in Seq(Cell)
        /\ DataIn(m) \in Seq(Cell) /\ Local!Waits \in Seq(Cell)
    <3>1. (tgot \in Seq(Seq(Cell)))' /\ (r2t \in Seq(Seq(Cell)))'
      BY SameWords DEF BaseInv, TypeInv, Remote!DataType, Remote!TargetTypeOK
    <3>2. h \in Seq(Cell)
      BY <2>4, <3>1, ChunksSent DEF TargetGets
    <3> QED
      BY <1>3, <3>2, UpTypes, DataInAdds DEF BaseInv
  <2> HIDE DEF r, g
  <2>7. Local!Early' => h = << >> /\ DataIn(r) = << >>
    <3>1. Local!Early' => Local!Early
      BY <1>1 DEF Local!Early, Local!Greets, Local!Requests, Local!Linking
    <3>2. Local!Early => g = << >> /\ DataIn(m) = << >>
      BY DEF UpHeld, g
    <3>3. Len(h \o DataIn(r)) = Len(h) + Len(DataIn(r))
          /\ Len(h) \in Nat /\ Len(DataIn(r)) \in Nat
      BY <2>6, ConcatProperties, LenProperties
    <3>4. Local!Early => Len(h) + Len(DataIn(r)) = 0
      <4>1. Local!Early => h \o DataIn(r) = << >> \o << >>
        BY <2>5, <3>2
      <4>2. Len(<< >> \o << >>) = 0
        OBVIOUS
      <4> QED
        BY <3>3, <4>1, <4>2
    <3>5. Local!Early => Len(h) = 0 /\ Len(DataIn(r)) = 0
      BY <3>3, <3>4
    <3> QED
      BY <2>6, <3>1, <3>5, EmptySeq
  <2>8. /\ h \o (DataIn(r) \o Local!Waits) = (h \o DataIn(r)) \o Local!Waits
        /\ g \o (DataIn(m) \o Local!Waits) = (g \o DataIn(m)) \o Local!Waits
    <3>1. /\ h \in Seq(Cell) /\ DataIn(r) \in Seq(Cell) /\ Local!Waits \in Seq(Cell)
      BY <2>6
    <3>2. /\ g \in Seq(Cell) /\ DataIn(m) \in Seq(Cell) /\ Local!Waits \in Seq(Cell)
      BY <2>6
    <3>3. h \o (DataIn(r) \o Local!Waits) = (h \o DataIn(r)) \o Local!Waits
      BY ONLY <3>1, Regroup
    <3>4. g \o (DataIn(m) \o Local!Waits) = (g \o DataIn(m)) \o Local!Waits
      BY ONLY <3>2, Regroup
    <3> QED
      BY <3>3, <3>4
  <2>9. Begins(h, UpStream)
    <3>1. PICK x \in Seq(Cell) : (h \o DataIn(r)) \o x = UpStream
      BY <1>6, <2>5 DEF UpHeld, Begins, g
    <3>2. /\ h \in Seq(Cell) /\ DataIn(r) \in Seq(Cell) /\ x \in Seq(Cell)
      BY <2>6
    <3>3. (h \o DataIn(r)) \o x = h \o (DataIn(r) \o x)
      BY ONLY <3>2, Regroup
    <3>4. DataIn(r) \o x \in Seq(Cell)
      BY <3>2, ConcatProperties
    <3> QED
      BY <3>1, <3>3, <3>4 DEF Begins
  <2>10. Established' /\ sock' = "up" => h \o (DataIn(r) \o Local!Waits) = UpStream
    <3>1. Established' /\ sock' = "up" => Established /\ sock = "up"
      BY <1>1 DEF Established
    <3>2. Established /\ sock = "up" => g \o (DataIn(m) \o Local!Waits) = UpStream
      BY <1>6 DEF UpHeld, g
    <3> QED
      BY <2>5, <2>8, <3>1, <3>2
  <2>11. Begins(h \o DataIn(r), UpStream)
    BY <1>6, <2>5 DEF UpHeld, g
  <2>12. Carries((rtmpB \o l2r)', r) /\ r \in Seq(Frame) /\ AllFramed(r)
    BY <1>3, <1>8 DEF r
  <2>13. UpHeld(r)'
    BY <1>1, <1>2, <2>2, <2>4, <2>7, <2>9, <2>10, <2>11, <2>12 DEF UpHeld
  <2> QED
    BY <2>12, <2>13 DEF UpInv
<1> QED
  BY <1>3, <1>5, <1>6

LEMMA RemoteKeepsUp ==
  ASSUME BaseInv, BaseInv', UpInv, OnRemote(R!RemoteNext)
  PROVE  UpInv'
<1>0. PICK m \in Seq(Frame) : UpHeld(m)
  BY DEF UpInv
<1>1. UNCHANGED << pend, sock, rsock, UpStream, Local!Waits >>
  BY HandlersApart
     DEF OnRemote, local, client, UpStream, Local!Waits, Local!Held
<1>2. Remote!RemoteNext
  BY RemoteActs DEF BaseInv, OnRemote
<1>3. CASE ~ Remote!handleAuthFromBrowser /\ ~ Remote!handleWriteDataToTarget
  <2>1. UNCHANGED << l2r, rtmpB, r2t, tgot >>
    BY <1>2, <1>3
       DEF Remote!RemoteNext, Remote!handleAccept, Remote!handleQueryDns,
           Remote!handleConnectToTarget, Remote!handleWriteRespToBrowser,
           Remote!handleWriteDataToBrowser, Remote!handleReadDataFromTarget,
           Remote!handleReadDataFromBrowser, Remote!Link, Remote!Service
  <2>2. TargetGets' = TargetGets
    BY <2>1 DEF TargetGets
  <2>3. peer' # "closed" => peer # "closed"
    BY <1>2, <1>3
       DEF Remote!RemoteNext, Remote!handleAccept, Remote!handleQueryDns,
           Remote!handleConnectToTarget, Remote!handleWriteRespToBrowser,
           Remote!handleWriteDataToBrowser, Remote!handleReadDataFromTarget,
           Remote!handleReadDataFromBrowser, Remote!Start, Remote!Connected,
           Remote!Shutdown, Remote!Return, Remote!CloseBoth, Remote!Close
  <2>4. /\ Remote!AtStart' => Remote!AtStart
        /\ ~ Remote!AtStart' /\ peer' # "closed" => ~ Remote!AtStart
    <3>1. CASE Remote!handleAccept
      BY <3>1 DEF Remote!AtStart, Remote!handleAccept
    <3>2. CASE ~ Remote!handleAccept
      <4>1. PICK op \in Remote!Ops \ {"handleAuthFromBrowser"} : op \in rpend
        BY <1>2, <1>3, <3>2
           DEF Remote!RemoteNext, Remote!handleQueryDns, Remote!handleConnectToTarget,
               Remote!handleWriteRespToBrowser, Remote!handleWriteDataToBrowser,
               Remote!handleReadDataFromTarget, Remote!handleReadDataFromBrowser,
               Remote!ReadFromTarget, Remote!Written, Remote!LinkFails,
               Remote!TargetFails, Remote!Runs, Remote!Fails, Remote!Ops,
               Remote!LinkReads, Remote!LinkWrites, Remote!TargetReads,
               Remote!TargetWrites
      <4>2. ~ Remote!AtStart /\ peer \in {"up", "closed"}
        BY <4>1, Remote!HandlersApart, LocalAssumption, TargetAssumption,
           LogLvAssumption
           DEF BaseInv, ControlInv, RemoteDead, Dead, Remote!ControlInv,
               Remote!Waiting, Remote!Phases, Remote!SettingUp, Remote!Piping,
               Remote!Closing, Remote!Gone, Remote!Apart, Remote!Setup, Remote!AtStart
      <4>3. ~ Remote!AtStart'
        BY <1>2, <1>3, <3>2, <4>2
           DEF Remote!RemoteNext, Remote!handleQueryDns, Remote!handleConnectToTarget,
               Remote!handleWriteRespToBrowser, Remote!handleWriteDataToBrowser,
               Remote!handleReadDataFromTarget, Remote!handleReadDataFromBrowser,
               Remote!AtStart, Remote!Start, Remote!Connected, Remote!Shutdown,
               Remote!Return, Remote!CloseBoth, Remote!Close
      <4> QED
        BY <4>2, <4>3
    <3> QED
      BY <3>1, <3>2
  <2>6. Remote!Reading' => Remote!Reading
    BY <1>2, <1>3, <2>3, ReadingIs
       DEF BaseInv, Remote!RemoteNext, Remote!handleAccept, Remote!handleQueryDns,
           Remote!handleConnectToTarget, Remote!handleWriteRespToBrowser,
           Remote!handleWriteDataToBrowser, Remote!handleReadDataFromTarget,
           Remote!handleReadDataFromBrowser, Remote!Start, Remote!Connected,
           Remote!Shutdown, Remote!Return, Remote!ReadFromTarget, Remote!Written,
           Remote!LinkFails, Remote!TargetFails, Remote!Runs, Remote!Fails,
           Remote!Reading, Remote!Setup, Remote!UpPipe
  <2>5. UpHeld(m)'
    BY <1>0, <1>1, <2>1, <2>2, <2>3, <2>4, <2>6
       DEF UpHeld, Established, Local!Early, Local!Greets, Local!Requests, Local!Linking
  <2> QED
    BY <2>5 DEF UpInv
<1> QED
  BY <1>0, <1>1, <1>3, RemoteTakesFirst, RemoteTakesData

(* The browser adds to its stream, and only when it was told of success.   *)
LEMMA BrowserKeepsUp ==
  ASSUME BaseInv, UpInv, BrowserStep
  PROVE  UpInv'
<1>0. PICK m \in Seq(Frame) : UpHeld(m)
  BY DEF UpInv
<1>1. /\ UNCHANGED << pend, sock, tmpB, req, rsock, peer, l2r, rpend, rtmpB, r2t, tgot >>
      /\ BrowserNext
  BY DEF BrowserStep, local, link, remote, service
<1>2. UNCHANGED << TargetGets, Local!Held >> /\ (Established' <=> Established)
      /\ (Local!Early' <=> Local!Early) /\ (Remote!AtStart' <=> Remote!AtStart)
      /\ (Remote!Reading' <=> Remote!Reading)
  BY <1>1 DEF TargetGets, Local!Held, Established, Local!Early, Local!Greets,
              Local!Requests, Local!Linking, Remote!AtStart, Remote!Reading
<1>3. /\ TargetGets \in Seq(Cell) /\ DataIn(m) \in Seq(Cell) /\ Local!Held \in Seq(Cell)
      /\ b2l \in Seq(Cell) /\ PortCells(req) \in Seq(Cell) /\ upSent \in Nat
      /\ UpStream \in Seq(Cell) /\ Tokens(upSent) \in Seq(Cell)
  BY UpTypes, DataInAdds DEF BaseInv
<1>4. CASE UNCHANGED << b2l, upSent >>
  <2>1. UNCHANGED << UpStream, Local!Waits >>
    BY <1>1, <1>2, <1>4 DEF UpStream, Local!Waits
  <2>2. UpHeld(m)'
    BY <1>0, <1>1, <1>2, <2>1 DEF UpHeld
  <2> QED
    BY <2>2 DEF UpInv
<1>5. CASE (\E g \in GreetKinds : Greet(g)) \/ (\E a \in ReqKinds : Request(a))
  <2>1. asked # "request" /\ upSent' = upSent
    BY <1>5 DEF Greet, Request
  <2>2. ~ Established
    <3>1. Local!Greets \/ Local!Requests \/ pend = {}
      BY <2>1 DEF BaseInv, DialogueInv, Local!SpokenInv
    <3>2. Local!Early \/ pend = {}
      BY <3>1 DEF Local!Early
    <3> QED
      BY <3>2, EarlyIsNot DEF Established, BaseInv
  <2>3. UpStream' = UpStream
    BY <1>1, <2>1 DEF UpStream
  <2>4. UpHeld(m)'
    BY <1>0, <1>1, <1>2, <2>2, <2>3 DEF UpHeld
  <2> QED
    BY <2>4 DEF UpInv
<1>6. CASE SendData
  <2> DEFINE n == upSent
             c == C("data", n + 1)
             d == TargetGets \o DataIn(m)
             x == d \o Local!Held
             p == PortCells(req)
  <2>1. upSent' = n + 1 /\ b2l' = Append(b2l, c) /\ req' = req
    BY <1>1, <1>6 DEF SendData
  <2>2. c \in Cell /\ << c >> \in Seq(Cell) /\ Tokens(n + 1) = Tokens(n) \o << c >>
        /\ Append(b2l, c) \in Seq(Cell)
    BY <1>3, TokensGrow, SingletonType, AppendProperties
  <2>3. UpStream' = p \o Tokens(n + 1)
    BY <2>1 DEF UpStream
  <2>4. UpStream' = UpStream \o << c >>
    <3>1. p \in Seq(Cell) /\ Tokens(n) \in Seq(Cell) /\ << c >> \in Seq(Cell)
      BY <1>3, <2>2
    <3>2. (p \o Tokens(n)) \o << c >> = p \o (Tokens(n) \o << c >>)
      BY ONLY <3>1, Regroup
    <3> QED
      BY <2>2, <2>3, <3>2 DEF UpStream
  <2>5. d \in Seq(Cell) /\ x \in Seq(Cell)
    BY <1>3, ConcatProperties
  <2>6. ASSUME NEW s \in Seq(Cell)
        PROVE  TargetGets \o (DataIn(m) \o (Local!Held \o s)) = x \o s
    <3>1. /\ TargetGets \in Seq(Cell) /\ DataIn(m) \in Seq(Cell)
          /\ Local!Held \o s \in Seq(Cell)
      BY <1>3, ConcatProperties
    <3>2. (TargetGets \o DataIn(m)) \o (Local!Held \o s)
             = TargetGets \o (DataIn(m) \o (Local!Held \o s))
      <4> DEFINE y == Local!Held \o s
      <4>1. TargetGets \in Seq(Cell) /\ DataIn(m) \in Seq(Cell) /\ y \in Seq(Cell)
        BY <3>1
      <4> HIDE DEF y
      <4>2. (TargetGets \o DataIn(m)) \o y = TargetGets \o (DataIn(m) \o y)
        BY ONLY <4>1, Regroup
      <4> QED
        BY <4>2 DEF y
    <3>3. d \in Seq(Cell) /\ Local!Held \in Seq(Cell) /\ s \in Seq(Cell)
      BY <1>3, <2>5
    <3> HIDE DEF d
    <3>4. (d \o Local!Held) \o s = d \o (Local!Held \o s)
      BY ONLY <3>3, Regroup
    <3> QED
      BY <3>2, <3>4 DEF d
  <2>7. ASSUME TargetGets \o (DataIn(m) \o Local!Waits) = UpStream
        PROVE  TargetGets \o (DataIn(m) \o Local!Waits') = UpStream'
    <3> HIDE DEF x, p, c, n
    <3>1. Local!Waits = Local!Held \o b2l /\ Local!Waits' = Local!Held \o Append(b2l, c)
      BY <1>2, <2>1 DEF Local!Waits
    <3>2. x \o b2l = p \o Tokens(n)
      BY <1>3, <2>6, <2>7, <3>1 DEF UpStream, p, n
    <3>3. n \in Nat /\ p \in Seq(Cell) /\ x \in Seq(Cell) /\ b2l \in Seq(Cell)
          /\ x \o b2l = p \o Tokens(n)
      BY <1>3, <2>5, <3>2 DEF n, p
    <3>4. x \o Append(b2l, C("data", n + 1)) = p \o Tokens(n + 1)
      BY ONLY <3>3, TokenSent
    <3>5. TargetGets \o (DataIn(m) \o (Local!Held \o Append(b2l, c))) = x \o Append(b2l, c)
      BY <2>2, <2>6
    <3> QED
      BY <2>3, <3>1, <3>4, <3>5 DEF c
  <2>8. /\ peer # "closed" => Begins(TargetGets \o DataIn(m), UpStream')
        /\ Begins(TargetGets, UpStream')
    <3>1. TargetGets \o DataIn(m) \in Seq(Cell) /\ TargetGets \in Seq(Cell)
          /\ UpStream \in Seq(Cell) /\ << c >> \in Seq(Cell)
      BY <1>3, <2>2, <2>5
    <3>2. /\ peer # "closed" => Begins(TargetGets \o DataIn(m), UpStream)
          /\ Begins(TargetGets, UpStream)
      BY <1>0 DEF UpHeld
    <3> QED
      BY <2>4, <3>1, <3>2, BeginsGrows
  <2>9. UpHeld(m)'
    BY <1>0, <1>1, <1>2, <2>7, <2>8 DEF UpHeld
  <2> QED
    BY <2>9 DEF UpInv
<1> QED
  BY <1>1, <1>4, <1>5, <1>6
     DEF BrowserNext, BrowserReceives, BrowserCloses, BrowserResets

(* The target takes what is written to it; a dead process sends and takes  *)
(* nothing.                                                                *)
LEMMA OthersKeepUp ==
  ASSUME BaseInv, UpInv, TargetStep \/ LocalDies \/ RemoteDies \/ UNCHANGED vars
  PROVE  UpInv'
<1>0. PICK m \in Seq(Frame) : UpHeld(m)
  BY DEF UpInv
<1>1. UNCHANGED << tmpB, b2l, req, upSent, l2r, rtmpB >>
  BY DEF TargetStep, LocalDies, RemoteDies, vars, client, local, link, remote
<1>2. TargetGets' = TargetGets
  <2>1. CASE TargetReceives
    <3>1. tgot \in Seq(Seq(Cell)) /\ r2t \in Seq(Seq(Cell)) /\ r2t # << >>
      BY <2>1, UpTypes DEF BaseInv, TargetReceives
    <3>2. Append(tgot, Head(r2t)) \o Tail(r2t) = tgot \o r2t
      BY <3>1, ChunksReceived
    <3>3. tgot' \o r2t' = tgot \o r2t
      BY <2>1, <3>2 DEF TargetReceives
    <3> QED
      BY <3>3 DEF TargetGets
  <2>2. CASE UNCHANGED << tgot, r2t >>
    BY <2>2 DEF TargetGets
  <2> QED
    BY <2>1, <2>2
       DEF TargetStep, TargetNext, TargetSends, TargetCloses, TargetResets, LocalDies,
           RemoteDies, vars, service
<1>3. UpStream' = UpStream
  BY <1>1 DEF UpStream
<1>4. CASE TargetStep \/ UNCHANGED vars
  <2>1. UNCHANGED << pend, sock, rsock, peer, rpend >>
    BY <1>4 DEF TargetStep, vars, local, link, remote
  <2>2. UpHeld(m)'
    BY <1>0, <1>1, <1>2, <1>3, <2>1
       DEF UpHeld, Remote!Reading, Remote!AtStart, Established, Local!Early, Local!Greets,
           Local!Requests, Local!Linking, Local!Waits, Local!Held
  <2> QED
    BY <2>2 DEF UpInv
<1>5. CASE LocalDies
  <2>1. pend' = {} /\ UNCHANGED << peer, rpend >> /\ (rsock' = "new" => rsock = "new")
    BY <1>5 DEF LocalDies, Throw, CloseBoth, Close, remote
  <2>2. ~ Established' /\ ~ Local!Early'
    BY <2>1 DEF Established, Local!Early, Local!Greets, Local!Requests, Local!Linking
  <2>3. UpHeld(m)'
    BY <1>0, <1>1, <1>2, <1>3, <2>1, <2>2 DEF UpHeld, Remote!Reading, Remote!AtStart
  <2> QED
    BY <2>3 DEF UpInv
<1>6. CASE RemoteDies
  <2>1. rpend' = {} /\ peer' = "closed" /\ UNCHANGED << pend, rsock >>
    <3>1. peer \in {"up", "closed"}
      BY <1>6, EndsType DEF RemoteDies, BaseInv, Ends
    <3> QED
      BY <1>6, <3>1 DEF RemoteDies, R!Throw, R!CloseBoth, R!Close, local
  <2>2. UpHeld(m)'
    BY <1>0, <1>1, <1>2, <1>3, <2>1
       DEF UpHeld, Remote!Reading, Remote!AtStart, Local!Early, Local!Greets, Local!Requests,
           Local!Linking
  <2> QED
    BY <2>2 DEF UpInv
<1> QED
  BY <1>4, <1>5, <1>6

LEMMA StepsKeepUp == BaseInv /\ UpInv /\ [Next]_vars => UpInv'
<1> SUFFICES ASSUME BaseInv, UpInv, [Next]_vars PROVE UpInv'
  OBVIOUS
<1>1. BaseInv'
  BY StepsKeepBase
<1> QED
  BY <1>1, LocalKeepsUp, RemoteKeepsUp, BrowserKeepsUp, OthersKeepUp DEF Next

LEMMA StartsInUp == Init => UpInv
<1> SUFFICES ASSUME Init PROVE UpInv
  OBVIOUS
<1>1. /\ rtmpB = << >> /\ l2r = << >> /\ tgot = << >> /\ r2t = << >> /\ peer = "new"
      /\ upSent = 0 /\ req = 0 /\ pend = {"handleReadHandShake"}
  BY DEF Init, BrowserInit, LocalInit, R!RemoteInit, TargetInit
<1>2. << >> \o << >> = << >> /\ << >> \in Seq(Frame) /\ << >> \in Seq(Cell)
      /\ Len(<< >>) = 0
  BY EmptySeq
<1>3. TargetGets = << >> /\ DataIn(<< >>) = << >>
  BY <1>1, <1>2, FlattenEmpty, ShortStreams DEF TargetGets
<1>4. Carries(rtmpB \o l2r, << >>)
  BY <1>1, <1>2, CarriesNothing
<1>5. Begins(<< >>, UpStream)
  <2>1. UpStream \in Seq(Cell)
    BY StartsInBase, UpTypes DEF BaseInv
  <2> QED
    BY <2>1, BeginsItself
<1>6. ~ Established /\ Remote!AtStart
  BY <1>1 DEF Established, Local!Established, Local!UpPipe, Local!DownPipe,
              Remote!AtStart
<1>8. AllFramed(<< >>)
  BY <1>2 DEF AllFramed
<1>7. UpHeld(<< >>)
  BY <1>2, <1>3, <1>4, <1>5, <1>6, <1>8 DEF UpHeld
<1> QED
  BY <1>2, <1>7 DEF UpInv

(* What the properties need of it.                                         *)
LEMMA UpEnds == BaseInv /\ UpInv => UpEndToEnd
<1> SUFFICES ASSUME BaseInv, UpInv, AllOpen PROVE UpEndToEnd
  BY DEF UpEndToEnd
<1>0. PICK m \in Seq(Frame) : UpHeld(m)
  BY DEF UpInv
<1>1. sock = "up" /\ rsock = "up" /\ peer = "up" /\ tsock = "up"
  BY DEF AllOpen
<1>2. DataIn(Messages(rtmpB \o l2r)) = DataIn(m)
  <2>1. rtmpB \o l2r \in Seq(Piece)
    BY UpTypes, ConcatProperties DEF BaseInv
  <2> QED
    BY <1>0, <1>1, <2>1, ReadingIs, CarriesMessages DEF BaseInv, UpHeld
<1>3. /\ TargetGets \in Seq(Cell) /\ DataIn(m) \in Seq(Cell) /\ Local!Held \in Seq(Cell)
      /\ b2l \in Seq(Cell) /\ PortCells(req) \in Seq(Cell)
  BY UpTypes, DataInAdds DEF BaseInv
<1>4. TargetGets \o (DataIn(m) \o Local!Waits) = UpStream
  <2>1. CASE Established
    BY <1>0, <1>1, <2>1 DEF UpHeld
  <2>2. CASE ~ Established
    <3>1. Local!Linking
      BY <1>1, <2>2, Local!HandlersApart, LocalAssumption, BrowserAssumption,
         LogLvAssumption, TargetAssumption
         DEF BaseInv, ControlInv, LocalDead, Dead, Local!ControlInv, Local!Phases,
             Local!SettingUp, Local!Piping, Local!Closing, Local!Gone, Local!Apart,
             Established, Local!Established, Local!Linking, Local!Hearing,
             Local!Setup, Local!Asking, Local!ReadAgain
    <3>2. Local!Early /\ tmpB \o b2l = PortCells(req) /\ upSent = 0
      BY <3>1, SameStreams DEF Local!Early, BaseInv, DialogueInv, Local!SpokenInv
    <3>3. Local!Waits = PortCells(req) /\ TargetGets = << >> /\ DataIn(m) = << >>
      BY <1>0, <3>2, EarlyIsNot DEF BaseInv, Local!Waits, Local!Held, UpHeld
    <3>4. << >> \o (<< >> \o PortCells(req)) = PortCells(req) \o << >>
      BY <1>3, ConcatEmptySeq
    <3> QED
      BY <3>2, <3>3, <3>4, NoTokens DEF UpStream
  <2> QED
    BY <2>1, <2>2
<1>5. ((TargetGets \o DataIn(m)) \o Local!Held) \o b2l
        = TargetGets \o (DataIn(m) \o (Local!Held \o b2l))
  <2> DEFINE d == TargetGets \o DataIn(m)
             y == Local!Held \o b2l
  <2>1. TargetGets \in Seq(Cell) /\ DataIn(m) \in Seq(Cell) /\ y \in Seq(Cell)
        /\ d \in Seq(Cell) /\ Local!Held \in Seq(Cell) /\ b2l \in Seq(Cell)
    BY <1>3, ConcatProperties
  <2> HIDE DEF y
  <2>2. (TargetGets \o DataIn(m)) \o y = TargetGets \o (DataIn(m) \o y)
    BY ONLY <2>1, Regroup
  <2>3. d \in Seq(Cell) /\ Local!Held \in Seq(Cell) /\ b2l \in Seq(Cell)
    BY <2>1
  <2> HIDE DEF d
  <2>4. (d \o Local!Held) \o b2l = d \o (Local!Held \o b2l)
    BY ONLY <2>3, Regroup
  <2> QED
    BY <2>2, <2>4 DEF d, y
<1>6. Local!Waits = Local!Held \o b2l
      /\ Local!Held = IF "handleWriteDataToRemote" \in pend THEN << >> ELSE tmpB
  BY DEF Local!Waits, Local!Held
<1> QED
  BY <1>2, <1>4, <1>5, <1>6 DEF UpEndToEnd, TargetGets, UpStream

(* UpEndToEnd: while the four sockets are open, the target has, or will    *)
(* be given by what is in the buffers and on the link, exactly what the    *)
(* browser sent behind its request, however the two programs, their reads  *)
(* and their writes interleave.                                            *)
THEOREM UpEndToEndHolds == Spec => []UpEndToEnd
<1>1. Init => BaseInv /\ UpInv
  BY StartsInBase, StartsInUp
<1>2. BaseInv /\ UpInv /\ [Next]_vars => (BaseInv /\ UpInv)'
  BY StepsKeepBase, StepsKeepUp
<1> QED
  BY <1>1, <1>2, UpEnds, PTL DEF Spec

-----------------------------------------------------------------------------
(* What waits in tun_remote.  Session sends nothing behind its connect     *)
(* message before it is answered, so that RemoteSession reads the connect  *)
(* message alone; from then on it takes all whole messages at every read.  *)
LEMMA StepsKeepLittle == BaseInv /\ UpInv /\ Remote!LittleKept /\ [Next]_vars => Remote!LittleKept'
<1> SUFFICES ASSUME BaseInv, UpInv, Remote!LittleKept, [Next]_vars
             PROVE  Remote!LittleKept'
  OBVIOUS
<1>1. CASE OnRemote(R!RemoteNext)
  <2>1. PICK m \in Seq(Frame) : UpHeld(m)
    BY DEF UpInv
  <2>2. Remote!ControlInv /\ Remote!RemoteNext /\ Remote!DataType
    BY <1>1, RemoteActs DEF BaseInv, TypeInv, OnRemote
  <2>3. UNCHANGED << << >>, tmpR >>
    BY <1>1 DEF OnRemote, local
  <2>4. m \in Seq(Remote!Frame) /\ (Remote!Reading => Remote!Carries(rtmpB \o l2r, m))
        /\ (Remote!AtStart => Len(m) <= 1) /\ Remote!AllFramed(m)
    BY <2>1, SameWords, SameStreams DEF UpHeld
  <2>5. CASE Remote!Reading
    BY <2>2, <2>3, <2>4, <2>5, Remote!HandlersKeepLittle, LocalAssumption,
       TargetAssumption, LogLvAssumption
  <2>6. CASE ~ Remote!Reading
    <3>1. rpend' \cap Remote!BehindFirst = {}
      BY <2>2, <2>6
         DEF Remote!RemoteNext, Remote!handleAccept, Remote!handleAuthFromBrowser,
             Remote!handleQueryDns, Remote!handleConnectToTarget,
             Remote!handleWriteRespToBrowser, Remote!handleWriteDataToBrowser,
             Remote!handleReadDataFromTarget, Remote!handleWriteDataToTarget,
             Remote!handleReadDataFromBrowser, Remote!Start, Remote!Shutdown,
             Remote!ReadFromTarget, Remote!ReadFromLink, Remote!Written,
             Remote!LinkFails, Remote!TargetFails, Remote!Runs, Remote!Fails,
             Remote!Reading, Remote!Setup, Remote!UpPipe, Remote!BehindFirst
    <3> QED
      BY <3>1 DEF Remote!LittleKept
  <2> QED
    BY <2>5, <2>6
<1>2. CASE \/ OnLocal(LocalNext) \/ BrowserStep \/ TargetStep \/ LocalDies
           \/ UNCHANGED vars
  <2>1. UNCHANGED << rpend, rtmpB >>
    BY <1>2 DEF OnLocal, BrowserStep, TargetStep, LocalDies, vars, remote
  <2> QED
    BY <2>1 DEF Remote!LittleKept
<1>3. CASE RemoteDies
  <2>1. rpend' = {}
    BY <1>3 DEF RemoteDies, R!Throw
  <2> QED
    BY <2>1 DEF Remote!LittleKept
<1> QED
  BY <1>1, <1>2, <1>3 DEF Next

(* RemoteKeepsNoMessage: RemoteSession never waits for the link with a     *)
(* whole message in its buffer.                                            *)
THEOREM RemoteKeepsNoMessageHolds == Spec => []RemoteKeepsNoMessage
<1>1. Init => BaseInv /\ UpInv /\ Remote!LittleKept
  <2>1. Init => rpend = {}
    BY DEF Init, R!RemoteInit
  <2> QED
    BY <2>1, StartsInBase, StartsInUp DEF Remote!LittleKept
<1>2. BaseInv /\ UpInv /\ Remote!LittleKept /\ [Next]_vars
        => (BaseInv /\ UpInv /\ Remote!LittleKept)'
  BY StepsKeepBase, StepsKeepUp, StepsKeepLittle
<1>3. BaseInv /\ Remote!LittleKept => RemoteKeepsNoMessage
  <2> SUFFICES ASSUME BaseInv, Remote!LittleKept, "handleWriteDataToTarget" \in rpend
               PROVE  Whole(rtmpB) = 0
    BY DEF RemoteKeepsNoMessage
  <2>1. Len(rtmpB) < 2 /\ Len(rtmpB) \in Nat
    BY UpTypes, LenProperties
       DEF BaseInv, Remote!LittleKept, Remote!BehindFirst, Remote!UpPipe
  <2>2. \A k \in Nat : k < 2 => k \div 2 = 0
    OBVIOUS
  <2> QED
    BY <2>1, <2>2 DEF Whole
<1> QED
  BY <1>1, <1>2, <1>3, PTL DEF Spec

-----------------------------------------------------------------------------
(* The stream of the target, through both sessions, as long as the answer  *)
(* of tun_remote arrives in one piece (RspCut = FALSE; Session.cpp:174-178 *)
(* drops what it reads after half of it).  m are the messages in the       *)
(* receive buffer of Session and on the link, as long as it has both       *)
(* sockets; RemoteSession sends nothing but frames.                        *)
DownGets == PayloadOf(got \o l2b)

DownHeld(m) ==
  /\ sock = "up" => Carries(tmpR \o r2l, m)
  /\ Local!Unheard => AllFramed(m)
  /\ sock = "up" /\ peer # "closed" => DownGets \o (DataIn(m) \o t2r) = Tokens(downSent)
  /\ sock = "up" => Begins(DownGets \o DataIn(m), Tokens(downSent))
  /\ Begins(DownGets, Tokens(downSent))

DownInv ==
  /\ rtmpR = << >> /\ Local!ReadAgain \notin pend
  /\ \E m \in Seq(Frame) : DownHeld(m)

(* The two sides mean the same by this stream, too.                        *)
LEMMA SameDown ==
  /\ \A s : Local!Payload(s) = Payload(s)
  /\ Local!BrowserGets = DownGets /\ Local!BrowserGets' = DownGets'
  /\ Remote!Out = tmpR \o r2l /\ Remote!Out' = (tmpR \o r2l)'
<1>1. \A s : Local!Payload(s) = Payload(s)
  BY DEF Local!Payload, Payload, Local!IsData, IsData, Local!FlattenSeq, FlattenSeq
<1>2. \A s : Local!FlattenSeq(s) = FlattenSeq(s)
  BY DEF Local!FlattenSeq, FlattenSeq
<1> QED
  BY <1>1, <1>2 DEF Local!BrowserGets, DownGets, Local!PayloadOf, PayloadOf, Remote!Out

LEMMA DownTypes ==
  ASSUME TypeInv
  PROVE  /\ got \in Seq(Seq(Cell)) /\ l2b \in Seq(Seq(Cell)) /\ DownGets \in Seq(Cell)
         /\ tmpR \in Seq(Piece) /\ r2l \in Seq(Piece) /\ tmpR \o r2l \in Seq(Piece)
         /\ t2r \in Seq(Cell) /\ downSent \in Nat /\ Tokens(downSent) \in Seq(Cell)
<1>1. /\ got \in Seq(Seq(Cell)) /\ l2b \in Seq(Seq(Cell))
      /\ tmpR \in Seq(Piece) /\ r2l \in Seq(Piece)
      /\ t2r \in Seq(Cell) /\ downSent \in Nat
  BY LocalTypeIs, RemoteTypeIs DEF TypeInv, BrowserTypeOK, TargetTypeOK
<1>2. FlattenSeq(got \o l2b) \in Seq(Cell)
  BY <1>1, ChunksSent
<1>3. DownGets \in Seq(Cell)
  BY <1>2, PayloadAdds DEF DownGets, PayloadOf
<1>4. tmpR \o r2l \in Seq(Piece)
  BY <1>1, ConcatProperties
<1> QED
  BY <1>1, <1>3, <1>4, TokensGrow

(* What the browser gets stays what it is while its chunks do.             *)
LEMMA DownStays ==
  ASSUME UNCHANGED << got, l2b >>
  PROVE  DownGets' = DownGets
BY DEF DownGets, PayloadOf

(* An answer in one piece is never found incomplete.                       *)
LEMMA AnswerIsWhole ==
  ASSUME RspCut = FALSE, ControlInv, TypeInv, Local!ReadAgain \notin pend,
         NEW m \in Seq(Frame), DownHeld(m), LocalNext
  PROVE  Local!ReadAgain \notin pend'
<1>1. Local!ControlInv /\ Local!LocalNext /\ Local!DataType
  BY LocalActs DEF TypeInv
<1>2. CASE Local!handleWriteSockv5RspToBrowser
  <2> DEFINE op == "handleWriteSockv5RspToBrowser"
  <2>1. op \in pend /\ op \in Local!Setup
    BY <1>2 DEF Local!handleWriteSockv5RspToBrowser, Local!ReadFromRemote,
         Local!RemoteFails, Local!Runs, Local!Fails, Local!Setup
  <2>2. sock = "up" /\ Local!Unheard
    BY <1>1, <2>1, Local!SetupEnds, LocalAssumption, BrowserAssumption,
       LogLvAssumption, TargetAssumption DEF Local!Unheard, Local!Hearing
  <2>5. ASSUME NEW k \in 1 .. Len(r2l), Len(tmpR \o SubSeq(r2l, 1, k)) >= 2,
               0 \in Local!Check(tmpR \o SubSeq(r2l, 1, k))
        PROVE  FALSE
    <3> DEFINE buf == tmpR \o SubSeq(r2l, 1, k)
               rest == SubSeq(r2l, k + 1, Len(r2l))
    <3>1. /\ tmpR \in Seq(Piece) /\ r2l \in Seq(Piece)
          /\ buf \in Seq(Piece) /\ rest \in Seq(Piece) /\ buf \o rest = tmpR \o r2l
      BY DownTypes, BufferType, CutType, ReadMoves
    <3>2. 0 \in Local!Check(buf) /\ Len(buf) >= 2
      BY <2>5
    <3> HIDE DEF buf, rest
    <3>3. 0 \in Check(buf)
      BY <3>2 DEF Local!Check, Local!Garbled, Local!Intact, Check, Garbled, Intact
    <3>4. After(buf, 0) = buf
      <4>1. 2 * 0 + 1 = 1
        OBVIOUS
      <4> QED
        BY <3>1, <4>1, SubSeqFull DEF After
    <3>5. 0 \in Nat /\ 2 * 0 <= Len(buf) /\ Len(buf) \in Nat
      BY <3>1, LenProperties
    <3>6. buf \in Seq(Piece) /\ rest \in Seq(Piece) /\ m \in Seq(Frame)
          /\ Carries(buf \o rest, m) /\ AllFramed(m)
      BY <2>2, <3>1 DEF DownHeld
    <3>7. ~ Garbled(After(buf, 0))
      BY ONLY <3>5, <3>6, FramedIsClean
    <3> QED
      BY <3>2, <3>3, <3>4, <3>5, <3>7, CheckSays
  <2>3. \/ \E done : Local!Shutdown(op, done)
        \/ Local!Start(op, {"handleBeginPipeTransfer"})
        \/ Local!Throw
    BY <1>2, <2>5 DEF Local!handleWriteSockv5RspToBrowser
  <2>4. pend' \subseteq {"handleBeginPipeTransfer"}
    BY <1>1, <2>1, <2>3, Local!SetupEnds, LocalAssumption, BrowserAssumption,
       LogLvAssumption, TargetAssumption DEF Local!Throw
  <2> QED
    BY <2>4 DEF Local!ReadAgain
<1>3. CASE \/ Local!handleReadHandShake \/ Local!handleWriteHandShake
           \/ Local!handleReadSockv5Req \/ Local!handleConnectToRemote
  <2>0. /\ Local!ReadAgain # "handleReadHandShake"
        /\ Local!ReadAgain # "handleWriteHandShake"
        /\ Local!ReadAgain # "handleReadSockv5Req"
        /\ Local!ReadAgain # "handleConnectToRemote"
        /\ Local!ReadAgain # "handleReadAuthRspFromRemote"
    BY DEF Local!ReadAgain
  <2>1. CASE Local!handleReadHandShake
    BY <2>0, <2>1 DEF Local!handleReadHandShake, Local!Start, Local!Return,
         Local!Throw, Local!BrowserReset
  <2>2. CASE Local!handleWriteHandShake
    BY <2>0, <2>2 DEF Local!handleWriteHandShake, Local!Start, Local!Throw,
         Local!BrowserReset
  <2>3. CASE Local!handleReadSockv5Req
    BY <2>0, <2>3 DEF Local!handleReadSockv5Req, Local!Start, Local!Return,
         Local!Throw, Local!BrowserReset
  <2>4. CASE Local!handleConnectToRemote
    BY <2>0, <2>4 DEF Local!handleConnectToRemote, Local!Connected, Local!Return
  <2> QED
    BY <1>3, <2>1, <2>2, <2>3, <2>4
<1>4. CASE Local!handleReadAuthRspFromRemote \/ Local!handleBeginPipeTransfer
  <2>1. PICK op \in Local!Setup :
          /\ op \in pend
          /\ \/ /\ op = "handleReadAuthRspFromRemote"
                /\ Local!Start(op, {"handleWriteSockv5RspToBrowser"}) \/ Local!Return(op)
             \/ /\ op = "handleBeginPipeTransfer"
                /\ \/ Local!Start(op, {"handleReadDataFromRemote",
                                       "handleReadDataFromBrowser"})
                   \/ Local!Return(op)
    BY <1>4 DEF Local!handleReadAuthRspFromRemote, Local!handleBeginPipeTransfer,
         Local!Written, Local!BrowserFails, Local!RemoteFails, Local!Runs, Local!Fails,
         Local!Setup
  <2>2. pend' \subseteq {"handleWriteSockv5RspToBrowser", "handleReadDataFromRemote",
                         "handleReadDataFromBrowser"}
    BY <1>1, <2>1, Local!SetupEnds, LocalAssumption, BrowserAssumption,
       LogLvAssumption, TargetAssumption
  <2> QED
    BY <2>2 DEF Local!ReadAgain
<1>6. ~ Local!handleReadAuthRspFromRemoteRead
  BY DEF Local!handleReadAuthRspFromRemoteRead, Local!ReadFromRemote,
         Local!RemoteFails, Local!Runs, Local!Fails
<1>5. CASE \/ Local!handleReadDataFromBrowser \/ Local!handleWriteDataToRemote
           \/ Local!handleReadDataFromRemote \/ Local!handleWriteDataToBrowser
  <2>1. PICK o \in Local!UpPipe \cup Local!DownPipe :
           \/ \E new \in Local!UpPipe \cup Local!DownPipe : Local!Start(o, {new})
           \/ \E done : Local!Shutdown(o, done)
           \/ Local!Throw
    BY <1>5 DEF Local!handleReadDataFromBrowser, Local!handleWriteDataToRemote,
         Local!handleReadDataFromRemote, Local!handleWriteDataToBrowser,
         Local!UpPipe, Local!DownPipe
  <2>2. Local!ReadAgain \notin Local!UpPipe \cup Local!DownPipe
    BY DEF Local!ReadAgain, Local!UpPipe, Local!DownPipe
  <2> QED
    BY <2>1, <2>2 DEF Local!Start, Local!Shutdown, Local!Throw
<1> QED
  BY <1>1, <1>2, <1>3, <1>4, <1>5, <1>6 DEF Local!LocalNext

(* Session gives the browser what it takes from the link, and the payload  *)
(* of that is all of it.                                                   *)
LEMMA LocalKeepsDown ==
  ASSUME RspCut = FALSE, BaseInv, BaseInv', DownInv, OnLocal(LocalNext)
  PROVE  DownInv'
<1>0. PICK m \in Seq(Frame) : DownHeld(m)
  BY DEF DownInv
<1>1. LocalNext /\ UNCHANGED << rtmpR, t2r, downSent, peer >>
  BY HandlersApart DEF OnLocal, remote, service
<1>2. /\ Local!ControlInv /\ Local!LocalNext /\ Local!DataType
      /\ (sock' = "up" => sock = "up") /\ (Local!Unheard' => Local!Unheard)
  <2>1. Local!ControlInv /\ Local!LocalNext /\ Local!DataType
    BY <1>1, LocalActs DEF BaseInv, TypeInv
  <2> QED
    BY <2>1, Local!HandlersDirect, LocalAssumption, BrowserAssumption, LogLvAssumption,
       TargetAssumption
<1>3. rtmpR' = << >> /\ Local!ReadAgain \notin pend'
  BY <1>0, <1>1, AnswerIsWhole DEF DownInv, BaseInv
<1>4. /\ DownGets \in Seq(Cell) /\ t2r \in Seq(Cell) /\ downSent \in Nat
      /\ Tokens(downSent) \in Seq(Cell) /\ DataIn(m) \in Seq(Cell)
  BY DownTypes, DataInAdds DEF BaseInv
<1>5. PICK h : h = DownGets'
  OBVIOUS
<1>6. h \in Seq(Cell)
  <2>1. (got \in Seq(Seq(Cell)))' /\ (l2b \in Seq(Seq(Cell)))'
    BY SameWords DEF BaseInv, TypeInv, Local!DataType, Local!BrowserTypeOK
  <2>2. FlattenSeq(got' \o l2b') \in Seq(Cell)
    BY <2>1, ChunksSent
  <2> QED
    BY <1>5, <2>2, PayloadAdds DEF DownGets, PayloadOf
<1>7. CASE sock' # "up"
  <2>1. Local!Chunks' = Local!Chunks
    BY <1>2, <1>7, Local!ClosedGivesNothing, LocalAssumption, BrowserAssumption,
       LogLvAssumption, TargetAssumption
  <2>2. DownGets' = DownGets
    BY <2>1 DEF Local!Chunks, DownGets, PayloadOf
  <2>3. DownHeld(m)'
    BY <1>0, <1>1, <1>2, <1>7, <2>2 DEF DownHeld
  <2> QED
    BY <1>3, <2>3 DEF DownInv
<1>8. CASE sock' = "up"
  <2>7. PICK r \in Seq(Frame) : Carries((tmpR \o r2l)', r) /\ Local!DownMoves(m, r)
    <3>1. /\ m \in Seq(Local!Frame) /\ Local!Carries(tmpR \o r2l, m)
          /\ Local!ReadAgain \notin pend
      BY <1>0, <1>2, <1>8, SameWords, SameStreams DEF DownHeld, DownInv
    <3>2. Local!DownCarried(m)
      BY <1>2, <3>1, Local!HandlersGive, LocalAssumption, BrowserAssumption,
         LogLvAssumption, TargetAssumption
    <3> QED
      BY <1>8, <3>2, SameWords, SameStreams DEF Local!DownCarried
  <2>8. /\ \E x \in Seq(Cell) : x \o DataIn(r) = DataIn(m)
        /\ h \o Payload(DataIn(r)) = DownGets \o Payload(DataIn(m))
        /\ Local!Unheard' => r = m
        /\ DataIn(r) \in Seq(Cell)
    <3>1. Seq(Local!Cell) = Seq(Cell)
      BY SameWords
    <3>2. Local!DataIn(r) = DataIn(r) /\ Local!DataIn(m) = DataIn(m)
      BY SameStreams
    <3>3. Local!BrowserGets = DownGets /\ Local!BrowserGets' = h
          /\ Local!Payload(DataIn(r)) = Payload(DataIn(r))
          /\ Local!Payload(DataIn(m)) = Payload(DataIn(m))
      BY <1>5, SameDown
    <3>4. DataIn(r) \in Seq(Cell)
      BY DataInAdds
    <3> QED
      BY <2>7, <3>1, <3>2, <3>3, <3>4 DEF Local!DownMoves, Local!LeftOf
  <2>1. sock = "up" /\ Begins(DownGets \o DataIn(m), Tokens(downSent))
    BY <1>0, <1>2, <1>8 DEF DownHeld
  <2>2. h \o DataIn(r) = DownGets \o DataIn(m)
    <3>1. PICK x \in Seq(Cell) : x \o DataIn(r) = DataIn(m)
      BY <2>8
    <3>2. h \o Payload(DataIn(r)) = DownGets \o Payload(DataIn(m))
      BY <2>8
    <3> DEFINE a == DataIn(m)
               b == DataIn(r)
    <3>3. /\ downSent \in Nat /\ DownGets \in Seq(Cell) /\ h \in Seq(Cell)
          /\ a \in Seq(Cell) /\ b \in Seq(Cell) /\ x \in Seq(Cell)
          /\ x \o b = a /\ Begins(DownGets \o a, Tokens(downSent))
          /\ h \o Payload(b) = DownGets \o Payload(a)
      BY <1>4, <1>6, <2>1, <2>8, <3>1, <3>2
    <3> HIDE DEF a, b
    <3>4. Payload(a) = a
      BY <3>3, TokensAreData, PayloadOfData
    <3>5. Payload(b) = b
      <4> DEFINE y == DownGets \o x
      <4>1. DownGets \in Seq(Cell) /\ x \in Seq(Cell) /\ b \in Seq(Cell)
        BY <3>3
      <4>2. (DownGets \o x) \o b = DownGets \o (x \o b) /\ DownGets \o x \in Seq(Cell)
        BY ONLY <4>1, Regroup
      <4>3. y \in Seq(Cell) /\ Begins(y \o b, Tokens(downSent))
        BY <3>3, <4>2
      <4> HIDE DEF y
      <4> QED
        BY <3>3, <4>3, TokensAreData, PayloadOfData
    <3> QED
      BY <3>3, <3>4, <3>5 DEF a, b
  <2>3. Begins(h, Tokens(downSent))
    BY <1>4, <1>6, <2>1, <2>2, <2>8, BeginsShorter
  <2>4. h \o (DataIn(r) \o t2r) = DownGets \o (DataIn(m) \o t2r)
    <3>1. h \in Seq(Cell) /\ DataIn(r) \in Seq(Cell) /\ t2r \in Seq(Cell)
      BY <1>4, <1>6, <2>8
    <3>2. DownGets \in Seq(Cell) /\ DataIn(m) \in Seq(Cell) /\ t2r \in Seq(Cell)
      BY <1>4
    <3>3. (h \o DataIn(r)) \o t2r = h \o (DataIn(r) \o t2r)
      BY ONLY <3>1, Regroup
    <3>4. (DownGets \o DataIn(m)) \o t2r = DownGets \o (DataIn(m) \o t2r)
      BY ONLY <3>2, Regroup
    <3> QED
      BY <2>2, <3>3, <3>4
  <2>5. peer # "closed" => h \o (DataIn(r) \o t2r) = Tokens(downSent)
    BY <1>0, <2>1, <2>4 DEF DownHeld
  <2>6. DownHeld(r)'
    BY <1>0, <1>1, <1>2, <1>5, <2>1, <2>2, <2>3, <2>5, <2>7, <2>8 DEF DownHeld
  <2> QED
    BY <1>3, <2>6 DEF DownInv
<1> QED
  BY <1>7, <1>8

(* RemoteSession puts on the link what it reads from the target.           *)
LEMMA RemoteKeepsDown ==
  ASSUME BaseInv, BaseInv', DownInv, OnRemote(R!RemoteNext)
  PROVE  DownInv'
<1>0. PICK m \in Seq(Frame) : DownHeld(m)
  BY DEF DownInv
<1>1. /\ Remote!ControlInv /\ Remote!RemoteNext /\ Remote!DataType
      /\ UNCHANGED << got, l2b, pend, sock, tmpR >>
  BY RemoteActs DEF OnRemote, BaseInv, TypeInv, client, local
<1>2. DownGets' = DownGets /\ rtmpR = << >> /\ Local!ReadAgain \notin pend'
  BY <1>1, DownStays DEF DownInv
<1>3. downSent' = downSent
  BY <1>1 DEF Remote!RemoteNext, Remote!handleAccept, Remote!handleAuthFromBrowser,
       Remote!handleQueryDns, Remote!handleConnectToTarget,
       Remote!handleWriteRespToBrowser, Remote!handleWriteDataToBrowser,
       Remote!handleReadDataFromTarget, Remote!handleWriteDataToTarget,
       Remote!handleReadDataFromBrowser, Remote!Service
<1>8. Local!Unheard' <=> Local!Unheard
  BY <1>1 DEF Local!Unheard
<1>9. CASE sock # "up"
  <2>1. rtmpR' = << >>
    BY <1>1, <1>2 DEF Remote!RemoteNext, Remote!handleAccept,
       Remote!handleAuthFromBrowser, Remote!handleQueryDns,
       Remote!handleConnectToTarget, Remote!handleWriteRespToBrowser,
       Remote!handleWriteDataToBrowser, Remote!handleReadDataFromTarget,
       Remote!handleWriteDataToTarget, Remote!handleReadDataFromBrowser
  <2>2. DownHeld(m)'
    BY <1>0, <1>1, <1>2, <1>3, <1>8, <1>9 DEF DownHeld
  <2> QED
    BY <1>2, <2>1, <2>2 DEF DownInv
<1> SUFFICES ASSUME sock = "up" PROVE DownInv'
  BY <1>9
<1>4. m \in Seq(Remote!Frame) /\ Remote!Carries(Remote!Out, m)
  BY <1>0, SameWords, SameStreams, SameDown DEF DownHeld
<1>5. CASE Remote!handleConnectToTarget
  <2>1. /\ peer = "up"
        /\ \E r \in Seq(Remote!Frame) :
             /\ Remote!Carries(Remote!Out', r) /\ Remote!DataIn(r) = Remote!DataIn(m)
             /\ Remote!AllFramed(m) => Remote!AllFramed(r)
    BY <1>1, <1>4, <1>5, Remote!AnswerCarried, LocalAssumption, TargetAssumption,
       LogLvAssumption
  <2>2. PICK r \in Seq(Frame) : /\ Carries((tmpR \o r2l)', r) /\ DataIn(r) = DataIn(m)
                                /\ AllFramed(m) => AllFramed(r)
    BY <2>1, SameWords, SameStreams, SameDown
  <2>3. UNCHANGED << t2r, rtmpR >>
    BY <1>5 DEF Remote!handleConnectToTarget
  <2>4. DownHeld(r)'
    <3>1. /\ sock' = sock /\ (Local!Unheard' <=> Local!Unheard)
          /\ DownGets' = DownGets /\ downSent' = downSent /\ t2r' = t2r
          /\ peer = "up"
      BY <1>1, <1>2, <1>3, <1>8, <2>1, <2>3
    <3>2. /\ DownGets \o (DataIn(m) \o t2r) = Tokens(downSent)
          /\ Begins(DownGets \o DataIn(m), Tokens(downSent))
          /\ Begins(DownGets, Tokens(downSent))
          /\ Local!Unheard => AllFramed(m)
      BY <1>0, <3>1 DEF DownHeld
    <3> QED
      BY <3>1, <3>2, <2>2 DEF DownHeld
  <2> QED
    BY <1>2, <2>3, <2>4 DEF DownInv
<1>6. CASE Remote!handleWriteDataToBrowser
  <2>1. /\ rtmpR' = << >> /\ peer # "new" /\ peer' # "new" /\ (peer' = "up" => peer = "up")
        /\ \E r \in Seq(Remote!Frame) :
             /\ Remote!Carries(Remote!Out', r)
             /\ Remote!AllFramed(m) => Remote!AllFramed(r)
             /\ peer' = "up" => Remote!DataIn(r) \o t2r' = Remote!DataIn(m) \o t2r
             /\ \/ r = m
                \/ peer = "up" /\ Remote!DataIn(r) \o t2r' = Remote!DataIn(m) \o t2r
    BY <1>1, <1>2, <1>4, <1>6, Remote!DataCarried, LocalAssumption, TargetAssumption,
       LogLvAssumption
  <2>2. PICK r \in Seq(Frame) :
          /\ Carries((tmpR \o r2l)', r)
          /\ AllFramed(m) => AllFramed(r)
          /\ peer' = "up" => DataIn(r) \o t2r' = DataIn(m) \o t2r
          /\ r = m \/ (peer = "up" /\ DataIn(r) \o t2r' = DataIn(m) \o t2r)
    BY <2>1, SameWords, SameStreams, SameDown
  <2>3. peer' \in {"new", "up", "closed"}
    BY EndsType, SameWords DEF BaseInv, TypeInv, Remote!DataType, ControlInv,
         RemoteDead, Dead, Remote!ControlInv, Remote!Waiting, Remote!Phases,
         Remote!SettingUp, Remote!Piping, Remote!Closing, Remote!Gone
  <2>4. peer' # "closed" => peer = "up" /\ DataIn(r) \o t2r' = DataIn(m) \o t2r
    BY <2>1, <2>2, <2>3
  <2>5. sock = "up" => Begins(DownGets \o DataIn(r), Tokens(downSent))
    <3>1. CASE r = m
      BY <1>0, <3>1 DEF DownHeld
    <3>2. ASSUME sock = "up", peer = "up", DataIn(r) \o t2r' = DataIn(m) \o t2r
          PROVE  Begins(DownGets \o DataIn(r), Tokens(downSent))
      <4>1. DownGets \o (DataIn(r) \o t2r') = Tokens(downSent)
        BY <1>0, <3>2 DEF DownHeld
      <4>2. DownGets \in Seq(Cell) /\ DataIn(r) \in Seq(Cell) /\ t2r' \in Seq(Cell)
        <5>1. (t2r \in Seq(Cell))'
          BY SameWords DEF BaseInv, TypeInv, Remote!DataType, Remote!TargetTypeOK
        <5> QED
          BY <5>1, DownTypes, DataInAdds DEF BaseInv
      <4>3. (DownGets \o DataIn(r)) \o t2r' = DownGets \o (DataIn(r) \o t2r')
        BY ONLY <4>2, Regroup
      <4> QED
        BY <4>1, <4>2, <4>3 DEF Begins
    <3> QED
      BY <2>2, <3>1, <3>2
  <2>6. DownHeld(r)'
    BY <1>0, <1>1, <1>2, <1>3, <1>8, <2>2, <2>4, <2>5 DEF DownHeld
  <2> QED
    BY <1>2, <2>1, <2>6 DEF DownInv
<1>7. CASE \/ Remote!handleAccept \/ Remote!handleAuthFromBrowser
           \/ Remote!handleQueryDns \/ Remote!handleWriteRespToBrowser
           \/ Remote!handleReadDataFromTarget \/ Remote!handleWriteDataToTarget
           \/ Remote!handleReadDataFromBrowser
  <2>1. UNCHANGED << r2l, t2r, rtmpR >>
    BY <1>7
       DEF Remote!handleAccept, Remote!handleAuthFromBrowser, Remote!handleQueryDns,
           Remote!handleWriteRespToBrowser, Remote!handleReadDataFromTarget,
           Remote!handleWriteDataToTarget, Remote!handleReadDataFromBrowser, Remote!Link
  <2>2. peer' # "closed" => peer # "closed"
    BY <1>7
       DEF Remote!handleAccept, Remote!handleAuthFromBrowser, Remote!handleQueryDns,
           Remote!handleWriteRespToBrowser, Remote!handleReadDataFromTarget,
           Remote!handleWriteDataToTarget, Remote!handleReadDataFromBrowser,
           Remote!LinkReset, Remote!Throw, Remote!Start, Remote!Shutdown,
           Remote!Return, Remote!CloseBoth, Remote!Close
  <2>3. DownHeld(m)'
    BY <1>0, <1>1, <1>2, <1>3, <1>8, <2>1, <2>2 DEF DownHeld
  <2> QED
    BY <1>2, <2>1, <2>3 DEF DownInv
<1> QED
  BY <1>1, <1>5, <1>6, <1>7 DEF Remote!RemoteNext

(* The target adds to its stream, the browser takes from it.               *)
LEMMA OthersKeepDown ==
  ASSUME BaseInv, BaseInv', DownInv,
         BrowserStep \/ TargetStep \/ LocalDies \/ RemoteDies \/ UNCHANGED vars
  PROVE  DownInv'
<1>0. PICK m \in Seq(Frame) : DownHeld(m)
  BY DEF DownInv
<1>1. UNCHANGED << tmpR, r2l, rtmpR >> /\ rtmpR = << >>
  BY DEF BrowserStep, TargetStep, LocalDies, RemoteDies, vars, client, local, link,
         remote, DownInv
<1>2. pend' \subseteq pend
  BY DEF BrowserStep, TargetStep, LocalDies, RemoteDies, vars, local, Throw
<1>3. Local!ReadAgain \notin pend'
  BY <1>2 DEF DownInv
<1>4. /\ got \in Seq(Seq(Cell)) /\ l2b \in Seq(Seq(Cell)) /\ DownGets \in Seq(Cell)
      /\ t2r \in Seq(Cell) /\ downSent \in Nat /\ Tokens(downSent) \in Seq(Cell)
      /\ DataIn(m) \in Seq(Cell)
  BY DownTypes, DataInAdds DEF BaseInv
<1>5. DownGets' = DownGets
  <2>1. CASE BrowserReceives
    <3>1. Append(got, Head(l2b)) \o Tail(l2b) = got \o l2b
      BY <1>4, <2>1, ChunksReceived DEF BrowserReceives
    <3>2. got' \o l2b' = got \o l2b
      BY <2>1, <3>1 DEF BrowserReceives
    <3> QED
      BY <3>2 DEF DownGets
  <2>2. CASE UNCHANGED << got, l2b >>
    BY <2>2, DownStays
  <2> QED
    BY <2>1, <2>2
       DEF BrowserStep, BrowserNext, Greet, Request, SendData, BrowserCloses,
           BrowserResets, TargetStep, LocalDies, RemoteDies, vars, client
<1>6. (sock' = "up" => sock = "up") /\ (peer' # "closed" => peer # "closed")
  <2>1. CASE LocalDies
    BY <2>1 DEF LocalDies, Throw, CloseBoth, Close
  <2>2. CASE RemoteDies
    BY <2>2 DEF RemoteDies, R!Throw, R!CloseBoth, R!Close, local
  <2>3. CASE BrowserStep \/ TargetStep \/ UNCHANGED vars
    BY <2>3 DEF BrowserStep, TargetStep, vars, local, link
  <2> QED
    BY <2>1, <2>2, <2>3
<1>9. Local!Unheard' => Local!Unheard
  BY <1>2 DEF Local!Unheard
<1>7. CASE UNCHANGED << t2r, downSent >>
  <2>1. DownHeld(m)'
    BY <1>0, <1>1, <1>5, <1>6, <1>7, <1>9 DEF DownHeld
  <2> QED
    BY <1>1, <1>3, <2>1 DEF DownInv
<1>8. CASE TargetSends
  <2>1. /\ downSent' = downSent + 1
        /\ t2r' = Append(t2r, C("data", downSent + 1))
    BY <1>8 DEF TargetSends
  <2>2. Tokens(downSent + 1) = Tokens(downSent) \o << C("data", downSent + 1) >>
        /\ << C("data", downSent + 1) >> \in Seq(Cell)
    BY <1>4, TokensGrow, SingletonType
  <2>3. Begins(DownGets, Tokens(downSent + 1))
    BY <1>0, <1>4, <2>2, BeginsGrows DEF DownHeld
  <2>4. sock = "up" => Begins(DownGets \o DataIn(m), Tokens(downSent + 1))
    <3>1. DownGets \o DataIn(m) \in Seq(Cell)
      BY <1>4, ConcatProperties
    <3> QED
      BY <1>0, <1>4, <2>2, <3>1, BeginsGrows DEF DownHeld
  <2>5. ASSUME DownGets \o (DataIn(m) \o t2r) = Tokens(downSent)
        PROVE  DownGets \o (DataIn(m) \o Append(t2r, C("data", downSent + 1)))
                 = Tokens(downSent + 1)
    <3> DEFINE x == DownGets \o DataIn(m)
               u == Append(t2r, C("data", downSent + 1))
    <3>1. DownGets \in Seq(Cell) /\ DataIn(m) \in Seq(Cell) /\ t2r \in Seq(Cell)
      BY <1>4
    <3>2. (DownGets \o DataIn(m)) \o t2r = DownGets \o (DataIn(m) \o t2r) /\ x \in Seq(Cell)
      BY ONLY <3>1, Regroup
    <3>3. u \in Seq(Cell)
      BY <1>4, TokensGrow, AppendProperties
    <3>4. << >> \in Seq(Cell) /\ << >> \o Tokens(downSent) = Tokens(downSent)
          /\ << >> \o Tokens(downSent + 1) = Tokens(downSent + 1)
      BY <1>4, TokensGrow, ConcatEmptySeq
    <3>5. /\ downSent \in Nat /\ << >> \in Seq(Cell) /\ x \in Seq(Cell) /\ t2r \in Seq(Cell)
          /\ x \o t2r = << >> \o Tokens(downSent)
      BY <1>4, <2>5, <3>2, <3>4
    <3>6. x \o u = << >> \o Tokens(downSent + 1)
      <4> HIDE DEF x
      <4> QED
        BY ONLY <3>5, TokenSent DEF u
    <3>7. DownGets \in Seq(Cell) /\ DataIn(m) \in Seq(Cell) /\ u \in Seq(Cell)
      BY <3>1, <3>3
    <3> HIDE DEF u
    <3>8. (DownGets \o DataIn(m)) \o u = DownGets \o (DataIn(m) \o u)
      BY ONLY <3>7, Regroup
    <3> QED
      BY <3>4, <3>6, <3>8 DEF u
  <2>6. DownHeld(m)'
    BY <1>0, <1>1, <1>5, <1>6, <1>9, <2>1, <2>3, <2>4, <2>5 DEF DownHeld
  <2> QED
    BY <1>1, <1>3, <2>6 DEF DownInv
<1> QED
  BY <1>7, <1>8 DEF BrowserStep, TargetStep, TargetNext, TargetReceives, TargetCloses,
                    TargetResets, LocalDies, RemoteDies, vars, service

LEMMA StepsKeepDown ==
  ASSUME RspCut = FALSE
  PROVE  BaseInv /\ DownInv /\ [Next]_vars => DownInv'
<1> SUFFICES ASSUME BaseInv, DownInv, [Next]_vars PROVE DownInv'
  OBVIOUS
<1>1. BaseInv'
  BY StepsKeepBase
<1> QED
  BY <1>1, LocalKeepsDown, RemoteKeepsDown, OthersKeepDown DEF Next

LEMMA StartsInDown == Init => DownInv
<1> SUFFICES ASSUME Init PROVE DownInv
  OBVIOUS
<1>1. /\ rtmpR = << >> /\ tmpR = << >> /\ r2l = << >> /\ got = << >> /\ l2b = << >>
      /\ t2r = << >> /\ downSent = 0 /\ pend = {"handleReadHandShake"}
  BY DEF Init, BrowserInit, LocalInit, R!RemoteInit, TargetInit
<1>2. << >> \o << >> = << >> /\ << >> \in Seq(Frame) /\ << >> \in Seq(Cell)
  BY EmptySeq
<1>3. DownGets = << >> /\ DataIn(<< >>) = << >> /\ Tokens(downSent) = << >>
  BY <1>1, <1>2, FlattenEmpty, ShortStreams, NoTokens DEF DownGets, PayloadOf
<1>4. Carries(tmpR \o r2l, << >>)
  BY <1>1, <1>2, CarriesNothing
<1>5. Local!ReadAgain \notin pend
  BY <1>1 DEF Local!ReadAgain
<1>6. Begins(<< >>, << >>)
  BY <1>2, BeginsItself
<1>8. AllFramed(<< >>)
  BY <1>2 DEF AllFramed
<1>7. DownHeld(<< >>)
  BY <1>1, <1>2, <1>3, <1>4, <1>6, <1>8 DEF DownHeld
<1> QED
  BY <1>1, <1>2, <1>5, <1>7 DEF DownInv

(* What the property needs of it.                                          *)
LEMMA DownEnds == BaseInv /\ DownInv => DownEndToEnd
<1> SUFFICES ASSUME BaseInv, DownInv, AllOpen PROVE DownEndToEnd
  BY DEF DownEndToEnd
<1>0. PICK m \in Seq(Frame) : DownHeld(m)
  BY DEF DownInv
<1>1. sock = "up" /\ peer = "up" /\ rtmpR = << >>
  BY DEF AllOpen, DownInv
<1>2. /\ DownGets \in Seq(Cell) /\ DataIn(m) \in Seq(Cell) /\ t2r \in Seq(Cell)
      /\ tmpR \o r2l \in Seq(Piece)
  BY DownTypes, DataInAdds DEF BaseInv
<1>3. DataIn(Messages(tmpR \o r2l)) = DataIn(m)
  BY <1>0, <1>1, <1>2, CarriesMessages DEF DownHeld
<1>4. DownGets \in Seq(Cell) /\ DataIn(m) \in Seq(Cell) /\ t2r \in Seq(Cell)
  BY <1>2
<1>5. (DownGets \o DataIn(m)) \o t2r = DownGets \o (DataIn(m) \o t2r)
      /\ DownGets \o DataIn(m) \in Seq(Cell)
  BY ONLY <1>4, Regroup
<1>6. (DownGets \o DataIn(m)) \o rtmpR = DownGets \o DataIn(m)
  BY <1>1, <1>5, ConcatEmptySeq
<1>7. DownGets \o (DataIn(m) \o t2r) = Tokens(downSent)
  BY <1>0, <1>1 DEF DownHeld
<1>8. ((DownGets \o DataIn(m)) \o rtmpR) \o t2r = Tokens(downSent)
  BY <1>5, <1>6, <1>7
<1> QED
  BY <1>3, <1>8 DEF DownEndToEnd, DownGets

(* DownEndToEnd: while the four sockets are open, the browser has, or will *)
(* be given by what is in the buffers and on the link, exactly what the    *)
(* target sent, unless the answer of tun_remote was cut on its way.        *)
THEOREM DownEndToEndHolds == ASSUME RspCut = FALSE PROVE Spec => []DownEndToEnd
<1>1. Init => BaseInv /\ DownInv
  BY StartsInBase, StartsInDown
<1>2. BaseInv /\ DownInv /\ [Next]_vars => (BaseInv /\ DownInv)'
  BY StepsKeepBase, StepsKeepDown
<1> QED
  BY <1>1, <1>2, DownEnds, PTL DEF Spec

-----------------------------------------------------------------------------
(* The tunnel as a service (TunnelService).  First, the request is one the *)
(* browser may send: one for a host name leaves nothing in the stream.     *)
ReqInv == req \in {0} \cup ReqKinds

LEMMA StepsKeepReq == BaseInv /\ ReqInv /\ [Next]_vars => ReqInv'
<1> SUFFICES ASSUME BaseInv, ReqInv, [Next]_vars PROVE ReqInv'
  OBVIOUS
<1>1. CASE OnLocal(LocalNext)
  <2>1. Local!DataType /\ Local!SpokenInv /\ Local!LocalNext
    BY <1>1, LocalActs DEF OnLocal, BaseInv, TypeInv, DialogueInv
  <2>2. req' = req \/ req' \in ReqKinds
    BY <2>1, Local!RequestIs, LocalAssumption, BrowserAssumption, LogLvAssumption,
       TargetAssumption
  <2> QED
    BY <2>2 DEF ReqInv
<1>2. CASE ~ OnLocal(LocalNext)
  <2>1. req' = req
    BY <1>2 DEF Next, OnRemote, BrowserStep, TargetStep, LocalDies, RemoteDies, vars, local
  <2> QED
    BY <2>1 DEF ReqInv
<1> QED
  BY <1>1, <1>2

(* What the chunks to the browser are: nothing, the answer to its          *)
(* greeting, or that, the reply and what follows.                          *)
Spoken(chunks) ==
  \/ chunks \in { << >>, << << C("greetrsp", 0) >> >> }
  \/ /\ Len(chunks) >= 2 /\ chunks[1] = << C("greetrsp", 0) >>
     /\ \E v \in Nat : chunks[2] = << C("reply", v) >>

LEMMA ChunksAreSpoken ==
  ASSUME BaseInv
  PROVE  /\ Spoken(got \o l2b)
         /\ Len(got \o l2b) >= 2 => target # "new"
<1>1. Local!Silent \/ Local!Told
  BY DEF BaseInv, DialogueInv, Local!ToldInv
<1>2. Local!Greeting = << C("greetrsp", 0) >> /\ \A v : Local!C("reply", v) = C("reply", v)
  BY DEF Local!Greeting, Local!C, C
<1>3. CASE Local!Silent
  <2>1. got \o l2b \in { << >>, << << C("greetrsp", 0) >> >> }
    BY <1>2, <1>3 DEF Local!Silent, Local!Chunks
  <2>2. ~ Len(got \o l2b) >= 2
    <3>1. Len(<< >>) = 0 /\ Len(<< << C("greetrsp", 0) >> >>) = 1
      OBVIOUS
    <3> QED
      BY <2>1, <3>1
  <2> QED
    BY <2>1, <2>2 DEF Spoken
<1>4. CASE Local!Told
  <2>1. target # "new"
    BY <1>4 DEF Local!Told, Local!Accepted
  <2>2. Spoken(got \o l2b)
    BY <1>2, <1>4 DEF Local!Told, Local!Chunks, Spoken
  <2> QED
    BY <2>1, <2>2
<1> QED
  BY <1>1, <1>3, <1>4

(* So the second chunk the browser receives is the reply, and only what    *)
(* follows carries data.                                                   *)
LEMMA RepliedIs ==
  ASSUME NEW g \in Seq(Seq(Cell)), NEW b \in Seq(Seq(Cell)), Spoken(g \o b)
  PROVE  /\ Replied(g) <=> Len(g) >= 2
         /\ Len(g) <= 2 => PayloadOf(g) = << >>
<1> DEFINE greeting == << C("greetrsp", 0) >>
           Strings == Seq(Cell)
<1>1. greeting \in Seq(Cell) /\ greeting # << >> /\ greeting[1].t = "greetrsp"
      /\ Payload(greeting) = << >> /\ "greetrsp" # "reply"
  <2>1. C("greetrsp", 0) \in Cell /\ C("greetrsp", 0).t = "greetrsp"
    BY CellType DEF CellTypes, C
  <2> QED
    BY <2>1, SingletonType, ShortStreams DEF IsData
<1>2. \A v \in Nat : /\ << C("reply", v) >> \in Seq(Cell) /\ << C("reply", v) >> # << >>
                     /\ << C("reply", v) >>[1].t = "reply"
                     /\ Payload(<< C("reply", v) >>) = << >>
  <2>1. \A v \in Nat : C("reply", v) \in Cell /\ C("reply", v).t = "reply"
    BY CellType DEF CellTypes, C
  <2> QED
    BY <2>1, SingletonType, ShortStreams DEF IsData
<1>3. g \in Seq(Strings) /\ b \in Seq(Strings)
  OBVIOUS
<1>0. Len(<< greeting >>) = 1 /\ << greeting >>[1] = greeting /\ Len(<< >>) = 0
  OBVIOUS
<1>4. \/ g \o b = << >> \/ g \o b = << greeting >>
      \/ /\ Len(g \o b) >= 2 /\ (g \o b)[1] = greeting
         /\ \E v \in Nat : (g \o b)[2] = << C("reply", v) >>
  BY DEF Spoken
<1> HIDE DEF greeting, Strings
<1>5. /\ Len(g) \in Nat /\ Len(b) \in Nat /\ Len(g \o b) = Len(g) + Len(b)
      /\ \A i \in 1 .. Len(g) + Len(b) : (g \o b)[i] = IF i <= Len(g) THEN g[i] ELSE b[i - Len(g)]
      /\ DOMAIN g = 1 .. Len(g)
  BY <1>3, ConcatProperties, LenProperties
<1>6. Len(g) >= 1 => g[1] = greeting
  <2>1. Len(g) >= 1 => 1 \in 1 .. Len(g) + Len(b) /\ (g \o b)[1] = g[1] /\ Len(g \o b) # 0
    BY <1>5
  <2> QED
    BY <1>0, <1>4, <2>1
<1>7. ASSUME Len(g) >= 2
      PROVE  \E v \in Nat : g[2] = << C("reply", v) >>
  <2>1. 2 \in 1 .. Len(g) + Len(b) /\ (g \o b)[2] = g[2] /\ Len(g \o b) >= 2
    BY <1>5, <1>7
  <2>2. g \o b # << >> /\ g \o b # << greeting >>
    <3>1. ASSUME NEW w, w = << >> \/ w = << greeting >> PROVE Len(w) \in {0, 1}
      BY <1>0, <3>1, Zenon
    <3>2. \A k \in {0, 1} : ~ k >= 2
      OBVIOUS
    <3> QED
      BY <2>1, <3>1, <3>2, Zenon
  <2>3. \E v \in Nat : (g \o b)[2] = << C("reply", v) >>
    BY <1>4, <2>2
  <2> QED
    BY <2>1, <2>3
<1>8. CASE Len(g) = 0
  <2>1. g = << >>
    BY <1>3, <1>8, EmptySeq
  <2>2. PayloadOf(g) = << >>
    BY <2>1, FlattenEmpty, ShortStreams DEF PayloadOf
  <2>3. ~ Replied(g)
    BY <1>5, <1>8 DEF Replied
  <2> QED
    BY <1>8, <2>2, <2>3
<1>9. CASE Len(g) = 1
  <2>1. g[1] = greeting
    BY <1>6, <1>9
  <2>2. ~ Replied(g)
    BY <1>1, <1>5, <1>9, <2>1 DEF Replied
  <2>3. g = << greeting >>
    BY <1>3, <1>9, <2>1
  <2>4. FlattenSeq(<< greeting >>) = greeting
    BY <1>1, FlattenSingle
  <2> QED
    BY <1>1, <1>9, <2>2, <2>3, <2>4 DEF PayloadOf
<1>10. CASE Len(g) >= 2
  <2>1. PICK v \in Nat : g[2] = << C("reply", v) >>
    BY <1>7, <1>10
  <2>2. Replied(g)
    <3>1. 2 \in DOMAIN g
      BY <1>5, <1>10
    <3> QED
      BY <1>2, <2>1, <3>1 DEF Replied
  <2>3. ASSUME Len(g) = 2 PROVE PayloadOf(g) = << >>
    <3> DEFINE reply == << C("reply", v) >>
    <3>1. reply \in Seq(Cell) /\ Payload(reply) = << >> /\ g[2] = reply
      BY <1>2, <2>1
    <3> HIDE DEF reply
    <3>2. greeting \in Strings /\ reply \in Strings
      BY <1>1, <3>1 DEF Strings
    <3>3. g = Append(<< greeting >>, reply)
      BY <1>3, <1>6, <2>3, <3>1, <3>2
    <3>4. << greeting >> \in Seq(Seq(Cell)) /\ FlattenSeq(<< greeting >>) = greeting
      BY <1>1, SingletonType, FlattenSingle
    <3>5. FlattenSeq(Append(<< greeting >>, reply)) = greeting \o reply
      BY <3>1, <3>4, FlattenAppend
    <3>6. Payload(greeting \o reply) = Payload(greeting) \o Payload(reply)
      BY <1>1, <3>1, PayloadAdds
    <3>7. << >> \o << >> = << >>
      OBVIOUS
    <3> QED
      BY <1>1, <3>1, <3>3, <3>5, <3>6, <3>7 DEF PayloadOf
  <2> QED
    BY <1>5, <1>10, <2>2, <2>3
<1> QED
  BY <1>5, <1>8, <1>9, <1>10

(* What is received is the next tokens of the stream, or nothing new.      *)
LEMMA Delivers ==
  ASSUME NEW n \in Nat, NEW a \in Seq(Cell), NEW x \in Seq(Cell), Begins(a \o x, Tokens(n))
  PROVE  a \o x = a \/ Service!Extends(a, a \o x, n)
<1>1. CASE x = << >>
  BY <1>1, ConcatEmptySeq
<1>2. CASE x # << >>
  <2>1. PICK k \in Len(a) + 1 .. n : a \o x = Tokens(k)
    BY <1>2, TokensGoOn
  <2>2. a \o x = [i \in 1 .. k |-> TunnelToken(i)]
    BY <2>1 DEF Tokens, TunnelToken
  <2> QED
    BY <2>1, <2>2 DEF Service!Extends
<1> QED
  BY <1>1, <1>2

(* Nothing the service promises changes.                                   *)
LEMMA Stutters ==
  ASSUME UNCHANGED << got, upSent, tgot, downSent >>,
         (target' = "new") = (target = "new")
  PROVE  UNCHANGED Service!vars
<1>1. Replied(got)' = Replied(got) /\ PayloadOf(got)' = PayloadOf(got)
      /\ FlattenSeq(tgot)' = FlattenSeq(tgot)
  BY DEF Replied, PayloadOf
<1> QED
  BY <1>1 DEF Service!vars

(* Session and RemoteSession serve: the one step of theirs that counts is  *)
(* the connection to the target.                                           *)
LEMMA SessionsServe ==
  ASSUME BaseInv, \/ OnLocal(LocalNext) \/ OnRemote(R!RemoteNext)
                  \/ LocalDies \/ RemoteDies \/ UNCHANGED vars
  PROVE  [Service!Next]_(Service!vars)
<1>1. CASE OnLocal(LocalNext) \/ LocalDies \/ RemoteDies \/ UNCHANGED vars
  <2>1. UNCHANGED << got, upSent >>
    BY <1>1 DEF OnLocal, LocalNext, handleReadHandShake, handleWriteHandShake,
         handleReadSockv5Req, handleConnectToRemote, handleReadAuthRspFromRemote,
         handleReadAuthRspFromRemoteRead, handleWriteSockv5RspToBrowser,
         handleBeginPipeTransfer, handleReadDataFromBrowser, handleWriteDataToRemote,
         handleReadDataFromRemote, handleWriteDataToBrowser, Dialogue,
         LocalDies, RemoteDies, vars, client
  <2>2. UNCHANGED << tgot, downSent, target >>
    BY <1>1 DEF OnLocal, LocalDies, RemoteDies, vars, service
  <2> QED
    BY <2>1, <2>2, Stutters
<1>2. CASE OnRemote(R!RemoteNext)
  <2>1. UNCHANGED << got, upSent >>
    BY <1>2 DEF OnRemote, client
  <2>2. UNCHANGED << tgot, downSent >>
    BY <1>2 DEF OnRemote, R!RemoteNext, R!handleAccept, R!handleAuthFromBrowser,
         R!handleQueryDns, R!handleConnectToTarget, R!handleWriteRespToBrowser,
         R!handleWriteDataToBrowser, R!handleReadDataFromTarget,
         R!handleWriteDataToTarget, R!handleReadDataFromBrowser, R!Service
  <2>3. target' = target \/ (target = "new" /\ target' = "up")
    BY <1>2, RemoteMoves DEF BaseInv, LinkInv
  <2>4. CASE target' = target
    BY <2>1, <2>2, <2>4, Stutters
  <2>5. CASE target = "new" /\ target' = "up"
    <3>1. Replied(got)' = Replied(got) /\ PayloadOf(got)' = PayloadOf(got)
          /\ FlattenSeq(tgot)' = FlattenSeq(tgot)
      BY <2>1, <2>2 DEF Replied, PayloadOf
    <3> QED
      BY <2>1, <2>2, <2>5, <3>1 DEF Service!Next, Service!Connect
  <2> QED
    BY <2>3, <2>4, <2>5
<1> QED
  BY <1>1, <1>2

(* So does the target.                                                     *)
LEMMA TargetServes ==
  ASSUME ReqKinds \subseteq {0, 3}, BaseInv, BaseInv', ReqInv, UpInv', TargetStep
  PROVE  [Service!Next]_(Service!vars)
<1>1. UNCHANGED << got, upSent, req >>
  BY DEF TargetStep, client, local
<1>2. Replied(got)' = Replied(got) /\ PayloadOf(got)' = PayloadOf(got)
  BY <1>1 DEF Replied, PayloadOf
<1>3. CASE TargetSends
  <2>1. target = "up" /\ UNCHANGED << target, tgot >> /\ downSent' = downSent + 1
    BY <1>3 DEF TargetSends
  <2>2. FlattenSeq(tgot)' = FlattenSeq(tgot)
    BY <2>1
  <2> QED
    BY <1>1, <1>2, <2>1, <2>2 DEF Service!Next, Service!SendDown
<1>4. CASE TargetReceives
  <2> DEFINE a == FlattenSeq(tgot)
             x == Head(r2t)
  <2>1. /\ target \in {"up", "fin"} /\ r2t # << >> /\ UNCHANGED << target, downSent >>
        /\ tgot' = Append(tgot, x)
    BY <1>4 DEF TargetReceives
  <2>2. tgot \in Seq(Seq(Cell)) /\ r2t \in Seq(Seq(Cell)) /\ upSent \in Nat
    BY UpTypes DEF BaseInv
  <2>3. a \in Seq(Cell) /\ x \in Seq(Cell)
    <3> DEFINE Strings == Seq(Cell)
    <3>1. r2t \in Seq(Strings)
      BY <2>2
    <3> HIDE DEF Strings
    <3>2. Head(r2t) \in Strings
      BY <2>1, <3>1, HeadTailProperties
    <3> QED
      BY <2>2, <3>2, FlattenType DEF Strings
  <2>4. FlattenSeq(tgot)' = a \o x
    BY <2>1, <2>2, <2>3, FlattenAppend
  <2>5. Begins(TargetGets', Tokens(upSent))
    <3>1. PICK m \in Seq(Frame) : UpHeld(m)'
      BY DEF UpInv
    <3>2. Begins(TargetGets', UpStream')
      BY <3>1 DEF UpHeld
    <3>3. PortCells(req) = << >>
      BY DEF ReqInv, PortCells
    <3>4. UpStream' = << >> \o Tokens(upSent)
      BY <1>1, <3>3 DEF UpStream
    <3>5. << >> \o Tokens(upSent) = Tokens(upSent)
      BY <2>2, TokensGrow, ConcatEmptySeq
    <3> QED
      BY <3>2, <3>4, <3>5
  <2>6. Begins(a \o x, Tokens(upSent))
    <3>1. /\ (tgot \in Seq(Seq(Cell)))' /\ (r2t \in Seq(Seq(Cell)))'
      BY SameWords DEF BaseInv, TypeInv, Remote!DataType, Remote!TargetTypeOK
    <3>2. /\ TargetGets' = FlattenSeq(tgot') \o FlattenSeq(r2t')
          /\ FlattenSeq(r2t') \in Seq(Cell)
      BY <3>1, FlattenConcat, FlattenType DEF TargetGets
    <3>3. Begins((a \o x) \o FlattenSeq(r2t'), Tokens(upSent))
      BY <2>4, <2>5, <3>2
    <3>4. a \o x \in Seq(Cell)
      BY <2>3, ConcatProperties
    <3> HIDE DEF a, x
    <3> QED
      BY <3>2, <3>3, <3>4, BeginsShorter
  <2>7. a \o x = a \/ Service!Extends(a, a \o x, upSent)
    <3> HIDE DEF a, x
    <3> QED
      BY <2>2, <2>3, <2>6, Delivers
  <2>8. CASE a \o x = a
    BY <1>1, <1>2, <2>1, <2>4, <2>8 DEF Service!vars
  <2>9. CASE Service!Extends(a, a \o x, upSent)
    <3>1. Service!Extends(FlattenSeq(tgot), FlattenSeq(tgot)', upSent)
      BY <2>4, <2>9
    <3> QED
      BY <1>1, <1>2, <2>1, <3>1 DEF Service!Next, Service!DeliverUp
  <2> QED
    BY <2>7, <2>8, <2>9
<1>5. CASE TargetCloses \/ TargetResets
  <2>1. UNCHANGED << tgot, downSent >> /\ target # "new" /\ target' # "new"
    BY <1>5 DEF TargetCloses, TargetResets
  <2> QED
    BY <1>1, <2>1, Stutters
<1> QED
  BY <1>3, <1>4, <1>5 DEF TargetStep, TargetNext

(* And the browser.                                                        *)
LEMMA BrowserServes ==
  ASSUME BaseInv, BaseInv', DownInv', BrowserStep
  PROVE  [Service!Next]_(Service!vars)
<1>1. UNCHANGED << tgot, downSent, target >>
  BY DEF BrowserStep, service
<1>2. /\ got \in Seq(Seq(Cell)) /\ l2b \in Seq(Seq(Cell)) /\ downSent \in Nat
      /\ (got \in Seq(Seq(Cell)))' /\ (l2b \in Seq(Seq(Cell)))'
  BY SameWords DEF BaseInv, TypeInv, Local!DataType, Local!BrowserTypeOK,
     Remote!DataType, Remote!TargetTypeOK
<1>3. FlattenSeq(tgot)' = FlattenSeq(tgot)
  BY <1>1
<1>4. Spoken(got \o l2b) /\ (Len(got \o l2b) >= 2 => target # "new")
  BY ChunksAreSpoken
<1>5. /\ Replied(got) <=> Len(got) >= 2
      /\ Len(got) <= 2 => PayloadOf(got) = << >>
  BY <1>2, <1>4, RepliedIs
<1>6. CASE SendData
  <2>1. Len(got) >= 2 /\ upSent' = upSent + 1 /\ got' = got
    BY <1>6 DEF SendData
  <2>2. Replied(got)' = Replied(got) /\ PayloadOf(got)' = PayloadOf(got)
    BY <2>1 DEF Replied, PayloadOf
  <2> QED
    BY <1>1, <1>3, <1>5, <2>1, <2>2 DEF Service!Next, Service!SendUp
<1>7. CASE BrowserReceives
  <2> DEFINE h == Head(l2b)
             rest == Tail(l2b)
             after == Append(got, h)
  <2>1. l2b # << >> /\ got' = after /\ l2b' = rest /\ upSent' = upSent
    BY <1>7 DEF BrowserReceives
  <2>2. h \in Seq(Cell) /\ rest \in Seq(Seq(Cell)) /\ after \in Seq(Seq(Cell))
    <3> DEFINE Strings == Seq(Cell)
    <3>1. l2b \in Seq(Strings)
      BY <1>2
    <3> HIDE DEF Strings
    <3>2. Head(l2b) \in Strings
      BY <2>1, <3>1, HeadTailProperties
    <3> QED
      BY <1>2, <2>1, <3>2 DEF Strings
  <2>3. after \o rest = got \o l2b
    BY <1>2, <2>1, ChunksReceived
  <2>4. /\ Replied(after) <=> Len(after) >= 2
        /\ Len(after) <= 2 => PayloadOf(after) = << >>
    <3>1. Spoken(after \o rest)
      BY <1>4, <2>3
    <3> HIDE DEF after, rest
    <3> QED
      BY <2>2, <3>1, RepliedIs
  <2>5. Len(got) \in Nat /\ Len(after) = Len(got) + 1
    BY <1>2, <2>2, LenProperties, AppendProperties
  <2>6. (Replied(got)' <=> Replied(after)) /\ PayloadOf(got)' = PayloadOf(after)
    BY <2>1 DEF Replied, PayloadOf
  <2>7. PayloadOf(after) = PayloadOf(got) \o Payload(h)
    <3>1. FlattenSeq(after) = FlattenSeq(got) \o h /\ FlattenSeq(got) \in Seq(Cell)
      BY <1>2, <2>2, FlattenAppend, FlattenType
    <3>2. Payload(FlattenSeq(got) \o h) = Payload(FlattenSeq(got)) \o Payload(h)
      BY <2>2, <3>1, PayloadAdds
    <3> QED
      BY <3>1, <3>2 DEF PayloadOf
  <2>8. PayloadOf(got) \in Seq(Cell) /\ Payload(h) \in Seq(Cell)
    <3>1. FlattenSeq(got) \in Seq(Cell)
      BY <1>2, FlattenType
    <3> QED
      BY <2>2, <3>1, PayloadAdds DEF PayloadOf
  <2> HIDE DEF after, rest, h
  <2>9. CASE Len(got) < 2
    <3>1. PayloadOf(after) = PayloadOf(got)
      BY <1>5, <2>4, <2>5, <2>9
    <3>2. ~ Replied(got)
      BY <1>5, <2>5, <2>9
    <3>3. CASE Len(got) = 0
      <4>1. ~ Replied(after)
        BY <2>4, <2>5, <3>3
      <4>2. Replied(got)' = Replied(got)
        BY <2>6, <3>2, <4>1 DEF Replied
      <4> QED
        BY <1>1, <1>3, <2>1, <2>6, <3>1, <4>2 DEF Service!vars
    <3>4. CASE Len(got) = 1
      <4>1. Replied(after)
        BY <2>4, <2>5, <3>4
      <4>2. Replied(got)' = TRUE
        BY <2>6, <4>1 DEF Replied
      <4>3. target # "new"
        <5>1. l2b \in Seq(Seq(Cell)) /\ Len(l2b) \in Nat /\ Len(l2b) # 0
          BY <1>2, <2>1, LenProperties, EmptySeq
        <5>2. Len(got \o l2b) = Len(got) + Len(l2b)
          BY <1>2, ConcatProperties
        <5> QED
          BY <1>4, <3>4, <5>1, <5>2
      <4> QED
        BY <1>1, <1>3, <2>1, <2>6, <3>1, <3>2, <4>2, <4>3
           DEF Service!Next, Service!Tell
    <3>5. Len(got) = 0 \/ Len(got) = 1
      <4>1. \A k \in Nat : k < 2 => k = 0 \/ k = 1
        OBVIOUS
      <4> QED
        BY <2>5, <2>9, <4>1
    <3> QED
      BY <3>3, <3>4, <3>5, Zenon
  <2>10. CASE Len(got) >= 2
    <3>1. Replied(got) /\ Replied(after)
      BY <1>5, <2>4, <2>5, <2>10
    <3>2. Replied(got)' = Replied(got)
      BY <2>6, <3>1 DEF Replied
    <3>3. Begins(PayloadOf(got) \o Payload(h), Tokens(downSent))
      <4>1. Begins(DownGets', Tokens(downSent))
        <5>1. PICK m \in Seq(Frame) : DownHeld(m)'
          BY DEF DownInv
        <5> QED
          BY <1>1, <5>1 DEF DownHeld
      <4>2. FlattenSeq(after \o rest) = FlattenSeq(after) \o FlattenSeq(rest)
            /\ FlattenSeq(after) \in Seq(Cell) /\ FlattenSeq(rest) \in Seq(Cell)
        BY <2>2, FlattenConcat, FlattenType
      <4>3. Payload(FlattenSeq(after) \o FlattenSeq(rest))
              = Payload(FlattenSeq(after)) \o Payload(FlattenSeq(rest))
            /\ Payload(FlattenSeq(rest)) \in Seq(Cell)
        BY <4>2, PayloadAdds
      <4>4. DownGets' = PayloadOf(after) \o Payload(FlattenSeq(rest))
        BY <2>1, <4>2, <4>3 DEF DownGets, PayloadOf
      <4>5. PayloadOf(after) \in Seq(Cell)
        BY <4>2, PayloadAdds DEF PayloadOf
      <4>6. Begins(PayloadOf(after), Tokens(downSent))
        BY <4>1, <4>3, <4>4, <4>5, BeginsShorter
      <4> QED
        BY <2>7, <4>6
    <3>4. PayloadOf(after) = PayloadOf(got)
          \/ Service!Extends(PayloadOf(got), PayloadOf(after), downSent)
      BY <1>2, <2>7, <2>8, <3>3, Delivers
    <3>5. CASE PayloadOf(after) = PayloadOf(got)
      BY <1>1, <1>3, <2>1, <2>6, <3>2, <3>5 DEF Service!vars
    <3>6. CASE Service!Extends(PayloadOf(got), PayloadOf(after), downSent)
      <4>1. Service!Extends(PayloadOf(got), PayloadOf(got)', downSent)
        BY <2>6, <3>6
      <4> QED
        BY <1>1, <1>3, <2>1, <3>1, <3>2, <4>1 DEF Service!Next, Service!DeliverDown
    <3> QED
      BY <3>4, <3>5, <3>6
  <2> QED
    BY <2>5, <2>9, <2>10
<1>8. CASE ~ SendData /\ ~ BrowserReceives
  <2>1. UNCHANGED << got, upSent >>
    BY <1>8 DEF BrowserStep, BrowserNext, Greet, Request, BrowserCloses, BrowserResets
  <2> QED
    BY <1>1, <2>1, Stutters
<1> QED
  BY <1>6, <1>7, <1>8

LEMMA StartsToServe == Init => Service!Init /\ ReqInv
<1> SUFFICES ASSUME Init PROVE Service!Init /\ ReqInv
  OBVIOUS
<1>1. /\ got = << >> /\ tgot = << >> /\ target = "new" /\ upSent = 0 /\ downSent = 0
      /\ req = 0
  BY DEF Init, BrowserInit, LocalInit, TargetInit
<1>2. FlattenSeq(tgot) = << >> /\ PayloadOf(got) = << >>
  BY <1>1, FlattenEmpty, ShortStreams DEF PayloadOf
<1>3. Replied(got) = FALSE
  BY <1>1 DEF Replied
<1> QED
  BY <1>1, <1>2, <1>3 DEF Service!Init, ReqInv

(* UpIntact: the target receives the data of the browser in order, and     *)
(* nothing else, for the requests whose length tun_local counts right.     *)
THEOREM UpIntactHolds == ASSUME ReqKinds \subseteq {0, 3} PROVE Spec => []UpIntact
<1>1. Init => BaseInv /\ UpInv /\ ReqInv
  BY StartsInBase, StartsInUp, StartsToServe
<1>2. BaseInv /\ UpInv /\ ReqInv /\ [Next]_vars => (BaseInv /\ UpInv /\ ReqInv)'
  BY StepsKeepBase, StepsKeepUp, StepsKeepReq
<1>3. BaseInv /\ UpInv /\ ReqInv => UpIntact
  <2> SUFFICES ASSUME BaseInv, UpInv, ReqInv PROVE UpIntact
    OBVIOUS
  <2>1. /\ tgot \in Seq(Seq(Cell)) /\ r2t \in Seq(Seq(Cell)) /\ upSent \in Nat
        /\ Tokens(upSent) \in Seq(Cell)
    BY UpTypes DEF BaseInv
  <2>2. PortCells(req) = << >>
    BY DEF ReqInv, PortCells
  <2>3. UpStream = Tokens(upSent)
    BY <2>1, <2>2, ConcatEmptySeq DEF UpStream
  <2>4. /\ TargetGets = FlattenSeq(tgot) \o FlattenSeq(r2t)
        /\ FlattenSeq(tgot) \in Seq(Cell) /\ FlattenSeq(r2t) \in Seq(Cell)
    BY <2>1, FlattenConcat, FlattenType DEF TargetGets
  <2>5. Begins(FlattenSeq(tgot) \o FlattenSeq(r2t), Tokens(upSent))
    <3>1. PICK m \in Seq(Frame) : UpHeld(m)
      BY DEF UpInv
    <3> QED
      BY <2>3, <2>4, <3>1 DEF UpHeld
  <2>6. Begins(FlattenSeq(tgot), Tokens(upSent))
    BY <2>4, <2>5, BeginsShorter
  <2> QED
    BY <2>1, <2>4, <2>6, BeginsIsPrefix DEF UpIntact
<1> QED
  BY <1>1, <1>2, <1>3, PTL DEF Spec

(* ImplementsService: the two sessions, with everything in between, are    *)
(* the tunnel that TunnelService promises, for requests of a host name     *)
(* (the others lose their port to the target, Sockv5Def.cpp:38-54) and an  *)
(* answer of tun_remote that arrives in one piece (Session.cpp:174-178).   *)
THEOREM ImplementsServiceHolds ==
  ASSUME ReqKinds \subseteq {0, 3}, RspCut = FALSE
  PROVE  Spec => ImplementsService
<1> DEFINE Inv == BaseInv /\ UpInv /\ DownInv /\ ReqInv
<1>1. Init => Inv /\ Service!Init
  BY StartsInBase, StartsInUp, StartsInDown, StartsToServe
<1>2. Inv /\ [Next]_vars => Inv'
  BY StepsKeepBase, StepsKeepUp, StepsKeepDown, StepsKeepReq
<1>3. Inv /\ Inv' /\ [Next]_vars => [Service!Next]_(Service!vars)
  <2> SUFFICES ASSUME Inv, Inv', [Next]_vars PROVE [Service!Next]_(Service!vars)
    OBVIOUS
  <2>1. CASE \/ OnLocal(LocalNext) \/ OnRemote(R!RemoteNext)
             \/ LocalDies \/ RemoteDies \/ UNCHANGED vars
    BY <2>1, SessionsServe
  <2>2. CASE TargetStep
    BY <2>2, TargetServes
  <2>3. CASE BrowserStep
    BY <2>3, BrowserServes
  <2> QED
    BY <2>1, <2>2, <2>3 DEF Next
<1> QED
  BY <1>1, <1>2, <1>3, PTL DEF Spec, ImplementsService, Service!Spec
=============================================================================
