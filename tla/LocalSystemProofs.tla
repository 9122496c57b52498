------------------------- MODULE LocalSystemProofs --------------------------
(***************************************************************************)
(* Proofs about one Session between any browser and any server             *)
(* (LocalSystem), for all values of the constants: the control, by the     *)
(* phases of WireLemmas, the types, what the browser is told, and          *)
(* the two streams.                                                        *)
(***************************************************************************)
EXTENDS LocalSystem, WireLemmas

(* The set-up handlers that run before the link is connected.              *)
Asking == {"handleReadHandShake", "handleWriteHandShake",
           "handleReadSockv5Req", "handleConnectToRemote"}

ControlInv == Phases(Setup, Asking, UpPipe, DownPipe)

LEMMA HandlersApart == Apart(Setup, Asking, UpPipe, DownPipe)
BY DEF Apart, Setup, Asking, UpPipe, DownPipe, ReadAgain

(* Every handler of the session keeps the control invariant.               *)
LEMMA HandlersKeepControl == ControlInv /\ LocalNext => ControlInv'
<1> SUFFICES ASSUME ControlInv, LocalNext PROVE ControlInv'
  OBVIOUS
<1> USE HandlersApart DEF ControlInv
<1>1. CASE handleReadHandShake
  BY <1>1, SetupStarts, SetupReturns, Throws
     DEF Setup, Asking, UpPipe, DownPipe, ReadAgain,
         handleReadHandShake, ReadFromBrowser, BrowserFails, BrowserReset, Runs, Fails
<1>2. CASE handleWriteHandShake
  BY <1>2, SetupStarts, Throws
     DEF Setup, Asking, UpPipe, DownPipe, ReadAgain,
         handleWriteHandShake, Written, BrowserFails, BrowserReset, Runs, Fails
<1>3. CASE handleReadSockv5Req
  BY <1>3, SetupStarts, SetupReturns, Throws
     DEF Setup, Asking, UpPipe, DownPipe, ReadAgain,
         handleReadSockv5Req, ReadFromBrowser, BrowserFails, BrowserReset, Runs, Fails
<1>4. CASE handleConnectToRemote
  BY <1>4, LinkConnects, SetupReturns
     DEF Setup, Asking, handleConnectToRemote
<1>5. CASE handleReadAuthRspFromRemote
  BY <1>5, SetupStarts, SetupReturns
     DEF Setup, Asking, UpPipe, DownPipe, ReadAgain,
         handleReadAuthRspFromRemote, Written, RemoteFails, Runs, Fails
<1>6. CASE handleReadAuthRspFromRemoteRead
  BY <1>6, SetupStarts, SetupReturns
     DEF Setup, Asking, UpPipe, DownPipe, ReadAgain,
         handleReadAuthRspFromRemoteRead, ReadFromRemote, RemoteFails, Runs, Fails
<1>7. CASE handleWriteSockv5RspToBrowser
  BY <1>7, SetupStarts, ShutsDown, Throws
     DEF Setup, Asking, UpPipe, DownPipe, ReadAgain,
         handleWriteSockv5RspToBrowser, ReadFromRemote, RemoteFails, Runs, Fails
<1>8. CASE handleBeginPipeTransfer
  BY <1>8, PipeStarts, SetupReturns
     DEF Setup, Asking, UpPipe, DownPipe, ReadAgain,
         handleBeginPipeTransfer, Written, BrowserFails, Runs, Fails
<1>9. CASE handleReadDataFromBrowser
  BY <1>9, PipeGoesOn, ShutsDown
     DEF Setup, Asking, UpPipe, DownPipe, ReadAgain,
         handleReadDataFromBrowser, ReadFromBrowser, BrowserFails, Runs, Fails
<1>10. CASE handleWriteDataToRemote
  BY <1>10, PipeGoesOn, ShutsDown
     DEF Setup, Asking, UpPipe, DownPipe, ReadAgain,
         handleWriteDataToRemote, Written, RemoteFails, Runs, Fails
<1>11. CASE handleReadDataFromRemote
  BY <1>11, PipeGoesOn, ShutsDown, Throws
     DEF Setup, Asking, UpPipe, DownPipe, ReadAgain,
         handleReadDataFromRemote, ReadFromRemote, RemoteFails, Runs, Fails
<1>12. CASE handleWriteDataToBrowser
  BY <1>12, PipeGoesOn, ShutsDown
     DEF Setup, Asking, UpPipe, DownPipe, ReadAgain,
         handleWriteDataToBrowser, Written, BrowserFails, Runs, Fails
<1> QED
  BY <1>1, <1>2, <1>3, <1>4, <1>5, <1>6, <1>7, <1>8, <1>9, <1>10, <1>11, <1>12
     DEF LocalNext

(* The browser and the server do not touch the session.                    *)
LEMMA OthersKeepControl ==
  ASSUME ControlInv, BrowserStep \/ PeerStep \/ UNCHANGED vars
  PROVE  ControlInv'
<1>1. UNCHANGED control
  BY DEF BrowserStep, PeerStep, PeerAccepts, PeerSends, PeerReads, PeerCloses,
         vars, session
<1> QED
  BY <1>1, PhasesStutter DEF ControlInv

(* A Session is always in one of its phases: set-up, pipe, closing, gone.  *)
THEOREM ControlCorrect == Spec => []ControlInv
<1>1. Init => ControlInv
  BY DEF Init, LocalInit, ControlInv, Phases, SettingUp, Setup, Asking
<1>2. ControlInv /\ [Next]_vars => ControlInv'
  BY HandlersKeepControl, OthersKeepControl DEF Next, Handler
<1> QED
  BY <1>1, <1>2, PTL DEF Spec

(* NoOverlap: in Session.cpp no two operations of one direction, which     *)
(* share a buffer and a socket, are ever in progress together, whatever    *)
(* the browser and the server do.                                          *)
THEOREM NoOverlapHolds == Spec => []NoOverlap
<1>1. ControlInv => NoOverlap
  BY HandlersApart, PhasesNoOverlap DEF ControlInv, NoOverlap
<1> QED
  BY <1>1, ControlCorrect, PTL

(* NoDeadDirection: every handler of Session that leaves the sockets open  *)
(* leaves an operation in each direction, or the one of the set-up.        *)
THEOREM NoDeadDirectionHolds == Spec => []NoDeadDirection
<1>1. ControlInv => NoDeadDirection
  BY PhasesNoDeadDirection DEF ControlInv, NoDeadDirection
<1> QED
  BY <1>1, ControlCorrect, PTL

-----------------------------------------------------------------------------
(* Type correctness.  The control variables have their types by            *)
(* ControlInv; these are the others.                                       *)
DataType ==
  /\ BrowserTypeOK
  /\ peer \in Ends
  /\ tmpB \in Seq(Cell) /\ tmpR \in Seq(Piece)
  /\ req \in Nat
  /\ l2r \in Seq(Piece) /\ r2l \in Seq(Piece)
  /\ peerSent \in Seq(Frame) /\ peerGot \in Seq(Piece)

LEMMA ControlType ==
  ASSUME ControlInv
  PROVE  /\ pend \in SUBSET Ops /\ queued \in SUBSET Ops
         /\ sock \in Ends /\ rsock \in Ends
         /\ terminated \in BOOLEAN
<1>1. /\ pend \subseteq Setup \cup UpPipe \cup DownPipe /\ queued \subseteq pend
      /\ sock \in Ends /\ rsock \in Ends /\ terminated \in BOOLEAN
  BY PhasesType DEF ControlInv
<1>2. Setup \cup UpPipe \cup DownPipe \subseteq Ops
  BY DEF Setup, UpPipe, DownPipe, Ops, BrowserReads, BrowserWrites, RemoteReads,
         RemoteWrites
<1> QED
  BY <1>1, <1>2

(* The first message of a buffer and what is behind it.                    *)
LEMMA FirstMessageType ==
  ASSUME NEW buf \in Seq(Cell), MsgLen(buf) > 0
  PROVE  buf[1].v \in Nat /\ Behind(buf) \in Seq(Cell)
<1>1. Len(buf) \in Nat /\ Len(buf) >= 2 /\ MsgLen(buf) = 2
  BY LenProperties DEF MsgLen
<1>2. buf[1] \in Cell
  BY <1>1, ElementOfSeq
<1>3. Behind(buf) \in Seq(Cell)
  BY <1>1, RestType DEF Behind
<1> QED
  BY <1>2, <1>3 DEF Cell

LEMMA HandshakeKeepsType ==
  ASSUME DataType, handleReadHandShake, UNCHANGED << peerSent, peerGot >>
  PROVE  DataType'
<1> USE DEF DataType, BrowserTypeOK, Link, Dialogue
<1>1. ASSUME NEW k \in 1 .. Len(b2l),
             b2l' = SubSeq(b2l, k + 1, Len(b2l))
      PROVE  /\ b2l' \in Seq(Cell)
             /\ tmpB \o SubSeq(b2l, 1, k) \in Seq(Cell)
  BY <1>1, CutType, BufferType
<1>2. Append(l2b, << C("greetrsp", 0) >>) \in Seq(Seq(Cell))
  BY CellType, SingletonType, AppendProperties DEF CellTypes
<1>3. CASE UNCHANGED << b2l, l2b, tmpB >>
  BY <1>3 DEF handleReadHandShake
<1>4. CASE ~ UNCHANGED << b2l, l2b, tmpB >>
  BY <1>1, <1>2, <1>4, FirstMessageType DEF handleReadHandShake, ReadFromBrowser
<1> QED
  BY <1>3, <1>4

LEMMA RequestKeepsType ==
  ASSUME DataType, handleReadSockv5Req, UNCHANGED << peerSent, peerGot >>
  PROVE  DataType'
<1> USE DEF DataType, BrowserTypeOK, Link, Dialogue
<1>1. ASSUME NEW k \in 1 .. Len(b2l),
             b2l' = SubSeq(b2l, k + 1, Len(b2l))
      PROVE  /\ b2l' \in Seq(Cell)
             /\ tmpB \o SubSeq(b2l, 1, k) \in Seq(Cell)
  BY <1>1, CutType, BufferType
<1>2. CASE UNCHANGED << b2l, tmpB, req >>
  BY <1>2 DEF handleReadSockv5Req
<1>3. CASE ~ UNCHANGED << b2l, tmpB, req >>
  BY <1>1, <1>3, FirstMessageType DEF handleReadSockv5Req, ReadFromBrowser
<1> QED
  BY <1>2, <1>3

LEMMA ConnectKeepsType ==
  ASSUME DataType, handleConnectToRemote, UNCHANGED << peerSent, peerGot >>
  PROVE  DataType'
<1> USE DEF DataType, BrowserTypeOK, Dialogue
<1>1. << C("connreq", req) >> \in Seq(Cell)
  BY CellType, SingletonType DEF CellTypes
<1>2. l2r \o Encoded(ConnectMsg(<< C("connreq", req) >>)) \in Seq(Piece)
  BY <1>1, FrameType, EncodedType, ConcatProperties
<1> QED
  BY <1>2 DEF handleConnectToRemote

LEMMA ResponseKeepsType ==
  ASSUME DataType,
         handleReadAuthRspFromRemoteRead \/ handleWriteSockv5RspToBrowser,
         UNCHANGED << peerSent, peerGot >>
  PROVE  DataType'
<1> USE DEF DataType, BrowserTypeOK, Dialogue, Link
<1>1. ASSUME NEW k \in 1 .. Len(r2l),
             r2l' = SubSeq(r2l, k + 1, Len(r2l))
      PROVE  /\ r2l' \in Seq(Piece)
             /\ tmpR \o SubSeq(r2l, 1, k) \in Seq(Piece)
             /\ After(tmpR \o SubSeq(r2l, 1, k), 1) \in Seq(Piece)
  BY <1>1, CutType, BufferType, AfterType
<1>2. CASE handleReadAuthRspFromRemoteRead
  BY <1>1, <1>2 DEF handleReadAuthRspFromRemoteRead, ReadFromRemote
<1>3. CASE handleWriteSockv5RspToBrowser
  <2>1. << C("reply", req) >> \in Seq(Cell)
    BY CellType, SingletonType DEF CellTypes
  <2>2. Sent(sock, l2b, << << C("reply", req) >> >>) \in Seq(Seq(Cell))
    BY <2>1, SingletonType, SentType
  <2>3. UNCHANGED << Dialogue, b2l, tmpB, req, l2r, peer >>
    BY <1>3 DEF handleWriteSockv5RspToBrowser
  <2>4. CASE UNCHANGED << r2l, l2b, tmpR >>
    BY <2>3, <2>4
  <2>5. ASSUME NEW k \in 1 .. Len(r2l),
               r2l' = SubSeq(r2l, k + 1, Len(r2l)),
               tmpR' \in { tmpR, tmpR \o SubSeq(r2l, 1, k),
                           After(tmpR \o SubSeq(r2l, 1, k), 1) },
               l2b' \in { l2b, Sent(sock, l2b, << << C("reply", req) >> >>) }
        PROVE  DataType'
    BY <1>1, <2>2, <2>3, <2>5
  <2> QED
    BY <1>3, <2>4, <2>5 DEF handleWriteSockv5RspToBrowser, ReadFromRemote
<1> QED
  BY <1>2, <1>3

LEMMA FromBrowserKeepsType ==
  ASSUME DataType, handleReadDataFromBrowser, UNCHANGED << peerSent, peerGot >>
  PROVE  DataType'
<1> USE DEF DataType, BrowserTypeOK, Dialogue
<1>1. ASSUME NEW k \in 1 .. Len(b2l),
             b2l' = SubSeq(b2l, k + 1, Len(b2l))
      PROVE  /\ b2l' \in Seq(Cell)
             /\ tmpB \o SubSeq(b2l, 1, k) \in Seq(Cell)
             /\ Sent(rsock, l2r, Encoded(DataMsg(tmpB \o SubSeq(b2l, 1, k))))
                  \in Seq(Piece)
  BY <1>1, CutType, BufferType, FrameType, EncodedType, SentType
<1> QED
  BY <1>1 DEF handleReadDataFromBrowser, ReadFromBrowser

(* What a drain loop takes off the buffer counts.                          *)
LEMMA ExtractsCounts ==
  ASSUME DataType, NEW k \in 1 .. Len(r2l), NEW len,
         NEW n \in Extracts(tmpR \o SubSeq(r2l, 1, k), len)
  PROVE  n \in Counts(tmpR \o SubSeq(r2l, 1, k))
<1> DEFINE buf == tmpR \o SubSeq(r2l, 1, k)
<1>1. buf \in Seq(Piece)
  BY BufferType DEF DataType
<1> HIDE DEF buf
<1>2. n \in Extracts(buf, len)
  BY DEF buf
<1>3. n \in Nat /\ 2 * n <= Len(buf)
  BY <1>1, <1>2, ExtractsType
<1>4. n \in Counts(buf)
  BY <1>3 DEF Counts
<1> QED
  BY <1>4 DEF buf

LEMMA DataBodiesType ==
  ASSUME NEW buf \in Seq(Piece), NEW n \in Counts(buf)
  PROVE  DataBodies(buf, n) \in Seq(Seq(Cell))
<1>1. n \in Nat /\ 2 * n <= Len(buf) /\ Len(buf) \in Nat
  BY LenProperties DEF Counts
<1>2. ASSUME NEW i \in 1 .. n
      PROVE  (IF Msg(buf, i).sub = 2 THEN Msg(buf, i).body ELSE << >>) \in Seq(Cell)
  <2>1. i \in Nat \ {0} /\ 2 * i <= Len(buf)
    BY <1>1
  <2> QED
    BY <2>1, MsgType
<1> QED
  BY <1>1, <1>2 DEF DataBodies

LEMMA FromRemoteKeepsType ==
  ASSUME DataType, handleReadDataFromRemote, UNCHANGED << peerSent, peerGot >>
  PROVE  DataType'
<1> USE DEF DataType, BrowserTypeOK, Dialogue
<1>1. UNCHANGED << Dialogue, b2l, tmpB, req, l2r, peer >>
  BY DEF handleReadDataFromRemote
<1>2. CASE UNCHANGED << r2l, l2b, tmpR >>
  BY <1>1, <1>2
<1>3. ASSUME NEW k \in 1 .. Len(r2l),
             r2l' = SubSeq(r2l, k + 1, Len(r2l)),
             \/ /\ tmpR' \in { tmpR, tmpR \o SubSeq(r2l, 1, k) }
                /\ l2b' = l2b
             \/ /\ \E n \in Nat : tmpR' = After(tmpR \o SubSeq(r2l, 1, k), n)
                /\ \/ l2b' = l2b
                   \/ \E n \in Counts(tmpR \o SubSeq(r2l, 1, k)) :
                        l2b' = Sent(sock, l2b, DataBodies(tmpR \o SubSeq(r2l, 1, k), n))
      PROVE  DataType'
  <2>1. /\ r2l' \in Seq(Piece)
        /\ tmpR \o SubSeq(r2l, 1, k) \in Seq(Piece)
    BY <1>3, CutType, BufferType
  <2>2. \A i \in Nat : After(tmpR \o SubSeq(r2l, 1, k), i) \in Seq(Piece)
    BY <2>1, AfterType
  <2>3. \A n \in Counts(tmpR \o SubSeq(r2l, 1, k)) :
          Sent(sock, l2b, DataBodies(tmpR \o SubSeq(r2l, 1, k), n)) \in Seq(Seq(Cell))
    BY <2>1, DataBodiesType, SentType
  <2>4. tmpR' \in Seq(Piece) /\ l2b' \in Seq(Seq(Cell))
    BY <1>3, <2>1, <2>2, <2>3
  <2> QED
    BY <1>1, <2>1, <2>4
<1>4. ASSUME NEW k \in 1 .. Len(r2l), NEW len,
             NEW n \in Extracts(tmpR \o SubSeq(r2l, 1, k), len)
      PROVE  n \in Counts(tmpR \o SubSeq(r2l, 1, k)) /\ n \in Nat /\ n + 1 \in Nat
  BY <1>4, ExtractsCounts DEF Counts
<1>5. CASE handleReadDataFromRemote /\ ~ UNCHANGED << r2l, l2b, tmpR >>
  <2>1. PICK k \in 1 .. Len(r2l) :
          /\ r2l' = SubSeq(r2l, k + 1, Len(r2l))
          /\ \/ tmpR' \in { tmpR, tmpR \o SubSeq(r2l, 1, k) } /\ l2b' = l2b
             \/ \E n \in Extracts(tmpR \o SubSeq(r2l, 1, k), 0) :
                  /\ tmpR' = After(tmpR \o SubSeq(r2l, 1, k), n)
                  /\ l2b' = Sent(sock, l2b, DataBodies(tmpR \o SubSeq(r2l, 1, k), n))
             \/ \E n \in Extracts(tmpR \o SubSeq(r2l, 1, k), 2) :
                  /\ tmpR' = After(tmpR \o SubSeq(r2l, 1, k), n + 1)
                  /\ l2b' = l2b
    BY <1>5 DEF handleReadDataFromRemote, ReadFromRemote
  <2> QED
    BY <1>3, <1>4, <2>1
<1> QED
  BY <1>2, <1>5

(* The handlers that only complete a write leave the data alone, but for   *)
(* the buffer handleWriteDataToRemote clears.                              *)
LEMMA WritesKeepType ==
  ASSUME DataType, UNCHANGED << peerSent, peerGot >>,
         \/ handleWriteHandShake \/ handleReadAuthRspFromRemote
         \/ handleBeginPipeTransfer \/ handleWriteDataToRemote
         \/ handleWriteDataToBrowser
  PROVE  DataType'
<1>1. UNCHANGED << Link, Dialogue, b2l, l2b, tmpR, req >>
  BY DEF handleWriteHandShake, handleReadAuthRspFromRemote,
         handleBeginPipeTransfer, handleWriteDataToRemote, handleWriteDataToBrowser
<1>2. tmpB' = tmpB \/ tmpB' = << >>
  BY DEF handleWriteHandShake, handleReadAuthRspFromRemote,
         handleBeginPipeTransfer, handleWriteDataToRemote, handleWriteDataToBrowser
<1>3. tmpB' \in Seq(Cell)
  BY <1>2, EmptySeq DEF DataType
<1>4. UNCHANGED << b2l, l2b, browser, asked, got, upSent, tmpR, req, l2r, r2l, peer >>
  BY <1>1 DEF Link, Dialogue
<1> QED
  BY <1>3, <1>4 DEF DataType, BrowserTypeOK, Link, Dialogue

(* The cells the browser sends.                                            *)
LEMMA BrowserCellsType ==
  /\ \A g \in GreetKinds : GreetCells(g) \in Seq(Cell)
  /\ \A a \in ReqKinds : ReqCells(a) \in Seq(Cell)
<1>1. \A type \in CellTypes, val \in Nat : C(type, val) \in Cell
  BY CellType
<1>2. ASSUME NEW g \in GreetKinds PROVE GreetCells(g) \in Seq(Cell)
  <2>1. C("greet", g) \in Cell
    BY <1>1, BrowserAssumption DEF CellTypes
  <2> QED
    BY <2>1 DEF GreetCells
<1>3. ASSUME NEW a \in ReqKinds PROVE ReqCells(a) \in Seq(Cell)
  <2>1. a \in Nat
    BY BrowserAssumption
  <2>2. C("req", a) \in Cell /\ C("port", a) \in Cell
    BY <1>1, <2>1 DEF CellTypes
  <2>3. << C("req", a), C("req", a) >> \in Seq(Cell)
    BY <2>2
  <2>4. (IF a \in {0, 3} THEN << >> ELSE << C("port", a) >>) \in Seq(Cell)
    BY <2>2
  <2> QED
    BY <2>3, <2>4, ConcatProperties DEF ReqCells, PortCells
<1> QED
  BY <1>2, <1>3

LEMMA BrowserKeepsType ==
  ASSUME DataType, BrowserStep
  PROVE  DataType'
<1> USE DEF DataType, BrowserTypeOK, Link, session
<1>1. UNCHANGED << session, Link, peerSent, peerGot >>
  BY DEF BrowserStep
<1>2. ASSUME NEW g \in GreetKinds, Greet(g) PROVE DataType'
  BY <1>1, <1>2, BrowserCellsType, ConcatProperties DEF Greet
<1>3. ASSUME NEW a \in ReqKinds, Request(a) PROVE DataType'
  BY <1>1, <1>3, BrowserCellsType, ConcatProperties DEF Request
<1>4. CASE SendData
  <2>1. C("data", upSent + 1) \in Cell
    BY CellType DEF CellTypes
  <2> QED
    BY <1>1, <1>4, <2>1, AppendProperties DEF SendData
<1>5. CASE BrowserReceives
  BY <1>1, <1>5, HeadTailProperties, AppendProperties DEF BrowserReceives
<1>6. CASE BrowserCloses \/ BrowserResets
  BY <1>1, <1>6 DEF BrowserCloses, BrowserResets
<1> QED
  BY <1>2, <1>3, <1>4, <1>5, <1>6 DEF BrowserStep, BrowserNext

LEMMA PeerMsgType ==
  ASSUME DataType, NEW kind \in PeerKinds
  PROVE  PeerMsg(kind) \in Frame
<1>1. Len(peerSent) + 1 \in Nat
  BY LenProperties DEF DataType
<1>2. \A type \in CellTypes, val \in Nat : << C(type, val) >> \in Seq(Cell)
  BY CellType, SingletonType
<1>3. /\ ConnectMsg(<< C("connrsp", 0) >>) \in Frame
      /\ ConnectMsg(<< C("connrsp", 1) >>) \in Frame
      /\ ConnectMsg(<< C("data", 0) >>) \in Frame
      /\ DataMsg(<< C("data", Len(peerSent) + 1) >>) \in Frame
  BY <1>1, <1>2, FrameType DEF CellTypes
<1>4. [DataMsg(<< C("data", 0) >>) EXCEPT !.ok = FALSE] \in Frame
  BY <1>2, FrameType DEF CellTypes, DataMsg, Frame
<1>5. kind \in {"accept", "refuse", "corrupt", "other", "data", "foreign"}
  BY PeerAssumption
<1>6. NoFrame \in Frame
  BY EmptySeq DEF NoFrame, Frame
<1> QED
  BY <1>3, <1>4, <1>5, <1>6 DEF PeerMsg

LEMMA PeerKeepsType ==
  ASSUME DataType, PeerStep
  PROVE  DataType'
<1> USE DEF DataType, BrowserTypeOK, session, Dialogue
<1>1. CASE PeerAccepts \/ PeerCloses
  BY <1>1 DEF PeerAccepts, PeerCloses, Ends
<1>2. ASSUME NEW kind \in PeerKinds, PeerSends(kind) PROVE DataType'
  BY <1>2, PeerMsgType, EncodedType, AppendProperties, ConcatProperties DEF PeerSends
<1>3. CASE PeerReads
  BY <1>3, HeadTailProperties, AppendProperties DEF PeerReads
<1> QED
  BY <1>1, <1>2, <1>3 DEF PeerStep

(* The buffers, the streams and the two neighbours keep their types,       *)
(* whichever handler runs.                                                 *)
THEOREM DataCorrect == Spec => []DataType
<1>1. Init => DataType
  BY EmptySeq DEF Init, BrowserInit, LocalInit, DataType, BrowserTypeOK, Ends
<1>2. DataType /\ [Next]_vars => DataType'
  <2> SUFFICES ASSUME DataType, [Next]_vars PROVE DataType'
    OBVIOUS
  <2>1. CASE Handler(LocalNext)
    BY <2>1, HandshakeKeepsType, RequestKeepsType, ConnectKeepsType,
       ResponseKeepsType, FromBrowserKeepsType, FromRemoteKeepsType, WritesKeepType
       DEF Handler, LocalNext
  <2>2. CASE UNCHANGED vars
    BY <2>2 DEF vars, session, Link, Dialogue, DataType, BrowserTypeOK
  <2> QED
    BY <2>1, <2>2, BrowserKeepsType, PeerKeepsType DEF Next
<1> QED
  BY <1>1, <1>2, PTL DEF Spec

(* TypeOK: every variable of the session, its neighbours and the two       *)
(* connections keeps its type.                                             *)
THEOREM TypeCorrect == Spec => []TypeOK
<1> DEFINE Flag == cut \in BOOLEAN
<1>1. Init => Flag
  BY DEF Init
<1>2. Flag /\ [Next]_vars => Flag'
  BY DEF Next, Handler, BrowserStep, PeerStep, PeerAccepts, PeerSends, PeerReads,
         PeerCloses, vars
<1>3. DataType /\ ControlInv /\ Flag => TypeOK
  BY ControlType DEF DataType, TypeOK
<1> HIDE DEF Flag
<1> QED
  BY <1>1, <1>2, <1>3, ControlCorrect, DataCorrect, PTL DEF Spec

-----------------------------------------------------------------------------
(* What the browser is told.  Its chunks are those it received and those   *)
(* on their way to it.  The invariant ties them to the phase the session   *)
(* is in, and the session's buffer to the first message of the server: a   *)
(* response the code finds incomplete may lose what follows its first      *)
(* piece (ReadAgain), but never that piece.                                *)
Chunks == got \o l2b

(* The answer to the greeting of the browser.                              *)
Greeting == << C("greetrsp", 0) >>

(* What handleWriteSockv5RspToBrowser takes the answer from.               *)
Hearing == {"handleReadAuthRspFromRemote", ReadAgain,
            "handleWriteSockv5RspToBrowser"}

(* Between that answer and the one of the server.                          *)
Greeted == (Asking \ {"handleReadHandShake"}) \cup Hearing

(* Behind it.                                                              *)
Established == {"handleBeginPipeTransfer"} \cup UpPipe \cup DownPipe

Accepted == peerSent # << >> /\ peerSent[1] = ConnectMsg(<< C("connrsp", 0) >>)

Silent == Chunks \in { << >>, << Greeting >> }

Told ==
  /\ Accepted
  /\ Len(Chunks) >= 2
  /\ Chunks[1] = Greeting
  /\ \E v \in Nat : Chunks[2] = << C("reply", v) >>

(* What is read next begins with the first message the server sent.        *)
Unanswered ==
  \/ peerSent = << >> /\ tmpR = << >> /\ r2l = << >>
  \/ /\ peerSent # << >> /\ (tmpR = << >> => r2l # << >>)
     /\ (IF tmpR # << >> THEN tmpR[1] ELSE r2l[1]) = [f |-> peerSent[1], half |-> 1]

HeardInv ==
  /\ pend \cap Asking # {} => peer = "new"
  /\ pend \cap (Asking \cup Hearing) # {} => Unanswered
  /\ ReadAgain \in pend => tmpR # << >>
  /\ peerSent # << >> /\ peerSent[1].body = << C("connrsp", 0) >> => Accepted

ToldInv ==
  /\ "handleReadHandShake" \in pend => Chunks = << >>
  /\ pend \cap Greeted # {} => Chunks = << Greeting >>
  /\ pend \cap Established # {} => Told
  /\ Silent \/ Told

(* The answer that is accepted is the first message of the server.         *)
LEMMA AcceptedAnswer ==
  ASSUME DataType, HeardInv, Unanswered, NEW k \in 1 .. Len(r2l),
         ConnectRspOk(tmpR \o SubSeq(r2l, 1, k))
  PROVE  Accepted
<1> DEFINE buf == tmpR \o SubSeq(r2l, 1, k)
<1>1. buf[1] = (IF tmpR # << >> THEN tmpR[1] ELSE r2l[1]) /\ r2l # << >>
  BY BufferStarts DEF DataType
<1>2. peerSent # << >> /\ buf[1] = [f |-> peerSent[1], half |-> 1]
  BY <1>1 DEF Unanswered
<1>3. buf[2] = [f |-> buf[1].f, half |-> 2] /\ buf[2].f.body = << C("connrsp", 0) >>
  <2> HIDE DEF buf
  <2>1. ConnectRspOk(buf)
    BY DEF buf
  <2>2. 2 * 1 = 2 /\ 2 * 1 - 1 = 1
    OBVIOUS
  <2> QED
    BY <2>1, <2>2 DEF ConnectRspOk, FrameOk, Intact, Msg
<1> HIDE DEF buf
<1>4. peerSent[1].body = << C("connrsp", 0) >>
  BY <1>2, <1>3
<1> QED
  BY <1>2, <1>4 DEF HeardInv

(* The part about the server depends on these variables only.              *)
LEMMA HeardStays ==
  ASSUME HeardInv, UNCHANGED << tmpR, r2l, peer, peerSent >>,
         pend' \cap Asking # {} => pend \cap Asking # {},
         pend' \cap (Asking \cup Hearing) # {} => pend \cap (Asking \cup Hearing) # {},
         ReadAgain \in pend' => ReadAgain \in pend
  PROVE  HeardInv'
BY DEF HeardInv, Unanswered, Accepted

(* How a set-up handler leaves the operations in progress.                 *)
LEMMA SetupEnds ==
  ASSUME ControlInv, NEW op \in Setup, op \in pend
  PROVE  /\ pend = {op} /\ sock = "up"
         /\ \A new : Start(op, new) => pend' = new
         /\ \A new : Connected(op, new) => pend' = {new}
         /\ \A done : Shutdown(op, done) => pend' = {}
         /\ Return(op) \/ Throw => pend' = {}
<1>1. pend = {op} /\ sock = "up"
  BY HandlersApart, SetupAlone DEF ControlInv
<1> QED
  BY <1>1 DEF Start, Connected, Return, Shutdown, Throw

(* How a handler of the pipe does.                                         *)
LEMMA PipeEnds ==
  ASSUME ControlInv, NEW op \in UpPipe \cup DownPipe, op \in pend
  PROVE  /\ pend \subseteq UpPipe \cup DownPipe
         /\ \A new \in UpPipe \cup DownPipe :
              Start(op, {new}) => pend' \subseteq UpPipe \cup DownPipe
         /\ \A done : Shutdown(op, done) => pend' \subseteq UpPipe \cup DownPipe
         /\ Throw => pend' = {}
<1>1. pend \subseteq UpPipe \cup DownPipe
  BY HandlersApart DEF ControlInv, Phases, SettingUp, Piping, Closing, Gone, Apart
<1> QED
  BY <1>1 DEF Start, Shutdown, Throw

(* Every handler keeps what the session knows of the server's first        *)
(* message.                                                                *)
LEMMA HandlersKeepHeard ==
  ASSUME ControlInv, DataType, HeardInv, LocalNext, UNCHANGED peerSent
  PROVE  HeardInv'
<1> USE DEF Setup, Asking, Hearing, UpPipe, DownPipe, ReadAgain
<1>1. CASE handleReadHandShake
  <2>1. "handleReadHandShake" \in pend
    BY <1>1 DEF handleReadHandShake, ReadFromBrowser, BrowserFails, Runs, Fails
  <2>2. pend' \subseteq {"handleReadHandShake", "handleWriteHandShake"}
    BY <1>1, <2>1, SetupEnds
       DEF handleReadHandShake, BrowserReset
  <2>3. UNCHANGED << tmpR, r2l, peer >>
    BY <1>1 DEF handleReadHandShake, Link
  <2> QED
    BY <2>1, <2>2, <2>3, HeardStays
<1>2. CASE handleWriteHandShake
  <2>1. "handleWriteHandShake" \in pend
    BY <1>2 DEF handleWriteHandShake, Written, BrowserFails, Runs, Fails
  <2>2. pend' \subseteq {"handleReadSockv5Req"}
    BY <1>2, <2>1, SetupEnds DEF handleWriteHandShake, BrowserReset
  <2>3. UNCHANGED << tmpR, r2l, peer >>
    BY <1>2 DEF handleWriteHandShake, Link
  <2> QED
    BY <2>1, <2>2, <2>3, HeardStays
<1>3. CASE handleReadSockv5Req
  <2>1. "handleReadSockv5Req" \in pend
    BY <1>3 DEF handleReadSockv5Req, ReadFromBrowser, BrowserFails, Runs, Fails
  <2>2. pend' \subseteq {"handleReadSockv5Req", "handleConnectToRemote"}
    BY <1>3, <2>1, SetupEnds DEF handleReadSockv5Req, BrowserReset
  <2>3. UNCHANGED << tmpR, r2l, peer >>
    BY <1>3 DEF handleReadSockv5Req, Link
  <2> QED
    BY <2>1, <2>2, <2>3, HeardStays
<1>4. CASE handleConnectToRemote
  <2>1. "handleConnectToRemote" \in pend
    BY <1>4 DEF handleConnectToRemote
  <2>2. pend' \subseteq {"handleReadAuthRspFromRemote"}
    BY <1>4, <2>1, SetupEnds DEF handleConnectToRemote
  <2>3. UNCHANGED << tmpR, r2l, peer >>
    BY <1>4 DEF handleConnectToRemote
  <2> QED
    BY <2>1, <2>2, <2>3, HeardStays
<1>5. CASE handleReadAuthRspFromRemote
  <2>1. "handleReadAuthRspFromRemote" \in pend
    BY <1>5 DEF handleReadAuthRspFromRemote, Written, RemoteFails, Runs, Fails
  <2>2. pend' \subseteq {"handleWriteSockv5RspToBrowser"}
    BY <1>5, <2>1, SetupEnds DEF handleReadAuthRspFromRemote
  <2>3. UNCHANGED << tmpR, r2l, peer >>
    BY <1>5 DEF handleReadAuthRspFromRemote, Link
  <2> QED
    BY <2>1, <2>2, <2>3, HeardStays
<1>6. CASE handleReadAuthRspFromRemoteRead
  <2>1. ReadAgain \in pend
    BY <1>6 DEF handleReadAuthRspFromRemoteRead, ReadFromRemote, RemoteFails, Runs, Fails
  <2>2. pend' \subseteq {"handleWriteSockv5RspToBrowser"}
    BY <1>6, <2>1, SetupEnds DEF handleReadAuthRspFromRemoteRead
  <2>3. UNCHANGED << tmpR, peer >>
    BY <1>6 DEF handleReadAuthRspFromRemoteRead
  <2>4. Unanswered /\ tmpR # << >>
    BY <2>1 DEF HeardInv
  <2>5. Unanswered'
    BY <2>3, <2>4 DEF Unanswered
  <2> QED
    BY <2>2, <2>3, <2>5 DEF HeardInv, Accepted
<1>7. CASE handleWriteSockv5RspToBrowser
  <2> DEFINE op == "handleWriteSockv5RspToBrowser"
  <2>1. op \in pend
    BY <1>7 DEF handleWriteSockv5RspToBrowser, ReadFromRemote, RemoteFails, Runs, Fails
  <2>2. Unanswered /\ peer' = peer
    BY <1>7, <2>1 DEF HeardInv, handleWriteSockv5RspToBrowser
  <2>3. ASSUME pend' \subseteq {"handleBeginPipeTransfer"}
        PROVE  HeardInv'
    BY <2>2, <2>3 DEF HeardInv, Accepted
  <2>4. ASSUME NEW k \in 1 .. Len(r2l), pend' \subseteq {ReadAgain},
               tmpR' = tmpR \o SubSeq(r2l, 1, k)
        PROVE  HeardInv'
    <3>1. /\ tmpR' # << >>
          /\ tmpR'[1] = IF tmpR # << >> THEN tmpR[1] ELSE r2l[1]
          /\ r2l # << >>
      BY <2>4, BufferStarts DEF DataType
    <3>2. Unanswered'
      BY <2>2, <3>1 DEF Unanswered
    <3> QED
      BY <2>2, <2>4, <3>1, <3>2 DEF HeardInv, Accepted
  <2> QED
    BY <1>7, <2>1, <2>3, <2>4, SetupEnds DEF handleWriteSockv5RspToBrowser
<1>8. CASE handleBeginPipeTransfer
  <2>1. "handleBeginPipeTransfer" \in pend
    BY <1>8 DEF handleBeginPipeTransfer, Written, BrowserFails, Runs, Fails
  <2>2. pend' \subseteq {"handleReadDataFromRemote", "handleReadDataFromBrowser"}
    BY <1>8, <2>1, SetupEnds DEF handleBeginPipeTransfer
  <2> QED
    BY <2>2 DEF HeardInv, Accepted
<1>9. CASE \/ handleReadDataFromBrowser \/ handleWriteDataToRemote
           \/ handleReadDataFromRemote \/ handleWriteDataToBrowser
  <2>1. PICK op \in UpPipe \cup DownPipe :
           /\ op \in pend
           /\ \/ \E new \in UpPipe \cup DownPipe : Start(op, {new})
              \/ (\E done : Shutdown(op, done)) \/ Throw
    BY <1>9 DEF handleReadDataFromBrowser, handleWriteDataToRemote,
         handleReadDataFromRemote, handleWriteDataToBrowser, ReadFromBrowser,
         ReadFromRemote, Written, BrowserFails, RemoteFails, Runs, Fails
  <2>2. pend' \subseteq UpPipe \cup DownPipe
    BY <2>1, PipeEnds
  <2> QED
    BY <2>2 DEF HeardInv, Accepted
<1> QED
  BY <1>1, <1>2, <1>3, <1>4, <1>5, <1>6, <1>7, <1>8, <1>9 DEF LocalNext

(* What was received and what is on its way, with what is sent.            *)
LEMMA SentBehind ==
  ASSUME DataType, NEW x \in Seq(Seq(Cell))
  PROVE  /\ sock = "up" => got \o Sent(sock, l2b, x) = Chunks \o x
         /\ sock # "up" => got \o Sent(sock, l2b, x) = Chunks
<1>1. got \in Seq(Seq(Cell)) /\ l2b \in Seq(Seq(Cell)) /\ x \in Seq(Seq(Cell))
  BY DEF DataType, BrowserTypeOK
<1>2. ASSUME sock = "up" PROVE got \o Sent(sock, l2b, x) = Chunks \o x
  <2> DEFINE Strings == Seq(Cell)
  <2>1. got \in Seq(Strings) /\ l2b \in Seq(Strings) /\ x \in Seq(Strings)
    BY <1>1
  <2> HIDE DEF Strings
  <2>2. got \o Sent(sock, l2b, x) = (got \o l2b) \o x
    BY <1>2, <2>1, SendMoves
  <2> QED
    BY <2>2 DEF Chunks
<1>3. ASSUME sock # "up" PROVE got \o Sent(sock, l2b, x) = Chunks
  BY <1>3 DEF Chunks, Sent
<1> QED
  BY <1>2, <1>3

(* What a handler writes to the browser comes behind what it was told.     *)
LEMMA WrittenIsTold ==
  ASSUME DataType, NEW x \in Seq(Seq(Cell)), l2b' = Sent(sock, l2b, x), got' = got
  PROVE  /\ sock = "up" => Chunks' = Chunks \o x
         /\ sock # "up" => Chunks' = Chunks
<1>1. Chunks' = got \o Sent(sock, l2b, x)
  BY DEF Chunks
<1> QED
  BY <1>1, SentBehind

(* The browser receives what it was told.                                  *)
LEMMA ReceivedIsTold ==
  ASSUME DataType, BrowserReceives
  PROVE  Chunks' = Chunks
<1>1. got \in Seq(Seq(Cell)) /\ l2b \in Seq(Seq(Cell)) /\ l2b # << >>
  BY DEF DataType, BrowserTypeOK, BrowserReceives
<1>2. Chunks' = Append(got, Head(l2b)) \o Tail(l2b)
  BY DEF BrowserReceives, Chunks
<1> QED
  BY <1>1, <1>2, ReceiveMoves DEF Chunks

(* What was told stays told, whatever more is.                             *)
LEMMA ToldGoesOn ==
  ASSUME DataType, Told, NEW x \in Seq(Seq(Cell)), UNCHANGED peerSent,
         Chunks' = Chunks \o x
  PROVE  Told'
<1>1. Chunks \in Seq(Seq(Cell))
  BY ConcatProperties DEF Chunks, DataType, BrowserTypeOK
<1>2. Len(Chunks \o x) >= 2 /\ (Chunks \o x)[1] = Chunks[1] /\ (Chunks \o x)[2] = Chunks[2]
  BY <1>1, FrontStays DEF Told
<1> QED
  BY <1>2 DEF Told, Accepted

(* A step that tells nothing.                                              *)
LEMMA ToldStays ==
  ASSUME ToldInv, Chunks' = Chunks, Accepted => Accepted',
         "handleReadHandShake" \in pend' => "handleReadHandShake" \in pend,
         pend' \cap Greeted # {} => pend \cap Greeted # {},
         pend' \cap Established # {} => pend \cap Established # {}
  PROVE  ToldInv'
<1>1. Told => Told'
  BY DEF Told
<1>2. Silent => Silent'
  BY DEF Silent
<1> QED
  BY <1>1, <1>2 DEF ToldInv

(* The greeting is answered first.                                         *)
LEMMA HandshakeTells ==
  ASSUME ControlInv, DataType, ToldInv, handleReadHandShake, UNCHANGED peerSent
  PROVE  ToldInv'
<1> DEFINE op == "handleReadHandShake"
<1>1. op \in pend /\ op \in Setup
  BY DEF handleReadHandShake, ReadFromBrowser, BrowserFails, Runs, Fails, Setup
<1>2. Chunks = << >> /\ sock = "up" /\ got' = got
  BY <1>1, SetupEnds DEF ToldInv, handleReadHandShake, Dialogue
<1>3. CASE l2b' = l2b /\ pend' \subseteq {op}
  <2>1. Chunks' = Chunks
    BY <1>2, <1>3 DEF Chunks
  <2>2. pend' \cap Greeted = {} /\ pend' \cap Established = {}
    BY <1>3 DEF Greeted, Asking, Hearing, Established, UpPipe, DownPipe, ReadAgain
  <2> QED
    BY <1>1, <2>1, <2>2, ToldStays DEF Accepted
<1>4. CASE l2b' = Append(l2b, Greeting) /\ pend' = {"handleWriteHandShake"}
  <2>1. Greeting \in Seq(Cell) /\ << Greeting >> \in Seq(Seq(Cell))
    BY CellType, SingletonType DEF Greeting, CellTypes
  <2>2. l2b' = Sent(sock, l2b, << Greeting >>)
    BY <1>2, <1>4, <2>1, AppendIsConcat DEF Sent, DataType, BrowserTypeOK
  <2>3. Chunks' = << >> \o << Greeting >>
    BY <1>2, <2>1, <2>2, WrittenIsTold
  <2>4. Chunks' = << Greeting >>
    BY <2>1, <2>3, ConcatEmptySeq
  <2>5. pend' \cap Established = {} /\ op \notin pend'
    BY <1>4 DEF Established, UpPipe, DownPipe
  <2> QED
    BY <2>4, <2>5 DEF ToldInv, Silent, Greeting
<1> QED
  BY <1>1, <1>3, <1>4, SetupEnds DEF handleReadHandShake, BrowserReset, Greeting

(* Success is told when the answer of the server is accepted.              *)
LEMMA ResponseTells ==
  ASSUME ControlInv, DataType, HeardInv, ToldInv, handleWriteSockv5RspToBrowser,
         UNCHANGED peerSent
  PROVE  ToldInv'
<1> DEFINE op == "handleWriteSockv5RspToBrowser"
           reply == << C("reply", req) >>
<1>1. op \in pend /\ op \in Setup /\ op \in Hearing
  BY DEF handleWriteSockv5RspToBrowser, ReadFromRemote, RemoteFails, Runs, Fails,
         Setup, Hearing
<1>2. /\ Chunks = << Greeting >> /\ sock = "up" /\ got' = got /\ Unanswered
      /\ pend \cap Greeted # {}
  BY <1>1, SetupEnds
     DEF ToldInv, HeardInv, Greeted, handleWriteSockv5RspToBrowser, Dialogue
<1>3. CASE l2b' = l2b /\ pend' \subseteq {ReadAgain}
  <2>1. Chunks' = Chunks
    BY <1>2, <1>3 DEF Chunks
  <2>2. "handleReadHandShake" \notin pend' /\ pend' \cap Established = {}
    BY <1>3 DEF Established, UpPipe, DownPipe, ReadAgain
  <2> QED
    BY <1>2, <2>1, <2>2, ToldStays DEF Accepted
<1>4. CASE /\ l2b' = Sent(sock, l2b, << reply >>) /\ pend' = {"handleBeginPipeTransfer"}
           /\ \E k \in 1 .. Len(r2l) : ConnectRspOk(tmpR \o SubSeq(r2l, 1, k))
  <2>1. reply \in Seq(Cell) /\ << reply >> \in Seq(Seq(Cell)) /\ req \in Nat
    BY CellType, SingletonType DEF CellTypes, DataType
  <2>2. Chunks' = << Greeting >> \o << reply >>
    BY <1>2, <1>4, <2>1, WrittenIsTold
  <2>3. Len(Chunks') = 2 /\ Chunks'[1] = Greeting /\ Chunks'[2] = reply
    <3>1. Greeting \in Seq(Cell)
      BY CellType, SingletonType DEF Greeting, CellTypes
    <3> HIDE DEF reply
    <3> QED
      BY <2>1, <2>2, <3>1, PairOf
  <2>4. Accepted'
    BY <1>2, <1>4, AcceptedAnswer DEF Accepted
  <2>5. Told'
    BY <2>1, <2>3, <2>4 DEF Told, Greeting
  <2>6. pend' \cap Greeted = {} /\ "handleReadHandShake" \notin pend'
    BY <1>4 DEF Greeted, Asking, Hearing, ReadAgain
  <2> QED
    BY <2>5, <2>6 DEF ToldInv
<1> QED
  BY <1>1, <1>3, <1>4, SetupEnds DEF handleWriteSockv5RspToBrowser

(* Data follows only what was told.                                        *)
LEMMA PipeTells ==
  ASSUME ControlInv, DataType, ToldInv, UNCHANGED peerSent,
         \/ handleReadDataFromBrowser \/ handleWriteDataToRemote
         \/ handleReadDataFromRemote \/ handleWriteDataToBrowser
  PROVE  ToldInv'
<1>1. PICK op \in UpPipe \cup DownPipe :
         /\ op \in pend
         /\ \/ \E new \in UpPipe \cup DownPipe : Start(op, {new})
            \/ (\E done : Shutdown(op, done)) \/ Throw
  BY DEF handleReadDataFromBrowser, handleWriteDataToRemote,
       handleReadDataFromRemote, handleWriteDataToBrowser, ReadFromBrowser,
       ReadFromRemote, Written, BrowserFails, RemoteFails, Runs, Fails, UpPipe, DownPipe
<1>2. pend' \subseteq UpPipe \cup DownPipe
  BY <1>1, PipeEnds
<1>3. Told
  BY <1>1 DEF ToldInv, Established
<1>4. ASSUME got' = got, l2b' = l2b PROVE Told'
  <2>1. Chunks' = Chunks
    BY <1>4 DEF Chunks
  <2> QED
    BY <1>3, <2>1 DEF Told, Accepted
<1>5. ASSUME handleReadDataFromRemote, l2b' # l2b PROVE Told'
  <2>1. PICK k \in 1 .. Len(r2l) :
           \E n \in Counts(tmpR \o SubSeq(r2l, 1, k)) :
             l2b' = Sent(sock, l2b, DataBodies(tmpR \o SubSeq(r2l, 1, k), n))
    BY <1>5, ExtractsCounts DEF handleReadDataFromRemote
  <2>2. tmpR \o SubSeq(r2l, 1, k) \in Seq(Piece)
    BY BufferType DEF DataType
  <2>3. PICK x \in Seq(Seq(Cell)) : l2b' = Sent(sock, l2b, x)
    BY <2>1, <2>2, DataBodiesType
  <2>4. got' = got
    BY <1>5 DEF handleReadDataFromRemote, Dialogue
  <2>5. sock = "up"
    BY <1>5, <2>3 DEF Sent
  <2>6. Chunks' = Chunks \o x
    BY <2>3, <2>4, <2>5, WrittenIsTold
  <2> QED
    BY <1>3, <2>6, ToldGoesOn
<1>6. got' = got /\ (l2b' = l2b \/ handleReadDataFromRemote)
  BY DEF handleReadDataFromBrowser, handleWriteDataToRemote,
         handleReadDataFromRemote, handleWriteDataToBrowser, Dialogue
<1>7. Told'
  BY <1>4, <1>5, <1>6
<1>8. pend' \cap Greeted = {} /\ "handleReadHandShake" \notin pend'
  BY <1>2 DEF Greeted, Asking, Hearing, ReadAgain, UpPipe, DownPipe
<1> QED
  BY <1>7, <1>8 DEF ToldInv

(* Every handler keeps what the browser was told in step with its phase.   *)
LEMMA HandlersKeepTold ==
  ASSUME ControlInv, DataType, HeardInv, ToldInv, LocalNext, UNCHANGED peerSent
  PROVE  ToldInv'
<1>1. ASSUME NEW op \in Greeted, op \in pend, pend' \subseteq Greeted, UNCHANGED << got, l2b >>
      PROVE  ToldInv'
  <2>1. pend \cap Greeted # {} /\ Chunks' = Chunks
    BY <1>1 DEF Chunks
  <2>2. "handleReadHandShake" \notin pend' /\ pend' \cap Established = {}
    BY <1>1 DEF Greeted, Asking, Hearing, Established, UpPipe, DownPipe, ReadAgain
  <2> QED
    BY <2>1, <2>2, ToldStays DEF Accepted
<1> USE DEF Setup, Asking, Hearing, Greeted, ReadAgain
<1>2. CASE handleWriteHandShake
  <2>1. "handleWriteHandShake" \in pend
    BY <1>2 DEF handleWriteHandShake, Written, BrowserFails, Runs, Fails
  <2>2. pend' \subseteq {"handleReadSockv5Req"}
    BY <1>2, <2>1, SetupEnds DEF handleWriteHandShake, BrowserReset
  <2>3. UNCHANGED << got, l2b >>
    BY <1>2 DEF handleWriteHandShake, Dialogue
  <2>4. "handleWriteHandShake" \in Greeted /\ pend' \subseteq Greeted
    BY <2>2
  <2> QED
    BY <1>1, <2>1, <2>3, <2>4
<1>3. CASE handleReadSockv5Req
  <2>1. "handleReadSockv5Req" \in pend
    BY <1>3 DEF handleReadSockv5Req, ReadFromBrowser, BrowserFails, Runs, Fails
  <2>2. pend' \subseteq {"handleReadSockv5Req", "handleConnectToRemote"}
    BY <1>3, <2>1, SetupEnds DEF handleReadSockv5Req, BrowserReset
  <2> QED
    BY <1>1, <1>3, <2>1, <2>2 DEF handleReadSockv5Req, Dialogue
<1>4. CASE handleConnectToRemote
  <2>1. "handleConnectToRemote" \in pend
    BY <1>4 DEF handleConnectToRemote
  <2>2. pend' \subseteq {"handleReadAuthRspFromRemote"}
    BY <1>4, <2>1, SetupEnds DEF handleConnectToRemote
  <2>3. UNCHANGED << got, l2b >>
    BY <1>4 DEF handleConnectToRemote, Dialogue
  <2>4. "handleConnectToRemote" \in Greeted /\ pend' \subseteq Greeted
    BY <2>2
  <2> QED
    BY <1>1, <2>1, <2>3, <2>4
<1>5. CASE handleReadAuthRspFromRemote
  <2>1. "handleReadAuthRspFromRemote" \in pend
    BY <1>5 DEF handleReadAuthRspFromRemote, Written, RemoteFails, Runs, Fails
  <2>2. pend' \subseteq {"handleWriteSockv5RspToBrowser"}
    BY <1>5, <2>1, SetupEnds DEF handleReadAuthRspFromRemote
  <2> QED
    BY <1>1, <1>5, <2>1, <2>2 DEF handleReadAuthRspFromRemote, Dialogue
<1>6. CASE handleReadAuthRspFromRemoteRead
  <2>1. ReadAgain \in pend
    BY <1>6 DEF handleReadAuthRspFromRemoteRead, ReadFromRemote, RemoteFails, Runs, Fails
  <2>2. pend' \subseteq {"handleWriteSockv5RspToBrowser"}
    BY <1>6, <2>1, SetupEnds DEF handleReadAuthRspFromRemoteRead
  <2> QED
    BY <1>1, <1>6, <2>1, <2>2 DEF handleReadAuthRspFromRemoteRead, Dialogue
<1>7. CASE handleBeginPipeTransfer
  <2>1. "handleBeginPipeTransfer" \in pend
    BY <1>7 DEF handleBeginPipeTransfer, Written, BrowserFails, Runs, Fails
  <2>2. pend' \subseteq {"handleReadDataFromRemote", "handleReadDataFromBrowser"}
    BY <1>7, <2>1, SetupEnds DEF handleBeginPipeTransfer
  <2>3. Chunks' = Chunks
    BY <1>7 DEF handleBeginPipeTransfer, Dialogue, Chunks
  <2>4. pend \cap Established # {}
    BY <2>1 DEF Established
  <2> QED
    BY <2>2, <2>3, <2>4, ToldStays DEF Accepted
<1> QED
  BY <1>2, <1>3, <1>4, <1>5, <1>6, <1>7, HandshakeTells, ResponseTells, PipeTells
     DEF LocalNext

(* What the browser does.                                                  *)
LEMMA BrowserKeepsTold ==
  ASSUME DataType, HeardInv, ToldInv, BrowserStep
  PROVE  HeardInv' /\ ToldInv'
<1>1. UNCHANGED << pend, tmpR, r2l, peer, peerSent >>
  BY DEF BrowserStep, session, control, Link
<1>2. BrowserReceives \/ UNCHANGED << got, l2b >>
  BY DEF BrowserStep, BrowserNext, Greet, Request, SendData, BrowserCloses, BrowserResets
<1>3. Chunks' = Chunks
  BY <1>2, ReceivedIsTold DEF Chunks
<1> QED
  BY <1>1, <1>3, HeardStays, ToldStays DEF Accepted

(* A connect response with result 0 is the message "accept".               *)
LEMMA OnlyAcceptAccepts ==
  ASSUME NEW kind \in PeerKinds, PeerMsg(kind).body = << C("connrsp", 0) >>
  PROVE  PeerMsg(kind) = ConnectMsg(<< C("connrsp", 0) >>)
<1>1. kind \in {"accept", "refuse", "corrupt", "other", "data", "foreign"}
  BY PeerAssumption
<1>2. \A v : << C("data", v) >> # << C("connrsp", 0) >>
  <2>1. \A v : << C("data", v) >>[1].t = "data"
    BY DEF C
  <2>2. << C("connrsp", 0) >>[1].t = "connrsp"
    BY DEF C
  <2> QED
    BY <2>1, <2>2
<1>3. << C("connrsp", 1) >> # << C("connrsp", 0) >>
  <2>1. << C("connrsp", 1) >>[1].v = 1 /\ << C("connrsp", 0) >>[1].v = 0
    BY DEF C
  <2> QED
    BY <2>1
<1>4. CASE kind = "accept"
  BY <1>4 DEF PeerMsg
<1>5. CASE kind # "accept"
  <2>1. PeerMsg(kind).body # << C("connrsp", 0) >>
    BY <1>1, <1>2, <1>3, <1>5 DEF PeerMsg, ConnectMsg, DataMsg, NoFrame
  <2> QED
    BY <2>1
<1> QED
  BY <1>4, <1>5

(* What the server sends stays behind what it sent first.                  *)
LEMMA SendsKeepsTold ==
  ASSUME ControlInv, DataType, HeardInv, ToldInv, NEW kind \in PeerKinds,
         PeerSends(kind)
  PROVE  HeardInv' /\ ToldInv'
<1> DEFINE m == PeerMsg(kind)
           e == Encoded(m)
<1>1. /\ UNCHANGED << pend, tmpR, peer, got, l2b >> /\ peer = "up"
      /\ peerSent' = Append(peerSent, m) /\ r2l' = r2l \o e
  BY DEF PeerSends, session, control, Dialogue
<1>2. m \in Frame /\ e \in Seq(Piece) /\ Len(e) = 2 /\ e[1] = [f |-> m, half |-> 1]
  <2>1. m \in Frame
    BY PeerMsgType
  <2> HIDE DEF m
  <2> QED
    BY <2>1, EncodedType DEF Encoded
<1>3. m.body = << C("connrsp", 0) >> => m = ConnectMsg(<< C("connrsp", 0) >>)
  BY OnlyAcceptAccepts
<1> HIDE DEF m, e
<1>4. /\ peerSent' # << >>
      /\ peerSent'[1] = IF peerSent = << >> THEN m ELSE peerSent[1]
  BY <1>1, <1>2, AppendProperties, EmptySeq, LenProperties DEF DataType
<1>5. r2l' # << >> /\ r2l'[1] = IF r2l # << >> THEN r2l[1] ELSE e[1]
  <2>1. SubSeq(e, 1, 2) = e /\ 2 \in 1 .. Len(e)
    BY <1>2, SubSeqFull
  <2>2. r2l \in Seq(Piece) /\ e \in Seq(Piece)
    BY <1>2 DEF DataType
  <2>3. /\ r2l \o SubSeq(e, 1, 2) # << >>
        /\ (r2l \o SubSeq(e, 1, 2))[1] = (IF r2l # << >> THEN r2l[1] ELSE e[1])
    BY <2>1, <2>2, BufferStarts
  <2> QED
    BY <1>1, <2>1, <2>3
<1>6. Unanswered => Unanswered'
  BY <1>1, <1>2, <1>4, <1>5 DEF Unanswered
<1>7. Accepted => Accepted'
  BY <1>4 DEF Accepted
<1>8. HeardInv'
  BY <1>1, <1>3, <1>4, <1>6, <1>7 DEF HeardInv, Accepted
<1>9. ToldInv'
  BY <1>1, <1>7, ToldStays DEF Chunks
<1> QED
  BY <1>8, <1>9

LEMMA PeerKeepsTold ==
  ASSUME ControlInv, DataType, HeardInv, ToldInv, PeerStep
  PROVE  HeardInv' /\ ToldInv'
<1>1. CASE PeerAccepts \/ PeerReads \/ PeerCloses
  <2>1. UNCHANGED << pend, got, l2b, tmpR, r2l, peerSent >>
    BY <1>1 DEF PeerAccepts, PeerReads, PeerCloses, session, control, Dialogue
  <2>2. pend \cap Asking # {} => peer' = peer
    <3>1. ASSUME NEW op \in Asking, op \in pend PROVE rsock = "new" /\ peer = "new"
      BY <3>1, HandlersApart, SetupAlone DEF ControlInv, Apart, HeardInv
    <3> QED
      BY <1>1, <3>1 DEF PeerAccepts, PeerReads, PeerCloses
  <2>3. HeardInv'
    BY <2>1, <2>2 DEF HeardInv, Unanswered, Accepted
  <2>4. ToldInv'
    BY <2>1, ToldStays DEF Chunks, Accepted
  <2> QED
    BY <2>3, <2>4
<1>2. ASSUME NEW kind \in PeerKinds, PeerSends(kind) PROVE HeardInv' /\ ToldInv'
  BY <1>2, SendsKeepsTold
<1> QED
  BY <1>1, <1>2 DEF PeerStep

(* What the browser is told and what the session knows of the server's     *)
(* first message stay in step with the phase of the session.               *)
THEOREM ToldCorrect == Spec => [](HeardInv /\ ToldInv)
<1>1. Init => HeardInv /\ ToldInv
  <2> SUFFICES ASSUME Init PROVE HeardInv /\ ToldInv
    OBVIOUS
  <2>1. Chunks = << >>
    BY DEF Chunks, Init, BrowserInit
  <2> QED
    BY <2>1 DEF Init, LocalInit, HeardInv, ToldInv, Unanswered, Silent, Greeted,
                Established, Asking, Hearing, UpPipe, DownPipe, ReadAgain
<1>2. ControlInv /\ DataType /\ HeardInv /\ ToldInv /\ [Next]_vars
        => (HeardInv /\ ToldInv)'
  <2> SUFFICES ASSUME ControlInv, DataType, HeardInv, ToldInv, [Next]_vars
               PROVE  HeardInv' /\ ToldInv'
    OBVIOUS
  <2>1. CASE Handler(LocalNext)
    BY <2>1, HandlersKeepHeard, HandlersKeepTold DEF Handler
  <2>2. CASE UNCHANGED vars
    <3>1. UNCHANGED << pend, got, l2b, tmpR, r2l, peer, peerSent >>
      BY <2>2 DEF vars, session, control, Link, Dialogue
    <3> QED
      BY <3>1, HeardStays, ToldStays DEF Chunks, Accepted
  <2> QED
    BY <2>1, <2>2, BrowserKeepsTold, PeerKeepsTold DEF Next
<1> QED
  BY <1>1, <1>2, ControlCorrect, DataCorrect, PTL DEF Spec

(* SuccessOnlyIfAccepted: the browser gets the SOCKS reply or data only if *)
(* the first message of the server accepted its request, and the reply     *)
(* first, however the streams are cut and even when a part of the response *)
(* is lost.                                                                *)
THEOREM SuccessOnlyIfAcceptedHolds == Spec => []SuccessOnlyIfAccepted
<1>1. DataType /\ ToldInv => SuccessOnlyIfAccepted
  <2> SUFFICES ASSUME DataType, ToldInv, NEW i \in DOMAIN Chunks,
                      NEW j \in DOMAIN Chunks[i],
                      Chunks[i][j].t \in {"reply", "data"}
               PROVE  /\ peerSent # << >> /\ peerSent[1] = PeerMsg("accept")
                      /\ i >= 2 /\ Chunks[2][1].t = "reply"
    BY DEF SuccessOnlyIfAccepted, Chunks
  <2>1. i # 1 \/ Chunks[1] # Greeting
    BY DEF Greeting, C
  <2>2. ~ Silent
    BY <2>1 DEF Silent
  <2>3. Told
    BY <2>2 DEF ToldInv
  <2>4. PeerMsg("accept") = ConnectMsg(<< C("connrsp", 0) >>)
    BY DEF PeerMsg
  <2>5. i \in Nat \ {0}
    <3>1. Chunks \in Seq(Seq(Cell))
      BY ConcatProperties DEF Chunks, DataType, BrowserTypeOK
    <3> QED
      BY <3>1, LenProperties
  <2>6. Chunks[2][1].t = "reply"
    BY <2>3 DEF Told, C
  <2> QED
    BY <2>1, <2>3, <2>4, <2>5, <2>6 DEF Told, Accepted
<1> QED
  BY <1>1, DataCorrect, ToldCorrect, PTL

-----------------------------------------------------------------------------
(* The dialogue with the browser: what the session holds and what is on    *)
(* its way to it is by turns nothing, the greeting, nothing, the request   *)
(* and what that leaves behind; no data yet.                               *)
Greets == "handleReadHandShake" \in pend
Requests == pend \cap {"handleWriteHandShake", "handleReadSockv5Req"} # {}
Linking == pend \cap ({"handleConnectToRemote"} \cup Hearing) # {}

SpokenInv ==
  /\ Greets => \/ asked = "nothing" /\ tmpB \o b2l = << >>
               \/ asked = "greeting" /\ \E g \in GreetKinds : tmpB \o b2l = GreetCells(g)
  /\ Requests => \/ asked = "greeting" /\ tmpB \o b2l = << >>
                 \/ asked = "request" /\ \E a \in ReqKinds : tmpB \o b2l = ReqCells(a)
  /\ Greets \/ Requests => req = 0
  /\ Linking => tmpB \o b2l = PortCells(req)
  /\ ~ (Greets \/ Requests) => pend = {} \/ asked = "request"
  /\ Greets \/ Requests \/ Linking => upSent = 0

(* The stream of the browser.  What was sent on the link is whole          *)
(* messages; tmpBBuffer_ counts while it does not stand for the message    *)
(* that is being written.                                                  *)
Held == IF "handleWriteDataToRemote" \in pend THEN << >> ELSE tmpB
Waits == Held \o b2l

UpHeld(m) ==
  /\ Carries(peerGot \o l2r, m)
  /\ Greets \/ Requests \/ Linking => DataIn(m) = << >>
  /\ pend \cap Established # {} /\ sock = "up" =>
       DataIn(m) \o Waits = PortCells(req) \o Tokens(upSent)

UpInv == \E m \in Seq(Frame) : UpHeld(m)

(* The types of the stream of the browser.                                 *)
LEMMA UpTypes ==
  ASSUME DataType
  PROVE  /\ tmpB \in Seq(Cell) /\ b2l \in Seq(Cell) /\ Held \in Seq(Cell)
         /\ Waits \in Seq(Cell) /\ tmpB \o b2l \in Seq(Cell)
         /\ peerGot \in Seq(Piece) /\ l2r \in Seq(Piece) /\ peerGot \o l2r \in Seq(Piece)
<1>1. tmpB \in Seq(Cell) /\ b2l \in Seq(Cell) /\ peerGot \in Seq(Piece) /\ l2r \in Seq(Piece)
  BY DEF DataType, BrowserTypeOK
<1>2. Held \in Seq(Cell)
  BY <1>1, EmptySeq DEF Held
<1> QED
  BY <1>1, <1>2, ConcatProperties DEF Waits

(* What a read takes out of the dialogue: the first message, and the       *)
(* others stay.                                                            *)
LEMMA DialogueTaken ==
  ASSUME NEW b \in Seq(Cell), NEW s \in Seq(Cell), NEW k \in 1 .. Len(s),
         MsgLen(b \o SubSeq(s, 1, k)) > 0
  PROVE  /\ (b \o SubSeq(s, 1, k))[1] = (b \o s)[1]
         /\ Len(b \o s) >= 2
         /\ Behind(b \o SubSeq(s, 1, k)) \o SubSeq(s, k + 1, Len(s))
              = SubSeq(b \o s, 3, Len(b \o s))
<1> DEFINE buf == b \o SubSeq(s, 1, k)
           rest == SubSeq(s, k + 1, Len(s))
<1>1. buf \in Seq(Cell) /\ rest \in Seq(Cell) /\ buf \o rest = b \o s
  BY CutType, BufferType, ReadMoves
<1>2. MsgLen(buf) > 0
  OBVIOUS
<1> HIDE DEF buf, rest
<1>3. Len(buf) \in Nat /\ Len(buf) >= 2 /\ MsgLen(buf) = 2 /\ Len(rest) \in Nat
  BY <1>1, <1>2, LenProperties DEF MsgLen
<1>4. /\ Len(b \o s) = Len(buf) + Len(rest)
      /\ \A i \in 1 .. Len(buf) + Len(rest) :
           (b \o s)[i] = IF i <= Len(buf) THEN buf[i] ELSE rest[i - Len(buf)]
  BY <1>1, ConcatProperties
<1>5. Len(b \o s) >= 2 /\ buf[1] = (b \o s)[1]
  BY <1>3, <1>4
<1>6. Behind(buf) = SubSeq(buf, 3, Len(buf))
  BY <1>3 DEF Behind
<1>7. SubSeq(buf, 3, Len(buf)) \o rest = SubSeq(buf \o rest, 3, Len(buf \o rest))
  <2>1. 2 \in 0 .. Len(buf) /\ 2 + 1 = 3
    BY <1>3
  <2> QED
    BY <1>1, <2>1, RestOfConcat
<1> QED
  BY <1>1, <1>5, <1>6, <1>7 DEF buf, rest

(* The greeting is taken.                                                  *)
LEMMA GreetTaken ==
  ASSUME ControlInv, DataType, SpokenInv, handleReadHandShake
  PROVE  SpokenInv'
<1> DEFINE op == "handleReadHandShake"
<1>1. op \in pend /\ op \in Setup
  BY DEF handleReadHandShake, ReadFromBrowser, BrowserFails, Runs, Fails, Setup
<1>2. Greets /\ req = 0 /\ upSent = 0 /\ UNCHANGED << asked, upSent, req >>
  BY <1>1 DEF Greets, SpokenInv, handleReadHandShake, Dialogue
<1>3. CASE pend' = {}
  BY <1>3 DEF SpokenInv, Greets, Requests, Linking
<1>4. ASSUME NEW k \in 1 .. Len(b2l), b2l' = SubSeq(b2l, k + 1, Len(b2l)),
             tmpB' = tmpB \o SubSeq(b2l, 1, k), pend' = {op}
      PROVE  SpokenInv'
  <2>1. tmpB' \o b2l' = tmpB \o b2l
    BY <1>4, ReadMoves DEF DataType, BrowserTypeOK
  <2> QED
    BY <1>2, <1>4, <2>1
       DEF SpokenInv, Greets, Requests, Linking, Hearing, ReadAgain
<1>5. ASSUME NEW k \in 1 .. Len(b2l), b2l' = SubSeq(b2l, k + 1, Len(b2l)),
             MsgLen(tmpB \o SubSeq(b2l, 1, k)) > 0,
             tmpB' = Behind(tmpB \o SubSeq(b2l, 1, k)), pend' = {"handleWriteHandShake"}
      PROVE  SpokenInv'
  <2>1. /\ Len(tmpB \o b2l) >= 2
        /\ tmpB' \o b2l' = SubSeq(tmpB \o b2l, 3, Len(tmpB \o b2l))
    BY <1>5, DialogueTaken DEF DataType, BrowserTypeOK
  <2>2. PICK g \in GreetKinds : asked = "greeting" /\ tmpB \o b2l = GreetCells(g)
    <3>1. tmpB \o b2l # << >>
      BY <2>1
    <3> QED
      BY <1>2, <3>1 DEF SpokenInv
  <2>3. tmpB' \o b2l' = << >>
    BY <2>1, <2>2, SubSeqEmpty DEF GreetCells
  <2> QED
    BY <1>2, <1>5, <2>2, <2>3
       DEF SpokenInv, Greets, Requests, Linking, Hearing, ReadAgain
<1> QED
  BY <1>1, <1>3, <1>4, <1>5, SetupEnds
     DEF handleReadHandShake, ReadFromBrowser, BrowserReset

(* What the request leaves behind is all that is left.                     *)
LEMMA RequestLeaves ==
  ASSUME NEW a \in ReqKinds
  PROVE  /\ ReqCells(a) \in Seq(Cell) /\ PortCells(a) \in Seq(Cell)
         /\ ReqCells(a)[1].v = a
         /\ SubSeq(ReqCells(a), 3, Len(ReqCells(a))) = PortCells(a)
<1> DEFINE c == C("req", a)
           x == << c, c >>
<1>1. c \in Cell /\ c.v = a /\ C("port", a) \in Cell /\ ReqCells(a) \in Seq(Cell)
  BY BrowserCellsType, BrowserAssumption, CellType DEF CellTypes, C
<1> HIDE DEF c
<1>2. /\ x \in Seq(Cell) /\ PortCells(a) \in Seq(Cell) /\ Len(x) = 2 /\ x[1] = c
      /\ SubSeq(x, 2 + 1, Len(x)) = << >>
  BY <1>1, SubSeqEmpty DEF PortCells
<1>3. ReqCells(a) = x \o PortCells(a)
  BY DEF ReqCells, c
<1> HIDE DEF x
<1>4. (x \o PortCells(a))[1] = c
  BY <1>2, ConcatProperties, LenProperties
<1>5. << >> \o PortCells(a) = SubSeq(x \o PortCells(a), 2 + 1, Len(x \o PortCells(a)))
  <2>1. 2 \in 0 .. Len(x)
    BY <1>2
  <2> QED
    BY <1>2, <2>1, RestOfConcat
<1> QED
  BY <1>1, <1>2, <1>3, <1>4, <1>5, ConcatEmptySeq

(* The request is taken.                                                   *)
LEMMA RequestTaken ==
  ASSUME ControlInv, DataType, SpokenInv, handleReadSockv5Req
  PROVE  SpokenInv'
<1> DEFINE op == "handleReadSockv5Req"
<1>1. op \in pend /\ op \in Setup
  BY DEF handleReadSockv5Req, ReadFromBrowser, BrowserFails, Runs, Fails, Setup
<1>2. Requests /\ req = 0 /\ upSent = 0 /\ UNCHANGED << asked, upSent >>
  BY <1>1 DEF Requests, SpokenInv, handleReadSockv5Req, Dialogue
<1>3. CASE pend' = {}
  BY <1>3 DEF SpokenInv, Greets, Requests, Linking
<1>4. ASSUME NEW k \in 1 .. Len(b2l), b2l' = SubSeq(b2l, k + 1, Len(b2l)),
             tmpB' = tmpB \o SubSeq(b2l, 1, k), pend' = {op}, req' = req
      PROVE  SpokenInv'
  <2>1. tmpB' \o b2l' = tmpB \o b2l
    BY <1>4, ReadMoves DEF DataType, BrowserTypeOK
  <2> QED
    BY <1>2, <1>4, <2>1
       DEF SpokenInv, Greets, Requests, Linking, Hearing, ReadAgain
<1>5. ASSUME NEW k \in 1 .. Len(b2l), b2l' = SubSeq(b2l, k + 1, Len(b2l)),
             MsgLen(tmpB \o SubSeq(b2l, 1, k)) > 0,
             tmpB' = Behind(tmpB \o SubSeq(b2l, 1, k)),
             req' = (tmpB \o SubSeq(b2l, 1, k))[1].v,
             pend' = {"handleConnectToRemote"}
      PROVE  SpokenInv'
  <2>1. /\ Len(tmpB \o b2l) >= 2 /\ req' = (tmpB \o b2l)[1].v
        /\ tmpB' \o b2l' = SubSeq(tmpB \o b2l, 3, Len(tmpB \o b2l))
    BY <1>5, DialogueTaken DEF DataType, BrowserTypeOK
  <2>2. PICK a \in ReqKinds : asked = "request" /\ tmpB \o b2l = ReqCells(a)
    <3>1. tmpB \o b2l # << >>
      BY <2>1
    <3> QED
      BY <1>2, <3>1 DEF SpokenInv
  <2>3. tmpB' \o b2l' = PortCells(req')
    BY <2>1, <2>2, RequestLeaves
  <2> QED
    BY <1>2, <1>5, <2>2, <2>3
       DEF SpokenInv, Greets, Requests, Linking, Hearing, ReadAgain
<1> QED
  BY <1>1, <1>3, <1>4, <1>5, SetupEnds
     DEF handleReadSockv5Req, ReadFromBrowser, BrowserReset

(* What is taken is the request of the browser.                            *)
LEMMA RequestIs ==
  ASSUME DataType, SpokenInv, LocalNext
  PROVE  req' = req \/ req' \in ReqKinds
<1> DEFINE op == "handleReadSockv5Req"
<1>1. ASSUME handleReadSockv5Req, req' # req PROVE req' \in ReqKinds
  <2>1. PICK k \in 1 .. Len(b2l) :
          /\ op \in pend
          /\ MsgLen(tmpB \o SubSeq(b2l, 1, k)) > 0
          /\ req' = (tmpB \o SubSeq(b2l, 1, k))[1].v
    BY <1>1 DEF handleReadSockv5Req, ReadFromBrowser, Runs
  <2>2. Len(tmpB \o b2l) >= 2 /\ req' = (tmpB \o b2l)[1].v
    BY <2>1, DialogueTaken DEF DataType, BrowserTypeOK
  <2>3. PICK a \in ReqKinds : tmpB \o b2l = ReqCells(a)
    <3>1. tmpB \o b2l # << >>
      BY <2>2
    <3> QED
      BY <2>1, <3>1 DEF SpokenInv, Requests
  <2> QED
    BY <2>2, <2>3, RequestLeaves
<1>2. CASE ~ handleReadSockv5Req
  BY <1>2 DEF LocalNext, handleReadHandShake, handleWriteHandShake,
       handleConnectToRemote, handleReadAuthRspFromRemote,
       handleReadAuthRspFromRemoteRead, handleWriteSockv5RspToBrowser,
       handleBeginPipeTransfer, handleReadDataFromBrowser, handleWriteDataToRemote,
       handleReadDataFromRemote, handleWriteDataToBrowser
<1> QED
  BY <1>1, <1>2

(* A step that leaves the dialogue where it is or is done with it.         *)
LEMMA SpokenStays ==
  ASSUME SpokenInv, UNCHANGED << tmpB, b2l, req, asked, upSent >>,
         Greets' => Greets, Requests' => Requests,
         Linking' => Linking, pend' # {} => pend # {},
         ~ (Greets' \/ Requests') => pend' = {} \/ ~ (Greets \/ Requests)
  PROVE  SpokenInv'
BY DEF SpokenInv

(* Every handler keeps the dialogue.                                       *)
LEMMA HandlersKeepSpoken ==
  ASSUME ControlInv, DataType, SpokenInv, LocalNext
  PROVE  SpokenInv'
<1> USE DEF Setup, Asking, Hearing, ReadAgain
<1>1. ASSUME NEW op \in Setup, op \in pend, UNCHANGED << tmpB, b2l, req, asked, upSent >>,
             \/ op = "handleWriteHandShake" /\ pend' \subseteq {"handleReadSockv5Req"}
             \/ /\ op \in {"handleConnectToRemote"} \cup Hearing
                /\ pend' \subseteq Hearing \cup {"handleBeginPipeTransfer"}
             \/ op = "handleBeginPipeTransfer" /\ pend' \subseteq UpPipe \cup DownPipe
      PROVE  SpokenInv'
  <2>1. pend = {op}
    BY <1>1, SetupEnds
  <2> QED
    BY <1>1, <2>1, SpokenStays
       DEF Greets, Requests, Linking, UpPipe, DownPipe
<1>2. CASE handleWriteHandShake
  <2>1. "handleWriteHandShake" \in pend
    BY <1>2 DEF handleWriteHandShake, Written, BrowserFails, Runs, Fails
  <2>2. pend' \subseteq {"handleReadSockv5Req"}
    BY <1>2, <2>1, SetupEnds DEF handleWriteHandShake, BrowserReset
  <2>3. UNCHANGED << tmpB, b2l, req, asked, upSent >>
    BY <1>2 DEF handleWriteHandShake, Dialogue
  <2> QED
    BY <1>1, <2>1, <2>2, <2>3
<1>3. CASE handleConnectToRemote
  <2>1. "handleConnectToRemote" \in pend
    BY <1>3 DEF handleConnectToRemote
  <2>2. pend' \subseteq {"handleReadAuthRspFromRemote"}
    BY <1>3, <2>1, SetupEnds DEF handleConnectToRemote
  <2>3. UNCHANGED << tmpB, b2l, req, asked, upSent >>
    BY <1>3 DEF handleConnectToRemote, Dialogue
  <2> QED
    BY <1>1, <2>1, <2>2, <2>3
<1>4. CASE handleReadAuthRspFromRemote
  <2>1. "handleReadAuthRspFromRemote" \in pend
    BY <1>4 DEF handleReadAuthRspFromRemote, Written, RemoteFails, Runs, Fails
  <2>2. pend' \subseteq {"handleWriteSockv5RspToBrowser"}
    BY <1>4, <2>1, SetupEnds DEF handleReadAuthRspFromRemote
  <2>3. UNCHANGED << tmpB, b2l, req, asked, upSent >>
    BY <1>4 DEF handleReadAuthRspFromRemote, Dialogue
  <2> QED
    BY <1>1, <2>1, <2>2, <2>3
<1>5. CASE handleReadAuthRspFromRemoteRead
  <2>1. ReadAgain \in pend
    BY <1>5 DEF handleReadAuthRspFromRemoteRead, ReadFromRemote, RemoteFails, Runs, Fails
  <2>2. pend' \subseteq {"handleWriteSockv5RspToBrowser"}
    BY <1>5, <2>1, SetupEnds DEF handleReadAuthRspFromRemoteRead
  <2>3. UNCHANGED << tmpB, b2l, req, asked, upSent >>
    BY <1>5 DEF handleReadAuthRspFromRemoteRead, Dialogue
  <2> QED
    BY <1>1, <2>1, <2>2, <2>3
<1>6. CASE handleWriteSockv5RspToBrowser
  <2>1. "handleWriteSockv5RspToBrowser" \in pend
    BY <1>6 DEF handleWriteSockv5RspToBrowser, ReadFromRemote, RemoteFails, Runs, Fails
  <2>2. pend' \subseteq {ReadAgain, "handleBeginPipeTransfer"}
    BY <1>6, <2>1, SetupEnds DEF handleWriteSockv5RspToBrowser
  <2>3. UNCHANGED << tmpB, b2l, req, asked, upSent >>
    BY <1>6 DEF handleWriteSockv5RspToBrowser, Dialogue
  <2> QED
    BY <1>1, <2>1, <2>2, <2>3
<1>7. CASE handleBeginPipeTransfer
  <2>1. "handleBeginPipeTransfer" \in pend
    BY <1>7 DEF handleBeginPipeTransfer, Written, BrowserFails, Runs, Fails
  <2>2. pend' \subseteq {"handleReadDataFromRemote", "handleReadDataFromBrowser"}
    BY <1>7, <2>1, SetupEnds DEF handleBeginPipeTransfer
  <2>3. UNCHANGED << tmpB, b2l, req, asked, upSent >>
    BY <1>7 DEF handleBeginPipeTransfer, Dialogue
  <2> QED
    BY <1>1, <2>1, <2>2, <2>3 DEF UpPipe, DownPipe
<1>8. CASE \/ handleReadDataFromBrowser \/ handleWriteDataToRemote
           \/ handleReadDataFromRemote \/ handleWriteDataToBrowser
  <2>1. PICK op \in UpPipe \cup DownPipe :
           /\ op \in pend
           /\ \/ \E new \in UpPipe \cup DownPipe : Start(op, {new})
              \/ (\E done : Shutdown(op, done)) \/ Throw
    BY <1>8 DEF handleReadDataFromBrowser, handleWriteDataToRemote,
         handleReadDataFromRemote, handleWriteDataToBrowser, ReadFromBrowser,
         ReadFromRemote, Written, BrowserFails, RemoteFails, Runs, Fails, UpPipe, DownPipe
  <2>2. pend \subseteq UpPipe \cup DownPipe /\ pend' \subseteq UpPipe \cup DownPipe
    BY <2>1, PipeEnds
  <2>3. asked' = asked
    BY <1>8 DEF handleReadDataFromBrowser, handleWriteDataToRemote,
         handleReadDataFromRemote, handleWriteDataToBrowser, Dialogue
  <2> QED
    BY <2>1, <2>2, <2>3
       DEF SpokenInv, Greets, Requests, Linking, UpPipe, DownPipe
<1> QED
  BY <1>2, <1>3, <1>4, <1>5, <1>6, <1>7, <1>8, GreetTaken, RequestTaken DEF LocalNext

(* The browser speaks when it is its turn.                                 *)
LEMMA BrowserKeepsSpoken ==
  ASSUME ControlInv, DataType, ToldInv, SpokenInv, BrowserNext,
         UNCHANGED << pend, tmpB, req >>
  PROVE  SpokenInv'
<1>1. /\ Greets' = Greets /\ Requests' = Requests /\ Linking' = Linking
      /\ tmpB \in Seq(Cell) /\ b2l \in Seq(Cell)
  BY DEF Greets, Requests, Linking, DataType, BrowserTypeOK
<1>2. CASE UNCHANGED << b2l, asked, upSent >>
  BY <1>1, <1>2 DEF SpokenInv
<1>3. Greets => Len(got) < 1
  <2> SUFFICES ASSUME Greets PROVE Len(got) < 1
    OBVIOUS
  <2>1. got \o l2b = << >> /\ got \in Seq(Seq(Cell)) /\ l2b \in Seq(Seq(Cell))
    BY DEF ToldInv, Chunks, Greets, DataType, BrowserTypeOK
  <2> QED
    BY <2>1, ConcatEmptySeq, EmptySeq, LenProperties
<1>4. Requests \/ Linking => Len(got) < 2
  <2> SUFFICES ASSUME Requests \/ Linking PROVE Len(got) < 2
    OBVIOUS
  <2>1. got \o l2b = << Greeting >>
    BY DEF ToldInv, Chunks, Requests, Linking, Greeted, Asking, Hearing
  <2>2. Len(got \o l2b) = Len(got) + Len(l2b) /\ Len(got) \in Nat /\ Len(l2b) \in Nat
    <3> DEFINE Strings == Seq(Cell)
    <3>1. got \in Seq(Strings) /\ l2b \in Seq(Strings)
      BY DEF DataType, BrowserTypeOK
    <3> HIDE DEF Strings
    <3> QED
      BY <3>1, ConcatProperties, LenProperties
  <2> QED
    BY <2>1, <2>2
<1>0. /\ Greets => ~ Requests /\ ~ Linking
      /\ Requests => ~ Linking
  <2>1. ASSUME NEW op \in Setup, op \in pend PROVE pend = {op}
    BY <2>1, SetupEnds
  <2> QED
    BY <2>1 DEF Greets, Requests, Linking, Setup, Hearing, ReadAgain
<1>5. ASSUME NEW g \in GreetKinds, Greet(g) PROVE SpokenInv'
  <2>1. asked = "nothing" /\ asked' = "greeting" /\ b2l' = b2l \o GreetCells(g)
        /\ upSent' = upSent
    BY <1>5 DEF Greet
  <2>2. Greets \/ pend = {}
    BY <2>1 DEF SpokenInv, Requests
  <2>3. CASE pend = {}
    BY <2>3 DEF SpokenInv, Greets, Requests, Linking
  <2>4. CASE Greets
    <3>1. GreetCells(g) \in Seq(Cell) /\ tmpB \o b2l = << >>
      BY <2>1, <2>4, BrowserCellsType DEF SpokenInv
    <3>2. tmpB' \o b2l' = (tmpB \o b2l) \o GreetCells(g)
      BY <1>1, <2>1, <3>1, ConcatAssociative
    <3>3. tmpB' \o b2l' = GreetCells(g)
      BY <3>1, <3>2, ConcatEmptySeq
    <3> QED
      BY <1>0, <1>1, <2>1, <2>4, <3>3 DEF SpokenInv
  <2> QED
    BY <2>2, <2>3, <2>4
<1>6. ASSUME NEW a \in ReqKinds, Request(a) PROVE SpokenInv'
  <2>1. asked = "greeting" /\ asked' = "request" /\ b2l' = b2l \o ReqCells(a)
        /\ upSent' = upSent /\ Len(got) >= 1 /\ Len(got) \in Nat
    BY <1>6, LenProperties DEF Request, DataType, BrowserTypeOK
  <2>2. ~ Greets
    BY <1>3, <2>1
  <2>3. CASE pend = {}
    BY <2>3 DEF SpokenInv, Greets, Requests, Linking
  <2>4. CASE Requests
    <3>1. ReqCells(a) \in Seq(Cell) /\ tmpB \o b2l = << >>
      BY <2>1, <2>4, BrowserCellsType DEF SpokenInv
    <3>2. tmpB' \o b2l' = (tmpB \o b2l) \o ReqCells(a)
      BY <1>1, <2>1, <3>1, ConcatAssociative
    <3>3. tmpB' \o b2l' = ReqCells(a)
      BY <3>1, <3>2, ConcatEmptySeq
    <3> QED
      BY <1>0, <1>1, <2>1, <2>2, <2>4, <3>3 DEF SpokenInv
  <2> QED
    BY <2>1, <2>2, <2>3, <2>4 DEF SpokenInv
<1>7. CASE SendData
  <2>1. asked = "request" /\ asked' = asked /\ Len(got) >= 2 /\ Len(got) \in Nat
    BY <1>7, LenProperties DEF SendData, DataType, BrowserTypeOK
  <2>2. ~ Greets /\ ~ Requests /\ ~ Linking
    BY <1>3, <1>4, <2>1
  <2> QED
    BY <1>1, <2>1, <2>2 DEF SpokenInv
<1>8. CASE BrowserReceives \/ BrowserCloses \/ BrowserResets
  BY <1>2, <1>8 DEF BrowserReceives, BrowserCloses, BrowserResets
<1> QED
  BY <1>5, <1>6, <1>7, <1>8 DEF BrowserNext

(* Before the pipe.                                                        *)
Early == Greets \/ Requests \/ Linking

(* The messages on the link after a handler, and what then still waits: a  *)
(* handler sends nothing, or the connect message, or what waited first.    *)
UpMoves(m, r) ==
  \/ /\ r = m
     /\ (Early' => Early) /\ (rsock' = "new" <=> rsock = "new")
     /\ pend' \cap Established # {} /\ sock' = "up" =>
          /\ sock = "up" /\ (Linking \/ pend \cap Established # {})
          /\ req' = req /\ Waits' = Waits
  \/ /\ Linking /\ pend' \cap Established = {} /\ rsock = "new" /\ rsock' = "up"
     /\ r = Append(m, ConnectMsg(<< C("connreq", req) >>))
  \/ /\ pend \cap Established # {} /\ sock = "up" /\ ~ Early' /\ req' = req
     /\ \E x \in Seq(Cell) : r = Append(m, DataMsg(x)) /\ x \o Waits' = Waits

UpCarried(m) == \E r \in Seq(Frame) : Carries((peerGot \o l2r)', r) /\ UpMoves(m, r)

(* One handler connects the link, and none takes the connection back.      *)
LEMMA LinkStays ==
  ASSUME \/ handleReadHandShake \/ handleWriteHandShake \/ handleReadSockv5Req
         \/ handleReadAuthRspFromRemote \/ handleReadAuthRspFromRemoteRead
         \/ handleWriteSockv5RspToBrowser \/ handleBeginPipeTransfer
         \/ handleReadDataFromBrowser \/ handleWriteDataToRemote
         \/ handleReadDataFromRemote \/ handleWriteDataToBrowser
  PROVE  rsock' = "new" <=> rsock = "new"
BY DEF handleReadHandShake, handleWriteHandShake, handleReadSockv5Req,
       handleReadAuthRspFromRemote, handleReadAuthRspFromRemoteRead,
       handleWriteSockv5RspToBrowser, handleBeginPipeTransfer,
       handleReadDataFromBrowser, handleWriteDataToRemote, handleReadDataFromRemote,
       handleWriteDataToBrowser, Start, Shutdown, Return, Throw, BrowserReset,
       CloseBoth, Close

(* The handlers of the dialogue send nothing.                              *)
LEMMA SetupCarries ==
  ASSUME ControlInv, DataType, UNCHANGED peerGot,
         NEW m \in Seq(Frame), Carries(peerGot \o l2r, m),
         \/ handleReadHandShake \/ handleWriteHandShake \/ handleReadSockv5Req
         \/ handleReadAuthRspFromRemote \/ handleReadAuthRspFromRemoteRead
  PROVE  UpCarried(m)
<1>1. l2r' = l2r
  BY DEF handleReadHandShake, handleWriteHandShake, handleReadSockv5Req,
         handleReadAuthRspFromRemote, handleReadAuthRspFromRemoteRead, Link
<1>2. PICK op \in {"handleReadHandShake", "handleWriteHandShake", "handleReadSockv5Req",
                   "handleReadAuthRspFromRemote", ReadAgain} :
         /\ op \in pend
         /\ pend' \subseteq {"handleReadHandShake", "handleWriteHandShake",
                             "handleReadSockv5Req", "handleConnectToRemote",
                             "handleWriteSockv5RspToBrowser"}
  <2>1. CASE handleReadHandShake
    <3>1. "handleReadHandShake" \in pend /\ "handleReadHandShake" \in Setup
      BY <2>1 DEF handleReadHandShake, ReadFromBrowser, BrowserFails, Runs, Fails, Setup
    <3> QED
      BY <2>1, <3>1, SetupEnds DEF handleReadHandShake, BrowserReset
  <2>2. CASE handleWriteHandShake
    <3>1. "handleWriteHandShake" \in pend /\ "handleWriteHandShake" \in Setup
      BY <2>2 DEF handleWriteHandShake, Written, BrowserFails, Runs, Fails, Setup
    <3> QED
      BY <2>2, <3>1, SetupEnds DEF handleWriteHandShake, BrowserReset
  <2>3. CASE handleReadSockv5Req
    <3>1. "handleReadSockv5Req" \in pend /\ "handleReadSockv5Req" \in Setup
      BY <2>3 DEF handleReadSockv5Req, ReadFromBrowser, BrowserFails, Runs, Fails, Setup
    <3> QED
      BY <2>3, <3>1, SetupEnds DEF handleReadSockv5Req, BrowserReset
  <2>4. CASE handleReadAuthRspFromRemote
    <3>1. "handleReadAuthRspFromRemote" \in pend /\ "handleReadAuthRspFromRemote" \in Setup
      BY <2>4 DEF handleReadAuthRspFromRemote, Written, RemoteFails, Runs, Fails, Setup
    <3> QED
      BY <2>4, <3>1, SetupEnds DEF handleReadAuthRspFromRemote
  <2>5. CASE handleReadAuthRspFromRemoteRead
    <3>1. ReadAgain \in pend /\ ReadAgain \in Setup
      BY <2>5 DEF handleReadAuthRspFromRemoteRead, ReadFromRemote, RemoteFails, Runs, Fails, Setup
    <3> QED
      BY <2>5, <3>1, SetupEnds DEF handleReadAuthRspFromRemoteRead
  <2> QED
    BY <2>1, <2>2, <2>3, <2>4, <2>5
<1>3. Early /\ pend' \cap Established = {}
  BY <1>2 DEF Early, Greets, Requests, Linking, Hearing, Established, UpPipe, DownPipe,
              ReadAgain
<1>4. rsock' = "new" <=> rsock = "new"
  BY LinkStays
<1>5. Carries((peerGot \o l2r)', m) /\ UpMoves(m, m)
  BY <1>1, <1>3, <1>4 DEF UpMoves
<1> QED
  BY <1>5 DEF UpCarried

(* What is written to the link comes behind what was.                      *)
LEMMA LinkGrows ==
  ASSUME DataType, NEW f \in Frame, NEW m \in Seq(Frame), Carries(peerGot \o l2r, m),
         UNCHANGED peerGot, l2r' = l2r \o Encoded(f)
  PROVE  Carries((peerGot \o l2r)', Append(m, f)) /\ Append(m, f) \in Seq(Frame)
<1> DEFINE e == Encoded(f)
<1>1. peerGot \in Seq(Piece) /\ l2r \in Seq(Piece) /\ e \in Seq(Piece)
  BY UpTypes, EncodedType
<1>2. Carries((peerGot \o l2r) \o e, Append(m, f)) /\ Append(m, f) \in Seq(Frame)
  BY UpTypes, CarriesMore, DataInGrows
<1> HIDE DEF e
<1>3. peerGot \o (l2r \o e) = (peerGot \o l2r) \o e
  BY <1>1, ConcatAssociative
<1>4. (peerGot \o l2r)' = peerGot \o (l2r \o e)
  BY DEF e
<1> QED
  BY <1>2, <1>3, <1>4

(* The connect message is the first that is sent.                          *)
LEMMA ConnectCarries ==
  ASSUME ControlInv, DataType, UNCHANGED peerGot,
         NEW m \in Seq(Frame), Carries(peerGot \o l2r, m), handleConnectToRemote
  PROVE  UpCarried(m)
<1> DEFINE op == "handleConnectToRemote"
           f == ConnectMsg(<< C("connreq", req) >>)
<1>1. op \in pend /\ op \in Setup /\ Linking
  BY DEF handleConnectToRemote, Setup, Linking
<1>2. f \in Frame
  <2>1. << C("connreq", req) >> \in Seq(Cell)
    BY CellType, SingletonType DEF DataType, CellTypes
  <2> QED
    BY <2>1, FrameType
<1> HIDE DEF f
<1>3. CASE Return(op) /\ UNCHANGED l2r
  <2>1. Early /\ pend' = {} /\ (rsock' = "new" <=> rsock = "new")
    BY <1>1, <1>3, SetupEnds DEF Early, Return, CloseBoth, Close
  <2>2. Carries((peerGot \o l2r)', m) /\ UpMoves(m, m)
    BY <1>3, <2>1 DEF UpMoves
  <2> QED
    BY <2>2 DEF UpCarried
<1>4. CASE /\ Connected(op, "handleReadAuthRspFromRemote")
           /\ l2r' = l2r \o Encoded(f)
  <2>1. pend' \cap Established = {}
    BY <1>1, <1>4, SetupEnds DEF Established, UpPipe, DownPipe
  <2>3. rsock = "new" /\ rsock' = "up"
    <3>1. op \in Asking
      BY DEF Asking
    <3>2. rsock = IF op \in Asking THEN "new" ELSE "up"
      BY <1>1, HandlersApart, SetupAlone DEF ControlInv
    <3> QED
      BY <1>4, <3>1, <3>2 DEF Connected
  <2>2. Carries((peerGot \o l2r)', Append(m, f)) /\ Append(m, f) \in Seq(Frame)
    BY <1>2, <1>4, LinkGrows
  <2>4. UpMoves(m, Append(m, f))
    BY <1>1, <2>1, <2>3 DEF UpMoves, f
  <2> QED
    BY <2>2, <2>4 DEF UpCarried
<1> QED
  BY <1>3, <1>4 DEF handleConnectToRemote, f

(* What waits when the pipe starts.                                        *)
LEMMA BeginCarries ==
  ASSUME ControlInv, DataType, UNCHANGED peerGot,
         NEW m \in Seq(Frame), Carries(peerGot \o l2r, m),
         handleWriteSockv5RspToBrowser \/ handleBeginPipeTransfer
  PROVE  UpCarried(m)
<1>1. UNCHANGED << l2r, tmpB, b2l, req >>
  BY DEF handleWriteSockv5RspToBrowser, handleBeginPipeTransfer, Link
<1>2. /\ sock = "up" /\ "handleWriteDataToRemote" \notin pend \cup pend'
      /\ (Linking \/ pend \cap Established # {}) /\ (Early' => Early)
  <2>2. CASE handleWriteSockv5RspToBrowser
    <3>0. "handleWriteSockv5RspToBrowser" \in pend /\ "handleWriteSockv5RspToBrowser" \in Setup
      BY <2>2 DEF handleWriteSockv5RspToBrowser, ReadFromRemote, RemoteFails, Runs, Fails, Setup
    <3>1. /\ pend = {"handleWriteSockv5RspToBrowser"} /\ sock = "up"
          /\ pend' \subseteq {ReadAgain, "handleBeginPipeTransfer"}
      BY <2>2, <3>0, SetupEnds DEF handleWriteSockv5RspToBrowser
    <3> QED
      BY <3>1 DEF Early, Linking, Hearing, ReadAgain
  <2>3. CASE handleBeginPipeTransfer
    <3>0. "handleBeginPipeTransfer" \in pend /\ "handleBeginPipeTransfer" \in Setup
      BY <2>3 DEF handleBeginPipeTransfer, Written, BrowserFails, Runs, Fails, Setup
    <3>1. /\ pend = {"handleBeginPipeTransfer"} /\ sock = "up"
          /\ pend' \subseteq {"handleReadDataFromRemote", "handleReadDataFromBrowser"}
      BY <2>3, <3>0, SetupEnds DEF handleBeginPipeTransfer
    <3> QED
      BY <3>1 DEF Early, Greets, Requests, Linking, Established, Hearing, ReadAgain
  <2> QED
    BY <2>2, <2>3
<1>3. Waits' = Waits
  BY <1>1, <1>2 DEF Waits, Held
<1>4. Carries((peerGot \o l2r)', m) /\ UpMoves(m, m)
  BY <1>1, <1>2, <1>3, LinkStays DEF UpMoves
<1> QED
  BY <1>4 DEF UpCarried

(* The pipe sends what waits, in order.                                    *)
LEMMA PipeCarries ==
  ASSUME ControlInv, DataType, UNCHANGED peerGot,
         NEW m \in Seq(Frame), Carries(peerGot \o l2r, m),
         \/ handleReadDataFromBrowser \/ handleWriteDataToRemote
         \/ handleReadDataFromRemote \/ handleWriteDataToBrowser
  PROVE  UpCarried(m)
<1>1. PICK op \in UpPipe \cup DownPipe :
         /\ op \in pend
         /\ \/ \E new \in UpPipe \cup DownPipe : Start(op, {new})
            \/ (\E done : Shutdown(op, done)) \/ Throw
  BY DEF handleReadDataFromBrowser, handleWriteDataToRemote,
       handleReadDataFromRemote, handleWriteDataToBrowser, ReadFromBrowser,
       ReadFromRemote, Written, BrowserFails, RemoteFails, Runs, Fails, UpPipe, DownPipe
<1>2. /\ pend \subseteq UpPipe \cup DownPipe /\ pend' \subseteq UpPipe \cup DownPipe
      /\ req' = req
  BY <1>1, PipeEnds DEF handleReadDataFromBrowser, handleWriteDataToRemote,
       handleReadDataFromRemote, handleWriteDataToBrowser
<1>3. /\ sock \in {"up", "closed"} /\ rsock \in {"up", "closed"} /\ (sock = "up" <=> rsock = "up")
      /\ sock = "up" => \E u \in UpPipe, d \in DownPipe : pend = {u, d}
  BY <1>1, HandlersApart
     DEF ControlInv, Phases, SettingUp, Piping, Closing, Gone, Apart, UpPipe, DownPipe
<1>4. ~ Early' /\ pend \cap Established # {}
  BY <1>1, <1>2 DEF Early, Greets, Requests, Linking, Hearing, Established, UpPipe,
                    DownPipe, ReadAgain
<1>5. (\E done : Shutdown(op, done)) \/ Throw => sock' = "closed"
  BY <1>3 DEF Shutdown, Throw, CloseBoth, Close
<1>6. ASSUME l2r' = l2r, sock' = "up" => sock = "up" /\ Waits' = Waits
      PROVE  UpCarried(m)
  <2>1. Carries((peerGot \o l2r)', m) /\ UpMoves(m, m)
    BY <1>2, <1>4, <1>6, LinkStays DEF UpMoves
  <2> QED
    BY <2>1 DEF UpCarried
<1>7. CASE handleReadDataFromRemote \/ handleWriteDataToBrowser
  <2>1. UNCHANGED << tmpB, b2l, l2r >>
    BY <1>7 DEF handleReadDataFromRemote, handleWriteDataToBrowser, Link
  <2>2. ASSUME sock' = "up" PROVE sock = "up" /\ Waits' = Waits
    <3>1. PICK new \in DownPipe, old \in DownPipe : Start(old, {new})
      BY <1>5, <1>7, <2>2
         DEF handleReadDataFromRemote, handleWriteDataToBrowser, DownPipe, Shutdown,
             Throw, CloseBoth, Close
    <3>2. sock = "up" /\ ("handleWriteDataToRemote" \in pend'
                            <=> "handleWriteDataToRemote" \in pend)
      BY <2>2, <3>1 DEF Start, DownPipe
    <3> QED
      BY <2>1, <3>2 DEF Waits, Held
  <2> QED
    BY <1>6, <2>1, <2>2
<1>8. CASE handleWriteDataToRemote
  <2> DEFINE up == "handleWriteDataToRemote"
  <2>1. l2r' = l2r /\ b2l' = b2l /\ up \in pend
    BY <1>8 DEF handleWriteDataToRemote, Link, Written, RemoteFails, Runs, Fails
  <2>2. ASSUME sock' = "up" PROVE sock = "up" /\ Waits' = Waits
    <3>1. Start(up, {"handleReadDataFromBrowser"}) /\ tmpB' = << >>
      BY <1>3, <1>8, <2>2 DEF handleWriteDataToRemote, Shutdown, CloseBoth, Close
    <3>2. sock = "up" /\ up \notin pend'
      BY <2>2, <3>1 DEF Start
    <3> QED
      BY <2>1, <3>1, <3>2 DEF Waits, Held
  <2> QED
    BY <1>6, <2>1, <2>2
<1>9. CASE handleReadDataFromBrowser
  <2> DEFINE op1 == "handleReadDataFromBrowser"
  <2>1. CASE Shutdown(op1, Done) /\ UNCHANGED l2r
    <3>1. sock' # "up"
      BY <1>3, <2>1 DEF Shutdown, CloseBoth, Close
    <3> QED
      BY <1>6, <2>1, <3>1
  <2>2. ASSUME NEW k \in 1 .. Len(b2l), ReadFromBrowser(op1, k),
               tmpB' = tmpB \o SubSeq(b2l, 1, k),
               l2r' = Sent(rsock, l2r, Encoded(DataMsg(tmpB \o SubSeq(b2l, 1, k)))),
               Start(op1, {"handleWriteDataToRemote"})
        PROVE  UpCarried(m)
    <3> DEFINE x == tmpB \o SubSeq(b2l, 1, k)
               f == DataMsg(x)
    <3>1. x \in Seq(Cell) /\ b2l' \in Seq(Cell) /\ x \o b2l' = tmpB \o b2l
      BY <2>2, UpTypes, CutType, BufferType, ReadMoves DEF ReadFromBrowser
    <3>2. f \in Frame
      BY <3>1, FrameType
    <3>3. sock' = sock /\ op1 \in pend /\ "handleWriteDataToRemote" \in pend'
      BY <2>2 DEF Start, ReadFromBrowser, Runs
    <3>4. CASE sock # "up"
      BY <1>3, <1>6, <2>2, <3>3, <3>4 DEF Sent
    <3>5. CASE sock = "up"
      <4>1. "handleWriteDataToRemote" \notin pend
        BY <1>3, <3>3, <3>5 DEF UpPipe, DownPipe
      <4>2. Waits = tmpB \o b2l /\ Waits' = << >> \o b2l'
        BY <3>3, <4>1 DEF Waits, Held
      <4>3. x \o Waits' = Waits
        BY <3>1, <4>2, ConcatEmptySeq
      <4> HIDE DEF x, f
      <4>4. l2r' = l2r \o Encoded(f)
        BY <1>3, <2>2, <3>5 DEF Sent, x, f
      <4>5. Carries((peerGot \o l2r)', Append(m, f)) /\ Append(m, f) \in Seq(Frame)
        BY <3>2, <4>4, LinkGrows
      <4>7. UpMoves(m, Append(m, f))
        BY <1>2, <1>4, <3>1, <3>5, <4>3 DEF UpMoves, f
      <4> QED
        BY <4>5, <4>7 DEF UpCarried
    <3> QED
      BY <3>4, <3>5
  <2> QED
    BY <1>9, <2>1, <2>2 DEF handleReadDataFromBrowser
<1> QED
  BY <1>7, <1>8, <1>9

(* Every handler.                                                          *)
LEMMA HandlersCarry ==
  ASSUME ControlInv, DataType, UNCHANGED peerGot, LocalNext,
         NEW m \in Seq(Frame), Carries(peerGot \o l2r, m)
  PROVE  UpCarried(m)
BY SetupCarries, ConnectCarries, BeginCarries, PipeCarries DEF LocalNext

(* So the session keeps the stream of the browser whole.                   *)
LEMMA HandlersKeepUp ==
  ASSUME ControlInv, DataType, SpokenInv, UpInv, Handler(LocalNext)
  PROVE  UpInv'
<1>1. PICK m \in Seq(Frame) : UpHeld(m)
  BY DEF UpInv
<1>2. /\ peerGot' = peerGot /\ LocalNext /\ upSent' = upSent /\ upSent \in Nat
      /\ req \in Nat
  BY DEF Handler, LocalNext, handleReadHandShake, handleWriteHandShake,
         handleReadSockv5Req, handleConnectToRemote, handleReadAuthRspFromRemote,
         handleReadAuthRspFromRemoteRead, handleWriteSockv5RspToBrowser,
         handleBeginPipeTransfer, handleReadDataFromBrowser, handleWriteDataToRemote,
         handleReadDataFromRemote, handleWriteDataToBrowser, Dialogue, DataType,
         BrowserTypeOK
<1>3. PICK r \in Seq(Frame) : Carries((peerGot \o l2r)', r) /\ UpMoves(m, r)
  BY <1>1, <1>2, HandlersCarry DEF UpHeld, UpCarried
<1>4. /\ DataIn(m) \in Seq(Cell) /\ Waits \in Seq(Cell) /\ Waits' \in Seq(Cell)
      /\ PortCells(req) \in Seq(Cell) /\ Tokens(upSent) \in Seq(Cell)
  <2>1. DataType'
    BY <1>2, HandshakeKeepsType, RequestKeepsType, ConnectKeepsType,
       ResponseKeepsType, FromBrowserKeepsType, FromRemoteKeepsType, WritesKeepType
       DEF Handler, LocalNext
  <2>2. PortCells(req) \in Seq(Cell)
    BY <1>2, CellType, SingletonType, EmptySeq DEF PortCells, CellTypes
  <2>3. Waits' \in Seq(Cell)
    <3>1. tmpB' \in Seq(Cell) /\ b2l' \in Seq(Cell)
      BY <2>1 DEF DataType, BrowserTypeOK
    <3>2. Held' \in Seq(Cell)
      BY <3>1, EmptySeq DEF Held
    <3> QED
      BY <3>1, <3>2, ConcatProperties DEF Waits
  <2> QED
    BY <1>2, <2>2, <2>3, UpTypes, DataInAdds, TokensGrow
<1>5. UpHeld(r)'
  <2>1. CASE /\ r = m /\ (Early' => Early)
             /\ pend' \cap Established # {} /\ sock' = "up" =>
                  /\ sock = "up" /\ (Linking \/ pend \cap Established # {})
                  /\ req' = req /\ Waits' = Waits
    <3>1. Early' => DataIn(r) = << >>
      BY <1>1, <2>1 DEF UpHeld, Early
    <3>2. ASSUME pend' \cap Established # {}, sock' = "up"
          PROVE  DataIn(r) \o Waits' = PortCells(req') \o Tokens(upSent')
      <4>1. CASE pend \cap Established # {}
        BY <1>1, <1>2, <2>1, <3>2, <4>1 DEF UpHeld
      <4>2. CASE Linking
        <5>1. DataIn(m) = << >> /\ tmpB \o b2l = PortCells(req) /\ upSent = 0
          BY <1>1, <4>2 DEF UpHeld, SpokenInv
        <5>2. "handleWriteDataToRemote" \notin pend
          <6>1. PICK op \in Setup : op \in pend /\ op # "handleWriteDataToRemote"
            BY <4>2 DEF Linking, Hearing, Setup, ReadAgain
          <6> QED
            BY <6>1, SetupEnds
        <5>3. Waits = PortCells(req)
          BY <5>1, <5>2 DEF Waits, Held
        <5>4. << >> \o PortCells(req) = PortCells(req) \o << >>
          BY <1>4, ConcatEmptySeq
        <5> QED
          BY <1>2, <2>1, <3>2, <5>1, <5>3, <5>4, NoTokens
      <4> QED
        BY <2>1, <3>2, <4>1, <4>2
    <3> QED
      BY <1>3, <3>1, <3>2 DEF UpHeld, Early
  <2>2. CASE /\ Linking /\ pend' \cap Established = {}
             /\ r = Append(m, ConnectMsg(<< C("connreq", req) >>))
    <3>1. DataIn(m) = << >>
      BY <1>1, <2>2 DEF UpHeld
    <3>2. ConnectMsg(<< C("connreq", req) >>) \in Frame
      <4>1. << C("connreq", req) >> \in Seq(Cell)
        BY <1>2, CellType, SingletonType DEF CellTypes
      <4> QED
        BY <4>1, FrameType
    <3>3. DataIn(r) = DataIn(m)
      BY <2>2, <3>2, DataInGrows DEF ConnectMsg
    <3> QED
      BY <1>3, <2>2, <3>1, <3>3 DEF UpHeld
  <2>3. CASE /\ pend \cap Established # {} /\ sock = "up" /\ ~ Early' /\ req' = req
             /\ \E x \in Seq(Cell) : r = Append(m, DataMsg(x)) /\ x \o Waits' = Waits
    <3>1. PICK x \in Seq(Cell) : r = Append(m, DataMsg(x)) /\ x \o Waits' = Waits
      BY <2>3
    <3>2. DataIn(r) = DataIn(m) \o x
      <4>1. DataMsg(x) \in Frame /\ DataMsg(x).sub = 2 /\ DataMsg(x).body = x
        BY FrameType DEF DataMsg
      <4> QED
        BY <3>1, <4>1, DataInGrows
    <3>3. DataIn(m) \in Seq(Cell) /\ x \in Seq(Cell) /\ Waits' \in Seq(Cell)
      BY <1>4
    <3>4. (DataIn(m) \o x) \o Waits' = DataIn(m) \o (x \o Waits')
      BY ONLY <3>3, Regroup
    <3>5. DataIn(m) \o Waits = PortCells(req) \o Tokens(upSent)
      BY <1>1, <2>3 DEF UpHeld
    <3>6. DataIn(r) \o Waits' = PortCells(req') \o Tokens(upSent')
      BY <1>2, <2>3, <3>1, <3>2, <3>4, <3>5
    <3> QED
      BY <1>3, <2>3, <3>6 DEF UpHeld, Early
  <2> QED
    BY <1>3, <2>1, <2>2, <2>3 DEF UpMoves
<1> QED
  BY <1>5 DEF UpInv

(* So do the steps of the browser.                                         *)
LEMMA BrowserKeepsUp ==
  ASSUME ControlInv, DataType, SpokenInv, UpInv, BrowserStep
  PROVE  UpInv'
<1>1. PICK m \in Seq(Frame) : UpHeld(m)
  BY DEF UpInv
<1>2. UNCHANGED << pend, sock, tmpB, req, l2r, peerGot >> /\ BrowserNext
  BY DEF BrowserStep, session, control, Link
<1>3. CASE UNCHANGED << b2l, upSent >>
  <2>1. UpHeld(m)'
    BY <1>1, <1>2, <1>3 DEF UpHeld, Waits, Held, Greets, Requests, Linking
  <2> QED
    BY <2>1 DEF UpInv
<1>4. CASE (\E g \in GreetKinds : Greet(g)) \/ (\E a \in ReqKinds : Request(a))
  <2>1. asked # "request" /\ upSent' = upSent
    BY <1>4 DEF Greet, Request
  <2>2. pend \cap Established = {}
    <3>1. (Greets \/ Requests) \/ pend = {}
      BY <2>1 DEF SpokenInv
    <3>2. ASSUME Greets \/ Requests PROVE pend \cap Established = {}
      <4>1. PICK op \in Setup : op \in pend /\ op \notin Established
        BY <3>2 DEF Greets, Requests, Setup, Established, UpPipe, DownPipe
      <4> QED
        BY <4>1, SetupEnds
    <3> QED
      BY <3>1, <3>2
  <2>3. UpHeld(m)'
    BY <1>1, <1>2, <2>2 DEF UpHeld, Greets, Requests, Linking
  <2> QED
    BY <2>3 DEF UpInv
<1>5. CASE SendData
  <2>1. /\ upSent \in Nat /\ upSent' = upSent + 1 /\ b2l \in Seq(Cell)
        /\ b2l' = Append(b2l, C("data", upSent + 1)) /\ Held \in Seq(Cell)
        /\ DataIn(m) \in Seq(Cell) /\ Waits = Held \o b2l
        /\ req \in Nat /\ Waits' = Held \o b2l'
    BY <1>2, <1>5, UpTypes, DataInAdds DEF SendData, DataType, BrowserTypeOK, Waits, Held
  <2>2. PortCells(req) \in Seq(Cell)
    BY <2>1, CellType, SingletonType, EmptySeq DEF PortCells, CellTypes
  <2>3. ASSUME DataIn(m) \o Waits = PortCells(req) \o Tokens(upSent)
        PROVE  DataIn(m) \o Waits' = PortCells(req) \o Tokens(upSent + 1)
    <3> DEFINE d == DataIn(m)
               p == PortCells(req)
               c == C("data", upSent + 1)
    <3>1. d \in Seq(Cell) /\ Held \in Seq(Cell) /\ b2l \in Seq(Cell) /\ p \in Seq(Cell)
          /\ c \in Cell /\ b2l' \in Seq(Cell)
      BY <2>1, <2>2, TokensGrow, AppendProperties
    <3>2. (d \o Held) \o b2l = d \o (Held \o b2l) /\ d \o Held \in Seq(Cell)
      BY ONLY <3>1, Regroup
    <3>3. (d \o Held) \o b2l' = d \o (Held \o b2l')
      BY ONLY <3>1, Regroup
    <3> HIDE DEF d, p, c
    <3>4. (d \o Held) \o b2l = p \o Tokens(upSent)
      BY <2>1, <2>3, <3>2 DEF d, p
    <3>5. (d \o Held) \o Append(b2l, C("data", upSent + 1)) = p \o Tokens(upSent + 1)
      <4> DEFINE x == d \o Held
      <4>1. /\ upSent \in Nat /\ p \in Seq(Cell) /\ x \in Seq(Cell) /\ b2l \in Seq(Cell)
            /\ x \o b2l = p \o Tokens(upSent)
        BY <2>1, <3>1, <3>2, <3>4
      <4> HIDE DEF x
      <4>2. x \o Append(b2l, C("data", upSent + 1)) = p \o Tokens(upSent + 1)
        BY ONLY <4>1, TokenSent
      <4> QED
        BY <4>2 DEF x
    <3> QED
      BY <2>1, <3>3, <3>5 DEF d, p
  <2>4. UpHeld(m)'
    BY <1>1, <1>2, <2>1, <2>3 DEF UpHeld, Greets, Requests, Linking
  <2> QED
    BY <2>4 DEF UpInv
<1> QED
  BY <1>2, <1>3, <1>4, <1>5
     DEF BrowserNext, BrowserReceives, BrowserCloses, BrowserResets

(* The server takes from the link.                                         *)
LEMMA PeerKeepsUp ==
  ASSUME DataType, UpInv, PeerStep \/ UNCHANGED vars
  PROVE  UpInv'
<1>1. PICK m \in Seq(Frame) : UpHeld(m)
  BY DEF UpInv
<1>2. UNCHANGED << pend, sock, tmpB, b2l, req, upSent >>
  BY DEF PeerStep, PeerAccepts, PeerSends, PeerReads, PeerCloses, vars, session,
         control, Dialogue
<1>3. (peerGot \o l2r)' = peerGot \o l2r
  <2>1. CASE PeerReads
    <3>1. peerGot \in Seq(Piece) /\ l2r \in Seq(Piece) /\ l2r # << >>
      BY <2>1 DEF DataType, PeerReads
    <3>2. (peerGot \o l2r)' = Append(peerGot, Head(l2r)) \o Tail(l2r)
      BY <2>1 DEF PeerReads
    <3> QED
      BY <3>1, <3>2, ReceiveMoves
  <2>2. CASE UNCHANGED << peerGot, l2r >>
    BY <2>2
  <2> QED
    BY <2>1, <2>2 DEF PeerStep, PeerAccepts, PeerSends, PeerCloses, vars, Link
<1>4. UpHeld(m)'
  BY <1>1, <1>2, <1>3 DEF UpHeld, Waits, Held, Greets, Requests, Linking
<1> QED
  BY <1>4 DEF UpInv

(* The dialogue runs as it should.                                         *)
THEOREM SpokenCorrect == Spec => [](HeardInv /\ ToldInv /\ SpokenInv)
<1>1. Init => SpokenInv
  <2> SUFFICES ASSUME Init PROVE SpokenInv
    OBVIOUS
  <2>1. << >> \o << >> = << >> /\ PortCells(0) = << >>
    BY ConcatEmptySeq DEF PortCells
  <2> QED
    BY <2>1 DEF Init, BrowserInit, LocalInit, SpokenInv, Greets, Requests, Linking,
                Hearing, ReadAgain
<1>2. ControlInv /\ DataType /\ ToldInv /\ SpokenInv /\ [Next]_vars => SpokenInv'
  <2> SUFFICES ASSUME ControlInv, DataType, ToldInv, SpokenInv, [Next]_vars
               PROVE  SpokenInv'
    OBVIOUS
  <2>1. CASE Handler(LocalNext)
    BY <2>1, HandlersKeepSpoken DEF Handler
  <2>2. CASE BrowserStep
    BY <2>2, BrowserKeepsSpoken DEF BrowserStep, session, control
  <2>3. CASE PeerStep \/ UNCHANGED vars
    <3>1. UNCHANGED << pend, tmpB, b2l, req, asked, upSent >>
      BY <2>3 DEF PeerStep, PeerAccepts, PeerSends, PeerReads, PeerCloses, vars, session,
                  control, Dialogue
    <3> QED
      BY <3>1 DEF SpokenInv, Greets, Requests, Linking
  <2> QED
    BY <2>1, <2>2, <2>3 DEF Next
<1> QED
  BY <1>1, <1>2, ControlCorrect, DataCorrect, ToldCorrect, PTL DEF Spec

(* UpConserved: however the stream of the browser and the pieces of the    *)
(* link are cut, no byte of it is lost, doubled or reordered between its   *)
(* request and the link, and what the request left behind goes first.      *)
THEOREM UpConservedHolds == Spec => []UpConserved
<1>1. Init => UpInv
  <2> SUFFICES ASSUME Init PROVE UpInv
    OBVIOUS
  <2>1. peerGot \o l2r = << >> /\ pend = {"handleReadHandShake"}
    BY ConcatEmptySeq DEF Init, LocalInit
  <2>2. UpHeld(<< >>) /\ << >> \in Seq(Frame)
    BY <2>1, CarriesNothing, ShortStreams DEF UpHeld, Established, UpPipe, DownPipe
  <2> QED
    BY <2>2 DEF UpInv
<1>2. ControlInv /\ DataType /\ SpokenInv /\ UpInv /\ [Next]_vars => UpInv'
  BY HandlersKeepUp, BrowserKeepsUp, PeerKeepsUp DEF Next
<1>3. ControlInv /\ DataType /\ SpokenInv /\ UpInv => UpConserved
  <2> SUFFICES ASSUME ControlInv, DataType, SpokenInv, UpInv,
                      sock = "up", rsock # "closed", req # 0
               PROVE  DataIn(Messages(peerGot \o l2r)) \o Held \o b2l
                        = PortCells(req) \o Tokens(upSent)
    BY DEF UpConserved, Held
  <2>1. PICK m \in Seq(Frame) : UpHeld(m)
    BY DEF UpInv
  <2>2. Messages(peerGot \o l2r) = m
    BY <2>1, UpTypes, CarriesMessages DEF UpHeld
  <2>3. DataIn(m) \in Seq(Cell) /\ Held \in Seq(Cell) /\ b2l \in Seq(Cell)
    BY UpTypes, DataInAdds
  <2>4. (DataIn(m) \o Held) \o b2l = DataIn(m) \o (Held \o b2l)
    BY ONLY <2>3, Regroup
  <2>5. CASE pend \cap Established # {}
    BY <2>1, <2>2, <2>4, <2>5 DEF UpHeld, Waits
  <2>6. CASE Linking
    <3>1. DataIn(m) = << >> /\ tmpB \o b2l = PortCells(req) /\ upSent = 0
      BY <2>1, <2>6 DEF UpHeld, SpokenInv
    <3>2. Held = tmpB
      <4>1. PICK op \in Setup : op \in pend /\ op # "handleWriteDataToRemote"
        BY <2>6 DEF Linking, Hearing, Setup, ReadAgain
      <4> QED
        BY <4>1, SetupEnds DEF Held
    <3>3. << >> \o PortCells(req) = PortCells(req) \o << >>
      <4>1. PortCells(req) \in Seq(Cell)
        BY CellType, SingletonType, EmptySeq DEF PortCells, CellTypes, DataType
      <4> QED
        BY <4>1, ConcatEmptySeq
    <3> QED
      BY <2>2, <2>4, <3>1, <3>2, <3>3, NoTokens
  <2>7. ~ (Greets \/ Requests)
    BY DEF SpokenInv
  <2>8. Linking \/ pend \cap Established # {}
    <3>1. pend \cap Setup # {} \/ pend \cap UpPipe # {}
      BY PhasesNoDeadDirection DEF ControlInv
    <3> QED
      BY <2>7, <3>1 DEF Greets, Requests, Linking, Setup, Established, Hearing
  <2> QED
    BY <2>5, <2>6, <2>8
<1> QED
  BY <1>1, <1>2, <1>3, ControlCorrect, DataCorrect, SpokenCorrect, PTL DEF Spec

-----------------------------------------------------------------------------
(* The stream of the server.  Until its answer is taken, nothing is.       *)
Unheard == pend \cap (Asking \cup Hearing) # {}

(* The data of the messages r is the end of that of the messages m.        *)
LeftOf(r, m) == \E x \in Seq(Cell) : x \o DataIn(r) = DataIn(m)

(* The messages kept and in flight after a handler that leaves the socket  *)
(* of the browser open: it takes the first of them, and their data goes to *)
(* the browser.                                                            *)
DownMoves(m, r) ==
  /\ LeftOf(r, m)
  /\ sock = "up"
  /\ BrowserGets' \o Payload(DataIn(r)) = BrowserGets \o Payload(DataIn(m))
  /\ Unheard' => Unheard /\ r = m

DownCarried(m) ==
  sock' = "up" => \E r \in Seq(Frame) : Carries((tmpR \o r2l)', r) /\ DownMoves(m, r)

(* The types of the stream of the server.                                  *)
LEMMA DownTypes ==
  ASSUME DataType
  PROVE  /\ got \in Seq(Seq(Cell)) /\ l2b \in Seq(Seq(Cell)) /\ Chunks \in Seq(Seq(Cell))
         /\ FlattenSeq(Chunks) \in Seq(Cell) /\ BrowserGets \in Seq(Cell)
         /\ BrowserGets = Payload(FlattenSeq(Chunks))
         /\ tmpR \in Seq(Piece) /\ r2l \in Seq(Piece) /\ tmpR \o r2l \in Seq(Piece)
         /\ peerSent \in Seq(Frame) /\ ServerSent \in Seq(Cell)
<1>1. /\ got \in Seq(Seq(Cell)) /\ l2b \in Seq(Seq(Cell))
      /\ tmpR \in Seq(Piece) /\ r2l \in Seq(Piece) /\ peerSent \in Seq(Frame)
  BY DEF DataType, BrowserTypeOK
<1>2. Chunks \in Seq(Seq(Cell)) /\ FlattenSeq(Chunks) \in Seq(Cell)
  BY <1>1, ChunksSent DEF Chunks
<1>3. BrowserGets \in Seq(Cell) /\ BrowserGets = Payload(FlattenSeq(Chunks))
  BY <1>2, PayloadAdds DEF BrowserGets, PayloadOf, Chunks
<1>4. ServerSent \in Seq(Cell)
  <2>1. DataIn(peerSent) \in Seq(Cell)
    BY <1>1, DataInAdds
  <2> QED
    BY <2>1, PayloadAdds DEF ServerSent
<1>5. tmpR \o r2l \in Seq(Piece)
  BY <1>1, ConcatProperties
<1> QED
  BY <1>1, <1>2, <1>3, <1>4, <1>5

(* Chunks written to an open socket are what the browser gets.             *)
LEMMA WrittenIsGot ==
  ASSUME DataType, NEW x \in Seq(Seq(Cell)), l2b' = Sent(sock, l2b, x), got' = got
  PROVE  /\ FlattenSeq(x) \in Seq(Cell) /\ Payload(FlattenSeq(x)) \in Seq(Cell)
         /\ sock = "up" => BrowserGets' = BrowserGets \o Payload(FlattenSeq(x))
         /\ sock # "up" => BrowserGets' = BrowserGets
<1>1. got \in Seq(Seq(Cell)) /\ l2b \in Seq(Seq(Cell)) /\ x \in Seq(Seq(Cell))
  BY DownTypes
<1>2. /\ FlattenSeq(got \o (l2b \o x)) = FlattenSeq(got \o l2b) \o FlattenSeq(x)
      /\ FlattenSeq(got \o l2b) \in Seq(Cell) /\ FlattenSeq(x) \in Seq(Cell)
  BY ONLY <1>1, ChunksWritten
<1>3. /\ Payload(FlattenSeq(x)) \in Seq(Cell)
      /\ Payload(FlattenSeq(got \o l2b) \o FlattenSeq(x))
           = Payload(FlattenSeq(got \o l2b)) \o Payload(FlattenSeq(x))
  BY ONLY <1>2, PayloadAdds
<1>4. CASE sock = "up"
  <2>1. (got \o l2b)' = got \o (l2b \o x)
    BY <1>4 DEF Sent
  <2> QED
    BY <1>2, <1>3, <1>4, <2>1 DEF BrowserGets, PayloadOf
<1>5. CASE sock # "up"
  BY <1>2, <1>3, <1>5 DEF BrowserGets, PayloadOf, Sent
<1> QED
  BY <1>4, <1>5

(* A chunk of one cell that is no data.                                    *)
LEMMA NoPayload ==
  ASSUME NEW c \in Cell, c.t # "data"
  PROVE  << << c >> >> \in Seq(Seq(Cell)) /\ Payload(FlattenSeq(<< << c >> >>)) = << >>
<1> DEFINE x == << c >>
<1>1. x \in Seq(Cell) /\ Payload(x) = << >>
  BY ShortStreams DEF IsData
<1> HIDE DEF x
<1>2. << x >> \in Seq(Seq(Cell)) /\ FlattenSeq(<< x >>) = x
  BY <1>1, SingletonType, FlattenSingle
<1> QED
  BY <1>1, <1>2 DEF x

(* A read of the link moves pieces to the receive buffer ...               *)
LEMMA RemoteKept ==
  ASSUME DataType, NEW m, Carries(tmpR \o r2l, m),
         NEW k \in 1 .. Len(r2l), r2l' = SubSeq(r2l, k + 1, Len(r2l)),
         tmpR' = tmpR \o SubSeq(r2l, 1, k)
  PROVE  Carries((tmpR \o r2l)', m)
<1>1. tmpR' \o r2l' = tmpR \o r2l
  BY ReadMoves DEF DataType
<1> QED
  BY <1>1

(* ... and what is taken out of the buffer are the first messages.         *)
LEMMA RemoteTaken ==
  ASSUME DataType, NEW m \in Seq(Frame), Carries(tmpR \o r2l, m),
         NEW k \in 1 .. Len(r2l), r2l' = SubSeq(r2l, k + 1, Len(r2l)),
         NEW n \in Counts(tmpR \o SubSeq(r2l, 1, k)),
         tmpR' = After(tmpR \o SubSeq(r2l, 1, k), n)
  PROVE  /\ Without(m, n) \in Seq(Frame) /\ Carries((tmpR \o r2l)', Without(m, n))
         /\ DataBodies(tmpR \o SubSeq(r2l, 1, k), n) \in Seq(Seq(Cell))
         /\ FlattenSeq(DataBodies(tmpR \o SubSeq(r2l, 1, k), n)) \o DataIn(Without(m, n))
              = DataIn(m)
<1> DEFINE buf == tmpR \o SubSeq(r2l, 1, k)
           rest == SubSeq(r2l, k + 1, Len(r2l))
<1>1. buf \in Seq(Piece) /\ rest \in Seq(Piece)
  BY CutType, BufferType DEF DataType
<1>2. buf \o rest = tmpR \o r2l
  BY ReadMoves DEF DataType
<1>3. (tmpR \o r2l)' = After(buf, n) \o rest /\ n \in Counts(buf)
  OBVIOUS
<1>4. DataBodies(buf, n) = DataBodiesOf(buf, n)
  BY DEF DataBodies, DataBodiesOf
<1> HIDE DEF buf, rest
<1>5. Carries(buf \o rest, m)
  BY <1>2
<1>6. /\ Without(m, n) \in Seq(Frame)
      /\ Carries(After(buf, n) \o rest, Without(m, n))
      /\ DataBodiesOf(buf, n) \in Seq(Seq(Cell))
      /\ FlattenSeq(DataBodiesOf(buf, n)) \o DataIn(Without(m, n)) = DataIn(m)
  BY <1>1, <1>3, <1>5, DrainAdds
<1>7. Carries((tmpR \o r2l)', Without(m, n))
  BY <1>3, <1>6
<1> QED
  BY <1>4, <1>6, <1>7 DEF buf

(* What is taken out of the buffer and written to an open socket.          *)
LEMMA TakenIsGot ==
  ASSUME DataType, sock = "up", NEW x \in Seq(Seq(Cell)), got' = got,
         l2b' = Sent(sock, l2b, x), NEW m \in Seq(Frame), NEW r \in Seq(Frame),
         FlattenSeq(x) \o DataIn(r) = DataIn(m)
  PROVE  BrowserGets' \o Payload(DataIn(r)) = BrowserGets \o Payload(DataIn(m))
<1>1. FlattenSeq(x) \in Seq(Cell) /\ DataIn(r) \in Seq(Cell)
  BY WrittenIsGot, DataInAdds
<1>2. Payload(FlattenSeq(x) \o DataIn(r)) = Payload(FlattenSeq(x)) \o Payload(DataIn(r))
      /\ Payload(DataIn(r)) \in Seq(Cell)
  BY ONLY <1>1, PayloadAdds
<1>3. /\ BrowserGets \in Seq(Cell) /\ Payload(FlattenSeq(x)) \in Seq(Cell)
      /\ Payload(DataIn(r)) \in Seq(Cell)
      /\ BrowserGets' = BrowserGets \o Payload(FlattenSeq(x))
  BY <1>2, DownTypes, WrittenIsGot
<1>4. (BrowserGets \o Payload(FlattenSeq(x))) \o Payload(DataIn(r))
        = BrowserGets \o (Payload(FlattenSeq(x)) \o Payload(DataIn(r)))
  BY ONLY <1>3, Regroup
<1> QED
  BY <1>2, <1>3, <1>4

(* A handler neither opens a socket nor asks again.                        *)
LEMMA HandlersDirect ==
  ASSUME ControlInv, LocalNext
  PROVE  (sock' = "up" => sock = "up") /\ (Unheard' => Unheard)
<1>1. PICK op \in Ops : op \in pend
  BY DEF LocalNext, handleReadHandShake, handleWriteHandShake,
         handleReadSockv5Req, handleConnectToRemote, handleReadAuthRspFromRemote,
         handleReadAuthRspFromRemoteRead, handleWriteSockv5RspToBrowser,
         handleBeginPipeTransfer, handleReadDataFromBrowser, handleWriteDataToRemote,
         handleReadDataFromRemote, handleWriteDataToBrowser, ReadFromBrowser,
         ReadFromRemote, Written, BrowserFails, RemoteFails, Runs, Fails, Ops,
         BrowserReads, BrowserWrites, RemoteReads, RemoteWrites
<1>2. sock \in {"up", "closed"}
  BY DEF ControlInv, Phases, SettingUp, Piping, Closing, Gone
<1>3. sock' = sock \/ sock' = "closed"
  BY <1>2 DEF LocalNext, handleReadHandShake, handleWriteHandShake,
         handleReadSockv5Req, handleConnectToRemote, handleReadAuthRspFromRemote,
         handleReadAuthRspFromRemoteRead, handleWriteSockv5RspToBrowser,
         handleBeginPipeTransfer, handleReadDataFromBrowser, handleWriteDataToRemote,
         handleReadDataFromRemote, handleWriteDataToBrowser, Start, Connected, Shutdown,
         Return, Throw, BrowserReset, CloseBoth, Close
<1>4. Unheard' => Unheard
  <2>1. CASE \/ handleReadDataFromBrowser \/ handleWriteDataToRemote
             \/ handleReadDataFromRemote \/ handleWriteDataToBrowser
    <3>1. PICK o \in UpPipe \cup DownPipe :
             /\ o \in pend
             /\ \/ \E new \in UpPipe \cup DownPipe : Start(o, {new})
                \/ (\E done : Shutdown(o, done)) \/ Throw
      BY <2>1 DEF handleReadDataFromBrowser, handleWriteDataToRemote,
           handleReadDataFromRemote, handleWriteDataToBrowser, ReadFromBrowser,
           ReadFromRemote, Written, BrowserFails, RemoteFails, Runs, Fails, UpPipe, DownPipe
    <3>2. pend' \subseteq UpPipe \cup DownPipe
      BY <3>1, PipeEnds
    <3> QED
      BY <3>2 DEF Unheard, Asking, Hearing, UpPipe, DownPipe, ReadAgain
  <2>2. CASE handleBeginPipeTransfer
    <3>1. "handleBeginPipeTransfer" \in pend /\ "handleBeginPipeTransfer" \in Setup
      BY <2>2 DEF handleBeginPipeTransfer, Written, BrowserFails, Runs, Fails, Setup
    <3>2. pend' \subseteq {"handleReadDataFromRemote", "handleReadDataFromBrowser"}
      BY <2>2, <3>1, SetupEnds DEF handleBeginPipeTransfer
    <3> QED
      BY <3>2 DEF Unheard, Asking, Hearing, ReadAgain
  <2>3. CASE \/ handleReadHandShake \/ handleWriteHandShake \/ handleReadSockv5Req
             \/ handleConnectToRemote \/ handleReadAuthRspFromRemote
             \/ handleReadAuthRspFromRemoteRead \/ handleWriteSockv5RspToBrowser
    BY <2>3 DEF handleReadHandShake, handleWriteHandShake, handleReadSockv5Req,
         handleConnectToRemote, handleReadAuthRspFromRemote,
         handleReadAuthRspFromRemoteRead, handleWriteSockv5RspToBrowser, ReadFromBrowser,
         ReadFromRemote, Written, BrowserFails, RemoteFails, Runs, Fails, Unheard,
         Asking, Hearing
  <2> QED
    BY <2>1, <2>2, <2>3 DEF LocalNext
<1> QED
  BY <1>3, <1>4

(* All is left where nothing is taken.                                     *)
LEMMA AllIsLeft ==
  ASSUME NEW m \in Seq(Frame)
  PROVE  LeftOf(m, m)
<1>1. << >> \in Seq(Cell) /\ DataIn(m) \in Seq(Cell)
  BY DataInAdds
<1>2. << >> \o DataIn(m) = DataIn(m)
  BY <1>1, ConcatEmptySeq
<1> QED
  BY <1>1, <1>2 DEF LeftOf

(* The answer to the greeting is no data.                                  *)
LEMMA HandshakeGives ==
  ASSUME ControlInv, DataType, handleReadHandShake
  PROVE  BrowserGets' = BrowserGets /\ UNCHANGED << tmpR, r2l >>
<1>1. "handleReadHandShake" \in pend /\ "handleReadHandShake" \in Setup
  BY DEF handleReadHandShake, ReadFromBrowser, BrowserFails, Runs, Fails, Setup
<1>2. got' = got /\ UNCHANGED << tmpR, r2l >> /\ sock = "up"
  BY <1>1, SetupEnds DEF handleReadHandShake, Link, Dialogue
<1>3. CASE l2b' = l2b
  BY <1>2, <1>3 DEF BrowserGets
<1>4. CASE l2b' = Append(l2b, << C("greetrsp", 0) >>)
  <2> DEFINE c == C("greetrsp", 0)
  <2>1. c \in Cell /\ c.t # "data"
    BY CellType DEF CellTypes, C
  <2> HIDE DEF c
  <2>2. << << c >> >> \in Seq(Seq(Cell)) /\ Payload(FlattenSeq(<< << c >> >>)) = << >>
        /\ << c >> \in Seq(Cell)
    BY <2>1, NoPayload, SingletonType
  <2>3. Append(l2b, << c >>) = l2b \o << << c >> >>
    BY <2>2, DownTypes, AppendIsConcat
  <2>4. l2b' = Sent(sock, l2b, << << c >> >>)
    BY <1>2, <1>4, <2>3 DEF Sent, c
  <2>5. BrowserGets' = BrowserGets \o << >>
    BY <1>2, <2>2, <2>4, WrittenIsGot
  <2> QED
    BY <1>2, <2>5, DownTypes, ConcatEmptySeq
<1> QED
  BY <1>2, <1>3, <1>4 DEF handleReadHandShake

(* The answer of the server that is accepted is no data, nor is the reply. *)
LEMMA AnswerGives ==
  ASSUME ControlInv, DataType, handleWriteSockv5RspToBrowser,
         NEW m \in Seq(Frame), Carries(tmpR \o r2l, m)
  PROVE  DownCarried(m)
<1> DEFINE op == "handleWriteSockv5RspToBrowser"
<1>1. op \in pend /\ op \in Setup
  BY DEF handleWriteSockv5RspToBrowser, ReadFromRemote, RemoteFails, Runs, Fails, Setup
<1>2. sock = "up" /\ Unheard /\ got' = got
  BY <1>1, SetupEnds DEF Unheard, Hearing, handleWriteSockv5RspToBrowser, Dialogue
<1>3. CASE sock' # "up"
  BY <1>3 DEF DownCarried
<1>4. ASSUME NEW k \in 1 .. Len(r2l), ReadFromRemote(op, k), l2b' = l2b,
             tmpR' = tmpR \o SubSeq(r2l, 1, k)
      PROVE  DownCarried(m)
  <2>1. Carries((tmpR \o r2l)', m)
    BY <1>4, RemoteKept DEF ReadFromRemote
  <2>2. DownMoves(m, m)
    BY <1>2, <1>4, AllIsLeft DEF DownMoves, BrowserGets
  <2> QED
    BY <2>1, <2>2 DEF DownCarried
<1>5. ASSUME NEW k \in 1 .. Len(r2l), ReadFromRemote(op, k),
             tmpR' = After(tmpR \o SubSeq(r2l, 1, k), 1),
             ConnectRspOk(tmpR \o SubSeq(r2l, 1, k)),
             l2b' = Sent(sock, l2b, << << C("reply", req) >> >>),
             Start(op, {"handleBeginPipeTransfer"})
      PROVE  DownCarried(m)
  <2> DEFINE buf == tmpR \o SubSeq(r2l, 1, k)
             r == Without(m, 1)
             x == DataBodies(buf, 1)
  <2>1. buf \in Seq(Piece) /\ Len(buf) \in Nat
    BY BufferType, LenProperties DEF DataType
  <2>2. 1 \in Counts(buf) /\ r2l' = SubSeq(r2l, k + 1, Len(r2l))
    <3>1. 2 * 1 <= Len(buf)
      BY <1>5 DEF ConnectRspOk, FrameOk, Intact
    <3> QED
      BY <1>5, <3>1 DEF Counts, ReadFromRemote
  <2>3. /\ r \in Seq(Frame) /\ Carries((tmpR \o r2l)', r)
        /\ x \in Seq(Seq(Cell)) /\ FlattenSeq(x) \o DataIn(r) = DataIn(m)
    BY <1>5, <2>2, RemoteTaken
  <2>4. pend' \subseteq {"handleBeginPipeTransfer"} /\ LeftOf(r, m)
    BY <1>1, <1>5, <2>3, SetupEnds, FlattenType DEF LeftOf
  <2>5. ~ Unheard'
    BY <2>4 DEF Unheard, Asking, Hearing, ReadAgain
  <2>7. DownCarried(m)
    <3> DEFINE a == C("connrsp", 0)
               c == C("reply", req)
    <3>1. a \in Cell /\ a.t # "data" /\ c \in Cell /\ c.t # "data"
      BY CellType DEF CellTypes, DataType, C
    <3> HIDE DEF a, c
    <3>2. /\ << a >> \in Seq(Cell) /\ Payload(FlattenSeq(<< << a >> >>)) = << >>
          /\ << << c >> >> \in Seq(Seq(Cell)) /\ Payload(FlattenSeq(<< << c >> >>)) = << >>
      BY <3>1, NoPayload, SingletonType
    <3>3. x = << << >> >> \/ x = << << a >> >>
      BY <1>5 DEF DataBodies, ConnectRspOk, a
    <3>4. Payload(FlattenSeq(x)) = << >>
      <4>1. << >> \in Seq(Cell)
        OBVIOUS
      <4>2. Payload(FlattenSeq(<< << >> >>)) = << >>
        BY <4>1, FlattenSingle, ShortStreams
      <4> QED
        BY <3>2, <3>3, <4>2
    <3> HIDE DEF x, r
    <3>5. Payload(DataIn(m)) = Payload(DataIn(r))
      <4>1. FlattenSeq(x) \in Seq(Cell) /\ DataIn(r) \in Seq(Cell)
        BY <2>3, FlattenType, DataInAdds
      <4>2. /\ Payload(FlattenSeq(x) \o DataIn(r)) = Payload(FlattenSeq(x)) \o Payload(DataIn(r))
            /\ Payload(DataIn(r)) \in Seq(Cell)
        BY ONLY <4>1, PayloadAdds
      <4> QED
        BY <2>3, <3>4, <4>2, ConcatEmptySeq
    <3>6. BrowserGets' = BrowserGets
      <4>1. BrowserGets' = BrowserGets \o << >>
        BY <1>2, <1>5, <3>2, WrittenIsGot DEF c
      <4> QED
        BY <4>1, DownTypes, ConcatEmptySeq
    <3>7. DownMoves(m, r)
      BY <1>2, <2>4, <2>5, <3>5, <3>6 DEF DownMoves
    <3> QED
      BY <2>3, <3>7 DEF DownCarried
  <2> QED
    BY <2>7
<1>6. \A d : Shutdown(op, d) \/ Throw => sock' # "up"
  BY <1>2 DEF Shutdown, Throw, CloseBoth, Close
<1> QED
  BY <1>3, <1>4, <1>5, <1>6 DEF handleWriteSockv5RspToBrowser

(* A read of the pipe gives the browser the data of the messages it takes; *)
(* a message that does not check, or a socket closed before, ends the      *)
(* stream.                                                                 *)
LEMMA PipeGives ==
  ASSUME ControlInv, DataType, handleReadDataFromRemote,
         NEW m \in Seq(Frame), Carries(tmpR \o r2l, m)
  PROVE  DownCarried(m)
<1> DEFINE op == "handleReadDataFromRemote"
<1> SUFFICES ASSUME sock' = "up" PROVE DownCarried(m)
  BY DEF DownCarried
<1>1. got' = got /\ sock \in {"up", "closed"}
  BY DEF ControlInv, Phases, SettingUp, Piping, Closing, Gone, handleReadDataFromRemote,
         Dialogue
<1>2. sock = "up" /\ ~ Unheard'
  <2>1. op \in pend /\ op \in UpPipe \cup DownPipe
    BY DEF handleReadDataFromRemote, ReadFromRemote, RemoteFails, Runs, Fails, DownPipe
  <2>2. pend' \subseteq UpPipe \cup DownPipe
    BY <2>1, PipeEnds DEF handleReadDataFromRemote, DownPipe
  <2>3. sock' = "up" => sock = "up"
    BY HandlersDirect DEF LocalNext
  <2> QED
    BY <2>2, <2>3 DEF Unheard, Asking, Hearing, UpPipe, DownPipe, ReadAgain
<1>3. \A d : ~ Shutdown(op, d) /\ ~ Throw
  BY <1>1 DEF Shutdown, Throw, CloseBoth, Close
<1>4. ASSUME NEW k \in 1 .. Len(r2l), ReadFromRemote(op, k), l2b' = l2b,
             tmpR' = tmpR \o SubSeq(r2l, 1, k)
      PROVE  DownCarried(m)
  <2>1. Carries((tmpR \o r2l)', m)
    BY <1>4, RemoteKept DEF ReadFromRemote
  <2>2. DownMoves(m, m)
    BY <1>1, <1>2, <1>4, AllIsLeft DEF DownMoves, BrowserGets
  <2> QED
    BY <2>1, <2>2 DEF DownCarried
<1>5. ASSUME NEW k \in 1 .. Len(r2l), ReadFromRemote(op, k),
             NEW n \in Counts(tmpR \o SubSeq(r2l, 1, k)),
             tmpR' = After(tmpR \o SubSeq(r2l, 1, k), n),
             l2b' = Sent(sock, l2b, DataBodies(tmpR \o SubSeq(r2l, 1, k), n))
      PROVE  DownCarried(m)
  <2> DEFINE x == DataBodies(tmpR \o SubSeq(r2l, 1, k), n)
             r == Without(m, n)
  <2>1. /\ r \in Seq(Frame) /\ Carries((tmpR \o r2l)', r)
        /\ x \in Seq(Seq(Cell)) /\ FlattenSeq(x) \o DataIn(r) = DataIn(m)
    BY <1>5, RemoteTaken DEF ReadFromRemote
  <2> HIDE DEF x, r
  <2>2. LeftOf(r, m)
    BY <2>1, FlattenType DEF LeftOf
  <2>3. BrowserGets' \o Payload(DataIn(r)) = BrowserGets \o Payload(DataIn(m))
    BY <1>1, <1>2, <1>5, <2>1, TakenIsGot DEF x
  <2>4. DownMoves(m, r)
    BY <1>2, <2>2, <2>3 DEF DownMoves
  <2> QED
    BY <2>1, <2>4 DEF DownCarried
<1> QED
  BY <1>3, <1>4, <1>5, ExtractsCounts DEF handleReadDataFromRemote

(* Every handler but the read whose bytes are dropped.                     *)
LEMMA HandlersGive ==
  ASSUME ControlInv, DataType, LocalNext, ReadAgain \notin pend,
         NEW m \in Seq(Frame), Carries(tmpR \o r2l, m)
  PROVE  DownCarried(m)
<1>1. (sock' = "up" => sock = "up") /\ (Unheard' => Unheard)
  BY HandlersDirect
<1>2. ASSUME BrowserGets' = BrowserGets, UNCHANGED << tmpR, r2l >> PROVE DownCarried(m)
  <2>1. sock' = "up" => Carries((tmpR \o r2l)', m) /\ DownMoves(m, m)
    BY <1>1, <1>2, AllIsLeft DEF DownMoves
  <2> QED
    BY <2>1 DEF DownCarried
<1>3. CASE \/ handleWriteHandShake \/ handleReadSockv5Req \/ handleConnectToRemote
           \/ handleReadAuthRspFromRemote \/ handleBeginPipeTransfer
           \/ handleReadDataFromBrowser \/ handleWriteDataToRemote
           \/ handleWriteDataToBrowser
  <2>1. UNCHANGED << got, l2b, tmpR, r2l >>
    BY <1>3 DEF handleWriteHandShake, handleReadSockv5Req, handleConnectToRemote,
         handleReadAuthRspFromRemote, handleBeginPipeTransfer,
         handleReadDataFromBrowser, handleWriteDataToRemote, handleWriteDataToBrowser,
         Dialogue, Link
  <2> QED
    BY <1>2, <2>1 DEF BrowserGets
<1>4. ~ handleReadAuthRspFromRemoteRead
  BY DEF handleReadAuthRspFromRemoteRead, ReadFromRemote, RemoteFails, Runs, Fails
<1> QED
  BY <1>2, <1>3, <1>4, HandshakeGives, AnswerGives, PipeGives DEF LocalNext

(* Nothing is given through a closed socket.                               *)
LEMMA ClosedGivesNothing ==
  ASSUME ControlInv, LocalNext, sock' # "up"
  PROVE  Chunks' = Chunks
<1>1. got' = got
  BY DEF LocalNext, handleReadHandShake, handleWriteHandShake,
         handleReadSockv5Req, handleConnectToRemote, handleReadAuthRspFromRemote,
         handleReadAuthRspFromRemoteRead, handleWriteSockv5RspToBrowser,
         handleBeginPipeTransfer, handleReadDataFromBrowser, handleWriteDataToRemote,
         handleReadDataFromRemote, handleWriteDataToBrowser, Dialogue
<1>2. CASE handleReadHandShake
  <2>1. "handleReadHandShake" \in pend /\ "handleReadHandShake" \in Setup
    BY <1>2 DEF handleReadHandShake, ReadFromBrowser, BrowserFails, Runs, Fails, Setup
  <2>2. sock = "up"
    BY <2>1, SetupEnds
  <2> QED
    BY <1>1, <1>2, <2>2 DEF handleReadHandShake, Start, Chunks
<1>3. CASE handleWriteSockv5RspToBrowser \/ handleReadDataFromRemote
  BY <1>1, <1>3
     DEF handleWriteSockv5RspToBrowser, handleReadDataFromRemote, Start, Chunks, Sent
<1>4. CASE l2b' = l2b
  BY <1>1, <1>4 DEF Chunks
<1> QED
  BY <1>2, <1>3, <1>4
     DEF LocalNext, handleWriteHandShake, handleReadSockv5Req, handleConnectToRemote,
         handleReadAuthRspFromRemote, handleReadAuthRspFromRemoteRead,
         handleBeginPipeTransfer, handleReadDataFromBrowser, handleWriteDataToRemote,
         handleWriteDataToBrowser

-----------------------------------------------------------------------------
(* The answer of the server can be cut: then its first piece is kept, and  *)
(* of what the next read brings nothing is (Session.cpp:174-178).          *)
Lost == "handleWriteSockv5RspToBrowser" \in pend /\ tmpR # << >>
Cutting == ReadAgain \in pend \/ Lost

(* What then is read belongs to later messages of the server, so that it   *)
(* completes the answer only if one of them is the answer again.  If it    *)
(* does not, the buffer is garbled for good, as it is by an answer that is *)
(* no frame.                                                               *)
CutInv ==
  /\ Cutting => cut /\ (Garbled(tmpR) \/ Len(tmpR) = 1)
  /\ cut /\ Unheard => Cutting
  /\ Unheard => tmpR = << >> \/ Cutting
  /\ ReadAgain \in pend => Garbled(tmpR) \/ Carries(tmpR \o r2l, peerSent)
  /\ Lost => \/ Garbled(tmpR)
             \/ \A j \in 1 .. Len(r2l) : \E i \in 2 .. Len(peerSent) : r2l[j].f = peerSent[i]
  /\ cut /\ AnswersOnce => Silent
(* The stream of the server while its answer was not cut.                  *)
DownHeld(m) ==
  /\ Carries(tmpR \o r2l, m)
  /\ BrowserGets \o Payload(DataIn(m)) = ServerSent
  /\ Unheard => m = peerSent

DownInv ==
  /\ ~ cut /\ sock = "up" => \E m \in Seq(Frame) : DownHeld(m)
  /\ ~ cut => Begins(BrowserGets, ServerSent)

(* What was told is not silence.                                           *)
LEMMA ToldIsNotSilent == Told => ~ Silent
<1>1. Len(<< >>) = 0 /\ Len(<< Greeting >>) = 1
  OBVIOUS
<1> QED
  BY <1>1 DEF Told, Silent

(* The answer is found incomplete: it is cut.                              *)
LEMMA AnswerCut ==
  ASSUME ControlInv, DataType, HeardInv, ToldInv, CutInv, DownInv,
         NEW k \in 1 .. Len(r2l), "handleWriteSockv5RspToBrowser" \in pend,
         r2l' = SubSeq(r2l, k + 1, Len(r2l)),
         0 \in Check(tmpR \o SubSeq(r2l, 1, k)), tmpR' = tmpR \o SubSeq(r2l, 1, k),
         Start("handleWriteSockv5RspToBrowser", {ReadAgain}),
         UNCHANGED << peerSent, got, l2b >>, cut' = TRUE
  PROVE  CutInv'
<1> DEFINE op == "handleWriteSockv5RspToBrowser"
           buf == tmpR \o SubSeq(r2l, 1, k)
<1>1. pend = {op} /\ sock = "up" /\ pend' = {ReadAgain} /\ ReadAgain # op
  BY SetupEnds DEF Setup, ReadAgain
<1>2. /\ buf \in Seq(Piece) /\ Len(buf) = Len(tmpR) + k /\ Len(tmpR) \in Nat /\ k \in Nat
      /\ k >= 1 /\ Len(buf) \in Nat
  BY BufferType, LenProperties DEF DataType
<1>3. Unheard /\ Unanswered /\ Silent
  BY <1>1 DEF Unheard, Hearing, HeardInv, ToldInv, Silent, Greeted
<1>4. Silent' /\ peerSent' = peerSent
  BY <1>3 DEF Silent, Chunks
<1>5. CASE Garbled(buf)
  BY <1>1, <1>4, <1>5 DEF CutInv, Cutting, Lost
<1>6. CASE ~ Garbled(buf)
  <2>1. Len(buf) = 1 /\ ~ Lost
    <3>1. Len(buf) < 2
      BY <1>6, CheckSays
    <3>2. Len(buf) = 1 /\ Len(tmpR) = 0
      BY <1>2, <3>1
    <3>3. tmpR = << >>
      BY <3>2, EmptySeq DEF DataType
    <3> QED
      BY <3>2, <3>3 DEF Lost
  <2>2. ~ cut
    BY <1>1, <1>3, <2>1 DEF CutInv, Cutting
  <2>3. PICK m \in Seq(Frame) : DownHeld(m)
    BY <1>1, <2>2 DEF DownInv
  <2>4. Carries((tmpR \o r2l)', peerSent)
    BY <1>3, <2>3, RemoteKept DEF DownHeld
  <2> QED
    BY <1>1, <1>4, <2>1, <2>4 DEF CutInv, Cutting, Lost
<1> QED
  BY <1>5, <1>6

(* After a cut the answer is not accepted, unless it comes again.          *)
LEMMA CutAnswerFails ==
  ASSUME DataType, HeardInv, CutInv, cut, AnswersOnce, ReadAgain \notin pend,
         NEW k \in 1 .. Len(r2l), "handleWriteSockv5RspToBrowser" \in pend,
         ConnectRspOk(tmpR \o SubSeq(r2l, 1, k))
  PROVE  FALSE
<1> DEFINE x == SubSeq(r2l, 1, k)
<1>1. Unheard /\ Unanswered
  BY DEF Unheard, Hearing, HeardInv
<1>3. /\ tmpR \in Seq(Piece) /\ r2l \in Seq(Piece) /\ k \in Nat /\ k >= 1
      /\ Len(r2l) \in Nat /\ k <= Len(r2l)
  BY LenProperties DEF DataType
<1>2. Lost /\ ~ Garbled(tmpR) /\ Len(tmpR) = 1
  <2>1. ~ Garbled(tmpR)
    <3>1. ~ Garbled(tmpR \o x)
      BY WholeIsFound DEF ConnectRspOk
    <3>2. x \in Seq(Piece)
      BY <1>3, CutType
    <3> QED
      BY <1>3, <3>1, <3>2, GarbledStays
  <2> QED
    BY <1>1, <2>1 DEF CutInv, Cutting
<1>4. x \in Seq(Piece) /\ Len(x) = k /\ x[1] = r2l[1]
  <2>1. 1 \in 1 .. Len(r2l) + 1 /\ k \in 1 - 1 .. Len(r2l)
    BY <1>3
  <2>2. x \in Seq(Piece) /\ Len(x) = k - 1 + 1 /\ \A i \in 1 .. k - 1 + 1 : x[i] = r2l[1 + i - 1]
    BY <1>3, <2>1, SubSeqProperties
  <2>3. 1 \in 1 .. k - 1 + 1 /\ k - 1 + 1 = k /\ 1 + 1 - 1 = 1
    BY <1>3
  <2> QED
    BY <2>2, <2>3
<1> HIDE DEF x
<1>5. (tmpR \o x)[1] = tmpR[1] /\ (tmpR \o x)[2] = x[1]
  <2>1. tmpR \in Seq(Piece) /\ x \in Seq(Piece) /\ Len(tmpR) = 1 /\ Len(x) = k /\ k \in Nat /\ k >= 1
    BY <1>2, <1>3, <1>4
  <2>2. \A i \in 1 .. Len(tmpR) + Len(x) :
           (tmpR \o x)[i] = IF i <= Len(tmpR) THEN tmpR[i] ELSE x[i - Len(tmpR)]
    BY ONLY <2>1, ConcatProperties
  <2>3. /\ 1 \in 1 .. Len(tmpR) + Len(x) /\ 2 \in 1 .. Len(tmpR) + Len(x)
        /\ 1 <= Len(tmpR) /\ ~ 2 <= Len(tmpR) /\ 2 - Len(tmpR) = 1
    BY <2>1
  <2> QED
    BY <2>2, <2>3
<1>6. (tmpR \o x)[2] = [f |-> (tmpR \o x)[1].f, half |-> 2]
  <2>1. ConnectRspOk(tmpR \o x)
    BY DEF x
  <2>2. 2 * 1 = 2 /\ 2 * 1 - 1 = 1
    OBVIOUS
  <2> QED
    BY <2>1, <2>2 DEF ConnectRspOk, FrameOk, Intact
<1>7. tmpR[1] = [f |-> peerSent[1], half |-> 1]
  BY <1>1, <1>2 DEF Unanswered, Lost
<1>8. r2l[1].f = peerSent[1]
  BY <1>4, <1>5, <1>6, <1>7
<1>9. 1 \in 1 .. Len(r2l)
  BY <1>3
<1>10. PICK i \in 2 .. Len(peerSent) : r2l[1].f = peerSent[i]
  BY <1>2, <1>9 DEF CutInv
<1> QED
  BY <1>8, <1>10 DEF AnswersOnce

(* The read after the cut drops the rest of the first message at least.    *)
LEMMA RestDropped ==
  ASSUME DataType, Carries(tmpR \o r2l, peerSent), Len(tmpR) = 1,
         NEW k \in 1 .. Len(r2l), NEW j \in 1 .. Len(SubSeq(r2l, k + 1, Len(r2l)))
  PROVE  \E i \in 2 .. Len(peerSent) : SubSeq(r2l, k + 1, Len(r2l))[j].f = peerSent[i]
<1> DEFINE p == tmpR \o r2l
           y == SubSeq(r2l, k + 1, Len(r2l))
<1>1. /\ tmpR \in Seq(Piece) /\ r2l \in Seq(Piece) /\ k \in Nat /\ k >= 1
      /\ Len(r2l) \in Nat /\ k <= Len(r2l) /\ Len(peerSent) \in Nat
  BY LenProperties DEF DataType
<1>2. y \in Seq(Piece) /\ Len(y) = Len(r2l) - k /\ \A i \in 1 .. Len(r2l) - k : y[i] = r2l[k + i]
  <2>1. k + 1 \in 1 .. Len(r2l) + 1 /\ Len(r2l) \in k + 1 - 1 .. Len(r2l)
    BY <1>1
  <2> QED
    BY <1>1, <2>1, SubSeqProperties
<1>3. j \in Nat /\ j >= 1 /\ j <= Len(r2l) - k
  BY <1>1, <1>2
<1>4. /\ Len(p) = 1 + Len(r2l)
      /\ \A i \in 1 .. 1 + Len(r2l) : p[i] = IF i <= 1 THEN tmpR[i] ELSE r2l[i - 1]
  <2>1. tmpR \in Seq(Piece) /\ r2l \in Seq(Piece)
    BY <1>1
  <2>2. /\ Len(p) = Len(tmpR) + Len(r2l)
        /\ \A i \in 1 .. Len(tmpR) + Len(r2l) :
             p[i] = IF i <= Len(tmpR) THEN tmpR[i] ELSE r2l[i - Len(tmpR)]
    BY ONLY <2>1, ConcatProperties DEF p
  <2> QED
    BY <2>2
<1>5. y[j] = r2l[k + j]
  BY <1>1, <1>2, <1>3
<1> HIDE DEF y
<1>6. r2l[k + j] = p[k + j + 1]
  <2>1. k + j + 1 \in 1 .. 1 + Len(r2l) /\ ~ k + j + 1 <= 1 /\ k + j + 1 - 1 = k + j
    BY <1>1, <1>3
  <2> QED
    BY <1>4, <2>1
<1>7. /\ Len(p) = 2 * Len(peerSent)
      /\ \A i \in 1 .. Len(peerSent) : /\ p[2 * i - 1] = [f |-> peerSent[i], half |-> 1]
                                       /\ p[2 * i] = [f |-> peerSent[i], half |-> 2]
  BY DEF Carries
<1> HIDE DEF p
<1>8. \E i \in 2 .. Len(peerSent) : k + j + 1 = 2 * i \/ k + j + 1 = 2 * i - 1
  <2>1. PICK n \in Nat : k + j + 1 = 2 * n \/ k + j + 1 = 2 * n - 1
    <3>1. k + j + 1 = 2 * ((k + j + 2) \div 2) \/ k + j + 1 = 2 * ((k + j + 2) \div 2) - 1
      BY <1>1, <1>3
    <3>2. (k + j + 2) \div 2 \in Nat
      BY <1>1, <1>3
    <3> QED
      BY <3>1, <3>2
  <2>2. n >= 2 /\ n <= Len(peerSent)
    BY <1>1, <1>3, <1>4, <1>7, <2>1
  <2>3. n \in 2 .. Len(peerSent)
    BY <1>1, <2>1, <2>2
  <2> QED
    BY <2>1, <2>3
<1>9. PICK i \in 2 .. Len(peerSent) : k + j + 1 = 2 * i \/ k + j + 1 = 2 * i - 1
  BY <1>8
<1>10. p[k + j + 1].f = peerSent[i]
  <2>1. i \in 1 .. Len(peerSent)
    BY <1>1
  <2>2. /\ p[2 * i - 1] = [f |-> peerSent[i], half |-> 1]
        /\ p[2 * i] = [f |-> peerSent[i], half |-> 2]
    BY <1>7, <2>1
  <2>3. p[2 * i - 1].f = peerSent[i] /\ p[2 * i].f = peerSent[i]
    BY <2>2
  <2> QED
    BY <1>9, <2>3
<1>11. y[j].f = peerSent[i]
  BY <1>5, <1>6, <1>10
<1> QED
  BY <1>11 DEF y

(* The handlers keep what is known of a cut answer.                        *)
LEMMA HandlersKeepCut ==
  ASSUME ControlInv, DataType, HeardInv, ToldInv, CutInv, DownInv, Handler(LocalNext)
  PROVE  CutInv'
<1>1. LocalNext /\ peerSent' = peerSent /\ cut' = (cut \/ ReadAgain \in pend')
  BY DEF Handler
<1>2. ASSUME pend \cap Established # {},
             pend' \subseteq UpPipe \cup DownPipe
      PROVE  CutInv'
  <2>1. ~ (cut /\ AnswersOnce)
    BY <1>2, ToldIsNotSilent DEF ToldInv, CutInv
  <2>2. ~ Unheard' /\ ~ Cutting' /\ ReadAgain \notin pend'
    BY <1>2 DEF Unheard, Cutting, Lost, Asking, Hearing, UpPipe, DownPipe, ReadAgain
  <2>3. ~ (cut /\ AnswersOnce)'
    BY <1>1, <2>1, <2>2 DEF AnswersOnce
  <2> QED
    BY <2>2, <2>3 DEF CutInv, Cutting
<1>3. CASE \/ handleReadDataFromBrowser \/ handleWriteDataToRemote
           \/ handleReadDataFromRemote \/ handleWriteDataToBrowser
  <2>1. PICK o \in UpPipe \cup DownPipe :
           /\ o \in pend
           /\ \/ \E new \in UpPipe \cup DownPipe : Start(o, {new})
              \/ (\E done : Shutdown(o, done)) \/ Throw
    BY <1>3 DEF handleReadDataFromBrowser, handleWriteDataToRemote,
         handleReadDataFromRemote, handleWriteDataToBrowser, ReadFromBrowser,
         ReadFromRemote, Written, BrowserFails, RemoteFails, Runs, Fails, UpPipe, DownPipe
  <2>2. pend' \subseteq UpPipe \cup DownPipe
    BY <2>1, PipeEnds
  <2> QED
    BY <1>2, <2>1, <2>2 DEF Established
<1>4. CASE handleBeginPipeTransfer
  <2>1. "handleBeginPipeTransfer" \in pend /\ "handleBeginPipeTransfer" \in Setup
    BY <1>4 DEF handleBeginPipeTransfer, Written, BrowserFails, Runs, Fails, Setup
  <2>2. pend' \subseteq {"handleReadDataFromRemote", "handleReadDataFromBrowser"}
    BY <1>4, <2>1, SetupEnds DEF handleBeginPipeTransfer
  <2> QED
    BY <1>2, <2>1, <2>2 DEF Established, UpPipe, DownPipe
<1>5. ASSUME NEW op \in Asking \cup {"handleReadAuthRspFromRemote"}, op \in pend,
             UNCHANGED << tmpR, r2l >>, ReadAgain \notin pend'
      PROVE  CutInv'
  <2>1. pend = {op} /\ op \notin {ReadAgain, "handleWriteSockv5RspToBrowser"}
    <3>1. op \in Setup
      BY <1>5 DEF Setup, Asking
    <3> QED
      BY <1>5, <3>1, SetupEnds DEF Asking, ReadAgain
  <2>2. Unheard /\ ~ Cutting
    BY <2>1, <1>5 DEF Unheard, Hearing, Cutting, Lost
  <2>3. ~ cut' /\ tmpR' = << >>
    BY <1>1, <1>5, <2>2 DEF CutInv
  <2> QED
    BY <1>5, <2>3 DEF CutInv, Cutting, Lost
<1>6. CASE \/ handleReadHandShake \/ handleWriteHandShake \/ handleReadSockv5Req
           \/ handleConnectToRemote \/ handleReadAuthRspFromRemote
  <2>1. PICK op \in Asking \cup {"handleReadAuthRspFromRemote"} :
          /\ op \in pend
          /\ \/ \E new : ReadAgain \notin new /\ Start(op, new)
             \/ \E new : ReadAgain # new /\ Connected(op, new)
             \/ Return(op) \/ Throw
    BY <1>6 DEF handleReadHandShake, handleWriteHandShake, handleReadSockv5Req,
         handleConnectToRemote, handleReadAuthRspFromRemote, ReadFromBrowser, Written,
         BrowserFails, RemoteFails, BrowserReset, Runs, Fails, Asking, ReadAgain
  <2>2. op \in Setup
    BY DEF Setup, Asking
  <2>3. ReadAgain \notin pend'
    BY <2>1, <2>2, SetupEnds
  <2>4. UNCHANGED << tmpR, r2l >>
    BY <1>6 DEF handleReadHandShake, handleWriteHandShake, handleReadSockv5Req,
         handleConnectToRemote, handleReadAuthRspFromRemote, Link
  <2> QED
    BY <1>5, <2>1, <2>3, <2>4
<1>7. CASE handleReadAuthRspFromRemoteRead
  <2>1. ReadAgain \in pend /\ ReadAgain \in Setup
    BY <1>7 DEF handleReadAuthRspFromRemoteRead, ReadFromRemote, RemoteFails, Runs, Fails,
         Setup
  <2>2. Chunks' = Chunks /\ tmpR' = tmpR
    BY <1>7 DEF handleReadAuthRspFromRemoteRead, Dialogue, Chunks
  <2>3. /\ cut /\ (AnswersOnce => Silent)
        /\ Garbled(tmpR) \/ (Len(tmpR) = 1 /\ Carries(tmpR \o r2l, peerSent))
    BY <2>1 DEF CutInv, Cutting
  <2>4. (cut /\ AnswersOnce => Silent)'
    BY <1>1, <2>2, <2>3 DEF AnswersOnce, Silent
  <2>5. ASSUME pend' = {} PROVE CutInv'
    BY <2>4, <2>5 DEF CutInv, Cutting, Lost, Unheard
  <2>6. ASSUME NEW k \in 1 .. Len(r2l), r2l' = SubSeq(r2l, k + 1, Len(r2l)),
               pend' = {"handleWriteSockv5RspToBrowser"}
        PROVE  CutInv'
    <3>1. Lost' /\ ReadAgain \notin pend' /\ cut'
      <4>1. tmpR # << >>
        BY <2>3 DEF Garbled
      <4> QED
        BY <1>1, <2>2, <2>3, <2>6, <4>1 DEF Lost, ReadAgain
    <3>2. CASE Garbled(tmpR)
      <4>1. Garbled(tmpR')
        BY <2>2, <3>2
      <4> QED
        BY <2>4, <3>1, <4>1 DEF CutInv, Cutting
    <3>3. CASE ~ Garbled(tmpR)
      <4>1. Len(tmpR') = 1
        BY <2>2, <2>3, <3>3
      <4>2. \A j \in 1 .. Len(r2l') : \E i \in 2 .. Len(peerSent') : r2l'[j].f = peerSent'[i]
        BY <1>1, <2>3, <2>6, <3>3, RestDropped
      <4> QED
        BY <2>4, <3>1, <4>1, <4>2 DEF CutInv, Cutting
    <3> QED
      BY <3>2, <3>3
  <2> QED
    BY <1>7, <2>1, <2>5, <2>6, SetupEnds DEF handleReadAuthRspFromRemoteRead, ReadFromRemote
<1>8. CASE handleWriteSockv5RspToBrowser
  <2> DEFINE op == "handleWriteSockv5RspToBrowser"
  <2>1. op \in pend /\ op \in Setup
    BY <1>8 DEF handleWriteSockv5RspToBrowser, ReadFromRemote, RemoteFails, Runs, Fails,
         Setup
  <2>2. got' = got
    BY <1>8 DEF handleWriteSockv5RspToBrowser, Dialogue
  <2>3. ASSUME l2b' = l2b, pend' = {} PROVE CutInv'
    <3>1. Chunks' = Chunks /\ (cut' <=> cut)
      <4>1. ReadAgain \notin pend'
        BY <2>3
      <4> QED
        BY <1>1, <2>2, <2>3, <4>1 DEF Chunks
    <3> QED
      BY <1>1, <2>3, <3>1 DEF CutInv, Cutting, Lost, Unheard, Silent, AnswersOnce
  <2>4. ASSUME NEW k \in 1 .. Len(r2l), ConnectRspOk(tmpR \o SubSeq(r2l, 1, k)),
               pend' = {"handleBeginPipeTransfer"}
        PROVE  CutInv'
    <3>1. ReadAgain \notin pend
      <4>1. pend = {op}
        BY <2>1, SetupEnds
      <4> QED
        BY <4>1 DEF ReadAgain
    <3>2. ~ (cut /\ AnswersOnce)
      BY <2>1, <2>4, <3>1, CutAnswerFails
    <3>3. ~ Unheard' /\ ~ Cutting' /\ ReadAgain \notin pend'
      BY <2>4 DEF Unheard, Cutting, Lost, Asking, Hearing, ReadAgain
    <3> QED
      BY <1>1, <3>2, <3>3 DEF CutInv, Cutting, AnswersOnce
  <2>5. ASSUME NEW k \in 1 .. Len(r2l), r2l' = SubSeq(r2l, k + 1, Len(r2l)),
               0 \in Check(tmpR \o SubSeq(r2l, 1, k)), tmpR' = tmpR \o SubSeq(r2l, 1, k),
               Start(op, {ReadAgain}), l2b' = l2b
        PROVE  CutInv'
    <3>1. cut' = TRUE
      BY <1>1, <2>5 DEF Start
    <3> QED
      BY <1>1, <2>1, <2>2, <2>5, <3>1, AnswerCut
  <2> QED
    BY <1>8, <2>1, <2>3, <2>4, <2>5, SetupEnds DEF handleWriteSockv5RspToBrowser, ReadFromRemote
<1> QED
  BY <1>1, <1>3, <1>4, <1>6, <1>7, <1>8 DEF LocalNext

(* And the stream of the server, while its answer is not cut.              *)
LEMMA HandlersKeepDown ==
  ASSUME ControlInv, DataType, CutInv, DownInv, Handler(LocalNext)
  PROVE  DownInv'
<1>1. LocalNext /\ peerSent' = peerSent /\ cut' = (cut \/ ReadAgain \in pend')
  BY DEF Handler
<1>2. SUFFICES ASSUME ~ cut'
               PROVE  /\ sock' = "up" => \E m \in Seq(Frame) : DownHeld(m)'
                      /\ Begins(BrowserGets', ServerSent')
  BY DEF DownInv
<1>3. ~ cut /\ ReadAgain \notin pend /\ ServerSent' = ServerSent
  BY <1>1, <1>2 DEF CutInv, Cutting, ServerSent
<1>4. CASE sock' = "up"
  <2>1. sock = "up"
    BY <1>1, <1>4, HandlersDirect
  <2>2. PICK m \in Seq(Frame) : DownHeld(m)
    BY <1>3, <2>1 DEF DownInv
  <2>3. PICK r \in Seq(Frame) : Carries((tmpR \o r2l)', r) /\ DownMoves(m, r)
    <3>1. DownCarried(m)
      BY <1>1, <1>3, <2>2, HandlersGive DEF DownHeld
    <3> QED
      BY <1>4, <3>1 DEF DownCarried
  <2>4. BrowserGets' \o Payload(DataIn(r)) = ServerSent'
    BY <1>3, <1>4, <2>2, <2>3 DEF DownMoves, DownHeld
  <2>5. Unheard' => r = peerSent'
    BY <1>1, <2>2, <2>3 DEF DownMoves, DownHeld
  <2>6. DownHeld(r)'
    BY <2>3, <2>4, <2>5 DEF DownHeld
  <2>7. Payload(DataIn(r)) \in Seq(Cell)
    <3>1. DataIn(r) \in Seq(Cell)
      BY DataInAdds
    <3> QED
      BY <3>1, PayloadAdds
  <2> QED
    BY <2>4, <2>6, <2>7 DEF Begins
<1>5. CASE sock' # "up"
  <2>1. BrowserGets' = BrowserGets
    <3>1. Chunks' = Chunks
      BY <1>1, <1>5, ClosedGivesNothing
    <3> QED
      BY <3>1 DEF BrowserGets, PayloadOf, Chunks
  <2> QED
    BY <1>3, <1>5, <2>1 DEF DownInv
<1> QED
  BY <1>4, <1>5

(* The browser moves nothing of the stream.                                *)
LEMMA BrowserKeepsDown ==
  ASSUME DataType, CutInv, DownInv, BrowserStep
  PROVE  CutInv' /\ DownInv'
<1>1. UNCHANGED << pend, sock, tmpR, r2l, peerSent, cut >>
  BY DEF BrowserStep, session, control, Link
<1>2. BrowserReceives \/ UNCHANGED << got, l2b >>
  BY DEF BrowserStep, BrowserNext, Greet, Request, SendData, BrowserCloses, BrowserResets
<1>3. Chunks' = Chunks
  BY <1>2, ReceivedIsTold DEF Chunks
<1>4. BrowserGets' = BrowserGets /\ ServerSent' = ServerSent
  BY <1>1, <1>3 DEF BrowserGets, ServerSent, PayloadOf, Chunks
<1>5. CutInv'
  BY <1>1, <1>3 DEF CutInv, Cutting, Lost, Unheard, AnswersOnce, Silent
<1>6. ASSUME NEW m \in Seq(Frame), DownHeld(m) PROVE DownHeld(m)'
  BY <1>1, <1>4, <1>6 DEF DownHeld, Unheard
<1>7. DownInv'
  BY <1>1, <1>4, <1>6 DEF DownInv
<1> QED
  BY <1>5, <1>7

(* A message of the server comes behind those in flight.                   *)
LEMMA SendsKeepsDown ==
  ASSUME DataType, HeardInv, CutInv, DownInv, NEW kind \in PeerKinds, PeerSends(kind)
  PROVE  CutInv' /\ DownInv'
<1>2. PICK f \in Frame : f = PeerMsg(kind)
  BY PeerMsgType
<1>1. /\ UNCHANGED << pend, sock, tmpR, got, l2b, cut >>
      /\ peerSent' = Append(peerSent, f) /\ r2l' = r2l \o Encoded(f)
  BY <1>2 DEF PeerSends, session, control, Dialogue
<1>3. /\ tmpR \in Seq(Piece) /\ r2l \in Seq(Piece) /\ tmpR \o r2l \in Seq(Piece)
      /\ peerSent \in Seq(Frame) /\ BrowserGets \in Seq(Cell) /\ ServerSent \in Seq(Cell)
      /\ Encoded(f) \in Seq(Piece)
  BY <1>2, DownTypes, EncodedType
<1>4. (tmpR \o r2l)' = (tmpR \o r2l) \o Encoded(f)
  <2>1. (tmpR \o r2l) \o Encoded(f) = tmpR \o (r2l \o Encoded(f))
    BY ONLY <1>3, ConcatAssociative
  <2> QED
    BY <1>1, <2>1
<1>5. ASSUME NEW m \in Seq(Frame), Carries(tmpR \o r2l, m)
      PROVE  Carries((tmpR \o r2l)', Append(m, f))
  BY <1>2, <1>3, <1>4, <1>5, CarriesMore
<1>6. Chunks' = Chunks /\ BrowserGets' = BrowserGets
  BY <1>1 DEF Chunks, BrowserGets, PayloadOf
<1>7. AnswersOnce' => AnswersOnce
  <2>1. /\ Len(peerSent') = Len(peerSent) + 1 /\ Len(peerSent) \in Nat
        /\ \A i \in 1 .. Len(peerSent) : peerSent'[i] = peerSent[i]
    BY <1>1, <1>2, <1>3, AppendProperties, LenProperties
  <2>2. ASSUME AnswersOnce', NEW i \in 2 .. Len(peerSent) PROVE peerSent[i] # peerSent[1]
    <3>1. i \in 1 .. Len(peerSent) /\ 1 \in 1 .. Len(peerSent) /\ i \in 2 .. Len(peerSent')
      BY <2>1
    <3> QED
      BY <2>1, <2>2, <3>1 DEF AnswersOnce
  <2> QED
    BY <2>2 DEF AnswersOnce
<1>8. Lost /\ ~ Garbled(tmpR) =>
        \A j \in 1 .. Len(r2l') : \E i \in 2 .. Len(peerSent') : r2l'[j].f = peerSent'[i]
  <2> SUFFICES ASSUME Lost, ~ Garbled(tmpR), NEW j \in 1 .. Len(r2l')
               PROVE  \E i \in 2 .. Len(peerSent') : r2l'[j].f = peerSent'[i]
    BY <1>1 DEF Lost
  <2>1. peerSent # << >>
    BY DEF Lost, HeardInv, Unanswered, Hearing
  <2>2. /\ Len(peerSent') = Len(peerSent) + 1 /\ Len(peerSent) \in Nat /\ Len(peerSent) >= 1
        /\ \A i \in 1 .. Len(peerSent) : peerSent'[i] = peerSent[i]
        /\ peerSent'[Len(peerSent) + 1] = f
    <3>1. Len(peerSent) \in Nat /\ Len(peerSent) # 0
      BY <1>3, <2>1, LenProperties, EmptySeq
    <3> QED
      BY <1>1, <1>2, <1>3, <3>1, AppendProperties
  <2>3. /\ Len(r2l') = Len(r2l) + 2 /\ Len(r2l) \in Nat
        /\ \A i \in 1 .. Len(r2l) + 2 :
             r2l'[i] = IF i <= Len(r2l) THEN r2l[i] ELSE Encoded(f)[i - Len(r2l)]
    <3>1. Len(Encoded(f)) = 2
      BY DEF Encoded
    <3>2. /\ Len(r2l \o Encoded(f)) = Len(r2l) + Len(Encoded(f)) /\ Len(r2l) \in Nat
          /\ \A i \in 1 .. Len(r2l) + Len(Encoded(f)) :
               (r2l \o Encoded(f))[i]
                 = IF i <= Len(r2l) THEN r2l[i] ELSE Encoded(f)[i - Len(r2l)]
      BY ONLY <1>3, ConcatProperties, LenProperties
    <3> QED
      BY <1>1, <3>1, <3>2
  <2>4. CASE j <= Len(r2l)
    <3>1. j \in 1 .. Len(r2l) /\ r2l'[j] = r2l[j]
      BY <2>3, <2>4
    <3>2. PICK i \in 2 .. Len(peerSent) : r2l[j].f = peerSent[i]
      BY <3>1 DEF CutInv
    <3>3. i \in 2 .. Len(peerSent') /\ i \in 1 .. Len(peerSent)
      BY <2>2
    <3> QED
      BY <2>2, <3>1, <3>2, <3>3
  <2>5. CASE ~ j <= Len(r2l)
    <3>1. r2l'[j] = Encoded(f)[j - Len(r2l)] /\ j - Len(r2l) \in {1, 2}
      BY <2>3, <2>5
    <3>2. Encoded(f)[1].f = f /\ Encoded(f)[2].f = f
      BY DEF Encoded
    <3>3. Len(peerSent) + 1 \in 2 .. Len(peerSent')
      BY <2>2
    <3> QED
      BY <2>2, <3>1, <3>2, <3>3
  <2> QED
    BY <2>4, <2>5
<1>9. CutInv'
  <2>1. (Lost' <=> Lost) /\ (Cutting' <=> Cutting) /\ (Unheard' <=> Unheard)
    BY <1>1 DEF Lost, Cutting, Unheard
  <2>2. ReadAgain \in pend => Garbled(tmpR) \/ Carries((tmpR \o r2l)', peerSent')
    BY <1>1, <1>3, <1>5 DEF CutInv
  <2>3. (cut /\ AnswersOnce => Silent)'
    BY <1>1, <1>6, <1>7 DEF CutInv, Silent
  <2> QED
    BY <1>1, <1>8, <2>1, <2>2, <2>3 DEF CutInv
<1>10. ServerSent' = ServerSent \o Payload(DataIn(<< f >>)) /\ Payload(DataIn(<< f >>)) \in Seq(Cell)
  <2>1. peerSent' = peerSent \o << f >> /\ << f >> \in Seq(Frame)
    BY <1>1, <1>2, <1>3, AppendIsConcat, SingletonType
  <2>2. /\ DataIn(peerSent) \in Seq(Cell) /\ DataIn(<< f >>) \in Seq(Cell)
        /\ DataIn(peerSent \o << f >>) = DataIn(peerSent) \o DataIn(<< f >>)
    BY ONLY <1>3, <2>1, DataInAdds
  <2>3. /\ Payload(DataIn(<< f >>)) \in Seq(Cell)
        /\ Payload(DataIn(peerSent) \o DataIn(<< f >>))
             = Payload(DataIn(peerSent)) \o Payload(DataIn(<< f >>))
    BY ONLY <2>2, PayloadAdds
  <2> QED
    BY <2>1, <2>2, <2>3 DEF ServerSent
<1>11. ASSUME NEW m \in Seq(Frame), DownHeld(m) PROVE DownHeld(Append(m, f))'
  <2>1. Append(m, f) = m \o << f >> /\ << f >> \in Seq(Frame) /\ m \in Seq(Frame)
    BY <1>2, AppendIsConcat, SingletonType
  <2>2. /\ DataIn(m) \in Seq(Cell) /\ DataIn(<< f >>) \in Seq(Cell)
        /\ DataIn(m \o << f >>) = DataIn(m) \o DataIn(<< f >>)
    BY ONLY <2>1, DataInAdds
  <2>3. /\ Payload(DataIn(<< f >>)) \in Seq(Cell) /\ Payload(DataIn(m)) \in Seq(Cell)
        /\ Payload(DataIn(m) \o DataIn(<< f >>)) = Payload(DataIn(m)) \o Payload(DataIn(<< f >>))
    BY ONLY <2>2, PayloadAdds
  <2>4. BrowserGets \o (Payload(DataIn(m)) \o Payload(DataIn(<< f >>)))
          = (BrowserGets \o Payload(DataIn(m))) \o Payload(DataIn(<< f >>))
    BY ONLY <1>3, <2>3, Regroup
  <2>5. BrowserGets' \o Payload(DataIn(Append(m, f))) = ServerSent'
    BY <1>6, <1>10, <1>11, <2>1, <2>2, <2>3, <2>4 DEF DownHeld
  <2>6. Unheard' => Append(m, f) = peerSent'
    BY <1>1, <1>11 DEF DownHeld, Unheard
  <2> QED
    BY <1>5, <1>11, <2>5, <2>6 DEF DownHeld
<1>12. DownInv'
  <2>1. ~ cut => Begins(BrowserGets, ServerSent')
    BY <1>3, <1>10, BeginsGrows DEF DownInv
  <2>2. ~ cut /\ sock = "up" => \E m \in Seq(Frame) : DownHeld(m)'
    <3> SUFFICES ASSUME ~ cut, sock = "up" PROVE \E m \in Seq(Frame) : DownHeld(m)'
      OBVIOUS
    <3>1. PICK m \in Seq(Frame) : DownHeld(m)
      BY DEF DownInv
    <3>2. Append(m, f) \in Seq(Frame)
      BY <1>2, AppendProperties
    <3> QED
      BY <1>11, <3>1, <3>2
  <2> QED
    BY <1>1, <1>6, <2>1, <2>2 DEF DownInv
<1> QED
  BY <1>9, <1>12

(* What else the server does moves nothing either.                         *)
LEMMA PeerKeepsDown ==
  ASSUME DataType, HeardInv, CutInv, DownInv, PeerStep \/ UNCHANGED vars
  PROVE  CutInv' /\ DownInv'
<1>1. CASE PeerAccepts \/ PeerReads \/ PeerCloses \/ UNCHANGED vars
  <2>1. UNCHANGED << pend, sock, tmpR, r2l, peerSent, got, l2b, cut >>
    BY <1>1 DEF PeerAccepts, PeerReads, PeerCloses, vars, session, control, Dialogue, Link
  <2>2. Chunks' = Chunks /\ BrowserGets' = BrowserGets /\ ServerSent' = ServerSent
    BY <2>1 DEF Chunks, BrowserGets, ServerSent, PayloadOf
  <2>3. CutInv'
    BY <2>1, <2>2 DEF CutInv, Cutting, Lost, Unheard, AnswersOnce, Silent
  <2>4. ASSUME NEW m \in Seq(Frame), DownHeld(m) PROVE DownHeld(m)'
    BY <2>1, <2>2, <2>4 DEF DownHeld, Unheard
  <2>5. DownInv'
    BY <2>1, <2>2, <2>4 DEF DownInv
  <2> QED
    BY <2>3, <2>5
<1>2. ASSUME NEW kind \in PeerKinds, PeerSends(kind) PROVE CutInv' /\ DownInv'
  BY <1>2, SendsKeepsDown
<1> QED
  BY <1>1, <1>2 DEF PeerStep

(* Where the data of the server is, and what a cut response leaves, hold   *)
(* in every state.                                                         *)
THEOREM DownCorrect == Spec => [](CutInv /\ DownInv)
<1>1. Init => CutInv /\ DownInv
  <2> SUFFICES ASSUME Init PROVE CutInv /\ DownInv
    OBVIOUS
  <2>1. /\ tmpR \o r2l = << >> /\ tmpR = << >> /\ r2l = << >> /\ peerSent = << >>
        /\ ~ cut /\ pend = {"handleReadHandShake"} /\ got \o l2b = << >>
    BY ConcatEmptySeq DEF Init, LocalInit, BrowserInit
  <2>2. CutInv
    BY <2>1 DEF CutInv, Cutting, Lost, ReadAgain
  <2>3. BrowserGets = << >> /\ ServerSent = << >>
    BY <2>1, FlattenEmpty, ShortStreams DEF BrowserGets, ServerSent, PayloadOf
  <2>4. << >> \in Seq(Cell) /\ << >> \in Seq(Frame) /\ << >> \o << >> = << >>
    BY ConcatEmptySeq
  <2>5. DownHeld(<< >>)
    BY <2>1, <2>3, <2>4, CarriesNothing, ShortStreams DEF DownHeld
  <2>6. DownInv
    BY <2>3, <2>4, <2>5, BeginsItself DEF DownInv
  <2> QED
    BY <2>2, <2>6
<1>2. ControlInv /\ DataType /\ HeardInv /\ ToldInv /\ CutInv /\ DownInv /\ [Next]_vars
        => (CutInv /\ DownInv)'
  BY HandlersKeepCut, HandlersKeepDown, BrowserKeepsDown, PeerKeepsDown DEF Next
<1> QED
  BY <1>1, <1>2, ControlCorrect, DataCorrect, ToldCorrect, PTL DEF Spec

(* DownConserved: however the pieces of the link are cut and connections   *)
(* close, the browser gets a prefix of the data the server sent, and, while*)
(* both sockets are open, all of it is in the buffers or in flight; a      *)
(* response that was cut gives nothing but to a server that repeats it.    *)
THEOREM DownConservedHolds == Spec => []DownConserved
<1>1. DataType /\ CutInv /\ DownInv => DownConserved
  <2> SUFFICES ASSUME DataType, CutInv, DownInv PROVE DownConserved
    OBVIOUS
  <2>1. BrowserGets \in Seq(Cell) /\ ServerSent \in Seq(Cell)
    BY DownTypes
  <2>2. ASSUME ~ cut PROVE IsPrefix(BrowserGets, ServerSent)
    BY <2>1, <2>2, BeginsIsPrefix DEF DownInv
  <2>3. ASSUME cut, AnswersOnce PROVE IsPrefix(BrowserGets, ServerSent)
    <3>1. Chunks = << >> \/ Chunks = << Greeting >>
      BY <2>3 DEF CutInv, Silent
    <3>2. Payload(FlattenSeq(<< >>)) = << >>
      BY FlattenEmpty, ShortStreams
    <3>3. Payload(FlattenSeq(<< Greeting >>)) = << >>
      <4> DEFINE c == C("greetrsp", 0)
      <4>1. c \in Cell /\ c.t # "data"
        BY CellType DEF CellTypes, C
      <4> HIDE DEF c
      <4>2. Payload(FlattenSeq(<< << c >> >>)) = << >>
        BY <4>1, NoPayload
      <4> QED
        BY <4>2 DEF Greeting, c
    <3>4. BrowserGets = << >>
      BY <3>1, <3>2, <3>3 DEF BrowserGets, PayloadOf, Chunks
    <3>5. Begins(BrowserGets, ServerSent)
      BY <2>1, <3>4, BeginsItself
    <3> QED
      BY <2>1, <3>5, BeginsIsPrefix
  <2>4. ASSUME sock = "up", ~ cut
        PROVE  BrowserGets \o Payload(DataIn(Messages(tmpR \o r2l))) = ServerSent
    <3>1. PICK m \in Seq(Frame) : DownHeld(m)
      BY <2>4 DEF DownInv
    <3>2. Messages(tmpR \o r2l) = m
      BY <3>1, DownTypes, CarriesMessages DEF DownHeld
    <3> QED
      BY <3>1, <3>2 DEF DownHeld
  <2> QED
    BY <2>2, <2>3, <2>4 DEF DownConserved
<1> QED
  BY <1>1, DataCorrect, DownCorrect, PTL DEF Spec

-----------------------------------------------------------------------------
(* Exceptions.  While the session has read nothing out of turn, what it    *)
(* kept and what is in flight are messages of the server, so that only one *)
(* that is no frame can garble what check() reads.                         *)
Reading == pend \cap (Setup \cup DownPipe)

SentForeign == \E i \in 1 .. Len(peerSent) : peerSent[i] = NoFrame

InTurn ==
  /\ \A i \in 1 .. Len(peerSent) : peerSent[i].sub = 0 => peerSent[i] = NoFrame
  /\ ~ cut /\ Reading # {} =>
       \E m \in Seq(Frame) : Carries(tmpR \o r2l, m) /\ Among(m, peerSent)

(* A negative answer of check() is one to bytes that are no frame.         *)
LEMMA OnlyForeignGarbles ==
  ASSUME DataType, InTurn, ~ cut, Reading # {}, NEW k \in 1 .. Len(r2l),
         NEW n \in Counts(tmpR \o SubSeq(r2l, 1, k)),
         Garbled(After(tmpR \o SubSeq(r2l, 1, k), n))
  PROVE  SentForeign
<1> DEFINE buf == tmpR \o SubSeq(r2l, 1, k)
           rest == SubSeq(r2l, k + 1, Len(r2l))
<1>1. buf \in Seq(Piece) /\ rest \in Seq(Piece)
  BY CutType, BufferType DEF DataType
<1>2. buf \o rest = tmpR \o r2l
  BY ReadMoves DEF DataType
<1>3. n \in Counts(buf) /\ Garbled(After(buf, n))
  OBVIOUS
<1> HIDE DEF buf, rest
<1>4. PICK m \in Seq(Frame) : Carries(buf \o rest, m) /\ Among(m, peerSent)
  BY <1>2 DEF InTurn
<1>5. n \in Nat /\ 2 * n <= Len(buf)
  BY <1>3 DEF Counts
<1>6. PICK j \in 1 .. Len(peerSent) : peerSent[j].sub = 0
  BY <1>1, <1>3, <1>4, <1>5, GarbledIsSent
<1>7. peerSent[j] = NoFrame
  BY <1>6 DEF InTurn
<1> QED
  BY <1>7 DEF SentForeign

(* Nothing is taken off a buffer by no messages.                           *)
LEMMA AfterNone ==
  ASSUME NEW b \in Seq(Piece)
  PROVE  After(b, 0) = b /\ 0 \in Counts(b)
<1>1. Len(b) \in Nat
  BY LenProperties
<1>2. 2 * 0 = 0 /\ 2 * 0 + 1 = 1 /\ 2 * 0 <= Len(b)
  BY <1>1
<1> QED
  BY <1>2, SubSeqFull DEF After, Counts

(* Exceptions of the handlers.                                             *)
LEMMA HandlersThrow ==
  ASSUME ControlInv, DataType, InTurn, LocalNext, terminated' # terminated
  PROVE  rsock' = "new" \/ cut \/ SentForeign
<1>1. ASSUME NEW op \in Asking, op \in pend, Throw PROVE rsock' = "new"
  BY <1>1, HandlersApart, AskingThrows DEF ControlInv
<1>2. \A op, new : Start(op, new) \/ Connected(op, new) => terminated' = terminated
  BY DEF Start, Connected
<1>3. \A op, d : Shutdown(op, d) \/ Return(op) => terminated' = terminated
  BY DEF Shutdown, Return
<1>4. CASE handleReadHandShake \/ handleWriteHandShake \/ handleReadSockv5Req
  <2>1. PICK op \in Asking : op \in pend /\ Throw
    BY <1>2, <1>3, <1>4
       DEF handleReadHandShake, handleWriteHandShake, handleReadSockv5Req,
           ReadFromBrowser, Written, BrowserFails, BrowserReset, Runs, Fails, Asking
  <2> QED
    BY <1>1, <2>1
<1>5. CASE handleWriteSockv5RspToBrowser
  <2>1. PICK k \in 1 .. Len(r2l) : -1 \in Check(tmpR \o SubSeq(r2l, 1, k))
    BY <1>2, <1>3, <1>5 DEF handleWriteSockv5RspToBrowser
  <2>2. Reading # {}
    BY <1>5 DEF handleWriteSockv5RspToBrowser, ReadFromRemote, RemoteFails, Runs, Fails,
                Reading, Setup
  <2> DEFINE buf == tmpR \o SubSeq(r2l, 1, k)
  <2>3. buf \in Seq(Piece)
    BY BufferType DEF DataType
  <2>4. Garbled(After(buf, 0)) /\ 0 \in Counts(buf)
    <3> HIDE DEF buf
    <3>1. -1 \in Check(buf)
      BY <2>1 DEF buf
    <3> QED
      BY <2>3, <3>1, CheckSays, AfterNone
  <2> QED
    BY <2>2, <2>4, OnlyForeignGarbles
<1>6. CASE handleReadDataFromRemote
  <2>1. PICK k \in 1 .. Len(r2l) : \E n \in Extracts(tmpR \o SubSeq(r2l, 1, k), -1) : TRUE
    BY <1>2, <1>3, <1>6 DEF handleReadDataFromRemote
  <2> DEFINE buf == tmpR \o SubSeq(r2l, 1, k)
  <2>2. PICK n : n \in Extracts(buf, -1)
    BY <2>1
  <2>3. Reading # {}
    BY <1>6 DEF handleReadDataFromRemote, ReadFromRemote, RemoteFails, Runs, Fails,
                Reading, DownPipe
  <2>4. n \in Counts(buf)
    BY <2>2, ExtractsCounts
  <2>5. buf \in Seq(Piece)
    BY BufferType DEF DataType
  <2>6. Garbled(After(buf, n))
    <3> HIDE DEF buf
    <3>1. -1 \in Check(After(buf, n))
      BY <2>2, <2>5, ExtractsType
    <3> QED
      BY <3>1, CheckSays
  <2> QED
    BY <2>3, <2>4, <2>6, OnlyForeignGarbles
<1> QED
  BY <1>2, <1>3, <1>4, <1>5, <1>6
     DEF LocalNext, handleConnectToRemote, handleReadAuthRspFromRemote,
         handleReadAuthRspFromRemoteRead, handleBeginPipeTransfer,
         handleReadDataFromBrowser, handleWriteDataToRemote, handleWriteDataToBrowser

(* A handler of the read from the link, where the answer was not cut.      *)
LEMMA ReadsInTurn ==
  ASSUME ControlInv, DataType, InTurn, ~ cut, Reading # {}, Reading' # {},
         ReadAgain \notin pend',
         handleWriteSockv5RspToBrowser \/ handleReadDataFromRemote
  PROVE  \E m \in Seq(Frame) : Carries((tmpR \o r2l)', m) /\ Among(m, peerSent)
<1>1. PICK m \in Seq(Frame) : Carries(tmpR \o r2l, m) /\ Among(m, peerSent)
  BY DEF InTurn
<1>2. ASSUME NEW k \in 1 .. Len(r2l), r2l' = SubSeq(r2l, k + 1, Len(r2l)),
             tmpR' = tmpR \o SubSeq(r2l, 1, k)
      PROVE  Carries((tmpR \o r2l)', m)
  BY <1>1, <1>2, RemoteKept
<1>3. ASSUME NEW k \in 1 .. Len(r2l), r2l' = SubSeq(r2l, k + 1, Len(r2l)),
             NEW n \in Counts(tmpR \o SubSeq(r2l, 1, k)),
             tmpR' = After(tmpR \o SubSeq(r2l, 1, k), n)
      PROVE  \E r \in Seq(Frame) : Carries((tmpR \o r2l)', r) /\ Among(r, peerSent)
  <2>1. Without(m, n) \in Seq(Frame) /\ Carries((tmpR \o r2l)', Without(m, n))
    BY <1>1, <1>3, RemoteTaken
  <2>2. n \in Nat /\ n <= Len(m)
    <3> DEFINE buf == tmpR \o SubSeq(r2l, 1, k)
               rest == SubSeq(r2l, k + 1, Len(r2l))
    <3>1. /\ buf \in Seq(Piece) /\ rest \in Seq(Piece)
          /\ buf \o rest = tmpR \o r2l /\ n \in Nat /\ 2 * n <= Len(buf)
      BY CutType, BufferType, ReadMoves DEF DataType, Counts
    <3> HIDE DEF buf, rest
    <3> QED
      BY <1>1, <3>1, CarriesCut
  <2>3. Among(Without(m, n), peerSent)
    BY <1>1, <2>2, AmongRest DEF Without
  <2> QED
    BY <2>1, <2>3
<1>4. CASE handleWriteSockv5RspToBrowser
  <2> DEFINE op == "handleWriteSockv5RspToBrowser"
  <2>1. op \in Setup /\ op \in pend
    BY <1>4 DEF handleWriteSockv5RspToBrowser, ReadFromRemote, RemoteFails, Runs, Fails, Setup
  <2>2. /\ \A d : ~ Shutdown(op, d)
        /\ ~ Throw
    BY <2>1, SetupEnds DEF Reading
  <2>3. ~ Start(op, {ReadAgain})
    BY DEF Start
  <2>4. PICK k \in 1 .. Len(r2l) :
           /\ r2l' = SubSeq(r2l, k + 1, Len(r2l))
           /\ ConnectRspOk(tmpR \o SubSeq(r2l, 1, k))
           /\ tmpR' = After(tmpR \o SubSeq(r2l, 1, k), 1)
    BY <1>4, <2>2, <2>3 DEF handleWriteSockv5RspToBrowser, ReadFromRemote
  <2>5. 1 \in Counts(tmpR \o SubSeq(r2l, 1, k))
    BY <2>4 DEF ConnectRspOk, FrameOk, Intact, Counts
  <2> QED
    BY <1>3, <2>4, <2>5
<1>5. CASE handleReadDataFromRemote
  <2> DEFINE op == "handleReadDataFromRemote"
  <2>1. op \in DownPipe /\ op \in pend
    BY <1>5 DEF handleReadDataFromRemote, ReadFromRemote, RemoteFails, Runs, Fails, DownPipe
  <2>2. pend \cap Setup = {} /\ \A x \in pend \cap DownPipe : x = op
    BY <2>1, HandlersApart DEF ControlInv, Phases, SettingUp, Piping, Closing, Gone, Apart
  <2>3. /\ \A d : ~ Shutdown(op, d)
        /\ ~ Throw
    BY <2>2 DEF Shutdown, Throw, Reading
  <2>4. \/ \E k \in 1 .. Len(r2l) : /\ r2l' = SubSeq(r2l, k + 1, Len(r2l))
                                    /\ tmpR' = tmpR \o SubSeq(r2l, 1, k)
        \/ \E k \in 1 .. Len(r2l) : \E n \in Extracts(tmpR \o SubSeq(r2l, 1, k), 0) :
              /\ r2l' = SubSeq(r2l, k + 1, Len(r2l))
              /\ tmpR' = After(tmpR \o SubSeq(r2l, 1, k), n)
    BY <1>5, <2>3 DEF handleReadDataFromRemote, ReadFromRemote
  <2> QED
    BY <1>1, <1>2, <1>3, <2>4, ExtractsCounts
<1> QED
  BY <1>4, <1>5

(* The other handlers keep what was read, and none begins to read.         *)
LEMMA HandlersKeepTurn ==
  ASSUME ControlInv, DataType, CutInv, InTurn, Handler(LocalNext)
  PROVE  InTurn'
<1>1. LocalNext /\ peerSent' = peerSent /\ cut' = (cut \/ ReadAgain \in pend')
  BY DEF Handler
<1>2. SUFFICES ASSUME ~ cut', Reading' # {}
               PROVE  \E m \in Seq(Frame) : Carries((tmpR \o r2l)', m) /\ Among(m, peerSent)
  BY <1>1 DEF InTurn
<1>3. ~ cut /\ ReadAgain \notin pend' /\ ReadAgain \notin pend
  BY <1>1, <1>2 DEF CutInv, Cutting
<1>4. CASE handleWriteSockv5RspToBrowser \/ handleReadDataFromRemote
  <2>1. Reading # {}
    BY <1>4 DEF handleWriteSockv5RspToBrowser, handleReadDataFromRemote, ReadFromRemote,
                RemoteFails, Runs, Fails, Reading, Setup, DownPipe
  <2> QED
    BY <1>2, <1>3, <1>4, <2>1, ReadsInTurn
<1>5. ASSUME Reading # {}, UNCHANGED << tmpR, r2l >>
      PROVE  \E m \in Seq(Frame) : Carries((tmpR \o r2l)', m) /\ Among(m, peerSent)
  BY <1>3, <1>5 DEF InTurn
<1>6. CASE \/ handleReadHandShake \/ handleWriteHandShake \/ handleReadSockv5Req
           \/ handleConnectToRemote \/ handleReadAuthRspFromRemote
           \/ handleBeginPipeTransfer \/ handleWriteDataToBrowser
  <2>1. Reading # {} /\ UNCHANGED << tmpR, r2l >>
    BY <1>6 DEF handleReadHandShake, handleWriteHandShake, handleReadSockv5Req,
                handleConnectToRemote, handleReadAuthRspFromRemote,
                handleBeginPipeTransfer, handleWriteDataToBrowser, ReadFromBrowser,
                Written, BrowserFails, RemoteFails, Runs, Fails, Link, Reading,
                Setup, DownPipe
  <2> QED
    BY <1>5, <2>1
<1>7. CASE handleReadDataFromBrowser \/ handleWriteDataToRemote
  <2>1. UNCHANGED << tmpR, r2l >>
    BY <1>7 DEF handleReadDataFromBrowser, handleWriteDataToRemote, Link
  <2>2. Reading' \subseteq Reading
    BY <1>7 DEF handleReadDataFromBrowser, handleWriteDataToRemote, Reading, Setup, DownPipe,
                Start, Shutdown, ReadAgain
  <2> QED
    BY <1>2, <1>5, <2>1, <2>2
<1>8. ~ handleReadAuthRspFromRemoteRead
  BY <1>3 DEF handleReadAuthRspFromRemoteRead, ReadFromRemote, RemoteFails, Runs, Fails
<1> QED
  BY <1>1, <1>4, <1>6, <1>7, <1>8 DEF LocalNext

(* The server sends messages, or bytes that are no frame, behind others.   *)
LEMMA SendsKeepTurn ==
  ASSUME DataType, InTurn, NEW kind \in PeerKinds, PeerSends(kind)
  PROVE  InTurn'
<1> DEFINE f == PeerMsg(kind)
<1>1. f \in Frame /\ (f.sub = 0 => f = NoFrame)
  <2>1. kind \in {"accept", "refuse", "corrupt", "other", "data", "foreign"}
    BY PeerAssumption
  <2>2. kind # "foreign" => f.sub # 0
    BY <2>1 DEF PeerMsg, ConnectMsg, DataMsg
  <2>3. kind = "foreign" => f = NoFrame
    BY DEF PeerMsg
  <2> QED
    BY <2>2, <2>3, PeerMsgType
<1>2. /\ peerSent' = Append(peerSent, f) /\ r2l' = r2l \o Encoded(f)
      /\ UNCHANGED << pend, tmpR, cut >>
  BY DEF PeerSends, session, control
<1> HIDE DEF f
<1>3. peerSent \in Seq(Frame) /\ tmpR \in Seq(Piece) /\ r2l \in Seq(Piece)
  BY DEF DataType
<1>4. /\ Len(peerSent) \in Nat /\ Len(peerSent') = Len(peerSent) + 1
      /\ peerSent'[Len(peerSent) + 1] = f
      /\ \A i \in 1 .. Len(peerSent) : peerSent'[i] = peerSent[i]
  BY <1>1, <1>2, <1>3, AppendProperties, LenProperties
<1>5. \A i \in 1 .. Len(peerSent') : i \in 1 .. Len(peerSent) \/ i = Len(peerSent) + 1
  BY <1>4
<1>6. \A i \in 1 .. Len(peerSent') : peerSent'[i].sub = 0 => peerSent'[i] = NoFrame
  BY <1>1, <1>4, <1>5 DEF InTurn
<1>7. ASSUME ~ cut', Reading' # {}
      PROVE  \E m \in Seq(Frame) : Carries((tmpR \o r2l)', m) /\ Among(m, peerSent')
  <2>1. PICK m \in Seq(Frame) : Carries(tmpR \o r2l, m) /\ Among(m, peerSent)
    BY <1>2, <1>7 DEF InTurn, Reading
  <2> DEFINE n == Append(m, f)
  <2>2. (tmpR \o r2l)' = (tmpR \o r2l) \o Encoded(f)
    <3>1. Encoded(f) \in Seq(Piece)
      BY <1>1, EncodedType
    <3>2. tmpR \o (r2l \o Encoded(f)) = (tmpR \o r2l) \o Encoded(f)
      BY ONLY <1>3, <3>1, ConcatAssociative
    <3> QED
      BY <1>2, <3>2
  <2>3. tmpR \o r2l \in Seq(Piece)
    BY <1>3, ConcatProperties
  <2>4. n \in Seq(Frame) /\ Carries((tmpR \o r2l)', n)
    BY <1>1, <2>1, <2>2, <2>3, CarriesMore, AppendProperties
  <2>5. Among(n, peerSent')
    BY <1>1, <1>2, <1>3, <2>1, AmongGrows
  <2> QED
    BY <2>4, <2>5
<1> QED
  BY <1>6, <1>7 DEF InTurn

(* What the session holds of the server, and how the process ended.        *)
ThrowInv ==
  /\ InTurn
  /\ terminated => rsock = "new" \/ cut \/ SentForeign

(* What the neighbours do ends no process.                                 *)
LEMMA OthersKeepTurn ==
  ASSUME DataType, ThrowInv, BrowserStep \/ PeerStep \/ UNCHANGED vars
  PROVE  ThrowInv'
<1>1. UNCHANGED << pend, terminated, rsock, cut, tmpR >>
  BY DEF BrowserStep, PeerStep, PeerAccepts, PeerSends, PeerReads, PeerCloses, vars,
         session, control
<1>2. CASE BrowserStep \/ PeerAccepts \/ PeerReads \/ PeerCloses \/ UNCHANGED vars
  <2>1. UNCHANGED << r2l, peerSent >>
    BY <1>2 DEF BrowserStep, PeerAccepts, PeerReads, PeerCloses, vars, Link
  <2> QED
    BY <1>1, <2>1 DEF ThrowInv, InTurn, Reading, SentForeign
<1>3. ASSUME NEW kind \in PeerKinds, PeerSends(kind) PROVE ThrowInv'
  <2>1. InTurn'
    BY <1>3, SendsKeepTurn DEF ThrowInv
  <2>2. SentForeign => SentForeign'
    <3>1. peerSent' = Append(peerSent, PeerMsg(kind)) /\ PeerMsg(kind) \in Frame
      BY <1>3, PeerMsgType DEF PeerSends
    <3>2. /\ Len(peerSent) \in Nat /\ Len(peerSent') = Len(peerSent) + 1
          /\ \A i \in 1 .. Len(peerSent) : peerSent'[i] = peerSent[i]
      BY <3>1, AppendProperties, LenProperties DEF DataType
    <3>3. \A i \in 1 .. Len(peerSent) : i \in 1 .. Len(peerSent')
      BY <3>2
    <3> QED
      BY <3>2, <3>3 DEF SentForeign
  <2> QED
    BY <1>1, <2>1, <2>2 DEF ThrowInv
<1> QED
  BY <1>2, <1>3 DEF PeerStep

(* FramedNeverThrows: once the link is up, an exception ends the process   *)
(* only for bytes of the server that are no frame, or where the session    *)
(* lost a part of the connect response, however the reads are cut.         *)
THEOREM FramedNeverThrowsHolds == Spec => []FramedNeverThrows
<1>1. Init => ThrowInv
  <2> SUFFICES ASSUME Init PROVE ThrowInv
    OBVIOUS
  <2>1. tmpR \o r2l = << >> /\ peerSent = << >> /\ ~ terminated
    BY ConcatEmptySeq DEF Init, LocalInit
  <2>2. << >> \in Seq(Frame) /\ Carries(tmpR \o r2l, << >>) /\ Among(<< >>, peerSent)
    BY <2>1, CarriesNothing DEF Among
  <2>3. \A i \in 1 .. Len(peerSent) : peerSent[i].sub = 0 => peerSent[i] = NoFrame
    <3>1. Len(peerSent) = 0
      BY <2>1
    <3> QED
      BY <3>1
  <2>4. InTurn
    BY <2>2, <2>3 DEF InTurn
  <2> QED
    BY <2>1, <2>4 DEF ThrowInv
<1>2. ControlInv /\ DataType /\ CutInv /\ ThrowInv /\ [Next]_vars => ThrowInv'
  <2> SUFFICES ASSUME ControlInv, DataType, CutInv, ThrowInv, Handler(LocalNext)
               PROVE  ThrowInv'
    BY OthersKeepTurn DEF Next
  <2>1. InTurn'
    BY HandlersKeepTurn DEF ThrowInv
  <2>2. LocalNext /\ peerSent' = peerSent /\ (cut => cut')
    BY DEF Handler
  <2>3. ~ terminated
    <3>1. pend # {}
      BY <2>2 DEF LocalNext, handleReadHandShake, handleWriteHandShake,
           handleReadSockv5Req, handleConnectToRemote, handleReadAuthRspFromRemote,
           handleReadAuthRspFromRemoteRead, handleWriteSockv5RspToBrowser,
           handleBeginPipeTransfer, handleReadDataFromBrowser, handleWriteDataToRemote,
           handleReadDataFromRemote, handleWriteDataToBrowser, ReadFromBrowser,
           ReadFromRemote, Written, BrowserFails, RemoteFails, Runs, Fails
    <3> QED
      BY <3>1, TerminatedIsStill DEF ControlInv
  <2>4. terminated' => rsock' = "new" \/ cut \/ SentForeign
    BY <2>2, <2>3, HandlersThrow DEF ThrowInv
  <2> QED
    BY <2>1, <2>2, <2>4 DEF ThrowInv, SentForeign
<1>3. DataType /\ ThrowInv => FramedNeverThrows
  <2> SUFFICES ASSUME DataType, ThrowInv, SentForeign
               PROVE  \E i \in DOMAIN peerSent : peerSent[i] = NoFrame
    BY DEF ThrowInv, FramedNeverThrows
  <2>1. DOMAIN peerSent = 1 .. Len(peerSent)
    BY LenProperties DEF DataType
  <2> QED
    BY <2>1 DEF SentForeign
<1> QED
  BY <1>1, <1>2, <1>3, ControlCorrect, DataCorrect, DownCorrect, PTL DEF Spec

=============================================================================
