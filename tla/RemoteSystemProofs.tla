------------------------- MODULE RemoteSystemProofs -------------------------
(***************************************************************************)
(* Proofs about one RemoteSession between any client and any target        *)
(* (RemoteSystem), for all values of the constants: the control, by the    *)
(* phases of WireLemmas, the types, for whom it dials, what it             *)
(* answers, and the two streams it carries.                                *)
(***************************************************************************)
EXTENDS RemoteSystem, WireLemmas

(* The set-up handlers that run before the target is connected.            *)
Asking == {"handleAuthFromBrowser", "handleQueryDns", "handleConnectToTarget"}

(* The link has not been accepted yet.                                     *)
Waiting ==
  /\ pend = {} /\ queued = {}
  /\ sock = "new" /\ rsock = "new"
  /\ terminated = FALSE

ControlInv == Waiting \/ Phases(Setup, Asking, UpPipe, DownPipe)

LEMMA HandlersApart == Apart(Setup, Asking, UpPipe, DownPipe)
BY DEF Apart, Setup, Asking, UpPipe, DownPipe

(* The link is accepted, or its log line throws.                           *)
LEMMA AcceptKeepsControl == ControlInv /\ handleAccept => ControlInv'
<1> SUFFICES ASSUME ControlInv, handleAccept PROVE ControlInv'
  OBVIOUS
<1>1. Waiting
  BY DEF ControlInv, Phases, SettingUp, Piping, Closing, Gone, handleAccept
<1>2. CASE sock' = "up"
  <2>1. SettingUp(Setup, Asking)'
    BY <1>1, <1>2 DEF Waiting, handleAccept, SettingUp, Setup, Asking
  <2> QED
    BY <2>1 DEF ControlInv, Phases
<1>3. CASE sock' = "closed"
  <2>1. Gone'
    BY <1>1, <1>3 DEF Waiting, handleAccept, Gone
  <2> QED
    BY <2>1 DEF ControlInv, Phases
<1> QED
  BY <1>2, <1>3 DEF handleAccept

(* Every handler of the session keeps the control invariant.               *)
LEMMA HandlersKeepControl ==
  ASSUME Phases(Setup, Asking, UpPipe, DownPipe),
         \/ handleAuthFromBrowser \/ handleQueryDns \/ handleConnectToTarget
         \/ handleWriteRespToBrowser \/ handleWriteDataToBrowser
         \/ handleReadDataFromTarget \/ handleWriteDataToTarget
         \/ handleReadDataFromBrowser
  PROVE  Phases(Setup, Asking, UpPipe, DownPipe)'
<1> USE HandlersApart
<1>1. CASE handleAuthFromBrowser
  BY <1>1, SetupStarts, SetupReturns, Throws, ShutsDown
     DEF Setup, Asking, handleAuthFromBrowser, ReadFromLink, LinkFails, LinkReset,
         Runs, Fails
<1>2. CASE handleQueryDns
  BY <1>2, SetupStarts, SetupReturns DEF Setup, Asking, handleQueryDns
<1>3. CASE handleConnectToTarget
  BY <1>3, LinkConnects, SetupReturns DEF Setup, Asking, handleConnectToTarget
<1>4. CASE handleWriteRespToBrowser
  BY <1>4, PipeStarts, SetupReturns
     DEF Setup, Asking, UpPipe, DownPipe, handleWriteRespToBrowser, Written,
         LinkFails, Runs, Fails
<1>5. CASE handleWriteDataToBrowser
  BY <1>5, PipeGoesOn, ShutsDown
     DEF UpPipe, DownPipe, handleWriteDataToBrowser, ReadFromTarget, TargetFails,
         Runs, Fails
<1>6. CASE handleReadDataFromTarget
  BY <1>6, PipeGoesOn, ShutsDown
     DEF UpPipe, DownPipe, handleReadDataFromTarget, Written, LinkFails, Runs, Fails
<1>7. CASE handleWriteDataToTarget
  BY <1>7, PipeGoesOn, ShutsDown, Throws
     DEF UpPipe, DownPipe, handleWriteDataToTarget, ReadFromLink, LinkFails,
         Runs, Fails
<1>8. CASE handleReadDataFromBrowser
  BY <1>8, PipeGoesOn, ShutsDown
     DEF UpPipe, DownPipe, handleReadDataFromBrowser, Written, TargetFails,
         Runs, Fails
<1> QED
  BY <1>1, <1>2, <1>3, <1>4, <1>5, <1>6, <1>7, <1>8

(* Before the link is accepted no handler can run.                         *)
LEMMA WaitingOnlyAccepts == Waiting /\ RemoteNext => handleAccept
BY DEF Waiting, RemoteNext, handleAuthFromBrowser, handleQueryDns,
       handleConnectToTarget, handleWriteRespToBrowser, handleWriteDataToBrowser,
       handleReadDataFromTarget, handleWriteDataToTarget, handleReadDataFromBrowser,
       ReadFromLink, ReadFromTarget, Written, LinkFails, TargetFails, Runs, Fails

(* The client and the target do not touch the session.                     *)
LEMMA OthersKeepControl ==
  ASSUME ControlInv, TargetStep \/ ClientStep \/ UNCHANGED vars
  PROVE  ControlInv'
<1>1. UNCHANGED control
  BY DEF TargetStep, ClientStep, ClientConnects, ClientSends, ClientReads,
         ClientCloses, vars, session
<1> QED
  BY <1>1, PhasesStutter DEF ControlInv, Waiting, control

(* A RemoteSession is always in one of its phases: waiting to be accepted, *)
(* set-up, pipe, closing, gone.                                            *)
THEOREM ControlCorrect == Spec => []ControlInv
<1>1. Init => ControlInv
  BY DEF Init, RemoteInit, ControlInv, Waiting
<1>2. ControlInv /\ [Next]_vars => ControlInv'
  BY AcceptKeepsControl, HandlersKeepControl, WaitingOnlyAccepts, OthersKeepControl
     DEF ControlInv, Next, Handler, RemoteNext
<1> QED
  BY <1>1, <1>2, PTL DEF Spec

(* NoOverlap: in RemoteSession.cpp no two operations of one direction are  *)
(* ever in progress together, whatever the client and the target do.       *)
THEOREM NoOverlapHolds == Spec => []NoOverlap
<1>1. ASSUME Waiting PROVE NoOverlap
  BY <1>1, FS_EmptySet DEF Waiting, NoOverlap
<1>2. ControlInv => NoOverlap
  BY <1>1, HandlersApart, PhasesNoOverlap DEF ControlInv, NoOverlap
<1> QED
  BY <1>2, ControlCorrect, PTL

(* NoDeadDirection: every handler of RemoteSession that leaves the sockets *)
(* open leaves an operation in each direction, or the one of the set-up.   *)
THEOREM NoDeadDirectionHolds == Spec => []NoDeadDirection
<1>1. ControlInv => NoDeadDirection
  BY PhasesNoDeadDirection DEF ControlInv, NoDeadDirection, Waiting
<1> QED
  BY <1>1, ControlCorrect, PTL

-----------------------------------------------------------------------------
(* Type correctness.  The control variables have their types by            *)
(* ControlInv; these are the others.                                       *)
DataType ==
  /\ TargetTypeOK
  /\ peer \in Ends
  /\ tmpB \in Seq(Piece) /\ tmpR \in Seq(Cell)
  /\ l2r \in Seq(Piece) /\ r2l \in Seq(Piece)
  /\ clientSent \in Seq(Frame) /\ clientGot \in Seq(Piece)

(* The types of the control variables.                                     *)
LEMMA ControlType ==
  ASSUME ControlInv
  PROVE  /\ pend \in SUBSET Ops /\ queued \in SUBSET Ops
         /\ sock \in Ends /\ rsock \in Ends
         /\ terminated \in BOOLEAN
<1>1. Setup \cup UpPipe \cup DownPipe \subseteq Ops
  BY DEF Setup, UpPipe, DownPipe, Ops, LinkReads, LinkWrites, TargetReads, TargetWrites
<1>2. CASE Waiting
  BY <1>2 DEF Waiting, Ends
<1>3. CASE Phases(Setup, Asking, UpPipe, DownPipe)
  <2>1. /\ pend \subseteq Setup \cup UpPipe \cup DownPipe /\ queued \subseteq pend
        /\ sock \in Ends /\ rsock \in Ends /\ terminated \in BOOLEAN
    BY <1>3, PhasesType
  <2> QED
    BY <1>1, <2>1
<1> QED
  BY <1>2, <1>3 DEF ControlInv

(* A read of the link: the rest of the stream, the buffer and its frames.  *)
LEMMA LinkReadType ==
  ASSUME DataType, NEW k \in 1 .. Len(l2r)
  PROVE  /\ SubSeq(l2r, k + 1, Len(l2r)) \in Seq(Piece)
         /\ tmpB \o SubSeq(l2r, 1, k) \in Seq(Piece)
         /\ \A i \in Nat : After(tmpB \o SubSeq(l2r, 1, k), i) \in Seq(Piece)
BY CutType, BufferType, AfterType DEF DataType

(* The handlers one by one.                                                *)
LEMMA AuthKeepsType ==
  ASSUME DataType, handleAuthFromBrowser, UNCHANGED << clientSent, clientGot >>
  PROVE  DataType'
<1>1. UNCHANGED << Service, r2t, t2r, tmpR, r2l, peer >>
  BY DEF handleAuthFromBrowser
<1>2. ASSUME UNCHANGED << l2r, tmpB >> PROVE DataType'
  BY <1>1, <1>2 DEF DataType, TargetTypeOK, Service
<1>3. ASSUME NEW k \in 1 .. Len(l2r),
             l2r' = SubSeq(l2r, k + 1, Len(l2r)),
             tmpB' \in { tmpB, tmpB \o SubSeq(l2r, 1, k),
                         After(tmpB \o SubSeq(l2r, 1, k), 1) }
      PROVE  DataType'
  <2>1. l2r' \in Seq(Piece) /\ tmpB' \in Seq(Piece)
    BY <1>3, LinkReadType DEF DataType
  <2> QED
    BY <1>1, <2>1 DEF DataType, TargetTypeOK, Service
<1> QED
  BY <1>2, <1>3 DEF handleAuthFromBrowser, ReadFromLink

LEMMA ConnectKeepsType ==
  ASSUME DataType, handleConnectToTarget, UNCHANGED << clientSent, clientGot >>
  PROVE  DataType'
<1>1. << C("connrsp", 0) >> \in Seq(Cell)
  BY CellType, SingletonType DEF CellTypes
<1>2. Sent(sock, r2l, Encoded(ConnectMsg(<< C("connrsp", 0) >>))) \in Seq(Piece)
  BY <1>1, FrameType, EncodedType, SentType DEF DataType
<1> QED
  BY <1>2 DEF DataType, TargetTypeOK, handleConnectToTarget

LEMMA FromTargetKeepsType ==
  ASSUME DataType, handleWriteDataToBrowser, UNCHANGED << clientSent, clientGot >>
  PROVE  DataType'
<1> USE DEF DataType, TargetTypeOK, Service
<1>1. ASSUME NEW k \in 1 .. Len(t2r)
      PROVE  /\ SubSeq(t2r, k + 1, Len(t2r)) \in Seq(Cell)
             /\ Sent(sock, r2l, Encoded(DataMsg(tmpR \o SubSeq(t2r, 1, k))))
                  \in Seq(Piece)
  BY CutType, BufferType, FrameType, EncodedType, SentType
<1> QED
  BY <1>1, EmptySeq DEF handleWriteDataToBrowser, ReadFromTarget

(* What the drain loop takes off the buffer counts.                        *)
LEMMA ExtractsCounts ==
  ASSUME DataType, NEW k \in 1 .. Len(l2r), NEW len,
         NEW n \in Extracts(tmpB \o SubSeq(l2r, 1, k), len)
  PROVE  n \in Counts(tmpB \o SubSeq(l2r, 1, k))
<1> DEFINE buf == tmpB \o SubSeq(l2r, 1, k)
<1>1. buf \in Seq(Piece)
  BY LinkReadType
<1> HIDE DEF buf
<1>2. n \in Extracts(buf, len)
  BY DEF buf
<1>3. n \in Nat /\ 2 * n <= Len(buf)
  BY <1>1, <1>2, ExtractsType
<1>4. n \in Counts(buf)
  BY <1>3 DEF Counts
<1> QED
  BY <1>4 DEF buf

(* The packet for the target is a sequence of bodies.                      *)
LEMMA BodiesType ==
  ASSUME NEW buf \in Seq(Piece), NEW n \in Counts(buf)
  PROVE  Bodies(buf, n) \in Seq(Seq(Cell))
<1>1. n \in Nat /\ 2 * n <= Len(buf) /\ Len(buf) \in Nat
  BY LenProperties DEF Counts
<1>2. ASSUME NEW i \in 1 .. n PROVE Msg(buf, i).body \in Seq(Cell)
  <2>1. i \in Nat \ {0} /\ 2 * i <= Len(buf)
    BY <1>1
  <2> QED
    BY <2>1, MsgType
<1> QED
  BY <1>1, <1>2 DEF Bodies

LEMMA FromLinkKeepsType ==
  ASSUME DataType, handleWriteDataToTarget, UNCHANGED << clientSent, clientGot >>
  PROVE  DataType'
<1>1. UNCHANGED << Service, t2r, tmpR, r2l, peer >>
  BY DEF handleWriteDataToTarget
<1>2. ASSUME l2r' \in Seq(Piece), tmpB' \in Seq(Piece), r2t' \in Seq(Seq(Cell))
      PROVE  DataType'
  BY <1>1, <1>2 DEF DataType, TargetTypeOK, Service
<1>3. l2r \in Seq(Piece) /\ tmpB \in Seq(Piece) /\ r2t \in Seq(Seq(Cell))
  BY DEF DataType, TargetTypeOK
<1>4. ASSUME NEW k \in 1 .. Len(l2r), l2r' = SubSeq(l2r, k + 1, Len(l2r)),
             \/ tmpB' = tmpB /\ r2t' = r2t
             \/ tmpB' = tmpB \o SubSeq(l2r, 1, k) /\ r2t' = r2t
             \/ \E n \in Counts(tmpB \o SubSeq(l2r, 1, k)) :
                  /\ tmpB' = After(tmpB \o SubSeq(l2r, 1, k), n)
                  /\ r2t' = Sent(rsock, r2t, Bodies(tmpB \o SubSeq(l2r, 1, k), n))
             \/ \E n \in Counts(tmpB \o SubSeq(l2r, 1, k)) :
                  /\ tmpB' = After(tmpB \o SubSeq(l2r, 1, k), n + 1)
                  /\ r2t' = r2t
      PROVE  DataType'
  <2>1. /\ l2r' \in Seq(Piece)
        /\ tmpB \o SubSeq(l2r, 1, k) \in Seq(Piece)
        /\ \A i \in Nat : After(tmpB \o SubSeq(l2r, 1, k), i) \in Seq(Piece)
    BY <1>4, LinkReadType
  <2>2. \A n \in Counts(tmpB \o SubSeq(l2r, 1, k)) : n \in Nat /\ n + 1 \in Nat
    BY DEF Counts
  <2>3. \A n \in Counts(tmpB \o SubSeq(l2r, 1, k)) :
          Sent(rsock, r2t, Bodies(tmpB \o SubSeq(l2r, 1, k), n)) \in Seq(Seq(Cell))
    BY <1>3, <2>1, BodiesType, SentType
  <2>4. tmpB' \in Seq(Piece)
    BY <1>3, <1>4, <2>1, <2>2
  <2>5. r2t' \in Seq(Seq(Cell))
    BY <1>3, <1>4, <2>3
  <2> QED
    BY <1>2, <2>1, <2>4, <2>5
<1>5. CASE UNCHANGED << l2r, r2t, tmpB >>
  BY <1>2, <1>3, <1>5
<1> QED
  BY <1>4, <1>5, ExtractsCounts DEF handleWriteDataToTarget, ReadFromLink

(* The other handlers leave the data alone.                                *)
LEMMA OthersKeepType ==
  ASSUME DataType, UNCHANGED << clientSent, clientGot >>,
         \/ handleAccept \/ handleQueryDns \/ handleWriteRespToBrowser
         \/ handleReadDataFromTarget \/ handleReadDataFromBrowser
  PROVE  DataType'
<1>1. UNCHANGED << Link, Service, r2t, t2r, tmpB, tmpR >>
  BY DEF handleAccept, handleQueryDns, handleWriteRespToBrowser,
         handleReadDataFromTarget, handleReadDataFromBrowser
<1> QED
  BY <1>1 DEF DataType, TargetTypeOK, Link, Service

(* The steps of the target and of the client.                              *)
LEMMA TargetKeepsType ==
  ASSUME DataType, TargetStep
  PROVE  DataType'
<1> USE DEF DataType, TargetTypeOK, Link, session
<1>1. UNCHANGED << session, Link, clientSent, clientGot >>
  BY DEF TargetStep
<1>2. CASE TargetSends
  <2>1. C("data", downSent + 1) \in Cell
    BY CellType DEF CellTypes
  <2> QED
    BY <1>1, <1>2, <2>1, AppendProperties DEF TargetSends
<1>3. CASE TargetReceives
  BY <1>1, <1>3, HeadTailProperties, AppendProperties DEF TargetReceives
<1>4. CASE TargetCloses \/ TargetResets
  BY <1>1, <1>4 DEF TargetCloses, TargetResets
<1> QED
  BY <1>2, <1>3, <1>4 DEF TargetStep, TargetNext

LEMMA ClientMsgType ==
  ASSUME DataType, NEW kind \in ClientKinds
  PROVE  ClientMsg(kind) \in Frame
<1>1. Len(clientSent) + 1 \in Nat
  BY LenProperties DEF DataType
<1>2. \A type \in CellTypes, val \in Nat : << C(type, val) >> \in Seq(Cell)
  BY CellType, SingletonType
<1>3. /\ \A v \in 0 .. 5 : ConnectMsg(<< C("connreq", v) >>) \in Frame
      /\ DataMsg(<< C("data", Len(clientSent) + 1) >>) \in Frame
  BY <1>1, <1>2, FrameType DEF CellTypes
<1>4. [DataMsg(<< C("data", 0) >>) EXCEPT !.ok = FALSE] \in Frame
  BY <1>2, FrameType DEF CellTypes, DataMsg, Frame
<1>5. kind \in 0 .. 5 \/ kind = 6 \/ kind = 7 \/ kind = 8
  BY ClientAssumption
<1>6. NoFrame \in Frame
  BY EmptySeq DEF NoFrame, Frame
<1> QED
  BY <1>3, <1>4, <1>5, <1>6 DEF ClientMsg

LEMMA ClientKeepsType ==
  ASSUME DataType, ClientStep
  PROVE  DataType'
<1> USE DEF DataType, TargetTypeOK, session, Service
<1>1. CASE ClientConnects \/ ClientCloses
  BY <1>1 DEF ClientConnects, ClientCloses, Ends
<1>2. ASSUME NEW kind \in ClientKinds, ClientSends(kind) PROVE DataType'
  BY <1>2, ClientMsgType, EncodedType, AppendProperties, ConcatProperties
     DEF ClientSends
<1>3. CASE ClientReads
  BY <1>3, HeadTailProperties, AppendProperties DEF ClientReads
<1> QED
  BY <1>1, <1>2, <1>3 DEF ClientStep

(* The buffers, the streams and the two neighbours keep their types,       *)
(* whichever handler runs.                                                 *)
THEOREM DataCorrect == Spec => []DataType
<1>1. Init => DataType
  BY EmptySeq DEF Init, TargetInit, RemoteInit, DataType, TargetTypeOK, Ends
<1>2. DataType /\ [Next]_vars => DataType'
  <2> SUFFICES ASSUME DataType, [Next]_vars PROVE DataType'
    OBVIOUS
  <2>1. CASE Handler(RemoteNext)
    BY <2>1, AuthKeepsType, ConnectKeepsType, FromTargetKeepsType,
       FromLinkKeepsType, OthersKeepType DEF Handler, RemoteNext
  <2>2. CASE UNCHANGED vars
    BY <2>2 DEF vars, session, Link, Service, DataType, TargetTypeOK
  <2> QED
    BY <2>1, <2>2, TargetKeepsType, ClientKeepsType DEF Next
<1> QED
  BY <1>1, <1>2, PTL DEF Spec

(* TypeOK: every variable of the session, its neighbours and the two       *)
(* connections keeps its type.                                             *)
THEOREM TypeCorrect == Spec => []TypeOK
<1>1. DataType /\ ControlInv => TypeOK
  BY ControlType DEF DataType, TypeOK
<1> QED
  BY <1>1, ControlCorrect, DataCorrect, PTL

-----------------------------------------------------------------------------
(* The users.  Until handleAuthFromBrowser takes the first message the     *)
(* receive buffer and the link hold all the client sent, from the start.   *)
Unread(s) ==
  IF clientSent = << >> THEN s = << >>
  ELSE /\ Len(s) >= 2
       /\ s[1] = [f |-> clientSent[1], half |-> 1]
       /\ s[2] = [f |-> clientSent[1], half |-> 2]

Unasked ==
  (sock = "new" \/ "handleAuthFromBrowser" \in pend) =>
    target = "new" /\ Unread(tmpB \o l2r)

(* What the client may have sent first: a message that is no connect       *)
(* message has other bytes than one.                                       *)
FirstMsg ==
  clientSent # << >> =>
    \/ \E v \in 0 .. 5 : clientSent[1] = ConnectMsg(<< C("connreq", v) >>)
    \/ \E v \in Nat : clientSent[1].body = << C("data", v) >>
    \/ clientSent[1] = NoFrame

(* A first message of a user with an address that parses.                  *)
ForUser ==
  /\ clientSent # << >>
  /\ \E v \in {1, 3, 4} : clientSent[1] = ConnectMsg(<< C("connreq", v) >>)

Dials ==
  (target # "new" \/ pend \cap (Ops \ {"handleAuthFromBrowser"}) # {}) => ForUser

DialInv == Unasked /\ FirstMsg /\ Dials

(* What the client sends is one or the other.                              *)
LEMMA ClientMsgIs ==
  ASSUME NEW kind \in ClientKinds, DataType
  PROVE  \/ \E v \in 0 .. 5 : ClientMsg(kind) = ConnectMsg(<< C("connreq", v) >>)
         \/ \E v \in Nat : ClientMsg(kind).body = << C("data", v) >>
         \/ ClientMsg(kind) = NoFrame
<1>1. Len(clientSent) + 1 \in Nat
  BY LenProperties DEF DataType
<1>2. kind \in 0 .. 5 \/ kind = 6 \/ kind = 7 \/ kind = 8
  BY ClientAssumption
<1>3. CASE kind \in 0 .. 5
  BY <1>3 DEF ClientMsg
<1>4. CASE kind = 6
  <2>1. ClientMsg(kind).body = << C("data", Len(clientSent) + 1) >>
    BY <1>4 DEF ClientMsg, DataMsg
  <2> QED
    BY <1>1, <2>1
<1>5. CASE kind = 7
  <2>1. ClientMsg(kind).body = << C("data", 0) >>
    BY <1>5 DEF ClientMsg, DataMsg
  <2> QED
    BY <2>1
<1>6. CASE kind = 8
  BY <1>6 DEF ClientMsg
<1> QED
  BY <1>2, <1>3, <1>4, <1>5, <1>6

(* A first message that passes is one the client sent first.               *)
LEMMA FirstPasses ==
  ASSUME DataType, FirstMsg, Unread(tmpB \o l2r),
         NEW k \in 1 .. Len(l2r),
         2 \in Check(tmpB \o SubSeq(l2r, 1, k)),
         IsConnectReq(tmpB \o SubSeq(l2r, 1, k)),
         Type(tmpB \o SubSeq(l2r, 1, k)) \in {1, 3, 4}
  PROVE  ForUser
<1> DEFINE buf == tmpB \o SubSeq(l2r, 1, k)
           rest == SubSeq(l2r, k + 1, Len(l2r))
<1>1. buf \in Seq(Piece) /\ rest \in Seq(Piece)
  BY LinkReadType
<1>2. buf \o rest = tmpB \o l2r
  BY ReadMoves DEF DataType
<1>3. Len(buf) \in Nat /\ Len(rest) \in Nat /\ Len(buf) >= 2
  <2>1. Intact(buf, 1) /\ 2 * 1 = 2 /\ Len(buf) \in Nat
    BY <1>1, LenProperties DEF IsConnectReq, FrameOk
  <2> QED
    BY <1>1, <2>1, LenProperties DEF Intact
<1> HIDE DEF buf, rest
<1>4. (buf \o rest)[1] = buf[1] /\ (buf \o rest)[2] = buf[2]
      /\ Len(buf \o rest) >= 2
  BY <1>1, <1>3, FrontStays
<1>5. clientSent # << >> /\ buf[2].f = clientSent[1]
  <2>1. tmpB \o l2r # << >>
    BY <1>2, <1>4, EmptySeq
  <2>2. clientSent # << >> /\ (tmpB \o l2r)[2] = [f |-> clientSent[1], half |-> 2]
    BY <2>1 DEF Unread
  <2> QED
    BY <1>2, <1>4, <2>2
<1>6. /\ IsConnectReq(buf) /\ Type(buf) \in {1, 3, 4}
      /\ Msg(buf, 1) = clientSent[1]
  <2>1. IsConnectReq(buf) /\ Type(buf) \in {1, 3, 4}
    BY DEF buf
  <2>2. Msg(buf, 1) = buf[2].f
    BY DEF Msg
  <2> QED
    BY <1>5, <2>1, <2>2
<1>7. PICK v \in {1, 3, 4} : clientSent[1].body = << C("connreq", v) >>
  BY <1>6 DEF IsConnectReq, Type, C
<1>8. ~ \E w \in Nat : clientSent[1].body = << C("data", w) >>
  <2>1. << C("connreq", v) >>[1].t = "connreq"
    BY DEF C
  <2>2. \A w \in Nat : << C("data", w) >>[1].t = "data"
    BY DEF C
  <2> QED
    BY <1>7, <2>1, <2>2
<1>9. PICK w \in 0 .. 5 : clientSent[1] = ConnectMsg(<< C("connreq", w) >>)
  <2>1. clientSent[1] # NoFrame
    <3>1. << C("connreq", v) >> # << >> /\ NoFrame.body = << >>
      BY DEF NoFrame
    <3> QED
      BY <1>7, <3>1
  <2> QED
    BY <1>5, <1>8, <2>1 DEF FirstMsg
<1>10. w = v
  BY <1>7, <1>9 DEF ConnectMsg, C
<1> QED
  BY <1>5, <1>9, <1>10 DEF ForUser, ClientMsg

(* handleAuthFromBrowser asks for more, ends the session, or goes on for   *)
(* a user.                                                                 *)
LEMMA AuthKeepsDial ==
  ASSUME ControlInv, DataType, DialInv, handleAuthFromBrowser, UNCHANGED clientSent
  PROVE  DialInv'
<1> DEFINE op == "handleAuthFromBrowser"
<1>1. op \in pend
  BY DEF handleAuthFromBrowser, ReadFromLink, LinkFails, Runs, Fails
<1>2. pend = {op} /\ queued = {} /\ sock = "up"
  <2>1. Phases(Setup, Asking, UpPipe, DownPipe)
    BY <1>1 DEF ControlInv, Waiting
  <2>2. op \in Setup
    BY DEF Setup
  <2> QED
    BY <1>1, <2>1, <2>2, HandlersApart, SetupAlone
<1>3. target = "new" /\ Unread(tmpB \o l2r) /\ FirstMsg
  BY <1>1 DEF DialInv, Unasked
<1>4. target' = "new" /\ FirstMsg'
  BY <1>3 DEF handleAuthFromBrowser, Service, FirstMsg
<1>5. ASSUME pend' = {op}, tmpB' \o l2r' = tmpB \o l2r
      PROVE  DialInv'
  BY <1>3, <1>4, <1>5 DEF DialInv, Unasked, Unread, Dials
<1>6. ASSUME pend' = {}, sock' = "closed"
      PROVE  DialInv'
  BY <1>4, <1>6 DEF DialInv, Unasked, Dials
<1>7. ASSUME NEW new, new # op, pend' = {new}, sock' = "up", ForUser
      PROVE  DialInv'
  BY <1>4, <1>7 DEF DialInv, Unasked, Dials, ForUser
<1>8. Throw \/ Return(op) \/ (\E d \in SUBSET Ops : Shutdown(op, d))
        => pend' = {} /\ sock' = "closed"
  BY <1>2 DEF Throw, Return, Shutdown, CloseBoth, Close
<1>9. \A new : Start(op, {new}) => pend' = {new} /\ sock' = "up"
  BY <1>2 DEF Start
<1>10. Done \in SUBSET Ops
  BY <1>1, ControlType DEF Done
<1>11. ASSUME NEW k \in 1 .. Len(l2r), ReadFromLink(op, k),
              tmpB' = tmpB \o SubSeq(l2r, 1, k), Start(op, {op})
       PROVE  DialInv'
  <2>1. tmpB' \o l2r' = tmpB \o l2r
    BY <1>11, ReadMoves DEF ReadFromLink, DataType
  <2> QED
    BY <1>5, <1>9, <1>11, <2>1
<1>12. ASSUME NEW k \in 1 .. Len(l2r),
              2 \in Check(tmpB \o SubSeq(l2r, 1, k)),
              IsConnectReq(tmpB \o SubSeq(l2r, 1, k)),
              checkUser(tmpB \o SubSeq(l2r, 1, k)),
              \/ /\ Type(tmpB \o SubSeq(l2r, 1, k)) \in {0, 3}
                 /\ Start(op, {"handleQueryDns"})
              \/ /\ Type(tmpB \o SubSeq(l2r, 1, k)) \in {1, 4}
                 /\ Start(op, {"handleConnectToTarget"})
       PROVE  DialInv'
  <2>1. Type(tmpB \o SubSeq(l2r, 1, k)) \in {1, 3, 4}
    BY <1>12 DEF checkUser
  <2>2. ForUser
    BY <1>3, <1>12, <2>1, FirstPasses
  <2> QED
    BY <1>7, <1>9, <1>12, <2>2
<1>13. Throw \/ Return(op) \/ Shutdown(op, Done) => DialInv'
  BY <1>6, <1>8, <1>10
<1> QED
  BY <1>11, <1>12, <1>13 DEF handleAuthFromBrowser, LinkReset

(* The link is accepted: nothing of it has been read.                      *)
LEMMA AcceptKeepsDial ==
  ASSUME ControlInv, DialInv, handleAccept, UNCHANGED clientSent
  PROVE  DialInv'
<1>1. pend = {}
  BY DEF ControlInv, Waiting, Phases, SettingUp, Piping, Closing, Gone, handleAccept
<1>2. UNCHANGED << target, tmpB, l2r, clientSent >>
  BY DEF handleAccept, Link, Service
<1>3. sock = "new" /\ target = "new" /\ Unread(tmpB \o l2r) /\ FirstMsg
  BY DEF handleAccept, DialInv, Unasked
<1>4. pend' \in { {}, {"handleAuthFromBrowser"} }
  BY <1>1 DEF handleAccept
<1> QED
  BY <1>2, <1>3, <1>4
     DEF DialInv, Unasked, Unread, FirstMsg, Dials, ForUser

(* Behind the check of the user the client no longer matters.              *)
LEMMA LaterKeepsDial ==
  ASSUME ControlInv, DialInv, UNCHANGED clientSent,
         \/ handleQueryDns \/ handleConnectToTarget
         \/ handleWriteRespToBrowser \/ handleWriteDataToBrowser
         \/ handleReadDataFromTarget \/ handleWriteDataToTarget
         \/ handleReadDataFromBrowser
  PROVE  DialInv'
<1> DEFINE auth == "handleAuthFromBrowser"
<1>1. PICK op \in Ops \ {auth} : op \in pend
  BY DEF handleQueryDns, handleConnectToTarget, handleWriteRespToBrowser,
         handleWriteDataToBrowser, handleReadDataFromTarget, handleWriteDataToTarget,
         handleReadDataFromBrowser, ReadFromLink, ReadFromTarget, Written, LinkFails,
         TargetFails, Runs, Fails, Ops, LinkReads, LinkWrites, TargetReads,
         TargetWrites
<1>2. ForUser /\ FirstMsg
  BY <1>1 DEF DialInv, Dials, ForUser
<1>3. Phases(Setup, Asking, UpPipe, DownPipe)
  BY <1>1 DEF ControlInv, Waiting
<1>4. auth \notin pend
  BY <1>1, <1>3, HandlersApart, SetupAlone DEF Setup
<1>5. sock \in {"up", "closed"}
  BY <1>3 DEF Phases, SettingUp, Piping, Closing, Gone
<1>6. auth \notin pend' /\ sock' # "new"
  BY <1>4, <1>5
     DEF handleQueryDns, handleConnectToTarget, handleWriteRespToBrowser,
         handleWriteDataToBrowser, handleReadDataFromTarget, handleWriteDataToTarget,
         handleReadDataFromBrowser, Start, Connected, Shutdown, Return, Throw, CloseBoth,
         Close
<1> QED
  BY <1>2, <1>6 DEF DialInv, Unasked, FirstMsg, Dials, ForUser

(* What the client sends stays behind what it sent first.                  *)
LEMMA SendsKeepsDial ==
  ASSUME DataType, DialInv, NEW kind \in ClientKinds, ClientSends(kind)
  PROVE  DialInv'
<1>1. /\ UNCHANGED << pend, sock, target, tmpB >>
      /\ clientSent' = Append(clientSent, ClientMsg(kind))
      /\ l2r' = l2r \o Encoded(ClientMsg(kind))
  BY DEF ClientSends, Service, session, control
<1>2. /\ clientSent' # << >>
      /\ clientSent'[1] = IF clientSent = << >> THEN ClientMsg(kind) ELSE clientSent[1]
  BY <1>1, ClientMsgType, AppendProperties, EmptySeq, LenProperties DEF DataType
<1>3. FirstMsg'
  BY <1>2, ClientMsgIs DEF DialInv, FirstMsg
<1>4. Dials'
  BY <1>1, <1>2 DEF DialInv, Dials, ForUser
<1>5. ASSUME Unread(tmpB \o l2r) PROVE Unread(tmpB \o l2r)'
  <2> DEFINE e == Encoded(ClientMsg(kind))
  <2>1. e \in Seq(Piece) /\ tmpB \o l2r \in Seq(Piece)
    BY ClientMsgType, EncodedType, ConcatProperties DEF DataType
  <2>2. (tmpB \o l2r)' = (tmpB \o l2r) \o e
    <3>1. (tmpB \o l2r)' = tmpB \o (l2r \o e)
      BY <1>1
    <3>2. tmpB \in Seq(Piece) /\ l2r \in Seq(Piece)
      BY DEF DataType
    <3> HIDE DEF e
    <3>3. (tmpB \o l2r) \o e = tmpB \o (l2r \o e)
      BY <2>1, <3>2, ConcatAssociative
    <3> QED
      BY <3>1, <3>3
  <2>3. CASE clientSent = << >>
    <3>1. (tmpB \o l2r)' = e
      BY <1>5, <2>1, <2>2, <2>3, ConcatEmptySeq DEF Unread
    <3> QED
      BY <1>2, <2>3, <3>1 DEF Unread, Encoded
  <2>4. CASE clientSent # << >>
    <3>1. /\ Len((tmpB \o l2r)') >= 2
          /\ (tmpB \o l2r)'[1] = (tmpB \o l2r)[1]
          /\ (tmpB \o l2r)'[2] = (tmpB \o l2r)[2]
      BY <1>5, <2>1, <2>2, <2>4, FrontStays DEF Unread
    <3> QED
      BY <1>2, <1>5, <2>4, <3>1 DEF Unread
  <2> QED
    BY <2>3, <2>4
<1> QED
  BY <1>1, <1>3, <1>4, <1>5 DEF DialInv, Unasked

(* No other step of the client or the target matters.                      *)
LEMMA OthersKeepDial ==
  ASSUME DialInv, TargetStep \/ ClientConnects \/ ClientReads \/ ClientCloses
                  \/ UNCHANGED vars
  PROVE  DialInv'
<1>1. UNCHANGED << pend, sock, tmpB, l2r, clientSent >>
  BY DEF TargetStep, ClientConnects, ClientReads, ClientCloses, vars, session, control,
         Link
<1>2. target = "new" <=> target' = "new"
  BY DEF TargetStep, TargetNext, TargetSends, TargetReceives, TargetCloses,
         TargetResets, ClientConnects, ClientReads, ClientCloses, vars, Service
<1> QED
  BY <1>1, <1>2 DEF DialInv, Unasked, Unread, FirstMsg, Dials, ForUser

(* DialsOnlyForUsers: tun_remote resolves or connects to nothing but what  *)
(* the first message of its client asked for, intact and with a user,      *)
(* however the stream is cut.                                              *)
THEOREM DialsOnlyForUsersHolds == Spec => []DialsOnlyForUsers
<1>1. Init => DialInv
  <2> SUFFICES ASSUME Init PROVE DialInv
    OBVIOUS
  <2>1. tmpB \o l2r = << >>
    BY DEF Init, RemoteInit
  <2> QED
    BY <2>1 DEF Init, RemoteInit, TargetInit, DialInv, Unasked, Unread, FirstMsg,
                Dials
<1>2. ControlInv /\ DataType /\ DialInv /\ [Next]_vars => DialInv'
  BY AuthKeepsDial, AcceptKeepsDial, LaterKeepsDial, SendsKeepsDial, OthersKeepDial
     DEF Next, Handler, RemoteNext, ClientStep
<1>3. DialInv => DialsOnlyForUsers
  <2>1. \A v \in {1, 3, 4} : ClientMsg(v) = ConnectMsg(<< C("connreq", v) >>)
    BY DEF ClientMsg
  <2> QED
    BY <2>1 DEF DialInv, Dials, ForUser, DialsOnlyForUsers
<1> QED
  BY <1>1, <1>2, <1>3, ControlCorrect, DataCorrect, PTL DEF Spec

-----------------------------------------------------------------------------
(* What the link carries back: what the client read and what is on its way *)
(* to it.  Messages are sent whole; nothing before the target is           *)
(* connected, and the pipe starts behind the answer.                       *)
Out == clientGot \o r2l

(* Whole messages, the first of them an answer and no other.               *)
InTurn(out) ==
  \E n \in Nat : /\ Len(out) = 2 * n
                 /\ \A i \in 1 .. n : out[2 * i].f.sub = 1 <=> i = 1

OutInv ==
  /\ sock = "new" \/ target = "new" \/ pend \cap Asking # {} => Out = << >>
  /\ pend \cap (Ops \ Asking) # {} => Out # << >>
  /\ InTurn(Out)

(* A message that is sent in its turn.                                     *)
LEMMA InTurnGoesOn ==
  ASSUME NEW b \in Seq(Piece), InTurn(b), NEW f \in Frame, f.sub = 1 <=> b = << >>
  PROVE  InTurn(b \o Encoded(f)) /\ b \o Encoded(f) # << >>
<1> DEFINE e == Encoded(f)
<1>1. e \in Seq(Piece) /\ Len(e) = 2 /\ e[2] = [f |-> f, half |-> 2]
  BY EncodedType DEF Encoded
<1>2. PICK n \in Nat : /\ Len(b) = 2 * n
                       /\ \A i \in 1 .. n : b[2 * i].f.sub = 1 <=> i = 1
  BY DEF InTurn
<1> HIDE DEF e
<1>3. Len(b \o e) = 2 * (n + 1)
  <2>1. b \in Seq(Piece) /\ e \in Seq(Piece)
    BY <1>1
  <2>2. Len(b \o e) = Len(b) + Len(e)
    BY <2>1, ConcatProperties
  <2> QED
    BY <1>1, <1>2, <2>2
<1>4. ASSUME NEW i \in 1 .. n PROVE (b \o e)[2 * i] = b[2 * i]
  <2>1. 2 * i \in 1 .. Len(b) + Len(e) /\ 2 * i <= Len(b)
    BY <1>1, <1>2
  <2> QED
    BY <1>1, <2>1, ConcatProperties
<1>5. (b \o e)[2 * (n + 1)] = e[2]
  <2>1. 2 * (n + 1) \in 1 .. Len(b) + Len(e) /\ ~ 2 * (n + 1) <= Len(b)
        /\ 2 * (n + 1) - Len(b) = 2
    BY <1>1, <1>2
  <2> QED
    BY <1>1, <2>1, ConcatProperties
<1>6. b = << >> <=> n + 1 = 1
  BY <1>2, EmptySeq
<1>7. ASSUME NEW i \in 1 .. n + 1 PROVE (b \o e)[2 * i].f.sub = 1 <=> i = 1
  <2>1. CASE i = n + 1
    <3>1. e[2].f.sub = 1 <=> b = << >>
      BY <1>1
    <3>2. (b \o e)[2 * i] = e[2]
      BY <1>5, <2>1
    <3> QED
      BY <1>2, <1>6, <2>1, <3>1, <3>2
  <2>2. CASE i # n + 1
    <3>1. i \in 1 .. n
      BY <2>2
    <3> QED
      BY <1>2, <1>4, <3>1
  <2> QED
    BY <2>1, <2>2
<1>8. InTurn(b \o e)
  BY <1>3, <1>7 DEF InTurn
<1>9. b \o e # << >>
  BY <1>2, <1>3, EmptySeq
<1> QED
  BY <1>8, <1>9 DEF e

(* What was received and what is on its way, with what is sent.            *)
LEMMA SentBehind ==
  ASSUME DataType, NEW x \in Seq(Piece)
  PROVE  /\ sock = "up" => clientGot \o Sent(sock, r2l, x) = Out \o x
         /\ sock # "up" => clientGot \o Sent(sock, r2l, x) = Out
<1>1. clientGot \in Seq(Piece) /\ r2l \in Seq(Piece) /\ x \in Seq(Piece)
  BY DEF DataType
<1>2. ASSUME sock = "up" PROVE clientGot \o Sent(sock, r2l, x) = Out \o x
  BY <1>1, <1>2, SendMoves DEF Out
<1>3. ASSUME sock # "up" PROVE clientGot \o Sent(sock, r2l, x) = Out
  BY <1>3 DEF Out, Sent
<1> QED
  BY <1>2, <1>3

(* What the link carries changes only by what is sent.                     *)
LEMMA SentIsOut ==
  ASSUME DataType, NEW x \in Seq(Piece), r2l' = Sent(sock, r2l, x),
         clientGot' = clientGot
  PROVE  /\ sock = "up" => Out' = Out \o x
         /\ sock # "up" => Out' = Out
<1>1. Out' = clientGot \o Sent(sock, r2l, x)
  BY DEF Out
<1> QED
  BY <1>1, SentBehind

LEMMA OutType ==
  ASSUME DataType
  PROVE  Out \in Seq(Piece)
BY ConcatProperties DEF Out, DataType

(* The steps that send nothing.                                            *)
LEMMA OutStays ==
  ASSUME OutInv, Out' = Out, Out = << >> \/ (sock' # "new" /\ target' # "new"),
         pend' \cap Asking # {} => Out = << >>,
         pend' \cap (Ops \ Asking) # {} => pend \cap (Ops \ Asking) # {}
  PROVE  OutInv'
BY DEF OutInv

(* The target is connected: the client is answered, first of all.          *)
LEMMA ConnectKeepsOut ==
  ASSUME ControlInv, DataType, OutInv, handleConnectToTarget,
         UNCHANGED << clientSent, clientGot >>
  PROVE  OutInv'
<1> DEFINE op == "handleConnectToTarget"
           m == ConnectMsg(<< C("connrsp", 0) >>)
<1>1. op \in pend /\ op \in Setup /\ op \in Asking
  BY DEF handleConnectToTarget, Setup, Asking
<1>2. pend = {op} /\ sock = "up"
  BY <1>1, HandlersApart, SetupAlone DEF ControlInv, Waiting
<1>3. Out = << >>
  BY <1>1 DEF OutInv
<1>4. CASE Return(op) /\ r2l' = r2l
  <2>1. pend' = {}
    BY <1>2, <1>4 DEF Return
  <2>2. Out' = Out
    BY <1>4 DEF Out
  <2> QED
    BY <1>3, <2>1, <2>2, OutStays
<1>5. CASE /\ target' = "up" /\ Connected(op, "handleWriteRespToBrowser")
           /\ r2l' = Sent(sock, r2l, Encoded(m))
  <2>1. m \in Frame /\ m.sub = 1
    <3>1. << C("connrsp", 0) >> \in Seq(Cell)
      BY CellType, SingletonType DEF CellTypes
    <3> QED
      BY <3>1, FrameType DEF ConnectMsg
  <2> HIDE DEF m
  <2>2. Encoded(m) \in Seq(Piece)
    BY <2>1, EncodedType
  <2>3. Out' = Out \o Encoded(m)
    BY <1>2, <1>5, <2>2, SentIsOut
  <2>4. InTurn(Out') /\ Out' # << >>
    BY <1>3, <2>1, <2>3, OutType, InTurnGoesOn DEF OutInv
  <2>5. pend' = {"handleWriteRespToBrowser"} /\ sock' = "up" /\ target' = "up"
    BY <1>2, <1>5 DEF Connected
  <2> QED
    BY <2>4, <2>5 DEF OutInv, Asking
<1> QED
  BY <1>4, <1>5 DEF handleConnectToTarget

(* Data goes out behind the answer.                                        *)
LEMMA DataKeepsOut ==
  ASSUME ControlInv, DataType, OutInv, handleWriteDataToBrowser,
         UNCHANGED << clientSent, clientGot >>
  PROVE  OutInv'
<1> DEFINE op == "handleWriteDataToBrowser"
<1>1. op \in pend /\ op \in DownPipe /\ op \in Ops \ Asking
  BY DEF handleWriteDataToBrowser, ReadFromTarget, TargetFails, Runs, Fails, DownPipe,
         Asking, Ops, TargetReads
<1>2. Out # << >> /\ InTurn(Out) /\ target # "new" /\ target' = target
  BY <1>1 DEF OutInv, handleWriteDataToBrowser, Service
<1>3. pend \cap Asking = {} /\ sock # "new"
  BY <1>1, HandlersApart
     DEF ControlInv, Waiting, Phases, SettingUp, Piping, Closing, Gone, Apart, Asking,
         Setup, DownPipe
<1>4. pend' \cap Asking = {} /\ sock' # "new"
  BY <1>3 DEF handleWriteDataToBrowser, Start, Shutdown, CloseBoth, Close, Asking
<1>5. ASSUME InTurn(Out'), Out' # << >> PROVE OutInv'
  BY <1>2, <1>4, <1>5 DEF OutInv
<1>6. CASE r2l' = r2l
  <2>1. Out' = Out
    BY <1>6 DEF Out
  <2> QED
    BY <1>2, <1>5, <2>1
<1>7. CASE \E k \in 1 .. Len(t2r) :
             r2l' = Sent(sock, r2l, Encoded(DataMsg(tmpR \o SubSeq(t2r, 1, k))))
  <2>1. PICK k \in 1 .. Len(t2r) :
           r2l' = Sent(sock, r2l, Encoded(DataMsg(tmpR \o SubSeq(t2r, 1, k))))
    BY <1>7
  <2> DEFINE m == DataMsg(tmpR \o SubSeq(t2r, 1, k))
  <2>2. m \in Frame /\ m.sub = 2
    <3>1. tmpR \o SubSeq(t2r, 1, k) \in Seq(Cell)
      BY BufferType DEF DataType, TargetTypeOK
    <3> QED
      BY <3>1, FrameType DEF DataMsg
  <2> HIDE DEF m
  <2>3. Encoded(m) \in Seq(Piece) /\ r2l' = Sent(sock, r2l, Encoded(m))
    BY <2>1, <2>2, EncodedType DEF m
  <2>4. Out' = Out \o Encoded(m) \/ Out' = Out
    BY <2>3, SentIsOut
  <2>5. InTurn(Out \o Encoded(m)) /\ Out \o Encoded(m) # << >>
    BY <1>2, <2>2, OutType, InTurnGoesOn
  <2> QED
    BY <1>2, <1>5, <2>4, <2>5
<1> QED
  BY <1>6, <1>7 DEF handleWriteDataToBrowser

(* No other handler sends to the client.                                   *)
LEMMA OtherHandlersKeepOut ==
  ASSUME ControlInv, OutInv, UNCHANGED << clientSent, clientGot >>,
         \/ handleAccept \/ handleAuthFromBrowser \/ handleQueryDns
         \/ handleWriteRespToBrowser \/ handleReadDataFromTarget
         \/ handleWriteDataToTarget \/ handleReadDataFromBrowser
  PROVE  OutInv'
<1>1. UNCHANGED << r2l, target >>
  BY DEF handleAccept, handleAuthFromBrowser, handleQueryDns, handleWriteRespToBrowser,
         handleReadDataFromTarget, handleWriteDataToTarget, handleReadDataFromBrowser,
         Link, Service
<1>2. Out' = Out
  BY <1>1 DEF Out
<1>3. CASE handleAccept
  <2>1. sock = "new" /\ pend' \in {pend, {"handleAuthFromBrowser"}}
    BY <1>3 DEF handleAccept
  <2>2. \/ pend' \cap (Ops \ Asking) = pend \cap (Ops \ Asking)
        \/ pend' \cap (Ops \ Asking) = {}
    BY <2>1 DEF Asking
  <2>3. Out = << >>
    BY <2>1 DEF OutInv
  <2> QED
    BY <1>2, <2>2, <2>3, OutStays
<1>4. CASE handleAuthFromBrowser \/ handleQueryDns
  <2>1. PICK op \in {"handleAuthFromBrowser", "handleQueryDns"} :
           /\ op \in pend
           /\ \/ \E new \in Asking : Start(op, {new})
              \/ Return(op) \/ Throw \/ (\E d : Shutdown(op, d))
    BY <1>4 DEF handleAuthFromBrowser, handleQueryDns, ReadFromLink, LinkFails, Runs,
                Fails, Asking, LinkReset
  <2>2. pend = {op}
    BY <2>1, HandlersApart, SetupAlone DEF ControlInv, Waiting, Setup
  <2>3. pend' \subseteq Asking
    BY <2>1, <2>2 DEF Start, Return, Throw, Shutdown
  <2>4. Out = << >>
    BY <2>1 DEF OutInv, Asking
  <2> QED
    BY <1>2, <2>3, <2>4, OutStays
<1>5. CASE \/ handleWriteRespToBrowser \/ handleReadDataFromTarget
           \/ handleWriteDataToTarget \/ handleReadDataFromBrowser
  <2>1. PICK op \in Ops \ Asking :
           /\ op \in pend
           /\ \/ \E new \in SUBSET (UpPipe \cup DownPipe) : Start(op, new)
              \/ Return(op) \/ Throw \/ (\E d : Shutdown(op, d))
    BY <1>5 DEF handleWriteRespToBrowser, handleReadDataFromTarget,
         handleWriteDataToTarget, handleReadDataFromBrowser, ReadFromLink, Written,
         LinkFails, TargetFails, Runs, Fails, Asking, Ops, LinkReads, LinkWrites,
         TargetReads, TargetWrites, UpPipe, DownPipe
  <2>2. Out # << >> /\ target # "new" /\ sock # "new" /\ pend \cap Asking = {}
    BY <2>1 DEF OutInv
  <2>3. pend' \cap Asking = {} /\ sock' # "new"
    BY <2>1, <2>2
       DEF Start, Return, Throw, Shutdown, CloseBoth, Close, UpPipe, DownPipe, Asking
  <2> QED
    BY <1>1, <1>2, <2>1, <2>2, <2>3, OutStays
<1> QED
  BY <1>3, <1>4, <1>5

(* The client reads what the link carries; its other steps and the         *)
(* target's do not touch it.                                               *)
LEMMA NeighboursKeepOut ==
  ASSUME DataType, OutInv, TargetStep \/ ClientStep \/ UNCHANGED vars
  PROVE  OutInv'
<1>1. UNCHANGED << pend, sock >>
  BY DEF TargetStep, ClientStep, ClientConnects, ClientSends, ClientReads,
         ClientCloses, vars, session, control
<1>2. target = "new" <=> target' = "new"
  BY DEF TargetStep, TargetNext, TargetSends, TargetReceives, TargetCloses,
         TargetResets, ClientStep, ClientConnects, ClientSends, ClientReads,
         ClientCloses, vars, Service
<1>3. Out' = Out
  <2>1. CASE ClientReads
    <3>1. clientGot \in Seq(Piece) /\ r2l \in Seq(Piece) /\ r2l # << >>
      BY <2>1 DEF DataType, ClientReads
    <3>2. Out' = Append(clientGot, Head(r2l)) \o Tail(r2l)
      BY <2>1 DEF ClientReads, Out
    <3> QED
      BY <3>1, <3>2, ReceiveMoves DEF Out
  <2>2. CASE UNCHANGED << clientGot, r2l >>
    BY <2>2 DEF Out
  <2> QED
    BY <2>1, <2>2 DEF TargetStep, ClientStep, ClientConnects, ClientSends,
                      ClientCloses, vars, Link
<1> QED
  BY <1>1, <1>2, <1>3 DEF OutInv

(* OneAnswerFirst: a RemoteSession answers its client once, when the       *)
(* target is connected, and before any data, whatever the target and the   *)
(* client do.                                                              *)
THEOREM OneAnswerFirstHolds == Spec => []OneAnswerFirst
<1>1. Init => OutInv
  <2> SUFFICES ASSUME Init PROVE OutInv
    OBVIOUS
  <2>1. Out = << >> /\ pend = {}
    BY DEF Init, RemoteInit, Out
  <2>2. InTurn(<< >>)
    <3>1. Len(<< >>) = 2 * 0 /\ 0 \in Nat /\ 1 .. 0 = {}
      OBVIOUS
    <3> QED
      BY <3>1 DEF InTurn
  <2> QED
    BY <2>1, <2>2 DEF OutInv
<1>2. ControlInv /\ DataType /\ OutInv /\ [Next]_vars => OutInv'
  BY ConnectKeepsOut, DataKeepsOut, OtherHandlersKeepOut, NeighboursKeepOut
     DEF Next, Handler, RemoteNext
<1>3. DataType /\ OutInv => OneAnswerFirst
  <2> SUFFICES ASSUME DataType, OutInv, NEW i \in DOMAIN Messages(Out)
               PROVE  /\ target # "new"
                      /\ Messages(Out)[i].sub = 1 <=> i = 1
    BY DEF OneAnswerFirst, Out
  <2>1. PICK n \in Nat : /\ Len(Out) = 2 * n
                         /\ \A j \in 1 .. n : Out[2 * j].f.sub = 1 <=> j = 1
    BY DEF OutInv, InTurn
  <2>2. Whole(Out) = n
    BY <2>1 DEF Whole
  <2>3. i \in 1 .. n /\ Messages(Out)[i] = Out[2 * i].f
    BY <2>2 DEF Messages, Msg
  <2>4. Out # << >>
    <3>1. n # 0
      BY <2>3
    <3> QED
      BY <2>1, <3>1, EmptySeq
  <2> QED
    BY <2>1, <2>3, <2>4 DEF OutInv
<1> QED
  BY <1>1, <1>2, <1>3, ControlCorrect, DataCorrect, PTL DEF Spec

-----------------------------------------------------------------------------
(* The stream of the client.  What the receive buffer and the link hold    *)
(* are whole messages: before the first is taken all that was sent, and    *)
(* then, until the link is closed, those whose bodies the target has not   *)
(* been written yet.                                                       *)
AtStart == sock = "new" \/ "handleAuthFromBrowser" \in pend

UpHeld(m) ==
  /\ Carries(tmpB \o l2r, m)
  /\ AtStart => m = clientSent /\ TargetGets = << >>
  /\ ~ AtStart =>
       clientSent # << >> /\ TargetGets \o BodiesIn(m) = ClientData

UpInv ==
  /\ Begins(TargetGets, ClientData)
  /\ sock # "closed" => \E m \in Seq(Frame) : UpHeld(m)

(* The types of the stream of the client.                                  *)
LEMMA UpTypes ==
  ASSUME DataType
  PROVE  /\ tgot \o r2t \in Seq(Seq(Cell)) /\ TargetGets \in Seq(Cell)
         /\ ClientData \in Seq(Cell) /\ Later(clientSent) \in Seq(Frame)
         /\ ClientData = BodiesIn(Later(clientSent))
         /\ tmpB \o l2r \in Seq(Piece)
<1>1. /\ tgot \in Seq(Seq(Cell)) /\ r2t \in Seq(Seq(Cell))
      /\ tmpB \in Seq(Piece) /\ l2r \in Seq(Piece)
  BY DEF DataType, TargetTypeOK
<1>2. tgot \o r2t \in Seq(Seq(Cell)) /\ FlattenSeq(tgot \o r2t) \in Seq(Cell)
  BY <1>1, ChunksSent
<1>3. Later(clientSent) \in Seq(Frame)
  <2>1. SubSeq(clientSent, 1 + 1, Len(clientSent)) \in Seq(Frame)
    BY RestType DEF DataType
  <2>2. 1 + 1 = 2
    OBVIOUS
  <2> QED
    BY <2>1, <2>2 DEF Later
<1>4. BodiesIn(Later(clientSent)) \in Seq(Cell)
  BY <1>3, BodiesInAdds
<1>5. tmpB \o l2r \in Seq(Piece)
  BY <1>1, ConcatProperties
<1> QED
  BY <1>2, <1>3, <1>4, <1>5 DEF TargetGets, ClientData, Later

(* A read of the link moves pieces to the receive buffer; what is taken    *)
(* out of the buffer are the first messages.                               *)
LEMMA LinkTaken ==
  ASSUME DataType, NEW m \in Seq(Frame), Carries(tmpB \o l2r, m),
         NEW k \in 1 .. Len(l2r), l2r' = SubSeq(l2r, k + 1, Len(l2r)),
         NEW n \in Counts(tmpB \o SubSeq(l2r, 1, k)),
         tmpB' = After(tmpB \o SubSeq(l2r, 1, k), n)
  PROVE  /\ n \in Nat /\ n <= Len(m)
         /\ Without(m, n) \in Seq(Frame) /\ Carries((tmpB \o l2r)', Without(m, n))
         /\ Bodies(tmpB \o SubSeq(l2r, 1, k), n) \in Seq(Seq(Cell))
         /\ FlattenSeq(Bodies(tmpB \o SubSeq(l2r, 1, k), n)) \o BodiesIn(Without(m, n))
              = BodiesIn(m)
<1> DEFINE buf == tmpB \o SubSeq(l2r, 1, k)
           rest == SubSeq(l2r, k + 1, Len(l2r))
<1>1. buf \in Seq(Piece) /\ rest \in Seq(Piece)
  BY LinkReadType
<1>2. buf \o rest = tmpB \o l2r
  BY ReadMoves DEF DataType
<1>3. (tmpB \o l2r)' = After(buf, n) \o rest /\ n \in Counts(buf)
  OBVIOUS
<1>4. Bodies(buf, n) = BodiesOf(buf, n)
  BY DEF Bodies, BodiesOf
<1> HIDE DEF buf, rest
<1>5. Carries(buf \o rest, m)
  BY <1>2
<1>0. n \in Nat /\ 2 * n <= Len(buf)
  BY <1>3 DEF Counts
<1>6. /\ Without(m, n) \in Seq(Frame)
      /\ Carries(After(buf, n) \o rest, Without(m, n))
      /\ BodiesOf(buf, n) \in Seq(Seq(Cell))
      /\ FlattenSeq(BodiesOf(buf, n)) \o BodiesIn(Without(m, n)) = BodiesIn(m)
  BY <1>1, <1>3, <1>5, DrainAdds
<1>7. n <= Len(m) /\ Carries((tmpB \o l2r)', Without(m, n))
  BY <1>0, <1>1, <1>3, <1>5, <1>6, CarriesCut
<1> QED
  BY <1>0, <1>4, <1>6, <1>7 DEF buf

(* A read that takes no message out.                                       *)
LEMMA LinkKept ==
  ASSUME DataType, NEW m, Carries(tmpB \o l2r, m),
         NEW k \in 1 .. Len(l2r), l2r' = SubSeq(l2r, k + 1, Len(l2r)),
         tmpB' = tmpB \o SubSeq(l2r, 1, k)
  PROVE  Carries((tmpB \o l2r)', m)
<1>1. tmpB' \o l2r' = tmpB \o l2r
  BY ReadMoves DEF DataType
<1> QED
  BY <1>1

(* handleAuthFromBrowser asks for more, goes on behind the first message,  *)
(* or ends the session.                                                    *)
LEMMA AuthTakes ==
  ASSUME ControlInv, DataType, handleAuthFromBrowser,
         NEW m \in Seq(Frame), Carries(tmpB \o l2r, m)
  PROVE  /\ AtStart /\ TargetGets' = TargetGets
         /\ \/ /\ Carries((tmpB \o l2r)', m) /\ AtStart'
               /\ pend' = {"handleAuthFromBrowser"}
            \/ ~ AtStart' /\ sock' = "closed" /\ pend' = {}
            \/ /\ Carries((tmpB \o l2r)', Later(m)) /\ Later(m) \in Seq(Frame)
               /\ m # << >> /\ ~ AtStart'
<1> DEFINE op == "handleAuthFromBrowser"
<1>1. op \in pend
  BY DEF handleAuthFromBrowser, ReadFromLink, LinkFails, Runs, Fails
<1>2. pend = {op} /\ queued = {} /\ sock = "up"
  <2>1. Phases(Setup, Asking, UpPipe, DownPipe) /\ op \in Setup
    BY <1>1 DEF ControlInv, Waiting, Setup
  <2> QED
    BY <1>1, <2>1, HandlersApart, SetupAlone
<1>3. AtStart /\ TargetGets' = TargetGets
  BY <1>1 DEF AtStart, TargetGets, handleAuthFromBrowser, Service
<1>4. \A d : Throw \/ Return(op) \/ Shutdown(op, d) => pend' = {} /\ sock' = "closed"
  BY <1>2 DEF Throw, Return, Shutdown, CloseBoth, Close
<1>5. \A new : Start(op, {new}) => pend' = {new} /\ sock' = "up"
  BY <1>2 DEF Start
<1>6. CASE Shutdown(op, Done) \/ Throw
  BY <1>3, <1>4, <1>6 DEF AtStart
<1>7. ASSUME NEW k \in 1 .. Len(l2r), ReadFromLink(op, k),
             tmpB' = tmpB \o SubSeq(l2r, 1, k), Start(op, {op})
      PROVE  Carries((tmpB \o l2r)', m) /\ AtStart' /\ pend' = {op}
  BY <1>5, <1>7, LinkKept DEF AtStart, ReadFromLink
<1>8. ASSUME NEW k \in 1 .. Len(l2r), ReadFromLink(op, k),
             IsConnectReq(tmpB \o SubSeq(l2r, 1, k)),
             tmpB' = After(tmpB \o SubSeq(l2r, 1, k), 1),
             Throw \/ Return(op) \/ (\E new \in Ops \ {op} : Start(op, {new}))
      PROVE  /\ Carries((tmpB \o l2r)', Later(m)) /\ Later(m) \in Seq(Frame)
             /\ m # << >> /\ ~ AtStart'
  <2> DEFINE buf == tmpB \o SubSeq(l2r, 1, k)
  <2>1. buf \in Seq(Piece) /\ Len(buf) \in Nat
    BY LinkReadType, LenProperties
  <2>2. 2 * 1 <= Len(buf) /\ 1 \in Nat /\ 1 + 1 = 2 /\ 1 \in Counts(buf)
    BY <1>8, <2>1 DEF IsConnectReq, FrameOk, Intact, Counts
  <2>3. Later(m) = Without(m, 1) /\ l2r' = SubSeq(l2r, k + 1, Len(l2r))
    BY <1>8, <2>2 DEF Later, Without, ReadFromLink
  <2>4. Carries((tmpB \o l2r)', Later(m)) /\ Later(m) \in Seq(Frame)
    BY <1>8, <2>2, <2>3, LinkTaken
  <2>5. m # << >>
    <3>1. tmpB \o l2r = buf \o SubSeq(l2r, k + 1, Len(l2r))
      BY ReadMoves DEF DataType
    <3>2. Len(tmpB \o l2r) >= 2
      <4>1. SubSeq(l2r, k + 1, Len(l2r)) \in Seq(Piece)
        BY LinkReadType
      <4> HIDE DEF buf
      <4>2. Len(tmpB \o l2r) = Len(buf) + Len(SubSeq(l2r, k + 1, Len(l2r)))
        BY <2>1, <3>1, <4>1, ConcatProperties
      <4> QED
        BY <2>1, <2>2, <4>1, <4>2, LenProperties
    <3>3. Len(tmpB \o l2r) = 2 * Len(m)
      BY DEF Carries
    <3> QED
      BY <3>2, <3>3
  <2>6. ~ AtStart'
    BY <1>4, <1>5, <1>8 DEF AtStart
  <2> QED
    BY <2>4, <2>5, <2>6
<1> QED
  BY <1>3, <1>6, <1>7, <1>8
     DEF handleAuthFromBrowser, LinkReset, Ops, LinkReads, LinkWrites, TargetReads,
         TargetWrites

(* A read of the pipe: the bodies of the messages it takes are written to  *)
(* the target; a message that does not check ends the stream, and so does  *)
(* an answer of check() that throws.                                       *)
LEMMA ReadTakes ==
  ASSUME ControlInv, DataType, handleWriteDataToTarget,
         NEW m \in Seq(Frame), Carries(tmpB \o l2r, m)
  PROVE  /\ ~ AtStart /\ ~ AtStart'
         /\ \/ /\ pend' \cap UpPipe = {} /\ sock' = "closed"
               /\ TargetGets' = TargetGets
            \/ \E n \in Nat :
                 /\ n <= Len(m) /\ Without(m, n) \in Seq(Frame)
                 /\ Carries((tmpB \o l2r)', Without(m, n))
                 /\ \/ sock' = "closed" /\ TargetGets' = TargetGets
                    \/ /\ sock' = "up" /\ sock = "up"
                       /\ TargetGets' \o BodiesIn(Without(m, n)) = TargetGets \o BodiesIn(m)
<1> DEFINE op == "handleWriteDataToTarget"
<1>1. op \in pend /\ op \in UpPipe
  BY DEF handleWriteDataToTarget, ReadFromLink, LinkFails, Runs, Fails, UpPipe
<1>2. /\ ~ AtStart /\ sock \in {"up", "closed"} /\ rsock \in {"up", "closed"}
      /\ sock = "up" => rsock = "up"
  BY <1>1, HandlersApart
     DEF ControlInv, Waiting, Phases, SettingUp, Piping, Closing, Gone, Apart, Setup,
         UpPipe, AtStart
<1>3. ~ AtStart'
  BY <1>2 DEF AtStart, handleWriteDataToTarget, Start, Throw, Shutdown, CloseBoth, Close
<1>4. \A d : Throw \/ Shutdown(op, d) => sock' = "closed" /\ pend' \cap UpPipe = {}
  <2>1. \A x \in pend \cap UpPipe : x = op
    BY <1>1, HandlersApart
       DEF ControlInv, Waiting, Phases, SettingUp, Piping, Closing, Gone, Apart
  <2> QED
    BY <1>2, <2>1 DEF Throw, Shutdown, CloseBoth, Close
<1>5. \A new : Start(op, new) => sock' = sock
  BY DEF Start
<1>6. tgot' = tgot /\ tgot \in Seq(Seq(Cell)) /\ r2t \in Seq(Seq(Cell))
  BY DEF handleWriteDataToTarget, Service, DataType, TargetTypeOK
<1>7. r2t' = r2t => TargetGets' = TargetGets
  BY <1>6 DEF TargetGets
<1>0. m = Without(m, 0) /\ 0 <= Len(m)
  <2>1. 0 + 1 = 1 /\ SubSeq(m, 1, Len(m)) = m /\ 0 <= Len(m)
    BY SubSeqFull, LenProperties
  <2> QED
    BY <2>1 DEF Without
<1>8. CASE (Throw \/ Shutdown(op, Done)) /\ r2t' = r2t
  BY <1>2, <1>3, <1>4, <1>7, <1>8
<1>9. ASSUME NEW k \in 1 .. Len(l2r), ReadFromLink(op, k),
             tmpB' = tmpB \o SubSeq(l2r, 1, k), Start(op, {op}), r2t' = r2t
      PROVE  /\ Carries((tmpB \o l2r)', m)
             /\ \/ sock' = "closed" /\ TargetGets' = TargetGets
                \/ /\ sock' = "up" /\ sock = "up"
                   /\ TargetGets' \o BodiesIn(m) = TargetGets \o BodiesIn(m)
  BY <1>2, <1>5, <1>7, <1>9, LinkKept DEF ReadFromLink
<1>10. ASSUME NEW k \in 1 .. Len(l2r), ReadFromLink(op, k),
              NEW n \in Counts(tmpB \o SubSeq(l2r, 1, k)),
              tmpB' = After(tmpB \o SubSeq(l2r, 1, k), n),
              Start(op, {"handleReadDataFromBrowser"}),
              r2t' = Sent(rsock, r2t, Bodies(tmpB \o SubSeq(l2r, 1, k), n))
       PROVE  /\ n \in Nat /\ n <= Len(m) /\ Without(m, n) \in Seq(Frame)
              /\ Carries((tmpB \o l2r)', Without(m, n))
              /\ \/ sock' = "closed" /\ TargetGets' = TargetGets
                 \/ /\ sock' = "up" /\ sock = "up"
                    /\ TargetGets' \o BodiesIn(Without(m, n)) = TargetGets \o BodiesIn(m)
  <2> DEFINE x == Bodies(tmpB \o SubSeq(l2r, 1, k), n)
             r == Without(m, n)
  <2>1. /\ n \in Nat /\ n <= Len(m) /\ r \in Seq(Frame) /\ Carries((tmpB \o l2r)', r)
        /\ x \in Seq(Seq(Cell)) /\ FlattenSeq(x) \o BodiesIn(r) = BodiesIn(m)
    BY <1>10, LinkTaken DEF ReadFromLink
  <2>3. Start(op, {"handleReadDataFromBrowser"}) /\ r2t' = Sent(rsock, r2t, x)
    BY <1>10
  <2> HIDE DEF x, r
  <2>4. CASE sock = "up"
    <3>1. TargetGets' = TargetGets \o FlattenSeq(x) /\ FlattenSeq(x) \in Seq(Cell)
      <4>1. rsock = "up"
        BY <1>2, <2>4
      <4>2. /\ FlattenSeq(tgot \o (r2t \o x)) = FlattenSeq(tgot \o r2t) \o FlattenSeq(x)
            /\ FlattenSeq(x) \in Seq(Cell)
        BY ONLY <1>6, <2>1, ChunksWritten
      <4>3. TargetGets' = FlattenSeq(tgot \o (r2t \o x))
        BY <1>6, <2>3, <4>1 DEF TargetGets, Sent
      <4> QED
        BY <4>2, <4>3 DEF TargetGets
    <3>2. (TargetGets \o FlattenSeq(x)) \o BodiesIn(r) = TargetGets \o BodiesIn(m)
      <4>1. TargetGets \in Seq(Cell) /\ BodiesIn(r) \in Seq(Cell)
        BY <2>1, UpTypes, BodiesInAdds
      <4>2. (TargetGets \o FlattenSeq(x)) \o BodiesIn(r)
              = TargetGets \o (FlattenSeq(x) \o BodiesIn(r))
        BY ONLY <3>1, <4>1, Regroup
      <4> QED
        BY <2>1, <4>2
    <3> QED
      BY <1>5, <2>1, <2>3, <2>4, <3>1, <3>2 DEF r
  <2>5. CASE sock # "up"
    <3>1. sock' = "closed"
      BY <1>2, <1>5, <2>3, <2>5
    <3>2. TargetGets' = TargetGets
      <4>1. rsock # "up"
        BY <1>1, <1>2, <2>5, HandlersApart
           DEF ControlInv, Waiting, Phases, SettingUp, Piping, Closing, Gone, Apart
      <4> QED
        BY <1>7, <2>3, <4>1 DEF Sent
    <3> QED
      BY <2>1, <3>1, <3>2 DEF r
  <2> QED
    BY <2>4, <2>5
<1>11. \/ (Throw \/ Shutdown(op, Done)) /\ r2t' = r2t
       \/ \E k \in 1 .. Len(l2r) :
            /\ ReadFromLink(op, k)
            /\ \/ /\ tmpB' = tmpB \o SubSeq(l2r, 1, k)
                  /\ Start(op, {op}) /\ r2t' = r2t
               \/ \E n \in Extracts(tmpB \o SubSeq(l2r, 1, k), 0) :
                    /\ tmpB' = After(tmpB \o SubSeq(l2r, 1, k), n)
                    /\ r2t' = Sent(rsock, r2t, Bodies(tmpB \o SubSeq(l2r, 1, k), n))
                    /\ Start(op, {"handleReadDataFromBrowser"})
  BY DEF handleWriteDataToTarget
<1>12. CASE \E k \in 1 .. Len(l2r) :
              /\ ReadFromLink(op, k)
              /\ tmpB' = tmpB \o SubSeq(l2r, 1, k)
              /\ Start(op, {op}) /\ r2t' = r2t
  BY <1>0, <1>2, <1>3, <1>9, <1>12
<1>13. CASE \E k \in 1 .. Len(l2r) :
              /\ ReadFromLink(op, k)
              /\ \E n \in Extracts(tmpB \o SubSeq(l2r, 1, k), 0) :
                    /\ tmpB' = After(tmpB \o SubSeq(l2r, 1, k), n)
                    /\ r2t' = Sent(rsock, r2t, Bodies(tmpB \o SubSeq(l2r, 1, k), n))
                    /\ Start(op, {"handleReadDataFromBrowser"})
  BY <1>2, <1>3, <1>10, <1>13, ExtractsCounts
<1> QED
  BY <1>8, <1>11, <1>12, <1>13

(* The steps of the session keep the stream of the client.                 *)
LEMMA HandlersKeepUp ==
  ASSUME ControlInv, DataType, UpInv, Handler(RemoteNext)
  PROVE  UpInv'
<1>1. clientSent' = clientSent /\ ClientData' = ClientData
  BY DEF Handler, ClientData
<1>2. /\ TargetGets \in Seq(Cell) /\ ClientData \in Seq(Cell)
      /\ ClientData = BodiesIn(Later(clientSent))
      /\ Begins(TargetGets, ClientData)
  BY UpTypes DEF UpInv
<1>3. ASSUME UNCHANGED << l2r, tmpB, r2t, tgot >>,
             AtStart' => AtStart,
             sock' # "closed" => (sock # "closed" /\ (AtStart => AtStart'))
      PROVE  UpInv'
  BY <1>1, <1>3 DEF UpInv, UpHeld, TargetGets
<1>4. CASE handleAccept
  <2>1. AtStart /\ sock = "new" /\ UNCHANGED << l2r, tmpB, r2t, tgot >>
    BY <1>4 DEF AtStart, handleAccept, Link, Service
  <2>2. ~ AtStart' => sock' = "closed"
    BY <1>4 DEF AtStart, handleAccept
  <2> QED
    BY <1>3, <2>1, <2>2
<1>5. ASSUME NEW m \in Seq(Frame), UpHeld(m), handleAuthFromBrowser
      PROVE  UpInv'
  <2>1. /\ AtStart /\ TargetGets' = TargetGets /\ m = clientSent /\ TargetGets = << >>
        /\ Carries(tmpB \o l2r, m)
    BY <1>5, AuthTakes DEF UpHeld
  <2>2. CASE Carries((tmpB \o l2r)', m) /\ AtStart'
    <3>1. UpHeld(m)'
      BY <1>1, <2>1, <2>2 DEF UpHeld
    <3> QED
      BY <1>1, <1>2, <2>1, <3>1 DEF UpInv
  <2>3. CASE sock' = "closed"
    BY <1>1, <1>2, <2>1, <2>3 DEF UpInv
  <2>4. CASE /\ Carries((tmpB \o l2r)', Later(m)) /\ Later(m) \in Seq(Frame)
             /\ m # << >> /\ ~ AtStart'
    <3>1. << >> \o BodiesIn(Later(m)) = BodiesIn(Later(m))
      BY <1>2, <2>1, ConcatEmptySeq
    <3>2. UpHeld(Later(m))'
      BY <1>1, <1>2, <2>1, <2>4, <3>1 DEF UpHeld
    <3> QED
      BY <1>1, <1>2, <2>1, <2>4, <3>2 DEF UpInv
  <2> QED
    BY <1>5, <2>1, <2>2, <2>3, <2>4, AuthTakes
<1>6. ASSUME NEW m \in Seq(Frame), UpHeld(m), handleWriteDataToTarget
      PROVE  UpInv'
  <2>1. ~ AtStart /\ ~ AtStart' /\ Carries(tmpB \o l2r, m)
    BY <1>6, ReadTakes DEF UpHeld
  <2>2. CASE sock' = "closed" /\ TargetGets' = TargetGets
    BY <1>1, <1>2, <2>2 DEF UpInv
  <2>3. ASSUME NEW n \in Nat, Without(m, n) \in Seq(Frame),
               Carries((tmpB \o l2r)', Without(m, n)),
               TargetGets' \o BodiesIn(Without(m, n)) = TargetGets \o BodiesIn(m)
        PROVE  UpInv'
    <3>1. TargetGets' \o BodiesIn(Without(m, n)) = ClientData' /\ clientSent # << >>
      BY <1>1, <1>6, <2>1, <2>3 DEF UpHeld
    <3>2. BodiesIn(Without(m, n)) \in Seq(Cell)
      BY <2>3, BodiesInAdds
    <3>3. Begins(TargetGets, ClientData)'
      BY <3>1, <3>2 DEF Begins
    <3>4. UpHeld(Without(m, n))'
      BY <1>1, <2>1, <2>3, <3>1 DEF UpHeld
    <3> QED
      BY <2>3, <3>3, <3>4 DEF UpInv
  <2> QED
    BY <1>6, <2>1, <2>2, <2>3, ReadTakes
<1>7. CASE \/ handleQueryDns \/ handleConnectToTarget
           \/ handleWriteRespToBrowser \/ handleWriteDataToBrowser
           \/ handleReadDataFromTarget \/ handleReadDataFromBrowser
  <2>1. UNCHANGED << l2r, tmpB, r2t, tgot >>
    BY <1>7
       DEF handleQueryDns, handleConnectToTarget, handleWriteRespToBrowser,
           handleWriteDataToBrowser, handleReadDataFromTarget,
           handleReadDataFromBrowser, Link, Service
  <2>2. PICK op \in Ops \ {"handleAuthFromBrowser"} : op \in pend
    BY <1>7
       DEF handleQueryDns, handleConnectToTarget, handleWriteRespToBrowser,
           handleWriteDataToBrowser, handleReadDataFromTarget,
           handleReadDataFromBrowser, ReadFromTarget, Written, LinkFails, TargetFails,
           Runs, Fails, Ops, LinkReads, LinkWrites, TargetReads, TargetWrites
  <2>3. ~ AtStart /\ sock \in {"up", "closed"}
    <3>1. Phases(Setup, Asking, UpPipe, DownPipe)
      BY <2>2 DEF ControlInv, Waiting
    <3> QED
      BY <2>2, <3>1, HandlersApart
         DEF Phases, SettingUp, Piping, Closing, Gone, Apart, Setup, AtStart
  <2>4. ~ AtStart' /\ sock' \in {"up", "closed"} /\ (sock' = "up" => sock = "up")
    BY <1>7, <2>3
       DEF handleQueryDns, handleConnectToTarget, handleWriteRespToBrowser,
           handleWriteDataToBrowser, handleReadDataFromTarget,
           handleReadDataFromBrowser, AtStart, Start, Connected, Shutdown, Return,
           CloseBoth, Close
  <2> QED
    BY <1>3, <2>1, <2>3, <2>4
<1>8. CASE sock = "closed"
  <2>1. sock' = "closed" /\ TargetGets' = TargetGets
    <3>1. rsock # "up" /\ ~ handleAccept
      BY <1>8 DEF ControlInv, Waiting, Phases, SettingUp, Piping, Closing, Gone,
                  handleAccept
    <3>2. sock' = "closed"
      BY <1>8, <3>1 DEF Handler, RemoteNext, handleAuthFromBrowser, handleQueryDns,
           handleConnectToTarget, handleWriteRespToBrowser, handleWriteDataToBrowser,
           handleReadDataFromTarget, handleWriteDataToTarget, handleReadDataFromBrowser,
           LinkReset, Throw, Start, Connected, Shutdown, Return, CloseBoth, Close
    <3>3. UNCHANGED << r2t, tgot >>
      BY <3>1 DEF Handler, RemoteNext, handleAuthFromBrowser, handleQueryDns,
           handleConnectToTarget, handleWriteRespToBrowser, handleWriteDataToBrowser,
           handleReadDataFromTarget, handleWriteDataToTarget, handleReadDataFromBrowser,
           Service, Sent
    <3> QED
      BY <3>2, <3>3 DEF TargetGets
  <2> QED
    BY <1>1, <1>2, <2>1 DEF UpInv
<1> QED
  BY <1>4, <1>5, <1>6, <1>7, <1>8 DEF UpInv, Handler, RemoteNext

(* So do the steps of the target.                                          *)
LEMMA TargetKeepsUp ==
  ASSUME DataType, UpInv, TargetStep
  PROVE  UpInv'
<1>2. UNCHANGED << pend, sock, tmpB, l2r, clientSent >>
  BY DEF TargetStep, session, control, Link
<1>3. tgot' \o r2t' = tgot \o r2t
  <2>1. CASE TargetReceives
    <3>1. tgot \in Seq(Seq(Cell)) /\ r2t \in Seq(Seq(Cell)) /\ r2t # << >>
      BY <2>1 DEF DataType, TargetTypeOK, TargetReceives
    <3>2. Append(tgot, Head(r2t)) \o Tail(r2t) = tgot \o r2t
      BY <3>1, ChunksReceived
    <3> QED
      BY <2>1, <3>2 DEF TargetReceives
  <2>2. CASE UNCHANGED << tgot, r2t >>
    BY <2>2
  <2> QED
    BY <2>1, <2>2 DEF TargetStep, TargetNext, TargetSends, TargetCloses, TargetResets
<1> QED
  BY <1>2, <1>3 DEF UpInv, UpHeld, AtStart, TargetGets, ClientData

(* The client adds to its stream.                                          *)
LEMMA SendsKeepUp ==
  ASSUME DataType, UpInv, NEW kind \in ClientKinds, ClientSends(kind)
  PROVE  UpInv'
<1> DEFINE f == ClientMsg(kind)
<1>2. /\ UNCHANGED << pend, sock, tmpB, tgot, r2t >>
      /\ clientSent' = Append(clientSent, f) /\ l2r' = l2r \o Encoded(f)
      /\ f \in Frame /\ clientSent \in Seq(Frame)
  BY ClientMsgType DEF ClientSends, session, control, Service, DataType
<1> HIDE DEF f
<1>3. AtStart' = AtStart /\ TargetGets' = TargetGets /\ Begins(TargetGets, ClientData)
  BY <1>2 DEF AtStart, TargetGets, UpInv
<1>5. /\ TargetGets \in Seq(Cell) /\ ClientData \in Seq(Cell)
      /\ ClientData = BodiesIn(Later(clientSent)) /\ Later(clientSent) \in Seq(Frame)
      /\ ClientData' = BodiesIn(Later(Append(clientSent, f)))
  BY <1>2, UpTypes DEF ClientData, Later
<1>6. /\ f.body \in Seq(Cell) /\ << f >> \in Seq(Frame) /\ BodiesIn(<< f >>) = f.body
  BY <1>2, ShortStreams DEF Frame
<1>7. /\ clientSent # << >> => ClientData' = ClientData \o f.body
      /\ clientSent = << >> => ClientData' = ClientData
  <2>1. CASE clientSent # << >>
    <3>1. Later(Append(clientSent, f)) = Append(Later(clientSent), f)
      BY <1>2, <2>1, LaterGrows
    <3>2. Append(Later(clientSent), f) = Later(clientSent) \o << f >>
      BY <1>2, <1>5, AppendIsConcat
    <3>3. BodiesIn(Later(clientSent) \o << f >>) = BodiesIn(Later(clientSent)) \o BodiesIn(<< f >>)
      BY <1>5, <1>6, BodiesInAdds
    <3> QED
      BY <1>5, <1>6, <2>1, <3>1, <3>2, <3>3
  <2>2. CASE clientSent = << >>
    <3>1. Later(clientSent) = << >> /\ Later(Append(clientSent, f)) = << >>
      BY <1>2, <2>2, LaterGrows
    <3> QED
      BY <1>5, <2>2, <3>1
  <2> QED
    BY <2>1, <2>2
<1>8. Begins(TargetGets, ClientData)'
  BY <1>3, <1>5, <1>6, <1>7, BeginsGrows
<1>9. ASSUME NEW m \in Seq(Frame), UpHeld(m)
      PROVE  UpInv'
  <2>1. Carries((tmpB \o l2r)', Append(m, f)) /\ Append(m, f) \in Seq(Frame)
    <3>1. tmpB \in Seq(Piece) /\ l2r \in Seq(Piece) /\ Encoded(f) \in Seq(Piece)
      BY <1>2, EncodedType DEF DataType
    <3>2. (tmpB \o l2r)' = (tmpB \o l2r) \o Encoded(f)
      <4>1. (tmpB \o l2r) \o Encoded(f) = tmpB \o (l2r \o Encoded(f))
        BY <3>1, ConcatAssociative
      <4> QED
        BY <1>2, <4>1
    <3>3. Carries((tmpB \o l2r) \o Encoded(f), Append(m, f))
      BY <1>2, <1>9, UpTypes, CarriesMore DEF UpHeld
    <3> QED
      BY <1>2, <1>9, <3>2, <3>3, AppendProperties
  <2> PICK x \in Seq(Frame) : x = Append(m, f)
    BY <2>1
  <2>2. CASE AtStart
    <3>1. UpHeld(x)'
      BY <1>2, <1>3, <1>9, <2>1, <2>2 DEF UpHeld
    <3> QED
      BY <1>8, <3>1 DEF UpInv
  <2>3. CASE ~ AtStart
    <3>1. BodiesIn(m) \in Seq(Cell) /\ BodiesIn(Append(m, f)) = BodiesIn(m) \o f.body
      <4>1. Append(m, f) = m \o << f >>
        BY <1>2, <1>9, AppendIsConcat
      <4>2. BodiesIn(m \o << f >>) = BodiesIn(m) \o BodiesIn(<< f >>)
        BY <1>6, <1>9, BodiesInAdds
      <4> QED
        BY <1>6, <1>9, <4>1, <4>2, BodiesInAdds
    <3>2. TargetGets \o BodiesIn(Append(m, f)) = (TargetGets \o BodiesIn(m)) \o f.body
      <4>1. TargetGets \in Seq(Cell) /\ BodiesIn(m) \in Seq(Cell) /\ f.body \in Seq(Cell)
        BY <1>5, <1>6, <3>1
      <4>2. (TargetGets \o BodiesIn(m)) \o f.body = TargetGets \o (BodiesIn(m) \o f.body)
        BY ONLY <4>1, Regroup
      <4> QED
        BY <3>1, <4>2
    <3>3. clientSent' # << >>
      BY <1>2, AppendProperties, EmptySeq, LenProperties
    <3>4. UpHeld(x)'
      BY <1>2, <1>3, <1>7, <1>9, <2>1, <2>3, <3>2, <3>3 DEF UpHeld
    <3> QED
      BY <1>8, <3>4 DEF UpInv
  <2> QED
    BY <2>2, <2>3
<1> QED
  BY <1>2, <1>8, <1>9 DEF UpInv

(* UpConserved: whatever the client sends, however its stream is cut and   *)
(* whoever closes, the target gets the bodies behind the connect message   *)
(* in order and once, and while the link is open none of them is lost.     *)
THEOREM UpConservedHolds == Spec => []UpConserved
<1>1. Init => UpInv
  <2> SUFFICES ASSUME Init PROVE UpInv
    OBVIOUS
  <2>1. /\ tmpB \o l2r = << >> /\ tgot \o r2t = << >> /\ clientSent = << >>
        /\ sock = "new"
    BY DEF Init, RemoteInit, TargetInit
  <2>2. TargetGets = << >> /\ ClientData = << >>
    <3>1. Later(<< >>) = << >>
      BY SubSeqEmpty DEF Later
    <3> QED
      BY <2>1, <3>1, FlattenEmpty, ShortStreams DEF TargetGets, ClientData, Later
  <2>3. << >> \in Seq(Cell) /\ << >> \in Seq(Frame)
    OBVIOUS
  <2>4. UpHeld(<< >>)
    BY <2>1, <2>2, <2>3, CarriesNothing DEF UpHeld, AtStart
  <2> QED
    BY <2>2, <2>3, <2>4, BeginsItself DEF UpInv
<1>2. ControlInv /\ DataType /\ UpInv /\ [Next]_vars => UpInv'
  <2> SUFFICES ASSUME ControlInv, DataType, UpInv, [Next]_vars PROVE UpInv'
    OBVIOUS
  <2>1. CASE \/ ClientConnects \/ ClientReads \/ ClientCloses \/ UNCHANGED vars
    <3>1. UNCHANGED << pend, sock, tmpB, l2r, tgot, r2t, clientSent >>
      BY <2>1 DEF ClientConnects, ClientReads, ClientCloses, vars, session, control,
                  Link, Service
    <3> QED
      BY <3>1 DEF UpInv, UpHeld, AtStart, TargetGets, ClientData
  <2> QED
    BY <2>1, HandlersKeepUp, TargetKeepsUp, SendsKeepUp DEF Next, ClientStep
<1>3. ControlInv /\ DataType /\ UpInv => UpConserved
  <2> SUFFICES ASSUME ControlInv, DataType, UpInv PROVE UpConserved
    OBVIOUS
  <2>1. ASSUME sock = "up"
        PROVE  \E m \in Seq(Frame) : UpHeld(m) /\ Messages(tmpB \o l2r) = m
    BY <2>1, UpTypes, CarriesMessages DEF UpInv, UpHeld
  <2>3. IsPrefix(TargetGets, ClientData)
    BY UpTypes, BeginsIsPrefix DEF UpInv
  <2>4. sock = "up" /\ rsock = "up" => ~ AtStart
    BY HandlersApart
       DEF ControlInv, Waiting, Phases, SettingUp, Piping, Closing, Gone, AtStart,
           Asking, Setup, UpPipe, DownPipe
  <2> QED
    BY <2>1, <2>3, <2>4 DEF UpHeld, UpConserved
<1> QED
  BY <1>1, <1>2, <1>3, ControlCorrect, DataCorrect, PTL DEF Spec

-----------------------------------------------------------------------------
(* The stream of the target: tmpRBuffer_ holds nothing between two         *)
(* handlers, and what the client has and what is on its way to it are      *)
(* whole messages.                                                         *)
DownHeld(m) ==
  /\ Carries(Out, m)
  /\ sock # "closed" => DataIn(m) \o t2r = Tokens(downSent)

DownInv == tmpR = << >> /\ \E m \in Seq(Frame) : DownHeld(m)

(* The answer is no data.                                                  *)
LEMMA AnswerCarried ==
  ASSUME ControlInv, DataType, handleConnectToTarget, clientGot' = clientGot,
         NEW m \in Seq(Frame), Carries(Out, m)
  PROVE  /\ sock = "up"
         /\ \E r \in Seq(Frame) : /\ Carries(Out', r) /\ DataIn(r) = DataIn(m)
                                  /\ AllFramed(m) => AllFramed(r)
<1> DEFINE a == ConnectMsg(<< C("connrsp", 0) >>)
<1>1. "handleConnectToTarget" \in pend /\ "handleConnectToTarget" \in Setup
  BY DEF handleConnectToTarget, Setup
<1>2. sock = "up"
  BY <1>1, HandlersApart, SetupAlone DEF ControlInv, Waiting
<1>3. a \in Frame /\ a.sub = 1
  <2>1. << C("connrsp", 0) >> \in Seq(Cell)
    BY CellType, SingletonType DEF CellTypes
  <2> QED
    BY <2>1, FrameType DEF ConnectMsg
<1> HIDE DEF a
<1>4. CASE r2l' = r2l
  BY <1>2, <1>4 DEF Out
<1>5. CASE r2l' = Sent(sock, r2l, Encoded(a))
  <2>1. Out' = Out \o Encoded(a)
    BY <1>2, <1>3, <1>5, EncodedType, SentIsOut
  <2>2. Carries(Out \o Encoded(a), Append(m, a))
    BY <1>3, OutType, CarriesMore
  <2>3. Append(m, a) \in Seq(Frame) /\ DataIn(Append(m, a)) = DataIn(m)
        /\ (AllFramed(m) => AllFramed(Append(m, a)))
    BY <1>3, DataInGrows, FramedGrows
  <2> QED
    BY <1>2, <2>1, <2>2, <2>3
<1> QED
  BY <1>4, <1>5 DEF handleConnectToTarget, a

(* What is read from the target goes out in a message.                     *)
LEMMA DataCarried ==
  ASSUME ControlInv, DataType, handleWriteDataToBrowser, clientGot' = clientGot,
         tmpR = << >>, NEW m \in Seq(Frame), Carries(Out, m)
  PROVE  /\ tmpR' = << >> /\ sock # "new" /\ sock' # "new" /\ (sock' = "up" => sock = "up")
         /\ \E r \in Seq(Frame) :
              /\ Carries(Out', r) /\ (AllFramed(m) => AllFramed(r))
              /\ sock' = "up" => DataIn(r) \o t2r' = DataIn(m) \o t2r
              /\ r = m \/ (sock = "up" /\ DataIn(r) \o t2r' = DataIn(m) \o t2r)
<1> DEFINE op == "handleWriteDataToBrowser"
<1>1. op \in pend /\ op \in DownPipe
  BY DEF handleWriteDataToBrowser, ReadFromTarget, TargetFails, Runs, Fails, DownPipe
<1>2. sock \in {"up", "closed"}
  BY <1>1, HandlersApart
     DEF ControlInv, Waiting, Phases, SettingUp, Piping, Closing, Gone, Apart
<1>3. sock' # "new" /\ (sock' = "up" => sock = "up")
  BY <1>2 DEF handleWriteDataToBrowser, Start, Shutdown, CloseBoth, Close
<1>4. CASE TargetFails(op) /\ Shutdown(op, Done) /\ UNCHANGED << t2r, r2l, tmpR >>
  <2>1. Out' = Out /\ sock' = "closed"
    BY <1>2, <1>4 DEF Out, Shutdown, CloseBoth, Close
  <2> QED
    BY <1>2, <1>3, <1>4, <2>1
<1>5. ASSUME NEW k \in 1 .. Len(t2r), ReadFromTarget(op, k), tmpR' = << >>,
             r2l' = Sent(sock, r2l, Encoded(DataMsg(tmpR \o SubSeq(t2r, 1, k)))),
             Start(op, {"handleReadDataFromTarget"})
      PROVE  \E r \in Seq(Frame) :
               /\ Carries(Out', r) /\ (AllFramed(m) => AllFramed(r))
               /\ sock' = "up" => DataIn(r) \o t2r' = DataIn(m) \o t2r
               /\ r = m \/ (sock = "up" /\ DataIn(r) \o t2r' = DataIn(m) \o t2r)
  <2> DEFINE x == SubSeq(t2r, 1, k)
             y == SubSeq(t2r, k + 1, Len(t2r))
             f == DataMsg(x)
  <2>1. /\ t2r \in Seq(Cell) /\ x \in Seq(Cell) /\ y \in Seq(Cell)
        /\ t2r' = y
    BY <1>5, CutType DEF DataType, TargetTypeOK, ReadFromTarget
  <2>2. x \o y = t2r
    <3>1. << >> \in Seq(Cell) /\ t2r \in Seq(Cell)
      BY <2>1
    <3>2. (<< >> \o x) \o y = << >> \o t2r
      BY <3>1, ReadMoves
    <3> HIDE DEF x, y
    <3> QED
      BY <2>1, <3>2, ConcatEmptySeq
  <2>3. tmpR \o x = x
    BY <2>1, ConcatEmptySeq
  <2>4. f \in Frame /\ f.sub = 2 /\ f.body = x
    BY <2>1, FrameType DEF DataMsg
  <2> HIDE DEF x, y
  <2>5. r2l' = Sent(sock, r2l, Encoded(f))
    BY <1>5, <2>3 DEF x
  <2> HIDE DEF f
  <2>6. CASE sock = "up"
    <3>1. Out' = Out \o Encoded(f)
      BY <2>4, <2>5, <2>6, EncodedType, SentIsOut
    <3>2. Carries(Out \o Encoded(f), Append(m, f))
      BY <2>4, OutType, CarriesMore
    <3>3. /\ Append(m, f) \in Seq(Frame) /\ DataIn(m) \in Seq(Cell)
          /\ DataIn(Append(m, f)) = DataIn(m) \o x
      BY <2>4, DataInGrows
    <3>6. AllFramed(m) => AllFramed(Append(m, f))
      BY <2>4, FramedGrows
    <3>4. DataIn(m) \in Seq(Cell) /\ x \in Seq(Cell) /\ y \in Seq(Cell)
      BY <2>1, <3>3
    <3>5. (DataIn(m) \o x) \o y = DataIn(m) \o (x \o y)
      BY ONLY <3>4, Regroup
    <3> QED
      BY <2>1, <2>2, <2>6, <3>1, <3>2, <3>3, <3>5, <3>6
  <2>7. CASE sock # "up"
    <3>1. Out' = Out
      BY <2>4, <2>5, <2>7, EncodedType, SentIsOut
    <3> QED
      BY <1>3, <2>7, <3>1
  <2> QED
    BY <2>6, <2>7
<1>6. CASE \E k \in 1 .. Len(t2r) :
             /\ ReadFromTarget(op, k)
             /\ tmpR' = << >>
             /\ r2l' = Sent(sock, r2l, Encoded(DataMsg(tmpR \o SubSeq(t2r, 1, k))))
             /\ Start(op, {"handleReadDataFromTarget"})
  BY <1>2, <1>3, <1>5, <1>6
<1> QED
  BY <1>4, <1>6 DEF handleWriteDataToBrowser

(* The steps of the session keep the stream of the target.                 *)
LEMMA HandlersKeepDown ==
  ASSUME ControlInv, DataType, DownInv, Handler(RemoteNext)
  PROVE  DownInv'
<1>1. PICK m \in Seq(Frame) : DownHeld(m)
  BY DEF DownInv
<1>2. clientGot' = clientGot /\ downSent' = downSent /\ tmpR = << >>
  BY DEF Handler, DownInv, RemoteNext, handleAccept, handleAuthFromBrowser,
         handleQueryDns, handleConnectToTarget, handleWriteRespToBrowser,
         handleWriteDataToBrowser, handleReadDataFromTarget, handleWriteDataToTarget,
         handleReadDataFromBrowser, Service
<1>3. CASE handleConnectToTarget
  <2>1. PICK r \in Seq(Frame) : Carries(Out', r) /\ DataIn(r) = DataIn(m)
    BY <1>1, <1>2, <1>3, AnswerCarried DEF DownHeld
  <2>2. sock = "up" /\ UNCHANGED << t2r, tmpR >>
    BY <1>1, <1>2, <1>3, AnswerCarried DEF DownHeld, handleConnectToTarget
  <2>3. DownHeld(r)'
    BY <1>1, <1>2, <2>1, <2>2 DEF DownHeld
  <2> QED
    BY <1>2, <2>2, <2>3 DEF DownInv
<1>4. CASE handleWriteDataToBrowser
  <2>1. /\ tmpR' = << >> /\ sock # "new" /\ sock' # "new" /\ (sock' = "up" => sock = "up")
        /\ \E r \in Seq(Frame) : /\ Carries(Out', r)
                                 /\ sock' = "up" => DataIn(r) \o t2r' = DataIn(m) \o t2r
    BY <1>1, <1>2, <1>4, DataCarried DEF DownHeld
  <2>2. PICK r \in Seq(Frame) : /\ Carries(Out', r)
                                /\ sock' = "up" => DataIn(r) \o t2r' = DataIn(m) \o t2r
    BY <2>1
  <2>3. sock' = "up" \/ sock' = "closed"
    <3>1. sock \in {"new", "up", "closed"}
      BY ControlType DEF Ends
    <3> QED
      BY <1>4, <2>1, <3>1
         DEF handleWriteDataToBrowser, Start, Shutdown, CloseBoth, Close
  <2>4. DownHeld(r)'
    BY <1>1, <1>2, <2>1, <2>2, <2>3 DEF DownHeld
  <2> QED
    BY <2>1, <2>4 DEF DownInv
<1>5. CASE \/ handleAccept \/ handleAuthFromBrowser \/ handleQueryDns
           \/ handleWriteRespToBrowser \/ handleReadDataFromTarget
           \/ handleWriteDataToTarget \/ handleReadDataFromBrowser
  <2>1. UNCHANGED << r2l, t2r, tmpR >>
    BY <1>5
       DEF handleAccept, handleAuthFromBrowser, handleQueryDns,
           handleWriteRespToBrowser, handleReadDataFromTarget,
           handleWriteDataToTarget, handleReadDataFromBrowser, Link
  <2>2. sock' # "closed" => sock # "closed"
    BY <1>5
       DEF handleAccept, handleAuthFromBrowser, handleQueryDns,
           handleWriteRespToBrowser, handleReadDataFromTarget,
           handleWriteDataToTarget, handleReadDataFromBrowser, LinkReset, Throw, Start,
           Shutdown, Return, CloseBoth, Close
  <2>3. DownHeld(m)'
    BY <1>1, <1>2, <2>1, <2>2 DEF DownHeld, Out
  <2> QED
    BY <1>2, <2>1, <2>3 DEF DownInv
<1> QED
  BY <1>3, <1>4, <1>5 DEF Handler, RemoteNext

(* The target adds to its stream, the client takes from it.                *)
LEMMA NeighboursKeepDown ==
  ASSUME DataType, DownInv, TargetStep \/ ClientStep \/ UNCHANGED vars
  PROVE  DownInv'
<1>1. PICK m \in Seq(Frame) : DownHeld(m)
  BY DEF DownInv
<1>2. UNCHANGED << sock, tmpR >> /\ tmpR = << >>
  BY DEF TargetStep, ClientStep, ClientConnects, ClientSends, ClientReads,
         ClientCloses, vars, session, control, DownInv
<1>3. Out' = Out
  <2>1. CASE ClientReads
    <3>1. clientGot \in Seq(Piece) /\ r2l \in Seq(Piece) /\ r2l # << >>
      BY <2>1 DEF DataType, ClientReads
    <3>2. Out' = Append(clientGot, Head(r2l)) \o Tail(r2l)
      BY <2>1 DEF ClientReads, Out
    <3> QED
      BY <3>1, <3>2, ReceiveMoves DEF Out
  <2>2. CASE UNCHANGED << clientGot, r2l >>
    BY <2>2 DEF Out
  <2> QED
    BY <2>1, <2>2 DEF TargetStep, ClientStep, ClientConnects, ClientSends,
                      ClientCloses, vars, Link
<1>4. CASE UNCHANGED << t2r, downSent >>
  <2>1. DownHeld(m)'
    BY <1>1, <1>2, <1>3, <1>4 DEF DownHeld
  <2> QED
    BY <1>2, <2>1 DEF DownInv
<1>5. CASE TargetSends
  <2>1. /\ t2r \in Seq(Cell) /\ downSent \in Nat /\ downSent' = downSent + 1
        /\ t2r' = Append(t2r, C("data", downSent + 1))
    BY <1>5 DEF DataType, TargetTypeOK, TargetSends
  <2>2. DataIn(m) \in Seq(Cell) /\ << >> \in Seq(Cell)
    BY DataInAdds
  <2>3. << >> \o Tokens(downSent) = Tokens(downSent)
        /\ << >> \o Tokens(downSent + 1) = Tokens(downSent + 1)
    BY <2>1, TokensGrow, ConcatEmptySeq
  <2>4. ASSUME DataIn(m) \o t2r = Tokens(downSent)
        PROVE  DataIn(m) \o Append(t2r, C("data", downSent + 1)) = Tokens(downSent + 1)
    <3>1. /\ downSent \in Nat /\ << >> \in Seq(Cell) /\ DataIn(m) \in Seq(Cell)
          /\ t2r \in Seq(Cell) /\ DataIn(m) \o t2r = << >> \o Tokens(downSent)
      BY <2>1, <2>2, <2>3, <2>4
    <3>2. DataIn(m) \o Append(t2r, C("data", downSent + 1)) = << >> \o Tokens(downSent + 1)
      BY ONLY <3>1, TokenSent
    <3> QED
      BY <2>3, <3>2
  <2>5. DownHeld(m)'
    BY <1>1, <1>2, <1>3, <2>1, <2>4 DEF DownHeld
  <2> QED
    BY <1>2, <2>5 DEF DownInv
<1> QED
  BY <1>4, <1>5 DEF TargetStep, TargetNext, TargetReceives, TargetCloses,
                    TargetResets, ClientStep, ClientConnects, ClientSends, ClientReads,
                    ClientCloses, vars, Service

(* DownConserved: until the session closes the link, no byte of the target *)
(* is lost, doubled or reordered between its socket and the client.        *)
THEOREM DownConservedHolds == Spec => []DownConserved
<1>1. Init => DownInv
  <2> SUFFICES ASSUME Init PROVE DownInv
    OBVIOUS
  <2>1. Out = << >> /\ t2r = << >> /\ tmpR = << >> /\ downSent = 0
    BY DEF Init, RemoteInit, TargetInit, Out
  <2>2. << >> \in Seq(Frame) /\ << >> \o << >> = << >>
    BY ConcatEmptySeq
  <2>3. DownHeld(<< >>)
    BY <2>1, <2>2, CarriesNothing, ShortStreams, NoTokens DEF DownHeld
  <2> QED
    BY <2>1, <2>2, <2>3 DEF DownInv
<1>2. ControlInv /\ DataType /\ DownInv /\ [Next]_vars => DownInv'
  BY HandlersKeepDown, NeighboursKeepDown DEF Next
<1>3. DataType /\ DownInv => DownConserved
  <2> SUFFICES ASSUME DataType, DownInv PROVE DownConserved
    OBVIOUS
  <2>1. PICK m \in Seq(Frame) : DownHeld(m)
    BY DEF DownInv
  <2>2. Messages(clientGot \o r2l) = m
    BY <2>1, OutType, CarriesMessages DEF DownHeld, Out
  <2>3. DataIn(m) \o tmpR = DataIn(m)
    BY DataInAdds, ConcatEmptySeq DEF DownInv
  <2> QED
    BY <2>1, <2>2, <2>3 DEF DownHeld, DownConserved
<1> QED
  BY <1>1, <1>2, <1>3, ControlCorrect, DataCorrect, PTL DEF Spec

-----------------------------------------------------------------------------
(* Exceptions.  While the session reads, what it kept and what is in       *)
(* flight are messages of the client, so that only one that is no frame    *)
(* can garble what check() reads.                                          *)
Reading == sock = "new" \/ pend \cap (Setup \cup UpPipe) # {}

SentForeign == \E i \in 1 .. Len(clientSent) : clientSent[i] = NoFrame

InStep ==
  /\ \A i \in 1 .. Len(clientSent) : clientSent[i].sub = 0 => clientSent[i] = NoFrame
  /\ Reading => \E m \in Seq(Frame) : Carries(tmpB \o l2r, m) /\ Among(m, clientSent)

(* Nothing is taken off a buffer by no messages.                           *)
LEMMA AfterNone ==
  ASSUME NEW b \in Seq(Piece)
  PROVE  After(b, 0) = b
<1>1. 2 * 0 + 1 = 1
  OBVIOUS
<1> QED
  BY <1>1, SubSeqFull DEF After

(* Exceptions of the handlers.                                             *)
LEMMA HandlersThrow ==
  ASSUME ControlInv, DataType, InStep, RemoteNext, terminated' # terminated
  PROVE  rsock' = "new" \/ SentForeign
<1>1. CASE handleAccept
  BY <1>1 DEF handleAccept, ControlInv, Waiting, Phases, SettingUp, Piping, Closing,
              Gone
<1>2. \A op : /\ \A new : Start(op, new) => terminated' = terminated
              /\ \A new : Connected(op, new) => terminated' = terminated
              /\ \A d : Shutdown(op, d) => terminated' = terminated
              /\ Return(op) => terminated' = terminated
  BY DEF Start, Connected, Shutdown, Return
<1>3. CASE handleAuthFromBrowser
  <2> DEFINE op == "handleAuthFromBrowser"
  <2>1. op \in pend /\ op \in Asking /\ op \in Setup
    BY <1>3 DEF handleAuthFromBrowser, ReadFromLink, LinkFails, Runs, Fails, Asking,
                Setup
  <2>2. Throw
    BY <1>2, <1>3 DEF handleAuthFromBrowser, LinkReset
  <2>3. Phases(Setup, Asking, UpPipe, DownPipe)
    BY <2>1 DEF ControlInv, Waiting
  <2> QED
    BY <2>1, <2>2, <2>3, HandlersApart, AskingThrows
<1>4. CASE handleWriteDataToTarget
  <2>1. PICK k \in 1 .. Len(l2r) : \E n \in Extracts(tmpB \o SubSeq(l2r, 1, k), -1) : TRUE
    BY <1>2, <1>4 DEF handleWriteDataToTarget
  <2> DEFINE buf == tmpB \o SubSeq(l2r, 1, k)
             rest == SubSeq(l2r, k + 1, Len(l2r))
  <2>2. PICK n : n \in Extracts(buf, -1)
    BY <2>1
  <2>3. Reading
    BY <1>4 DEF handleWriteDataToTarget, ReadFromLink, LinkFails, Runs, Fails, Reading,
                UpPipe
  <2>4. buf \in Seq(Piece) /\ rest \in Seq(Piece) /\ buf \o rest = tmpB \o l2r
    BY LinkReadType, ReadMoves DEF DataType
  <2> HIDE DEF buf, rest
  <2>5. n \in Nat /\ 2 * n <= Len(buf) /\ Garbled(After(buf, n))
    <3>1. n \in Nat /\ 2 * n <= Len(buf) /\ -1 \in Check(After(buf, n))
      BY <2>2, <2>4, ExtractsType
    <3> QED
      BY <3>1, CheckSays
  <2>6. PICK m \in Seq(Frame) : Carries(buf \o rest, m) /\ Among(m, clientSent)
    BY <2>3, <2>4 DEF InStep
  <2>7. /\ m \in Seq(Frame) /\ Carries(buf \o rest, m) /\ Among(m, clientSent)
        /\ buf \in Seq(Piece) /\ rest \in Seq(Piece)
    BY <2>4, <2>6
  <2>8. PICK j \in 1 .. Len(clientSent) : clientSent[j].sub = 0
    BY ONLY <2>5, <2>7, GarbledIsSent
  <2> QED
    BY <2>8 DEF InStep, SentForeign
<1> QED
  BY <1>1, <1>2, <1>3, <1>4
     DEF RemoteNext, handleQueryDns, handleConnectToTarget, handleWriteRespToBrowser,
         handleWriteDataToBrowser, handleReadDataFromTarget, handleReadDataFromBrowser

(* The handlers take whole messages off what is in flight.                 *)
LEMMA HandlersKeepStep ==
  ASSUME ControlInv, DataType, InStep, Handler(RemoteNext)
  PROVE  InStep'
<1>1. RemoteNext /\ clientSent' = clientSent
  BY DEF Handler
<1>2. SUFFICES ASSUME Reading'
               PROVE  \E m \in Seq(Frame) : Carries((tmpB \o l2r)', m) /\ Among(m, clientSent)
  BY <1>1 DEF InStep
<1>3. ASSUME Reading, UNCHANGED << tmpB, l2r >>
      PROVE  \E m \in Seq(Frame) : Carries((tmpB \o l2r)', m) /\ Among(m, clientSent)
  BY <1>3 DEF InStep
<1>4. CASE handleAccept
  BY <1>3, <1>4 DEF handleAccept, Link, Reading
<1>5. CASE handleAuthFromBrowser
  <2>1. Reading
    BY <1>5 DEF handleAuthFromBrowser, ReadFromLink, LinkFails, Runs, Fails, Reading,
                Setup
  <2>2. PICK m \in Seq(Frame) : Carries(tmpB \o l2r, m) /\ Among(m, clientSent)
    BY <2>1 DEF InStep
  <2>3. CASE Carries((tmpB \o l2r)', m)
    BY <2>2, <2>3
  <2>4. ~ (sock' = "closed" /\ pend' = {})
    BY <1>2 DEF Reading
  <2>5. CASE Carries((tmpB \o l2r)', Later(m)) /\ Later(m) \in Seq(Frame) /\ m # << >>
    <3>1. 1 \in Nat /\ 1 <= Len(m) /\ 1 + 1 = 2
      BY <2>5, EmptySeq, LenProperties
    <3>2. Among(SubSeq(m, 1 + 1, Len(m)), clientSent)
      BY <2>2, <3>1, AmongRest
    <3>3. Among(Later(m), clientSent)
      BY <3>1, <3>2 DEF Later
    <3> QED
      BY <2>5, <3>3
  <2> QED
    BY <1>5, <2>2, <2>3, <2>4, <2>5, AuthTakes
<1>6. CASE handleWriteDataToTarget
  <2> DEFINE op == "handleWriteDataToTarget"
  <2>1. op \in pend /\ op \in UpPipe
    BY <1>6 DEF handleWriteDataToTarget, ReadFromLink, LinkFails, Runs, Fails, UpPipe
  <2>2. Reading /\ pend \cap Setup = {}
    BY <2>1, HandlersApart
       DEF ControlInv, Waiting, Phases, SettingUp, Piping, Closing, Gone, Apart, Reading
  <2>3. PICK m \in Seq(Frame) : Carries(tmpB \o l2r, m) /\ Among(m, clientSent)
    BY <2>2 DEF InStep
  <2>4. ~ (sock' = "closed" /\ pend' \cap UpPipe = {})
    <3>1. pend' \cap Setup = {}
      BY <1>6, <2>2 DEF handleWriteDataToTarget, Start, Throw, Shutdown, Setup
    <3> QED
      BY <1>2, <3>1 DEF Reading
  <2>5. PICK n \in Nat : /\ n <= Len(m) /\ Without(m, n) \in Seq(Frame)
                         /\ Carries((tmpB \o l2r)', Without(m, n))
    BY <1>6, <2>3, <2>4, ReadTakes
  <2>6. Among(Without(m, n), clientSent)
    BY <2>3, <2>5, AmongRest DEF Without
  <2> QED
    BY <2>5, <2>6
<1>7. CASE \/ handleQueryDns \/ handleConnectToTarget \/ handleWriteRespToBrowser
           \/ handleReadDataFromBrowser
  <2>1. Reading /\ UNCHANGED << tmpB, l2r >>
    BY <1>7 DEF handleQueryDns, handleConnectToTarget, handleWriteRespToBrowser,
                handleReadDataFromBrowser, Written, TargetFails, LinkFails, Runs,
                Fails, Reading, Setup, UpPipe, Link
  <2> QED
    BY <1>3, <2>1
<1>8. CASE handleWriteDataToBrowser \/ handleReadDataFromTarget
  <2>1. UNCHANGED << tmpB, l2r >>
    BY <1>8 DEF handleWriteDataToBrowser, handleReadDataFromTarget, Link
  <2>2. Reading' => Reading
    BY <1>8 DEF handleWriteDataToBrowser, handleReadDataFromTarget, Start, Shutdown,
                CloseBoth, Close, Reading, Setup, UpPipe
  <2> QED
    BY <1>2, <1>3, <2>1, <2>2
<1> QED
  BY <1>1, <1>4, <1>5, <1>6, <1>7, <1>8 DEF RemoteNext

(* The client sends messages, or bytes that are no frame, behind others.   *)
LEMMA SendsKeepStep ==
  ASSUME DataType, InStep, NEW kind \in ClientKinds, ClientSends(kind)
  PROVE  InStep'
<1> DEFINE f == ClientMsg(kind)
<1>1. f \in Frame /\ (f.sub = 0 => f = NoFrame)
  <2>1. kind \in 0 .. 8
    BY ClientAssumption
  <2>2. kind # 8 => f.sub # 0
    BY <2>1 DEF ClientMsg, ConnectMsg, DataMsg
  <2>3. kind = 8 => f = NoFrame
    BY DEF ClientMsg
  <2> QED
    BY <2>2, <2>3, ClientMsgType
<1>2. /\ clientSent' = Append(clientSent, f) /\ l2r' = l2r \o Encoded(f)
      /\ UNCHANGED << pend, sock, tmpB >>
  BY DEF ClientSends, session, control
<1> HIDE DEF f
<1>3. clientSent \in Seq(Frame) /\ tmpB \in Seq(Piece) /\ l2r \in Seq(Piece)
  BY DEF DataType
<1>4. /\ Len(clientSent) \in Nat /\ Len(clientSent') = Len(clientSent) + 1
      /\ clientSent'[Len(clientSent) + 1] = f
      /\ \A i \in 1 .. Len(clientSent) : clientSent'[i] = clientSent[i]
  BY <1>1, <1>2, <1>3, AppendProperties, LenProperties
<1>5. \A i \in 1 .. Len(clientSent') : i \in 1 .. Len(clientSent) \/ i = Len(clientSent) + 1
  BY <1>4
<1>6. \A i \in 1 .. Len(clientSent') : clientSent'[i].sub = 0 => clientSent'[i] = NoFrame
  BY <1>1, <1>4, <1>5 DEF InStep
<1>7. ASSUME Reading'
      PROVE  \E m \in Seq(Frame) : Carries((tmpB \o l2r)', m) /\ Among(m, clientSent')
  <2>1. PICK m \in Seq(Frame) : Carries(tmpB \o l2r, m) /\ Among(m, clientSent)
    BY <1>2, <1>7 DEF InStep, Reading
  <2> DEFINE n == Append(m, f)
  <2>2. (tmpB \o l2r)' = (tmpB \o l2r) \o Encoded(f)
    <3>1. Encoded(f) \in Seq(Piece)
      BY <1>1, EncodedType
    <3>2. (tmpB \o l2r) \o Encoded(f) = tmpB \o (l2r \o Encoded(f))
      BY <1>3, <3>1, ConcatAssociative
    <3> QED
      BY <1>2, <3>2
  <2>3. tmpB \o l2r \in Seq(Piece)
    BY <1>3, ConcatProperties
  <2>4. n \in Seq(Frame) /\ Carries((tmpB \o l2r)', n)
    BY <1>1, <2>1, <2>2, <2>3, CarriesMore, AppendProperties
  <2>5. Among(n, clientSent')
    BY <1>1, <1>2, <1>3, <2>1, AmongGrows
  <2> QED
    BY <2>4, <2>5
<1> QED
  BY <1>6, <1>7 DEF InStep

(* What the session holds of the client, and how the process ended.        *)
ThrowInv ==
  /\ InStep
  /\ terminated => rsock = "new" \/ SentForeign

(* What the neighbours do ends no process.                                 *)
LEMMA OthersKeepStep ==
  ASSUME DataType, ThrowInv, TargetStep \/ ClientStep \/ UNCHANGED vars
  PROVE  ThrowInv'
<1>1. UNCHANGED << pend, sock, terminated, rsock, tmpB >>
  BY DEF TargetStep, ClientStep, ClientConnects, ClientSends, ClientReads, ClientCloses,
         vars, session, control
<1>2. CASE TargetStep \/ ClientConnects \/ ClientReads \/ ClientCloses \/ UNCHANGED vars
  <2>1. UNCHANGED << l2r, clientSent >>
    BY <1>2 DEF TargetStep, ClientConnects, ClientReads, ClientCloses, vars, Link
  <2> QED
    BY <1>1, <2>1 DEF ThrowInv, InStep, Reading, SentForeign
<1>3. ASSUME NEW kind \in ClientKinds, ClientSends(kind) PROVE ThrowInv'
  <2>1. InStep'
    BY <1>3, SendsKeepStep DEF ThrowInv
  <2>2. SentForeign => SentForeign'
    <3>1. clientSent' = Append(clientSent, ClientMsg(kind)) /\ ClientMsg(kind) \in Frame
      BY <1>3, ClientMsgType DEF ClientSends
    <3>2. /\ Len(clientSent) \in Nat /\ Len(clientSent') = Len(clientSent) + 1
          /\ \A i \in 1 .. Len(clientSent) : clientSent'[i] = clientSent[i]
      BY <3>1, AppendProperties, LenProperties DEF DataType
    <3>3. \A i \in 1 .. Len(clientSent) : i \in 1 .. Len(clientSent')
      BY <3>2
    <3> QED
      BY <3>2, <3>3 DEF SentForeign
  <2> QED
    BY <1>1, <2>1, <2>2 DEF ThrowInv
<1> QED
  BY <1>2, <1>3 DEF ClientStep

(* FramedNeverThrows: once the target is connected, an exception ends the  *)
(* process only for bytes of the client that are no frame, however the     *)
(* reads are cut and whoever closes.                                       *)
THEOREM FramedNeverThrowsHolds == Spec => []FramedNeverThrows
<1>1. Init => ThrowInv
  <2> SUFFICES ASSUME Init PROVE ThrowInv
    OBVIOUS
  <2>1. tmpB \o l2r = << >> /\ clientSent = << >> /\ ~ terminated
    BY ConcatEmptySeq DEF Init, RemoteInit
  <2>2. << >> \in Seq(Frame) /\ Carries(tmpB \o l2r, << >>) /\ Among(<< >>, clientSent)
    BY <2>1, CarriesNothing DEF Among
  <2>3. \A i \in 1 .. Len(clientSent) : clientSent[i].sub = 0 => clientSent[i] = NoFrame
    <3>1. Len(clientSent) = 0
      BY <2>1
    <3> QED
      BY <3>1
  <2>4. InStep
    BY <2>2, <2>3 DEF InStep
  <2> QED
    BY <2>1, <2>4 DEF ThrowInv
<1>2. ControlInv /\ DataType /\ ThrowInv /\ [Next]_vars => ThrowInv'
  <2> SUFFICES ASSUME ControlInv, DataType, ThrowInv, Handler(RemoteNext)
               PROVE  ThrowInv'
    BY OthersKeepStep DEF Next
  <2>1. InStep'
    BY HandlersKeepStep DEF ThrowInv
  <2>2. RemoteNext /\ clientSent' = clientSent
    BY DEF Handler
  <2>3. ~ terminated
    <3>1. CASE Waiting
      BY <3>1 DEF Waiting
    <3>2. CASE Phases(Setup, Asking, UpPipe, DownPipe)
      <4>1. pend # {} \/ sock = "new"
        BY <2>2 DEF RemoteNext, handleAccept, handleAuthFromBrowser, handleQueryDns,
             handleConnectToTarget, handleWriteRespToBrowser, handleWriteDataToBrowser,
             handleReadDataFromTarget, handleWriteDataToTarget,
             handleReadDataFromBrowser, ReadFromLink, ReadFromTarget, Written,
             LinkFails, TargetFails, Runs, Fails
      <4>2. sock # "new"
        BY <3>2 DEF Phases, SettingUp, Piping, Closing, Gone
      <4> QED
        BY <3>2, <4>1, <4>2, TerminatedIsStill
    <3> QED
      BY <3>1, <3>2 DEF ControlInv
  <2>4. terminated' => rsock' = "new" \/ SentForeign
    BY <2>2, <2>3, HandlersThrow DEF ThrowInv
  <2> QED
    BY <2>1, <2>2, <2>4 DEF ThrowInv, SentForeign
<1>3. DataType /\ ThrowInv => FramedNeverThrows
  <2> SUFFICES ASSUME DataType, ThrowInv, SentForeign
               PROVE  \E i \in DOMAIN clientSent : clientSent[i] = NoFrame
    BY DEF ThrowInv, FramedNeverThrows
  <2>1. DOMAIN clientSent = 1 .. Len(clientSent)
    BY LenProperties DEF DataType
  <2> QED
    BY <2>1 DEF SentForeign
<1> QED
  BY <1>1, <1>2, <1>3, ControlCorrect, DataCorrect, PTL DEF Spec

-----------------------------------------------------------------------------
(* The session as the other end of its link sees it.                       *)

(* Nothing of the target is known before a handler connects it.            *)
BeforeTarget == AtStart \/ pend \cap Asking # {}

(* The phases of the session only go on: only handleConnectToTarget        *)
(* changes what is known of the target.                                    *)
LEMMA PhasesGoOn ==
  ASSUME ControlInv, RemoteNext
  PROVE  /\ BeforeTarget' => BeforeTarget
         /\ sock # "new" => sock' # "new"
         /\ \/ /\ target' = target
               /\ pend' \cap (Ops \ Asking) # {} => pend \cap (Ops \ Asking) # {}
            \/ /\ handleConnectToTarget /\ target' = "up" /\ ~ BeforeTarget'
               /\ BeforeTarget /\ sock = "up" /\ sock' = "up"
               /\ r2l' = r2l \o Encoded(ConnectMsg(<< C("connrsp", 0) >>))
<1>1. CASE handleAccept
  <2>1. sock = "new" /\ pend = {} /\ pend' \in {{}, {"handleAuthFromBrowser"}}
    BY <1>1 DEF handleAccept, ControlInv, Waiting, Phases, SettingUp, Piping, Closing,
                Gone
  <2>2. target' = target
    BY <1>1 DEF handleAccept, Service
  <2> QED
    BY <2>1, <2>2 DEF BeforeTarget, AtStart, Asking
<1>2. CASE ~ handleAccept
  <2>1. sock \in {"up", "closed"} /\ ~ Waiting
    BY <1>2, WaitingOnlyAccepts
       DEF ControlInv, Phases, SettingUp, Piping, Closing, Gone
  <2>2. sock' \in {"up", "closed"}
    BY <1>2, <2>1
       DEF RemoteNext, handleAuthFromBrowser, handleQueryDns, handleConnectToTarget,
           handleWriteRespToBrowser, handleWriteDataToBrowser, handleReadDataFromTarget,
           handleWriteDataToTarget, handleReadDataFromBrowser, Start, Connected,
           Shutdown, Return, Throw, LinkReset, CloseBoth, Close
  <2>3. CASE handleAuthFromBrowser \/ handleQueryDns
    <3>1. PICK op \in {"handleAuthFromBrowser", "handleQueryDns"} :
             /\ op \in pend
             /\ \/ \E new \in Asking : Start(op, {new})
                \/ Return(op) \/ Throw \/ (\E d : Shutdown(op, d))
      BY <2>3 DEF handleAuthFromBrowser, handleQueryDns, ReadFromLink, LinkFails, Runs,
                  Fails, Asking, LinkReset
    <3>2. pend = {op}
      BY <2>1, <3>1, HandlersApart, SetupAlone DEF ControlInv, Setup
    <3>3. pend' \subseteq Asking
      BY <3>1, <3>2 DEF Start, Return, Throw, Shutdown
    <3>4. target' = target
      BY <2>3 DEF handleAuthFromBrowser, handleQueryDns, Service
    <3> QED
      BY <2>1, <2>2, <3>1, <3>3, <3>4 DEF BeforeTarget, Asking
  <2>4. CASE handleConnectToTarget
    <3> DEFINE op == "handleConnectToTarget"
    <3>1. op \in pend /\ op \in Setup /\ op \in Asking
      BY <2>4 DEF handleConnectToTarget, Setup, Asking
    <3>2. pend = {op} /\ sock = "up" /\ BeforeTarget
      BY <2>1, <3>1, HandlersApart, SetupAlone DEF ControlInv, BeforeTarget
    <3>3. CASE Return(op) /\ target' = target
      <4>1. pend' = {}
        BY <3>2, <3>3 DEF Return
      <4> QED
        BY <2>2, <3>2, <3>3, <4>1
    <3>4. CASE /\ target' = "up" /\ Connected(op, "handleWriteRespToBrowser")
               /\ r2l' = Sent(sock, r2l, Encoded(ConnectMsg(<< C("connrsp", 0) >>)))
      <4>1. pend' = {"handleWriteRespToBrowser"} /\ sock' = "up"
        BY <3>2, <3>4 DEF Connected
      <4>2. ~ BeforeTarget'
        BY <4>1 DEF BeforeTarget, AtStart, Asking
      <4> QED
        BY <2>4, <3>2, <3>4, <4>1, <4>2 DEF Sent
    <3> QED
      BY <2>4, <3>3, <3>4 DEF handleConnectToTarget
  <2>5. CASE \/ handleWriteRespToBrowser \/ handleReadDataFromTarget
             \/ handleWriteDataToTarget \/ handleReadDataFromBrowser
             \/ handleWriteDataToBrowser
    <3>1. PICK op \in Ops \ Asking :
             /\ op \in pend
             /\ \/ \E new \in SUBSET (UpPipe \cup DownPipe) : Start(op, new)
                \/ Return(op) \/ Throw \/ (\E d : Shutdown(op, d))
      BY <2>5 DEF handleWriteRespToBrowser, handleReadDataFromTarget,
           handleWriteDataToTarget, handleReadDataFromBrowser, handleWriteDataToBrowser,
           ReadFromLink, ReadFromTarget, Written, LinkFails, TargetFails, Runs, Fails,
           Asking, Ops, LinkReads, LinkWrites, TargetReads, TargetWrites, UpPipe,
           DownPipe
    <3>2. pend' \cap Asking \subseteq pend \cap Asking
      BY <3>1 DEF Start, Return, Throw, Shutdown, UpPipe, DownPipe, Asking
    <3>3. target' = target
      BY <2>5 DEF handleWriteRespToBrowser, handleReadDataFromTarget,
           handleWriteDataToTarget, handleReadDataFromBrowser, handleWriteDataToBrowser,
           Service
    <3> QED
      BY <2>1, <2>2, <3>1, <3>2, <3>3 DEF BeforeTarget, AtStart, Asking
  <2> QED
    BY <1>2, <2>3, <2>4, <2>5 DEF RemoteNext
<1> QED
  BY <1>1, <1>2

(* What goes out to the client goes out behind what is on its way.         *)
LEMMA SendsBehind ==
  ASSUME DataType, RemoteNext
  PROVE  \/ r2l' = r2l
         \/ handleConnectToTarget
         \/ /\ "handleWriteDataToBrowser" \in pend
            /\ \E x \in Seq(Piece) : r2l' = r2l \o x
<1>1. CASE handleWriteDataToBrowser
  <2>1. "handleWriteDataToBrowser" \in pend
    BY <1>1 DEF handleWriteDataToBrowser, ReadFromTarget, TargetFails, Runs, Fails
  <2>2. ASSUME NEW k \in 1 .. Len(t2r),
               r2l' = Sent(sock, r2l, Encoded(DataMsg(tmpR \o SubSeq(t2r, 1, k))))
        PROVE  r2l' = r2l \/ \E x \in Seq(Piece) : r2l' = r2l \o x
    <3>1. tmpR \o SubSeq(t2r, 1, k) \in Seq(Cell)
      BY BufferType DEF DataType, TargetTypeOK
    <3>2. Encoded(DataMsg(tmpR \o SubSeq(t2r, 1, k))) \in Seq(Piece)
      BY <3>1, FrameType, EncodedType
    <3> QED
      BY <2>2, <3>2 DEF Sent
  <2> QED
    BY <1>1, <2>1, <2>2 DEF handleWriteDataToBrowser
<1>2. CASE ~ handleWriteDataToBrowser /\ ~ handleConnectToTarget
  BY <1>2 DEF RemoteNext, handleAccept, handleAuthFromBrowser, handleQueryDns,
         handleWriteRespToBrowser, handleReadDataFromTarget, handleWriteDataToTarget,
         handleReadDataFromBrowser, Link
<1> QED
  BY <1>1, <1>2

(* What the receive buffer keeps behind the first message: no whole        *)
(* message when the client sent but that one, and then less than one: the  *)
(* client of this lemma frames what it sends.                              *)
BehindFirst == (Setup \ {"handleAuthFromBrowser"}) \cup UpPipe
LittleKept == pend \cap BehindFirst # {} => Len(tmpB) < 2

LEMMA HandlersKeepLittle ==
  ASSUME ControlInv, DataType, RemoteNext, UNCHANGED << clientSent, clientGot >>,
         LittleKept,
         NEW m \in Seq(Frame), Carries(tmpB \o l2r, m), AtStart => Len(m) <= 1,
         AllFramed(m)
  PROVE  LittleKept'
<1>1. CASE handleAuthFromBrowser
  <2>1. CASE pend' = {"handleAuthFromBrowser"} \/ pend' = {}
    <3>1. pend' \cap BehindFirst = {}
      BY <2>1 DEF BehindFirst, UpPipe, Setup
    <3> QED
      BY <3>1 DEF LittleKept
  <2>2. CASE Carries((tmpB \o l2r)', Later(m)) /\ Later(m) \in Seq(Frame)
    <3>1. Len(m) \in Nat /\ Len(m) < 2
      <4>1. AtStart
        BY <1>1, AuthTakes
      <4> QED
        BY <4>1, LenProperties
    <3>2. Len(Later(m)) = 0
      BY <3>1, SubSeqEmpty DEF Later
    <3>3. tmpB' \in Seq(Piece) /\ l2r' \in Seq(Piece)
      BY <1>1, AuthKeepsType DEF DataType
    <3>4. Len(tmpB' \o l2r') = 0 /\ Len(tmpB' \o l2r') = Len(tmpB') + Len(l2r')
      BY <2>2, <3>2, <3>3, ConcatProperties DEF Carries
    <3>5. Len(tmpB') < 2
      BY <3>3, <3>4, LenProperties
    <3> QED
      BY <3>5 DEF LittleKept
  <2> QED
    BY <1>1, <2>1, <2>2, AuthTakes
<1>2. CASE handleWriteDataToTarget
  <2> DEFINE op == "handleWriteDataToTarget"
  <2>1. op \in pend /\ op \in UpPipe
    BY <1>2 DEF handleWriteDataToTarget, ReadFromLink, LinkFails, Runs, Fails, UpPipe
  <2>2. pend \cap BehindFirst = {op}
    BY <2>1, HandlersApart
       DEF ControlInv, Waiting, Phases, SettingUp, Piping, Closing, Gone, Apart,
           BehindFirst, UpPipe, DownPipe
  <2>3. Throw \/ (\E d : Shutdown(op, d)) => pend' \cap BehindFirst = {}
    BY <2>2 DEF Shutdown, Throw
  <2>4. Len(tmpB) < 2
    BY <2>2 DEF LittleKept
  <2>5. ASSUME NEW k \in 1 .. Len(l2r), NEW n \in Extracts(tmpB \o SubSeq(l2r, 1, k), 0)
        PROVE  Len(After(tmpB \o SubSeq(l2r, 1, k), n)) < 2
    <3> DEFINE buf == tmpB \o SubSeq(l2r, 1, k)
               rest == SubSeq(l2r, k + 1, Len(l2r))
    <3>1. buf \in Seq(Piece) /\ rest \in Seq(Piece) /\ buf \o rest = tmpB \o l2r
      BY LinkReadType, ReadMoves DEF DataType
    <3>2. n \in Extracts(buf, 0)
      OBVIOUS
    <3> HIDE DEF buf, rest
    <3>3. n \in Nat /\ 2 * n <= Len(buf) /\ 0 \in Check(After(buf, n))
      BY <3>1, <3>2, ExtractsType
    <3>4. ~ Garbled(After(buf, n))
      <4>1. /\ m \in Seq(Frame) /\ Carries(buf \o rest, m) /\ AllFramed(m)
            /\ buf \in Seq(Piece) /\ rest \in Seq(Piece)
            /\ n \in Nat /\ 2 * n <= Len(buf)
        BY <3>1, <3>3
      <4> QED
        BY ONLY <4>1, FramedIsClean
    <3>5. Len(After(buf, n)) < 2
      BY <3>3, <3>4, CheckSays
    <3> QED
      BY <3>5 DEF buf
  <2>8. ASSUME NEW k \in 1 .. Len(l2r), 0 \in Extracts(tmpB \o SubSeq(l2r, 1, k), 0)
        PROVE  Len(tmpB \o SubSeq(l2r, 1, k)) < 2
    <3>1. After(tmpB \o SubSeq(l2r, 1, k), 0) = tmpB \o SubSeq(l2r, 1, k)
      BY LinkReadType, AfterNone
    <3>2. Len(After(tmpB \o SubSeq(l2r, 1, k), 0)) < 2
      BY <2>5, <2>8
    <3> QED
      BY <3>1, <3>2
  <2>6. CASE pend' \cap BehindFirst = {}
    BY <2>6 DEF LittleKept
  <2>7. CASE ~ Throw /\ ~ \E d : Shutdown(op, d)
    BY <1>2, <2>5, <2>7, <2>8 DEF handleWriteDataToTarget, LittleKept
  <2> QED
    BY <2>3, <2>6, <2>7
<1>3. CASE handleAccept
  <2>1. pend' \cap BehindFirst = {}
    <3>1. pend = {} /\ pend' \in {{"handleAuthFromBrowser"}, {}}
      BY <1>3 DEF handleAccept, ControlInv, Waiting, Phases, SettingUp, Piping, Closing,
                  Gone
    <3> QED
      BY <3>1 DEF BehindFirst, Setup, UpPipe
  <2> QED
    BY <2>1 DEF LittleKept
<1>4. CASE \/ handleQueryDns \/ handleConnectToTarget \/ handleWriteRespToBrowser
           \/ handleReadDataFromBrowser
  <2>1. tmpB' = tmpB
    BY <1>4 DEF handleQueryDns, handleConnectToTarget, handleWriteRespToBrowser,
                handleReadDataFromBrowser
  <2>2. pend \cap BehindFirst # {}
    BY <1>4 DEF handleQueryDns, handleConnectToTarget, handleWriteRespToBrowser,
                handleReadDataFromBrowser, Written, TargetFails, LinkFails, Runs,
                Fails, BehindFirst, Setup, UpPipe
  <2> QED
    BY <2>1, <2>2 DEF LittleKept
<1>5. CASE handleWriteDataToBrowser \/ handleReadDataFromTarget
  <2>1. tmpB' = tmpB
    BY <1>5 DEF handleWriteDataToBrowser, handleReadDataFromTarget
  <2>2. pend' \subseteq pend \cup DownPipe
    BY <1>5 DEF handleWriteDataToBrowser, handleReadDataFromTarget, Start, Shutdown,
                DownPipe
  <2>3. pend' \cap BehindFirst # {} => pend \cap BehindFirst # {}
    BY <2>2 DEF BehindFirst, Setup, UpPipe, DownPipe
  <2> QED
    BY <2>1, <2>3 DEF LittleKept
<1> QED
  BY <1>1, <1>2, <1>3, <1>4, <1>5 DEF RemoteNext
=============================================================================
