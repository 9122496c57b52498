------------------------------- MODULE Sockv5 -------------------------------
(***************************************************************************)
(* The SOCKS5 dialogue of tun_local byte by byte: what check() and         *)
(* parseFrom() of protocol/Sockv5Def make of a stream that TCP cuts        *)
(* anywhere, and what the session then asks tun_remote to connect to.      *)
(*                                                                         *)
(* LocalSession has the rest of these handlers: their errors, resets and   *)
(* log lines.  The two agree on MsgLen, which stands for check().          *)
(***************************************************************************)
EXTENDS Integers, SequencesExt

CONSTANTS
  B,           \* the number of values of a byte: 256
  Greetings,   \* greetings of the browser: [ver, methods]
  Requests,    \* its requests: [cmd, type, address, port]
  Garbage      \* what the uninitialised reqData_.port may hold

VARIABLES
  charSigned, \* is char signed, as it is on x86 and is not on ARM?
  greeting,   \* the greeting the browser sent, or NotYet
  asked,      \* the request it sent, or NotYet
  wire,       \* bytes in flight to tun_local
  tmpB,       \* tmpBBuffer_
  phase,      \* the handler that is due, or how the dialogue ended
  reqData,    \* reqData_, or NotYet
  connReq     \* the connect message to tun_remote, or NotYet

vars == << charSigned, greeting, asked, wire, tmpB, phase, reqData, connReq >>

NotYet == [type |-> -1]
Bytes == Seq(0 .. B - 1)

ASSUME Sockv5Assumption ==
  /\ B \in Nat /\ B % 2 = 0 /\ B > 5
  /\ Greetings \subseteq [ver : 0 .. B - 1, methods : Bytes]
  /\ Requests \subseteq [cmd : 0 .. B - 1, type : 0 .. B - 1, address : Bytes,
                         port : 0 .. B * B - 1]
  /\ \A g \in Greetings : Len(g.methods) < B
  /\ \A r \in Requests : /\ r.type = 3 => Len(r.address) < B
                         /\ r.type = 1 => Len(r.address) = 4
                         /\ r.type = 4 => Len(r.address) = 16
  /\ Garbage \subseteq 0 .. B * B - 1

(* What the browser sends.  A host name has its length in front; an IPv4   *)
(* address has 4 bytes and an IPv6 address 16, as parseFrom() takes them.  *)
GreetingBytes(g) == << g.ver, Len(g.methods) >> \o g.methods
RequestBytes(r) ==
  << 5, r.cmd, 0, r.type >> \o (IF r.type = 3 THEN << Len(r.address) >> ELSE << >>)
    \o r.address \o << r.port \div B, r.port % B >>

-----------------------------------------------------------------------------
(* protocol/Sockv5Def.  data.at(i) is a char.                              *)
Char(b) == IF charSigned /\ b >= B \div 2 THEN b - B ELSE b

(* std::string::substr for a position inside d: the count is converted to  *)
(* size_t, so a negative one means the rest, and it ends with the string.  *)
Substr(d, pos, n) ==
  SubSeq(d, pos + 1, IF n >= 0 /\ pos + n <= Len(d) THEN pos + n ELSE Len(d))

(* Mutant: a message that ends with the data is taken for incomplete.      *)
greetingCheckLate(d) ==
  IF Len(d) < 2 THEN 0 ELSE IF Len(d) <= 2 + Char(d[2]) THEN 0 ELSE 2 + Char(d[2])

greetingCheck(d) ==
  IF Len(d) < 2 THEN 0 ELSE IF Len(d) < 2 + Char(d[2]) THEN 0 ELSE 2 + Char(d[2])

methods(d) == { d[i + 2] : i \in 1 .. Char(d[2]) }

requestLen(d) ==
  CASE d[4] = 1 -> 8
    [] d[4] = 4 -> 20
    [] d[4] = 3 -> 7 + Char(d[5])
    [] OTHER -> 4

(* Mutants: the port is not counted; what is there is taken for enough.    *)
checkNoPort(d) ==
  IF Len(d) <= 5 \/ Len(d) < requestLen(d) - 2 THEN 0 ELSE requestLen(d) - 2
checkBare(d) == IF Len(d) <= 5 THEN 0 ELSE requestLen(d)

check(d) == IF Len(d) <= 5 \/ Len(d) < requestLen(d) THEN 0 ELSE requestLen(d)

(* substr() throws where the port of a host should be.                     *)
parseThrows(d) == d[4] = 3 /\ 5 + Char(d[5]) \notin 0 .. Len(d)

(* The port is set for host names only; what it holds otherwise, NotSet,   *)
(* is found out where it is read.  Missing bytes are the terminator.       *)
NotSet == -1
parseFrom(d) ==
  LET portStr == Substr(d, 5 + Char(d[5]), 2)
      At(i) == IF i <= Len(portStr) THEN portStr[i] ELSE 0 IN
  [type |-> d[4], cmd |-> d[2],
   address |-> CASE d[4] = 1 -> Substr(d, 4, 4)
                 [] d[4] = 3 -> Substr(d, 5, Char(d[5]))
                 [] d[4] = 4 -> Substr(d, 4, 16)
                 [] OTHER -> << >>,
   port |-> IF d[4] = 3 THEN B * At(1) + At(2) ELSE NotSet]

-----------------------------------------------------------------------------
Init ==
  /\ charSigned \in BOOLEAN
  /\ greeting = NotYet /\ asked = NotYet
  /\ wire = << >> /\ tmpB = << >>
  /\ phase = "handleReadHandShake"
  /\ reqData = NotYet /\ connReq = NotYet

Greets(g) ==
  /\ greeting = NotYet
  /\ greeting' = g /\ wire' = GreetingBytes(g)
  /\ UNCHANGED << charSigned, asked, tmpB, phase, reqData, connReq >>

(* The browser waits for the answer, which handleReadHandShake wrote.      *)
Asks(r) ==
  /\ asked = NotYet /\ phase \in {"handleWriteHandShake", "handleReadSockv5Req"}
  /\ asked' = r /\ wire' = wire \o RequestBytes(r)
  /\ UNCHANGED << charSigned, greeting, tmpB, phase, reqData, connReq >>

handleReadHandShake(k) ==
  LET buf == tmpB \o SubSeq(wire, 1, k)
      len == greetingCheck(buf) IN
  /\ phase = "handleReadHandShake"
  /\ wire' = SubSeq(wire, k + 1, Len(wire))
  /\ UNCHANGED << charSigned, greeting, asked, reqData, connReq >>
  /\ \/ len = 0 /\ tmpB' = buf /\ UNCHANGED phase
     \/ len < 0 /\ tmpB' = buf /\ phase' = "thrown"
     \/ /\ len > 0
        /\ tmpB' = SubSeq(buf, len + 1, Len(buf))
        /\ phase' = IF 0 \in methods(buf) /\ buf[1] = 5
                    THEN "handleWriteHandShake" ELSE "closed"

handleWriteHandShake ==
  /\ phase = "handleWriteHandShake" /\ phase' = "handleReadSockv5Req"
  /\ UNCHANGED << charSigned, greeting, asked, wire, tmpB, reqData, connReq >>

handleReadSockv5Req(k) ==
  LET buf == tmpB \o SubSeq(wire, 1, k)
      len == check(buf) IN
  /\ phase = "handleReadSockv5Req"
  /\ wire' = SubSeq(wire, k + 1, Len(wire))
  /\ UNCHANGED << charSigned, greeting, asked, connReq >>
  /\ \/ len = 0 /\ tmpB' = buf /\ UNCHANGED << phase, reqData >>
     \/ /\ len # 0 /\ parseThrows(buf)
        /\ tmpB' = buf /\ phase' = "thrown" /\ UNCHANGED reqData
     \/ /\ len # 0 /\ ~ parseThrows(buf)
        /\ reqData' = parseFrom(buf)
        /\ IF reqData'.cmd # 1 THEN tmpB' = buf /\ phase' = "closed"
           ELSE /\ tmpB' = SubSeq(buf, len + 1, Len(buf))
                /\ phase' = "handleConnectToRemote"

(* The link is up.  The four bytes of an IPv4 address were copied into an  *)
(* integer in network order, and it is written out from its high end.      *)
handleConnectToRemote ==
  /\ phase = "handleConnectToRemote" /\ phase' = "connected"
  /\ \E port \in IF reqData.port = NotSet THEN Garbage ELSE {reqData.port} :
       connReq' = [type |-> reqData.type, port |-> port,
                   address |-> IF reqData.type = 1 THEN Reverse(reqData.address)
                               ELSE reqData.address]
  /\ UNCHANGED << charSigned, greeting, asked, wire, tmpB, reqData >>

Next ==
  \/ \E g \in Greetings : Greets(g)
  \/ \E r \in Requests : Asks(r)
  \/ \E k \in 1 .. Len(wire) : handleReadHandShake(k) \/ handleReadSockv5Req(k)
  \/ handleWriteHandShake
  \/ handleConnectToRemote

Spec == Init /\ [][Next]_vars

-----------------------------------------------------------------------------
(* The lengths that are what they are as a char.                           *)
Plain == /\ greeting # NotYet => Char(Len(greeting.methods)) >= 0
         /\ asked # NotYet /\ asked.type = 3 => Char(Len(asked.address)) >= 0

(* tun_remote is asked for the host and port the browser asked for, and    *)
(* the session lives to ask, for every length that a char can hold: 255 in *)
(* one build, 127 in the other.  An IPv4 address and the port of any       *)
(* address are not asked for as they were: see handleConnectToRemote.      *)
AsAsked ==
  Plain =>
    /\ phase # "thrown"
    /\ connReq # NotYet /\ asked.type = 3 =>
         connReq = [type |-> 3, address |-> asked.address, port |-> asked.port]

(* A greeting or request that is all there is not taken for incomplete:    *)
(* the browser would wait for an answer and tun_local for more.            *)
WholeIsTaken ==
  Plain /\ wire = << >> =>
    /\ greeting # NotYet => phase # "handleReadHandShake"
    /\ asked # NotYet => phase # "handleReadSockv5Req"

(* How TCP cuts the dialogue decides neither what the session asks for nor *)
(* which bytes it takes for data of the pipe: of a request for a host name *)
(* none.                                                                   *)
SameForEveryCut ==
  Plain /\ phase \in {"handleConnectToRemote", "connected"} =>
    LET all == RequestBytes(asked) IN
    /\ reqData = parseFrom(all)
    /\ tmpB \o wire = SubSeq(all, check(all) + 1, Len(all))
    /\ asked.type = 3 => tmpB \o wire = << >>
=============================================================================
