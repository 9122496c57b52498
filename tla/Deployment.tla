----------------------------- MODULE Deployment ------------------------------
(***************************************************************************)
(* tun_local and tun_remote as they are deployed: each started with its    *)
(* own command line on the same host, then sessions between them, down to  *)
(* the bytes of their messages.  What Wire takes for granted is the        *)
(* subject here: that one program understands the other.                   *)
(*                                                                         *)
(* Each session sends its connect message and then one data message.       *)
(***************************************************************************)
EXTENDS Settings, Packages

CONSTANTS
  Sessions,     \* of tun_local, on threads of their own
  Deployments,  \* the command lines of both, and what the browsers ask for
  Seeds,        \* the times a program may start at
  Memories,     \* what may lie behind a key
  Addresses,    \* the hosts that are IP addresses
  Data,         \* what a browser sends
  Garbage,      \* what a port that was never set may hold
  to_string(_)  \* the text that boost makes of the bytes of an address

(* Texts are shorter than 2^24 bytes.                                      *)
IsText(x) == x \in Seq(Byte) /\ Len(x) < 256 * Half

LineOK(line) ==
  /\ \A option \in DOMAIN line \cap {"key", "user", "password"} : IsText(line[option])
  /\ "log_level" \in DOMAIN line => line["log_level"] \subseteq Int
  /\ "thread" \in DOMAIN line => line["thread"] \subseteq Nat

FileOK(file) ==
  /\ \A field \in DOMAIN file \cap {"key", "user", "password"} : IsText(file[field])
  /\ "loglv" \in DOMAIN file => file["loglv"] \in Int
  /\ "users" \in DOMAIN file => file["users"] \in Seq(Range(file["users"]))

(* What tun_local writes for the host of a request: a name as it came, the *)
(* text of an IPv6 address, and that of an IPv4 address from its other     *)
(* end, since it was copied into a number as it came (Sockv5Def.cpp:25).   *)
addressOf(ask) ==
  CASE ask.type = 1 -> to_string(Reverse(ask.host))
    [] ask.type = 3 -> ask.host
    [] ask.type = 4 -> to_string(ask.host)
    [] OTHER -> << >>

(* What SOCKS can ask for: a host is its bytes.                            *)
AskOK(ask) ==
  /\ ask.type \in Byte /\ ask.host \in Seq(Byte)
  /\ ask.type = 1 => Len(ask.host) = 4
  /\ ask.type = 4 => Len(ask.host) = 16
  /\ ask.port \in Nat /\ ask.port < Half
  /\ addressOf(ask) \in Seq(Byte) /\ Len(addressOf(ask)) <= 255

ASSUME DeploymentAssumption ==
  /\ \A d \in Deployments :
       LineOK(d.local) /\ LineOK(d.remote) /\ \A s \in DOMAIN d.asks : AskOK(d.asks[s])
  /\ \A name \in DOMAIN Files : FileOK(Files[name])
  /\ \A now \in Seeds, i \in 1 .. 20 : Rand(now, i) \in Nat
  /\ \A behind \in Memories : behind \in Seq(Byte) /\ Len(behind) >= 31
  /\ \A padding \in Paddings : padding \in Seq(Byte)
  /\ IsText(Data) /\ Data # << >>
  /\ \A port \in Garbage : port \in Nat /\ port < Half

VARIABLES
  deployment,  \* one of Deployments
  garbage,     \* what memory holds where the port of each request belongs
  local,       \* tun_local: off, running with its setting, or how it ended
  remote,      \* tun_remote
  users,       \* Setting::users of tun_remote
  seq,         \* the static seq of createDefaultParams in tun_local
  number,      \* what each session read of it
  stage,       \* how far each session is
  wire,        \* the codec's output that is on the link of each session
  made,        \* the message last made for each session
  authPkg,     \* authPkg_ of each RemoteSession
  dialled,     \* what each RemoteSession dials
  delivered    \* what each RemoteSession writes to the target

programs == << deployment, garbage, local, remote, users >>
messages == << wire, made, authPkg >>
vars == << programs, seq, number, stage, messages, dialled, delivered >>

Off == Ended("off")
Nobody == [host |-> << >>, port |-> 0]

Init ==
  /\ deployment \in Deployments /\ garbage \in [Sessions -> Garbage]
  /\ local = Off /\ remote = Off /\ users = << >>
  /\ seq = 0 /\ number = [s \in Sessions |-> 0]
  /\ stage = [s \in Sessions |-> "asking"]
  /\ wire = [s \in Sessions |-> << >>]
  /\ made = [s \in Sessions |-> Clear] /\ authPkg = [s \in Sessions |-> Clear]
  /\ dialled = [s \in Sessions |-> Nobody] /\ delivered = [s \in Sessions |-> << >>]

-----------------------------------------------------------------------------
(* Start-up.                                                               *)
Running(program) == program.st = "running"

(* The ports are cut down to 16 bits.                                      *)
LocalEnd(setting) == [host |-> setting.localBindAddr, port |-> setting.localListenPort % Port16]
ServerEnd(setting) == [host |-> setting.serverBindAddr, port |-> setting.serverListenPort % Port16]

Meet(a, b) == a.port = b.port /\ (a.host = b.host \/ "0.0.0.0" \in {a.host, b.host})

(* The server's constructor throws on a host that is no IP address and on  *)
(* an address in use, and nobody catches it.                               *)
Bound(program, end, inUse) ==
  IF Running(program) /\ (end.host \notin Addresses \/ \E u \in inUse : Meet(end, u))
  THEN Ended("died") ELSE program

LocalBound(program) ==
  Bound(program, LocalEnd(program.setting),
        IF Running(remote) THEN {ServerEnd(remote.setting)} ELSE {})

RemoteBound(program) ==
  Bound(program, ServerEnd(program.setting),
        IF Running(local) THEN {LocalEnd(local.setting)} ELSE {})

StartLocal ==
  /\ local = Off
  /\ \E now \in Seeds, behind \in Memories :
       local' = LocalBound(inits(localSetting(deployment.local, now), behind))
  /\ UNCHANGED << deployment, garbage, remote, users, seq, number, stage, messages, dialled, delivered >>

StartRemote ==
  /\ remote = Off
  /\ \E now \in Seeds, behind \in Memories, first \in BOOLEAN :
       /\ remote' = RemoteBound(inits(remoteSetting(deployment.remote, now), behind))
       /\ users' = IF Running(remote') THEN usersOf(deployment.remote, now, first) ELSE users
  /\ UNCHANGED << deployment, garbage, local, seq, number, stage, messages, dialled, delivered >>

-----------------------------------------------------------------------------
(* The messages.                                                           *)
asks(s) == deployment.asks[s]

(* Only a request for a name has its port read (Sockv5Def.cpp:31).         *)
reqPort(s) == IF asks(s).type = 3 THEN asks(s).port ELSE garbage[s]

Goes(s, to) == stage' = [stage EXCEPT ![s] = to]

(* Do the frames of one program come off in the other?  Both HTTP frames   *)
(* look alike from behind (HttpFrame.cpp).                                 *)
Fits(a, b) == a.setting.frame = b.setting.frame \/ "fix" \notin {a.setting.frame, b.setting.frame}

(* A message is made, serialized and encoded by a program.                 *)
Makes(program, s, m) ==
  /\ made' = [made EXCEPT ![s] = m]
  /\ wire' = [wire EXCEPT ![s] = encode(program.codec, ProxyMsgSerialize(m))]

Padding == UNION { randString(n) : n \in randInt(2, 10) }

(* The browser's request is read and the server dialled (Session.cpp:96).  *)
(* tun_local may dial itself: its own dialogue then waits for more.        *)
handleReadSockv5Req(s) ==
  /\ Running(local) /\ s \in DOMAIN deployment.asks /\ stage[s] = "asking"
  /\ LET end == ServerEnd(local.setting)
         host == IF end.host = "0.0.0.0" THEN "127.0.0.1" ELSE end.host
         there == [end EXCEPT !.host = host] IN
     CASE end.host \notin Addresses ->
            local' = Ended("died") /\ UNCHANGED stage
       [] end.host \in Addresses /\ Running(remote) /\ Meet(there, ServerEnd(remote.setting)) ->
            Goes(s, "connected") /\ UNCHANGED local
       [] OTHER ->
            Goes(s, "failed") /\ UNCHANGED local
  /\ UNCHANGED << deployment, garbage, remote, users, seq, number, messages, dialled, delivered >>

(* seq++ first reads the number, which other threads read as well,         *)
readSeq(s) ==
  /\ Running(local) /\ stage[s] \in {"connected", "open"}
  /\ number' = [number EXCEPT ![s] = seq]
  /\ Goes(s, IF stage[s] = "connected" THEN "connected_read" ELSE "open_read")
  /\ UNCHANGED << programs, seq, messages, dialled, delivered >>

(* and then writes the next one.                                           *)
handleConnectToRemote(s) ==
  /\ Running(local) /\ stage[s] = "connected_read"
  /\ seq' = number[s] + 1
  /\ \E padding \in Padding :
       Makes(local, s, createConnectReq(W(asks(s).type), addressOf(asks(s)), W(reqPort(s)),
                                        local.setting.user, local.setting.password,
                                        W(number[s]), padding))
  /\ Goes(s, "asked")
  /\ UNCHANGED << programs, number, authPkg, dialled, delivered >>

handleReadDataFromBrowser(s) ==
  /\ Running(local) /\ stage[s] = "open_read"
  /\ seq' = number[s] + 1
  /\ \E padding \in Padding :
       Makes(local, s, createDataPkg(Data, W(number[s]), padding))
  /\ Goes(s, "sent")
  /\ UNCHANGED << programs, number, authPkg, dialled, delivered >>

-----------------------------------------------------------------------------
(* tun_remote.                                                             *)

(* Mutant: the password is not compared.                                   *)
checkUserName(user, pwd) == user \in DOMAIN users

checkUser(user, pwd) == user \in DOMAIN users /\ users[user] = pwd

(* Frames that do not fit: a length of "POST" is waited for for ever; what *)
(* is no HTTP makes check() negative, and substr() throws on that.         *)
Unfit(s) ==
  IF remote.setting.frame = "fix" THEN Goes(s, "waiting") /\ UNCHANGED remote
  ELSE remote' = Ended("died") /\ UNCHANGED stage

(* The server dials for a user of its list, when it knows the type.  A host *)
(* of an address type is an address, as tun_local writes it; what becomes  *)
(* of another is in RemoteSession.                                         *)
Dials(s, msg, type, host, port) ==
  IF type \in {W(1), W(3), W(4)}
  THEN /\ dialled' = [dialled EXCEPT ![s] = [host |-> host, port |-> port[2]]]
       /\ authPkg' = [authPkg EXCEPT ![s] = msg]
       /\ Goes(s, "dialling")
  ELSE Goes(s, "refused") /\ UNCHANGED << authPkg, dialled >>

Authenticated(s, msg, body) ==
  IF body.ok /\ checkUser(String(body.msg, "username"), String(body.msg, "password"))
  THEN Dials(s, msg, Number(body.msg, "type"), String(body.msg, "address"), Number(body.msg, "port"))
  ELSE Goes(s, "refused") /\ UNCHANGED << authPkg, dialled >>

AuthRead(s, read) ==
  IF read.result = "PROXY_PARSE_OK"
  THEN Authenticated(s, read.package,
                     Parsed(ProxyConnectReqMerge(String(read.package, "body")), {}))
  ELSE Goes(s, "refused") /\ UNCHANGED << authPkg, dialled >>

handleAuthFromBrowser(s) ==
  /\ Running(remote) /\ stage[s] = "asked"
  /\ IF Fits(local, remote)
     THEN AuthRead(s, parseAndCheck(decode(remote.codec, wire[s]))) /\ UNCHANGED remote
     ELSE Unfit(s) /\ UNCHANGED << authPkg, dialled >>
  /\ UNCHANGED << deployment, garbage, local, users, seq, number, wire, made, delivered >>

handleConnectToTarget(s) ==
  /\ Running(remote) /\ stage[s] = "dialling"
  /\ \E padding \in Padding :
       Makes(remote, s, createCommonRsp(authPkg[s], ProxyConnectRspSerialize([result |-> W(0)]),
                                        W(0), W(0), padding))
  /\ Goes(s, "answered")
  /\ UNCHANGED << programs, seq, number, authPkg, dialled, delivered >>

handleConnectToTargetFails(s) ==
  /\ Running(remote) /\ stage[s] = "dialling"
  /\ Goes(s, "failed")
  /\ UNCHANGED << programs, seq, number, messages, dialled, delivered >>

DataRead(s, read) ==
  IF read.result = "PROXY_PARSE_OK"
  THEN delivered' = [delivered EXCEPT ![s] = String(read.package, "body")] /\ Goes(s, "delivered")
  ELSE Goes(s, "refused") /\ UNCHANGED delivered

handleWriteDataToTarget(s) ==
  /\ Running(remote) /\ stage[s] = "sent"
  /\ DataRead(s, parseAndCheck(decode(remote.codec, wire[s])))
  /\ UNCHANGED << programs, seq, number, messages, dialled >>

(* tun_local reads the answer; frames that did not fit have had none.      *)
IsSuccess(rsp) == rsp.ok /\ Number(rsp.msg, "result") = W(0)

RspRead(s, read) ==
  IF read.result = "PROXY_PARSE_OK"
       /\ IsSuccess(Parsed(ProxyConnectRspMerge(String(read.package, "body")), {"result"}))
  THEN Goes(s, "open") ELSE Goes(s, "refused")

handleWriteSockv5RspToBrowser(s) ==
  /\ Running(local) /\ stage[s] = "answered"
  /\ RspRead(s, parseAndCheck(decode(local.codec, wire[s])))
  /\ UNCHANGED << programs, seq, number, messages, dialled, delivered >>

Serves(s) ==
  \/ handleReadSockv5Req(s)
  \/ readSeq(s)
  \/ handleConnectToRemote(s)
  \/ handleAuthFromBrowser(s)
  \/ handleConnectToTarget(s)
  \/ handleConnectToTargetFails(s)
  \/ handleWriteSockv5RspToBrowser(s)
  \/ handleReadDataFromBrowser(s)
  \/ handleWriteDataToTarget(s)

Next ==
  \/ StartLocal
  \/ StartRemote
  \/ \E s \in Sessions : Serves(s)

Spec == Init /\ [][Next]_vars

-----------------------------------------------------------------------------
(* Every variable has its type: the one type invariant of this module.     *)
Stages == {"asking", "failed", "connected", "connected_read", "asked", "waiting",
           "refused", "dialling", "answered", "open", "open_read", "sent", "delivered"}

ProgramOK(program) ==
  /\ program.st \in {"off", "running", "exit1", "exit2", "exit3", "died"}
  /\ Running(program) =>
       program.logLv \in 0 .. 3 /\ program.setting.frame \in headers
         /\ Range(program.codec.list) \subseteq program.codec.all

TypeOK ==
  /\ ProgramOK(local) /\ ProgramOK(remote)
  /\ seq \in Nat
  /\ \A s \in Sessions :
       /\ number[s] \in Nat /\ stage[s] \in Stages
       /\ Range(wire[s]) \subseteq Byte /\ Range(delivered[s]) \subseteq Byte
       /\ dialled[s].port \in Nat

(* What the two programs have to have in common.  The codec of a key is    *)
(* not that key: rc4 goes over it in circles, chacha20 reads 32 bytes of   *)
(* it, or what memory holds behind a shorter one, and its length, reverse  *)
(* makes a size of it and no key of the rest; and no codec is reverse with *)
(* segments of one byte.  Any two sizes are one for a shorter message.     *)
SegSize(setting, length) ==
  CASE setting.encryptMethod = "none" -> 1
    [] setting.encryptMethod = "reverse" /\ getSegSize(setting.key) <= length -> getSegSize(setting.key)
    [] OTHER -> length

SameKey(method, a, b) ==
  CASE method = "rc4" -> cycled(a.key) = cycled(b.key)
    [] method = "chacha20" -> Len(a.key) = Len(b.key) /\ realKey(a.key, a.behind) = realKey(b.key, b.behind)
    [] OTHER -> method = "xor"

SameCodec(length) ==
  LET a == local.setting  b == remote.setting IN
  \/ a.encryptMethod = b.encryptMethod /\ SameKey(a.encryptMethod, local.codec, remote.codec)
  \/ {a.encryptMethod, b.encryptMethod} \subseteq {"none", "reverse"}
       /\ SegSize(a, length) = SegSize(b, length)

IsUser(setting) == setting.user \in DOMAIN users /\ users[setting.user] = setting.password

(* No segment is longer than 512 bytes.                                    *)
Agree ==
  /\ Running(local) /\ Running(remote)
  /\ SameCodec(512) /\ Fits(local, remote) /\ IsUser(local.setting)

(* Two programs whose codecs do the same, with frames that fit and a user  *)
(* of the list: whatever the method and the key, the time of their starts  *)
(* and the numbers their threads give the messages, no request for a host  *)
(* or an address and no data are refused or kept waiting.                  *)
Understood ==
  Agree => \A s \in Sessions :
             stage[s] \in {"refused", "waiting"} => asks(s).type \notin {1, 3, 4}

(* Whatever the two were started with, tun_remote dials only for a user of *)
(* its list, and the host of a name or an IPv6 address is the one asked    *)
(* for, the port that of a name (handleConnectToRemote loses the rest);    *)
(* data come as sent; and the answer has the number of its request,        *)
(* although the threads race for the numbers (ProxyMsgPkg.cpp:91,102).     *)
ServedAsAsked ==
  \A s \in Sessions :
    /\ dialled[s] # Nobody =>
         /\ IsUser(local.setting)
         /\ asks(s).type = 3 => dialled[s] = [host |-> asks(s).host, port |-> asks(s).port]
         /\ asks(s).type = 4 => dialled[s].host = to_string(asks(s).host)
    /\ delivered[s] \in {<< >>, Data}
    /\ stage[s] = "answered" => made[s].seq = W(number[s])

(* ProxyMsg.proto:23-25 say that the address and the port are of the type  *)
(* asked for, IPv4 and IPv6 among them: what is dialled is then the text   *)
(* of the address asked for, and its port.  It is not (Sockv5Def.cpp:24):  *)
(* an IPv4 address comes from its other end, and no port was ever read.    *)
DialledAsAsked ==
  \A s \in Sessions :
    dialled[s] # Nobody /\ asks(s).type \in {1, 4} =>
      dialled[s] = [host |-> to_string(asks(s).host), port |-> asks(s).port]

(* A message that was not decoded as it was encoded is told from one that  *)
(* was by the parser or by its checksum (ProxyMsgPkg.cpp:17,32): a request *)
(* is dialled, an answer believed and data are delivered only if the two   *)
(* codecs do the same to a message of that length, whatever the methods    *)
(* and the keys are called.  (No checksum is proof against every message:  *)
(* this is of the keys and the messages of a run.)                         *)
OnlySameCodec ==
  \A s \in Sessions :
    stage[s] \in {"dialling", "open", "delivered"} => SameCodec(Len(wire[s]))

(* Serialized and reread, and likewise for the bodies of the set-up.       *)
Mirrors(m, bytes) ==
  ProxyMsgByteSize(m) = Len(bytes) /\ ProxyMsgMerge(bytes).msg = m
MirrorsReq(m, body) ==
  ProxyConnectReqSerialize(m) = body /\ ProxyConnectReqByteSize(m) = Len(body)
MirrorsRsp(m, body) ==
  ProxyConnectRspSerialize(m) = body /\ ProxyConnectRspByteSize(m) = Len(body)

(* check_sum of every message is the CRC-32 of its body, the size protobuf *)
(* reserves is the count of its bytes (ProxyMsg.pb.cc:544), and reading    *)
(* those bytes gives the message back.                                     *)
WellFormed ==
  \A s \in Sessions :
    /\ made[s] # Clear =>
         made[s].check_sum = Crc(made[s].body) /\ Mirrors(made[s], ProxyMsgSerialize(made[s]))
    /\ stage[s] = "asked" => MirrorsReq(ProxyConnectReqMerge(made[s].body).msg, made[s].body)
    /\ stage[s] = "answered" => MirrorsRsp(ProxyConnectRspMerge(made[s].body).msg, made[s].body)

FieldOf ==
  [local_bind |-> "localBindAddr", local_port |-> "localListenPort",
   server_bind |-> "serverBindAddr", server_port |-> "serverListenPort",
   method |-> "encryptMethod", frame |-> "frame", key |-> "key", user |-> "user",
   password |-> "password", loglv |-> "logLv", threads |-> "threadCount"]

ToldByFile(setting, file) ==
  \A f \in DOMAIN file \cap DOMAIN FieldOf : setting[FieldOf[f]] = file[f]

ToldByOptions(setting, line) ==
  /\ \A o \in DOMAIN line \cap {"method", "frame", "key", "user", "password"} :
       setting[FieldOf[o]] = line[o]
  /\ "log_level" \in DOMAIN line => setting.logLv \in line["log_level"]
  /\ "thread" \in DOMAIN line => setting.threadCount \in line["thread"]
  /\ "server_addr" \in DOMAIN line /\ "local_addr" \notin DOMAIN line =>
       /\ setting.serverBindAddr = line["server_addr"].host
       /\ setting.serverListenPort \in line["server_addr"].port

Told(setting, line) ==
  IF "setting" \in DOMAIN line THEN ToldByFile(setting, Files[line["setting"]])
                               ELSE ToldByOptions(setting, line)

(* Of a name that is there twice the first one counts.                     *)
ToldUsers(list) ==
  /\ DOMAIN users = { list[i].user : i \in DOMAIN list }
  /\ \A i \in DOMAIN list :
       (\A j \in 1 .. i - 1 : list[j].user # list[i].user) => users[list[i].user] = list[i].pwd

(* A program that runs has every value its file gives, if there is one -   *)
(* which was then read, although nobody asks (local.cpp:84) -, and else    *)
(* that of every option, but for local_addr, which takes the place of      *)
(* server_addr (local.cpp:123, remote.cpp:165); a level that there is gets *)
(* to the logger; and tun_remote has the users of its list, file or no     *)
(* file.                                                                   *)
AsTold ==
  /\ Running(local) => Told(local.setting, deployment.local)
  /\ Running(remote) => Told(remote.setting, deployment.remote)
  /\ \A program \in {local, remote} :
       Running(program) /\ program.setting.logLv \in 0 .. 3 => program.logLv = program.setting.logLv
  /\ Running(remote) /\ "user_list" \in DOMAIN deployment.remote =>
       ToldUsers(Files[deployment.remote["user_list"]].users)
=============================================================================
