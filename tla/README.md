# A verification project for OhMyTunnel

OhMyTunnel is a pair of programs. `tun_local` is a SOCKS5 proxy on the user's
machine; `tun_remote` runs on a server and connects the targets. A browser's
connection becomes one *tunnel*:

    browser --sock_-- Session --rsock_/link/sock_-- RemoteSession --rsock_-- target
                     (tun_local)                    (tun_remote)

This directory holds TLA+ modules translated from the C++ sources, TLC
configurations that check them on small instances, and TLAPS proofs. Paths of
sources below are relative to the repository.

## 1. Inventory

| component | state it keeps | operations | what makes it correct |
|---|---|---|---|
| `server/sockv5/Session.cpp` | two sockets, `bbuffer_`, `rbuffer_`, `tmpBBuffer_`, `tmpRBuffer_`, `sockReqStringData_` | 11 completion handlers, `start`, `shutdown` | one operation per direction at a time; no stream byte lost, repeated or reordered; success reported only after an accepting answer; everything closed when one side ends |
| `server/remote/RemoteSession.cpp` | two sockets, a resolver, the same buffers, `authPkg_`, `userList_` | 8 completion handlers, `checkUser`, `shutdown` | the same, and: dials only for a known user, answers once and before data |
| `server/sockv5/Sockv5Proxy.cpp`, `server/remote/RemoteSvr.cpp` | acceptor, pool | `start`, `handleAccept` | keeps accepting; hands each connection to one thread; a failed accept ends the process |
| `pool/IoServicePool.cpp` | `vec_`, `nextIndex_`, `start_` | `start`, `get` | valid index, round robin, also when the counter wraps |
| `frame/*` | list of frames | `check`, `addFrames`, `remoteFrames` | `check` finds exactly the messages `addFrames` made, however they are cut |
| `codec/*` | key, list of codecs | `init`, `addCodec`, `encode`, `decode` | `decode` of the peer undoes `encode`, and only where both codecs do the same |
| `protos/*` | a message, a static sequence number | create, serialize, `parseAndCheck` | a message comes back as it was made; a damaged one is refused; an answer has its request's number |
| `protocol/Sockv5Def.cpp` | a parsed greeting or request | `check`, `parseFrom` | the length of exactly the message |
| `local.cpp`, `remote.cpp`, `Setting.cpp` | `g_setting`, with the users | options, file, user list, defaults | each option reaches the setting it names; two programs told the same understand one another |
| `utils/*` | log level, the state of `rand()` | logging, CRC32, random strings (MD5 is not used) | the checksum is the CRC-32; levels out of range are errors only |
| `interface/*` | strings for the log | setters | no behaviour of its own |

How they interact. The acceptor runs on the main thread and gives every accepted
socket to one `io_service` of the pool, which one thread runs; all handlers of a
session run on that thread, so a handler is atomic with respect to its session.
A session lives as long as an operation in progress holds `shared_from_this()`.
The two processes share nothing but the TCP connection between them (the link),
on which a `ProxyMsg` is encoded and framed. Codec and frame singletons are
shared by all threads and only read after start-up.

What is hard: two directions run concurrently in one session; TCP cuts and joins
messages anywhere; `shutdown()` aborts what is in progress but not completions
already queued; sockets close with `linger(true, 0)`, that is by a reset that
discards what is in flight; error paths return without `shutdown()` and rely on
destruction; the log macro `SF_LOG_WITH_CLIENT` calls `remote_endpoint()`, which
throws after a reset and ends the process; nothing times out. `PROJECT.json`
lists each hazard at its line with the properties aimed at it.

## 2. Modules

| module | models | corresponds to |
|---|---|---|
| `Wire` | data and frames | `frame/*`, `ProxyMsgPkg`: a message is a record (subcmd, does it check, body); on the link it is two *pieces*, so a read may end inside it |
| `AsioSession` | what both sessions share | `pend` is the set of operations in progress, named by their handlers; `Start`, `Shutdown`, `Return`, `Throw` are the ways a handler ends |
| `Browser` | the SOCKS client (environment) | `test/testLocal.py`, plus FIN and RST at any moment |
| `Target` | the target (environment) | `test/echoServerNormal.py`, likewise |
| `LocalSession` | class `Session` | one action per handler, with its name |
| `RemoteSession` | class `RemoteSession`, `RemoteSvr::handleAccept` | one action per handler, with its name |
| `Streams` | vocabulary of the stream properties | - |
| `LocalSystem` | browser + `Session` + *any* server | the server sends, reads and closes as it likes |
| `RemoteSystem` | *any* client + `RemoteSession` + target | likewise |
| `Tunnel` | browser + `Session` + `RemoteSession` + target, and kills of either process | the whole system |
| `TunnelService` | what a tunnel promises (abstract) | two streams that are prefixes, and a success only after the target is connected |
| `Frames` | `frame/*` by tokens: length fields, HTTP headers, `FrameFacade` | one operator per function; Base stands for the 256 values of a byte |
| `Framing` | one direction of the link as a string, and the drain loop over `Frames` | `tmp` is `tmpRBuffer_` or `tmpBBuffer_`; `Round` is one round of the loop, `Drained` all of them |
| `Sockv5` | the SOCKS5 dialogue byte by byte | `protocol/Sockv5Def.cpp`, and the success paths of the handlers that use it |
| `Acceptors` | the accept loop and the threads of either server | `Sockv5Proxy`, `RemoteSvr`, `IoServicePool` |
| `Words`, `Checksum`, `Codec` | 32-bit words as pairs of halves; CRC-32; the five codecs and `CodecFacade` | `utils/CRC32.cpp`, `codec/*`, byte for byte |
| `Messages`, `Packages` | protobuf messages as functions on the fields set, their bytes, the parser; how they are made and checked | `protos/ProxyMsg.pb.cc` as one table of fields per class, `ProxyMsgPkg` |
| `Settings` | command lines, files, defaults, and every way a start ends | `initSetting`, `initCodec`, `initFrame`, `initLogger` of both programs, `loadConfig`, `RandomUtils` |
| `Deployment` | both programs started on one host, and sessions between them down to the bytes of their messages | `main` of both, the success paths of the handlers that make and read messages; `readSeq` is the first half of `seq++` |
| `MCFraming`, `MCSockv5`, `MCAcceptors`, `MCDeployment` | values for TLC | - |
| `WireLemmas` | lemmas on the streams and their flattening, and on the phases both sessions go through | - |
| `LocalSystemProofs`, `RemoteSystemProofs`, `AcceptorsProofs`, `FramesProofs`, `Sockv5Proofs` | the theorems about `LocalSystem`, `RemoteSystem`, `Acceptors`, `Frames` with `Framing`, and `Sockv5` | - |
| `TunnelProofs` | the theorems about `Tunnel`, among them that it implements `TunnelService` | - |
| `DeploymentProofs` | the theorems about `Deployment`, and on the way about `Codec`, `Messages`, `Packages`, `Settings` and `Checksum` | - |

State and code. `tmpB`, `tmpR`, `sock`, `rsock`, `req` are `tmpBBuffer_`,
`tmpRBuffer_`, `sock_`, `rsock_`, `sockReqStringData_`. `bbuffer_` and `rbuffer_`
are only read in the handler of the read that filled them, so they are the `k`
cells or pieces that handler takes off its stream. While a write to the link is
in progress `tmpBBuffer_` is its buffer; `tmpB` then stands for the message that
is encoded in it. `queued` holds the operations whose success was already on its
way to the handler when `shutdown()` closed the sockets: those handlers run with
success and start operations on closed sockets, which then fail. `terminated`
says that an exception left a handler (nothing catches it around
`io_service::run`), or that the process was killed.

Levels. The session modules are about control, and see data as cells and pieces;
`Framing`, `Sockv5` and `Deployment` are about the bytes, and see of the sessions
only the loop, dialogue or messages they serve. They meet in three operators:
`Wire!FrameOk`, which takes for granted that a message is understood by the peer
exactly when it is intact (checked by `Understood` and `OnlySameCodec`);
`Wire!Check`, which says that `check()` finds a frame exactly when all of it is
there (checked by `InOrder` and `NothingWaits`) and what it may do with other
bytes (`Frames!check`, branch by branch), and `LocalSession!MsgLen`, which says the same of a
SOCKS message (checked by `WholeIsTaken` and `SameForEveryCut`). A string of
`Frames` is a sequence of tokens: the bytes of a message and of a length field,
and of an HTTP header the words that `check()` looks for.

Data. A cell is a run of bytes of one meaning (half a greeting, half a request,
the two port bytes, one token of payload, an answer). Writes to browser and
target are chunks of cells, so that the boundaries of `async_write` stay visible.
A buffer that starts on a frame boundary is judged by its length. One that starts
inside a frame (possible only after bytes were lost), or with the bytes of a
neighbour that frames nothing (`NoFrame`, which server and client of
`LocalSystem` and `RemoteSystem` may send), has any length field (`Garbled`):
`Check` then waits for more, finds a frame that does not parse, or has a length
that no frame can have, negative or wrapped, on which `substr` or `removeFrame`
throws.

TCP. Each direction of a connection is a sequence. A read takes any non-empty
prefix. A write completes while the peer's backlog is at most `SndCap` chunks or
`LinkCap` pieces; otherwise it is in progress until the peer reads. A FIN is seen
after the data; a reset may overtake it.

## 3. Runs

| run | question | bounds |
|---|---|---|
| `LocalSystem` | overlap, dead directions, loss of the process, false success, both streams, teardown, the answer; a refused request and one for an IPv4 address, which leaves its port in the stream, every kind of server message, bytes that are none, cut answers | 3 server messages (any first, then an accepting answer, data, corrupt data or no frame), 1 token behind the port bytes |
| `RemoteSystem` | the same of `RemoteSession`; users, address types, corrupt messages; a client that sends early | 3 client messages (any first, then data, corrupt data, a second connect message or no frame), 2 tokens |
| `Tunnel_stream` | both streams through both processes; refinement of `TunnelService` | 2 tokens each way |
| `Tunnel_live` | delivery, unless browser or target ends the tunnel: neither session does by itself; release of all sockets when one of them does | 2 tokens up, 1 down, no kills (a killed neighbour is one that closes, in `TornDown`) |
| `Framing` | are messages found exactly, for length frames, HTTP frames, and one in the other | 3 messages of 1, 2 and 5 tokens, bytes of 5 values |
| `Sockv5` | is the dialogue understood to the byte, however it is cut; every address type, lengths that throw, char signed or not | bytes of 4 bits, every length at a limit |
| `Acceptors` | do the threads take turns over the wrap of the index; is every connection heard while the process runs | 3 threads, index modulo 6, 4 connections |
| `Deployment` | do two programs understand one another exactly when their codecs do the same, down to the bytes | 50 pairs of command lines, two starting seconds, two memories behind a key, two values of a port that was never set, 1 session (2 for the race of `seq`), a set-up and 70 bytes of data |
| `LocalSystem_cutrsp`, `Tunnel_first`, `Tunnel_ipv4`, `Deployment_ipv4` | findings (section 6) | as above, `Deployment_ipv4` one pair |

The properties, briefly (each is stated in full in its module).
*Control:* `NoOverlap` (buffers and `async_write` are never shared by two
operations), `NoDeadDirection` (open sockets imply an operation in each
direction), `FramedNeverThrows` (the throwing log lines are confined to the
set-up; behind it a process is lost only over bytes that are no frame, or in a
`Session` whose answer was cut), `DialsOnlyForUsers`, `OneAnswerFirst`,
`SuccessOnlyIfAccepted`. *Streams:* `UpConserved`, `DownConserved` (delivered +
buffered + in flight = sent, while open; and what is delivered is a prefix of it
when connections close, too: for the data to the browser also after a cut answer,
unless the server answers twice in the same words, `AnswersOnce`),
`ResponseWhole`, and in the tunnel `UpEndToEnd`, `DownEndToEnd`,
`RemoteKeepsNoMessage`, `ImplementsService`. What the browser sent is counted
with the port bytes that an IPv4 or IPv6 request leaves in the stream
(`PortCells`, a finding); `UpIntact` is without them. *Progress:* `TornDown`, `Answered`,
`AcceptedIsReplied`, `UpArrives`, `DownArrives`, `GivenBack`. *Bytes:* `InOrder`,
`NothingWaits`, `AsAsked`, `WholeIsTaken`, `SameForEveryCut`.
*Servers:* `Balanced`, `Heard` (who waits gets a session, unless the process
ends). *Deployment:* `Understood` (programs whose codecs do the same refuse
nothing), `OnlySameCodec` (nothing is served where they do not), `ServedAsAsked`
(users, names with their ports, IPv6 hosts, data and numbers are those of the
request), `WellFormed` (messages against the definition of CRC-32 and their own
reading), `AsTold` (settings and users against command line and files), and, for a
finding, `DialledAsAsked`.

When do two codecs do the same? `SameCodec` says it of messages of a length, and
not every pair of keys that differ makes two codecs: rc4 goes over its key in
circles ("k" and "kk" are one key), chacha20 uses 32 bytes of a key, or what is
behind a shorter one, and the length, reverse makes a segment size of its key,
and with segments of one byte, as "none", does nothing.

Why the bounds are enough. A session has at most two operations in progress, and
no handler compares a message with one before the previous: two messages behind
the answer show every way of joining and cutting (two in one read, one and a
half, a half and a half). `SndCap = 0` and `LinkCap` of one message make a second
write block, which is the only thing capacity decides. Two tokens, or one behind
the port bytes, distinguish loss, repetition and reordering; the theorems on the
streams are for any number. The log level is 0 in `LocalSystem` (all the
lines that can throw are on) and 2 or 3 elsewhere, which keeps the streams apart
from the loss of the process; the proofs are for every level. A cut response loses
data (first finding): `cut` remembers it, and `AcceptedIsReplied` excuses it.
`LaterKinds` has one
message of each kind that a session treats differently after the first.

For the bytes: `check()` depends on the length of what is there and on a few
fields, so messages of one token, of two and of one that looks like a header
(and carries into the second digit of a length of base 5) are the cases; a base
above 4 keeps the addition of the header's 4 bytes from wrapping where it does
not wrap with 256. Bytes of 4 bits have every relation between a length and the
sign (0, 1, the largest positive, the smallest negative, -1) that bytes of 8
bits have; `Plain` confines the properties to the lengths that a char can hold,
and the runs go on behind it. 4 connections (5 accepts) from index 4 of 6 pass
the wrap with 3 threads.

For `Deployment`: the pairs of command lines differ in one thing each that the two
programs may or may not have in common (method, key, frame, user, address, file),
or end one of them; among them are pairs of different keys or methods that do the
same, and chacha20 keys that differ behind the 32nd byte, in the first, or in length.
The messages are longer than a block of chacha20, so that its counter
moves, and have a body whose checksum takes a varint of five bytes; the
keys give the reversing codec segments shorter and longer than a message. Both
programs run on one host, which is the harder case (they may ask for one port).
A session has a host name, an IPv4 or IPv6 address or an unknown type for its request.

`CHECK_DEADLOCK FALSE` in every run: a tunnel whose neighbours are silent waits
for ever, and the neighbours send only a bounded number of messages.

Fairness. The `io_service` thread runs every handler whose operation completed
(weak fairness per handler); DNS queries and connects end; browser, server,
client and target read what is there. Nobody has to send, close or accept. In
`Acceptors` the main thread starts and accepts; sessions need not end. `Deployment`
has no fairness, and states only what may not happen.

Every property is accompanied by a mutant of the code (operators named `Mutant`
in the modules) that TLC finds to violate it.

## 4. Proofs

All theorems hold for all values of the constants: any kinds of requests and
messages, any bounds and capacities, any log level. Three of them name what they
ask of a constant: `DownEndToEndHolds` and `ImplementsServiceHolds` that the answer
of `tun_remote` is not cut (`RspCut = FALSE`), `UpIntactHolds` and
`ImplementsServiceHolds` that a request is for a host name or refused. Without
these the statements are false: the findings `ResponseWhole` and `UpIntact`.

*The phases of a session* (the end of `WireLemmas`). `NoOverlap` is not inductive:
whether a handler finds the other direction in order depends on the phase the
session is in. `Phases` tells four apart: `SettingUp` (one set-up operation,
nothing queued, `sock` open, `rsock` open from the answer of the connect on),
`Piping` (exactly one operation per direction, both sockets open), `Closing`
(after `shutdown()`: at most one per direction, both sockets closed, queued
completions allowed), `Gone`. It is parameterised by the sets of handlers, so
that both classes use it. One lemma per way a handler ends (`SetupStarts`,
`PipeStarts`, `LinkConnects`, `SetupReturns`, `AskingThrows`, `PipeGoesOn`,
`ShutsDown`) says how it moves between phases, and `PhasesNoOverlap`,
`PhasesNoDeadDirection`, `PhasesThrow`, `PhasesType` say what a phase implies.

*Session* (`LocalSystemProofs`) and *RemoteSession* (`RemoteSystemProofs`):

- `ControlCorrect`: `Spec => []ControlInv`, where `ControlInv` is `Phases` (for a
  `RemoteSession` also `Waiting`, before the link is accepted).
  `HandlersKeepControl` has one case per handler and only cites the lemmas above.
- `NoOverlapHolds` and `NoDeadDirectionHolds`: from `ControlInv`.
- `FramedNeverThrowsHolds`: by the control, only bytes on which `check()` is wrong can
  throw behind the set-up, and by `ThrowInv` there are none among frames: while the
  session reads, buffer and link carry whole messages that are all among those the
  neighbour sent (`InTurn` of `Session`, where no answer was cut, and `InStep` of
  `RemoteSession`), so that a garbled buffer begins with a message that is none
  (`OnlyForeignGarbles`).
- `TypeCorrect`: `Spec => []TypeOK`. The types of the control variables follow
  from `ControlInv`; `DataType` covers the streams and buffers, with one lemma per
  kind of handler on top of `WireLemmas` (what reads, buffers, encoding and the
  drain loop return).
- `DialsOnlyForUsersHolds` (`RemoteSession`): the property is about the client's
  first message and the state long after it, so the invariant `DialInv` carries
  what links them: until `handleAuthFromBrowser` takes the message, the target is
  untouched and `tmpBBuffer_` followed by the stream begins with the two pieces of
  the first message sent (`Unasked`); what the client sends first is a connect
  message or has other bytes than one (`FirstMsg`); afterwards the property itself.
  `FirstPasses` is the heart: a buffer that passes the checks of
  `handleAuthFromBrowser` holds exactly that first message.

- `OneAnswerFirstHolds` (`RemoteSession`): what the link has carried and carries to
  the client (`Out`) is in turn (`InTurn`): whole messages, of which only the first
  is an answer. `OutInv` adds when: nothing before the target is connected, and
  something from then on, so that no second answer can be sent.
- `SuccessOnlyIfAcceptedHolds` (`Session`): the property relates what the browser was
  told to the first message of the server, long consumed by then. `HeardInv` holds
  on to that message: until its handler has taken it, `tmpRBuffer_` followed by
  the stream begins with its first piece (also where `ReadAgain` loses a read: what
  it loses comes behind that piece), so that a buffer that passes the handler's
  check is an intact answer that accepts. `ToldInv` counts what was written to the
  browser (`Chunks`: received or on its way) phase by phase: the greeting, then the
  reply, and the reply only behind an accepting answer.

*Strings* (`WireLemmas`). The stream properties are about flattened sequences:
`FlattenSeq` is a recursive function inside the community module, and so are
`Payload`, `DataIn`, `BodiesIn` and `PiecesOf` on top of it. The library's induction
theorems cannot be used, so induction over the naturals is proved here for a set
(`Induction`, from the well-foundedness of `<`), and from it that the recursive
function exists (`FlatExists`), what its steps are (`FlatStep`) and that flattening
distributes over concatenation (`FlattenConcat`, and `FlatMapConcat` for the streams
that keep a part of each message). On top of these there are two relations that the
invariants are made of: `Carries(pieces, msgs)`, the pieces in a buffer and on the
link are those of these whole messages (so that a drain loop that takes `n` of them
leaves the rest in step, `DrainAdds`), and `Begins(s, t)`.

*The streams of one session* (`LocalSystemProofs`, `RemoteSystemProofs`):
`UpConservedHolds` and `DownConservedHolds` of both. Neither property is inductive:
each says what is where while the sockets are open, and says nothing of what the
buffers and the link hold after a close, of what the boundaries of the messages are
or of what the buffer is in each phase. The invariants say so:

- `Session`, up: `SpokenInv` is the dialogue (what `tmpBBuffer_` and the stream hold of
  a greeting and of a request in each phase, and that the request leaves exactly
  `PortCells`); `UpInv` adds that what is on the link are whole messages and that
  they, the buffer and the stream are the port bytes and the tokens sent.
- `Session`, down: `DownInv`. As long as nothing was cut, `tmpRBuffer_` and the link
  carry the last messages the server sent, and the browser has the payload of those
  before. `CutInv`: after a cut the buffer keeps the first piece of the answer and
  the next read is lost, so that what is read later belongs to later messages, and
  completes the answer only if one of them is that answer again. That is what
  `AnswersOnce` excludes; TLC found the counterexample to the property without it.
- `RemoteSession`, up: `UpInv`. Until the connect message is taken, buffer and link
  carry all that was sent; from then on the messages whose bodies the target was not
  written yet. Down: `DownInv`; `tmpRBuffer_` holds nothing between two handlers, and
  what the client has and what is on its way are whole messages.

Each is kept by every handler through lemmas that mention no history
(`HandlersCarry`, `HandlersGive`, `AuthTakes`, `ReadTakes`, `AnswerCarried`,
`DataCarried`), so that the proofs about the tunnel can use them.

*The tunnel* (`TunnelProofs`) instantiates `LocalSystemProofs` and `RemoteSystemProofs`,
where each session is the peer of the other; a handler of the one is a step of its
link for the other. `BaseInv` joins the control and the types of both (`ControlInv`,
`TypeInv`), the phases of the two sessions with one another (`LinkInv`: a session is
accepted only if its peer connected, the target is connected exactly behind the
set-up of `RemoteSession`) and the dialogue with the answer that is on the link
(`DialogueInv`, which discharges for the real server what `LocalSystem` assumes of
any). On top of it:

- `UpEndToEndHolds` and `UpIntactHolds`, from `UpInv`: there are whole messages that
  the buffer of `RemoteSession` and the link carry, at most the connect message
  before it was taken and only data after it; the target's data followed by theirs
  and by what `Session` holds is the stream of the browser, while `Session` and the
  link are there; and it begins that stream always. The buffer carries them only
  while `RemoteSession` reads: a drain loop that throws leaves it as it is. `AllFramed`
  says that `Session` sends nothing but frames, so that none does.
- `RemoteKeepsNoMessageHolds`: `RemoteSession` reads from the link without draining
  its buffer first, which is right only because `Session` sends nothing before it
  has the answer. So the proof needs both sessions (`LittleKept` from `UpInv`).
- `DownEndToEndHolds`, from `DownInv`, likewise (while the socket of `Session` is open); `AnswerIsWhole` is the place where
  an answer in one piece is needed.
- `ImplementsServiceHolds`: every step of the tunnel is one of `TunnelService` or
  changes nothing it can see, under `BaseInv`, `UpInv`, `DownInv` and `ReqInv`.
  `SessionsServe`: the sessions only ever connect the target. `BrowserServes`: the
  second chunk the browser receives is the reply, with the target connected by then
  (`ChunksAreSpoken`, `RepliedIs`), and what comes behind it are the next tokens
  (`Delivers`, from `Begins`). `TargetServes`: likewise for what the target receives.

*Acceptors* (`AcceptorsProofs`): `TurnsCorrect`, `TypeCorrect`, `BalancedHolds`.
`Balanced` compares the threads and says nothing of the index, nor of who is next
once accepting has stopped. The invariant `Turns` does: going round from the
thread that was first, those before the one whose turn it is were given one session
more than the others, and `nextIndex_` stands for the one behind it. `NextThread`
is the step of the index, over its wrap too, from the uniqueness of division with
remainder (`Remainder`); `RoundGoesOn` is what a step does to the round.

*Frames* (`FramesProofs`): for every message that the length field can count and
any number of values of a byte above 4, `FixCheck` finds the frame that `FixAdd`
made and nothing else, with other frames behind it or not (`FrameIsFound`),
answers 0 while a part of it is missing (`FrameIsAwaited`), and `FixRemove` returns
the message (`FrameIsTaken`). `DigitsSpell` is the length in its bytes and back;
`ZeroDoesNotWrap` is why a short header, behind which `check()` reads the
terminator of the string and then memory, is never taken for a frame: a length
with a zero byte is too small for the header's 4 bytes to wrap it. The same three
for the HTTP frames, for every message, one that looks like a header too
(`HttpIsFound`, `HttpIsAwaited`, `HttpIsTaken`): no blank line ends before the header
does (`NoBlankBefore`) and the length field is before the message, so the first
place `find()` returns is the right one (`HeadingIsRead`). Lengths
stay below `Width` where frames are composed; the number in an HTTP header has no
width of its own in the model.

*Framing* (`FramesProofs` too): `FramesWork` composes the frames of a list. The loops
of `FrameFacade` are folds; `AddedInTurn` and `RemovedInTurn` say what they do one
frame at a time, and each frame in turn is removed from what the one before it made.
`check()` asks only the last frame of the list, which is right because every
message is wrapped in all of them. The inductive invariant is `InStep`: the
messages sent are those taken out followed by some `p`, buffer and wire are the
frames of `p`, and the buffer is shorter than the first of them. A round of the drain
loop takes the first of `p` or ends (`RoundTakes`, from `Taken`), and takes at least
one token, so the loop is over after as many rounds as the buffer has tokens
(`DrainedTakes`). `InOrderHolds` and `NothingWaitsHolds` follow.

*The SOCKS5 dialogue* (`Sockv5Proofs`): `AsAskedHolds`, `WholeIsTakenHolds` and
`SameForEveryCutHolds`, for every greeting and request, every even number of values
of a byte above 5, signed or not, and every cut. The properties speak of the end of
a dialogue, and none is inductive; `InDialogue` says what is there on the way: until
a message was taken, buffer and wire together are all of it, and the wire is not
empty (`Greeted`, `Requested`); once a request was taken, `reqData_` is what
`parseFrom()` makes of all of it and buffer and wire are what `check()` does not count
(`Understood`). `RequestRead` is the heart: a part of a request that `check()` does
not wait for is as long as `check()` counts of the whole, has every byte that
`parseFrom()` looks at, and is parsed to the same (`SamePiece`), without a throw;
`GreetingRead` says that a greeting is taken exactly when all of it is there.
`HostIsParsed` is the name and the port of a request and back. The proofs take the
sign of a char as an argument (`CheckAs`, `ParsedAs`), because a step reads a length
in one state and the property speaks of it in another. Lengths that are negative as
a char are excluded by the properties themselves (`Plain`); only the types of the
variables are proved for them.

*Two programs and their bytes* (`DeploymentProofs`). `AgreedUnderstood`: programs whose
codecs do the same, with frames that fit, understand each other, whichever of the
five methods it is, whatever the key, the data, the padding, the second of the start
and the number of sessions whose threads race for `seq`. It rests on a chain of facts
about the modules below, each for all inputs, in the order in which a message goes:

- `DecodeEncode`: `decode` of the facade undoes `encode`. Each codec is its own
  inverse: `XorInverse`, `ReverseInverse` (a place mirrored twice in its segment,
  the short last one too), `Rc4Inverse` (the state does not hang on the data, and
  the set-up of it, 256 steps by doubling, stays in the states) and
  `Chacha20Inverse` (the key stream hangs on key, memory and length only).
- `MergedSerialized`: the parser reads what the serializer wrote, for any table of
  fields. The loop of the parser takes one field a turn (`FieldRead`, from
  `VarintRead` and `BytesRead`), and what it has after `k` fields is the part of the
  message with those (`Part`). `MergedType` is about bytes that nobody serialized:
  whatever they are, the parser ends with a message, unknown fields and groups in it
  or not, and never reads behind them. `ByteSizeIs`: `ByteSize()` is the number of
  bytes that are written.
- `PackageRead` and `Understanding`: `parseAndCheck()` has of a package, serialized,
  encoded and decoded, exactly that package. It needs that the checksum of the body is
  the same on both sides, and not what the checksum is.
- `StartedTold`, `ListedTold` and `ProgramsAsTold`: a program that runs has what its
  options or file told it, through every default and early end of a start, and
  `tun_remote` the users of its list, of which the first of a name counts.
- `AlikeEncodes`: codecs that do the same (`Alike`, that is `SameCodec(512)`: no segment
  is longer) encode every text to the same bytes, by method: rc4 with keys that go round
  to the same 256 bytes, chacha20 with the same 32 and length, reverse with segments of
  one size (`SegmentSize`), reverse with segments of one byte and none.

None of the properties is inductive: they speak of a refused message, a dialled
target, delivered data, and not of what is on the link before. `Inv` does. `Typed`: each
program that runs was started by its command line; types. `Reached`: a session beyond
the first stage has something to ask for and a server that runs, or ran. `Linked`: what is
on the link is the message last made, encoded by the codec of the program that made it,
and that message is a request as `tun_local` writes it (`addressOf`, `reqPort`: the
name and its port, the text of an IPv6 address, that of a reversed IPv4 address, and
for both whatever port was there), an answer or the data. `Served`, while both
codecs do the same: what `RemoteSession` has taken is the request that was made, and
what was dialled, delivered and answered is as asked. TLC found `Inv` to hold on the
instance of the run before it was proved, but for the types of the fields of messages,
whose sets it cannot enumerate. There is one lemma per action;
`ReadReqInv` and `AuthInv` are where a package is taken apart that the other program
put together.

`AllWellFormed` also says that `check_sum` is the CRC-32, from `CalculateIsCrc`:
`CRC32::update` works on four bits with a table of sixteen words, the definition
divides by the polynomial bit by bit, and the two agree on data of any length. The
argument is linearity. Exclusive or is commutative and associative on words
(`XorWordLaws`) and halving distributes over it (`HalvedXor`), so four divisions by a bit
are a shift and a sum of four masked words (`DividedDigitIs`); the sixteen sums are the
table of the source (`TableSums`, `TableBits`). `AlikeServed` is `ServedAsAsked` while
both codecs do the same.

Assumptions used: `BrowserAssumption`, `PeerAssumption` and `ClientAssumption`
(the kinds are among those modelled), `FramesAssumption` (a byte has more than 4
values), `FramingAssumption` (no message is empty and the length fields can count
it with its frames, no list of frames is empty: `FrameFacade::check` takes the last),
`Sockv5Assumption` (a length fits its byte; an IPv4 address has 4 bytes, an IPv6
address 16), and `AcceptorsAssumption` (`Count` divides
`Wrap`: the pool keeps its default of 4 threads and the index is a `uint32_t`;
with 3 threads the turn would skip at the wrap), and `DeploymentAssumption` (strings
are of bytes and shorter than 2^24, far above what a command line can hold; an
address in a SOCKS request has up to 255 bytes; the data of a browser are not empty; behind a key
there are at least the 31 bytes that chacha20 may read; an IPv4 address in a request has 4
bytes and an IPv6 address 16; what memory holds for a port fits 16 bits; a thread
count is not negative; the names in a user list are a sequence).

Only model-checked: `OnlySameCodec`, and `ServedAsAsked` where the codecs differ. They
say that parser and checksum tell a message that was decoded otherwise than it was
encoded. `SameCodec` names the pairs of keys and methods that do the same to messages
of a length; beyond those a checksum of 32 bits cannot tell apart all messages, and a
theorem for every key and all data would be false. The run has the messages and keys
listed above.
All liveness properties stay with TLC, `Heard` of `Acceptors` among them: the prover
does not handle fairness and `ENABLED`. `ResponseWhole` is false, a
finding.

## 5. Plan

Done: both sessions, each against an arbitrary peer, the tunnel, its abstract
service, the proofs of the control and the types of both sessions, of
`DialsOnlyForUsers`, `OneAnswerFirst` and `SuccessOnlyIfAccepted`, of all stream
properties of the sessions and the tunnel, that the tunnel implements its service,
of the frames and the drain loop over any list of them, and of the SOCKS5 dialogue
for every length and cut; the bytes of frames and of SOCKS5; the accept loops and the
proof that their threads take turns; settings, codecs, checksum and messages, and
the deployment of both programs, with the proofs that codecs and parser undo what
the peer did and that the checksum is the CRC-32. What would come next:

1. Several sessions in one process, so that the throw of one is a kill of the
   others in the model (now `SessionThrows` in `Acceptors` and the kills in `Tunnel`).
2. `OnlySameCodec` up to a collision of the checksum, which needs a statement of what
   a wrong codec makes of a message.

Composition: `LocalSystem` and `RemoteSystem` instantiate one session each;
`Tunnel` composes both (`R == INSTANCE RemoteSession WITH ...`, where the `rsock`
of one is the `peer` of the other) and `TunnelService` is its abstraction.

## 6. Findings

- `LocalSystem_cutrsp`: `Session.cpp:177` continues an incomplete connect
  response with the wrong handler; the bytes of that read are discarded.
- `Tunnel_first`: messages that arrive together with the connect response wait in
  `tmpRBuffer_` until more data comes (`Session.cpp:219`); a target that speaks
  first and then waits is not heard.
- `Tunnel_ipv4`: the length of an IPv4 request omits its port
  (`Sockv5Def.cpp:44`), whose bytes then reach the target as data.
- `Deployment_ipv4`: an IPv4 address is asked for with its bytes reversed and with a
  port that was never set (`Sockv5Def.cpp:25`, `Session.cpp:123`).

More divergences are in the models and have no run of their own; the properties
leave them out or say where they end:

- The length of a host name is a char (`Sockv5Def.cpp:49`), so that names of 128
  bytes or more throw or are misread where char is signed (`Plain` leaves them
  out; `AsAsked` is about host names).
- The drain loops take a negative answer of `check()` for a length (`Session.cpp:283`,
  also 182, and `RemoteSession.cpp:46` and 232), where `BaseFrame.h:19` calls it a package
  error: `substr` throws, and the process ends. `FramedNeverThrows` says that it takes bytes
  that are no frame, or a cut answer.
- `local_addr` ("local bind addr and port", `remote.cpp:68`) is read into the server
  address (`remote.cpp:165`, `local.cpp:123`), over what `server_addr` told, and the
  local address stays empty: a `tun_local` that is given it ends at once. `AsTold`
  leaves both out.
- An address without a colon is not refused with exit code 3 (`remote.cpp:145`), because
  `pos` has 32 bits (`remote.cpp:141`, `local.cpp:99`) and never equals `npos`: its text is
  converted as a port, and that throws (`NoAddress`).
- `-s` is the short form of two options (`local.cpp:60,62`); the parser ends the
  program over it.
- The default addresses of both programs use port 8000: on one host the second
  does not start.
- A key of less than 32 bytes makes chacha20 read behind it (`Chacha20.cpp:11`);
  whether two programs then understand one another is up to their memory
  (`SameKey`). The default key has 8 bytes.
- A failed accept ends the process: nothing else is to be done for the acceptor's
  `io_service` (`Sockv5Proxy.cpp:31`, `RemoteSvr.cpp:29`), and `main` returns.
- The test peers (`test/testRemote.py`, `test/echoServerProtocol.py`) send no
  `check_sum` and are refused by `parseAndCheck`.

## 7. Not modelled

`Md5.cpp` (called by nothing); of the protobuf classes what nothing calls
(descriptors, reflection, swap, merging of messages) and the keeping of unknown
fields, which no program writes; the formatting of logs and settings; Windows
specifics. `Settings` takes the text of a number for the number, so that the
spellings `lexical_cast` accepts are left out. `Deployment` has no frames: it asks
only whether those of one program come off in the other, which is `Framing`'s
subject, and it has neither closes nor a pipe, which are the sessions'. A host of
an address type is always an address there; `RemoteSession` has the others.
`Sockv5` has no error paths and no pipe. `Framing` lets a peer that frames
nothing, or otherwise, send a few strings of its own; the session modules know bytes that
are no frame as one kind of message (`NoFrame`) and as buffers out of step, of which
`check()` may make anything.
