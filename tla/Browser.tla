------------------------------ MODULE Browser -------------------------------
(***************************************************************************)
(* The SOCKS5 client of tun_local, as test/testLocal.py plays it: it sends *)
(* a greeting, waits for the answer, sends a request, waits for the reply, *)
(* and then streams data both ways.  At any moment it may close its side   *)
(* (FIN) or abort (RST).                                                   *)
(***************************************************************************)
EXTENDS Wire

CONSTANTS
  GreetKinds,  \* greetings it may send: 0 offers "no authentication", 1 does not
  ReqKinds,    \* requests it may send: 1, 3, 4 the address types of the protocol,
               \* 2 another address type, 0 a command other than CONNECT
  MaxUp        \* bound: tokens of data it sends

VARIABLES
  b2l,      \* cells on their way from the browser to tun_local
  l2b,      \* chunks written by tun_local and not yet received by the browser
  browser,  \* "up", "fin" (sent FIN) or "rst" (sent RST)
  asked,    \* the last message of the SOCKS dialogue it sent
  got,      \* the chunks the browser received
  upSent    \* the number of data tokens it sent

ASSUME BrowserAssumption ==
  /\ GreetKinds \subseteq {0, 1}
  /\ ReqKinds \subseteq 0 .. 4
  /\ MaxUp \in Nat

BrowserTypeOK ==
  /\ b2l \in Seq(Cell)
  /\ l2b \in Seq(Seq(Cell))
  /\ browser \in {"up", "fin", "rst"}
  /\ asked \in {"nothing", "greeting", "request"}
  /\ got \in Seq(Seq(Cell))
  /\ upSent \in Nat

BrowserInit ==
  /\ b2l = << >>
  /\ l2b = << >>
  /\ browser = "up"
  /\ asked = "nothing"
  /\ got = << >>
  /\ upSent = 0

GreetCells(g) == << C("greet", g), C("greet", g) >>

(* Sockv5Req::check counts no port bytes unless the address is a host      *)
(* name, so for every other address type they are a cell of their own.     *)
PortCells(a) == IF a \in {0, 3} THEN << >> ELSE << C("port", a) >>

ReqCells(a) == << C("req", a), C("req", a) >> \o PortCells(a)

Greet(g) ==
  /\ browser = "up" /\ asked = "nothing"
  /\ asked' = "greeting"
  /\ b2l' = b2l \o GreetCells(g)
  /\ UNCHANGED << l2b, browser, got, upSent >>

Request(a) ==
  /\ browser = "up" /\ asked = "greeting" /\ Len(got) >= 1
  /\ asked' = "request"
  /\ b2l' = b2l \o ReqCells(a)
  /\ UNCHANGED << l2b, browser, got, upSent >>

SendData ==
  /\ browser = "up" /\ asked = "request" /\ Len(got) >= 2
  /\ upSent < MaxUp
  /\ upSent' = upSent + 1
  /\ b2l' = Append(b2l, C("data", upSent + 1))
  /\ UNCHANGED << l2b, browser, asked, got >>

BrowserReceives ==
  /\ browser # "rst" /\ l2b # << >>
  /\ got' = Append(got, Head(l2b))
  /\ l2b' = Tail(l2b)
  /\ UNCHANGED << b2l, browser, asked, upSent >>

(* FIN: what the browser sent is still delivered, and it may still read.   *)
BrowserCloses ==
  /\ browser = "up"
  /\ browser' = "fin"
  /\ UNCHANGED << b2l, l2b, asked, got, upSent >>

(* RST: the browser receives nothing more, and what it sent may be lost.   *)
BrowserResets ==
  /\ browser # "rst"
  /\ browser' = "rst"
  /\ UNCHANGED << b2l, l2b, asked, got, upSent >>

BrowserNext ==
  \/ \E g \in GreetKinds : Greet(g)
  \/ \E a \in ReqKinds : Request(a)
  \/ SendData
  \/ BrowserReceives
  \/ BrowserCloses
  \/ BrowserResets
=============================================================================
