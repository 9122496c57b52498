------------------------------- MODULE Frames -------------------------------
(***************************************************************************)
(* The frames a message travels in on the link: a length in front of it    *)
(* (FixLengthFrame), or an HTTP request or response around it              *)
(* (HttpClientFrame, HttpServerFrame over HttpFrame), and FrameFacade,     *)
(* which applies a list of them.                                           *)
(*                                                                         *)
(* A string is a sequence of tokens.  The bytes of a message and of a      *)
(* length field are a token each; of an HTTP header only the words that    *)
(* check() looks for, the rest of a line being one token.                  *)
(***************************************************************************)
EXTENDS Integers, SequencesExt

CONSTANT Base  \* the number of values of a byte: 256

ASSUME FramesAssumption == Base \in Nat /\ Base > 4

FrameNames == {"fix", "http_client", "http_server"}

Word(w) == [k |-> w, n |-> 0]
Byte(b) == [k |-> "byte", n |-> b]
Number(n) == [k |-> "number", n |-> n]

Token == { Word(w) : w \in {"POST", "HTTP", "GET", "line", "cr", "lf",
                            "Content-Length: "} }
         \cup [k : {"byte", "number"}, n : Nat]

(* std::string::find: the place of p in s, 0 if there is none.             *)
Find(s, p) ==
  LET At == { i \in 1 .. Len(s) - Len(p) + 1 : SubSeq(s, i, i + Len(p) - 1) = p } IN
  IF At = {} THEN 0 ELSE CHOOSE i \in At : \A j \in At : i <= j

-----------------------------------------------------------------------------
(* FixLengthFrame: a length of four bytes, in network order.               *)
Width == Base * Base * Base * Base  \* of uint32_t

FixAdd(d) ==
  << Byte((Len(d) \div (Base * Base * Base)) % Base), Byte((Len(d) \div (Base * Base)) % Base),
     Byte((Len(d) \div Base) % Base), Byte(Len(d) % Base) >> \o d

(* The lengths the first four bytes of c_str() may spell: behind a short   *)
(* string there are its terminator and then whatever is in memory.         *)
FixLengths(d) ==
  LET Fits(q) == \A i \in 1 .. 4 : /\ i <= Len(d) => q[i] = d[i].n
                                   /\ i = Len(d) + 1 => q[i] = 0 IN
  { ((q[1] * Base + q[2]) * Base + q[3]) * Base + q[4] :
      q \in { x \in [1 .. 4 -> 0 .. Base - 1] : Fits(x) } }

(* Mutant: the frame is taken to be as long as what is in it.              *)
FixCheckBare(d) == { IF len > Len(d) THEN 0 ELSE len : len \in FixLengths(d) }

FixCheck(d) ==
  { IF (len + 4) % Width > Len(d) THEN 0 ELSE (len + 4) % Width : len \in FixLengths(d) }

(* What substr() returns, as a set: it throws on a position behind the end. *)
FixRemove(d) ==
  { SubSeq(d, 5, IF 4 + len < Len(d) THEN 4 + len ELSE Len(d)) :
      len \in { l \in FixLengths(d) : Len(d) >= 4 } }

-----------------------------------------------------------------------------
(* HttpFrame.                                                              *)
CRLF == << Word("cr"), Word("lf") >>

HttpAdd(first, d) ==
  << Word(first), Word("line") >> \o CRLF
    \o << Word("Content-Length: "), Number(Len(d)) >> \o CRLF
    \o << Word("line") >> \o CRLF
    \o CRLF \o d

(* check() looks at nothing before it has five bytes; the first word of a  *)
(* header has four.                                                        *)
Short(d) == Len(d) <= IF d # << >> /\ d[1].k = "byte" THEN 4 ELSE 1

checkGet(d) ==
  LET header == Find(d, CRLF \o CRLF) IN
  IF header = 0 THEN 0 ELSE header + 3

(* The body is as long as the header says; what is wrong with a header has *)
(* a negative number.                                                      *)
checkPost(d) ==
  LET header == Find(d, CRLF \o CRLF)
      field == Find(d, << Word("Content-Length: ") >>)
      size == d[field + 1].n + header + 3 IN
  CASE header = 0 -> 0
    [] header # 0 /\ field = 0 -> -1
    [] header # 0 /\ field > header -> -2
    [] header # 0 /\ field \in 1 .. header
         /\ ~ (d[field + 1].k = "number" /\ d[field + 2] = Word("cr")) -> -4
    [] OTHER -> IF Len(d) < size THEN 0 ELSE size

HttpCheck(d) ==
  CASE Short(d) -> 0
    [] ~ Short(d) /\ d[1].k \in {"POST", "HTTP"} -> checkPost(d)
    [] ~ Short(d) /\ d[1].k = "GET" -> checkGet(d)
    [] OTHER -> -1  \* unknowCheck

(* The assertion fails where there is no header.                           *)
HttpRemove(d) ==
  { SubSeq(d, header + 4, Len(d)) : header \in {Find(d, CRLF \o CRLF)} \ {0} }

-----------------------------------------------------------------------------
(* FrameFacade: list is headerList_, the names of its frames, innermost    *)
(* first.                                                                  *)
addFrame(d, name) ==
  CASE name = "fix" -> FixAdd(d)
    [] name = "http_client" -> HttpAdd("POST", d)
    [] name = "http_server" -> HttpAdd("HTTP", d)

removeFrame(name, d) == IF name = "fix" THEN FixRemove(d) ELSE HttpRemove(d)

RemoveFrom(name, ds) == UNION { removeFrame(name, d) : d \in ds }

addFrames(list, d) == FoldLeft(addFrame, d, list)

(* The message as a set, empty if removing a frame ends the process.       *)
remoteFrames(list, d) == FoldRight(RemoveFrom, list, {d})

check(list, d) == IF Last(list) = "fix" THEN FixCheck(d) ELSE {HttpCheck(d)}
=============================================================================
