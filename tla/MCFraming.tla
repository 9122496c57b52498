----------------------------- MODULE MCFraming ------------------------------
(* Values for TLC: messages whose bytes look like parts of a header, and   *)
(* what a peer with another setting, or another program, would send.       *)
EXTENDS Framing

B == << Byte(1) >>
LikeHeader == CRLF \o CRLF \o << Word("Content-Length: ") >>

MCPayloads == { B, B \o B, LikeHeader }

Fix == << "fix" >>
Http == << "http_client" >>
Response == << "http_server" >>
FixInHttp == << "fix", "http_client" >>
MCLists == { Fix, Http, Response, FixInHttp }

\* Length fields: two at the end of the range, zero, and one behind a message.
Wraps == [i \in 1 .. 4 |-> Byte(Base - 1)]
Zero == [i \in 1 .. 4 |-> Byte(0)]

\* Requests: one without a body, one without a length.
Get == << Word("GET"), Word("line") >> \o CRLF \o CRLF
NoLength == << Word("POST"), Word("line") >> \o CRLF \o CRLF

MCForeign ==
  [to : {Fix}, text : { Wraps, [Wraps EXCEPT ![4] = Byte(1)], Zero, FixAdd(B) \o Zero }]
  \cup [to : {Http, FixInHttp}, text : { FixAdd(B), Get, NoLength }]
=============================================================================
