--------------------------- MODULE TunnelService ----------------------------
(***************************************************************************)
(* What the two programs promise together, without sockets, frames or      *)
(* processes: a connection to the target that carries the data of each     *)
(* side to the other in order, without loss in the middle, duplication or  *)
(* foreign bytes.  The browser is told of success only when the target is  *)
(* connected, and the data of either side flows only after that.  The      *)
(* service may stop at any moment: it promises a prefix.                   *)
(***************************************************************************)
EXTENDS Naturals, Sequences

CONSTANT Token(_)  \* the i-th token of a stream

VARIABLES
  connected,  \* the target accepted the connection
  told,       \* the browser received the reply of success
  upSent, downSent,  \* numbers of tokens sent by the browser and by the target
  upGot, downGot     \* what the other side received of them

vars == << connected, told, upSent, downSent, upGot, downGot >>

Init ==
  /\ connected = FALSE /\ told = FALSE
  /\ upSent = 0 /\ downSent = 0
  /\ upGot = << >> /\ downGot = << >>

Connect ==
  /\ ~ connected /\ connected' = TRUE
  /\ UNCHANGED << told, upSent, downSent, upGot, downGot >>

Tell ==
  /\ connected /\ ~ told /\ told' = TRUE
  /\ UNCHANGED << connected, upSent, downSent, upGot, downGot >>

SendUp ==
  /\ told /\ upSent' = upSent + 1
  /\ UNCHANGED << connected, told, downSent, upGot, downGot >>

SendDown ==
  /\ connected /\ downSent' = downSent + 1
  /\ UNCHANGED << connected, told, upSent, upGot, downGot >>

(* Some tokens arrive, the next ones of the stream.                        *)
Extends(old, new, sent) ==
  \E n \in Len(old) + 1 .. sent : new = [i \in 1 .. n |-> Token(i)]

DeliverUp ==
  /\ Extends(upGot, upGot', upSent)
  /\ UNCHANGED << connected, told, upSent, downSent, downGot >>

DeliverDown ==
  /\ told /\ Extends(downGot, downGot', downSent)
  /\ UNCHANGED << connected, told, upSent, downSent, upGot >>

Next == Connect \/ Tell \/ SendUp \/ SendDown \/ DeliverUp \/ DeliverDown

Spec == Init /\ [][Next]_vars
=============================================================================
