------------------------------- MODULE Target -------------------------------
(***************************************************************************)
(* The server tun_remote connects to, as the echo servers of test/ play    *)
(* it: it answers what it receives, or, like many protocols, speaks first. *)
(* At any moment it may close its side (FIN) or abort (RST).               *)
(***************************************************************************)
EXTENDS Wire

CONSTANTS
  SpeaksFirst,  \* may the target send before it received anything?
  MaxDown       \* bound: tokens of data it sends

VARIABLES
  r2t,       \* chunks written by tun_remote and not yet received by the target
  t2r,       \* cells on their way from the target to tun_remote
  target,    \* "new" (not connected), "up", "fin" or "rst"
  tgot,      \* the chunks the target received
  downSent   \* the number of data tokens it sent

ASSUME TargetAssumption ==
  /\ SpeaksFirst \in BOOLEAN
  /\ MaxDown \in Nat

TargetTypeOK ==
  /\ r2t \in Seq(Seq(Cell))
  /\ t2r \in Seq(Cell)
  /\ target \in {"new", "up", "fin", "rst"}
  /\ tgot \in Seq(Seq(Cell))
  /\ downSent \in Nat

TargetInit ==
  /\ r2t = << >>
  /\ t2r = << >>
  /\ target = "new"
  /\ tgot = << >>
  /\ downSent = 0

TargetSends ==
  /\ target = "up" /\ downSent < MaxDown
  /\ SpeaksFirst \/ tgot # << >>
  /\ downSent' = downSent + 1
  /\ t2r' = Append(t2r, C("data", downSent + 1))
  /\ UNCHANGED << r2t, target, tgot >>

TargetReceives ==
  /\ target \in {"up", "fin"} /\ r2t # << >>
  /\ tgot' = Append(tgot, Head(r2t))
  /\ r2t' = Tail(r2t)
  /\ UNCHANGED << t2r, target, downSent >>

TargetCloses ==
  /\ target = "up"
  /\ target' = "fin"
  /\ UNCHANGED << r2t, t2r, tgot, downSent >>

TargetResets ==
  /\ target \in {"up", "fin"}
  /\ target' = "rst"
  /\ UNCHANGED << r2t, t2r, tgot, downSent >>

TargetNext ==
  \/ TargetSends
  \/ TargetReceives
  \/ TargetCloses
  \/ TargetResets
=============================================================================
