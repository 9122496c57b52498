---------------------------- MODULE MCAcceptors -----------------------------
(* Values for TLC.                                                         *)
EXTENDS Acceptors

CONSTANTS c1, c2, c3, c4

MCConns == { c1, c2, c3, c4 }
=============================================================================
