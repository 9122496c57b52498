---------------------------- MODULE AsioSession -----------------------------
(***************************************************************************)
(* What class Session (tun_local) and class RemoteSession (tun_remote)     *)
(* have in common: two sockets, asynchronous operations whose handlers     *)
(* keep the session alive, and the ways a handler can end.                 *)
(*                                                                         *)
(* An asynchronous operation is named by the handler bound to its          *)
(* completion, and "pend" holds the operations in progress: the session    *)
(* lives as long as one of them holds shared_from_this().  All handlers of *)
(* a session run on one io_service thread, so a step is a whole handler.   *)
(***************************************************************************)
EXTENDS Wire

CONSTANT LogLv  \* the log level: 0 TRACE, 1 DEBUG, 2 INFO, 3 ERROR

VARIABLES
  pend,        \* handlers of the operations in progress
  queued,      \* those of pend that had succeeded when shutdown() closed the sockets
  sock,        \* sock_, the accepted connection
  rsock,       \* rsock_, the connection the session makes
  terminated   \* an exception left a handler: the process is gone

ASSUME LogLvAssumption == LogLv \in 0 .. 3

control == << pend, queued, sock, rsock, terminated >>

(* An operation on a socket may succeed while the socket is open; on a     *)
(* closed one only if its success was already queued for the handler.      *)
Runs(op, end) == op \in pend /\ (end = "up" \/ op \in queued)

Fails(op, end, error) == op \in pend \ queued /\ (end = "closed" \/ error)

-----------------------------------------------------------------------------
(* Mutant: the operation is started anew beside its successors.            *)
StartAgain(op, new) ==
  /\ pend' = pend \cup new
  /\ queued' = queued \ {op}
  /\ UNCHANGED << sock, rsock, terminated >>

(* The handler of op starts the operations of new.                         *)
Start(op, new) ==
  /\ pend' = (pend \ {op}) \cup new
  /\ queued' = queued \ {op}
  /\ UNCHANGED << sock, rsock, terminated >>

(* async_connect of op succeeded: the handler goes on to the operation new.*)
Connected(op, new) ==
  /\ pend' = (pend \ {op}) \cup {new}
  /\ rsock' = "up"
  /\ UNCHANGED << queued, sock, terminated >>

(* Mutant: only the accepted socket is closed.                             *)
CloseAccepted ==
  /\ sock' = Close(sock)
  /\ UNCHANGED rsock

CloseBoth ==
  /\ sock' = Close(sock)
  /\ rsock' = Close(rsock)

(* It calls shutdown().  Operations in progress are aborted, but not those *)
(* whose success is queued: any of the operations in done.                 *)
Shutdown(op, done) ==
  /\ CloseBoth
  /\ pend' = pend \ {op}
  /\ \E q \in SUBSET done : queued' = ((queued \cup q) \cap pend) \ {op}
  /\ UNCHANGED terminated

(* It returns without starting anything: without an operation left the     *)
(* session is destroyed, and its sockets with it.                          *)
Return(op) ==
  /\ pend' = pend \ {op}
  /\ queued' = queued \ {op}
  /\ IF pend = {op} THEN CloseBoth ELSE UNCHANGED << sock, rsock >>
  /\ UNCHANGED terminated

(* remote_endpoint() throws when the connection of sock_ is already reset. *)
(* Nothing on the io_service thread catches the exception.                 *)
Throw ==
  /\ CloseBoth
  /\ pend' = {} /\ queued' = {}
  /\ terminated' = TRUE

Logged(lv) == lv >= LogLv
=============================================================================
