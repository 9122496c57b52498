----------------------------- MODULE Acceptors ------------------------------
(***************************************************************************)
(* The accept loop of a server and its threads: Sockv5Proxy in tun_local,  *)
(* RemoteSvr in tun_remote, both over an IoServicePool.  The main thread   *)
(* accepts; a connection belongs to the thread whose io_service its socket *)
(* was made for, when the accept was started, and stays there.             *)
(*                                                                         *)
(* What a session does is in LocalSession and RemoteSession: here it ends, *)
(* or an exception leaves one of its handlers.                             *)
(***************************************************************************)
EXTENDS Integers, Sequences

CONSTANTS
  Conns,      \* connections clients may make, each once
  Count,      \* count_ of the pool: 4
  Wrap,       \* the number of values of nextIndex_: 2^32
  FirstIndex, \* nextIndex_ at the start of a behavior: 0, or later in a long run
  Info        \* is the log level LOG_INFO or lower?

VARIABLES
  client,     \* per connection: "new", "open", "rst" (the client reset it)
  backlog,    \* connections the kernel has and the server did not accept, in order
  accepting,  \* the thread of the socket in async_accept, None if there is none
  nextIndex,  \* nextIndex_ of the pool
  thread,     \* per connection: the thread of its session, None before and after
  started,    \* per thread: the sessions started on it
  process     \* "created", "running" or "terminated"

None == -1
Threads == 0 .. Count - 1

ASSUME AcceptorsAssumption ==
  /\ Count \in Nat \ {0}
  /\ Wrap \in Nat \ {0} /\ Wrap % Count = 0
  /\ FirstIndex \in 0 .. Wrap - 1
  /\ Info \in BOOLEAN
  /\ None \notin Conns

vars == << client, backlog, accepting, nextIndex, thread, started, process >>

TypeOK ==
  /\ client \in [Conns -> {"new", "open", "rst"}]
  /\ backlog \in Seq(Conns)
  /\ accepting \in Threads \cup {None}
  /\ nextIndex \in 0 .. Wrap - 1
  /\ thread \in [Conns -> Threads \cup {None}]
  /\ started \in [Threads -> Nat]
  /\ process \in {"created", "running", "terminated"}

Init ==
  /\ client = [c \in Conns |-> "new"]
  /\ backlog = << >>
  /\ accepting = None
  /\ nextIndex = FirstIndex
  /\ thread = [c \in Conns |-> None]
  /\ started = [t \in Threads |-> 0]
  /\ process = "created"

-----------------------------------------------------------------------------
(* Mutants: two calls in a row get the same; the index is not reduced.     *)
getPairs == accepting' = (nextIndex \div 2) % Count /\ nextIndex' = (nextIndex + 1) % Wrap
getUnreduced == accepting' = nextIndex /\ nextIndex' = (nextIndex + 1) % Wrap

(* A socket for the io_service whose turn it is, and its accept.           *)
get == accepting' = nextIndex % Count /\ nextIndex' = (nextIndex + 1) % Wrap

start ==
  /\ process = "created" /\ process' = "running"
  /\ get
  /\ UNCHANGED << client, backlog, thread, started >>

(* The process ends with every session, by an exception that nothing       *)
(* catches or because main() returns.                                      *)
Terminates ==
  /\ process' = "terminated"
  /\ accepting' = None
  /\ thread' = [c \in Conns |-> None]

(* Mutant: a connection that is gone when it is accepted gets no session.  *)
handleAcceptDrops ==
  /\ process = "running" /\ accepting # None /\ backlog # << >>
  /\ LET c == Head(backlog) IN
     IF client[c] = "rst"
     THEN UNCHANGED << thread, started, accepting, nextIndex >>
     ELSE /\ thread' = [thread EXCEPT ![c] = accepting]
          /\ started' = [started EXCEPT ![accepting] = @ + 1]
          /\ get
  /\ backlog' = Tail(backlog)
  /\ UNCHANGED << client, process >>

(* The log line asks for the address of the client, which throws if the    *)
(* connection was reset meanwhile.  The session is started on its thread.  *)
handleAccept ==
  /\ process = "running" /\ accepting # None /\ backlog # << >>
  /\ backlog' = Tail(backlog)
  /\ LET c == Head(backlog) IN
     \/ /\ Info /\ client[c] = "rst"
        /\ Terminates
        /\ UNCHANGED << started, nextIndex >>
     \/ /\ ~ (Info /\ client[c] = "rst")
        /\ thread' = [thread EXCEPT ![c] = accepting]
        /\ started' = [started EXCEPT ![accepting] = @ + 1]
        /\ get
        /\ UNCHANGED process
  /\ UNCHANGED client

(* Accepting fails, for one because no file descriptor is left.  The       *)
(* handler returns and accepts no more; service_ then has no work, its     *)
(* run() returns, and main() with it.                                      *)
handleAcceptError ==
  /\ process = "running" /\ accepting # None /\ backlog # << >>
  /\ Terminates
  /\ UNCHANGED << client, backlog, nextIndex, started >>

SessionEnds(c) ==
  /\ thread[c] # None
  /\ thread' = [thread EXCEPT ![c] = None]
  /\ UNCHANGED << client, backlog, accepting, nextIndex, started, process >>

SessionThrows(c) ==
  /\ thread[c] # None
  /\ Terminates
  /\ UNCHANGED << client, backlog, nextIndex, started >>

Connects(c) ==
  /\ process = "running" /\ client[c] = "new"
  /\ client' = [client EXCEPT ![c] = "open"]
  /\ backlog' = Append(backlog, c)
  /\ UNCHANGED << accepting, nextIndex, thread, started, process >>

Resets(c) ==
  /\ client[c] = "open"
  /\ client' = [client EXCEPT ![c] = "rst"]
  /\ UNCHANGED << backlog, accepting, nextIndex, thread, started, process >>

Next ==
  \/ start \/ handleAccept \/ handleAcceptError
  \/ \E c \in Conns : Connects(c) \/ Resets(c) \/ SessionEnds(c) \/ SessionThrows(c)

Spec == Init /\ [][Next]_vars

FairSpec == Spec /\ WF_vars(start) /\ WF_vars(handleAccept)

-----------------------------------------------------------------------------
(* The threads take turns, over the wrap of the index as well: no thread   *)
(* has more than one session more than another, and the next goes to one   *)
(* that has the fewest.                                                    *)
Balanced ==
  \A t, u \in Threads :
    /\ started[t] - started[u] <= 1
    /\ accepting = t => started[t] <= started[u]

(* Every connection that waits to be accepted gets its session, in spite   *)
(* of clients that come and go, unless the process ends.                   *)
Heard ==
  \A c \in Conns :
    (\E i \in 1 .. Len(backlog) : backlog[i] = c)
      ~> (thread[c] # None \/ process = "terminated")
=============================================================================
