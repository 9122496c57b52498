-------------------------- MODULE AcceptorsProofs ---------------------------
(***************************************************************************)
(* Theorems about Acceptors for every number of threads that divides the   *)
(* width of the index, and any number of connections.                      *)
(*                                                                         *)
(* Balanced says nothing of who is next once accepting has stopped, nor of *)
(* the index.  The invariant does: going round from the thread that was    *)
(* first, those before the one whose turn it is have one session more than *)
(* the others, and the index stands for the one behind it.                 *)
(***************************************************************************)
EXTENDS Acceptors, TLAPS

Succ(t) == IF t + 1 = Count THEN 0 ELSE t + 1

(* Does the round that started with First reach t before turn?             *)
First == FirstIndex % Count
Before(t, turn) ==
  IF First <= turn THEN First <= t /\ t < turn ELSE First <= t \/ t < turn

Round(turn, b) ==
  \A t \in Threads : started[t] = IF Before(t, turn) THEN b + 1 ELSE b

Turns ==
  \E turn \in Threads, b \in Nat :
    /\ Round(turn, b)
    /\ accepting # None => accepting = turn /\ nextIndex % Count = Succ(turn)
    /\ process = "created" => turn = First /\ nextIndex = FirstIndex

Inv == TypeOK /\ Turns

-----------------------------------------------------------------------------
(* Arithmetic.                                                             *)

(* Division with remainder is unique.                                      *)
LEMMA Remainder ==
  \A n \in Nat \ {0}, q \in Int : \A r \in 0 .. n - 1 : (q * n + r) % n = r
<1> SUFFICES ASSUME NEW n \in Nat \ {0}, NEW q \in Int, NEW r \in 0 .. n - 1
             PROVE  (q * n + r) % n = r
  OBVIOUS
<1> DEFINE x == q * n + r
          p == x \div n
          s == x % n
<1>1. x \in Int /\ p \in Int /\ s \in 0 .. n - 1 /\ x = p * n + s
  BY SMT
<1>2. (q - p) * n = s - r
  BY <1>1, SMT
<1>3. q = p
  <2>1. CASE q >= p + 1
    <3>1. (q - p) * n >= n
      BY <1>1, <2>1, SMT
    <3> QED  BY <3>1, <1>1, <1>2, SMT
  <2>2. CASE q <= p - 1
    <3>1. (p - q) * n >= n
      BY <1>1, <2>2, SMT
    <3>2. (p - q) * n = r - s
      BY <1>1, <1>2, SMT
    <3> QED  BY <3>1, <3>2, <1>1, SMT
  <2> QED  BY <1>1, <2>1, <2>2, SMT
<1> QED  BY <1>1, <1>3, SMT

(* A multiple of n by its quotient.                                        *)
LEMMA Quotient ==
  ASSUME NEW n \in Nat \ {0}, NEW x \in Int
  PROVE  x % n \in 0 .. n - 1 /\ \E q \in Int : x = q * n + (x % n)
<1>1. x \div n \in Int /\ x % n \in 0 .. n - 1 /\ x = (x \div n) * n + (x % n)
  BY SMT
<1> QED  BY <1>1

(* The next index stands for the next thread, also where it wraps: Count   *)
(* divides Wrap.                                                           *)
LEMMA NextThread ==
  ASSUME NEW i \in 0 .. Wrap - 1
  PROVE  /\ i % Count \in Threads
         /\ (i + 1) % Wrap \in 0 .. Wrap - 1
         /\ ((i + 1) % Wrap) % Count = Succ(i % Count)
<1>0. /\ Count \in Nat \ {0} /\ Wrap \in Nat \ {0} /\ Wrap % Count = 0
      /\ i \in Int /\ Wrap \in Int
  BY AcceptorsAssumption, SMT
<1> DEFINE r == i % Count
<1>1. PICK q \in Int : r \in 0 .. Count - 1 /\ i = q * Count + r
  <2>1. i % Count \in 0 .. Count - 1 /\ \E q \in Int : i = q * Count + (i % Count)
    BY <1>0, Quotient
  <2> QED  BY <2>1
<1> HIDE DEF r
<1>2. PICK w \in Int : Wrap = w * Count
  <2>1. \E w \in Int : Wrap = w * Count + (Wrap % Count)
    BY <1>0, Quotient
  <2> QED  BY <2>1, <1>0, SMT
<1>3. (i + 1) % Wrap = IF i + 1 = Wrap THEN 0 ELSE i + 1
  <2>1. CASE i + 1 = Wrap
    <3>1. i + 1 = 1 * Wrap + 0 /\ 0 \in 0 .. Wrap - 1 /\ 1 \in Int
      BY <2>1, <1>0, SMT
    <3>2. (1 * Wrap + 0) % Wrap = 0
      BY <3>1, <1>0, Remainder, Zenon
    <3> QED  BY <3>1, <3>2, <2>1, Zenon
  <2>2. CASE i + 1 # Wrap
    <3>1. i + 1 = 0 * Wrap + (i + 1) /\ i + 1 \in 0 .. Wrap - 1 /\ 0 \in Int
      BY <2>2, <1>0, SMT
    <3>2. (0 * Wrap + (i + 1)) % Wrap = i + 1
      BY <3>1, <1>0, Remainder, Zenon
    <3> QED  BY <3>1, <3>2, <2>2, Zenon
  <2> QED  BY <2>1, <2>2
<1>4. (i + 1) % Count = Succ(r)
  <2>1. CASE r + 1 = Count
    <3>1. i + 1 = (q + 1) * Count + 0 /\ 0 \in 0 .. Count - 1 /\ q + 1 \in Int
      BY <2>1, <1>1, <1>0, SMT
    <3>2. ((q + 1) * Count + 0) % Count = 0
      BY <3>1, <1>0, Remainder, Zenon
    <3> QED  BY <3>1, <3>2, <2>1, Zenon DEF Succ
  <2>2. CASE r + 1 # Count
    <3>1. i + 1 = q * Count + (r + 1) /\ r + 1 \in 0 .. Count - 1
      BY <2>2, <1>1, <1>0, SMT
    <3>2. (q * Count + (r + 1)) % Count = r + 1
      BY <3>1, <1>0, Remainder, Zenon
    <3> QED  BY <3>1, <3>2, <2>2, Zenon DEF Succ
  <2> QED  BY <2>1, <2>2
<1>5. ((i + 1) % Wrap) % Count = Succ(r)
  <2>1. CASE i + 1 = Wrap
    <3>1. i + 1 = w * Count + 0 /\ 0 = 0 * Count + 0
          /\ 0 \in 0 .. Count - 1 /\ 0 \in Int
      BY <2>1, <1>2, <1>0, SMT
    <3>2. (w * Count + 0) % Count = 0 /\ (0 * Count + 0) % Count = 0
      BY <3>1, <1>0, Remainder, Zenon
    <3> QED  BY <3>1, <3>2, <1>3, <1>4, <2>1, Zenon
  <2>2. CASE i + 1 # Wrap
    BY <2>2, <1>3, <1>4, Zenon
  <2> QED  BY <2>1, <2>2
<1>6. (i + 1) % Wrap \in 0 .. Wrap - 1
  BY <1>0, SMT
<1> QED  BY <1>1, <1>5, <1>6 DEF r, Threads

LEMMA FirstThread == First \in Threads
  BY NextThread, AcceptorsAssumption DEF First

LEMMA SuccThread ==
  ASSUME NEW t \in Threads
  PROVE  Succ(t) \in Threads
BY AcceptorsAssumption, SMT DEF Succ, Threads

(* The thread whose turn it is has not had it in this round, and after it  *)
(* it is the only one that had it besides those before; when the next is   *)
(* First, all had it, and a new round begins.                              *)
LEMMA RoundGoesOn ==
  ASSUME NEW turn \in Threads, NEW t \in Threads
  PROVE  /\ ~ Before(turn, turn)
         /\ ~ Before(t, First)
         /\ Succ(turn) # First => (Before(t, Succ(turn)) <=> Before(t, turn) \/ t = turn)
         /\ Succ(turn) = First => Before(t, turn) \/ t = turn
<1>1. /\ Count \in Nat \ {0} /\ First \in Int /\ 0 <= First /\ First < Count
      /\ turn \in Int /\ 0 <= turn /\ turn < Count
      /\ t \in Int /\ 0 <= t /\ t < Count
  BY FirstThread, AcceptorsAssumption, SMT DEF Threads
<1> QED  BY <1>1, SMT DEF Before, Succ

-----------------------------------------------------------------------------
(* The steps.                                                              *)

(* An accept is started for the thread whose turn it is.                   *)
LEMMA GetTakesTurns ==
  ASSUME NEW turn \in Threads, nextIndex \in 0 .. Wrap - 1, nextIndex % Count = turn, get
  PROVE  /\ accepting' = turn /\ accepting' \in Threads
         /\ nextIndex' \in 0 .. Wrap - 1 /\ nextIndex' % Count = Succ(turn)
BY NextThread DEF get

(* Nothing is started, and nothing accepts that did not before.            *)
LEMMA TurnsStay ==
  ASSUME Turns, UNCHANGED << nextIndex, started >>,
         accepting' \in {accepting, None}, process' = "created" => process = "created"
  PROVE  Turns'
<1>1. PICK turn \in Threads, b \in Nat :
        /\ Round(turn, b)
        /\ accepting # None => accepting = turn /\ nextIndex % Count = Succ(turn)
        /\ process = "created" => turn = First /\ nextIndex = FirstIndex
  BY DEF Turns
<1>2. Round(turn, b)'
  BY <1>1 DEF Round
<1> QED  BY <1>1, <1>2 DEF Turns

LEMMA InitInv == Init => Inv
<1> SUFFICES ASSUME Init PROVE Inv
  OBVIOUS
<1>1. TypeOK
  BY AcceptorsAssumption, SMT DEF Init, TypeOK, Threads
<1>2. Round(First, 0)
  BY FirstThread, RoundGoesOn DEF Init, Round
<1> QED  BY <1>1, <1>2, FirstThread DEF Init, Inv, Turns

LEMMA StartKeepsInv ==
  ASSUME Inv, start
  PROVE  Inv'
<1>1. PICK b \in Nat : Round(First, b) /\ nextIndex = FirstIndex
  BY DEF Inv, Turns, start
<1>2. /\ accepting' = First /\ accepting' \in Threads
      /\ nextIndex' \in 0 .. Wrap - 1 /\ nextIndex' % Count = Succ(First)
  BY <1>1, GetTakesTurns, FirstThread DEF Inv, TypeOK, start, First
<1>3. TypeOK'
  BY <1>2 DEF Inv, TypeOK, start
<1>4. Round(First, b)'
  BY <1>1 DEF Round, start
<1> QED  BY <1>2, <1>3, <1>4, FirstThread DEF Inv, Turns, start

(* The session of an accepted connection is started, and the next accept.  *)
LEMMA SessionKeepsInv ==
  ASSUME Inv, process = "running", process' = process, accepting # None, get,
         started' = [started EXCEPT ![accepting] = @ + 1]
  PROVE  /\ Turns'
         /\ accepting' \in Threads /\ nextIndex' \in 0 .. Wrap - 1
         /\ started' \in [Threads -> Nat]
<1>1. PICK turn \in Threads, b \in Nat :
        Round(turn, b) /\ accepting = turn /\ nextIndex % Count = Succ(turn)
  BY DEF Inv, Turns
<1>2. /\ accepting' = Succ(turn) /\ accepting' \in Threads
      /\ nextIndex' \in 0 .. Wrap - 1 /\ nextIndex' % Count = Succ(Succ(turn))
  BY <1>1, SuccThread, GetTakesTurns DEF Inv, TypeOK
<1>3. started' \in [Threads -> Nat]
  BY <1>1, SMT DEF Inv, TypeOK
<1>4. \A t \in Threads :
        started'[t] = IF Before(t, turn) \/ t = turn THEN b + 1 ELSE b
  <2> SUFFICES ASSUME NEW t \in Threads
               PROVE  started'[t] = IF Before(t, turn) \/ t = turn THEN b + 1 ELSE b
    OBVIOUS
  <2>1. CASE t = turn
    BY <1>1, <2>1, RoundGoesOn DEF Round, Inv, TypeOK
  <2>2. CASE t # turn
    BY <1>1, <2>2 DEF Round, Inv, TypeOK
  <2> QED  BY <2>1, <2>2
<1>5. \E c \in Nat : Round(Succ(turn), c)'
  <2>1. CASE Succ(turn) = First
    <3>1. \A t \in Threads : started'[t] = b + 1 /\ ~ Before(t, First)
      BY <1>4, <2>1, RoundGoesOn
    <3>2. Round(Succ(turn), b + 1)'
      BY <2>1, <3>1 DEF Round
    <3> QED  BY <3>2
  <2>2. CASE Succ(turn) # First
    <3>1. Round(Succ(turn), b)'
      BY <1>4, <2>2, RoundGoesOn DEF Round
    <3> QED  BY <3>1
  <2> QED  BY <2>1, <2>2
<1>6. Succ(turn) \in Threads
  BY <1>1, SuccThread
<1> QED  BY <1>2, <1>3, <1>5, <1>6 DEF Turns

LEMMA NextKeepsInv == Inv /\ [Next]_vars => Inv'
<1> SUFFICES ASSUME Inv, [Next]_vars PROVE Inv'
  OBVIOUS
<1> USE DEF Inv
<1>1. CASE start
  BY <1>1, StartKeepsInv
<1>2. CASE handleAccept
  <2> DEFINE c == Head(backlog)
  <2>1. c \in Conns /\ backlog' \in Seq(Conns)
    BY <1>2, SMT DEF handleAccept, TypeOK
  <2>2. CASE Terminates /\ UNCHANGED << started, nextIndex >>
    <3>1. Turns'
      BY <2>2, TurnsStay DEF Terminates
    <3> QED  BY <1>2, <2>1, <2>2, <3>1 DEF TypeOK, Terminates, handleAccept
  <2>3. CASE /\ thread' = [thread EXCEPT ![c] = accepting]
             /\ started' = [started EXCEPT ![accepting] = @ + 1]
             /\ get
             /\ UNCHANGED process
    <3>1. /\ Turns'
          /\ accepting' \in Threads /\ nextIndex' \in 0 .. Wrap - 1
          /\ started' \in [Threads -> Nat]
      BY <1>2, <2>3, SessionKeepsInv DEF handleAccept
    <3> QED  BY <1>2, <2>1, <2>3, <3>1 DEF TypeOK, handleAccept
  <2> QED  BY <1>2, <2>2, <2>3 DEF handleAccept
<1>3. CASE handleAcceptError
  <2>1. Turns'
    BY <1>3, TurnsStay DEF handleAcceptError, Terminates
  <2> QED  BY <1>3, <2>1 DEF handleAcceptError, Terminates, TypeOK
<1>4. ASSUME NEW c \in Conns, Connects(c) PROVE Inv'
  <2>1. backlog' \in Seq(Conns)
    BY <1>4, SMT DEF Connects, TypeOK
  <2>2. Turns'
    BY <1>4, TurnsStay DEF Connects
  <2> QED  BY <1>4, <2>1, <2>2 DEF Connects, TypeOK
<1>5. ASSUME NEW c \in Conns, Resets(c) PROVE Inv'
  <2>1. Turns'
    BY <1>5, TurnsStay DEF Resets
  <2> QED  BY <1>5, <2>1 DEF Resets, TypeOK
<1>6. ASSUME NEW c \in Conns, SessionEnds(c) PROVE Inv'
  <2>1. Turns'
    BY <1>6, TurnsStay DEF SessionEnds
  <2> QED  BY <1>6, <2>1 DEF SessionEnds, TypeOK
<1>7. ASSUME NEW c \in Conns, SessionThrows(c) PROVE Inv'
  <2>1. Turns'
    BY <1>7, TurnsStay DEF SessionThrows, Terminates
  <2> QED  BY <1>7, <2>1 DEF SessionThrows, Terminates, TypeOK
<1>8. CASE UNCHANGED vars
  <2>1. Turns'
    BY <1>8, TurnsStay DEF vars
  <2> QED  BY <1>8, <2>1 DEF vars, TypeOK
<1> QED  BY <1>1, <1>2, <1>3, <1>4, <1>5, <1>6, <1>7, <1>8 DEF Next

(* The invariant of the turns, with the types, for every number of threads *)
(* (IoServicePool::get) that divides the width of nextIndex_.              *)
THEOREM TurnsCorrect == Spec => []Inv
<1>1. Init => Inv
  BY InitInv
<1>2. Inv /\ [Next]_vars => Inv'
  BY NextKeepsInv
<1> QED  BY <1>1, <1>2, PTL DEF Spec

(* Every variable of the accept loop keeps its type: what get() chooses is *)
(* a thread, and nextIndex_ stays within its width.                        *)
THEOREM TypeCorrect == Spec => []TypeOK
<1>1. Inv => TypeOK
  BY DEF Inv
<1> QED  BY <1>1, TurnsCorrect, PTL

(* The threads take turns: none ever has more than one session more than   *)
(* another was given, and the next goes to one that was given the fewest.  *)
THEOREM BalancedHolds == Spec => []Balanced
<1>1. Inv => Balanced
  <2> SUFFICES ASSUME Inv PROVE Balanced
    OBVIOUS
  <2>1. PICK turn \in Threads, b \in Nat :
          Round(turn, b) /\ (accepting # None => accepting = turn)
    BY DEF Inv, Turns
  <2>2. \A t \in Threads : /\ started[t] \in {b, b + 1}
                           /\ accepting = t => started[t] = b
    <3> SUFFICES ASSUME NEW t \in Threads
                 PROVE  /\ started[t] \in {b, b + 1}
                        /\ accepting = t => started[t] = b
      OBVIOUS
    <3>1. started[t] \in {b, b + 1}
      BY <2>1 DEF Round
    <3>2. ~ Before(turn, turn)
      BY <2>1, RoundGoesOn
    <3>3. None \notin Threads
      BY AcceptorsAssumption, SMT DEF None, Threads
    <3> QED  BY <2>1, <3>1, <3>2, <3>3 DEF Round
  <2> QED  BY <2>2, SMT DEF Balanced
<1> QED  BY <1>1, TurnsCorrect, PTL
=============================================================================
