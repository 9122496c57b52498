------------------------------ MODULE MCSockv5 ------------------------------
(* Values for TLC: bytes of four bits, so a signed char goes from -8 to 7. *)
EXTENDS Sockv5

Half == B \div 2
Ones(n) == [i \in 1 .. n |-> 1]
Greeting(n) == [ver |-> 5, methods |-> IF n = 0 THEN << >> ELSE [Ones(n) EXCEPT ![n] = 0]]
Host(n) == [cmd |-> 1, type |-> 3, address |-> Ones(n), port |-> B + 2]
Ipv4 == [cmd |-> 1, type |-> 1, address |-> << 1, 2, 3, 4 >>, port |-> B + 2]
Ipv6 == [cmd |-> 1, type |-> 4, address |-> Ones(14) \o << 2, 3 >>, port |-> 1]
Unknown == [cmd |-> 1, type |-> 2, address |-> << 1, 2 >>, port |-> 3]
Bind == [Host(1) EXCEPT !.cmd = 2]

MCGreetings == { Greeting(n) : n \in {0, 1, 2, Half - 1, Half, B - 1} }
               \cup { [Greeting(1) EXCEPT !.ver = 4], [Greeting(2) EXCEPT !.methods = << 1, 2 >>] }
MCRequests == { Host(n) : n \in {0, 1, Half - 1, Half, B - 2, B - 1} }
              \cup { Bind, Ipv4, Ipv6, Unknown }
MCGarbage == { 0, B }
=============================================================================
