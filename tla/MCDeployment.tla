---------------------------- MODULE MCDeployment -----------------------------
(* Values for TLC: pairs of command lines, one for each thing that the two *)
(* programs may or may not have in common.                                 *)
EXTENDS Deployment, TLC

MCRand(seed, i) == (seed * 7919 + i * 104729 + seed * i * 31) % 32768

User == << 115 >>
Password == << 112, 119 >>
Short == << 107 >>
Other == << 7, 107 >>
Long(c) == [i \in 1 .. 32 |-> c + i]

(* Their first 32 bytes are the same, and their length.                    *)
LongWith(c) == Append(Long(64), c)

(* The sum of these two bytes for reverse is 513, of Short 107, of Other   *)
(* 324, of << 200 >> 200.                                                  *)
One == << 16, 17 >>

MCPaddings == { << 10, 200 >> }
MCMemories == { [i \in 1 .. 31 |-> c] : c \in {0, 9} }
MCData == [i \in 1 .. 70 |-> (i * 37) % 256]

MCFiles ==
  "users.json" :> [users |-> << [user |-> User, pwd |-> Password], [user |-> Test, pwd |-> Test],
                                [user |-> User, pwd |-> Test] >>]
  @@ "nopwd.json" :> [users |-> << [user |-> User] >>]
  @@ "default.json" :> [threads |-> 2]
  @@ "local.json" :> [local_port |-> 1080, server_port |-> 7000, method |-> "rc4", key |-> Short,
                      user |-> User, password |-> Password, loglv |-> 9]
  @@ "digits.json" :> [users |-> << [user |-> Digits, pwd |-> Digits] >>]

At(port) == Address("127.0.0.1", port)

(* The common options of both, and those of each.                          *)
Local(both) ==
  both @@ [user |-> User, password |-> Password, server_addr |-> At(7000)]
Remote(both) ==
  both @@ [user_list |-> "users.json", server_addr |-> At(7000)]

(* The texts of addresses: of four bytes, and of sixteen without a group   *)
(* of zeros, which have one to three and one to four digits in a group.    *)
Figure(n) == IF n < 10 THEN 48 + n ELSE 87 + n
Numeral(base, n) ==
  LET digits[i \in 0 .. n] ==
        IF i < base THEN << Figure(i) >> ELSE digits[i \div base] \o << Figure(i % base) >> IN
  digits[n]
Joined(groups, mark) ==
  LET joined[n \in 1 .. Len(groups)] ==
        IF n = 1 THEN groups[1] ELSE joined[n - 1] \o << mark >> \o groups[n] IN
  joined[Len(groups)]

MCToString(bytes) ==
  IF Len(bytes) = 4 THEN Joined([i \in 1 .. 4 |-> Numeral(10, bytes[i])], 46)
  ELSE Joined([i \in 1 .. 8 |-> Numeral(16, 256 * bytes[2 * i - 1] + bytes[2 * i])], 58)

Host == [type |-> 3, host |-> << 104, 111 >>, port |-> 80]
Ip == [type |-> 1, host |-> << 10, 2, 3, 204 >>, port |-> 443]
Ip6 == [type |-> 4, host |-> << 32, 1, 13, 184 >> \o [i \in 1 .. 12 |-> 16 * i], port |-> 443]
Unknown == [type |-> 2, host |-> << >>, port |-> 0]

Pair(l, r) == [local |-> l, remote |-> r, asks |-> << Host >>]
Same(both) == Pair(Local(both), Remote(both))
Options == [method |-> "rc4", key |-> Short]

MCDeployments ==
  { Same([method |-> m, key |-> k, frame |-> "http_client", log_level |-> {3}]) :
      m \in {"rc4", "chacha20", "reverse"}, k \in {<< 9 >>, Long(64)} }
  \cup { Pair(Local([method |-> m, key |-> Short]), Remote([method |-> n, key |-> Other])) :
           m \in {"xor", "rc4", "reverse"}, n \in {"none", "rc4"} }
  \cup { Same([method |-> "chacha20", key |-> Long(64)] @@ [frame |-> f]) : f \in {"fix", "tcp"} }
  \cup { Pair(Local(Options @@ [frame |-> f]), Remote(Options @@ [frame |-> g])) :
           f \in {"fix", "http_server"}, g \in {"http_client", "fix"} }
  \cup { Pair(Local(Options), [Remote(Options) EXCEPT !.server_addr = a]) :
           a \in { At(8000), At(72536), Address("nowhere", 7000), NoAddress("127.0.0.1") } }
  \cup { Pair([Local(Options) EXCEPT !.password = p, !.server_addr = a], Remote(Options)) :
           p \in {Password, Test}, a \in {At(7000), Address("nowhere", 7000)} }
  \cup { Pair(l, Remote(Options)) :
           l \in { [setting |-> "local.json"], [setting |-> "missing.json"], [s |-> "local.json"],
                   Local(Options @@ [thread |-> {}]), Local(Options @@ [local_addr |-> At(1080)]),
                   Local(Options @@ [log_level |-> {-1}]) } }
  \cup { Pair(Local(Options), r) :
           r \in { [Remote(Options) EXCEPT !.user_list = u] : u \in {"missing.json", "nopwd.json"} }
                 \cup { Remote(Options @@ [local_addr |-> At(7001)]),
                        Remote(Options @@ [user |-> User]), Options @@ [thread |-> {2}] } }
  \cup { Pair([setting |-> "default.json"],
              [setting |-> "default.json", user_list |-> "digits.json"]),
         Pair([user |-> User], [user_list |-> "users.json"]),
         Pair([user |-> Test, setting |-> "local.json"], [key |-> Short]),
         [Same(Options) EXCEPT !.asks = << Unknown >>],
         [Same([method |-> "xor"]) EXCEPT !.asks = << Host, Ip >>],
         [Same([method |-> "none"]) EXCEPT !.asks = << Ip6, Host >>] }
  \cup { Pair(Local([method |-> "reverse", key |-> k]), Remote([method |-> "reverse", key |-> Other])) :
           k \in {<< 50 >>, << 200 >>} }
  \cup { Pair(Local([method |-> "chacha20", key |-> LongWith(1)]), Remote([method |-> "chacha20", key |-> k])) :
           k \in {LongWith(2), Long(64), [LongWith(1) EXCEPT ![1] = 0]} }
  \cup { Pair(Local([method |-> "rc4", key |-> Short]), Remote([method |-> "rc4", key |-> Short \o Short])),
         Pair(Local([method |-> "reverse", key |-> One]), Remote([method |-> "none", key |-> Short])) }

(* A browser that asks for an IPv4 address, with nothing else in the way.  *)
MCIpv4 == { [Same([method |-> "none"]) EXCEPT !.asks = << Ip >>] }
=============================================================================
