------------------------------ MODULE Messages ------------------------------
(***************************************************************************)
(* The messages of the link as protobuf writes and reads them              *)
(* (ProxyMsg.pb.cc), and ProxyMsgPkg, which makes and checks them.         *)
(*                                                                         *)
(* A message is a function on the names of the fields that are set; the    *)
(* number of a uint32 is a word, bytes and strings are sequences of bytes. *)
(* Unknown fields are skipped: no program writes any.                      *)
(***************************************************************************)
EXTENDS Checksum

-----------------------------------------------------------------------------
(* Varints and lengths.                                                    *)
Groups(w) ==
  << w[2] % 128, (w[2] \div 128) % 128, (w[2] \div 16384) + 4 * (w[1] % 32),
     (w[1] \div 32) % 128, w[1] \div 4096 >>

Varint(w) ==
  LET g == Groups(w)
      n == CHOOSE i \in 1 .. 5 : (i = 1 \/ g[i] # 0) /\ \A j \in i + 1 .. 5 : g[j] = 0 IN
  [i \in 1 .. n |-> IF i < n THEN g[i] + 128 ELSE g[i]]

(* How many bytes a number takes.                                          *)
UInt32Size(w) ==
  CASE w[1] = 0 /\ w[2] < 128 -> 1
    [] w[1] = 0 /\ w[2] >= 128 /\ w[2] < 16384 -> 2
    [] w[1] < 32 /\ (w[1] > 0 \/ w[2] >= 16384) -> 3
    [] w[1] >= 32 /\ w[1] < 4096 -> 4
    [] w[1] >= 4096 -> 5

(* Mutant: the fifth group of a varint is dropped.                         *)
ReadVarint28(b, i) ==
  LET Ends == { j \in i .. i + 9 : j <= Len(b) /\ b[j] < 128 }
      end == CHOOSE j \in Ends : \A k \in Ends : j <= k
      g == [k \in 1 .. 4 |-> IF i + k - 1 <= end THEN b[i + k - 1] % 128 ELSE 0] IN
  IF Ends = {} THEN [val |-> W(0), behind |-> 0]
  ELSE [val |-> << (g[3] \div 4) + 32 * g[4], g[1] + 128 * g[2] + 16384 * (g[3] % 4) >>,
        behind |-> end + 1]

(* The varint at place i of b, cut down to 32 bits, and the place behind   *)
(* it, which is 0 if b ends inside it or it is longer than ten bytes.      *)
ReadVarint(b, i) ==
  LET Ends == { j \in i .. i + 9 : j <= Len(b) /\ b[j] < 128 }
      end == CHOOSE j \in Ends : \A k \in Ends : j <= k
      g == [k \in 1 .. 5 |-> IF i + k - 1 <= end THEN b[i + k - 1] % 128 ELSE 0] IN
  IF Ends = {} THEN [val |-> W(0), behind |-> 0]
  ELSE [val |-> << (g[3] \div 4) + 32 * g[4] + 4096 * (g[5] % 16),
                   g[1] + 128 * g[2] + 16384 * (g[3] % 4) >>,
        behind |-> end + 1]

(* The length is an int: one whose first bit is set is negative.           *)
ReadBytes(b, i) ==
  LET size == ReadVarint(b, i)
      first == size.behind
      length == Half * size.val[1] + size.val[2] IN
  IF first = 0 \/ size.val[1] >= Half \div 2 \/ length > Len(b) + 1 - first
  THEN [val |-> << >>, behind |-> 0]
  ELSE [val |-> SubSeq(b, first, first + length - 1), behind |-> first + length]

-----------------------------------------------------------------------------
(* A generated class by its table of fields: name, number and whether the  *)
(* field holds bytes (wire type 2) or a number (wire type 0).              *)
Field(name, num, bytes) == [name |-> name, tag |-> num * 8 + (IF bytes THEN 2 ELSE 0), bytes |-> bytes]

Has(m, name) == name \in DOMAIN m
Set(m, name, val) == [x \in DOMAIN m \cup {name} |-> IF x = name THEN val ELSE m[x]]
Number(m, name) == IF Has(m, name) THEN m[name] ELSE W(0)
String(m, name) == IF Has(m, name) THEN m[name] ELSE << >>

Clear == [name \in {} |-> << >>]

Serialized(fields, m) ==
  LET Written(f) ==
        IF ~ Has(m, f.name) THEN << >>
        ELSE << f.tag >> \o (IF f.bytes THEN Varint(W(Len(m[f.name]))) \o m[f.name]
                                        ELSE Varint(m[f.name])) IN
  FlattenSeq([i \in DOMAIN fields |-> Written(fields[i])])

ByteSize(fields, m) ==
  LET Size(f) ==
        IF ~ Has(m, f.name) THEN 0
        ELSE 1 + (IF f.bytes THEN UInt32Size(W(Len(m[f.name]))) + Len(m[f.name])
                             ELSE UInt32Size(m[f.name]))
      total[n \in 0 .. Len(fields)] == IF n = 0 THEN 0 ELSE total[n - 1] + Size(fields[n])
  IN total[Len(fields)]

(* MergePartialFromCodedStream: the message so far, the place behind what  *)
(* was read, and the tags of the groups being skipped, innermost last.  It *)
(* stops at the end of b, at a tag that is zero, unreadable or ends a      *)
(* group it is not in, or fails.                                           *)
Reading(m, at, groups) == [how |-> "reading", msg |-> m, at |-> at, groups |-> groups]

Result(how, m) == [how |-> how, msg |-> m, at |-> 0, groups |-> << >>]

(* Goes on at a place, which is 0 if what is before could not be read.     *)
MergedOn(m, at, groups) == IF at = 0 THEN Result("failed", m) ELSE Reading(m, at, groups)

MergedField(m, name, read) == MergedOn(Set(m, name, read.val), read.behind, << >>)

(* A tag of end of group is that of its beginning, plus one.               *)
EndsGroup(groups, tag) ==
  groups # << >> /\ tag = << Last(groups)[1], Last(groups)[2] + 1 >>

(* The end of all that is being read: of a message, or inside a group.     *)
EndOf(how, s) == Result(IF s.groups = << >> THEN how ELSE "failed", s.msg)

(* The place behind an unknown field, 0 if it cannot be skipped.           *)
Skipped(b, tag, i) ==
  CASE tag[2] % 8 = 0 -> ReadVarint(b, i).behind
    [] tag[2] % 8 = 1 /\ i + 8 <= Len(b) + 1 -> i + 8
    [] tag[2] % 8 = 2 -> ReadBytes(b, i).behind
    [] tag[2] % 8 = 5 /\ i + 4 <= Len(b) + 1 -> i + 4
    [] OTHER -> 0

MergedUnknown(s, b, tag) ==
  IF tag.val[2] % 8 = 3 THEN Reading(s.msg, tag.behind, Append(s.groups, tag.val))
  ELSE MergedOn(s.msg, Skipped(b, tag.val, tag.behind), s.groups)

MergedTag(s, b, tag, known) ==
  IF tag.behind = 0 \/ tag.val = W(0) THEN EndOf("stopped", s)
  ELSE IF EndsGroup(s.groups, tag.val) THEN Reading(s.msg, tag.behind, Front(s.groups))
  ELSE IF tag.val[2] % 8 = 4 THEN EndOf("stopped", s)
  ELSE IF known = {} \/ s.groups # << >> THEN MergedUnknown(s, b, tag)
  ELSE LET field == CHOOSE f \in known : TRUE IN
       MergedField(s.msg, field.name, IF field.bytes THEN ReadBytes(b, tag.behind)
                                                     ELSE ReadVarint(b, tag.behind))

MergedAt(fields, s, b) ==
  IF s.how # "reading" THEN s
  ELSE IF s.at > Len(b) THEN EndOf("ended", s)
  ELSE LET tag == ReadVarint(b, s.at) IN
       MergedTag(s, b, tag, { f \in Range(fields) : tag.val = W(f.tag) })

(* Every step takes a byte at least, or is the last one.                   *)
Merged(fields, m, b) ==
  LET after[n \in 0 .. Len(b) + 1] ==
        IF n = 0 THEN Reading(m, 1, << >>) ELSE MergedAt(fields, after[n - 1], b)
  IN after[Len(b) + 1]

(* ParseFromString: all of the data is taken, and what is required is set. *)
Parsed(result, required) ==
  [ok |-> result.how = "ended" /\ required \subseteq DOMAIN result.msg, msg |-> result.msg]

-----------------------------------------------------------------------------
(* message ProxyMsg.                                                       *)
ProxyMsgFields ==
  << Field("place_holder", 1, TRUE), Field("check_sum", 2, FALSE), Field("cmd", 3, FALSE),
     Field("subcmd", 4, FALSE), Field("seq", 5, FALSE), Field("err_code", 6, FALSE),
     Field("body", 10, TRUE) >>

ProxyMsgClear == Clear
ProxyMsgMerge(b) == Merged(ProxyMsgFields, ProxyMsgClear, b)
ProxyMsgSerialize(m) == Serialized(ProxyMsgFields, m)
ProxyMsgByteSize(m) == ByteSize(ProxyMsgFields, m)

(* message ProxyConnectReq.                                                *)
ProxyConnectReqFields ==
  << Field("type", 1, FALSE), Field("address", 2, TRUE), Field("port", 3, FALSE),
     Field("username", 4, TRUE), Field("password", 5, TRUE) >>

ProxyConnectReqClear == Clear
ProxyConnectReqMerge(b) == Merged(ProxyConnectReqFields, ProxyConnectReqClear, b)
ProxyConnectReqSerialize(m) == Serialized(ProxyConnectReqFields, m)
ProxyConnectReqByteSize(m) == ByteSize(ProxyConnectReqFields, m)

(* message ProxyConnectRsp.                                                *)
ProxyConnectRspFields == << Field("result", 1, FALSE) >>

ProxyConnectRspClear == Clear
ProxyConnectRspMerge(b) == Merged(ProxyConnectRspFields, ProxyConnectRspClear, b)
ProxyConnectRspSerialize(m) == Serialized(ProxyConnectRspFields, m)
ProxyConnectRspByteSize(m) == ByteSize(ProxyConnectRspFields, m)
=============================================================================
