------------------------------ MODULE Packages ------------------------------
(* ProxyMsgPkg: how the programs make their messages, and what they check. *)
EXTENDS Messages

ServerCmd == W(1280)
SubCmd1 == W(1)  \* connect
SubCmd2 == W(2)  \* data

(* createDefaultParams() with the number that the static seq yields, and   *)
(* the random padding.                                                     *)
createDefaultParams(m, number, padding) ==
  LET numbered == IF Has(m, "seq") THEN m ELSE Set(m, "seq", number)
      sum == IF Has(m, "body") THEN calculate(m.body) ELSE W(0) IN
  Set(Set(numbered, "check_sum", sum), "place_holder", padding)

(* Mutant: a response gets a number of its own.                            *)
createCommonRspRenumbered(req, body, errcode, number, padding) ==
  createDefaultParams(
    [cmd |-> Number(req, "cmd"), subcmd |-> Number(req, "subcmd"), body |-> body, err_code |-> errcode],
    number, padding)

createConnectReq(type, host, port, user, pwd, number, padding) ==
  LET req == [address |-> host, port |-> port, type |-> type, username |-> user, password |-> pwd] IN
  createDefaultParams(
    [cmd |-> ServerCmd, subcmd |-> SubCmd1, body |-> ProxyConnectReqSerialize(req), err_code |-> W(0)],
    number, padding)

createDataPkg(data, number, padding) ==
  createDefaultParams(
    [cmd |-> ServerCmd, subcmd |-> SubCmd2, body |-> data, err_code |-> W(0)], number, padding)

createCommonRsp(req, body, errcode, number, padding) ==
  createDefaultParams(
    [cmd |-> Number(req, "cmd"), subcmd |-> Number(req, "subcmd"), seq |-> Number(req, "seq"),
     body |-> body, err_code |-> errcode],
    number, padding)

(* What is wrong with a message, and the message.                          *)
Checked(parsed) ==
  [result |->
     CASE ~ parsed.ok -> "PROXY_PB_FAIL"
       [] parsed.ok /\ Number(parsed.msg, "err_code") # W(0) -> "PROXY_ERRCODE_NOT_ZERO"
       [] parsed.ok /\ Number(parsed.msg, "err_code") = W(0)
            /\ String(parsed.msg, "body") = << >> -> "PROXY_BODY_EMPTY"
       [] OTHER -> IF calculate(String(parsed.msg, "body")) = Number(parsed.msg, "check_sum")
                   THEN "PROXY_PARSE_OK" ELSE "PROXY_CHECK_SUM_ERR",
   package |-> parsed.msg]

parseAndCheck(data) == Checked(Parsed(ProxyMsgMerge(data), {"err_code"}))
=============================================================================
