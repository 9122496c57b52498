------------------------------ MODULE Settings -------------------------------
(***************************************************************************)
(* How both programs come to their Setting: the options of the command     *)
(* line or a file of settings (initSetting of local.cpp and remote.cpp,    *)
(* Setting::loadConfig), the random strings they fall back to and what     *)
(* ends them on the way.                                                   *)
(*                                                                         *)
(* A command line is a function from the options given to their texts.     *)
(* The text of a number is the set of that number, empty if it is none.    *)
(* The text of an address is what stands before its colon, the number      *)
(* behind it, and whether there is a colon: without one both are the whole *)
(* text, and the program goes on with them, because pos, of 32 bits, never *)
(* equals the npos of a 64-bit build.                                      *)
(***************************************************************************)
EXTENDS Codec, Integers

CONSTANTS
  Rand(_, _),  \* the numbers rand() yields: from a seed, the i-th
  Files,       \* the JSON files that can be read, by name
  Paddings     \* random strings

Port16 == 65536

-----------------------------------------------------------------------------
(* RandomUtils.  Strings made while the sessions run are any strings.      *)
randInt(min, max) == min .. max - 1
randString(length) == { p \in Paddings : Len(p) = length }

Letters(from, to) == [i \in 1 .. to - from + 1 |-> from + i - 1]
visible ==
  Letters(97, 108) \o << 110, 109 >> \o Letters(111, 122)
    \o Letters(65, 90) \o Letters(49, 57) \o << 48 >>

(* A string of visible characters, begun when rand() was called at times.  *)
randStringVisible(seed, at, length) ==
  [i \in 1 .. length |-> visible[(Rand(seed, at + i) % Len(visible)) + 1]]

-----------------------------------------------------------------------------
(* What has been read so far: a Setting, or how the program ended.         *)
Ended(how) == [st |-> how]
Read(setting) == [st |-> "read", setting |-> setting]

Given(line, option, default) == IF option \in DOMAIN line THEN line[option] ELSE default

Address(host, port) == [host |-> host, port |-> {port}, colon |-> TRUE]
NoAddress(text) == [host |-> text, port |-> {}, colon |-> FALSE]

LocalOptions == {"setting", "method", "server_addr", "local_addr", "key", "user",
                 "password", "log_level", "frame", "thread"}
RemoteOptions == (LocalOptions \ {"user", "password"}) \cup {"user_list"}

(* Parsing ends the program at an option it does not know, or knows twice, *)
(* as the short option s; a number that is none is an exception that       *)
(* nobody catches.                                                         *)
Parses(line, options) == DOMAIN line \subseteq options
Converts(line) == \A option \in DOMAIN line \cap {"log_level", "thread"} : line[option] # {}

Test == << 116, 101, 115, 116 >>     \* "test"
Digits == << 49, 50, 51, 52, 53 >>   \* "12345"

(* A Setting nothing was read into: a global, so all numbers are zero.     *)
Unset ==
  [threadCount |-> 0, localBindAddr |-> "", localListenPort |-> 0,
   serverBindAddr |-> "", serverListenPort |-> 0, encryptMethod |-> "", frame |-> "",
   key |-> << >>, user |-> << >>, password |-> << >>, logLv |-> 0]

(* loadConfig(): what a file leaves out has a default; a file that cannot  *)
(* be read leaves the setting as it is, and its callers go on all the same.*)
(* (tun_remote has no user and password of its own.)                       *)
loadConfig(name) ==
  LET file == Files[name]
      Get(field, default) == Given(file, field, default) IN
  IF name \notin DOMAIN Files THEN Unset
  ELSE [threadCount |-> Get("threads", 1),
        localBindAddr |-> Get("local_bind", "127.0.0.1"),
        localListenPort |-> Get("local_port", 2333),
        serverBindAddr |-> Get("server_bind", "127.0.0.1"),
        serverListenPort |-> Get("server_port", 8000),
        encryptMethod |-> Get("method", "xor"), frame |-> Get("frame", "fix"),
        key |-> Get("key", Digits), user |-> Get("user", Digits),
        password |-> Get("password", Digits), logLv |-> Get("loglv", 0)]

(* Mutant: server_addr is forgotten.                                       *)
BindAddressDefault(line) == Given(line, "local_addr", Address("0.0.0.0", 8000))

(* local_addr is read into the server's address as well, behind it, and    *)
(* the local one is only set where local_addr is not given.                *)
BindAddress(line) ==
  Given(line, "local_addr", Given(line, "server_addr", Address("0.0.0.0", 8000)))
LocalAddress(line) ==
  IF "local_addr" \in DOMAIN line THEN Address("", 0) ELSE Address("127.0.0.1", 8000)

(* Every address given has to have its number.                             *)
AddressesConvert(line) ==
  \A option \in DOMAIN line \cap {"server_addr", "local_addr"} : line[option].port # {}

(* The options behind the setting file; key is the random string.          *)
fromOptions(line, key) ==
  LET The(number) == CHOOSE n \in number : TRUE IN
  [threadCount |-> The(Given(line, "thread", {4})),
   localBindAddr |-> LocalAddress(line).host, localListenPort |-> The(LocalAddress(line).port),
   serverBindAddr |-> BindAddress(line).host, serverListenPort |-> The(BindAddress(line).port),
   encryptMethod |-> Given(line, "method", "none"), frame |-> Given(line, "frame", "fix"),
   key |-> Given(line, "key", key),
   user |-> Given(line, "user", Test), password |-> Given(line, "password", Test),
   logLv |-> The(Given(line, "log_level", {0}))]

settingOf(line, key) ==
  CASE "setting" \in DOMAIN line -> Read(loadConfig(line["setting"]))
    [] "setting" \notin DOMAIN line /\ AddressesConvert(line) -> Read(fromOptions(line, key))
    [] OTHER -> Ended("died")

-----------------------------------------------------------------------------
(* initSetting() of tun_local.                                             *)
localSetting(line, seed) ==
  CASE ~ Parses(line, LocalOptions) -> Ended("exit3")
    [] Parses(line, LocalOptions) /\ ~ Converts(line) -> Ended("died")
    [] OTHER -> settingOf(line, randStringVisible(seed, 0, 8))

(* The users of tun_remote: those of the list, the first of a name, or one *)
(* with a random name and a random password, drawn in either order.        *)
Listed(list) ==
  [user \in { list[i].user : i \in DOMAIN list } |->
     list[SelectInSeq(list, LAMBDA item : item.user = user)].pwd]

IsUserList(name) ==
  /\ name \in DOMAIN Files
  /\ "users" \in DOMAIN Files[name]
  /\ \A i \in DOMAIN Files[name].users : {"user", "pwd"} \subseteq DOMAIN Files[name].users[i]

RandomUser(seed, first) ==
  [user \in {randStringVisible(seed, IF first THEN 0 ELSE 6, 6)} |->
     randStringVisible(seed, IF first THEN 6 ELSE 0, 6)]

usersOf(line, seed, first) ==
  IF "user_list" \in DOMAIN line THEN Listed(Files[line["user_list"]].users)
  ELSE RandomUser(seed, first)

(* initSetting() of tun_remote.                                            *)
remoteSetting(line, seed) ==
  LET drawn == IF "user_list" \in DOMAIN line THEN 0 ELSE 12 IN
  CASE ~ Parses(line, RemoteOptions) -> Ended("exit3")
    [] Parses(line, RemoteOptions) /\ ~ Converts(line) -> Ended("died")
    [] OTHER ->
         IF "user_list" \in DOMAIN line /\ ~ IsUserList(line["user_list"]) THEN Ended("exit3")
         ELSE settingOf(line, randStringVisible(seed, drawn, 8))

-----------------------------------------------------------------------------
(* Mutant: a level out of range stays.                                     *)
initLogUnchecked(lv) == lv

(* initLog(): LOG_LV is unsigned, LOG_ERROR is 3 and LOG_LAST 4.           *)
initLog(lv) == IF lv < 0 \/ lv >= 4 THEN 3 ELSE lv

(* What FrameFacade::init() registers, for addFrame() to find.             *)
headers == {"http_client", "http_server", "fix"}

(* initLogger, initCodec and initFrame of a program that read its setting. *)
(* Only chacha20 reads what lies behind a key, and only behind a short one.*)
inits(result, behind) ==
  LET key == result.setting.key
      method == result.setting.encryptMethod
      beyond == IF method = "chacha20" /\ Len(key) < 32 THEN behind ELSE << >>
      codec == addCodec(init(key, beyond), method) IN
  CASE result.st # "read" -> result
    [] result.st = "read" /\ codec.list = << >> -> Ended("exit1")
    [] result.st = "read" /\ codec.list # << >> /\ result.setting.frame \notin headers -> Ended("exit2")
    [] OTHER -> [st |-> "running", setting |-> result.setting, codec |-> codec,
                 logLv |-> initLog(result.setting.logLv)]
=============================================================================
