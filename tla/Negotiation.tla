---------------------------- MODULE Negotiation -----------------------------
(***************************************************************************)
(* RFC 2347 option negotiation at both ends: makerequest and parse_oack of  *)
(* tftp/tftp.c, and parse_option and negotiate_options of tftpd/tftpd.c.    *)
(* A request comes from this client or from another one, which may send     *)
(* any options; an OACK comes from this server or from another one, which   *)
(* may send any option pairs.                                               *)
(*                                                                          *)
(* Option values are numbers; BadValue stands for text that is not one.     *)
(* The value of cookie, a string, stands for its length.                    *)
(***************************************************************************)
EXTENDS Integers, Sequences, FiniteSets

CONSTANTS
  MIN_SEGSIZE, SEGSIZE, MAX_SEGSIZE,
  Overhead,        \* IP, UDP and TFTP headers
  Mtu,             \* what the MTU of the path may be
  MIN_TIMEOUT_SEC, MAX_TIMEOUT_SEC, USEC_PER_SEC, MIN_TIMEOUT, DEF_TIMEOUT,
  TFTP_MAX_COOKIE,
  Configs,         \* server configurations
  ClientConfigs,   \* client configurations
  Requests,        \* the option pairs that another client sends
  Replies          \* the option pairs that another server sends

ASSUME NegotiationAssumption ==
  /\ {MIN_SEGSIZE, SEGSIZE, MAX_SEGSIZE, Overhead, TFTP_MAX_COOKIE} \subseteq Nat
  /\ {MIN_TIMEOUT_SEC, MAX_TIMEOUT_SEC, USEC_PER_SEC, MIN_TIMEOUT, DEF_TIMEOUT}
       \subseteq Nat \ {0}
  /\ 1 <= MIN_SEGSIZE /\ MIN_SEGSIZE <= SEGSIZE /\ SEGSIZE <= MAX_SEGSIZE
  /\ MAX_SEGSIZE < 65536
  /\ Mtu \subseteq Nat

NoValue == -1
BadValue == -2

\* protocol_options
OptionSet == {"blksize", "blksize2", "cookie", "rollover", "timeout", "tsize",
              "utimeout", "windowsize"}
NoOptions == [o \in OptionSet |-> NoValue]

\* The options of the command lines, and what another program may send.
ASSUME ConfigAssumption ==
  /\ \A c \in Configs :
       /\ c.blksize \in Int /\ {c.max_windowsize, c.max_windowbytes, c.max_upload} \subseteq Nat
       /\ c.fsize \in Nat \cup {NoValue} /\ c.tsize_mode \in {"READ", "WRITE", "NAK"}
       /\ c.reject_all_options \in BOOLEAN
  /\ \A c \in ClientConfigs : c.blksize \in Int /\ c.max_windowsize \in Int
  /\ Requests \subseteq Seq(OptionSet \X (Nat \cup {BadValue}))
  /\ Replies \subseteq Seq((OptionSet \cup STRING) \X (Nat \cup {BadValue}))

VARIABLES
  cfg,         \* the server's configuration
  optreq,      \* what this client asked for
  requester,   \* "nobody", or whose request it is: "this" or "other"
  replier,     \* the same for the OACK
  todo,        \* option pairs of the request not yet parsed
  requested,   \* the value of each option parsed, or NoValue
  granted,     \* the value of each option granted, or NoValue
  segsize, windowsize, rexmtval, rollover, limit,   \* the server's parameters
  oack,        \* the option pairs of the OACK
  optack,      \* the client's parameters
  taken,       \* the options that parse_oack has accepted, in order
  phase

params == <<segsize, windowsize, rexmtval, rollover, limit>>
serverVars == <<requested, granted, params>>
clientVars == <<optreq, optack, taken>>
negVars == <<cfg, requester, replier, todo, oack, serverVars, clientVars, phase>>

Lesser(m, n) == IF m < n THEN m ELSE n
Greater(m, n) == IF m < n THEN n ELSE m

\* The largest power of 2 up to n: clears the low bits until one is left.
PowersOf2 == {1, 2, 4, 8, 16, 32, 64, 128, 256, 512, 1024, 2048, 4096, 8192, 16384, 32768}
RoundDown(n) == CHOOSE p \in PowersOf2 : p <= n /\ n < 2 * p
IsPowerOf2(n) == n \in PowersOf2

\* tftp_max_blksize; blksize <= 0 stands for "mtu" and "mtu-slack".
MaxBlksize(blksize, mtu) ==
  Lesser(MAX_SEGSIZE,
        IF blksize <= 0 THEN Greater(SEGSIZE, mtu + blksize - Overhead)
                        ELSE Greater(MIN_SEGSIZE, blksize))

-----------------------------------------------------------------------------
(***************************************************************************)
(* The request                                                              *)
(***************************************************************************)

\* optreq_init
NoOptreq == [options |-> {}, window |-> 1, blksize |-> SEGSIZE, tsize |-> NoValue]

\* The record makerequest fills in; tsize is set by its callers.
Wanted(c, tsize, mtu) ==
  IF c.no_options THEN NoOptreq
  ELSE LET blksize == MaxBlksize(c.blksize, mtu)
       IN [blksize |-> blksize,
           window  |-> Greater(1, c.max_windowsize),
           tsize   |-> tsize,
           options |-> {o \in {"blksize"} : blksize # SEGSIZE}
                       \cup {o \in {"windowsize"} : c.max_windowsize > 1}
                       \cup {o \in {"tsize"} : tsize >= 0}]

\* An option pair that is in the packet if there is a value for it.
Pair(o, v) == IF v # NoValue THEN <<<<o, v>>>> ELSE <<>>

Pairs(r) ==
  LET value(o, v) == IF o \in r.options THEN v ELSE NoValue
  IN Pair("blksize", value("blksize", r.blksize))
     \o Pair("windowsize", value("windowsize", r.window))
     \o Pair("tsize", value("tsize", r.tsize))

\* tftp_sendfile and tftp_recvfile set tsize, makerequest the rest.
ClientRequests ==
  /\ phase = "idle"
  /\ \E c \in ClientConfigs,
        tsize \in IF cfg.tsize_mode = "WRITE" THEN {NoValue, cfg.fsize} ELSE {0},
        mtu \in Mtu :
       /\ optreq' = Wanted(c, tsize, mtu)
       /\ todo' = Pairs(optreq')
  /\ requester' = "this"
  /\ phase' = "parse"
  /\ UNCHANGED <<cfg, replier, oack, serverVars, optack, taken>>

OtherClientRequests ==
  /\ phase = "idle"
  /\ todo' \in Requests
  /\ requester' = "other"
  /\ phase' = "parse"
  /\ UNCHANGED <<cfg, replier, oack, serverVars, clientVars>>

-----------------------------------------------------------------------------
(***************************************************************************)
(* The server                                                               *)
(***************************************************************************)

\* parse_option: the last well-formed value of an option counts.
ParseOption ==
  /\ phase = "parse" /\ todo # <<>>
  /\ LET o == Head(todo)[1]
         v == Head(todo)[2]
     IN requested' = IF v = BadValue THEN requested
                     ELSE [requested EXCEPT ![o] = v]
  /\ todo' = Tail(todo)
  /\ UNCHANGED <<cfg, requester, replier, oack, granted, params,
                 clientVars, phase>>

\* opt_requested
Asked(o) == IF o \in cfg.refused THEN NoValue ELSE requested[o]

\* Mutant: blksize wins over a larger blksize2 and both are granted.
NegotiateBlksizeLast(max) ==
  LET two == IF Asked("blksize2") >= MIN_SEGSIZE
             THEN RoundDown(Lesser(Asked("blksize2"), max)) ELSE 0
      one == IF Asked("blksize") >= MIN_SEGSIZE
             THEN Lesser(Asked("blksize"), max) ELSE 0
      size == IF one > 0 THEN one ELSE two
  IN [blksize  |-> IF one > 0 THEN size ELSE NoValue,
      blksize2 |-> IF two > 0 THEN two ELSE NoValue,
      segsize  |-> IF size > 0 THEN size ELSE SEGSIZE]

\* negotiate_blksize
NegotiateBlksize(max) ==
  LET two == IF Asked("blksize2") >= MIN_SEGSIZE
             THEN RoundDown(Lesser(Asked("blksize2"), max)) ELSE 0
      one == Asked("blksize") >= MIN_SEGSIZE
             /\ (Asked("blksize") > max \/ two <= Asked("blksize"))
      size == IF one THEN Lesser(Asked("blksize"), max) ELSE two
  IN [blksize  |-> IF one THEN size ELSE NoValue,
      blksize2 |-> IF two > 0 /\ IsPowerOf2(size) THEN size ELSE NoValue,
      segsize  |-> IF size > 0 THEN size ELSE SEGSIZE]

\* negotiate_windowsize; NoValue means a window of one block, not granted.
NegotiateWindowsize(seg) ==
  LET asked == Lesser(Asked("windowsize"), cfg.max_windowsize)
      fits == IF asked * seg > cfg.max_windowbytes
              THEN cfg.max_windowbytes \div seg ELSE asked
  IN IF Asked("windowsize") > 1 /\ fits > 1 THEN fits ELSE NoValue

\* negotiate_tsize: a read asks with 0 and gets the size, if it is known.
NegotiateTsize ==
  CASE Asked("tsize") = NoValue \/ cfg.tsize_mode = "NAK" -> NoValue
    [] Asked("tsize") # NoValue /\ cfg.tsize_mode = "WRITE" -> Asked("tsize")
    [] OTHER -> IF Asked("tsize") = 0 THEN cfg.fsize ELSE NoValue

\* negotiate_timeout: utimeout has priority over timeout.
NegotiateTimeout ==
  LET tos == IF Asked("timeout") \in MIN_TIMEOUT_SEC..MAX_TIMEOUT_SEC
             THEN Asked("timeout") ELSE NoValue
      tou == IF Asked("utimeout") \in MIN_TIMEOUT..(MAX_TIMEOUT_SEC * USEC_PER_SEC)
             THEN Asked("utimeout") ELSE NoValue
  IN [timeout  |-> IF tou # NoValue /\ tou # tos * USEC_PER_SEC
                   THEN NoValue ELSE tos,
      utimeout |-> tou,
      usec     |-> IF tou # NoValue THEN tou ELSE tos * USEC_PER_SEC]

\* tftp() limits an upload to the size announced, before it negotiates.
Uploading == cfg.tsize_mode = "WRITE"
UploadLimit ==
  IF Asked("tsize") = NoValue THEN cfg.max_upload ELSE Asked("tsize")
TooBig == Uploading /\ Asked("tsize") > cfg.max_upload

\* build_oack: the options granted, in the order of the table.
BuildOack(g) ==
  LET granting(o) == Pair(o, g[o])
  IN granting("blksize") \o granting("blksize2") \o granting("cookie")
     \o granting("rollover") \o granting("timeout") \o granting("tsize")
     \o granting("utimeout") \o granting("windowsize")

RefuseUpload ==
  /\ phase = "parse" /\ todo = <<>>
  /\ TooBig
  /\ phase' = "refused"
  /\ UNCHANGED <<cfg, requester, replier, todo, oack, serverVars, clientVars>>

\* negotiate_options with --reject-all
RejectAll ==
  /\ phase = "parse" /\ todo = <<>> /\ ~TooBig
  /\ cfg.reject_all_options
  /\ limit' = IF Uploading THEN UploadLimit ELSE 0
  /\ replier' = "this"
  /\ phase' = "reply"
  /\ UNCHANGED <<cfg, requester, todo, oack, requested, granted, segsize,
                 windowsize, rexmtval, rollover, clientVars>>

\* negotiate_options
Negotiate ==
  /\ phase = "parse" /\ todo = <<>> /\ ~TooBig
  /\ ~cfg.reject_all_options
  /\ \E mtu \in Mtu :
     LET blk == NegotiateBlksize(MaxBlksize(cfg.blksize, mtu))
         window == NegotiateWindowsize(blk.segsize)
         times == NegotiateTimeout
         roll == IF Asked("rollover") \in {0, 1} THEN Asked("rollover") ELSE NoValue
     IN /\ granted' = [blksize    |-> blk.blksize,
                       blksize2   |-> blk.blksize2,
                       cookie     |-> IF Asked("cookie") <= TFTP_MAX_COOKIE
                                      THEN Asked("cookie") ELSE NoValue,
                       rollover   |-> roll,
                       timeout    |-> times.timeout,
                       tsize      |-> NegotiateTsize,
                       utimeout   |-> times.utimeout,
                       windowsize |-> window]
        /\ segsize' = blk.segsize
        /\ windowsize' = Greater(1, window)
        /\ rexmtval' = IF times.usec > 0 THEN times.usec ELSE DEF_TIMEOUT
        /\ rollover' = Greater(0, roll)
  /\ limit' = IF Uploading THEN UploadLimit ELSE 0
  /\ oack' = BuildOack(granted')
  /\ replier' = "this"
  /\ phase' = "reply"
  /\ UNCHANGED <<cfg, requester, todo, requested, clientVars>>

-----------------------------------------------------------------------------
(***************************************************************************)
(* The client's side of the reply                                           *)
(***************************************************************************)

\* Another server answers this client's request, with any option pairs.
OtherServerReplies ==
  /\ phase = "parse" /\ requester = "this" /\ todo = Pairs(optreq)
  /\ oack' \in Replies
  /\ replier' = "other"
  /\ phase' = "reply"
  /\ UNCHANGED <<cfg, requester, todo, serverVars, clientVars>>

\* Mutant: as much as was asked for is too much.
PairValidStrict(a, o, v) ==
  /\ v # BadValue
  /\ o \in optreq.options /\ o \notin a.options
  /\ o = "blksize" => v \in MIN_SEGSIZE..(optreq.blksize - 1)
  /\ o = "windowsize" => v \in 1..(optreq.window - 1)

\* One option pair of an OACK is acceptable.
PairValid(a, o, v) ==
  /\ v # BadValue
  /\ o \in optreq.options /\ o \notin a.options
  /\ o = "blksize" => v \in MIN_SEGSIZE..optreq.blksize
  /\ o = "windowsize" => v \in 1..optreq.window

\* What it does to optack; tsize replaces the set of options seen.
TakePair(a, o, v) ==
  CASE o = "blksize" -> [a EXCEPT !.blksize = v, !.options = @ \cup {o}]
    [] o = "windowsize" -> [a EXCEPT !.window = v, !.options = @ \cup {o}]
    [] o = "tsize" -> [a EXCEPT !.tsize = v, !.options = {o}]

\* One turn of parse_oack's loop.
ParsePair ==
  /\ phase = "oack" /\ oack # <<>>
  /\ LET o == Head(oack)[1]
         v == Head(oack)[2]
     IN IF PairValid(optack, o, v)
        THEN /\ optack' = TakePair(optack, o, v)
             /\ taken' = Append(taken, o)
             /\ UNCHANGED phase
        ELSE /\ phase' = "invalid"
             /\ UNCHANGED <<optack, taken>>
  /\ oack' = Tail(oack)
  /\ UNCHANGED <<cfg, requester, replier, todo, serverVars, optreq>>

\* The first packet reaches the client: an OACK, or the ACK or DATA that starts
\* a transfer without options.
ReplyArrives ==
  /\ phase = "reply" /\ requester = "this"
  /\ phase' = IF oack = <<>> THEN "agreed" ELSE "oack"
  /\ UNCHANGED <<cfg, requester, replier, todo, oack, serverVars, clientVars>>

AcceptOack ==
  /\ phase = "oack" /\ oack = <<>>
  /\ phase' = "agreed"
  /\ UNCHANGED <<cfg, requester, replier, todo, oack, serverVars, clientVars>>

NegInit ==
  /\ cfg \in Configs
  /\ requester = "nobody" /\ replier = "nobody" /\ todo = <<>>
  /\ requested = NoOptions /\ granted = NoOptions
  /\ segsize = 0 /\ windowsize = 0 /\ rexmtval = DEF_TIMEOUT
  /\ rollover = 0 /\ limit = 0
  /\ oack = <<>> /\ optreq = NoOptreq /\ optack = NoOptreq /\ taken = <<>>
  /\ phase = "idle"

NegNext ==
  \/ ClientRequests \/ OtherClientRequests
  \/ ParseOption \/ RefuseUpload \/ RejectAll \/ Negotiate
  \/ OtherServerReplies \/ ReplyArrives \/ ParsePair \/ AcceptOack

NegSpec == NegInit /\ [][NegNext]_negVars

-----------------------------------------------------------------------------
(***************************************************************************)
(* Properties                                                               *)
(***************************************************************************)

NegTypeOK ==
  /\ cfg \in Configs
  /\ requester \in {"nobody", "this", "other"}
  /\ replier \in {"nobody", "this", "other"}
  /\ DOMAIN requested = OptionSet /\ DOMAIN granted = OptionSet
  /\ \A o \in OptionSet : granted[o] \in Int /\ requested[o] \in Int
  /\ segsize \in 0..MAX_SEGSIZE /\ windowsize \in Nat /\ rexmtval \in Nat \ {0}
  /\ rollover \in {0, 1} /\ limit \in 0..cfg.max_upload
  /\ optack.blksize \in MIN_SEGSIZE..MAX_SEGSIZE /\ optack.window \in Nat \ {0}

\* The server has settled its parameters.
Settled == replier = "this" /\ ~cfg.reject_all_options

\* This client and this server never disagree: parse_oack accepts every OACK
\* that negotiate_options builds for makerequest's options, and both ends then
\* use the same block size and window size, also when nothing was granted.
\* Whatever another server answers, the client ends up with no larger window than
\* it asked for, and no larger block than it asked for or the default.
Agreement ==
  /\ Settled /\ requester = "this" =>
       /\ phase # "invalid"
       /\ phase = "agreed" =>
            optack.blksize = segsize /\ optack.window = windowsize
  /\ optack.window <= optreq.window
  /\ optack.blksize \in MIN_SEGSIZE..Greater(SEGSIZE, optreq.blksize)
  /\ \A i \in DOMAIN taken : taken[i] \in optreq.options

\* The server uses what it grants and grants what was asked: one block size,
\* whichever of blksize and blksize2 were asked for, and the default if neither
\* was granted; no more blocks in a window than the client asked for and no
\* more bytes than --window-bytes allows; nothing that was refused with -r; and
\* of timeout and utimeout never two that differ.
GrantIsKept ==
  Settled =>
    /\ \A o \in {"blksize", "blksize2"} : granted[o] \in {NoValue, segsize}
    /\ granted["blksize"] = NoValue /\ granted["blksize2"] = NoValue
         => segsize = SEGSIZE
    /\ granted["blksize"] <= requested["blksize"]
    /\ windowsize > 1 =>
         /\ granted["windowsize"] = windowsize
         /\ windowsize <= requested["windowsize"]
         /\ windowsize <= cfg.max_windowsize
         /\ windowsize * segsize <= cfg.max_windowbytes
    /\ \A o \in OptionSet :
         granted[o] # NoValue => requested[o] # NoValue /\ o \notin cfg.refused
    /\ granted["utimeout"] \in {NoValue, rexmtval}
    /\ granted["timeout"] # NoValue => granted["timeout"] * USEC_PER_SEC = rexmtval

(***************************************************************************)
(* What the manual and the comments say, and the code does not do           *)
(***************************************************************************)

\* tftpd.8.in on --reject-all: requests with options "proceed directly to the
\* normal TFTP data stage", which has blocks of SEGSIZE bytes, one at a time.
RejectAllUsesDefaults ==
  replier = "this" /\ cfg.reject_all_options =>
    segsize = SEGSIZE /\ windowsize = 1

\* tftpd.8.in on blksize2: "anything less than or equal to the specified
\* option".
Blksize2AtMostAsked == Settled => granted["blksize2"] <= requested["blksize2"]

\* tftpd.8.in on --window-bytes: "A value of zero, the default, disables this
\* limit."
ZeroDisablesLimit ==
  Settled /\ cfg.max_windowbytes = 0 /\ Asked("windowsize") > 1 =>
    windowsize = Lesser(Asked("windowsize"), cfg.max_windowsize)

\* The comment on parse_oack: "rejects malformed, duplicate, or unexpected
\* option pairs".
DuplicatesRejected ==
  \A i, j \in DOMAIN taken : i # j => taken[i] # taken[j]
=============================================================================
