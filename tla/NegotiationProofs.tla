------------------------- MODULE NegotiationProofs --------------------------
(***************************************************************************)
(* The negotiation of options, for any limits and configuration of the      *)
(* server, any request and any reply.                                       *)
(*                                                                          *)
(* The inductive invariant relates three places that hold the same values:  *)
(* what the client asked for bounds what the server may grant, and a value  *)
(* the server granted is still in the part of the OACK that the client has  *)
(* not parsed, or is what the client has taken from it.                     *)
(***************************************************************************)
EXTENDS Negotiation, TLAPS

\* Euclidean division.
LEMMA Division ==
  ASSUME NEW d \in Nat \ {0}, NEW x \in Nat
  PROVE  /\ x % d \in 0..(d - 1)
         /\ x \div d \in Nat
         /\ x = (d * (x \div d)) + (x % d)
BY SMT

\* Option pairs, and the names of the options in a sequence of them.
PairSet == (OptionSet \cup STRING) \X (Nat \cup {BadValue})

\* s has one pair for each option of the set O that has a value in g, with that value.
Lists(s, g, O) ==
  /\ s \in Seq(PairSet)
  /\ \A i \in DOMAIN s : s[i][1] \in O /\ s[i][2] = g[s[i][1]] /\ s[i][2] # NoValue
  /\ \A i, j \in DOMAIN s : i # j => s[i][1] # s[j][1]
  /\ \A o \in O : g[o] # NoValue => \E i \in DOMAIN s : s[i][1] = o

\* Value v of option o is what the request of r says.
Said(r, o, v) ==
  /\ o \in r.options
  /\ o = "blksize" => v = r.blksize
  /\ o = "windowsize" => v = r.window

\* The request, and what the server has read of it.
RequestInv ==
  /\ cfg \in Configs
  /\ DOMAIN requested = OptionSet
  /\ \A o \in OptionSet : requested[o] \in Nat \cup {NoValue}
  /\ todo \in Seq(PairSet) /\ \A i \in DOMAIN todo : todo[i][1] \in OptionSet
  /\ optreq.options \subseteq {"blksize", "windowsize", "tsize"}
  /\ optreq.blksize \in MIN_SEGSIZE..MAX_SEGSIZE /\ optreq.window \in Nat \ {0}
  /\ phase = "idle" => \A o \in OptionSet : requested[o] = NoValue
  /\ requester = "this" =>
       /\ \A i \in DOMAIN todo : Said(optreq, todo[i][1], todo[i][2])
       /\ \A o \in OptionSet : requested[o] # NoValue => Said(optreq, o, requested[o])

\* The OACK as far as this client has parsed it.
OackInv ==
  /\ phase \in {"idle", "parse", "refused", "reply", "oack", "agreed", "invalid"}
  /\ oack \in Seq(PairSet)
  /\ phase \in {"idle", "parse", "refused"} => replier = "nobody"
  /\ phase \in {"idle", "parse", "refused", "reply"} => optack = NoOptreq /\ taken = <<>>
  /\ phase \in {"idle", "parse", "refused"} => oack = <<>>
  /\ phase = "agreed" => oack = <<>>
  /\ DOMAIN optack = DOMAIN NoOptreq
  /\ optack.window \in 1..optreq.window
  /\ optack.blksize \in MIN_SEGSIZE..Greater(SEGSIZE, optreq.blksize)
  /\ taken \in Seq(optreq.options)

\* What the server has granted to this client is what the OACK still says or what the
\* client has taken.
GrantInv ==
  Settled /\ requester = "this" =>
    /\ phase # "invalid"
    /\ granted["blksize"] \in {NoValue} \cup (MIN_SEGSIZE..optreq.blksize)
    /\ granted["windowsize"] \in {NoValue} \cup (1..optreq.window)
    /\ segsize = IF granted["blksize"] = NoValue THEN SEGSIZE ELSE granted["blksize"]
    /\ windowsize = IF granted["windowsize"] = NoValue THEN 1 ELSE granted["windowsize"]
    /\ \A i \in DOMAIN oack :
         /\ oack[i][1] \in optreq.options \ optack.options
         /\ oack[i][2] # BadValue /\ oack[i][2] # NoValue
         /\ oack[i][2] = granted[oack[i][1]]
    /\ \A i, j \in DOMAIN oack : i # j => oack[i][1] # oack[j][1]
    /\ \/ \E i \in DOMAIN oack : oack[i][1] = "blksize"
       \/ optack.blksize = segsize
    /\ \/ \E i \in DOMAIN oack : oack[i][1] = "windowsize"
       \/ optack.window = windowsize

NegInv == RequestInv /\ OackInv /\ GrantInv /\ GrantIsKept

-----------------------------------------------------------------------------
\* One pair, or none.
LEMMA PairLists ==
  ASSUME NEW o \in OptionSet, NEW g, g[o] \in Nat \cup {NoValue}
  PROVE  Lists(Pair(o, g[o]), g, {o})
<1>1. CASE g[o] = NoValue
  BY <1>1 DEF Lists, Pair
<1>2. CASE g[o] # NoValue
  <2> DEFINE e == <<o, g[o]>>
  <2>1. e \in PairSet
    BY <1>2 DEF PairSet
  <2>2. e[1] = o /\ e[2] = g[o]
    OBVIOUS
  <2>3. Pair(o, g[o]) = <<e>>
    BY <1>2 DEF Pair
  <2> HIDE DEF e
  <2> QED
    BY <1>2, <2>1, <2>2, <2>3 DEF Lists
<1> QED
  BY <1>1, <1>2

\* Two lists about different options make one.
LEMMA ConcatLists ==
  ASSUME NEW g, NEW A, NEW B, A \cap B = {}, NEW s, NEW t, Lists(s, g, A), Lists(t, g, B)
  PROVE  Lists(s \o t, g, A \cup B)
<1> DEFINE r == s \o t
<1>1. s \in Seq(PairSet) /\ t \in Seq(PairSet)
  BY DEF Lists
<1>2. r \in Seq(PairSet)
  BY <1>1
<1>3. \A i \in DOMAIN r : \/ i \in DOMAIN s /\ r[i] = s[i]
                          \/ i - Len(s) \in DOMAIN t /\ r[i] = t[i - Len(s)] /\ i \notin DOMAIN s
  BY <1>1
<1>4. /\ \A i \in DOMAIN s : i \in DOMAIN r /\ r[i] = s[i]
      /\ \A i \in DOMAIN t : i + Len(s) \in DOMAIN r /\ r[i + Len(s)] = t[i]
  BY <1>1
<1>5. DOMAIN s \subseteq Int /\ DOMAIN t \subseteq Int /\ DOMAIN r \subseteq Int /\ Len(s) \in Int
  BY <1>1, <1>2
<1> HIDE DEF r
<1>6. \A i \in DOMAIN r : r[i][1] \in A \cup B /\ r[i][2] = g[r[i][1]] /\ r[i][2] # NoValue
  BY <1>3 DEF Lists
<1>7. ASSUME NEW i \in DOMAIN r, NEW j \in DOMAIN r, i # j PROVE r[i][1] # r[j][1]
  <2>1. CASE i \in DOMAIN s /\ j \in DOMAIN s
    BY <1>4, <1>7, <2>1 DEF Lists
  <2>2. CASE i \notin DOMAIN s /\ j \notin DOMAIN s
    <3>1. /\ i - Len(s) \in DOMAIN t /\ r[i] = t[i - Len(s)]
          /\ j - Len(s) \in DOMAIN t /\ r[j] = t[j - Len(s)]
      BY <1>3, <2>2
    <3>2. i - Len(s) # j - Len(s)
      BY <1>5, <1>7
    <3> QED
      BY <3>1, <3>2 DEF Lists
  <2>3. CASE i \in DOMAIN s /\ j \notin DOMAIN s
    BY <1>3, <1>4, <2>3 DEF Lists
  <2>4. CASE i \notin DOMAIN s /\ j \in DOMAIN s
    BY <1>3, <1>4, <2>4 DEF Lists
  <2> QED
    BY <2>1, <2>2, <2>3, <2>4
<1>8. ASSUME NEW o \in A \cup B, g[o] # NoValue PROVE \E i \in DOMAIN r : r[i][1] = o
  BY <1>4, <1>8 DEF Lists
<1>9. Lists(r, g, A \cup B)
  BY <1>2, <1>6, <1>7, <1>8 DEF Lists
<1> QED
  BY <1>9 DEF r

\* build_oack lists the options that are granted.
LEMMA OackLists ==
  ASSUME NEW g, \A o \in OptionSet : g[o] \in Nat \cup {NoValue}
  PROVE  Lists(BuildOack(g), g, OptionSet)
<1> DEFINE P(o) == Pair(o, g[o])
           s2 == P("blksize") \o P("blksize2")
           s3 == s2 \o P("cookie")
           s4 == s3 \o P("rollover")
           s5 == s4 \o P("timeout")
           s6 == s5 \o P("tsize")
           s7 == s6 \o P("utimeout")
           s8 == s7 \o P("windowsize")
           O2 == {"blksize"} \cup {"blksize2"}
           O3 == O2 \cup {"cookie"}
           O4 == O3 \cup {"rollover"}
           O5 == O4 \cup {"timeout"}
           O6 == O5 \cup {"tsize"}
           O7 == O6 \cup {"utimeout"}
           O8 == O7 \cup {"windowsize"}
<1>1. \A o \in OptionSet : Lists(P(o), g, {o})
  BY PairLists
<1>2. BuildOack(g) = s8 /\ OptionSet = O8
  BY DEF BuildOack, OptionSet
<1>3. /\ Lists(P("blksize"), g, {"blksize"}) /\ Lists(P("blksize2"), g, {"blksize2"})
      /\ Lists(P("cookie"), g, {"cookie"}) /\ Lists(P("rollover"), g, {"rollover"})
      /\ Lists(P("timeout"), g, {"timeout"}) /\ Lists(P("tsize"), g, {"tsize"})
      /\ Lists(P("utimeout"), g, {"utimeout"}) /\ Lists(P("windowsize"), g, {"windowsize"})
  BY <1>1 DEF OptionSet
<1>4. /\ {"blksize"} \cap {"blksize2"} = {} /\ O2 \cap {"cookie"} = {}
      /\ O3 \cap {"rollover"} = {} /\ O4 \cap {"timeout"} = {} /\ O5 \cap {"tsize"} = {}
      /\ O6 \cap {"utimeout"} = {} /\ O7 \cap {"windowsize"} = {}
  OBVIOUS
<1> HIDE DEF P
<1>5. Lists(s2, g, O2)
  BY <1>3, <1>4, ConcatLists
<1> HIDE DEF s2, O2
<1>6. Lists(s3, g, O3)
  BY <1>3, <1>4, <1>5, ConcatLists
<1> HIDE DEF s3, O3
<1>7. Lists(s4, g, O4)
  BY <1>3, <1>4, <1>6, ConcatLists
<1> HIDE DEF s4, O4
<1>8. Lists(s5, g, O5)
  BY <1>3, <1>4, <1>7, ConcatLists
<1> HIDE DEF s5, O5
<1>9. Lists(s6, g, O6)
  BY <1>3, <1>4, <1>8, ConcatLists
<1> HIDE DEF s6, O6
<1>10. Lists(s7, g, O7)
  BY <1>3, <1>4, <1>9, ConcatLists
<1> HIDE DEF s7, O7
<1>11. Lists(s8, g, O8)
  BY <1>3, <1>4, <1>10, ConcatLists
<1> QED
  BY <1>2, <1>11

\* makerequest sends the options it wants.
LEMMA RequestLists ==
  ASSUME NEW r, NEW g, r.options \subseteq {"blksize", "windowsize", "tsize"},
         r.blksize \in Nat, r.window \in Nat, "tsize" \in r.options => r.tsize \in Nat,
         g = [blksize    |-> IF "blksize" \in r.options THEN r.blksize ELSE NoValue,
              windowsize |-> IF "windowsize" \in r.options THEN r.window ELSE NoValue,
              tsize      |-> IF "tsize" \in r.options THEN r.tsize ELSE NoValue]
  PROVE  Lists(Pairs(r), g, {"blksize", "windowsize", "tsize"})
<1> DEFINE P(o) == Pair(o, g[o])
           s2 == P("blksize") \o P("windowsize")
           O2 == {"blksize"} \cup {"windowsize"}
<1>1. \A o \in {"blksize", "windowsize", "tsize"} : g[o] \in Nat \cup {NoValue}
  OBVIOUS
<1>2. /\ Lists(P("blksize"), g, {"blksize"}) /\ Lists(P("windowsize"), g, {"windowsize"})
      /\ Lists(P("tsize"), g, {"tsize"})
  BY <1>1, PairLists DEF OptionSet
<1>3. Pairs(r) = s2 \o P("tsize")
  BY DEF Pairs
<1>4. {"blksize"} \cap {"windowsize"} = {} /\ O2 \cap {"tsize"} = {}
      /\ O2 \cup {"tsize"} = {"blksize", "windowsize", "tsize"}
  OBVIOUS
<1> HIDE DEF P
<1>5. Lists(s2, g, O2)
  BY <1>2, <1>4, ConcatLists
<1> HIDE DEF s2, O2
<1>6. Lists(s2 \o P("tsize"), g, O2 \cup {"tsize"})
  BY <1>2, <1>4, <1>5, ConcatLists
<1> QED
  BY <1>3, <1>4, <1>6, Zenon

-----------------------------------------------------------------------------
\* The numbers that the programs are compiled with.
LEMMA Sizes ==
  /\ MIN_SEGSIZE \in Nat \ {0} /\ SEGSIZE \in Nat /\ MAX_SEGSIZE \in Nat /\ Overhead \in Nat
  /\ MIN_SEGSIZE <= SEGSIZE /\ SEGSIZE <= MAX_SEGSIZE /\ MAX_SEGSIZE < 65536
  /\ \A mtu \in Mtu : mtu \in Nat
BY NegotiationAssumption

\* tftp_max_blksize is a block size, whatever was configured.
LEMMA MaxBlksizeFacts ==
  ASSUME NEW b \in Int, NEW mtu \in Mtu
  PROVE  MaxBlksize(b, mtu) \in MIN_SEGSIZE..MAX_SEGSIZE
BY Sizes DEF MaxBlksize, Lesser, Greater

\* Rounding down to a power of 2.
LEMMA RoundDownFacts ==
  ASSUME NEW k \in Nat, 1 <= k, k < 65536
  PROVE  RoundDown(k) \in PowersOf2 /\ RoundDown(k) \in 1..k
<1>1. \E w \in PowersOf2 : w <= k /\ k < 2 * w
  BY DEF PowersOf2
<1>2. RoundDown(k) \in PowersOf2 /\ RoundDown(k) <= k
  BY <1>1 DEF RoundDown
<1> QED
  BY <1>2 DEF PowersOf2

\* opt_requested
LEMMA AskedFacts ==
  ASSUME RequestInv, NEW o \in OptionSet
  PROVE  /\ Asked(o) \in Nat \cup {NoValue}
         /\ Asked(o) # NoValue => Asked(o) = requested[o] /\ o \notin cfg.refused
BY DEF RequestInv, Asked

\* negotiate_blksize: one size for both options.
LEMMA BlksizeFacts ==
  ASSUME RequestInv, NEW max \in MIN_SEGSIZE..MAX_SEGSIZE, NEW blk, blk = NegotiateBlksize(max)
  PROVE  /\ blk.segsize \in 1..MAX_SEGSIZE
         /\ blk.blksize \in {NoValue, blk.segsize} /\ blk.blksize2 \in {NoValue, blk.segsize}
         /\ blk.blksize = NoValue /\ blk.blksize2 = NoValue => blk.segsize = SEGSIZE
         /\ blk.blksize # NoValue => /\ Asked("blksize") # NoValue
                                     /\ blk.blksize \in MIN_SEGSIZE..Asked("blksize")
         /\ blk.blksize2 # NoValue => Asked("blksize2") # NoValue
<1> USE DEF NoValue
<1> DEFINE a == Asked("blksize")
           b == Asked("blksize2")
           two == IF b >= MIN_SEGSIZE THEN RoundDown(Lesser(b, max)) ELSE 0
           one == a >= MIN_SEGSIZE /\ (a > max \/ two <= a)
           size == IF one THEN Lesser(a, max) ELSE two
<1>1. a \in Nat \cup {NoValue} /\ b \in Nat \cup {NoValue}
  BY AskedFacts DEF OptionSet
<1>2. /\ blk.blksize = (IF one THEN size ELSE NoValue)
      /\ blk.blksize2 = (IF two > 0 /\ IsPowerOf2(size) THEN size ELSE NoValue)
      /\ blk.segsize = (IF size > 0 THEN size ELSE SEGSIZE)
  BY DEF NegotiateBlksize
<1> HIDE DEF a, b
<1>3. /\ two \in 0..MAX_SEGSIZE
      /\ two > 0 => IsPowerOf2(two) /\ b >= MIN_SEGSIZE
  <2>1. CASE b >= MIN_SEGSIZE
    <3>1. Lesser(b, max) \in Nat /\ 1 <= Lesser(b, max) /\ Lesser(b, max) < 65536 /\ Lesser(b, max) \in 1..MAX_SEGSIZE
      BY <1>1, <2>1, Sizes DEF Lesser
    <3>2. two \in PowersOf2 /\ two \in 1..Lesser(b, max)
      BY <2>1, <3>1, RoundDownFacts
    <3> QED
      BY <2>1, <3>1, <3>2, Sizes DEF IsPowerOf2
  <2>2. CASE ~(b >= MIN_SEGSIZE)
    BY <2>2, Sizes
  <2> QED
    BY <2>1, <2>2
<1> HIDE DEF two
<1>4. CASE one
  <2>1. size \in MIN_SEGSIZE..a /\ size \in 1..MAX_SEGSIZE /\ a # NoValue
    BY <1>1, <1>4, Sizes DEF Lesser
  <2>2. blk.segsize = size /\ blk.blksize = size
    BY <1>2, <1>4, <2>1
  <2> QED
    BY <1>1, <1>2, <1>3, <2>1, <2>2, Sizes DEF a, b
<1>5. CASE ~one
  <2>1. size = two
    BY <1>5
  <2> QED
    BY <1>1, <1>2, <1>3, <1>5, <2>1, Sizes DEF b
<1> QED
  BY <1>4, <1>5

\* negotiate_windowsize: what was asked, what is allowed, and what the bytes allow.
LEMMA WindowFacts ==
  ASSUME RequestInv, NEW seg \in Nat \ {0}, NEW w, w = NegotiateWindowsize(seg), w # NoValue
  PROVE  /\ w \in Nat /\ w > 1 /\ Asked("windowsize") # NoValue /\ w <= Asked("windowsize")
         /\ w <= cfg.max_windowsize /\ w * seg <= cfg.max_windowbytes
<1> USE DEF NoValue
<1> DEFINE x == Asked("windowsize")
           max == cfg.max_windowsize
           bytes == cfg.max_windowbytes
           asked == Lesser(x, max)
           fits == IF asked * seg > bytes THEN bytes \div seg ELSE asked
<1>1. x \in Nat \cup {NoValue} /\ max \in Nat /\ bytes \in Nat
  BY AskedFacts, ConfigAssumption DEF OptionSet, RequestInv
<1>2. x > 1 /\ fits > 1 /\ w = fits
  BY DEF NegotiateWindowsize
<1> HIDE DEF x, max, bytes
<1>3. asked \in Nat /\ asked <= x /\ asked <= max /\ x # NoValue
  BY <1>1, <1>2 DEF Lesser
<1> HIDE DEF asked
<1>4. CASE asked * seg > bytes
  <2> DEFINE d == bytes \div seg
  <2>1. d \in Nat /\ bytes % seg \in Nat /\ bytes = (seg * d) + (bytes % seg)
    <3>1. bytes \in Nat /\ seg \in Nat \ {0}
      BY <1>1
    <3>2. bytes % seg \in 0..(seg - 1) /\ d \in Nat /\ bytes = (seg * d) + (bytes % seg)
      BY <3>1, Division, Zenon
    <3> QED
      BY <3>2
  <2>2. w = d
    BY <1>2, <1>4
  <2> HIDE DEF d
  <2>3. d * seg <= bytes
    <3>1. d * seg = seg * d /\ seg * d \in Nat
      BY <2>1
    <3> QED
      BY <1>1, <2>1, <3>1
  <2>4. d <= asked
    <3> SUFFICES ASSUME d > asked PROVE FALSE
      BY <1>3, <2>1
    <3>1. (d - asked) * seg >= 0 /\ (d - asked) * seg = d * seg - asked * seg
      BY <1>3, <2>1
    <3> QED
      BY <1>1, <1>3, <1>4, <2>1, <2>3, <3>1
  <2> QED
    BY <1>1, <1>2, <1>3, <2>1, <2>2, <2>3, <2>4 DEF x, max, bytes
<1>5. CASE ~(asked * seg > bytes)
  <2>1. w = asked /\ asked * seg \in Nat
    BY <1>2, <1>3, <1>5
  <2> QED
    BY <1>1, <1>2, <1>3, <1>5, <2>1 DEF x, max, bytes
<1> QED
  BY <1>4, <1>5

\* negotiate_timeout: the interval that is used is what was granted.
LEMMA TimeoutFacts ==
  ASSUME RequestInv, NEW t, t = NegotiateTimeout, NEW used,
         used = IF t.usec > 0 THEN t.usec ELSE DEF_TIMEOUT
  PROVE  /\ t.timeout \in Nat \cup {NoValue} /\ t.utimeout \in Nat \cup {NoValue}
         /\ t.timeout # NoValue => Asked("timeout") # NoValue /\ t.timeout * USEC_PER_SEC = used
         /\ t.utimeout # NoValue => Asked("utimeout") # NoValue /\ t.utimeout = used
<1> USE DEF NoValue
<1> DEFINE a == Asked("timeout")
           b == Asked("utimeout")
           tos == IF a \in MIN_TIMEOUT_SEC..MAX_TIMEOUT_SEC THEN a ELSE NoValue
           top == MAX_TIMEOUT_SEC * USEC_PER_SEC
           tou == IF b \in MIN_TIMEOUT..top THEN b ELSE NoValue
           prod == tos * USEC_PER_SEC
<1>1. a \in Nat \cup {NoValue} /\ b \in Nat \cup {NoValue}
  BY AskedFacts DEF OptionSet
<1>2. /\ MIN_TIMEOUT_SEC \in Nat \ {0} /\ MAX_TIMEOUT_SEC \in Nat \ {0}
      /\ USEC_PER_SEC \in Nat \ {0} /\ MIN_TIMEOUT \in Nat \ {0} /\ DEF_TIMEOUT \in Nat
  BY NegotiationAssumption
<1>3. /\ t.timeout = (IF tou # NoValue /\ tou # prod THEN NoValue ELSE tos)
      /\ t.utimeout = tou /\ t.usec = (IF tou # NoValue THEN tou ELSE prod)
  BY DEF NegotiateTimeout
<1> HIDE DEF a, b
<1>4. tos \in Nat \cup {NoValue} /\ (tos # NoValue => a # NoValue /\ tos >= 1)
  BY <1>1, <1>2
<1>5. top \in Int
  BY <1>2
<1> HIDE DEF top
<1>6. tou \in Nat \cup {NoValue} /\ (tou # NoValue => b # NoValue /\ tou >= 1)
  BY <1>1, <1>2, <1>5
<1>7. prod \in Int /\ (tos # NoValue => prod >= 1)
  <2>1. CASE tos # NoValue
    <3>1. tos \in Nat \ {0} /\ USEC_PER_SEC \in Nat \ {0}
      BY <1>2, <1>4, <2>1
    <3> HIDE DEF tos
    <3> QED
      BY <3>1
  <2>2. CASE tos = NoValue
    <3> HIDE DEF tos
    <3> QED
      BY <1>2, <2>2
  <2> QED
    BY <2>1, <2>2
<1> HIDE DEF tou
<1>8. t.timeout # NoValue => t.timeout * USEC_PER_SEC = prod /\ t.timeout = tos
  BY <1>3
<1> HIDE DEF tos, prod
<1> QED
  BY <1>2, <1>3, <1>4, <1>6, <1>7, <1>8 DEF a, b

\* negotiate_tsize
LEMMA TsizeFacts ==
  ASSUME RequestInv
  PROVE  /\ NegotiateTsize \in Nat \cup {NoValue}
         /\ NegotiateTsize # NoValue => Asked("tsize") # NoValue
<1>1. /\ Asked("tsize") \in Nat \cup {NoValue}
      /\ cfg.fsize \in Nat \cup {NoValue} /\ cfg.tsize_mode \in {"READ", "WRITE", "NAK"}
  BY AskedFacts, ConfigAssumption DEF OptionSet, RequestInv
<1> QED
  BY <1>1 DEF NegotiateTsize

\* Everything negotiate_options decides.
LEMMA NegotiateFacts ==
  ASSUME RequestInv, Negotiate
  PROVE  /\ \A o \in OptionSet : /\ granted'[o] \in Nat \cup {NoValue}
                                 /\ granted'[o] # NoValue => Asked(o) # NoValue
         /\ segsize' \in 1..MAX_SEGSIZE
         /\ granted'["blksize"] \in {NoValue, segsize'}
         /\ granted'["blksize2"] \in {NoValue, segsize'}
         /\ granted'["blksize"] = NoValue /\ granted'["blksize2"] = NoValue => segsize' = SEGSIZE
         /\ granted'["blksize"] # NoValue => granted'["blksize"] \in MIN_SEGSIZE..Asked("blksize")
         /\ IF granted'["windowsize"] = NoValue THEN windowsize' = 1
            ELSE /\ windowsize' = granted'["windowsize"] /\ windowsize' > 1
                 /\ windowsize' <= Asked("windowsize") /\ windowsize' <= cfg.max_windowsize
                 /\ windowsize' * segsize' <= cfg.max_windowbytes
         /\ granted'["utimeout"] \in {NoValue, rexmtval'}
         /\ granted'["timeout"] # NoValue => granted'["timeout"] * USEC_PER_SEC = rexmtval'
<1> USE DEF NoValue
<1>1. PICK mtu \in Mtu :
        LET blk == NegotiateBlksize(MaxBlksize(cfg.blksize, mtu))
            window == NegotiateWindowsize(blk.segsize)
            times == NegotiateTimeout
            roll == IF Asked("rollover") \in {0, 1} THEN Asked("rollover") ELSE NoValue
        IN /\ granted' = [blksize    |-> blk.blksize,
                          blksize2   |-> blk.blksize2,
                          cookie     |-> IF Asked("cookie") <= TFTP_MAX_COOKIE
                                         THEN Asked("cookie") ELSE NoValue,
                          rollover   |-> roll,
                          timeout    |-> times.timeout,
                          tsize      |-> NegotiateTsize,
                          utimeout   |-> times.utimeout,
                          windowsize |-> window]
           /\ segsize' = blk.segsize
           /\ windowsize' = Greater(1, window)
           /\ rexmtval' = IF times.usec > 0 THEN times.usec ELSE DEF_TIMEOUT
  BY DEF Negotiate
<1> DEFINE max == MaxBlksize(cfg.blksize, mtu)
           blk == NegotiateBlksize(max)
           window == NegotiateWindowsize(blk.segsize)
           t == NegotiateTimeout
<1>2. max \in MIN_SEGSIZE..MAX_SEGSIZE
  BY MaxBlksizeFacts, ConfigAssumption DEF RequestInv
<1>3. /\ granted'["blksize"] = blk.blksize /\ granted'["blksize2"] = blk.blksize2
      /\ granted'["cookie"] \in {Asked("cookie"), NoValue}
      /\ granted'["rollover"] \in {Asked("rollover"), NoValue}
      /\ granted'["timeout"] = t.timeout /\ granted'["utimeout"] = t.utimeout
      /\ granted'["tsize"] = NegotiateTsize /\ granted'["windowsize"] = window
      /\ segsize' = blk.segsize /\ windowsize' = Greater(1, window)
      /\ rexmtval' = IF t.usec > 0 THEN t.usec ELSE DEF_TIMEOUT
  BY <1>1
<1> HIDE DEF max, blk
<1>4. /\ segsize' \in 1..MAX_SEGSIZE
      /\ blk.blksize \in {NoValue, segsize'} /\ blk.blksize2 \in {NoValue, segsize'}
      /\ blk.blksize = NoValue /\ blk.blksize2 = NoValue => segsize' = SEGSIZE
      /\ blk.blksize # NoValue => /\ Asked("blksize") # NoValue
                                  /\ blk.blksize \in MIN_SEGSIZE..Asked("blksize")
      /\ blk.blksize2 # NoValue => Asked("blksize2") # NoValue
  BY <1>2, <1>3, BlksizeFacts DEF blk
<1>5. segsize' \in Nat \ {0}
  BY <1>4, Sizes
<1>6. window # NoValue =>
        /\ window \in Nat /\ window > 1 /\ Asked("windowsize") # NoValue
        /\ window <= Asked("windowsize")
        /\ window <= cfg.max_windowsize /\ window * segsize' <= cfg.max_windowbytes
  BY <1>3, <1>5, WindowFacts
<1> HIDE DEF window, t
<1>7. /\ t.timeout \in Nat \cup {NoValue} /\ t.utimeout \in Nat \cup {NoValue}
      /\ t.timeout # NoValue => Asked("timeout") # NoValue /\ t.timeout * USEC_PER_SEC = rexmtval'
      /\ t.utimeout # NoValue => Asked("utimeout") # NoValue /\ t.utimeout = rexmtval'
  BY <1>3, TimeoutFacts DEF t
<1>8. windowsize' = IF window = NoValue THEN 1 ELSE window
  BY <1>3, <1>6 DEF Greater
<1>9. /\ Asked("cookie") \in Nat \cup {NoValue} /\ Asked("rollover") \in Nat \cup {NoValue}
  BY AskedFacts DEF OptionSet
<1>10. \A o \in OptionSet : /\ granted'[o] \in Nat \cup {NoValue}
                            /\ granted'[o] # NoValue => Asked(o) # NoValue
  BY <1>3, <1>4, <1>5, <1>6, <1>7, <1>9, TsizeFacts DEF OptionSet
<1> QED
  BY <1>3, <1>4, <1>6, <1>7, <1>8, <1>10

-----------------------------------------------------------------------------
\* Without a settled server nothing is said of a grant.
LEMMA Unsettled == ~Settled => GrantInv /\ GrantIsKept
BY DEF GrantInv, GrantIsKept

\* What makerequest asks for.
LEMMA WantedFacts ==
  ASSUME NEW c \in ClientConfigs, NEW tsize \in Nat \cup {NoValue}, NEW mtu \in Mtu,
         NEW r, r = Wanted(c, tsize, mtu)
  PROVE  /\ r.options \subseteq {"blksize", "windowsize", "tsize"}
         /\ r.blksize \in MIN_SEGSIZE..MAX_SEGSIZE /\ r.window \in Nat \ {0}
         /\ "tsize" \in r.options => r.tsize \in Nat
<1>1. c.blksize \in Int /\ c.max_windowsize \in Int
  BY ConfigAssumption
<1>2. MaxBlksize(c.blksize, mtu) \in MIN_SEGSIZE..MAX_SEGSIZE
  BY <1>1, MaxBlksizeFacts
<1>3. CASE c.no_options
  BY <1>3, Sizes DEF Wanted, NoOptreq
<1>4. CASE ~c.no_options
  BY <1>1, <1>2, <1>4 DEF Wanted, Greater, NoValue
<1> QED
  BY <1>3, <1>4

\* A request is sent, by this client or by another.
LEMMA RequestStep ==
  ASSUME NegInv, ClientRequests \/ OtherClientRequests
  PROVE  NegInv'
<1>0. /\ phase = "idle" /\ phase' = "parse"
      /\ UNCHANGED <<cfg, replier, oack, requested, granted, optack, taken>>
  BY DEF ClientRequests, OtherClientRequests, serverVars, clientVars
<1>1. /\ cfg \in Configs /\ DOMAIN requested = OptionSet
      /\ \A o \in OptionSet : requested[o] = NoValue
      /\ optack = NoOptreq /\ taken = <<>> /\ oack = <<>> /\ replier = "nobody"
  BY <1>0 DEF NegInv, RequestInv, OackInv
<1>2. GrantInv' /\ GrantIsKept'
  BY <1>0, <1>1, Unsettled DEF Settled, GrantInv, GrantIsKept
<1>3. CASE ClientRequests
  <2>1. PICK c \in ClientConfigs, tsize \in Nat \cup {NoValue}, mtu \in Mtu :
          optreq' = Wanted(c, tsize, mtu) /\ todo' = Pairs(optreq')
    BY <1>1, <1>3, ConfigAssumption, Zenon DEF ClientRequests
  <2>2. /\ optreq'.options \subseteq {"blksize", "windowsize", "tsize"}
        /\ optreq'.blksize \in MIN_SEGSIZE..MAX_SEGSIZE /\ optreq'.window \in Nat \ {0}
        /\ "tsize" \in optreq'.options => optreq'.tsize \in Nat
    BY <2>1, WantedFacts
  <2> DEFINE g == [blksize    |-> IF "blksize" \in optreq'.options THEN optreq'.blksize ELSE NoValue,
                   windowsize |-> IF "windowsize" \in optreq'.options THEN optreq'.window ELSE NoValue,
                   tsize      |-> IF "tsize" \in optreq'.options THEN optreq'.tsize ELSE NoValue]
  <2>3. Lists(todo', g, {"blksize", "windowsize", "tsize"})
    <3>1. optreq'.blksize \in Nat /\ optreq'.window \in Nat
      BY <2>2, Sizes
    <3> QED
      BY <2>1, <2>2, <3>1, RequestLists
  <2>4. \A i \in DOMAIN todo' : Said(optreq', todo'[i][1], todo'[i][2])
    BY <2>3 DEF Lists, Said
  <2>5. RequestInv'
    BY <1>0, <1>1, <2>2, <2>3, <2>4 DEF RequestInv, Lists, OptionSet
  <2>6. OackInv'
    BY <1>0, <1>1, <2>2, Sizes DEF OackInv, NoOptreq, Greater
  <2> QED
    BY <1>2, <2>5, <2>6 DEF NegInv
<1>4. CASE OtherClientRequests
  <2>1. todo' \in Requests /\ requester' = "other" /\ UNCHANGED optreq
    BY <1>4 DEF OtherClientRequests, clientVars
  <2> DEFINE V == Nat \cup {BadValue}
  <2>2. todo' \in Seq(OptionSet \X V)
    BY <2>1, ConfigAssumption
  <2>3. OptionSet \X V \subseteq PairSet /\ \A e \in OptionSet \X V : e[1] \in OptionSet
    BY DEF PairSet
  <2> DEFINE S == OptionSet \X V
  <2> HIDE DEF S
  <2>4. todo' \in Seq(PairSet) /\ \A i \in DOMAIN todo' : todo'[i][1] \in OptionSet
    BY <2>2, <2>3 DEF S
  <2>5. RequestInv'
    BY <1>0, <1>1, <2>1, <2>4 DEF RequestInv, NegInv
  <2>6. OackInv'
    BY <1>0, <1>1, <2>1 DEF OackInv, NegInv
  <2> QED
    BY <1>2, <2>5, <2>6 DEF NegInv
<1> QED
  BY <1>3, <1>4

\* An option of the request is parsed.
LEMMA ParseStep ==
  ASSUME NegInv, ParseOption
  PROVE  NegInv'
<1>0. /\ phase = "parse" /\ todo # <<>> /\ todo' = Tail(todo)
      /\ requested' = IF Head(todo)[2] = BadValue THEN requested
                      ELSE [requested EXCEPT ![Head(todo)[1]] = Head(todo)[2]]
      /\ UNCHANGED <<cfg, phase, requester, replier, oack, granted, optack, taken, optreq>>
  BY DEF ParseOption, clientVars
<1>1. GrantInv' /\ GrantIsKept'
  <2>1. replier' = "nobody"
    BY <1>0 DEF NegInv, OackInv
  <2> QED
    BY <2>1, Unsettled DEF Settled, GrantInv, GrantIsKept
<1>2. OackInv'
  BY <1>0 DEF NegInv, OackInv
<1>3. RequestInv'
  <2> DEFINE e == Head(todo)
  <2>1. /\ todo \in Seq(PairSet) /\ 1 \in DOMAIN todo /\ e = todo[1]
        /\ todo' \in Seq(PairSet)
        /\ \A i \in DOMAIN todo' : i + 1 \in DOMAIN todo /\ todo'[i] = todo[i + 1]
    BY <1>0 DEF NegInv, RequestInv
  <2>2. e \in PairSet /\ e[1] \in OptionSet /\ (requester = "this" => Said(optreq, e[1], e[2]))
    BY <2>1 DEF NegInv, RequestInv
  <2>3. e[2] # BadValue => e[2] \in Nat
    BY <2>2 DEF PairSet
  <2> HIDE DEF e
  <2>4. /\ DOMAIN requested' = OptionSet
        /\ \A o \in OptionSet : requested'[o] \in Nat \cup {NoValue}
        /\ requester = "this" => \A o \in OptionSet : requested'[o] # NoValue => Said(optreq, o, requested'[o])
    BY <1>0, <2>2, <2>3 DEF e, NegInv, RequestInv
  <2>6. requester' = "this" =>
          /\ \A i \in DOMAIN todo' : Said(optreq, todo[i + 1][1], todo[i + 1][2])
          /\ \A o \in OptionSet : requested'[o] # NoValue => Said(optreq, o, requested'[o])
    BY <1>0, <2>1, <2>4 DEF NegInv, RequestInv
  <2>7. requester' = "this" =>
          /\ \A i \in DOMAIN todo' : Said(optreq', todo'[i][1], todo'[i][2])
          /\ \A o \in OptionSet : requested'[o] # NoValue => Said(optreq', o, requested'[o])
    BY <1>0, <2>1, <2>6 DEF Said
  <2> QED
    BY <1>0, <2>1, <2>4, <2>7 DEF NegInv, RequestInv
<1> QED
  BY <1>1, <1>2, <1>3 DEF NegInv

\* The server refuses the upload, settles everything, or rejects all options; or another
\* server answers.
LEMMA AnswerStep ==
  ASSUME NegInv, RefuseUpload \/ RejectAll \/ Negotiate \/ OtherServerReplies
  PROVE  NegInv'
<1>0. /\ phase = "parse" /\ phase' \in {"refused", "reply"}
      /\ UNCHANGED <<cfg, requester, todo, requested, optreq, optack, taken>>
  BY DEF RefuseUpload, RejectAll, Negotiate, OtherServerReplies, serverVars, clientVars
<1>1. RequestInv'
  BY <1>0 DEF NegInv, RequestInv
<1>2. /\ optack = NoOptreq /\ taken = <<>> /\ oack = <<>> /\ replier = "nobody"
  BY <1>0 DEF NegInv, OackInv
<1>3. ASSUME oack' \in Seq(PairSet), phase' = "refused" => UNCHANGED <<oack, replier>>
      PROVE  OackInv'
  BY <1>0, <1>2, <1>3 DEF NegInv, OackInv
<1>4. CASE RefuseUpload
  <2>1. UNCHANGED <<oack, replier>>
    BY <1>4 DEF RefuseUpload
  <2> QED
    BY <1>1, <1>2, <1>3, <2>1, Unsettled DEF NegInv, OackInv, Settled, GrantInv, GrantIsKept
<1>5. CASE RejectAll
  <2>1. oack' = oack /\ phase' = "reply" /\ cfg.reject_all_options
    BY <1>5 DEF RejectAll
  <2>2. oack' \in Seq(PairSet)
    BY <2>1 DEF NegInv, OackInv
  <2> QED
    BY <1>0, <1>1, <1>3, <2>1, <2>2, Zenon DEF NegInv, Settled, GrantInv, GrantIsKept
<1>6. CASE OtherServerReplies
  <2>1. oack' \in Replies /\ phase' = "reply" /\ replier' = "other"
    BY <1>6 DEF OtherServerReplies
  <2>2. oack' \in Seq(PairSet)
    BY <2>1, ConfigAssumption DEF PairSet
  <2> QED
    BY <1>1, <1>3, <2>1, <2>2 DEF NegInv, Settled, GrantInv, GrantIsKept
<1>7. CASE Negotiate
  <2>0. RequestInv
    BY DEF NegInv
  <2>1. phase' = "reply" /\ oack' = BuildOack(granted')
    BY <1>7 DEF Negotiate
  <2>2. \A o \in OptionSet : /\ granted'[o] \in Nat \cup {NoValue}
                             /\ granted'[o] # NoValue =>
                                  requested[o] # NoValue /\ o \notin cfg.refused
                             /\ granted'[o] # NoValue => Asked(o) = requested[o]
    BY <1>7, <2>0, NegotiateFacts, AskedFacts
  <2>3. Lists(oack', granted', OptionSet)
    BY <2>1, <2>2, OackLists
  <2>4. OackInv'
    BY <1>3, <2>1, <2>3 DEF Lists
  <2>5. GrantIsKept'
    <3>1. granted'["blksize"] <= requested["blksize"]
      <4>1. requested["blksize"] \in Nat \cup {NoValue} /\ granted'["blksize"] \in Nat \cup {NoValue}
            /\ MIN_SEGSIZE \in Nat
        BY <2>0, <2>2, Sizes DEF RequestInv, OptionSet
      <4>2. granted'["blksize"] # NoValue =>
              granted'["blksize"] \in MIN_SEGSIZE..requested["blksize"]
        BY <1>7, <2>0, <2>2, NegotiateFacts DEF OptionSet
      <4> QED
        BY <4>1, <4>2 DEF NoValue
    <3>2. windowsize' > 1 =>
            /\ granted'["windowsize"] = windowsize' /\ windowsize' <= requested["windowsize"]
            /\ windowsize' <= cfg.max_windowsize
            /\ windowsize' * segsize' <= cfg.max_windowbytes
      BY <1>7, <2>0, <2>2, NegotiateFacts DEF OptionSet
    <3>3. /\ \A o \in {"blksize", "blksize2"} : granted'[o] \in {NoValue, segsize'}
          /\ granted'["blksize"] = NoValue /\ granted'["blksize2"] = NoValue => segsize' = SEGSIZE
          /\ granted'["utimeout"] \in {NoValue, rexmtval'}
          /\ granted'["timeout"] # NoValue => granted'["timeout"] * USEC_PER_SEC = rexmtval'
      BY <1>7, <2>0, NegotiateFacts
    <3> QED
      BY <1>0, <2>2, <3>1, <3>2, <3>3 DEF GrantIsKept
  <2>6. GrantInv'
    <3> SUFFICES ASSUME requester = "this" PROVE GrantInv'
      BY <1>0 DEF GrantInv
    <3>1. \A o \in OptionSet : granted'[o] # NoValue => Said(optreq, o, requested[o])
      BY <2>0, <2>2 DEF RequestInv
    <3>2. granted'["blksize2"] = NoValue
      BY <2>0, <3>1 DEF RequestInv, Said, OptionSet
    <3>3. granted'["blksize"] # NoValue => granted'["blksize"] \in MIN_SEGSIZE..optreq.blksize
      BY <1>7, <2>0, <2>2, <3>1, NegotiateFacts DEF Said, OptionSet
    <3>4. granted'["windowsize"] # NoValue => granted'["windowsize"] \in 1..optreq.window
      <4> SUFFICES ASSUME granted'["windowsize"] # NoValue
                   PROVE  granted'["windowsize"] \in 1..optreq.window
        OBVIOUS
      <4>1. /\ granted'["windowsize"] \in Nat /\ granted'["windowsize"] > 1
            /\ granted'["windowsize"] <= Asked("windowsize")
            /\ Asked("windowsize") = optreq.window /\ optreq.window \in Nat
        BY <1>7, <2>0, <2>2, <3>1, NegotiateFacts DEF Said, OptionSet, RequestInv
      <4> QED
        BY <4>1
    <3>5. /\ segsize' = IF granted'["blksize"] = NoValue THEN SEGSIZE ELSE granted'["blksize"]
          /\ windowsize' = IF granted'["windowsize"] = NoValue THEN 1 ELSE granted'["windowsize"]
      BY <1>7, <2>0, <3>2, NegotiateFacts
    <3>6. \A i \in DOMAIN oack' :
            /\ oack'[i][1] \in optreq.options
            /\ oack'[i][2] # BadValue /\ oack'[i][2] # NoValue
            /\ oack'[i][2] = granted'[oack'[i][1]]
      <4> SUFFICES ASSUME NEW i \in DOMAIN oack'
                   PROVE  /\ oack'[i][1] \in optreq.options
                          /\ oack'[i][2] # BadValue /\ oack'[i][2] # NoValue
                          /\ oack'[i][2] = granted'[oack'[i][1]]
        OBVIOUS
      <4>1. /\ oack'[i][1] \in OptionSet /\ oack'[i][2] = granted'[oack'[i][1]]
            /\ oack'[i][2] # NoValue
        BY <2>3 DEF Lists
      <4>2. oack'[i][2] \in Nat
        BY <2>2, <4>1
      <4> QED
        BY <3>1, <4>1, <4>2 DEF Said, BadValue
    <3>7. optack'.options = {} /\ optack'.blksize = SEGSIZE /\ optack'.window = 1
      BY <1>0, <1>2 DEF NoOptreq
    <3>8. /\ granted'["blksize"] # NoValue => \E i \in DOMAIN oack' : oack'[i][1] = "blksize"
          /\ granted'["windowsize"] # NoValue => \E i \in DOMAIN oack' : oack'[i][1] = "windowsize"
          /\ \A i, j \in DOMAIN oack' : i # j => oack'[i][1] # oack'[j][1]
      BY <2>3 DEF Lists, OptionSet
    <3> QED
      BY <1>0, <2>1, <3>3, <3>4, <3>5, <3>6, <3>7, <3>8 DEF GrantInv
  <2> QED
    BY <1>1, <2>4, <2>5, <2>6 DEF NegInv
<1> QED
  BY <1>4, <1>5, <1>6, <1>7

\* A step of the client leaves the server's side alone.
LEMMA ClientFrame ==
  ASSUME NegInv, phase \notin {"idle"}, phase' \notin {"idle"},
         UNCHANGED <<cfg, requester, replier, todo, serverVars, optreq>>
  PROVE  RequestInv' /\ GrantIsKept'
<1>1. UNCHANGED <<requested, granted, segsize, windowsize, rexmtval>>
  BY DEF serverVars, params
<1>2. RequestInv'
  BY <1>1 DEF NegInv, RequestInv
<1>3. GrantIsKept'
  BY <1>1 DEF NegInv, GrantIsKept, Settled
<1> QED
  BY <1>2, <1>3

\* The reply arrives, or all of its OACK has been parsed.
LEMMA ArriveStep ==
  ASSUME NegInv, ReplyArrives \/ AcceptOack
  PROVE  NegInv'
<1>1. /\ phase \in {"reply", "oack"} /\ phase' \in {"oack", "agreed"}
      /\ (phase' = "agreed" => oack = <<>>)
      /\ UNCHANGED <<cfg, requester, replier, todo, serverVars, optreq, oack, optack, taken>>
      /\ UNCHANGED <<granted, segsize, windowsize>>
  BY DEF ReplyArrives, AcceptOack, clientVars, serverVars, params
<1>2. RequestInv' /\ GrantIsKept'
  BY <1>1, ClientFrame
<1>3. OackInv'
  BY <1>1 DEF NegInv, OackInv
<1>4. GrantInv'
  BY <1>1 DEF NegInv, GrantInv, Settled
<1> QED
  BY <1>2, <1>3, <1>4 DEF NegInv

\* One turn of parse_oack's loop.
LEMMA OackStep ==
  ASSUME NegInv, ParsePair
  PROVE  NegInv'
<1> DEFINE o == Head(oack)[1]
           v == Head(oack)[2]
<1>1. /\ phase = "oack" /\ oack # <<>> /\ oack' = Tail(oack)
      /\ IF PairValid(optack, o, v)
         THEN optack' = TakePair(optack, o, v) /\ taken' = Append(taken, o) /\ phase' = phase
         ELSE phase' = "invalid" /\ UNCHANGED <<optack, taken>>
      /\ UNCHANGED <<cfg, requester, replier, todo, serverVars, optreq>>
      /\ UNCHANGED <<granted, segsize, windowsize>>
  BY Zenon DEF ParsePair, serverVars, params
<1>2. RequestInv' /\ GrantIsKept'
  BY <1>1, ClientFrame
<1>3. /\ oack \in Seq(PairSet) /\ 1 \in DOMAIN oack /\ o = oack[1][1] /\ v = oack[1][2]
      /\ oack' \in Seq(PairSet)
      /\ \A i \in DOMAIN oack' : i + 1 \in DOMAIN oack /\ oack'[i] = oack[i + 1] /\ i + 1 # 1
      /\ \A i \in DOMAIN oack : i = 1 \/ (i - 1 \in DOMAIN oack' /\ oack'[i - 1] = oack[i])
      /\ \A i \in DOMAIN oack' : i \in Int
  BY <1>1 DEF NegInv, OackInv
<1> HIDE DEF o, v
<1>4. /\ DOMAIN optack = {"options", "window", "blksize", "tsize"}
      /\ optreq.options \subseteq {"blksize", "windowsize", "tsize"}
  BY Zenon DEF NegInv, OackInv, RequestInv, NoOptreq
<1>5. PairValid(optack, o, v) =>
        /\ o \in optreq.options
        /\ DOMAIN optack' = DOMAIN optack /\ taken' = Append(taken, o) /\ phase' = phase
        /\ optack'.options \subseteq optack.options \cup {o}
        /\ optack'.blksize = IF o = "blksize" THEN v ELSE optack.blksize
        /\ optack'.window = IF o = "windowsize" THEN v ELSE optack.window
        /\ o = "blksize" => v \in MIN_SEGSIZE..optreq.blksize
        /\ o = "windowsize" => v \in 1..optreq.window
  BY <1>1, <1>4, Zenon DEF PairValid, TakePair
<1>6. OackInv'
  <2>1. taken' \in Seq(optreq.options)
    <3>1. taken \in Seq(optreq.options)
      BY DEF NegInv, OackInv
    <3>2. o \in optreq.options => Append(taken, o) \in Seq(optreq.options)
      BY <3>1
    <3> QED
      BY <1>1, <1>5, <3>1, <3>2, Zenon
  <2>2. DOMAIN optack' = DOMAIN NoOptreq
    BY <1>1, <1>5 DEF NegInv, OackInv
  <2>3. optack'.window \in 1..optreq.window
    BY <1>1, <1>5 DEF NegInv, OackInv
  <2>4. optack'.blksize \in MIN_SEGSIZE..Greater(SEGSIZE, optreq.blksize)
    <3>1. \A x \in MIN_SEGSIZE..optreq.blksize : x \in MIN_SEGSIZE..Greater(SEGSIZE, optreq.blksize)
      BY Sizes DEF Greater, NegInv, RequestInv
    <3> QED
      BY <1>1, <1>5, <3>1 DEF NegInv, OackInv
  <2>5. phase' \in {"oack", "invalid"}
    BY <1>1
  <2> QED
    BY <1>1, <1>3, <2>1, <2>2, <2>3, <2>4, <2>5 DEF OackInv
<1>7. GrantInv'
  <2> SUFFICES ASSUME Settled, requester = "this" PROVE GrantInv'
    BY <1>1 DEF GrantInv, Settled
  <2>0. /\ granted["blksize"] \in {NoValue} \cup (MIN_SEGSIZE..optreq.blksize)
        /\ granted["windowsize"] \in {NoValue} \cup (1..optreq.window)
        /\ segsize = IF granted["blksize"] = NoValue THEN SEGSIZE ELSE granted["blksize"]
        /\ windowsize = IF granted["windowsize"] = NoValue THEN 1 ELSE granted["windowsize"]
        /\ \A i \in DOMAIN oack :
             /\ oack[i][1] \in optreq.options \ optack.options
             /\ oack[i][2] # BadValue /\ oack[i][2] # NoValue
             /\ oack[i][2] = granted[oack[i][1]]
        /\ \A i, j \in DOMAIN oack : i # j => oack[i][1] # oack[j][1]
        /\ \/ \E i \in DOMAIN oack : oack[i][1] = "blksize"
           \/ optack.blksize = segsize
        /\ \/ \E i \in DOMAIN oack : oack[i][1] = "windowsize"
           \/ optack.window = windowsize
    BY DEF NegInv, GrantInv
  <2>1. /\ o \in optreq.options /\ o \notin optack.options /\ v # BadValue /\ v # NoValue
        /\ v = granted[o]
    BY <1>3, <2>0
  <2>2. PairValid(optack, o, v)
    BY <2>0, <2>1 DEF PairValid
  <2>3. \A i \in DOMAIN oack' :
          /\ oack'[i][1] \in optreq.options \ optack'.options
          /\ oack'[i][2] # BadValue /\ oack'[i][2] # NoValue
          /\ oack'[i][2] = granted[oack'[i][1]]
    <3> SUFFICES ASSUME NEW i \in DOMAIN oack'
                 PROVE  /\ oack'[i][1] \in optreq.options \ optack'.options
                        /\ oack'[i][2] # BadValue /\ oack'[i][2] # NoValue
                        /\ oack'[i][2] = granted[oack'[i][1]]
      OBVIOUS
    <3>1. i + 1 \in DOMAIN oack /\ oack'[i] = oack[i + 1] /\ i + 1 # 1
      BY <1>3
    <3>2. oack[i + 1][1] # o
      BY <1>3, <2>0, <3>1
    <3> QED
      BY <1>5, <2>0, <2>2, <3>1, <3>2
  <2>4. \A i, j \in DOMAIN oack' : i # j => oack'[i][1] # oack'[j][1]
    <3> SUFFICES ASSUME NEW i \in DOMAIN oack', NEW j \in DOMAIN oack', i # j
                 PROVE  oack'[i][1] # oack'[j][1]
      OBVIOUS
    <3>1. i + 1 # j + 1
      BY <1>3
    <3>2. i + 1 \in DOMAIN oack /\ oack'[i] = oack[i + 1] /\ j + 1 \in DOMAIN oack
          /\ oack'[j] = oack[j + 1]
      BY <1>3
    <3> QED
      BY <2>0, <3>1, <3>2
  <2>5. \/ \E i \in DOMAIN oack' : oack'[i][1] = "blksize"
        \/ optack'.blksize = segsize
    <3>1. CASE o = "blksize"
      BY <1>5, <2>0, <2>1, <2>2, <3>1
    <3>2. ASSUME o # "blksize", NEW i \in DOMAIN oack, oack[i][1] = "blksize"
          PROVE  \E j \in DOMAIN oack' : oack'[j][1] = "blksize"
      <4>1. i # 1
        BY <1>3, <3>2
      <4> QED
        BY <1>3, <3>2, <4>1
    <3>3. CASE o # "blksize" /\ optack.blksize = segsize
      BY <1>5, <2>2, <3>3
    <3> QED
      BY <2>0, <3>1, <3>2, <3>3
  <2>6. \/ \E i \in DOMAIN oack' : oack'[i][1] = "windowsize"
        \/ optack'.window = windowsize
    <3>1. CASE o = "windowsize"
      BY <1>5, <2>0, <2>1, <2>2, <3>1
    <3>2. ASSUME o # "windowsize", NEW i \in DOMAIN oack, oack[i][1] = "windowsize"
          PROVE  \E j \in DOMAIN oack' : oack'[j][1] = "windowsize"
      <4>1. i # 1
        BY <1>3, <3>2
      <4> QED
        BY <1>3, <3>2, <4>1
    <3>3. CASE o # "windowsize" /\ optack.window = windowsize
      BY <1>5, <2>2, <3>3
    <3> QED
      BY <2>0, <3>1, <3>2, <3>3
  <2>7. phase' # "invalid"
    BY <1>1, <2>2
  <2> QED
    BY <1>1, <2>0, <2>3, <2>4, <2>5, <2>6, <2>7 DEF GrantInv
<1> QED
  BY <1>2, <1>6, <1>7 DEF NegInv

-----------------------------------------------------------------------------
\* The inductive invariant holds for any limits, configurations, requests and replies.
THEOREM NegInvariance == NegSpec => []NegInv
<1>1. NegInit => NegInv
  <2> SUFFICES ASSUME NegInit PROVE NegInv
    OBVIOUS
  <2>1. RequestInv
    BY Sizes DEF NegInit, RequestInv, NoOptions, NoOptreq
  <2>2. OackInv
    BY Sizes DEF NegInit, OackInv, NoOptreq, Greater
  <2>3. ~Settled
    BY DEF NegInit, Settled
  <2> QED
    BY <2>1, <2>2, <2>3, Unsettled DEF NegInv
<1>2. NegInv /\ [NegNext]_negVars => NegInv'
  <2> SUFFICES ASSUME NegInv, [NegNext]_negVars PROVE NegInv'
    OBVIOUS
  <2>1. CASE UNCHANGED negVars
    <3>1. UNCHANGED <<cfg, requester, replier, todo, oack, requested, granted, segsize, windowsize,
                      rexmtval, optreq, optack, taken, phase>>
      BY <2>1 DEF negVars, serverVars, params, clientVars
    <3>2. RequestInv'
      BY <3>1, Zenon DEF NegInv, RequestInv
    <3>3. OackInv'
      BY <3>1, Zenon DEF NegInv, OackInv
    <3>4. GrantInv' /\ GrantIsKept'
      BY <3>1, Zenon DEF NegInv, GrantInv, GrantIsKept, Settled
    <3> QED
      BY <3>2, <3>3, <3>4 DEF NegInv
  <2> QED
    BY <2>1, RequestStep, ParseStep, AnswerStep, ArriveStep, OackStep DEF NegNext
<1> QED
  BY <1>1, <1>2, PTL DEF NegSpec

\* parse_oack accepts every OACK that negotiate_options builds for makerequest's options,
\* and both ends then use the same block and window size; and whatever another server
\* answers, the client uses no more than it asked for.
THEOREM EndsAgree == NegSpec => []Agreement
<1>1. NegInv => Agreement
  BY DEF NegInv, OackInv, GrantInv, Agreement
<1> QED
  BY <1>1, NegInvariance, PTL

\* negotiate_options uses what it grants and grants what was asked, within the limits of
\* the command line.
THEOREM GrantsAreKept == NegSpec => []GrantIsKept
<1>1. NegInv => GrantIsKept
  BY DEF NegInv
<1> QED
  BY <1>1, NegInvariance, PTL

=============================================================================
