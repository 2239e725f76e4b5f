---------------------------- MODULE ClientProofs ----------------------------
(***************************************************************************)
(* A session of the client, for any hosts, files, commands, file length and *)
(* time limit, against a server that may fork a worker for every copy of a  *)
(* request: what a command reports is true.                                 *)
(*                                                                          *)
(* The inductive invariant follows a transfer through the program.  Up to   *)
(* the block that is awaited, the local file is the file of the host; what  *)
(* the socket holds was sent by a worker of this request, and a worker has  *)
(* stored what it acknowledges; the arguments before the current one are    *)
(* done unless an error was remembered; and the jump buffer is that of the  *)
(* function that waits, unless a transfer was left inside the engine.       *)
(***************************************************************************)
EXTENDS TftpClient, TLAPS

USE DEF InEngine

\* Where a command is, and where its transfer has a socket.
Busy == {"arg", "resolve", "open", "socket", "request"} \cup InEngine
Transfer == {"request"} \cup InEngine

\* What is done before the argument the command is at, and after it.  A get of one file
\* comes to its second name only if it has done nothing.
DoneBefore == IF cmd.single THEN done = {} ELSE ~err => done = 1..(n - 1)
DoneAfter ==
  IF cmd.single
  THEN /\ n < Len(cmd.args) => done = {}
       /\ ~err => done = {1} \/ (done = {2} /\ Len(cmd.args) = 2)
  ELSE ~err => done = 1..n

\* The command and the argument it is at.
CommandInv ==
  /\ pc \in Busy \cup {"prompt", "next", "end", "undefined"}
  /\ cmd \in Commands \cup {NoCommand} /\ n \in Nat /\ err \in BOOLEAN
  /\ pc \in Busy =>
       /\ cmd \in Commands /\ cmd.op # "mode" /\ n \in 1..Len(cmd.args)
       /\ cmd.op # "connect" => DoneBefore
  /\ pc = "resolve" => Arg.host # NoHost /\ serv.host = Arg.host
  /\ pc = "open" => cmd.op # "connect"
  /\ pc \in {"socket"} \cup Transfer => cmd.op # "connect"
  /\ pc = "next" =>
       /\ cmd \in Commands
       /\ cmd.op \in {"get", "put"} => n <= Len(cmd.args) /\ DoneAfter

\* serv is what set_transfer_host has made of it.
HostInv ==
  /\ DOMAIN serv = {"connected", "addr", "host"} /\ serv.addr \in {NoHost, serv.host}
  /\ serv.connected \in BOOLEAN /\ alias \in BOOLEAN
  /\ pc = "resolve" => serv.addr = NoHost
  /\ ServIsWhole

\* The jump buffer is that of the function that waits.
JumpInv ==
  left \cap InEngine = {} /\ pc # "undefined" =>
    jmpbuf = IF pc \in InEngine THEN "retrybuf" ELSE "timeoutbuf"

\* The server's workers serve the request of this transfer; what they acknowledge they
\* have, and what the socket holds was sent by them.
NetInv ==
  IF pc \in Transfer
  THEN /\ serv.addr # NoHost
       /\ workers \in Seq([host : {serv.host}, op : {cmd.op}, file : {Arg.file},
                           opening : {"OACK", "ACK", "DATA"}])
       /\ DOMAIN seen = DOMAIN workers /\ DOMAIN sent = DOMAIN workers
       /\ seen \in Seq(-1..NBlocks) /\ sent \in Seq(SUBSET (0..NBlocks))
       /\ reqs = {Request}
       /\ \A m \in queue : /\ m.from \in DOMAIN workers /\ m.num \in Nat
                           /\ m.op = "ACK" /\ m.num > 0 => m.num <= seen[m.from]
       /\ peer.connected \/ pc # "request" => peer.tid \in DOMAIN workers
       /\ pc # "request" => block \in 1..NBlocks
       /\ pc = "flush" => Fetches
       /\ pc = "resend" => ~Fetches
  ELSE pc # "undefined" => workers = <<>> /\ sent = <<>> /\ seen = <<>> /\ queue = {}

\* The file that is fetched has the blocks before the one that is awaited, and a block
\* is in the stream's buffer only until it is flushed.
FileInv ==
  /\ pc # "end" => DOMAIN disk = LocalNames
  /\ DOMAIN kept = LocalNames
  /\ Fetches /\ pc \in {"socket"} \cup Transfer =>
       /\ DOMAIN stream = {"name", "off", "buf"}
       /\ stream.name = LocalName /\ kept[LocalName] = NoHost
       /\ stream.off = (IF pc \in {"engine", "flush"} THEN block - 1 ELSE 0)
       /\ disk[LocalName] = [b \in 1..stream.off |-> <<serv.host, Arg.file, b>>]
       /\ stream.buf = IF pc = "flush" THEN <<<<serv.host, Arg.file, block>>>> ELSE <<>>
  /\ ~(Fetches /\ pc \in {"socket"} \cup Transfer) /\ pc # "undefined" => stream = NoStream
  /\ leaked # {} => "flush" \in left
  /\ GotStays

ClientInv == CommandInv /\ HostInv /\ JumpInv /\ NetInv /\ FileInv /\ ZeroMeansDone

-----------------------------------------------------------------------------
\* exit flushes nothing when every stream was closed.
LEMMA NothingToFlush ==
  FoldSet(LAMBDA s, d : Flushed(d, s), disk, {}) = disk
<1> DEFINE Def(g) == [s \in SUBSET {} |->
             IF s = {} THEN disk
             ELSE Flushed(g[s \ {CHOOSE x \in s : TRUE}], CHOOSE x \in s : TRUE)]
           iter == CHOOSE g : g = Def(g)
           const == [s \in SUBSET {} |-> disk]
<1>1. const = Def(const)
  OBVIOUS
<1>2. iter = Def(iter)
  BY <1>1, Zenon
<1> HIDE DEF iter
<1>3. iter[{}] = disk
  BY <1>2
<1>4. FoldSet(LAMBDA s, d : Flushed(d, s), disk, {}) = iter[{}]
  BY DEF FoldSet, MapThenFoldSet, iter
<1> QED
  BY <1>3, <1>4, Zenon

\* An element of a sequence is of the sequence's set.
LEMMA ElementOf ==
  ASSUME NEW A, NEW q \in Seq(A), NEW v \in DOMAIN q
  PROVE  q[v] \in A
OBVIOUS

\* An element of a sequence of integers is one.
LEMMA IntElement ==
  ASSUME NEW R, R \subseteq Int, NEW q \in Seq(R), NEW v \in DOMAIN q
  PROVE  q[v] \in Int /\ q[v] >= q[v]
<1>1. q[v] \in Int
  BY ElementOf, Zenon
<1> QED
  BY <1>1

\* A worker is forked: nothing changes for those before it.
LEMMA OneMore ==
  ASSUME NEW A, NEW B, NEW C, workers \in Seq(A), seen \in Seq(B), sent \in Seq(C),
         DOMAIN seen = DOMAIN workers, DOMAIN sent = DOMAIN workers,
         NEW a \in A, NEW b \in B, NEW c \in C,
         workers' = Append(workers, a), seen' = Append(seen, b), sent' = Append(sent, c)
  PROVE  /\ workers' \in Seq(A) /\ seen' \in Seq(B) /\ sent' \in Seq(C)
         /\ DOMAIN seen' = DOMAIN workers' /\ DOMAIN sent' = DOMAIN workers'
         /\ \A w \in DOMAIN workers : w \in DOMAIN workers' /\ seen'[w] = seen[w]
<1>1. workers' \in Seq(A) /\ Len(workers') = Len(workers) + 1
  OBVIOUS
<1>2. seen' \in Seq(B) /\ Len(seen') = Len(seen) + 1
  OBVIOUS
<1>3. sent' \in Seq(C) /\ Len(sent') = Len(sent) + 1
  OBVIOUS
<1>4. Len(seen) = Len(workers) /\ Len(sent) = Len(workers) /\ Len(workers) \in Nat
  OBVIOUS
<1>5. \A w \in DOMAIN workers : w \in DOMAIN workers' /\ seen'[w] = seen[w]
  BY <1>1, <1>2, <1>4
<1> QED
  BY <1>1, <1>2, <1>3, <1>4, <1>5

\* A file has at least one block.
LEMMA NBlocksType == NBlocks \in Nat \ {0}
BY ClientAssumption

\* Commands are those a user may give.
LEMMA CommandTypes ==
  ASSUME NEW c \in Commands
  PROVE  /\ c.op \in {"connect", "get", "put", "mode"}
         /\ Len(c.args) \in Nat /\ DOMAIN c.args = 1..Len(c.args)
         /\ IF c.op = "mode" THEN Len(c.args) = 0 ELSE Len(c.args) >= 1
         /\ \A k \in 1..Len(c.args) :
              /\ c.args[k] \in [host : Hosts \cup {NoHost}, file : Names]
              /\ c.args[k].host \in Hosts \cup {NoHost} /\ c.args[k].file \in Names
              /\ c.op = "connect" => c.args[k].host # NoHost
         /\ c.single \in BOOLEAN
         /\ c.single => c.op = "get" /\ Len(c.args) \in {1, 2}
<1>1. /\ c.op \in {"connect", "get", "put", "mode"}
      /\ c.args \in Seq([host : Hosts \cup {NoHost}, file : Names])
      /\ c.op = "mode" <=> c.args = <<>>
      /\ c.single \in BOOLEAN /\ (c.single => c.op = "get" /\ Len(c.args) <= 2)
      /\ c.op = "connect" => \A k \in DOMAIN c.args : c.args[k].host # NoHost
  BY ClientAssumption, Zenon
<1> DEFINE args == c.args
           R == [host : Hosts \cup {NoHost}, file : Names]
<1>2. args \in Seq(R)
  BY <1>1
<1> HIDE DEF args, R
<1>3. /\ Len(args) \in Nat /\ DOMAIN args = 1..Len(args)
      /\ IF args = <<>> THEN Len(args) = 0 ELSE Len(args) >= 1
  BY <1>2
<1>4. \A k \in 1..Len(args) : args[k] \in R
  BY <1>2
<1>5. \A k \in 1..Len(args) : args[k].host \in Hosts \cup {NoHost} /\ args[k].file \in Names
  BY <1>4 DEF R
<1>6. \A k \in Nat : k >= 1 /\ k <= 2 => k \in {1, 2}
  OBVIOUS
<1> QED
  BY <1>1, <1>3, <1>4, <1>5, <1>6, Zenon DEF args, R

\* What may arrive was sent by a worker, and what it acknowledges it has.
LEMMA ArrivalFacts ==
  ASSUME ClientInv, pc \in Transfer, NEW m \in Arrivals
  PROVE  /\ m.from \in DOMAIN workers /\ m.num \in Nat
         /\ m.op = "ACK" /\ m.num > 0 => m.num <= seen[m.from]
<1>1. CASE m \in queue
  BY <1>1 DEF ClientInv, NetInv
<1>2. ASSUME NEW w \in DOMAIN workers, m \in Packets(w)
      PROVE  m.from = w /\ m.num \in Nat /\ (m.op = "ACK" /\ m.num > 0 => m.num <= seen[w])
  <2>1. seen[w] \in Int
    BY NBlocksType DEF ClientInv, NetInv
  <2> QED
    BY <1>2, <2>1 DEF Packets, Packet
<1>3. CASE m \notin queue
  <2>1. PICK w \in DOMAIN workers : m \in Packets(w)
    BY <1>3 DEF Arrivals
  <2> QED
    BY <1>2, <2>1
<1> QED
  BY <1>1, <1>3

\* The argument a command is at.
LEMMA ArgTypes ==
  ASSUME ClientInv, pc \in Busy
  PROVE  /\ cmd.op \in {"connect", "get", "put"} /\ Len(cmd.args) \in Nat
         /\ Arg.host \in Hosts \cup {NoHost} /\ Arg.file \in Names
         /\ cmd.op = "connect" => Arg.host # NoHost
         /\ cmd.single \in BOOLEAN /\ (cmd.single => cmd.op = "get" /\ Len(cmd.args) \in {1, 2})
BY CommandTypes DEF ClientInv, CommandInv, Arg

\* A get writes to a local name, which stays the same while the argument does.
LEMMA LocalTypes ==
  ASSUME ClientInv, pc \in Busy
  PROVE  /\ LocalName \in LocalNames
         /\ UNCHANGED <<cmd, n>> => LocalName' = LocalName
<1>1. /\ cmd \in Commands /\ n \in 1..Len(cmd.args) /\ Len(cmd.args) \in Nat
      /\ cmd.single \in BOOLEAN /\ (cmd.single => Len(cmd.args) \in {1, 2})
  BY ArgTypes DEF ClientInv, CommandInv
<1> DEFINE k == IF cmd.single THEN Len(cmd.args) ELSE n
<1>2. k \in 1..Len(cmd.args)
  BY <1>1
<1>3. cmd.args[k].file \in Names
  BY <1>1, <1>2, CommandTypes
<1>4. ASSUME cmd.single, Len(cmd.args) # 1, cmd.args[2].host # NoHost
      PROVE  cmd.args[2].host \in Hosts /\ cmd.args[2] \in [host : Hosts, file : Names]
  <2>1. 2 \in 1..Len(cmd.args)
    BY <1>1, <1>4
  <2>2. /\ cmd.args[2] \in [host : Hosts \cup {NoHost}, file : Names]
        /\ cmd.args[2].host \in Hosts \cup {NoHost}
    BY <1>1, <2>1, CommandTypes
  <2> QED
    BY <1>4, <2>2
<1>5. LocalName \in LocalNames
  <2>1. CASE ~cmd.single \/ Len(cmd.args) = 1 \/ cmd.args[2].host = NoHost
    BY <1>3, <2>1 DEF LocalName, LocalNames
  <2>2. CASE ~(~cmd.single \/ Len(cmd.args) = 1 \/ cmd.args[2].host = NoHost)
    BY <1>4, <2>2 DEF LocalName, LocalNames
  <2> QED
    BY <2>1, <2>2
<1>6. UNCHANGED <<cmd, n>> => LocalName' = LocalName
  BY DEF LocalName
<1> QED
  BY <1>5, <1>6

\* What the disk has after the stream of the transfer is flushed or closed.
LEMMA FlushedFacts ==
  ASSUME ClientInv, pc \in {"socket"} \cup Transfer
  PROVE  /\ pc # "flush" => Flushed(disk, stream) = disk
         /\ pc = "flush" =>
              Flushed(disk, stream) =
                [disk EXCEPT ![LocalName] = [b \in 1..block |-> <<serv.host, Arg.file, b>>]]
         /\ DOMAIN Flushed(disk, stream) = LocalNames
<1>1. CASE pc # "flush"
  <2>1. stream.buf = <<>>
    BY <1>1 DEF ClientInv, FileInv, NoStream, Transfer
  <2> QED
    BY <1>1, <2>1 DEF Flushed, ClientInv, FileInv, Transfer
<1>2. CASE pc = "flush"
  <2>0. Fetches /\ block \in Nat \ {0}
    BY <1>2, NBlocksType DEF ClientInv, NetInv, Transfer
  <2>1. /\ stream.name = LocalName /\ stream.off = block - 1
        /\ stream.buf = <<<<serv.host, Arg.file, block>>>>
        /\ disk[LocalName] = [b \in 1..(block - 1) |-> <<serv.host, Arg.file, b>>]
        /\ DOMAIN disk = LocalNames
    BY <1>2, <2>0, Zenon DEF ClientInv, FileInv, Transfer
  <2>2. LocalName \in LocalNames
    BY <1>2, LocalTypes DEF Busy
  <2> DEFINE file == disk[LocalName]
             new == <<serv.host, Arg.file, block>>
  <2>3. Len(file) = block - 1
    BY <2>0, <2>1
  <2>4. Put(file, block, new) = [b \in 1..block |-> <<serv.host, Arg.file, b>>]
    <3>1. Put(file, block, new) =
            [i \in 1..block |-> IF i = block THEN new ELSE IF i <= block - 1 THEN file[i] ELSE "hole"]
      BY <2>0, <2>3 DEF Put
    <3>2. \A i \in 1..block : i # block => i <= block - 1 /\ file[i] = <<serv.host, Arg.file, i>>
      BY <2>0, <2>1
    <3> QED
      BY <3>1, <3>2, Zenon
  <2>5. Flushed(disk, stream) = [disk EXCEPT ![LocalName] = Put(file, block, new)]
    BY <2>0, <2>1 DEF Flushed
  <2> QED
    BY <1>2, <2>1, <2>4, <2>5, Zenon
<1> QED
  BY <1>1, <1>2

\* The end of a transfer keeps the invariant; it succeeds when the last block has
\* been flushed or acknowledged.
LEMMA ReturnInv ==
  ASSUME ClientInv, pc \in {"socket"} \cup Transfer, NEW ok \in BOOLEAN, Return(ok),
         ok => (pc = "flush" /\ block = NBlocks) \/ (pc = "engine" /\ ~Fetches)
  PROVE  ClientInv'
<1> USE DEF session, host, bounds
<1>1. CommandInv'
  <2>1. err' \in BOOLEAN
    BY Zenon DEF Return, FirstError
  <2>2. ~err' => ok /\ (~cmd.single => ~err)
    BY Zenon DEF Return, FirstError
  <2>3. /\ pc' = "next" /\ cmd' = cmd /\ done' = (IF ok THEN done \cup {n} ELSE done)
        /\ n' = (IF cmd.single THEN Len(cmd.args) ELSE n)
    BY DEF Return
  <2>4. /\ cmd \in Commands /\ n \in 1..Len(cmd.args) /\ Len(cmd.args) \in Nat
        /\ cmd.op # "connect" /\ DoneBefore
        /\ cmd.single \in BOOLEAN /\ (cmd.single => Len(cmd.args) \in {1, 2})
    BY ArgTypes DEF ClientInv, CommandInv, Busy, Transfer
  <2>5. CASE cmd.single
    <3>0. \A k \in {1, 2} : \A i \in 1..k : i \in {1, 2} /\ (i = 2 => k = 2)
      OBVIOUS
    <3>1. done = {} /\ n' = Len(cmd'.args) /\ n \in {1, 2} /\ (n = 2 => Len(cmd.args) = 2)
      BY <2>3, <2>4, <2>5, <3>0, Zenon DEF DoneBefore
    <3>2. ~err' => done' = {n}
      BY <2>2, <2>3, <3>1
    <3>3. DoneAfter'
      BY <2>3, <2>4, <2>5, <3>1, <3>2 DEF DoneAfter
    <3> QED
      BY <2>1, <2>3, <2>4, <2>5, <3>1, <3>3 DEF CommandInv, Busy, Transfer
  <2>6. CASE ~cmd.single
    <3>1. ~err' => done' = (1..(n - 1)) \cup {n}
      BY <2>2, <2>3, <2>4, <2>6 DEF DoneBefore
    <3>2. (1..(n - 1)) \cup {n} = 1..n
      BY <2>4
    <3>3. n' = n /\ cmd'.single = FALSE
      BY <2>3, <2>4, <2>6
    <3>4. DoneAfter'
      BY <3>1, <3>2, <3>3, Zenon DEF DoneAfter
    <3> QED
      BY <2>1, <2>3, <2>4, <3>3, <3>4 DEF CommandInv, Busy, Transfer
  <2> QED
    BY <2>5, <2>6
<1>2. HostInv'
  BY DEF Return, ClientInv, HostInv, ServIsWhole, Transfer
<1>3. JumpInv'
  BY DEF Return, RetryLeave, ClientInv, JumpInv, Transfer
<1>4. NetInv'
  BY DEF Return, Forget, NetInv, Transfer
<1>5. FileInv'
  <2>1. DOMAIN disk' = LocalNames
    BY FlushedFacts DEF Return
  <2>2. DOMAIN kept' = LocalNames
    BY DEF Return, ClientInv, FileInv
  <2>3. GotStays'
    <3> SUFFICES ASSUME "flush" \notin left, NEW f \in LocalNames, kept'[f] # NoHost
                 PROVE  disk'[f] = FileOn(kept'[f].host, kept'[f].file)
      BY DEF GotStays, Return
    <3>0. /\ disk' = Flushed(disk, stream) /\ DOMAIN disk = LocalNames /\ DOMAIN kept = LocalNames
          /\ kept' = IF ok /\ Fetches
                     THEN [kept EXCEPT ![LocalName] = [host |-> serv.host, file |-> Arg.file]]
                     ELSE kept
          /\ kept[f] # NoHost => disk[f] = FileOn(kept[f].host, kept[f].file)
      BY DEF Return, ClientInv, FileInv, GotStays, Transfer
    <3>1. CASE ~Fetches
      <4>1. pc # "flush"
        BY <3>1 DEF ClientInv, NetInv, Transfer
      <4> QED
        BY <3>0, <3>1, <4>1, FlushedFacts
    <3>2. CASE Fetches /\ f # LocalName
      <4>1. disk'[f] = disk[f]
        BY <3>0, <3>2, FlushedFacts
      <4> QED
        BY <3>0, <3>2, <4>1
    <3>3. CASE Fetches /\ f = LocalName
      <4>1. kept[f] = NoHost
        BY <3>3 DEF ClientInv, FileInv
      <4>2. ok /\ kept'[f] = [host |-> serv.host, file |-> Arg.file]
        BY <3>0, <3>3, <4>1
      <4>3. disk'[f] = [b \in 1..NBlocks |-> <<serv.host, Arg.file, b>>]
        BY <3>0, <3>3, <4>2, FlushedFacts
      <4> QED
        BY <4>2, <4>3 DEF FileOn
    <3> QED
      BY <3>1, <3>2, <3>3
  <2> QED
    BY <2>1, <2>2, <2>3 DEF Return, ClientInv, FileInv, Transfer
<1>6. ZeroMeansDone'
  BY DEF Return, ZeroMeansDone, Succeeds
<1> QED
  BY <1>1, <1>2, <1>3, <1>4, <1>5, <1>6 DEF ClientInv

\* siglongjmp(toplevel) keeps it, from wherever it is called.
LEMMA ToplevelInv ==
  ASSUME ClientInv, pc \notin {"end", "undefined"}, NEW st, st # "0", Toplevel(st, disk)
  PROVE  ClientInv'
<1>0. /\ cmd' = NoCommand /\ n' = 0 /\ err' = FALSE /\ done' = {} /\ stream' = NoStream
      /\ pc' \in {"end", "prompt"} /\ (pc' = "end" => status' = st)
      /\ left' = left \cup ({pc} \cap ({"resolve"} \cup InEngine))
      /\ disk' = disk /\ leaked' \subseteq leaked \cup {s \in {stream} : s.buf # <<>>}
      /\ UNCHANGED <<serv, alias, jmpbuf, kept>>
  BY DEF Toplevel, host
<1>1. CommandInv'
  BY <1>0, Zenon DEF CommandInv, NoCommand, Busy, Transfer
<1>2. HostInv'
  BY <1>0, Zenon DEF ClientInv, HostInv, ServIsWhole
<1>3. JumpInv'
  BY <1>0, Zenon DEF ClientInv, JumpInv
<1>4. NetInv'
  BY <1>0 DEF Toplevel, Forget, NetInv, Transfer
<1>5. FileInv'
  <2>1. stream.buf # <<>> => pc = "flush"
    BY DEF ClientInv, FileInv, NoStream
  <2>2. leaked' # {} => "flush" \in left'
    BY <1>0, <2>1, Zenon DEF ClientInv, FileInv
  <2> QED
    BY <1>0, <2>2 DEF ClientInv, FileInv, GotStays, Fetches, NoCommand, Transfer
<1>6. ZeroMeansDone'
  BY <1>0 DEF ZeroMeansDone, Succeeds
<1> QED
  BY <1>1, <1>2, <1>3, <1>4, <1>5, <1>6 DEF ClientInv

\* Nothing is said of what follows undefined behaviour but that the files on the disk
\* were right before it.
LEMMA UndefinedInv ==
  ASSUME ClientInv, pc \in {"socket", "request", "engine"}, Undefined
  PROVE  ClientInv'
<1> USE DEF Undefined, session, command, host, socket, files, bounds
<1>1. CommandInv'
  BY DEF ClientInv, CommandInv, Busy, Transfer
<1>2. HostInv' /\ JumpInv' /\ NetInv' /\ ZeroMeansDone'
  BY DEF ClientInv, HostInv, ServIsWhole, JumpInv, NetInv, ZeroMeansDone, Succeeds, Transfer
<1>3. FileInv'
  BY DEF ClientInv, FileInv, GotStays, Transfer
<1> QED
  BY <1>1, <1>2, <1>3 DEF ClientInv

\* What stays the same in the steps of a command before its request.
LEMMA CommandFrame ==
  ASSUME ClientInv, pc \in {"prompt", "next", "arg", "resolve", "open"},
         pc' \in {"prompt", "next", "arg", "resolve", "open", "end", "undefined"},
         UNCHANGED <<jmpbuf, left, workers, sent, seen, queue, files>>
  PROVE  JumpInv' /\ NetInv' /\ FileInv'
<1>1. JumpInv' /\ NetInv'
  BY DEF ClientInv, JumpInv, NetInv, Transfer
<1>2. FileInv'
  BY DEF ClientInv, FileInv, GotStays, Transfer, files
<1> QED
  BY <1>1, <1>2

\* Giving a command, and going on to its next argument, keep the invariant.
LEMMA GiveInv ==
  ASSUME ClientInv, (\E c \in Commands : Give(c)) \/ NextArg
  PROVE  ClientInv'
<1> USE DEF session, command, host, socket, net, bounds
<1>1. ASSUME NEW c \in Commands, Give(c) PROVE ClientInv'
  <2>1. /\ pc = "prompt" /\ pc' \in {"next", "arg"} /\ cmd' = c /\ done' = {}
        /\ IF c.op # "mode" /\ NoServer(c)
           THEN pc' = "next" /\ n' = Len(c.args) /\ err' = TRUE
           ELSE pc' = (IF c.op = "mode" THEN "next" ELSE "arg") /\ n' = 1 /\ err' = FALSE
        /\ UNCHANGED <<serv, alias, jmpbuf, left, workers, sent, seen, queue, files, status>>
    BY <1>1 DEF Give
  <2>2. CommandInv'
    <3>1. /\ Len(c.args) \in Nat /\ c.op \in {"connect", "get", "put", "mode"}
          /\ (c.op # "mode" => Len(c.args) >= 1) /\ c.single \in BOOLEAN
      BY CommandTypes
    <3>2. CASE c.op # "mode" /\ NoServer(c)
      BY <2>1, <3>1, <3>2 DEF CommandInv, DoneAfter, Busy, Transfer
    <3>3. CASE ~(c.op # "mode" /\ NoServer(c))
      <4>1. pc' = (IF c.op = "mode" THEN "next" ELSE "arg") /\ n' = 1 /\ err' = FALSE
            /\ cmd' = c /\ done' = {}
        BY <2>1, <3>3
      <4>2. CASE c.op = "mode"
        BY <3>1, <4>1, <4>2, Zenon DEF CommandInv, Busy, Transfer
      <4>3. CASE c.op # "mode"
        <5>1. /\ pc' = "arg" /\ n' \in 1..Len(cmd'.args) /\ n' \in Nat
              /\ cmd'.op # "mode" /\ cmd' \in Commands
          BY <3>1, <4>1, <4>3
        <5>2. 1..(n' - 1) = {}
          BY <4>1
        <5>3. DoneBefore'
          BY <4>1, <5>2 DEF DoneBefore
        <5> QED
          BY <4>1, <4>3, <5>1, <5>3, Zenon DEF CommandInv, Busy, Transfer
      <4> QED
        BY <4>2, <4>3
    <3> QED
      BY <3>2, <3>3
  <2>3. HostInv'
    BY <2>1 DEF ClientInv, HostInv, ServIsWhole
  <2>4. ZeroMeansDone'
    BY <2>1 DEF ZeroMeansDone, Succeeds
  <2> QED
    BY <2>1, <2>2, <2>3, <2>4, CommandFrame DEF ClientInv
<1>2. CASE NextArg
  <2>1. /\ pc = "next" /\ pc' \in {"arg", "end", "prompt"}
        /\ UNCHANGED <<serv, alias, jmpbuf, left, workers, sent, seen, queue, files, iscmd>>
    BY <1>2 DEF NextArg
  <2>2. /\ cmd \in Commands /\ n \in Nat /\ err \in BOOLEAN
        /\ cmd.op \in {"get", "put"} => n <= Len(cmd.args) /\ DoneAfter
        /\ DOMAIN cmd.args = 1..Len(cmd.args) /\ cmd.single \in BOOLEAN
        /\ Len(cmd.args) \in Nat /\ (cmd.op = "mode" => Len(cmd.args) = 0)
        /\ cmd.op \in {"connect", "get", "put", "mode"}
    BY <2>1, CommandTypes DEF ClientInv, CommandInv
  <2>5. ASSUME n < Len(cmd.args) PROVE CommandInv' /\ ZeroMeansDone'
    <3>1. pc' = "arg" /\ n' = n + 1 /\ UNCHANGED <<status, cmd, err, done>>
      BY <1>2, <2>5 DEF NextArg
    <3>2. n' - 1 = n /\ n' \in 1..Len(cmd.args) /\ cmd.op # "mode"
      BY <2>2, <2>5, <3>1
    <3>3. cmd.op # "connect" => DoneBefore'
      BY <2>2, <2>5, <3>1, <3>2 DEF DoneBefore, DoneAfter
    <3> QED
      BY <2>2, <3>1, <3>2, <3>3 DEF CommandInv, ZeroMeansDone, Succeeds, Busy, Transfer
  <2>6. ASSUME ~(n < Len(cmd.args)), iscmd /\ ~SetsPeer PROVE CommandInv' /\ ZeroMeansDone'
    <3>1. pc' = "end" /\ status' = (IF err THEN "failed" ELSE "0") /\ UNCHANGED <<cmd, n, err, done>>
      BY <1>2, <2>6 DEF NextArg
    <3>2. CommandInv'
      BY <2>2, <3>1 DEF CommandInv, Busy, Transfer
    <3>3. ASSUME cmd.op \in {"get", "put"}, ~err
          PROVE  done = Wanted \/ (cmd.single /\ Len(cmd.args) = 2 /\ done = {2})
      <4>1. n = Len(cmd.args) /\ DoneAfter
        BY <2>2, <2>6, <3>3
      <4> QED
        BY <2>2, <3>3, <4>1 DEF DoneAfter, Wanted
    <3>4. Wanted' = Wanted
      BY <3>1 DEF Wanted
    <3>5. ZeroMeansDone'
      BY <2>2, <3>1, <3>3, <3>4 DEF ZeroMeansDone, Succeeds
    <3> QED
      BY <3>2, <3>5
  <2>7. ASSUME ~(n < Len(cmd.args)), ~(iscmd /\ ~SetsPeer) PROVE CommandInv' /\ ZeroMeansDone'
    <3>1. pc' = "prompt" /\ cmd' = NoCommand /\ n' = 0 /\ err' = FALSE /\ done' = {}
      BY <1>2, <2>7 DEF NextArg
    <3> QED
      BY <3>1, Zenon DEF CommandInv, ZeroMeansDone, Succeeds, Busy, Transfer
  <2>3. HostInv'
    BY <2>1 DEF ClientInv, HostInv, ServIsWhole
  <2> QED
    BY <2>1, <2>3, <2>5, <2>6, <2>7, CommandFrame DEF ClientInv
<1> QED
  BY <1>1, <1>2

\* quit, and exit's flush.
LEMMA QuitInv ==
  ASSUME ClientInv, Quit
  PROVE  ClientInv'
<1>1. /\ pc = "prompt" /\ pc' = "end" /\ ~iscmd /\ iscmd' = iscmd
      /\ UNCHANGED <<cmd, n, err, done, serv, alias, jmpbuf, left, stream, leaked, kept>>
      /\ UNCHANGED <<workers, sent, seen, queue>>
  BY Zenon DEF Quit, session, command, host, socket, net, bounds
<1>2. CommandInv' /\ HostInv' /\ JumpInv' /\ NetInv'
  BY <1>1 DEF ClientInv, CommandInv, HostInv, ServIsWhole, JumpInv, NetInv, Busy, Transfer
<1>3. GotStays'
  <2>1. CASE "flush" \in left
    BY <1>1, <2>1 DEF GotStays
  <2>2. CASE "flush" \notin left
    <3>1. leaked = {}
      BY <2>2 DEF ClientInv, FileInv
    <3>2. disk' = FoldSet(LAMBDA s, d : Flushed(d, s), disk, {})
      BY <3>1, Zenon DEF Quit
    <3>3. disk' = disk
      BY <3>2, NothingToFlush, Zenon
    <3> QED
      BY <1>1, <3>3 DEF ClientInv, FileInv, GotStays
  <2> QED
    BY <2>1, <2>2
<1>4. FileInv'
  BY <1>1, <1>3 DEF ClientInv, FileInv, Transfer
<1>5. ZeroMeansDone'
  BY <1>1 DEF ZeroMeansDone, Succeeds
<1> QED
  BY <1>2, <1>4, <1>5 DEF ClientInv

\* set_transfer_host.
LEMMA SetHostInv ==
  ASSUME ClientInv, SetHost \/ Resolved \/ NotResolved
  PROVE  ClientInv'
<1> USE DEF session, command, host, socket, net, bounds
<1>0. /\ pc \in {"arg", "resolve"} /\ pc' \in {"next", "resolve", "open", "undefined"}
      /\ UNCHANGED <<jmpbuf, left, workers, sent, seen, queue, files, cmd, done>>
  BY DEF SetHost, Resolved, NotResolved
<1>1. JumpInv' /\ NetInv' /\ FileInv'
  BY <1>0, CommandFrame
<1>2. ZeroMeansDone'
  BY <1>0 DEF ZeroMeansDone, Succeeds
<1>3. /\ cmd \in Commands /\ cmd.op \in {"connect", "get", "put"} /\ Len(cmd.args) \in Nat
      /\ n \in 1..Len(cmd.args) /\ n \in Nat /\ err \in BOOLEAN
      /\ cmd.single \in BOOLEAN /\ (cmd.single => cmd.op = "get") /\ DOMAIN serv = {"connected", "addr", "host"} /\ serv.connected \in BOOLEAN
      /\ alias \in BOOLEAN /\ (cmd.op # "connect" => DoneBefore)
  BY <1>0, ArgTypes DEF ClientInv, CommandInv, HostInv, Busy
<1>4. CASE SetHost
  <2>1. /\ pc = "arg" /\ pc' \in {"resolve", "undefined"} /\ (pc' = "undefined" => alias)
        /\ UNCHANGED <<n, err>> /\ alias' = TRUE /\ Arg.host # NoHost
        /\ serv'.addr = NoHost /\ serv'.host = Arg.host /\ serv'.connected = serv.connected
        /\ DOMAIN serv' = DOMAIN serv
    BY <1>3, <1>4 DEF SetHost
  <2>0. cmd.op # "connect" => DoneBefore'
    BY <1>0, <1>3, <2>1 DEF DoneBefore
  <2>2. CommandInv'
    BY <1>0, <1>3, <2>0, <2>1 DEF CommandInv, Busy, Transfer, Arg
  <2>3. HostInv'
    <3>1. pc' = "undefined" /\ "resolve" \notin left => ~serv.connected
      BY <2>1, Zenon DEF ClientInv, HostInv, ServIsWhole
    <3>2. ServIsWhole'
      BY <1>0, <2>1, <3>1 DEF ServIsWhole
    <3> QED
      BY <1>3, <2>1, <3>2 DEF HostInv
  <2> QED
    BY <1>1, <1>2, <2>2, <2>3 DEF ClientInv
<1>5. CASE Resolved
  <2>1. /\ pc = "resolve" /\ pc' = (IF cmd.op = "connect" THEN "next" ELSE "open")
        /\ UNCHANGED <<n, err>> /\ alias' = FALSE
        /\ serv'.addr = Arg.host /\ serv'.host = serv.host /\ serv'.connected = TRUE
        /\ DOMAIN serv' = DOMAIN serv /\ serv.host = Arg.host
    BY <1>3, <1>5 DEF Resolved, ClientInv, CommandInv
  <2>0. cmd.op # "connect" => DoneBefore'
    BY <1>0, <1>3, <2>1 DEF DoneBefore
  <2>2. CommandInv'
    BY <1>0, <1>3, <2>0, <2>1 DEF CommandInv, Busy, Transfer, Arg
  <2>3. HostInv'
    BY <1>3, <2>1, Zenon DEF HostInv, ServIsWhole
  <2> QED
    BY <1>1, <1>2, <2>2, <2>3 DEF ClientInv
<1>6. CASE NotResolved
  <2>1. /\ pc = "resolve" /\ pc' = "next" /\ n' = (IF Fetches THEN n ELSE Len(cmd.args))
        /\ err' = TRUE /\ alias' = alias /\ serv'.addr = serv.addr /\ serv'.host = serv.host
        /\ serv'.connected = FALSE /\ DOMAIN serv' = DOMAIN serv
    BY <1>3, <1>6 DEF NotResolved
  <2>0. cmd.op # "connect" => DoneAfter'
    BY <1>0, <1>3, <2>1 DEF DoneBefore, DoneAfter
  <2>2. CommandInv'
    BY <1>0, <1>3, <2>0, <2>1 DEF CommandInv, Busy, Transfer, Fetches
  <2>3. HostInv'
    BY <1>3, <2>1, Zenon DEF ClientInv, HostInv, ServIsWhole
  <2> QED
    BY <1>1, <1>2, <2>2, <2>3 DEF ClientInv
<1> QED
  BY <1>4, <1>5, <1>6

\* Opening the local file.
LEMMA OpenLocalInv ==
  ASSUME ClientInv, OpenLocal \/ OpenLocalFails
  PROVE  ClientInv'
<1> USE DEF session, command, host, socket, net, bounds
<1>0. /\ pc \in {"arg", "open"} /\ (pc = "arg" => Arg.host = NoHost)
      /\ UNCHANGED <<jmpbuf, left, workers, sent, seen, queue, cmd, done, serv, alias, leaked>>
  BY DEF OpenLocal, OpenLocalFails, files
<1>1. /\ cmd \in Commands /\ cmd.op \in {"get", "put"} /\ Len(cmd.args) \in Nat
      /\ n \in 1..Len(cmd.args) /\ n \in Nat /\ err \in BOOLEAN /\ DoneBefore
      /\ cmd.single \in BOOLEAN /\ LocalName \in LocalNames
  BY <1>0, ArgTypes, LocalTypes DEF ClientInv, CommandInv, Busy
<1>2. HostInv' /\ ZeroMeansDone'
  BY <1>0 DEF ClientInv, HostInv, ServIsWhole, ZeroMeansDone, Succeeds, OpenLocal, OpenLocalFails
<1>3. CASE OpenLocal
  <2>1. pc' = "socket" /\ err' = err /\ n' = n
    BY <1>3 DEF OpenLocal
  <2>2. CommandInv'
    <3>1. DoneBefore'
      BY <1>0, <1>1, <2>1 DEF DoneBefore
    <3> QED
      BY <1>0, <1>1, <2>1, <3>1 DEF CommandInv, Busy, Transfer
  <2>3. JumpInv' /\ NetInv'
    BY <1>0, <2>1 DEF ClientInv, JumpInv, NetInv, Transfer
  <2>4. FileInv'
    <3>1. DOMAIN disk = LocalNames /\ DOMAIN kept = LocalNames /\ stream = NoStream /\ GotStays
          /\ (leaked # {} => "flush" \in left)
      BY <1>0 DEF ClientInv, FileInv, Transfer
    <3>2. CASE Fetches
      <4>1. /\ disk' = [disk EXCEPT ![LocalName] = <<>>]
            /\ kept' = [kept EXCEPT ![LocalName] = NoHost]
            /\ stream' = [name |-> LocalName, off |-> 0, buf |-> <<>>]
        BY <1>3, <3>2 DEF OpenLocal
      <4>2. GotStays'
        BY <1>0, <1>1, <3>1, <4>1 DEF GotStays
      <4>3. /\ Arg' = Arg /\ Fetches' /\ LocalName' = LocalName
            /\ disk'[LocalName] = <<>> /\ kept'[LocalName] = NoHost
            /\ DOMAIN disk' = LocalNames /\ DOMAIN kept' = LocalNames
        BY <1>0, <1>1, <2>1, <3>1, <3>2, <4>1, LocalTypes DEF Arg, Fetches, Busy
      <4>4. \A v : [b \in 1..0 |-> <<serv'.host, v, b>>] = <<>>
        OBVIOUS
      <4> QED
        BY <1>0, <2>1, <3>1, <4>1, <4>2, <4>3, <4>4 DEF FileInv, Transfer
    <3>3. CASE ~Fetches
      <4>1. UNCHANGED <<disk, kept, stream>> /\ ~Fetches'
        BY <1>0, <1>3, <3>3 DEF OpenLocal, Fetches
      <4> QED
        BY <1>0, <2>1, <3>1, <4>1 DEF FileInv, GotStays
    <3> QED
      BY <3>2, <3>3
  <2> QED
    BY <1>2, <2>1, <2>2, <2>3, <2>4 DEF ClientInv
<1>4. CASE OpenLocalFails
  <2>1. /\ pc' = "next" /\ err' = TRUE /\ UNCHANGED files
        /\ n' = IF cmd.single THEN Len(cmd.args) ELSE n
    BY <1>4 DEF OpenLocalFails
  <2>2. DoneAfter'
    BY <1>0, <1>1, <2>1 DEF DoneAfter
  <2>3. CommandInv'
    BY <1>0, <1>1, <2>1, <2>2 DEF CommandInv, Busy, Transfer
  <2> QED
    BY <1>0, <1>2, <2>1, <2>3, CommandFrame DEF ClientInv
<1> QED
  BY <1>3, <1>4

\* Sending the request.
LEMMA OpenSocketInv ==
  ASSUME ClientInv, OpenSocket \/ OpenSocketFails \/ NoMode
  PROVE  ClientInv'
<1>1. CASE OpenSocket
  <2>1. /\ pc = "socket" /\ pc' = "request" /\ serv.addr # NoHost /\ reqs' = {Request}
        /\ peer'.connected = FALSE
        /\ UNCHANGED <<cmd, n, err, done, serv, alias, queue, jmpbuf, files, workers, sent, seen>>
        /\ UNCHANGED <<left, status, iscmd>>
    BY <1>1, SMTT(30) DEF OpenSocket, session, command, host, bounds
  <2>2. CommandInv' /\ HostInv' /\ JumpInv' /\ ZeroMeansDone'
    <3>1. DoneBefore => DoneBefore'
      BY <2>1, Zenon DEF DoneBefore
    <3>2. CommandInv'
      BY <2>1, <3>1 DEF ClientInv, CommandInv, Busy, Transfer, Arg
    <3>3. HostInv' /\ JumpInv' /\ ZeroMeansDone'
      BY <2>1 DEF ClientInv, HostInv, ServIsWhole, JumpInv, ZeroMeansDone, Succeeds, Transfer
    <3> QED
      BY <3>2, <3>3
  <2>3. NetInv'
    <3>1. workers = <<>> /\ sent = <<>> /\ seen = <<>> /\ queue = {}
      BY <2>1 DEF ClientInv, NetInv, Transfer
    <3>2. Request' = Request
      BY <2>1 DEF Request, Arg
    <3> QED
      BY <2>1, <3>1, <3>2 DEF NetInv, Transfer
  <2>4. FileInv'
    <3>1. Arg' = Arg /\ Fetches' = Fetches /\ LocalName' = LocalName
      BY <2>1, Zenon DEF Arg, Fetches, LocalName
    <3>2. UNCHANGED <<stream, leaked, disk, kept>>
      BY <2>1 DEF files
    <3>3. GotStays'
      BY <2>1, <3>2, Zenon DEF ClientInv, FileInv, GotStays
    <3> QED
      BY <2>1, <3>1, <3>2, <3>3 DEF ClientInv, FileInv, Transfer
  <2> QED
    BY <2>2, <2>3, <2>4 DEF ClientInv
<1>2. CASE pc = "socket" /\ Return(FALSE)
  BY <1>2, ReturnInv, Zenon
<1>3. CASE pc = "socket" /\ Undefined
  BY <1>3, UndefinedInv
<1> QED
  BY <1>1, <1>2, <1>3, Zenon DEF OpenSocketFails, NoMode

\* recvfrom connects the socket to a worker of this request, and leaves in it what a
\* worker has sent.
LEMMA ReceiveFacts ==
  ASSUME ClientInv, pc \in Transfer, NEW m \in Arrivals, Receive(m)
  PROVE  peer'.tid \in DOMAIN workers /\ queue' \subseteq Arrivals
<1>1. m.from \in DOMAIN workers
  BY ArrivalFacts
<1>2. CASE peer.connected
  <2>1. queue' \subseteq queue /\ peer' = peer
    BY <1>2 DEF Receive
  <2> QED
    BY <1>2, <2>1 DEF ClientInv, NetInv, Arrivals
<1>3. CASE ~peer.connected
  BY <1>1, <1>3 DEF Receive
<1> QED
  BY <1>2, <1>3

\* What is sent to a worker is an ACK or a block of the file.
LEMMA SendFacts ==
  ASSUME ClientInv, pc \in Transfer, NEW w \in DOMAIN workers, NEW k \in 0..NBlocks, Send(w, k)
  PROVE  sent' \in Seq(SUBSET (0..NBlocks)) /\ DOMAIN sent' = DOMAIN workers
<1> DEFINE S == SUBSET (0..NBlocks)
<1>1. sent \in Seq(S) /\ w \in DOMAIN sent /\ DOMAIN sent = DOMAIN workers
  BY DEF ClientInv, NetInv
<1>2. sent[w] \in S
  BY <1>1
<1>3. sent[w] \cup {k} \in S
  BY <1>2
<1> HIDE DEF S
<1>4. sent' = [sent EXCEPT ![w] = sent[w] \cup {k}]
  BY DEF Send
<1>5. sent' \in Seq(S) /\ DOMAIN sent' = DOMAIN sent
  BY <1>1, <1>3, <1>4
<1> QED
  BY <1>1, <1>5 DEF S

\* A step inside a transfer keeps what is known of the workers.
LEMMA NetFrame ==
  ASSUME ClientInv, pc \in Transfer, pc' \in Transfer,
         UNCHANGED <<cmd, n, serv, workers, seen, reqs>>,
         sent' \in Seq(SUBSET (0..NBlocks)), DOMAIN sent' = DOMAIN workers,
         queue' \subseteq Arrivals,
         peer'.connected \/ pc' # "request" => peer'.tid \in DOMAIN workers,
         pc' # "request" => block' \in 1..NBlocks,
         pc' = "flush" => Fetches, pc' = "resend" => ~Fetches
  PROVE  NetInv'
<1>1. Arg' = Arg /\ Request' = Request /\ Fetches' = Fetches
  BY DEF Arg, Request, Fetches
<1>2. \A m \in queue' : /\ m.from \in DOMAIN workers /\ m.num \in Nat
                        /\ m.op = "ACK" /\ m.num > 0 => m.num <= seen[m.from]
  BY ArrivalFacts
<1>3. /\ serv.addr # NoHost
      /\ workers \in Seq([host : {serv.host}, op : {cmd.op}, file : {Arg.file},
                          opening : {"OACK", "ACK", "DATA"}])
      /\ DOMAIN seen = DOMAIN workers /\ seen \in Seq(-1..NBlocks) /\ reqs = {Request}
  BY DEF ClientInv, NetInv
<1> DEFINE W(h, o, f) == Seq([host : {h}, op : {o}, file : {f}, opening : {"OACK", "ACK", "DATA"}])
<1>4. workers' \in W(serv'.host, cmd'.op, Arg'.file)
  BY <1>1, <1>3
<1> QED
  BY <1>1, <1>2, <1>3, <1>4 DEF NetInv

\* A step inside a transfer leaves the command and the host alone.
LEMMA TransferFrame ==
  ASSUME ClientInv, pc \in Transfer, pc' \in Transfer,
         UNCHANGED <<command, serv, alias, left>>,
         jmpbuf' = IF pc = "request" /\ pc' # "request" THEN "retrybuf" ELSE jmpbuf,
         pc # "request" => pc' # "request"
  PROVE  CommandInv' /\ HostInv' /\ JumpInv' /\ ZeroMeansDone'
<1>0. DoneBefore => DoneBefore'
  BY DEF DoneBefore, command
<1>1. CommandInv'
  BY <1>0 DEF ClientInv, CommandInv, Busy, Transfer, Arg, command
<1>2. HostInv'
  BY DEF ClientInv, HostInv, ServIsWhole, Transfer
<1>3. JumpInv' /\ ZeroMeansDone'
  BY DEF ClientInv, JumpInv, ZeroMeansDone, Succeeds, Transfer
<1> QED
  BY <1>1, <1>2, <1>3

\* A step that neither takes a block nor goes on to the next leaves the files alone.
LEMMA FileFrame ==
  ASSUME ClientInv, pc \in Transfer, pc' \in Transfer, UNCHANGED <<command, serv, files, left>>,
         ~Fetches \/ (UNCHANGED <<pc, block>>) \/ (pc = "request" /\ pc' = "engine" /\ block' = 1)
  PROVE  FileInv'
<1>0. UNCHANGED <<cmd, n, stream, leaked, disk, kept>>
  BY DEF command, files
<1>1. Arg' = Arg /\ Fetches' = Fetches /\ LocalName' = LocalName /\ GotStays'
  BY <1>0, Zenon DEF Arg, Fetches, LocalName, ClientInv, FileInv, GotStays
<1>2. CASE Fetches
  BY <1>0, <1>1, <1>2 DEF ClientInv, FileInv, Transfer
<1>3. CASE ~Fetches
  BY <1>0, <1>1, <1>3 DEF ClientInv, FileInv, Transfer
<1> QED
  BY <1>2, <1>3

\* A block that arrives is of the file that was asked for.
LEMMA BlockFacts ==
  ASSUME ClientInv, pc \in Transfer, NEW m \in Arrivals
  PROVE  Block(m) = <<serv.host, Arg.file, m.num>>
<1> DEFINE W == [host : {serv.host}, op : {cmd.op}, file : {Arg.file},
                 opening : {"OACK", "ACK", "DATA"}]
<1>1. workers \in Seq(W) /\ m.from \in DOMAIN workers
  BY ArrivalFacts DEF ClientInv, NetInv
<1> HIDE DEF W
<1>2. workers[m.from] \in W
  BY <1>1
<1> QED
  BY <1>2 DEF W, Block

\* A block that is taken from the network is in the stream's buffer.
LEMMA StoreFile ==
  ASSUME ClientInv, pc \in {"request", "engine"}, Fetches, NEW m \in Arrivals, pc' = "flush",
         stream' = [stream EXCEPT !.buf = <<Block(m)>>], m.num = block',
         block' = IF pc = "request" THEN 1 ELSE block,
         UNCHANGED <<command, serv, left, leaked, disk, kept>>
  PROVE  FileInv'
<1>1. Arg' = Arg /\ Fetches' /\ LocalName' = LocalName /\ GotStays'
  BY DEF Arg, Fetches, LocalName, command, ClientInv, FileInv, GotStays
<1>2. Block(m) = <<serv.host, Arg.file, m.num>>
  BY BlockFacts DEF Transfer
<1>3. /\ DOMAIN stream = {"name", "off", "buf"} /\ stream.name = LocalName
      /\ kept[LocalName] = NoHost
      /\ stream.off = (IF pc = "engine" THEN block - 1 ELSE 0)
      /\ disk[LocalName] = [b \in 1..stream.off |-> <<serv.host, Arg.file, b>>]
      /\ DOMAIN disk = LocalNames /\ DOMAIN kept = LocalNames /\ (leaked # {} => "flush" \in left)
  BY DEF ClientInv, FileInv, Transfer
<1>4. /\ DOMAIN stream' = {"name", "off", "buf"} /\ stream'.name = LocalName
      /\ stream'.off = block' - 1 /\ stream'.off = stream.off
      /\ stream'.buf = <<<<serv.host, Arg.file, block'>>>>
  BY <1>2, <1>3
<1>5. disk'[LocalName'] = [b \in 1..stream'.off |-> <<serv'.host, Arg'.file, b>>]
  BY <1>1, <1>3, <1>4
<1> QED
  BY <1>1, <1>3, <1>4, <1>5 DEF FileInv, Transfer

\* The answers to the request.
LEMMA ReplyInv ==
  ASSUME ClientInv, NEW m \in Arrivals, Reply(m) \/ ReplyFails(m) \/ ReplyIgnored(m)
  PROVE  ClientInv'
<1> USE DEF session, command, host, net, bounds
<1>0. pc = "request" /\ pc \in Transfer
  BY Zenon DEF Reply, ReplyFails, ReplyIgnored, Transfer
<1>1. CASE Reply(m)
  <2>1. /\ Receive(m) /\ Opens(m) /\ pc' \in {"flush", "engine"} /\ block' = 1
        /\ jmpbuf' = "retrybuf" /\ pc' \in Transfer
        /\ UNCHANGED <<cmd, n, err, done, serv, alias, left, leaked, disk, kept, workers, seen, reqs>>
        /\ pc' = "flush" <=> m.op = "DATA"
    BY <1>1 DEF Reply, Transfer
  <2>2. m.op = "DATA" => Fetches /\ m.num = 1
    BY <2>1 DEF Opens
  <2>3. CommandInv' /\ HostInv' /\ JumpInv' /\ ZeroMeansDone'
    BY <1>0, <2>1, TransferFrame
  <2>4. sent' \in Seq(SUBSET (0..NBlocks)) /\ DOMAIN sent' = DOMAIN workers
    <3>1. CASE m.op = "DATA"
      BY <1>0, <1>1, <3>1 DEF Reply, ClientInv, NetInv
    <3>2. CASE m.op # "DATA"
      <4>1. /\ Send(m.from, IF Fetches THEN 0 ELSE 1) /\ m.from \in DOMAIN workers
            /\ (IF Fetches THEN 0 ELSE 1) \in 0..NBlocks
        BY <1>0, <1>1, <3>2, ArrivalFacts, NBlocksType DEF Reply
      <4> QED
        BY <1>0, <4>1, SendFacts
    <3> QED
      BY <3>1, <3>2
  <2>5. NetInv'
    <3>1. peer'.tid \in DOMAIN workers /\ queue' \subseteq Arrivals
      BY <1>0, <2>1, ReceiveFacts, Zenon
    <3>2. block' \in 1..NBlocks
      BY <2>1, NBlocksType
    <3>3. (pc' = "flush" => Fetches) /\ pc' # "resend" /\ UNCHANGED <<cmd, n, serv, workers, seen, reqs>>
      BY <2>1, <2>2, Zenon
    <3> QED
      BY <1>0, <2>1, <2>4, <3>1, <3>2, <3>3, NetFrame, Zenon
  <2>6. FileInv'
    <3>1. CASE m.op = "DATA"
      BY <1>0, <1>1, <2>1, <2>2, <3>1, StoreFile DEF Reply
    <3>2. CASE m.op # "DATA"
      BY <1>0, <1>1, <2>1, <3>2, FileFrame DEF Reply, files
    <3> QED
      BY <3>1, <3>2
  <2> QED
    BY <2>3, <2>5, <2>6 DEF ClientInv
<1>2. CASE ReplyFails(m)
  BY <1>0, <1>2, ReturnInv, Zenon DEF ReplyFails
<1>3. CASE ReplyIgnored(m)
  <2>1. /\ Receive(m) /\ pc' \in Transfer /\ UNCHANGED <<pc, jmpbuf, block, files>>
        /\ UNCHANGED <<cmd, n, err, done, serv, alias, left, workers, seen, reqs, sent>>
    BY <1>0, <1>3 DEF ReplyIgnored
  <2>2. CommandInv' /\ HostInv' /\ JumpInv' /\ ZeroMeansDone' /\ FileInv'
    BY <1>0, <2>1, TransferFrame, FileFrame
  <2>3. sent' \in Seq(SUBSET (0..NBlocks)) /\ DOMAIN sent' = DOMAIN workers
    BY <1>0, <2>1 DEF ClientInv, NetInv
  <2>4. NetInv'
    BY <1>0, <2>1, <2>3, ReceiveFacts, NetFrame, Zenon
  <2> QED
    BY <2>2, <2>4 DEF ClientInv
<1> QED
  BY <1>1, <1>2, <1>3

\* The timer, in the request or in the engine.
LEMMA TimerInv ==
  ASSUME ClientInv, Timer
  PROVE  ClientInv'
<1>0. pc \in {"request", "engine"} /\ pc \in Transfer
  BY DEF Timer, Transfer
<1>1. CASE Toplevel("failed", Flushed(disk, stream))
  <2>1. Flushed(disk, stream) = disk
    BY <1>0, FlushedFacts
  <2>2. Toplevel("failed", disk)
    BY <1>1, <2>1
  <2> QED
    BY <1>0, <2>2, ToplevelInv
<1>2. CASE Undefined
  BY <1>0, <1>2, UndefinedInv
<1>3. ASSUME IF pc = "engine" THEN Resend(peer.tid) ELSE UNCHANGED sent,
             UNCHANGED <<session, pc, command, host, socket, jmpbuf, block, files, workers,
                         seen, reqs, bounds>>
      PROVE  ClientInv'
  <2>1. /\ pc' \in Transfer /\ UNCHANGED <<pc, command, serv, alias, left, files, jmpbuf, block>>
        /\ UNCHANGED <<cmd, n, workers, seen, reqs, queue, peer>>
    BY <1>0, <1>3 DEF host, bounds, socket, command
  <2>2. CommandInv' /\ HostInv' /\ JumpInv' /\ ZeroMeansDone' /\ FileInv'
    BY <1>0, <2>1, TransferFrame, FileFrame
  <2>3. sent' \in Seq(SUBSET (0..NBlocks)) /\ DOMAIN sent' = DOMAIN workers
    <3>1. CASE pc = "engine"
      <4>1. peer.tid \in DOMAIN workers /\ block \in 1..NBlocks
        BY <1>0, <3>1 DEF ClientInv, NetInv
      <4>2. (IF Fetches THEN block - 1 ELSE block) \in 0..NBlocks
        BY <4>1, NBlocksType
      <4>3. Send(peer.tid, IF Fetches THEN block - 1 ELSE block)
        BY <1>3, <3>1 DEF Resend
      <4> QED
        BY <1>0, <4>1, <4>2, <4>3, SendFacts
    <3>2. CASE pc # "engine"
      BY <1>0, <1>3, <3>2 DEF ClientInv, NetInv
    <3> QED
      BY <3>1, <3>2
  <2>4. /\ peer.connected \/ pc # "request" => peer.tid \in DOMAIN workers
        /\ pc # "request" => block \in 1..NBlocks
        /\ pc = "flush" => Fetches
        /\ pc = "resend" => ~Fetches
    BY <1>0 DEF ClientInv, NetInv
  <2>5. NetInv'
    BY <1>0, <2>1, <2>3, <2>4, NetFrame DEF Arrivals
  <2> QED
    BY <2>2, <2>5 DEF ClientInv
<1> QED
  BY <1>1, <1>2, <1>3 DEF Timer

\* The engine, with a packet.
LEMMA EngineInv ==
  ASSUME ClientInv, NEW m \in Arrivals,
         EngineStore(m) \/ EngineAck(m) \/ EngineOack(m) \/ EngineIgnores(m) \/ EngineError(m)
  PROVE  ClientInv'
<1> USE DEF session, command, host, net, bounds
<1>0. pc = "engine" /\ pc \in Transfer /\ block \in 1..NBlocks /\ NBlocks \in Nat
  BY NBlocksType, Zenon
     DEF EngineStore, EngineAck, EngineOack, EngineIgnores, EngineError, Transfer, ClientInv, NetInv
<1>1. CASE EngineStore(m)
  <2>1. /\ Receive(m) /\ pc' = "flush" /\ pc' \in Transfer /\ Fetches /\ m.num = block
        /\ UNCHANGED <<jmpbuf, block, leaked, disk, kept, sent>>
        /\ stream' = [stream EXCEPT !.buf = <<Block(m)>>]
        /\ UNCHANGED <<cmd, n, err, done, serv, alias, left, workers, seen, reqs>>
    BY <1>1 DEF EngineStore, Awaited, Transfer
  <2>2. CommandInv' /\ HostInv' /\ JumpInv' /\ ZeroMeansDone'
    BY <1>0, <2>1, TransferFrame
  <2>3. sent' \in Seq(SUBSET (0..NBlocks)) /\ DOMAIN sent' = DOMAIN workers
    BY <1>0, <2>1 DEF ClientInv, NetInv
  <2>4. NetInv'
    BY <1>0, <2>1, <2>3, ReceiveFacts, NetFrame
  <2>5. FileInv'
    BY <1>0, <2>1, StoreFile
  <2> QED
    BY <2>2, <2>4, <2>5 DEF ClientInv
<1>2. ASSUME Receive(m), pc' = pc \/ (pc' = "resend" /\ ~Fetches),
             UNCHANGED <<command, host, jmpbuf, files, workers, seen, reqs, bounds>>,
             block' \in 1..NBlocks, ~Fetches \/ block' = block,
             sent' = sent \/ \E k \in 0..NBlocks : Send(peer'.tid, k)
      PROVE  ClientInv'
  <2>1. /\ pc' \in {"engine", "resend"} /\ pc' \in Transfer /\ (pc' = "resend" => ~Fetches)
        /\ UNCHANGED <<command, serv, alias, left, files, jmpbuf, cmd, n, workers, seen, reqs>>
    BY <1>0, <1>2 DEF Transfer
  <2>2. CommandInv' /\ HostInv' /\ JumpInv' /\ ZeroMeansDone'
    BY <1>0, <2>1, TransferFrame
  <2>3. FileInv'
    BY <1>0, <1>2, <2>1, FileFrame
  <2>4. peer'.tid \in DOMAIN workers /\ queue' \subseteq Arrivals
    BY <1>0, <1>2, ReceiveFacts, Zenon
  <2>5. sent' \in Seq(SUBSET (0..NBlocks)) /\ DOMAIN sent' = DOMAIN workers
    <3>1. CASE sent' = sent
      BY <1>0, <3>1 DEF ClientInv, NetInv
    <3>2. CASE \E k \in 0..NBlocks : Send(peer'.tid, k)
      BY <1>0, <2>4, <3>2, SendFacts
    <3> QED
      BY <1>2, <3>1, <3>2, Zenon
  <2>6. NetInv'
    BY <1>0, <1>2, <2>1, <2>4, <2>5, NetFrame
  <2> QED
    BY <2>2, <2>3, <2>6 DEF ClientInv
<1>3. CASE EngineAck(m)
  <2>1. CASE block = NBlocks
    BY <1>0, <1>3, <2>1, ReturnInv, Zenon DEF EngineAck
  <2>2. CASE block # NBlocks
    <3>1. block + 1 \in 1..NBlocks /\ block + 1 \in 0..NBlocks
      BY <1>0, <2>2
    <3>2. Receive(m) /\ Send(peer'.tid, block + 1) /\ block' = block + 1 /\ ~Fetches
      BY <1>3, <2>2 DEF EngineAck
    <3>3. \E k \in 0..NBlocks : Send(peer'.tid, k)
      BY <3>1, <3>2
    <3>4. UNCHANGED <<pc, command, host, jmpbuf, files, workers, seen, reqs, bounds>>
      BY <1>3, <2>2 DEF EngineAck
    <3> QED
      BY <1>2, <3>1, <3>2, <3>3, <3>4
  <2> QED
    BY <2>1, <2>2
<1>4. CASE EngineIgnores(m)
  <2>1. /\ Receive(m) /\ UNCHANGED block
        /\ sent' = sent \/ Send(peer'.tid, IF Fetches THEN block - 1 ELSE block)
    BY <1>4 DEF EngineIgnores, Resend
  <2>2. (IF Fetches THEN block - 1 ELSE block) \in 0..NBlocks
    BY <1>0
  <2>3. sent' = sent \/ \E k \in 0..NBlocks : Send(peer'.tid, k)
    BY <2>1, <2>2
  <2>4. UNCHANGED <<pc, command, host, jmpbuf, files, workers, seen, reqs, bounds>>
    BY <1>4 DEF EngineIgnores
  <2> QED
    BY <1>0, <1>2, <2>1, <2>3, <2>4
<1>5. CASE EngineError(m)
  BY <1>0, <1>5, ReturnInv, Zenon DEF EngineError
<1>6. CASE EngineOack(m)
  <2>1. /\ Receive(m) /\ pc' = "resend" /\ ~Fetches
        /\ UNCHANGED <<command, host, jmpbuf, files, workers, seen, reqs, bounds, block, sent>>
    BY <1>6 DEF EngineOack
  <2> QED
    BY <1>0, <1>2, <2>1
<1> QED
  BY <1>1, <1>3, <1>4, <1>5, <1>6

\* resend_window, where a put has received an OACK again.
LEMMA ResendInv ==
  ASSUME ClientInv, EngineResend
  PROVE  ClientInv'
<1>0. /\ pc = "resend" /\ pc' = "engine" /\ pc \in Transfer /\ pc' \in Transfer
      /\ peer.tid \in DOMAIN workers /\ block \in 1..NBlocks /\ ~Fetches
  BY DEF EngineResend, Transfer, ClientInv, NetInv
<1>1. /\ UNCHANGED <<command, serv, alias, left, files, jmpbuf, block>>
      /\ UNCHANGED <<cmd, n, workers, seen, reqs, queue, peer>>
  BY DEF EngineResend, host, bounds, socket, command
<1>2. CommandInv' /\ HostInv' /\ JumpInv' /\ ZeroMeansDone' /\ FileInv'
  BY <1>0, <1>1, TransferFrame, FileFrame, Zenon
<1>3. sent' \in Seq(SUBSET (0..NBlocks)) /\ DOMAIN sent' = DOMAIN workers
  <2>1. block \in 0..NBlocks
    BY <1>0, NBlocksType
  <2>2. Send(peer.tid, block)
    BY <1>0, Zenon DEF EngineResend, Resend
  <2> QED
    BY <1>0, <2>1, <2>2, SendFacts, Zenon
<1>4. queue' \subseteq Arrivals /\ pc' \notin {"flush", "resend"}
  BY <1>0, <1>1 DEF Arrivals
<1>5. NetInv'
  BY <1>0, <1>1, <1>3, <1>4, NetFrame, Zenon
<1> QED
  BY <1>2, <1>5 DEF ClientInv

\* The flush of a block, and its ACK.
LEMMA FlushInv ==
  ASSUME ClientInv, EngineFlush
  PROVE  ClientInv'
<1> USE DEF session, command, host, net, socket, bounds
<1>0. pc = "flush" /\ pc \in Transfer /\ block \in 1..NBlocks /\ NBlocks \in Nat /\ Fetches
      /\ peer.tid \in DOMAIN workers
  BY NBlocksType DEF EngineFlush, Transfer, ClientInv, NetInv
<1>1. CASE block = NBlocks
  BY <1>0, <1>1, ReturnInv, Zenon DEF EngineFlush
<1>2. CASE block # NBlocks
  <2>1. /\ disk' = Flushed(disk, stream) /\ pc' = "engine" /\ pc' \in Transfer
        /\ stream' = [stream EXCEPT !.off = @ + 1, !.buf = <<>>]
        /\ block' = block + 1 /\ Send(peer.tid, block)
        /\ UNCHANGED <<cmd, n, err, done, serv, alias, left, workers, seen, reqs, queue, peer>>
        /\ UNCHANGED <<leaked, kept, jmpbuf>>
    BY <1>2 DEF EngineFlush, Transfer
  <2>2. CommandInv' /\ HostInv' /\ JumpInv' /\ ZeroMeansDone'
    BY <1>0, <2>1, TransferFrame
  <2>3. block \in 0..NBlocks /\ block' \in 1..NBlocks
    BY <1>0, <1>2, <2>1
  <2>4. sent' \in Seq(SUBSET (0..NBlocks)) /\ DOMAIN sent' = DOMAIN workers
    BY <1>0, <2>1, <2>3, SendFacts
  <2>5. NetInv'
    BY <1>0, <2>1, <2>3, <2>4, NetFrame DEF Arrivals
  <2>6. FileInv'
    <3>1. /\ DOMAIN stream = {"name", "off", "buf"} /\ stream.name = LocalName
          /\ kept[LocalName] = NoHost /\ stream.off = block - 1 /\ DOMAIN disk = LocalNames
          /\ DOMAIN kept = LocalNames /\ (leaked # {} => "flush" \in left) /\ GotStays
      BY <1>0 DEF ClientInv, FileInv, Transfer
    <3>2. disk' = [disk EXCEPT ![LocalName] = [b \in 1..block |-> <<serv.host, Arg.file, b>>]]
      BY <1>0, <2>1, FlushedFacts
    <3>3. /\ DOMAIN stream' = {"name", "off", "buf"} /\ stream'.name = LocalName
          /\ stream'.off = block' - 1 /\ stream'.off = block /\ stream'.buf = <<>>
      BY <1>0, <2>1, <3>1
    <3>4. Arg' = Arg /\ Fetches' /\ LocalName' = LocalName /\ LocalName \in LocalNames
      BY <1>0, <2>1, LocalTypes DEF Arg, Fetches, Busy
    <3>5. GotStays'
      BY <2>1, <3>1, <3>2, <3>4 DEF GotStays
    <3>6. disk'[LocalName'] = [b \in 1..stream'.off |-> <<serv'.host, Arg'.file, b>>]
      <4>1. disk'[LocalName] = [b \in 1..block |-> <<serv.host, Arg.file, b>>]
        BY <3>1, <3>2, <3>4
      <4> QED
        BY <2>1, <3>3, <3>4, <4>1
    <3>7. DOMAIN disk' = LocalNames
      BY <3>1, <3>2
    <3> QED
      BY <2>1, <3>1, <3>3, <3>4, <3>5, <3>6, <3>7 DEF FileInv, Transfer
  <2> QED
    BY <2>2, <2>5, <2>6 DEF ClientInv
<1> QED
  BY <1>1, <1>2

\* A worker goes on: what it has seen only grows.
LEMMA SeenGrows ==
  ASSUME NEW R, R \subseteq Int, NEW sn \in Seq(R), NEW v \in DOMAIN sn, sn[v] + 1 \in R
  PROVE  /\ [sn EXCEPT ![v] = sn[v] + 1] \in Seq(R)
         /\ DOMAIN [sn EXCEPT ![v] = sn[v] + 1] = DOMAIN sn
         /\ \A w \in DOMAIN sn : [sn EXCEPT ![v] = sn[v] + 1][w] >= sn[w]
<1>1. \A w \in DOMAIN sn : sn[w] \in Int
  BY IntElement, Zenon
<1> QED
  BY <1>1

\* An element of a sequence, and an acknowledgement that stays below what was seen.
LEMMA StillBelow ==
  ASSUME NEW R, R \subseteq Int, NEW old \in Seq(R), NEW new \in Seq(R), NEW v \in DOMAIN old,
         v \in DOMAIN new, new[v] >= old[v], NEW k \in Nat, k <= old[v]
  PROVE  k <= new[v]
<1>1. old[v] \in Int /\ new[v] \in Int
  BY IntElement, Zenon
<1> QED
  BY <1>1

\* The server's steps: a worker is forked, or a worker goes on.
LEMMA ServerInv ==
  ASSUME ClientInv, Server
  PROVE  ClientInv'
<1> USE DEF session, command, host, socket, bounds
<1>0. /\ pc \in Transfer /\ UNCHANGED <<pc, jmpbuf, block, files, queue, peer>>
      /\ UNCHANGED <<cmd, n, err, done, serv, alias, left>>
  BY DEF Server, Transfer
<1>1. CommandInv' /\ HostInv' /\ JumpInv' /\ ZeroMeansDone' /\ FileInv'
  BY <1>0, TransferFrame, FileFrame
<1> DEFINE W == [host : {serv.host}, op : {cmd.op}, file : {Arg.file},
                 opening : {"OACK", "ACK", "DATA"}]
           S == SUBSET (0..NBlocks)
           R == -1..NBlocks
<1>2. /\ workers \in Seq(W) /\ seen \in Seq(R) /\ sent \in Seq(S) /\ serv.addr = serv.host
      /\ DOMAIN seen = DOMAIN workers /\ DOMAIN sent = DOMAIN workers
      /\ reqs = {Request} /\ serv.addr # NoHost
      /\ \A m \in queue : /\ m.from \in DOMAIN workers /\ m.num \in Nat
                          /\ m.op = "ACK" /\ m.num > 0 => m.num <= seen[m.from]
      /\ peer.connected \/ pc # "request" => peer.tid \in DOMAIN workers
      /\ pc # "request" => block \in 1..NBlocks
      /\ pc = "flush" => Fetches
      /\ pc = "resend" => ~Fetches
  BY <1>0 DEF ClientInv, NetInv, HostInv
<1>int. R \subseteq Int
  BY NBlocksType
<1> HIDE DEF R
<1>3. SUFFICES
        /\ workers' \in Seq(W) /\ seen' \in Seq(R) /\ sent' \in Seq(S) /\ UNCHANGED reqs
        /\ DOMAIN seen' = DOMAIN workers' /\ DOMAIN sent' = DOMAIN workers'
        /\ \A w \in DOMAIN workers : w \in DOMAIN workers' /\ seen'[w] >= seen[w]
  <2>1. Arg' = Arg /\ Request' = Request /\ Fetches' = Fetches
    BY <1>0 DEF Arg, Request, Fetches
  <2>2. \A m \in queue' : /\ m.from \in DOMAIN workers' /\ m.num \in Nat
                          /\ m.op = "ACK" /\ m.num > 0 => m.num <= seen'[m.from]
    <3> SUFFICES ASSUME NEW m \in queue
                 PROVE  /\ m.from \in DOMAIN workers' /\ m.num \in Nat
                        /\ m.op = "ACK" /\ m.num > 0 => m.num <= seen'[m.from]
      BY <1>0, Zenon
    <3>1. /\ m.from \in DOMAIN workers /\ m.num \in Nat /\ m.from \in DOMAIN workers'
          /\ m.op = "ACK" /\ m.num > 0 => m.num <= seen[m.from]
          /\ seen'[m.from] >= seen[m.from]
      BY <1>2, <1>3, Zenon
    <3>2. /\ m.from \in DOMAIN seen /\ m.from \in DOMAIN seen'
          /\ seen \in Seq(R) /\ seen' \in Seq(R)
      BY <1>2, <1>3, <3>1, Zenon
    <3> QED
      BY <1>int, <3>1, <3>2, StillBelow, Zenon
  <2>3. workers' \in Seq([host : {serv'.host}, op : {cmd'.op}, file : {Arg'.file},
                          opening : {"OACK", "ACK", "DATA"}])
    BY <1>0, <1>3, <2>1
  <2>4. NetInv'
    BY <1>0, <1>2, <1>3, <2>1, <2>2, <2>3 DEF NetInv, R
  <2> QED
    BY <1>1, <2>4 DEF ClientInv
<1> HIDE DEF W, S
<1>4. ASSUME Serve(Request)
      PROVE  /\ workers' \in Seq(W) /\ seen' \in Seq(R) /\ sent' \in Seq(S) /\ UNCHANGED reqs
             /\ DOMAIN seen' = DOMAIN workers' /\ DOMAIN sent' = DOMAIN workers'
             /\ \A w \in DOMAIN workers : w \in DOMAIN workers' /\ seen'[w] >= seen[w]
  <2>1. PICK o \in {"OACK", "ACK", "DATA"}, k \in {-1, 0} :
          /\ workers' = Append(workers, [host |-> Request.host, op |-> Request.op,
                                         file |-> Request.file, opening |-> o])
          /\ seen' = Append(seen, k) /\ sent' = Append(sent, {}) /\ UNCHANGED reqs
    BY <1>4 DEF Serve
  <2> DEFINE wk == [host |-> Request.host, op |-> Request.op, file |-> Request.file,
                    opening |-> o]
  <2>a. wk \in W
    <3>1. Request.host = serv.host /\ Request.op = cmd.op /\ Request.file = Arg.file
      BY <1>2, Zenon DEF Request
    <3> QED
      BY <3>1, Zenon DEF W
  <2>b. {} \in S
    BY DEF S
  <2>c. k \in R
    BY NBlocksType DEF R
  <2>2. wk \in W /\ {} \in S /\ k \in R
    BY <2>a, <2>b, <2>c, Zenon
  <2>3. workers' = Append(workers, wk) /\ seen' = Append(seen, k) /\ sent' = Append(sent, {})
    BY <2>1, Zenon
  <2> HIDE DEF wk
  <2>4. /\ workers \in Seq(W) /\ seen \in Seq(R) /\ sent \in Seq(S)
        /\ DOMAIN seen = DOMAIN workers /\ DOMAIN sent = DOMAIN workers
    BY <1>2, Zenon
  <2>5. /\ workers' \in Seq(W) /\ seen' \in Seq(R) /\ sent' \in Seq(S)
        /\ DOMAIN seen' = DOMAIN workers' /\ DOMAIN sent' = DOMAIN workers'
        /\ \A w \in DOMAIN workers : w \in DOMAIN workers' /\ seen'[w] = seen[w]
    BY <2>2, <2>3, <2>4, OneMore, Zenon
  <2>6. \A w \in DOMAIN seen : seen[w] >= seen[w]
    BY <1>int, <2>4, IntElement, Zenon
  <2> QED
    BY <2>1, <2>4, <2>5, <2>6, Zenon
<1>5. ASSUME NEW v \in DOMAIN workers, Serves(v)
      PROVE  /\ workers' \in Seq(W) /\ seen' \in Seq(R) /\ sent' \in Seq(S) /\ UNCHANGED reqs
             /\ DOMAIN seen' = DOMAIN workers' /\ DOMAIN sent' = DOMAIN workers'
             /\ \A w \in DOMAIN workers : w \in DOMAIN workers' /\ seen'[w] >= seen[w]
  <2>1. /\ seen[v] + 1 \in sent[v] /\ seen' = [seen EXCEPT ![v] = seen[v] + 1]
        /\ UNCHANGED <<workers, sent, reqs>>
    BY <1>5, Zenon DEF Serves
  <2>2. /\ sent \in Seq(S) /\ seen \in Seq(R) /\ v \in DOMAIN seen /\ v \in DOMAIN sent
    BY <1>2, Zenon
  <2>3. sent[v] \in S
    BY <2>2, ElementOf, Zenon
  <2>4. seen[v] + 1 \in 0..NBlocks
    BY <2>1, <2>3, Zenon DEF S
  <2>5. seen[v] + 1 \in R
    BY <2>4, NBlocksType DEF R
  <2>6. /\ seen' \in Seq(R) /\ DOMAIN seen' = DOMAIN seen
        /\ \A w \in DOMAIN seen : seen'[w] >= seen[w]
    BY <1>int, <2>1, <2>2, <2>5, SeenGrows, Zenon
  <2> QED
    BY <1>2, <2>1, <2>6, Zenon
<1> QED
  BY <1>2, <1>4, <1>5, Zenon DEF Server

\* At the start.
LEMMA InitInv == Init => ClientInv
<1> SUFFICES ASSUME Init PROVE ClientInv
  OBVIOUS
<1>1. /\ err = FALSE /\ done = {} /\ serv = [connected |-> FALSE, addr |-> NoHost, host |-> NoHost]
      /\ alias = FALSE /\ jmpbuf = "timeoutbuf" /\ stream = NoStream /\ leaked = {}
      /\ disk = [f \in LocalNames |-> <<>>] /\ kept = [f \in LocalNames |-> NoHost]
      /\ workers = <<>> /\ sent = <<>> /\ seen = <<>> /\ queue = {} /\ left = {}
      /\ pc \in {"prompt", "arg"}
  BY DEF Init
<1>2. CommandInv
  <2>1. CASE pc = "prompt" /\ cmd = NoCommand /\ n = 0
    BY <1>1, <2>1, Zenon DEF CommandInv, Busy, Transfer
  <2>2. CASE pc = "arg" /\ n = 1 /\ cmd \in Commands /\ cmd.op = "connect"
    <3>1. Len(cmd.args) \in Nat /\ Len(cmd.args) >= 1
      BY <2>2, CommandTypes
    <3>2. n \in 1..Len(cmd.args) /\ n \in Nat
      BY <1>1, <2>2, <3>1
    <3> QED
      BY <1>1, <2>2, <3>2, Zenon DEF CommandInv, Busy, Transfer
  <2> QED
    BY <2>1, <2>2 DEF Init
<1>3. HostInv /\ JumpInv /\ NetInv /\ ZeroMeansDone
  BY <1>1, Zenon DEF HostInv, ServIsWhole, JumpInv, NetInv, ZeroMeansDone, Succeeds, Transfer
<1>4. FileInv
  BY <1>1, Zenon DEF FileInv, GotStays, Transfer
<1> QED
  BY <1>2, <1>3, <1>4 DEF ClientInv

\* Nothing changes.
LEMMA StutterInv == ClientInv /\ UNCHANGED vars => ClientInv'
<1> SUFFICES ASSUME ClientInv, UNCHANGED vars PROVE ClientInv'
  OBVIOUS
<1>1. /\ UNCHANGED <<pc, cmd, n, err, done, serv, alias, jmpbuf, stream, leaked, disk, kept>>
      /\ UNCHANGED <<workers, sent, seen, reqs, queue, peer, left, block, iscmd, status>>
  BY DEF vars, session, command, host, socket, files, net, bounds
<1>2. CommandInv' /\ HostInv' /\ JumpInv' /\ ZeroMeansDone'
  <2>1. CommandInv'
    <3>1. DoneBefore' = DoneBefore /\ DoneAfter' = DoneAfter /\ Arg' = Arg
      BY <1>1 DEF DoneBefore, DoneAfter, Arg
    <3> QED
      BY <1>1, <3>1, Zenon DEF ClientInv, CommandInv
  <2>2. HostInv'
    BY <1>1, Zenon DEF ClientInv, HostInv, ServIsWhole
  <2>3. JumpInv' /\ ZeroMeansDone'
    BY <1>1, Zenon DEF ClientInv, JumpInv, ZeroMeansDone, Succeeds, Wanted
  <2> QED
    BY <2>1, <2>2, <2>3
<1>3. NetInv'
  BY <1>1 DEF ClientInv, NetInv, Arg, Request, Fetches
<1>4. FileInv'
  <2>1. LocalName' = LocalName /\ Arg' = Arg /\ Fetches' = Fetches /\ GotStays' = GotStays
    BY <1>1, Zenon DEF LocalName, Arg, Fetches, GotStays
  <2> QED
    BY <1>1, <2>1, Zenon DEF ClientInv, FileInv
<1> QED
  BY <1>2, <1>3, <1>4 DEF ClientInv

\* Every step keeps it.
LEMMA NextInv == ClientInv /\ [Next]_vars => ClientInv'
<1> SUFFICES ASSUME ClientInv, [Next]_vars PROVE ClientInv'
  OBVIOUS
<1>1. CASE (\E c \in Commands : Give(c)) \/ NextArg
  BY <1>1, GiveInv
<1>2. CASE Quit
  BY <1>2, QuitInv
<1>3. CASE SetHost \/ Resolved \/ NotResolved
  BY <1>3, SetHostInv
<1>4. CASE OpenLocal \/ OpenLocalFails
  BY <1>4, OpenLocalInv
<1>5. CASE OpenSocket \/ OpenSocketFails \/ NoMode
  BY <1>5, OpenSocketInv
<1>6. CASE EngineFlush \/ EngineResend
  BY <1>6, FlushInv, ResendInv
<1>7. CASE Timer
  BY <1>7, TimerInv
<1>8. CASE RequestFails \/ EngineFails
  <2>1. pc \in {"socket"} \cup Transfer /\ Return(FALSE)
    BY <1>8, Zenon DEF RequestFails, EngineFails, Transfer
  <2> QED
    BY <2>1, ReturnInv, Zenon
<1>9. CASE Interrupt
  BY <1>9, ToplevelInv DEF Interrupt
<1>10. CASE Server
  BY <1>10, ServerInv
<1>11. ASSUME NEW m \in Arrivals, Reply(m) \/ ReplyFails(m) \/ ReplyIgnored(m) PROVE ClientInv'
  BY <1>11, ReplyInv
<1>12. ASSUME NEW m \in Arrivals,
              EngineStore(m) \/ EngineAck(m) \/ EngineOack(m) \/ EngineIgnores(m)
              \/ EngineError(m)
       PROVE  ClientInv'
  BY <1>12, EngineInv
<1>13. CASE UNCHANGED vars
  BY <1>13, StutterInv
<1> QED
  BY <1>1, <1>2, <1>3, <1>4, <1>5, <1>6, <1>7, <1>8, <1>9, <1>10, <1>11, <1>12, <1>13
     DEF Next, Step, Ended

-----------------------------------------------------------------------------
\* The inductive invariant of a client session holds in every state that main.c and
\* tftp.c reach, for any hosts, files, commands, file length and time limit.
THEOREM ClientInvariance == Spec => []ClientInv
BY InitInv, NextInv, PTL DEF Spec

\* A file whose get returned 0 is the file of that name on the host that was asked, and
\* stays so, whatever the workers, the network and the user did, unless the user broke
\* off between fwrite and fflush of write_drain.
THEOREM GetIsRight == Spec => []GotStays
<1>1. ClientInv => GotStays
  BY Zenon DEF ClientInv, FileInv
<1> QED
  BY <1>1, ClientInvariance, PTL

\* timer() jumps into a function that still runs, as long as no transfer was left from
\* inside the engine, by a ^C or the last timeout.
THEOREM TimerJumpsInFrame == Spec => []TimerInFrame
<1>1. ClientInv => TimerInFrame
  BY DEF ClientInv, JumpInv, TimerInFrame, JumpTargetLive
<1> QED
  BY <1>1, ClientInvariance, PTL

\* A connected host has the address of its own name, and strings of its own, as long as
\* no lookup of set_transfer_host was interrupted.
THEOREM HostIsWhole == Spec => []ServIsWhole
<1>1. ClientInv => ServIsWhole
  BY DEF ClientInv, HostInv
<1> QED
  BY <1>1, ClientInvariance, PTL

\* With -c, exit status 0 means that every file of the command was transferred: the
\* first error of getfiles and putfiles is remembered to the end.  The one case in which
\* it is not is in the property: a get with two names whose first was not found and whose
\* second was fetched.
THEOREM StatusIsTrue == Spec => []ZeroMeansDone
<1>1. ClientInv => ZeroMeansDone
  BY DEF ClientInv
<1> QED
  BY <1>1, ClientInvariance, PTL

\* tftp_sendfile returns 0 only after the last block was acknowledged, and then a worker
\* of this request has stored the file to its end.
THEOREM PutIsComplete == Spec => PutIsStored
<1> DEFINE A == ~Fetches /\ n \in done' \ done => \E w \in DOMAIN workers : seen[w] = NBlocks
<1>1. ClientInv /\ [Next]_vars => [A]_vars
  <2> SUFFICES ASSUME ClientInv, Next, ~Fetches, n \in done' \ done
               PROVE  \E w \in DOMAIN workers : seen[w] = NBlocks
    OBVIOUS
  <2>1. ASSUME NEW m \in Arrivals, EngineAck(m), block = NBlocks
        PROVE  \E w \in DOMAIN workers : seen[w] = NBlocks
    <3>1. pc = "engine" /\ pc \in Transfer /\ m.op = "ACK" /\ m.num = NBlocks
      BY <2>1 DEF EngineAck, Awaited, Transfer
    <3>2. m.from \in DOMAIN workers /\ NBlocks <= seen[m.from]
      BY <3>1, ArrivalFacts, NBlocksType
    <3>3. seen[m.from] \in -1..NBlocks
      <4> DEFINE R == -1..NBlocks
      <4>1. seen \in Seq(R) /\ m.from \in DOMAIN seen
        BY <3>1, <3>2 DEF ClientInv, NetInv
      <4> HIDE DEF R
      <4>2. seen[m.from] \in R
        BY <4>1
      <4> QED
        BY <4>2 DEF R
    <3>4. seen[m.from] = NBlocks
      BY <3>2, <3>3, NBlocksType
    <3> QED
      BY <3>2, <3>4
  <2>2. ~EngineFlush
    BY Zenon DEF EngineFlush, ClientInv, NetInv, Transfer
  <2>3. ~Return(FALSE)
    <3>1. done' # done
      OBVIOUS
    <3> QED
      BY <3>1, Zenon DEF Return
  <2>4. done' # {} /\ done' # done
    OBVIOUS
  <2>5. /\ \A c \in Commands : ~Give(c)
        /\ \A st, d : ~Toplevel(st, d)
        /\ ~Undefined /\ ~UNCHANGED command
    BY <2>4, Zenon DEF Give, Toplevel, Undefined, command
  <2>6. ~(NextArg \/ SetHost \/ Resolved \/ NotResolved \/ OpenLocal \/ OpenLocalFails)
    BY <2>4 DEF NextArg, SetHost, Resolved, NotResolved, OpenLocal, OpenLocalFails, command
  <2>7. ~(Quit \/ OpenSocket \/ OpenSocketFails \/ NoMode \/ RequestFails \/ EngineFails
          \/ EngineResend)
    BY <2>3, <2>5, Zenon
       DEF Quit, OpenSocket, OpenSocketFails, NoMode, RequestFails, EngineFails, EngineResend
  <2>8. ~(Timer \/ Interrupt \/ Server \/ Ended)
    BY <2>5 DEF Timer, Interrupt, Server, Ended, vars
  <2>9. \A m \in Arrivals : ~(Reply(m) \/ ReplyFails(m) \/ ReplyIgnored(m) \/ EngineStore(m)
                               \/ EngineOack(m) \/ EngineIgnores(m) \/ EngineError(m))
    BY <2>3, <2>5, Zenon
       DEF Reply, ReplyFails, ReplyIgnored, EngineStore, EngineOack, EngineIgnores, EngineError
  <2>10. PICK m \in Arrivals : EngineAck(m)
    BY <2>2, <2>5, <2>6, <2>7, <2>8, <2>9 DEF Next, Step
  <2>11. block = NBlocks
    BY <2>5, <2>10, Zenon DEF EngineAck
  <2> QED
    BY <2>1, <2>10, <2>11
<1> QED
  BY <1>1, ClientInvariance, PTL DEF Spec, PutIsStored

=============================================================================
