----------------------------- MODULE TftpClient -----------------------------
(***************************************************************************)
(* A session of the client: the commands of tftp/main.c (connect, put, get, *)
(* mput, mget, quit) and the transfers of tftp/tftp.c that they run, one     *)
(* after the other in one process.  What the commands share outlives each   *)
(* of them: the host in serv, the socket and address in peer, the jump       *)
(* buffer that active_timeoutbuf points to, and the stdio streams.  SIGINT   *)
(* and the last timeout leave a command by siglongjmp to toplevel, from      *)
(* wherever it is, and nothing is cleaned up on the way.                     *)
(*                                                                          *)
(* A transfer has a window of one block here and meets every worker that     *)
(* the server forked for its request, which a retransmission may multiply;   *)
(* TftpXfer has the windows and the block numbers.  The network only grows:  *)
(* a worker's packets may arrive late, again or never.                       *)
(*                                                                          *)
(* External: the server's workers, the resolver, and the kernel's UDP, as    *)
(* the client uses them.                                                     *)
(***************************************************************************)
EXTENDS Integers, Sequences, FiniteSetsExt

CONSTANTS
  Hosts, Names,   \* hosts, and the names that files have on both sides
  Commands,       \* the commands a user may give
  Unsafe,         \* copt.unsafe (-U)
  NBlocks,        \* blocks in a file
  TimeoutLimit,   \* copt.maxtimeout, in units of xopt.rexmtval
  MaxCommands,    \* bound: commands in a session
  MaxDup,         \* bound: workers of a transfer beyond the first
  MaxIntr,        \* bound: SIGINTs
  MaxRefused,     \* bound: calls of connect of a transfer that fail
  NoHost

ASSUME ClientAssumption ==
  /\ NoHost \notin Hosts /\ Unsafe \in BOOLEAN
  /\ NBlocks >= 1 /\ {NBlocks, TimeoutLimit, MaxCommands, MaxDup, MaxIntr, MaxRefused} \subseteq Nat
  /\ \A c \in Commands :
       /\ c.op \in {"connect", "get", "put", "mode"}
       /\ c.mode \in {"octet", "netascii", "none"}
       /\ c.args \in Seq([host : Hosts \cup {NoHost}, file : Names])
       /\ c.op = "mode" <=> c.args = <<>>
       /\ c.single \in BOOLEAN
       /\ c.single => c.op = "get" /\ Len(c.args) <= 2
       /\ c.op = "connect" => \A k \in DOMAIN c.args : c.args[k].host # NoHost

VARIABLES
  iscmd,          \* copt.iscmd (-c)
  pc,             \* where the program is
  mode,           \* copt.mode->m_mode, or "none" for the end of the table
  cmd, n,         \* the command, and the argument it is at
  err, status,    \* err # 0; the exit status
  serv,           \* serv: connected, addr, and the host it was last given
  alias,          \* serv.canonname is the same string as serv.host
  freed,          \* strings freed that were free already
  sock,           \* peer.sock is open
  peer,           \* peer.addr as host and port (a worker, 0 for "tftp"), connected
  queue,          \* packets the socket held when it was connected
  jmpbuf,         \* active_timeoutbuf: timeoutbuf, or the last engine's retrybuf
  timeout,        \* timeout, in units of xopt.rexmtval
  block,          \* the block the engine waits for
  stream,         \* the FILE of the transfer: name, blocks written, buffer
  leaked,         \* FILEs that nobody closed, with data in their buffers
  disk,           \* the local files
  workers,        \* the server's workers for this transfer, in order
  sent,           \* numbers of the ACKs or DATA the client has sent to each
  seen,           \* the last of them that it has received in order
  reqs,           \* requests on their way to the server
  given, intrs,   \* commands and SIGINTs so far
  refused,        \* calls of connect that failed
  left,           \* history: the places siglongjmp(toplevel) was called from
  kept,           \* history: the host and file each local file was fetched from
  done            \* history: arguments of the command whose transfers returned 0

session == <<iscmd, status, mode>>
command == <<cmd, n, err, done>>
host == <<serv, alias, freed>>
net == <<workers, sent, seen, reqs>>
socket == <<sock, peer, queue, refused>>
files == <<stream, leaked, disk, kept>>
bounds == <<given, intrs, left>>
vars == <<session, pc, command, host, socket, jmpbuf, timeout, block, files, net,
          bounds>>

NoCommand == [op |-> "none", mode |-> "octet", args |-> <<>>, single |-> FALSE]
NoPeer == [addr |-> NoHost, tid |-> 0, connected |-> FALSE]
NoStream == [name |-> NoHost, off |-> 0, buf |-> <<>>]
Arg == cmd.args[n]
Fetches == cmd.op = "get"
Request == [host |-> serv.addr, op |-> cmd.op, file |-> Arg.file]

\* The name a get writes to.  If it names one file and where to put it, this is the
\* second argument, from which strchr cuts nothing but the host, and that only when the
\* loop has come to it.
LocalNames == Names \cup Hosts \cup [host : Hosts, file : Names]
LocalName ==
  LET second == cmd.args[2]
  IN  IF ~cmd.single \/ Len(cmd.args) = 1 \/ second.host = NoHost
      THEN cmd.args[IF cmd.single THEN Len(cmd.args) ELSE n].file
      ELSE IF n = 1 THEN second ELSE second.host

\* Where the program is in tftp_xfer_send or tftp_xfer_recv.
InEngine == {"engine", "resend", "flush"}

\* The file called f on host h.
FileOn(h, f) == [b \in 1..NBlocks |-> <<h, f, b>>]

Init ==
  /\ iscmd \in BOOLEAN
  /\ status = "none" /\ mode = "octet"
  /\ \/ pc = "prompt" /\ cmd = NoCommand /\ n = 0
     \/ pc = "arg" /\ n = 1 /\ cmd \in {c \in Commands : c.op = "connect"}
  /\ err = FALSE /\ done = {}
  /\ serv = [connected |-> FALSE, addr |-> NoHost, host |-> NoHost]
  /\ alias = FALSE /\ freed = FALSE
  /\ sock = FALSE /\ peer = NoPeer
  /\ queue = {} /\ jmpbuf = "timeoutbuf" /\ timeout = 0 /\ block = 0
  /\ stream = NoStream /\ leaked = {} /\ disk = [f \in LocalNames |-> <<>>]
  /\ kept = [f \in LocalNames |-> NoHost]
  /\ workers = <<>> /\ sent = <<>> /\ seen = <<>> /\ reqs = {}
  /\ given = 0 /\ intrs = 0 /\ refused = 0 /\ left = {}

-----------------------------------------------------------------------------
(***************************************************************************)
(* Leaving: a transfer that returns, and siglongjmp(toplevel)               *)
(***************************************************************************)

\* What stdio writes to the disk when the streams are flushed: the buffer of
\* each, at the place where that stream is in its file.
Put(file, p, b) ==
  [i \in 1..(IF Len(file) < p THEN p ELSE Len(file)) |->
     IF i = p THEN b ELSE IF i <= Len(file) THEN file[i] ELSE "hole"]
Flushed(d, s) ==
  IF s.buf = <<>> THEN d ELSE [d EXCEPT ![s.name] = Put(@, s.off + 1, s.buf[1])]

\* What the next open_socket sets anew, or what now goes to a port that it closes,
\* does not matter any more.
Forget ==
  /\ peer' = NoPeer /\ queue' = {} /\ refused' = 0 /\ timeout' = 0 /\ block' = 0
  /\ workers' = <<>> /\ sent' = <<>> /\ seen' = <<>> /\ reqs' = {}

\* setpeer for the host of the command line, before the first command.
SetsPeer == given = 0 /\ pc # "prompt"

\* Everything a transfer leaves behind: the socket it had, active_timeoutbuf and
\* the stream stay as they are.
Toplevel(st, newdisk) ==
  /\ IF iscmd \/ SetsPeer
     THEN /\ pc' = "end" /\ status' = st /\ disk' = newdisk
          /\ UNCHANGED leaked
     ELSE /\ pc' = "prompt" /\ leaked' = leaked \cup {s \in {stream} : s.buf # <<>>}
          /\ UNCHANGED <<status, disk>>
  /\ left' = left \cup ({pc} \cap ({"resolve"} \cup InEngine))
  /\ stream' = NoStream
  /\ cmd' = NoCommand /\ n' = 0 /\ err' = FALSE /\ done' = {}
  /\ Forget
  /\ UNCHANGED <<iscmd, mode, host, sock, jmpbuf, kept, given>>

\* intr(); with -c SIGINT keeps its default action and ends the program there,
\* without a word to stdio.
Interrupt ==
  /\ pc \notin {"end", "undefined"}
  /\ intrs < MaxIntr /\ intrs' = intrs + 1
  /\ Toplevel("killed", disk)

\* What is undefined may end the program or not; nothing is said of it here.
Undefined ==
  /\ pc' = "undefined"
  /\ UNCHANGED <<session, command, host, socket, jmpbuf, timeout, block, files, net,
                 bounds>>

\* Mutant of RetryLeave: the engine's jump buffer stays the active one.
RetryLeaveNot == UNCHANGED jmpbuf
\* client_xfer_retry_leave, which finish() calls.
RetryLeave == jmpbuf' = IF pc \in InEngine THEN "timeoutbuf" ELSE jmpbuf

\* Mutant of FirstError: the last result counts.
FirstErrorLast(ok) == err' = ~ok
\* if (!err) err = result; but err = result where one file is fetched.
FirstError(ok) == err' = (~ok \/ (err /\ ~cmd.single))

\* The end of tftp_sendfile and tftp_recvfile: finish() stops the engine's
\* timer, the file and the socket are closed, and the loop of the command
\* remembers that there was an error, or is left if one file was to be fetched.
Return(ok) ==
  /\ pc' = "next"
  /\ FirstError(ok) /\ done' = IF ok THEN done \cup {n} ELSE done
  /\ n' = IF cmd.single THEN Len(cmd.args) ELSE n
  /\ RetryLeave
  /\ disk' = Flushed(disk, stream) /\ stream' = NoStream
  /\ sock' = FALSE /\ Forget
  /\ kept' = IF ok /\ Fetches
             THEN [kept EXCEPT ![LocalName] = [host |-> serv.host, file |-> Arg.file]]
             ELSE kept
  /\ UNCHANGED <<session, cmd, host, leaked, bounds>>

-----------------------------------------------------------------------------
(***************************************************************************)
(* Commands: command(), and the loops of getfiles and putfiles              *)
(***************************************************************************)

\* getfiles and putfiles refuse a command that leaves the host open.
NoServer(c) ==
  /\ ~serv.connected
  /\ \E k \in DOMAIN c.args : c.args[k].host = NoHost /\ (c.op = "put" => k = 1)

\* One command is read and its handler called.
Give(c) ==
  /\ pc = "prompt"
  /\ given < (IF iscmd THEN 1 ELSE MaxCommands) /\ given' = given + 1
  /\ cmd' = c
  /\ IF c.op # "mode" /\ NoServer(c)
     THEN pc' = "next" /\ n' = Len(c.args) /\ err' = TRUE
     ELSE /\ pc' = IF c.op = "mode" THEN "next" ELSE "arg"
          /\ n' = 1 /\ err' = FALSE
  /\ done' = {}
  /\ mode' = IF c.op = "mode" THEN c.mode ELSE mode
  /\ UNCHANGED <<iscmd, status, host, socket, jmpbuf, timeout, block, files,
                 net, intrs, left>>

\* The next argument; or the handler returns, and the prompt comes back or the
\* program exits with what it returned.
NextArg ==
  /\ pc = "next"
  /\ IF n < Len(cmd.args)
     THEN pc' = "arg" /\ n' = n + 1 /\ UNCHANGED <<status, cmd, err, done>>
     ELSE IF iscmd /\ ~SetsPeer
     THEN /\ pc' = "end" /\ status' = IF err THEN "failed" ELSE "0"
          /\ UNCHANGED command
     ELSE /\ pc' = "prompt" /\ cmd' = NoCommand /\ n' = 0 /\ err' = FALSE /\ done' = {}
          /\ UNCHANGED status
  /\ UNCHANGED <<iscmd, mode, host, socket, jmpbuf, timeout,
                 block, files, net, bounds>>

\* quit, or the end of the input: exit flushes every stream that is still open.
Quit ==
  /\ pc = "prompt" /\ ~iscmd
  /\ pc' = "end" /\ status' = "0"
  /\ disk' = FoldSet(LAMBDA s, d : Flushed(d, s), disk, leaked)
  /\ UNCHANGED <<iscmd, mode, command, host, socket, jmpbuf, timeout, block,
                 stream, leaked, kept, net, bounds>>

\* set_transfer_host, up to the lookup.  Freeing a string twice is undefined.
SetHost ==
  /\ pc = "arg" /\ Arg.host # NoHost
  /\ freed' = (freed \/ alias)
  /\ alias' = TRUE
  /\ serv' = [serv EXCEPT !.addr = NoHost, !.host = Arg.host]
  /\ pc' \in {"resolve"} \cup {u \in {"undefined"} : alias}
  /\ UNCHANGED <<session, command, socket, jmpbuf, timeout, block, files, net, bounds>>

\* set_sock_addr succeeds: canonname becomes a string of its own.
Resolved ==
  /\ pc = "resolve"
  /\ alias' = FALSE
  /\ serv' = [serv EXCEPT !.connected = TRUE, !.addr = Arg.host]
  /\ pc' = IF cmd.op = "connect" THEN "next" ELSE "open"
  /\ UNCHANGED <<session, command, freed, socket, jmpbuf, timeout, block, files, net,
                 bounds>>

\* Mutant of NotResolved: the host before stays connected.
NotResolvedStays ==
  /\ pc = "resolve"
  /\ pc' = "next" /\ err' = TRUE
  /\ n' = IF Fetches THEN n ELSE Len(cmd.args)
  /\ UNCHANGED <<session, cmd, done, host, socket, jmpbuf, timeout, block, files, net,
                 bounds>>

\* It fails: get goes on to the next file, connect and put return.
NotResolved ==
  /\ pc = "resolve"
  /\ serv' = [serv EXCEPT !.connected = FALSE]
  /\ pc' = "next" /\ err' = TRUE
  /\ n' = IF Fetches THEN n ELSE Len(cmd.args)
  /\ UNCHANGED <<session, cmd, done, alias, freed, socket, jmpbuf, timeout, block, files,
                 net, bounds>>

\* The local file is opened, and truncated if it is to be written.
OpenLocal ==
  /\ pc = "open" \/ (pc = "arg" /\ Arg.host = NoHost)
  /\ pc' = "socket"
  /\ IF Fetches THEN /\ disk' = [disk EXCEPT ![LocalName] = <<>>]
                     /\ kept' = [kept EXCEPT ![LocalName] = NoHost]
                     /\ stream' = [name |-> LocalName, off |-> 0, buf |-> <<>>]
                ELSE UNCHANGED <<disk, kept, stream>>
  /\ UNCHANGED <<session, command, host, socket, jmpbuf, timeout, block, leaked,
                 net, bounds>>

\* It cannot be: the loop goes on, or getfiles returns if one file was to be fetched.
OpenLocalFails ==
  /\ pc = "open" \/ (pc = "arg" /\ Arg.host = NoHost)
  /\ pc' = "next" /\ err' = TRUE
  /\ n' = IF cmd.single THEN Len(cmd.args) ELSE n
  /\ UNCHANGED <<session, cmd, done, host, socket, jmpbuf, timeout, block, files, net,
                 bounds>>

-----------------------------------------------------------------------------
(***************************************************************************)
(* The request: tftp_sendfile and tftp_recvfile up to the engine            *)
(***************************************************************************)

\* open_socket closes what an abandoned transfer has left open and takes a new
\* port; then the request is sent.  There is nowhere to send it if a lookup was
\* interrupted.
OpenSocket ==
  /\ pc = "socket" /\ mode # "none"
  /\ serv.connected /\ serv.addr # NoHost
  /\ sock' = TRUE
  /\ peer' = [addr |-> serv.addr, tid |-> 0, connected |-> FALSE]
  /\ timeout' = 1
  /\ reqs' = {Request}
  /\ pc' = "request"
  /\ UNCHANGED <<session, command, host, queue, refused, jmpbuf, block, files, workers, sent,
                 seen, bounds>>

\* No host, no socket, no port, a name too long or an error from sendto.  In
\* tftp_sendfile, response is freed although it was never set if there is no
\* socket.
OpenSocketFails ==
  /\ pc = "socket" /\ mode # "none"
  /\ \/ Return(FALSE)
     \/ cmd.op = "put" /\ Undefined

\* mode is NULL, and strcmp reads it.
NoMode == pc = "socket" /\ mode = "none" /\ Undefined

\* What worker w may have sent to the client: its answer to the request, DATA up to
\* the one that is not acknowledged or the ACKs of what it stored, an ERROR, and
\* something that no client expects.
Packet(w, op, k) == [from |-> w, op |-> op, num |-> k]
Packets(w) ==
  LET me == workers[w]
  IN  {Packet(w, o, 0) : o \in {me.opening, "ERROR", "odd"} \ {"DATA"}}
      \cup IF me.op = "put" THEN {Packet(w, "ACK", b) : b \in 1..seen[w]}
           ELSE {Packet(w, "DATA", b) : b \in {k \in 1..NBlocks : 0 <= seen[w] /\ k <= seen[w] + 1}}

\* What recvfrom may return.  A connected socket takes nothing from elsewhere,
\* but it keeps what had arrived before.
Arrivals ==
  queue \cup
    (UNION {Packets(w) : w \in {v \in DOMAIN workers : peer.connected => peer.tid = v}})

\* client_recv_time: a worker sends from any address of its host, and packets are
\* dropped by their address.  The first one that is taken says to which port the
\* socket is connected; at most one packet is in the socket by then.
Accepts(a) == a = peer.addr \/ (Unsafe /\ ~peer.connected)
Receive(m) ==
  IF peer.connected
  THEN queue' = queue \ {m} /\ UNCHANGED <<peer, refused>>
  ELSE /\ refused' \in refused..MaxRefused /\ refused' <= refused + 1
       /\ \E a \in {b \in Hosts : Accepts(b)} :
            peer' = [addr |-> a, tid |-> m.from, connected |-> refused' = refused]
       /\ queue' \in {{}} \cup {{q} : q \in {a \in Arrivals : a.from # m.from}}

Send(w, k) == sent' = [sent EXCEPT ![w] = @ \cup {k}]

\* Content of a DATA packet.
Block(m) == <<workers[m.from].host, workers[m.from].file, m.num>>

\* The answer that starts the data phase: OACK, or DATA 1 or ACK 0 from a server
\* without options.  The engine enters its retry loop and sends ACK 0 or DATA 1,
\* or it has DATA 1 already.
Opens(m) ==
  \/ m.op = "OACK"
  \/ <<m.op, m.num>> = IF Fetches THEN <<"DATA", 1>> ELSE <<"ACK", 0>>
Reply(m) ==
  /\ pc = "request"
  /\ Receive(m) /\ Opens(m)
  /\ jmpbuf' = "retrybuf" /\ timeout' = 1 /\ block' = 1
  /\ IF m.op = "DATA"
     THEN pc' = "flush" /\ stream' = [stream EXCEPT !.buf = <<Block(m)>>] /\ UNCHANGED sent
     ELSE pc' = "engine" /\ Send(m.from, IF Fetches THEN 0 ELSE 1) /\ UNCHANGED stream
  /\ UNCHANGED <<session, command, host, sock, leaked, disk, kept, workers, seen,
                 reqs, bounds>>

\* An ERROR, an OACK that parse_oack refuses, or no memory or thread for the file.
ReplyFails(m) ==
  /\ pc = "request"
  /\ (Opens(m) \/ m.op = "ERROR")
  /\ Return(FALSE)

\* Anything else is ignored, but the socket stays connected to its sender.
ReplyIgnored(m) ==
  /\ pc = "request"
  /\ Receive(m) /\ ~Opens(m) /\ m.op # "ERROR"
  /\ UNCHANGED <<session, pc, command, host, sock, jmpbuf, timeout, block, files, net,
                 bounds>>

\* recvfrom or sendto fails.
RequestFails == pc = "request" /\ Return(FALSE)

\* The engine sends the block or the last ACK again, to where peer.addr is now.
Resend(w) == Send(w, IF Fetches THEN block - 1 ELSE block)

\* timeout <<= 1.
Doubled == timeout' = 2 * timeout

\* timer(): the program gives up, or jumps to where active_timeoutbuf says.  There
\* the request is sent again, which the server may have received already.
GivesUp == 2 * timeout > TimeoutLimit
JumpTargetLive == jmpbuf = IF pc = "request" THEN "timeoutbuf" ELSE "retrybuf"
Timer ==
  /\ pc \in {"request", "engine"}
  /\ \/ GivesUp /\ Toplevel("failed", Flushed(disk, stream)) /\ UNCHANGED intrs
     \/ /\ ~GivesUp /\ JumpTargetLive
        /\ Doubled
        /\ IF pc = "engine" THEN Resend(peer.tid) ELSE UNCHANGED sent
        /\ UNCHANGED <<session, pc, command, host, socket, jmpbuf, block, files, workers,
                       seen, reqs, bounds>>
     \/ ~GivesUp /\ ~JumpTargetLive /\ Undefined

-----------------------------------------------------------------------------
(***************************************************************************)
(* The data phase: the engine with the client's callbacks, and no thread    *)
(***************************************************************************)

\* Mutants of Awaited: any block is taken, any ACK is.
AwaitedAnyData(m) == IF Fetches THEN m.op = "DATA" ELSE m.op = "ACK" /\ m.num = block
AwaitedAnyAck(m) == IF Fetches THEN m.op = "DATA" /\ m.num = block ELSE m.op = "ACK"
\* The block or the ACK that the engine waits for.
Awaited(m) == m.op = (IF Fetches THEN "DATA" ELSE "ACK") /\ m.num = block

\* The block that is awaited: write_publish, then write_drain hands it to stdio.
EngineStore(m) ==
  /\ pc = "engine" /\ Fetches
  /\ Receive(m) /\ Awaited(m)
  /\ stream' = [stream EXCEPT !.buf = <<Block(m)>>]
  /\ pc' = "flush"
  /\ UNCHANGED <<session, command, host, sock, jmpbuf, timeout, block, leaked, disk,
                 kept, net, bounds>>

\* fflush, write_finish after the last block, and the ACK.
EngineFlush ==
  /\ pc = "flush"
  /\ IF block = NBlocks
     THEN Return(TRUE)
     ELSE /\ disk' = Flushed(disk, stream)
          /\ stream' = [stream EXCEPT !.off = @ + 1, !.buf = <<>>]
          /\ pc' = "engine" /\ block' = block + 1 /\ timeout' = 1
          /\ Send(peer.tid, block)
          /\ UNCHANGED <<session, command, host, socket, jmpbuf, leaked, kept,
                         workers, seen, reqs, bounds>>

\* The ACK that is awaited: the next block, or the end.
EngineAck(m) ==
  /\ pc = "engine" /\ ~Fetches
  /\ Awaited(m)
  /\ IF block = NBlocks
     THEN Return(TRUE)
     ELSE /\ Receive(m) /\ Send(peer'.tid, block + 1)
          /\ block' = block + 1 /\ timeout' = 1
          /\ UNCHANGED <<session, pc, command, host, sock, jmpbuf, files, workers, seen,
                         reqs, bounds>>

\* An OACK where an ACK is awaited: goto resend_window; resend_oack is always set here.
EngineOack(m) ==
  /\ pc = "engine" /\ ~Fetches
  /\ Receive(m) /\ m.op = "OACK"
  /\ pc' = "resend"
  /\ UNCHANGED <<session, command, host, sock, jmpbuf, timeout, block, files, net, bounds>>

\* The block is sent again, and wait_begin starts the countdown anew: timeout is not
\* doubled.
EngineResend ==
  /\ pc = "resend"
  /\ Resend(peer.tid)
  /\ pc' = "engine"
  /\ UNCHANGED <<session, command, host, socket, jmpbuf, timeout, block, files,
                 workers, seen, reqs, bounds>>

\* Any other packet: a block that does not fit is answered with the last ACK.
EngineIgnores(m) ==
  /\ pc = "engine"
  /\ Receive(m) /\ m.op # "ERROR" /\ ~Awaited(m) /\ (m.op = "OACK" => Fetches)
  /\ IF Fetches /\ m.op = "DATA"
     THEN Resend(peer'.tid)
     ELSE UNCHANGED sent
  /\ UNCHANGED <<session, pc, command, host, sock, jmpbuf, timeout, block, files,
                 workers, seen, reqs, bounds>>

EngineError(m) ==
  /\ pc = "engine"
  /\ m.op = "ERROR"
  /\ Return(FALSE)

\* The socket or the local file fails.
EngineFails ==
  /\ pc \in InEngine
  /\ Return(FALSE)

-----------------------------------------------------------------------------
(***************************************************************************)
(* The server: tftpd forks a worker for every request that arrives          *)
(***************************************************************************)

\* A worker answers with or without options.
Serve(r) ==
  /\ Len(workers) <= MaxDup
  /\ \E o \in {"OACK", IF r.op = "get" THEN "DATA" ELSE "ACK"} :
       /\ workers' = Append(workers, [host |-> r.host, op |-> r.op, file |-> r.file,
                                      opening |-> o])
       /\ seen' = Append(seen, IF r.op = "get" /\ o = "OACK" THEN -1 ELSE 0)
       /\ sent' = Append(sent, {})
  /\ UNCHANGED <<reqs>>

\* A worker receives what it waits for, and goes on.
Serves(w) ==
  /\ seen[w] + 1 \in sent[w]
  /\ seen' = [seen EXCEPT ![w] = @ + 1]
  /\ UNCHANGED <<workers, sent, reqs>>

Server ==
  /\ pc \in {"request"} \cup InEngine
  /\ (\E r \in reqs : Serve(r)) \/ (\E w \in DOMAIN workers : Serves(w))
  /\ UNCHANGED <<session, pc, command, host, socket, jmpbuf, timeout, block, files,
                 bounds>>

-----------------------------------------------------------------------------
\* Steps the program takes by itself; getaddrinfo returns in the end.
Step ==
  \/ NextArg \/ SetHost \/ Resolved \/ NotResolved \/ OpenLocal \/ OpenLocalFails
  \/ OpenSocket \/ OpenSocketFails \/ NoMode \/ EngineFlush \/ EngineResend

\* The program is over.
Ended == pc \in {"end", "undefined"} /\ UNCHANGED vars

Next ==
  \/ \E c \in Commands : Give(c)
  \/ Quit \/ Step \/ Timer \/ RequestFails \/ EngineFails \/ Interrupt \/ Server \/ Ended
  \/ \E m \in Arrivals :
       \/ Reply(m) \/ ReplyFails(m) \/ ReplyIgnored(m) \/ EngineStore(m) \/ EngineAck(m)
       \/ EngineOack(m) \/ EngineIgnores(m) \/ EngineError(m)

\* The program runs, and its timer: tftp_recv_time counts the time down over the
\* packets that are ignored, so that the timer goes off if the engine stays in its loop
\* around recv.  Nothing is assumed of the server, the user or the network.
Spec == Init /\ [][Next]_vars /\ WF_vars(Step) /\ WF_vars(Timer)

-----------------------------------------------------------------------------
(***************************************************************************)
(* Properties                                                               *)
(***************************************************************************)

\* A file whose get returned 0 is, complete and in order, the file that was asked for
\* on its host, whatever duplicates the request had and whichever worker answered; and it
\* stays so until the next get to that name.  The one exception is a ^C between fwrite
\* and fflush in write_drain, which leaves a block in a stream that exit() flushes.
GotStays ==
  "flush" \notin left =>
    \A f \in LocalNames : kept[f] # NoHost => disk[f] = FileOn(kept[f].host, kept[f].file)

\* A put that returned 0 was stored to its end by a worker of its own request.
PutIsStored ==
  [][~Fetches /\ n \in done' \ done => \E w \in DOMAIN workers : seen[w] = NBlocks]_vars

\* timer() jumps into a function that is still running, as long as no transfer
\* was left from inside the engine, by a ^C or the last timeout: finish() takes the
\* engine's jump buffer back on every other way out.
TimerInFrame ==
  left \cap InEngine = {} /\ pc \in {"request", "engine"} => JumpTargetLive

\* A host that is connected has its own address, and canonname and host are
\* strings of their own, as long as no lookup was interrupted.
ServIsWhole ==
  "resolve" \notin left /\ serv.connected /\ pc # "resolve" =>
    serv.addr = serv.host /\ ~alias

\* The arguments that are to be fetched or stored.
Wanted == IF cmd.single THEN {1} ELSE DOMAIN cmd.args

Succeeds == iscmd /\ pc = "end" /\ status = "0" /\ cmd.op \in {"get", "put"}

\* An exit status of 0 means that every file of the command was transferred
\* (tftp/main.c:833, 893-963), but for one case: get with a file and a name to put it
\* under takes the name for a file to fetch if the host of the first is not found, and
\* the result of that alone counts.  FailuresReported is without it.
ZeroMeansDone ==
  Succeeds => done = Wanted \/ (cmd.single /\ Len(cmd.args) = 2 /\ done = {2})

\* The server does not repeat its OACK for ever.
OacksEnd == <>[](pc # "resend")


-----------------------------------------------------------------------------
(***************************************************************************)
(* What the documentation and comments say, or a user would expect, and the  *)
(* code does not do                                                          *)
(***************************************************************************)

\* timer() jumps into a function that is still running, always: "retry_enter()
\* supplies its jump buffer to that mechanism, and is called again after it transfers
\* control there" (common/tftp-xfer.h:38-39).  It does not hold: after a transfer that
\* was left from inside the engine, the next request's first timeout jumps into a
\* function that has returned.
TimerAlwaysInFrame == pc \in {"request", "engine"} => JumpTargetLive

\* No string is freed twice ("Fix double-free error on ^c in client.", CHANGES:374).
\* It does not hold: serv.host and serv.canonname are one string after a lookup that
\* failed or was interrupted, and the next set_transfer_host frees both.
FreedOnce == ~freed

\* "Command-mode failures, including transfer timeouts and interrupts, now return a
\* nonzero exit status." (CHANGES:114-115).  Not if the host of the first of two names
\* is not found: err = tftp_recvfile() for the second forgets it (tftp/main.c:931).
FailuresReported == Succeeds => done = Wanted

\* A file that a get has fetched stays as it is, whatever is interrupted.  It does not:
\* exit() flushes the stream of a get that was left between fwrite and fflush into the
\* file that a later get of the same name has made (common/tftp-io.c, write_drain).
GotAlwaysStays ==
  \A f \in LocalNames : kept[f] # NoHost => disk[f] = FileOn(kept[f].host, kept[f].file)

\* "Each subsequent retry doubles this interval" (tftp/tftp.1.in:274-275), so a command
\* ends whatever the server does.  Not the retry that an OACK causes.
CommandAlwaysEnds == pc = "arg" ~> pc \in {"prompt", "end", "undefined"}
=============================================================================
