------------------------------ MODULE TftpXfer ------------------------------
(***************************************************************************)
(* One TFTP transfer: the engine of common/tftp-xfer.c at both ends of an   *)
(* unreliable datagram network, together with what its callers in           *)
(* tftp/tftp.c and tftpd/tftpd.c do around it: the exchange that opens the  *)
(* transfer, the timeout callbacks, the ERROR packet sent for a local        *)
(* failure, and the server's dally after the last ACK of an upload.         *)
(*                                                                          *)
(* tftp_xfer_send reads a window of blocks, sends it, waits for the ACK of  *)
(* its last block, releases it and goes on.  tftp_xfer_recv accepts blocks  *)
(* in order only, and acknowledges a window once it is on its way to disk.  *)
(*                                                                          *)
(* A block is known to the programs by its 16-bit number.  The model also   *)
(* carries the block's position in the file, idx, in every packet.  No      *)
(* guard reads it: it is the content of a DATA packet and it lets the        *)
(* properties say which block a number stood for.                           *)
(***************************************************************************)
EXTENDS BlockNumbers, Sequences

CONSTANTS
  NBlocks,       \* DATA packets in the file; the last one is short
  BlockSize,     \* xfer->blocksize
  LastSize,      \* bytes in the last DATA packet
  WindowSize,    \* xfer->windowsize
  Limits,        \* what xfer->max_bytes may be
  TimeoutLimit,  \* the longest timeout, in units of the first one
  StaleWindows,  \* how many windows a packet may outlive the one it is from
  MaxDups        \* how many packets the network may deliver twice

ASSUME XferAssumption ==
  /\ NBlocks \in Nat \ {0}
  /\ BlockSize \in Nat \ {0} /\ LastSize \in 0..(BlockSize - 1)
  /\ WindowSize \in Nat \ {0}
  /\ Limits \subseteq Nat /\ TimeoutLimit \in Nat
  /\ StaleWindows \in Nat /\ MaxDups \in Nat

VARIABLES
  opening,           \* what starts the data phase: "OACK", "ACK" or "DATA"
  dally,             \* the receiver is the server, which dallies after success
  max_bytes,         \* xfer->max_bytes
  spc,               \* where the sender is
  base,              \* blocks released: read_release was called for them
  packet_count,      \* blocks in the window being sent
  resend_start,      \* first packet of the window to (re)send
  stimeout,          \* the sender's current timeout
  sbytes, sstatus,   \* result->bytes, result->status
  rpc,               \* where the receiver is
  block,             \* the block number it waits for
  last_received,     \* the last block number it accepted
  last_acked,        \* the last block number it acknowledged a window with
  packets_in_window, \* packets accepted since then
  reply_pending,     \* initial_reply_pending
  file,              \* what was published to the file, in order
  drained,           \* how much of it write_drain pushed out
  finished,          \* write_finish was called and succeeded
  rtimeout,          \* the receiver's current timeout
  rbytes, rstatus,   \* result->bytes, result->status
  toReceiver,        \* packets on their way to the receiver
  toSender,          \* packets on their way to the sender
  dups               \* packets the network has delivered twice so far

\* How the transfer is set up; neither side changes it.
setup == <<opening, dally, max_bytes>>
sendVars == <<setup, spc, base, packet_count, resend_start, stimeout, sbytes,
              sstatus>>
storeVars == <<block, last_received, last_acked, packets_in_window,
               reply_pending, file, drained, finished, rbytes>>
recvVars == <<setup, rpc, storeVars, rtimeout, rstatus>>
netVars == <<toReceiver, toSender, dups>>
vars == <<sendVars, recvVars, netVars>>

Statuses == {"none", "OK", "SEND_ERROR", "RECV_ERROR", "READ_ERROR",
             "WRITE_ERROR", "SIZE_EXCEEDED", "PEER_ERROR", "TIMEOUT"}

-----------------------------------------------------------------------------
(***************************************************************************)
(* Blocks and packets; BlockNumbers has the numbers                         *)
(***************************************************************************)

Size(i) == IF i = NBlocks THEN LastSize ELSE BlockSize

\* Bytes in the first n blocks of the file.
BytesIn(n) ==
  IF n = NBlocks THEN ((n - 1) * BlockSize) + LastSize ELSE n * BlockSize

Data(i) == [op |-> "DATA", num |-> BlockNum(i), idx |-> i]
Ack(n, i) == [op |-> "ACK", num |-> n, idx |-> i]
Oack == [op |-> "OACK", num |-> 0, idx |-> 0]
Error == [op |-> "ERROR", num |-> 0, idx |-> 0]

-----------------------------------------------------------------------------
(***************************************************************************)
(* The network: packets are lost, reordered, delayed and delivered twice.   *)
(***************************************************************************)

\* A packet is delivered: it leaves the network, unless it was duplicated.
Take(net, m, rest) ==
  /\ m \in net
  /\ \/ rest = net \ {m} /\ UNCHANGED dups
     \/ rest = net /\ dups < MaxDups /\ dups' = dups + 1

\* What may still be in flight once the sender has released b blocks.  A
\* packet does not outlive its window by more than StaleWindows windows.
StaleBlocks == StaleWindows * WindowSize
Horizon(b) == b - StaleBlocks
LiveData(net, b) == {m \in net : m.op = "DATA" => m.idx > Horizon(b)}
LiveAcks(net, b) == {m \in net : m.op = "ACK" => m.idx >= Horizon(b)}

Lose ==
  /\ \/ \E m \in toReceiver :
          toReceiver' = toReceiver \ {m} /\ UNCHANGED toSender
     \/ \E m \in toSender :
          toSender' = toSender \ {m} /\ UNCHANGED toReceiver
  /\ UNCHANGED <<sendVars, recvVars, dups>>

-----------------------------------------------------------------------------
(***************************************************************************)
(* The sender: tftp_xfer_send and its callers                               *)
(***************************************************************************)

\* timer() doubles the timeout and gives up at the limit.  The limit is 63
\* times the first timeout unless set by hand, so that the server's >= and
\* the client's > do the same.
GivesUp(t) == 2 * t >= TimeoutLimit

\* The engine returns, or timer() leaves it; a failed read is reported to
\* the peer by the caller's nak().
SFinish(status) ==
  /\ spc' = "done"
  /\ sstatus' = status
  /\ toReceiver' = IF status = "READ_ERROR" THEN toReceiver \cup {Error}
                                            ELSE toReceiver
  /\ UNCHANGED <<base, packet_count, resend_start, stimeout, sbytes, recvVars>>

\* The reply that opens the data phase: the server's OACK or ACK 0 to a WRQ,
\* or the client's ACK 0 to the server's OACK.
SOpen(m) ==
  /\ spc = "open"
  /\ \/ m.op = "OACK"
     \/ m.op = "ACK" /\ m.num = 0
  /\ Take(toSender, m, toSender')
  /\ spc' = "read"
  /\ UNCHANGED <<base, packet_count, resend_start, stimeout, sbytes, sstatus,
                 recvVars, toReceiver>>

\* Only the request or the OACK is retransmitted here; the transfer engine
\* at the other end never sees it.
SOpenTimeout ==
  /\ spc = "open"
  /\ \/ GivesUp(stimeout) /\ SFinish("TIMEOUT")
     \/ ~GivesUp(stimeout) /\ SFinish("SEND_ERROR")
     \/ /\ ~GivesUp(stimeout)
        /\ stimeout' = 2 * stimeout
        /\ UNCHANGED <<spc, base, packet_count, resend_start, sbytes, sstatus,
                       recvVars, toReceiver>>
  /\ UNCHANGED <<toSender, dups>>

\* read_window, the numbering of its packets, and retry_enter.
SReadWindow ==
  /\ spc = "read"
  /\ packet_count' = IF NBlocks - base < WindowSize THEN NBlocks - base
                                                    ELSE WindowSize
  /\ stimeout' = 1
  /\ resend_start' = 0
  /\ spc' = "send"
  /\ UNCHANGED <<base, sbytes, sstatus, recvVars, netVars>>

SReadFails ==
  /\ spc = "read"
  /\ SFinish("READ_ERROR")
  /\ UNCHANGED <<toSender, dups>>

\* The packets of the window from resend_start on, up to the k-th.
Suffix(k) == {Data(base + n) : n \in (resend_start + 1)..k}

\* resend_window: nobody can tell in how many steps the packets are sent.
SSendWindow ==
  /\ spc = "send"
  /\ toReceiver' = toReceiver \cup Suffix(packet_count)
  /\ spc' = "wait"
  /\ UNCHANGED <<base, packet_count, resend_start, stimeout, sbytes, sstatus,
                 recvVars, toSender, dups>>

SSendFails ==
  /\ spc = "send"
  /\ \E k \in resend_start..(packet_count - 1) :
       toReceiver' = toReceiver \cup Suffix(k)
  /\ spc' = "done"
  /\ sstatus' = "SEND_ERROR"
  /\ UNCHANGED <<base, packet_count, resend_start, stimeout, sbytes,
                 recvVars, toSender, dups>>

\* expected_ack: the number of the last packet of the window.
ExpectedAck == BlockNum(base + packet_count)

\* The whole window is acknowledged: count its bytes, release it, and finish
\* if it was the last one.
SAckWindow(m) ==
  /\ spc = "wait"
  /\ m.op = "ACK" /\ m.num = ExpectedAck
  /\ base' = base + packet_count
  /\ sbytes' = sbytes + (BytesIn(base + packet_count) - BytesIn(base))
  /\ IF base + packet_count = NBlocks
     THEN spc' = "done" /\ sstatus' = "OK"
     ELSE spc' = "read" /\ UNCHANGED sstatus
  /\ \E rest \in {toSender, toSender \ {m}} :
       Take(toSender, m, rest) /\ toSender' = LiveAcks(rest, base')
  /\ toReceiver' = LiveData(toReceiver, base')
  /\ UNCHANGED <<packet_count, resend_start, stimeout, recvVars>>

\* An ACK within the window: resend what follows it.
SAckPrefix(m) ==
  /\ spc = "wait"
  /\ m.op = "ACK" /\ m.num # ExpectedAck
  /\ \E n \in 1..(packet_count - 1) :
       m.num = BlockNum(base + n) /\ resend_start' = n
  /\ Take(toSender, m, toSender')
  /\ spc' = "send"
  /\ UNCHANGED <<base, packet_count, stimeout, sbytes, sstatus, recvVars,
                 toReceiver>>

\* Any other ACK is ignored.
SAckStale(m) ==
  /\ spc = "wait"
  /\ m.op = "ACK" /\ m.num # ExpectedAck
  /\ \A n \in 1..(packet_count - 1) : m.num # BlockNum(base + n)
  /\ Take(toSender, m, toSender')
  /\ UNCHANGED <<sendVars, recvVars, toReceiver>>

\* An OACK again: the client has resend_oack set in every upload.
SOackAgain(m) ==
  /\ spc = "wait"
  /\ m.op = "OACK"
  /\ resend_start' = 0
  /\ Take(toSender, m, toSender')
  /\ spc' = "send"
  /\ UNCHANGED <<base, packet_count, stimeout, sbytes, sstatus, recvVars,
                 toReceiver>>

SPeerError(m) ==
  /\ spc \in {"open", "wait"}
  /\ m.op = "ERROR"
  /\ Take(toSender, m, toSender')
  /\ SFinish("PEER_ERROR")

SRecvFails ==
  /\ spc \in {"open", "wait"}
  /\ SFinish("RECV_ERROR")
  /\ UNCHANGED <<toSender, dups>>

\* Mutant: the window is sent again without doubling the timeout.
STimeoutForever ==
  /\ spc = "wait"
  /\ resend_start' = 0
  /\ spc' = "send"
  /\ UNCHANGED <<base, packet_count, stimeout, sbytes, sstatus, recvVars,
                 netVars>>

\* timer(), and the jump back to before resend_window.
STimeout ==
  /\ spc = "wait"
  /\ \/ GivesUp(stimeout) /\ SFinish("TIMEOUT")
     \/ /\ ~GivesUp(stimeout)
        /\ stimeout' = 2 * stimeout
        /\ resend_start' = 0
        /\ spc' = "send"
        /\ UNCHANGED <<base, packet_count, sbytes, sstatus, recvVars,
                       toReceiver>>
  /\ UNCHANGED <<toSender, dups>>

-----------------------------------------------------------------------------
(***************************************************************************)
(* The receiver: tftp_xfer_recv and its callers                             *)
(***************************************************************************)

\* Position in the file of the last block acknowledged with a window.
AckedIdx == Len(file) - packets_in_window

\* The engine returns, or timer() leaves it; a failure of the file or of the
\* size limit is reported to the peer by the caller's nak().
RFinish(status) ==
  /\ rpc' = "done"
  /\ rstatus' = status
  /\ toSender' = IF status \in {"WRITE_ERROR", "SIZE_EXCEEDED"}
                 THEN toSender \cup {Error} ELSE toSender
  /\ UNCHANGED <<rtimeout, sendVars>>

\* initial_reply while it is pending, afterwards the ACK of the last window.
Reply == IF reply_pending /\ opening = "OACK" THEN Oack
                                              ELSE Ack(last_acked, AckedIdx)

\* The first write_reserve, and the initial reply.
RStart ==
  /\ rpc = "start"
  /\ \/ rpc' = "wait" /\ toSender' = toSender \cup {Reply}
        /\ UNCHANGED <<rtimeout, rstatus, sendVars>>
     \/ RFinish("SEND_ERROR")
     \/ RFinish("WRITE_ERROR")
  /\ UNCHANGED <<storeVars, toReceiver, dups>>

\* The data phase is entered with DATA 1 already at hand: the client's
\* request loop ignores every other block.
ROpenStray(m) ==
  /\ rpc = "open"
  /\ m.op = "DATA" /\ m.num # 1
  /\ Take(toReceiver, m, toReceiver')
  /\ UNCHANGED <<sendVars, recvVars, toSender>>

\* Mutant: any block but the last one received is taken for the next.
ExpectedNew(m) ==
  /\ m.op = "DATA"
  /\ \/ rpc = "wait" /\ m.num # last_received
     \/ rpc = "open" /\ m.num = 1
  /\ Take(toReceiver, m, toReceiver')

\* The block the receiver waits for, in the loop or in the request exchange.
Expected(m) ==
  /\ m.op = "DATA"
  /\ \/ rpc = "wait" /\ m.num = block
     \/ rpc = "open" /\ m.num = 1
  /\ Take(toReceiver, m, toReceiver')

\* Mutant: the bytes already stored are compared, not those to come.
FitsBefore(m) == rbytes <= max_bytes

Fits(m) == Size(m.idx) <= max_bytes - rbytes

RSizeExceeded(m) ==
  /\ Expected(m) /\ ~Fits(m)
  /\ RFinish("SIZE_EXCEEDED")
  /\ reply_pending' = FALSE
  /\ UNCHANGED <<block, last_received, last_acked, packets_in_window, file,
                 drained, finished, rbytes>>

RPublishFails(m) ==
  /\ Expected(m) /\ Fits(m)
  /\ RFinish("WRITE_ERROR")
  /\ reply_pending' = FALSE
  /\ UNCHANGED <<block, last_received, last_acked, packets_in_window, file,
                 drained, finished, rbytes>>

\* write_publish and the bookkeeping that follows it.
Publish(m) ==
  /\ file' = Append(file, m.idx)
  /\ rbytes' = rbytes + Size(m.idx)
  /\ last_received' = m.num
  /\ block' = NextBlock(block)
  /\ reply_pending' = FALSE

\* Mutant: a full window is taken for the end of the file.
FinalOrFull(m) == Size(m.idx) # BlockSize \/ packets_in_window + 1 = WindowSize

Final(m) == Size(m.idx) # BlockSize
ClosesWindow(m) == Final(m) \/ packets_in_window + 1 = WindowSize

\* In the middle of a window: no reply; write_reserve for the next block.
RStore(m) ==
  /\ Expected(m) /\ Fits(m) /\ ~ClosesWindow(m)
  /\ Publish(m)
  /\ packets_in_window' = packets_in_window + 1
  /\ \/ rpc' = "wait" /\ rtimeout' = 1
        /\ UNCHANGED <<rstatus, sendVars, toSender>>
     \/ RFinish("WRITE_ERROR")
  /\ UNCHANGED <<last_acked, drained, finished>>

\* Mutant: packets_in_window is not reset.
CloseNoReset(m) == last_acked' = m.num /\ UNCHANGED packets_in_window

\* What the end of a window does first.
Close(m) == last_acked' = m.num /\ packets_in_window' = 0

\* write_drain, and at the end of the file write_finish, succeed.
Flush(m) == drained' = Len(file') /\ finished' = Final(m)

\* Mutant: the receiver may find an error after the ACK has gone out.
RAckWindowLate(m) ==
  /\ Expected(m) /\ Fits(m) /\ ClosesWindow(m)
  /\ Publish(m) /\ Close(m) /\ Flush(m)
  /\ toSender' = toSender \cup {Ack(m.num, Len(file'))}
  /\ \/ /\ rpc' = IF ~Final(m) THEN "wait" ELSE IF dally THEN "dally" ELSE "done"
        /\ rstatus' = IF Final(m) THEN "OK" ELSE rstatus
        /\ rtimeout' = IF Final(m) THEN rtimeout ELSE 1
     \/ rpc' = "done" /\ rstatus' = "SEND_ERROR" /\ UNCHANGED rtimeout
  /\ UNCHANGED sendVars

\* The end of a window: the file is flushed, then the ACK is sent.
RAckWindow(m) ==
  /\ Expected(m) /\ Fits(m) /\ ClosesWindow(m)
  /\ Publish(m) /\ Close(m) /\ Flush(m)
  /\ \/ /\ toSender' = toSender \cup {Ack(m.num, Len(file'))}
        /\ rpc' = IF ~Final(m) THEN "wait" ELSE IF dally THEN "dally" ELSE "done"
        /\ rstatus' = IF Final(m) THEN "OK" ELSE rstatus
        /\ rtimeout' = IF Final(m) THEN rtimeout ELSE 1
        /\ UNCHANGED sendVars
     \/ RFinish("SEND_ERROR")

\* write_drain or write_finish fails; or, after the ACK of a window that is
\* not the last, write_reserve does.
RWindowFails(m) ==
  /\ Expected(m) /\ Fits(m) /\ ClosesWindow(m)
  /\ Publish(m) /\ Close(m)
  /\ finished' = FALSE
  /\ \/ drained' = drained /\ RFinish("WRITE_ERROR")
     \/ drained' = Len(file') /\ Final(m) /\ RFinish("WRITE_ERROR")
     \/ /\ drained' = Len(file') /\ ~Final(m)
        /\ toSender' = toSender \cup {Ack(m.num, Len(file')), Error}
        /\ rpc' = "done" /\ rstatus' = "WRITE_ERROR"
        /\ UNCHANGED <<rtimeout, sendVars>>

\* Any other DATA is answered with an ACK of the last block in sequence.
RDataStale(m) ==
  /\ rpc = "wait"
  /\ m.op = "DATA" /\ m.num # block
  /\ Take(toReceiver, m, toReceiver')
  /\ \/ toSender' = toSender \cup {Ack(last_received, Len(file))}
     \/ UNCHANGED toSender
  /\ UNCHANGED <<sendVars, recvVars>>

RPeerError(m) ==
  /\ rpc \in {"open", "wait"}
  /\ m.op = "ERROR"
  /\ Take(toReceiver, m, toReceiver')
  /\ RFinish("PEER_ERROR")
  /\ UNCHANGED storeVars

RRecvFails ==
  /\ rpc \in {"open", "wait"}
  /\ RFinish("RECV_ERROR")
  /\ UNCHANGED <<storeVars, toReceiver, dups>>

\* timer(): in the engine the reply is sent again, in the request exchange
\* only the request is.
RTimeout ==
  /\ rpc \in {"open", "wait"}
  /\ \/ GivesUp(rtimeout) /\ RFinish("TIMEOUT")
     \/ /\ ~GivesUp(rtimeout)
        /\ rtimeout' = 2 * rtimeout
        /\ toSender' = IF rpc = "open" THEN toSender ELSE toSender \cup {Reply}
        /\ UNCHANGED <<rpc, rstatus, sendVars>>
     \/ ~GivesUp(rtimeout) /\ RFinish("SEND_ERROR")
  /\ UNCHANGED <<storeVars, toReceiver, dups>>

\* daemon_xfer_dally: one packet, answered if it is the last block again, or
\* none within the timeout.
RDally(m) ==
  /\ rpc = "dally"
  /\ Take(toReceiver, m, toReceiver')
  /\ toSender' = IF m.op = "DATA" /\ m.num = last_acked
                 THEN toSender \cup {Ack(last_acked, Len(file))} ELSE toSender
  /\ rpc' = "done"
  /\ UNCHANGED <<storeVars, rtimeout, rstatus, sendVars>>

RDallyEnds ==
  /\ rpc = "dally"
  /\ rpc' = "done"
  /\ UNCHANGED <<storeVars, rtimeout, rstatus, sendVars, netVars>>

-----------------------------------------------------------------------------
\* An upload is opened by the server's OACK or ACK 0, and the server dallies; a
\* download by the client's ACK 0 to an OACK, or by DATA 1.
Init ==
  /\ \/ opening \in {"OACK", "ACK"} /\ dally = TRUE
     \/ opening \in {"ACK", "DATA"} /\ dally = FALSE
  /\ max_bytes \in Limits
  /\ spc = IF opening = "DATA" THEN "read" ELSE "open"
  /\ base = 0 /\ packet_count = 0 /\ resend_start = 0
  /\ stimeout = 1 /\ sbytes = 0 /\ sstatus = "none"
  /\ rpc = IF opening = "DATA" THEN "open" ELSE "start"
  /\ block = 1 /\ last_received = 0 /\ last_acked = 0
  /\ packets_in_window = 0
  /\ reply_pending = (opening # "DATA")
  /\ file = <<>> /\ drained = 0 /\ finished = FALSE
  /\ rtimeout = 1 /\ rbytes = 0 /\ rstatus = "none"
  /\ toReceiver = {} /\ toSender = {} /\ dups = 0

SReceive(m) ==
  \/ SOpen(m) \/ SAckWindow(m) \/ SAckPrefix(m) \/ SAckStale(m)
  \/ SOackAgain(m) \/ SPeerError(m)

SLocal == SReadWindow \/ SReadFails \/ SSendWindow \/ SSendFails

RReceive(m) ==
  \/ ROpenStray(m) \/ RSizeExceeded(m) \/ RPublishFails(m) \/ RStore(m)
  \/ RAckWindow(m) \/ RWindowFails(m) \/ RDataStale(m) \/ RPeerError(m)
  \/ RDally(m)

\* The transfer is over at both ends.
Terminated == spc = "done" /\ rpc = "done" /\ UNCHANGED vars

Next ==
  \/ \E m \in toSender : SReceive(m)
  \/ SLocal \/ SOpenTimeout \/ STimeout \/ SRecvFails
  \/ \E m \in toReceiver : RReceive(m)
  \/ RStart \/ RTimeout \/ RRecvFails \/ RDallyEnds
  \/ Lose
  \/ Terminated

Spec == Init /\ [][Next]_vars

\* Neither program waits for longer than its timer runs: tftp_recv_time counts
\* the time down over the packets it returns, so traffic does not postpone the
\* timeout.  The sender's timer is started again by an ACK within the window,
\* and it is: a sender that keeps leaving "wait" owes no timeout.  Nothing is
\* assumed of the network.
Fairness ==
  /\ WF_vars(SLocal)
  /\ WF_vars(SOpenTimeout)
  /\ WF_vars(STimeout)
  /\ WF_vars(RStart)
  /\ WF_vars(RTimeout)
  /\ WF_vars(RDallyEnds)

LiveSpec == Spec /\ Fairness

-----------------------------------------------------------------------------
(***************************************************************************)
(* Properties                                                               *)
(***************************************************************************)

Packets ==
  [op : {"DATA", "ACK", "OACK", "ERROR"}, num : 0..(BlockMod - 1), idx : Nat]

\* Every variable keeps to its type, block numbers to BlockMod.
TypeOK ==
  /\ opening \in {"OACK", "ACK", "DATA"} /\ dally \in BOOLEAN
  /\ max_bytes \in Nat
  /\ spc \in {"open", "read", "send", "wait", "done"}
  /\ base \in 0..NBlocks
  /\ packet_count \in 0..WindowSize
  /\ resend_start \in 0..WindowSize
  /\ stimeout \in Nat /\ sbytes \in Nat /\ sstatus \in Statuses
  /\ rpc \in {"open", "start", "wait", "dally", "done"}
  /\ block \in 0..(BlockMod - 1)
  /\ last_received \in 0..(BlockMod - 1)
  /\ last_acked \in 0..(BlockMod - 1)
  /\ packets_in_window \in 0..WindowSize
  /\ reply_pending \in BOOLEAN /\ finished \in BOOLEAN
  /\ file \in Seq(Nat) /\ drained \in Nat
  /\ rtimeout \in Nat /\ rbytes \in Nat /\ rstatus \in Statuses
  /\ toReceiver \subseteq Packets /\ toSender \subseteq Packets
  /\ dups \in 0..MaxDups

\* tftp_xfer_recv stores the blocks of the file in order, each once and none
\* skipped, although it only compares 16-bit numbers that repeat.
DeliveredInOrder ==
  Len(file) <= NBlocks /\ \A i \in 1..Len(file) : file[i] = i

\* tftp_xfer_send calls read_release only for blocks that write_drain has
\* pushed out at the other end: no block that may have to be sent again is
\* given up.
ReleasedIsDurable == base <= drained

\* The sender and the receiver agree where windows begin: the receiver has
\* acknowledged exactly what the sender has released, or exactly one window
\* more.
WindowsAligned ==
  AckedIdx \in {base, IF NBlocks - base < WindowSize THEN NBlocks
                                                     ELSE base + WindowSize}

\* When either end reports success the whole file is stored, drained and
\* finished at the receiver, and a sender that succeeds has counted the same
\* bytes: the last ACK is sent only after write_finish.
SuccessMeansStored ==
  /\ sstatus = "OK" \/ rstatus = "OK" =>
       /\ Len(file) = NBlocks /\ drained = NBlocks /\ finished
       /\ rbytes = BytesIn(NBlocks)
  /\ sstatus = "OK" => sbytes = rbytes

\* The size limit holds for what was stored, so that max_bytes - bytes, an
\* unsigned subtraction, never wraps.
WithinMaxBytes == rbytes <= max_bytes

\* While the receiver waits for a block, fewer than a window of blocks is not
\* drained: a ring of one window of slots always has room for write_reserve.
RoomForNextBlock ==
  rpc \in {"open", "wait"} => Len(file) - drained < WindowSize

\* What a caller makes of result->status.
Outcome(status) ==
  CASE status = "none" -> "none" [] status = "OK" -> "ok" [] OTHER -> "failed"

Transfer == INSTANCE FileTransfer
  WITH stored <- drained, released <- base,
       sender <- Outcome(sstatus), receiver <- Outcome(rstatus)

\* The two engines and the network between them do what FileTransfer promises:
\* read_release never runs ahead of write_drain, and tftp_xfer_send returns
\* TFTP_XFER_OK only if tftp_xfer_recv did, so that the server keeps (does not
\* discard) every upload that its client reports as done.
ImplementsTransfer == Transfer!Spec

\* Every transfer ends at both ends, whatever the network loses: the timeouts
\* double up to the limit, and only progress starts them afresh.
Terminates == <>(spc = "done" /\ rpc = "done")
=============================================================================
