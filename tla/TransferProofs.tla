--------------------------- MODULE TransferProofs ---------------------------
(***************************************************************************)
(* The transfer and the reader that feeds its sender.                       *)
(*                                                                          *)
(* The safety properties of TftpXfer and its refinement of FileTransfer,    *)
(* for every file length, window size, block number width and number of     *)
(* duplicated packets.  TftpXferInvariant holds the inductive invariant and *)
(* what each step of the engines does to it.                                *)
(*                                                                          *)
(* The reader ring for every file, ring and window size: it keeps a window  *)
(* intact, it cannot block itself, and it implements WindowSource.  The     *)
(* inductive invariant says where each block is: block i + 1 of the file    *)
(* sits in slot i % Slots from the moment it is read until it is released,  *)
(* and the slot the thread fills is none of those.                          *)
(***************************************************************************)
EXTENDS TftpXferInvariant, IoReader

(***************************************************************************)
(* The transfer                                                             *)
(***************************************************************************)

\* Both engines begin in the invariant.
LEMMA InitInv == Init => IInv
<1> SUFFICES ASSUME Init PROVE IInv
  OBVIOUS
<1>1. TypeOK
  <2>1. reply_pending \in BOOLEAN
    BY Zenon DEF Init
  <2>2. 0 \in 0..(BlockMod - 1) /\ 1 \in 0..(BlockMod - 1)
    BY BlockNumberAssumption
  <2>3. file \in Seq(Nat)
    BY DEF Init
  <2>4. /\ spc \in {"open", "read"} /\ rpc \in {"open", "start"}
        /\ finished \in BOOLEAN
        /\ toReceiver \subseteq Packets /\ toSender \subseteq Packets
    BY Zenon DEF Init
  <2>5. /\ base = 0 /\ packet_count = 0 /\ resend_start = 0 /\ stimeout = 1
        /\ sbytes = 0 /\ sstatus = "none" /\ block = 1 /\ last_received = 0
        /\ last_acked = 0 /\ packets_in_window = 0 /\ drained = 0
        /\ rtimeout = 1 /\ rbytes = 0 /\ rstatus = "none" /\ dups = 0
    BY DEF Init
  <2>6. opening \in {"OACK", "ACK", "DATA"} /\ dally \in BOOLEAN /\ max_bytes \in Nat
    BY XferAssumption, Zenon DEF Init
  <2> QED
    BY <2>1, <2>2, <2>3, <2>4, <2>5, <2>6, XferAssumption DEF TypeOK, Statuses
<1>2. SenderInv
  BY XferAssumption DEF Init, SenderInv, BytesIn
<1>3. ReceiverInv
  BY XferAssumption, BlockNumType
     DEF Init, ReceiverInv, DeliveredInOrder, AckedIdx, BytesIn
<1>4. WindowInv
  BY XferAssumption DEF Init, WindowInv, AckedIdx, WindowEnd
<1>5. DataInv /\ AckInv
  BY DEF Init, DataInv, AckInv
<1> QED
  BY <1>1, <1>2, <1>3, <1>4, <1>5 DEF IInv

\* Every step of either engine, and of the network, keeps the invariant.
LEMMA NextInv == IInv /\ [Next]_vars => IInv'
<1> SUFFICES ASSUME IInv, [Next]_vars PROVE IInv'
  OBVIOUS
<1>1. ASSUME NEW m \in toSender, SReceive(m) PROVE IInv'
  BY <1>1, SenderQuietInv, SAckWindowInv DEF SReceive
<1>2. CASE SLocal \/ SOpenTimeout \/ STimeout \/ SRecvFails
  BY <1>2, SenderQuietInv
<1>3. ASSUME NEW m \in toReceiver, RReceive(m) PROVE IInv'
  BY <1>3, ReceiverQuietInv, ReceiverStoresInv DEF RReceive
<1>4. CASE RStart \/ RTimeout \/ RRecvFails \/ RDallyEnds
  BY <1>4, ReceiverQuietInv
<1>5. CASE Lose \/ UNCHANGED vars
  <2>1. /\ toReceiver' \subseteq toReceiver /\ toSender' \subseteq toSender
        /\ UNCHANGED <<sendVars, recvVars, dups>>
    BY <1>5 DEF Lose, vars, netVars
  <2>2. TypeOK'
    BY <2>1 DEF IInv, TypeOK, sendVars, setup, recvVars, storeVars, Packets
  <2>3. SenderInv' /\ ReceiverInv' /\ WindowInv'
    BY <2>1 DEF IInv, SenderInv, ReceiverInv, WindowInv, DeliveredInOrder,
                AckedIdx, WindowEnd, BytesIn, sendVars, setup, recvVars, storeVars
  <2>4. DataInv' /\ AckInv'
    BY <2>1 DEF IInv, DataInv, AckInv, WindowEnd, Horizon,
                sendVars, setup, recvVars, storeVars
  <2> QED
    BY <2>2, <2>3, <2>4 DEF IInv
<1> QED
  BY <1>1, <1>2, <1>3, <1>4, <1>5 DEF Next, Terminated

\* The inductive invariant of a transfer by tftp_xfer_send and tftp_xfer_recv.
THEOREM Invariance == Spec => []IInv
BY InitInv, NextInv, PTL DEF Spec

\* Type correctness of the transfer.
THEOREM TypeCorrect == Spec => []TypeOK
<1>1. IInv => TypeOK
  BY DEF IInv
<1> QED
  BY <1>1, Invariance, PTL

\* tftp_xfer_recv stores every block once and in order, for every file length
\* and window size, as long as FreshnessAssumption holds: with 16-bit numbers
\* and packets that outlive their window by at most one, for every window of
\* fewer than 2^15 blocks.
THEOREM InOrder == Spec => []DeliveredInOrder
<1>1. IInv => DeliveredInOrder
  BY DEF IInv, ReceiverInv
<1> QED
  BY <1>1, Invariance, PTL

\* tftp_xfer_send releases only what the receiver has drained.
THEOREM Durable == Spec => []ReleasedIsDurable
<1>1. IInv => ReleasedIsDurable
  BY DEF IInv, WindowInv, ReleasedIsDurable
<1> QED
  BY <1>1, Invariance, PTL

\* The two engines agree on the window boundaries.
THEOREM Aligned == Spec => []WindowsAligned
<1>1. IInv => WindowsAligned
  BY DEF IInv, WindowInv, WindowsAligned, WindowEnd
<1> QED
  BY <1>1, Invariance, PTL

\* TFTP_XFER_OK at either end means that the file is complete at the receiver.
THEOREM Success == Spec => []SuccessMeansStored
<1>1. ASSUME IInv PROVE SuccessMeansStored
  <2>1. sstatus = "OK" => sbytes = BytesIn(NBlocks) /\ finished
    BY <1>1 DEF IInv, SenderInv
  <2>2. rstatus = "OK" => finished
    BY <1>1 DEF IInv, ReceiverInv
  <2>3. finished => Len(file) = NBlocks /\ drained = NBlocks
    BY <1>1 DEF IInv, ReceiverInv
  <2>4. rbytes = BytesIn(Len(file))
    BY <1>1 DEF IInv, ReceiverInv
  <2> QED
    BY <2>1, <2>2, <2>3, <2>4 DEF SuccessMeansStored
<1> QED
  BY <1>1, Invariance, PTL

\* max_bytes is a limit on what is stored.
THEOREM SizeLimit == Spec => []WithinMaxBytes
<1>1. IInv => WithinMaxBytes
  BY DEF IInv, ReceiverInv, WithinMaxBytes
<1> QED
  BY <1>1, Invariance, PTL

\* A ring of one window of slots always has room for the block awaited.
THEOREM RingSuffices == Spec => []RoomForNextBlock
<1>1. IInv => RoomForNextBlock
  BY XferAssumption DEF IInv, TypeOK, ReceiverInv, AckedIdx, RoomForNextBlock
<1> QED
  BY <1>1, Invariance, PTL

-----------------------------------------------------------------------------
(***************************************************************************)
(* The transfer implements FileTransfer                                     *)
(***************************************************************************)

\* The ACK of the last block is sent by a receiver that has succeeded.
LastAckInv ==
  /\ \A a \in toSender : a.op = "ACK" /\ a.idx = NBlocks => rstatus = "OK"
  /\ sstatus = "OK" => rstatus = "OK"

\* A receiver that has returned does not return again.
LEMMA OutcomeIsFinal ==
  ASSUME IInv, [Next]_vars, rstatus # "none"
  PROVE  UNCHANGED <<rstatus, drained>>
<1>1. rpc \notin {"open", "start", "wait"}
  BY DEF IInv, ReceiverInv
<1> USE DEF setup, sendVars, storeVars, recvVars, netVars
<1>2. ASSUME NEW m \in toSender, SReceive(m) PROVE UNCHANGED <<rstatus, drained>>
  BY <1>2 DEF SReceive, SOpen, SAckWindow, SAckPrefix, SAckStale, SOackAgain,
              SPeerError, SFinish
<1>3. CASE SLocal \/ SOpenTimeout \/ STimeout \/ SRecvFails
  BY <1>3, Zenon DEF SLocal, SReadWindow, SReadFails, SSendWindow, SSendFails,
              SOpenTimeout, STimeout, SRecvFails, SFinish
<1>4. ASSUME NEW m \in toReceiver, RReceive(m) PROVE UNCHANGED <<rstatus, drained>>
  BY <1>1, <1>4, Zenon DEF RReceive, ROpenStray, RSizeExceeded, RPublishFails, RStore,
                    RAckWindow, RWindowFails, RDataStale, RPeerError, RDally, Expected
<1>5. CASE RStart \/ RTimeout \/ RRecvFails \/ RDallyEnds
  BY <1>1, <1>5 DEF RStart, RTimeout, RRecvFails, RDallyEnds
<1>6. CASE Lose \/ UNCHANGED vars
  BY <1>6 DEF Lose, vars
<1> QED
  BY <1>2, <1>3, <1>4, <1>5, <1>6 DEF Next, Terminated

\* The sender puts nothing into the network that carries its ACKs.
LEMMA SenderSendsNoAck ==
  ASSUME \/ \E m \in toSender : SReceive(m)
         \/ SLocal \/ SOpenTimeout \/ STimeout \/ SRecvFails
  PROVE  toSender' \subseteq toSender
<1>1. ASSUME NEW m \in toSender, SReceive(m) PROVE toSender' \subseteq toSender
  <2>1. CASE SAckWindow(m)
    BY <2>1 DEF SAckWindow, LiveAcks
  <2>2. CASE ~SAckWindow(m)
    BY <1>1, <2>2 DEF SReceive, SOpen, SAckPrefix, SAckStale, SOackAgain, SPeerError, Take
  <2> QED
    BY <2>1, <2>2
<1>2. CASE SLocal \/ SOpenTimeout \/ STimeout \/ SRecvFails
  BY <1>2 DEF SLocal, SReadWindow, SReadFails, SSendWindow, SSendFails, SOpenTimeout,
              STimeout, SRecvFails, netVars
<1> QED
  BY <1>1, <1>2

\* A receiver that returns sends at most an ERROR.
LEMMA FinishSends ==
  ASSUME NEW s, RFinish(s)
  PROVE  toSender' \subseteq toSender \cup {Error} /\ UNCHANGED sendVars
BY DEF RFinish

\* The receiver leaves the sender's variables alone.
LEMMA SenderLeftAlone ==
  ASSUME \/ \E m \in toReceiver : RReceive(m)
         \/ RStart \/ RTimeout \/ RRecvFails \/ RDallyEnds
  PROVE  UNCHANGED sendVars
<1>1. ASSUME NEW m \in toReceiver, RReceive(m) PROVE UNCHANGED sendVars
  <2>1. CASE ROpenStray(m) \/ RDataStale(m) \/ RDally(m)
    BY <2>1 DEF ROpenStray, RDataStale, RDally
  <2>2. CASE RSizeExceeded(m) \/ RPublishFails(m) \/ RPeerError(m)
    BY <2>2, FinishSends DEF RSizeExceeded, RPublishFails, RPeerError
  <2>3. CASE RStore(m)
    BY <2>3, FinishSends DEF RStore
  <2>4. CASE RAckWindow(m)
    BY <2>4, FinishSends DEF RAckWindow
  <2>5. CASE RWindowFails(m)
    BY <2>5, FinishSends DEF RWindowFails
  <2> QED
    BY <1>1, <2>1, <2>2, <2>3, <2>4, <2>5 DEF RReceive
<1>2. CASE RStart
  BY <1>2, FinishSends DEF RStart
<1>3. CASE RTimeout
  BY <1>3, FinishSends DEF RTimeout
<1>4. CASE RRecvFails \/ RDallyEnds
  BY <1>4, FinishSends DEF RRecvFails, RDallyEnds
<1> QED
  BY <1>1, <1>2, <1>3, <1>4

\* A new ACK of the last block comes from a receiver that has succeeded.
LEMMA LastAckSent ==
  ASSUME IInv, [Next]_vars, NEW a \in toSender', a \notin toSender,
         a.op = "ACK", a.idx = NBlocks
  PROVE  rstatus' = "OK"
<1>1. /\ Error.op = "ERROR" /\ Oack.op = "OACK"
      /\ \A n, i : Ack(n, i).op = "ACK" /\ Ack(n, i).idx = i
  BY DEF Error, Oack, Ack
<1>2. /\ Len(file) \in Nat /\ packets_in_window \in Nat /\ NBlocks \in Nat
      /\ rpc \in {"start", "open", "wait"} => Len(file) < NBlocks
      /\ rpc = "dally" => rstatus = "OK"
  BY XferAssumption DEF IInv, TypeOK, ReceiverInv
<1>3. rpc \in {"start", "open", "wait"} => a # Reply /\ a # Ack(last_received, Len(file))
  BY <1>1, <1>2 DEF Reply, AckedIdx
<1>4. a # Error
  BY <1>1
<1>5. CASE RStart \/ RTimeout \/ RRecvFails \/ RDallyEnds
  BY <1>3, <1>4, <1>5 DEF RStart, RTimeout, RRecvFails, RDallyEnds, RFinish, netVars
<1>6. ASSUME NEW m \in toReceiver, RReceive(m) PROVE rstatus' = "OK"
  <2>1. CASE RDally(m)
    BY <1>2, <2>1 DEF RDally
  <2>2. CASE RAckWindow(m)
    <3>1. Final(m) <=> Len(file') = NBlocks
      BY <2>2, PublishFacts, Zenon DEF RAckWindow
    <3>2. \/ /\ toSender' = toSender \cup {Ack(m.num, Len(file'))}
             /\ rstatus' = IF Final(m) THEN "OK" ELSE rstatus
          \/ RFinish("SEND_ERROR")
      BY <2>2, Zenon DEF RAckWindow
    <3>3. ~RFinish("SEND_ERROR")
      BY <1>4, FinishSends, Zenon
    <3>4. a = Ack(m.num, Len(file')) /\ rstatus' = IF Final(m) THEN "OK" ELSE rstatus
      BY <3>2, <3>3, Zenon
    <3>5. Len(file') = NBlocks
      BY <1>1, <3>4, Zenon
    <3> QED
      BY <3>1, <3>4, <3>5, Zenon
  <2>3. CASE RWindowFails(m)
    <3>1. Final(m) <=> Len(file') = NBlocks
      BY <2>3, PublishFacts, Zenon DEF RWindowFails
    <3>2. \/ toSender' \subseteq toSender \cup {Error}
          \/ toSender' = toSender \cup {Ack(m.num, Len(file')), Error} /\ ~Final(m)
      BY <2>3, FinishSends, Zenon DEF RWindowFails
    <3> QED
      BY <1>1, <1>4, <3>1, <3>2
  <2>4. CASE ROpenStray(m) \/ RSizeExceeded(m) \/ RPublishFails(m) \/ RStore(m)
             \/ RDataStale(m) \/ RPeerError(m)
    BY <1>3, <1>4, <2>4, Zenon DEF ROpenStray, RSizeExceeded, RPublishFails, RStore,
                            RDataStale, RPeerError, RFinish
  <2> QED
    BY <1>6, <2>1, <2>2, <2>3, <2>4 DEF RReceive
<1>7. CASE Lose \/ UNCHANGED vars
  BY <1>7 DEF Lose, vars, netVars
<1> QED
  BY <1>5, <1>6, <1>7, SenderSendsNoAck DEF Next, Terminated

\* The sender succeeds only with the ACK of the last block.
LEMMA SuccessNeedsAck ==
  ASSUME IInv, [Next]_vars, sstatus # "OK", sstatus' = "OK"
  PROVE  \E a \in toSender : a.op = "ACK" /\ a.idx = NBlocks /\ SAckWindow(a)
<1> USE DEF setup, sendVars, storeVars, recvVars, netVars
<1>1. ASSUME NEW m \in toSender, SReceive(m)
      PROVE  SAckWindow(m)
  BY <1>1 DEF SReceive, SOpen, SAckPrefix, SAckStale, SOackAgain, SPeerError, SFinish
<1>2. ASSUME NEW m \in toSender, SAckWindow(m) PROVE m.op = "ACK" /\ m.idx = NBlocks
  <2>1. m.op = "ACK" /\ m.idx = WindowEnd(base)
    BY <1>2, ExpectedAckIsEnd DEF SAckWindow
  <2>2. base + packet_count = NBlocks
    BY <1>2 DEF SAckWindow
  <2>3. base + packet_count = WindowEnd(base)
    BY <1>2 DEF SAckWindow, IInv, SenderInv
  <2> QED
    BY <2>1, <2>2, <2>3
<1>3. ~(SLocal \/ SOpenTimeout \/ STimeout \/ SRecvFails)
  BY Zenon DEF SLocal, SReadWindow, SReadFails, SSendWindow, SSendFails, SOpenTimeout,
         STimeout, SRecvFails, SFinish
<1>4. ASSUME NEW m \in toReceiver, RReceive(m) PROVE UNCHANGED sstatus
  BY <1>4, Zenon DEF RReceive, ROpenStray, RSizeExceeded, RPublishFails, RStore, RAckWindow,
              RWindowFails, RDataStale, RPeerError, RDally, RFinish
<1>5. ~(RStart \/ RTimeout \/ RRecvFails \/ RDallyEnds \/ Lose \/ UNCHANGED vars)
  BY Zenon DEF RStart, RTimeout, RRecvFails, RDallyEnds, RFinish, Lose, vars
<1> QED
  BY <1>1, <1>2, <1>3, <1>4, <1>5 DEF Next, Terminated

\* A sender that has succeeded has heard of the receiver's success.
LEMMA LastAckStep ==
  ASSUME IInv, LastAckInv, [Next]_vars
  PROVE  LastAckInv'
<1>1. rstatus = "OK" => rstatus' = "OK"
  BY OutcomeIsFinal
<1>2. ASSUME NEW a \in toSender', a.op = "ACK", a.idx = NBlocks PROVE rstatus' = "OK"
  BY <1>1, <1>2, LastAckSent DEF LastAckInv
<1>3. sstatus' = "OK" => rstatus' = "OK"
  BY <1>1, SuccessNeedsAck DEF LastAckInv
<1> QED
  BY <1>2, <1>3 DEF LastAckInv

\* What a step of the sender is to the callers: it releases a window, or it fails,
\* or it is nothing.
LEMMA SenderStep ==
  ASSUME IInv, LastAckInv,
         \/ \E m \in toSender : SReceive(m)
         \/ SLocal \/ SOpenTimeout \/ STimeout \/ SRecvFails
  PROVE  /\ UNCHANGED <<drained, rstatus>>
         /\ \/ UNCHANGED <<base, sstatus>>
            \/ UNCHANGED base /\ sstatus = "none" /\ sstatus' \notin {"none", "OK"}
            \/ /\ base' \in base..drained /\ sstatus = "none"
               /\ \/ base' < NBlocks /\ UNCHANGED sstatus
                  \/ base' = NBlocks /\ sstatus' = "OK" /\ rstatus = "OK"
<1> USE DEF setup, sendVars, storeVars, recvVars, netVars
<1>0. spc # "done" => sstatus = "none"
  BY DEF IInv, SenderInv
<1>1. ASSUME NEW m \in toSender, SAckWindow(m)
      PROVE  /\ UNCHANGED <<drained, rstatus>> /\ sstatus = "none"
             /\ base' \in base..drained
             /\ \/ base' < NBlocks /\ UNCHANGED sstatus
                \/ base' = NBlocks /\ sstatus' = "OK" /\ rstatus = "OK"
  <2>1. base \in Nat /\ packet_count \in Nat /\ drained \in Nat /\ Len(file) <= NBlocks
        /\ NBlocks \in Nat
    BY XferAssumption DEF IInv, TypeOK, ReceiverInv, DeliveredInOrder
  <2>2. base' = m.idx /\ drained = m.idx /\ Len(file) = m.idx /\ m.op = "ACK"
    BY <1>1, ExpectedAckIsEnd DEF SAckWindow, IInv, SenderInv
  <2>3. base' = base + packet_count
    BY <1>1 DEF SAckWindow
  <2>4. m.idx = NBlocks => rstatus = "OK"
    BY <2>2 DEF LastAckInv
  <2>5. UNCHANGED <<drained, rstatus>> /\ sstatus = "none"
        /\ (IF base' = NBlocks THEN sstatus' = "OK" ELSE UNCHANGED sstatus)
    BY <1>0, <1>1 DEF SAckWindow
  <2>6. base' \in base..drained /\ base' <= NBlocks
    BY <2>1, <2>2, <2>3
  <2>7. CASE base' = NBlocks
    BY <2>2, <2>4, <2>5, <2>6, <2>7
  <2>8. CASE base' # NBlocks
    <3>1. base' < NBlocks
      BY <2>1, <2>6, <2>8
    <3> QED
      BY <2>5, <2>6, <2>8, <3>1
  <2> QED
    BY <2>7, <2>8
<1>2. ASSUME NEW m \in toSender, SReceive(m), ~SAckWindow(m)
      PROVE  /\ UNCHANGED <<drained, rstatus, base>>
             /\ UNCHANGED sstatus \/ (sstatus = "none" /\ sstatus' \notin {"none", "OK"})
  <2>1. CASE SOpen(m) \/ SAckPrefix(m) \/ SAckStale(m) \/ SOackAgain(m)
    BY <2>1, Zenon DEF SOpen, SAckPrefix, SAckStale, SOackAgain
  <2>2. CASE SPeerError(m)
    <3>1. SFinish("PEER_ERROR") /\ spc \in {"open", "wait"}
      BY <2>2, Zenon DEF SPeerError
    <3>2. spc # "done"
      BY <3>1
    <3>3. UNCHANGED <<drained, rstatus, base>> /\ sstatus' = "PEER_ERROR"
      BY <3>1, Zenon DEF SFinish
    <3>4. "PEER_ERROR" \notin {"none", "OK"}
      OBVIOUS
    <3> QED
      BY <1>0, <3>2, <3>3, <3>4, Zenon
  <2> QED
    BY <1>2, <2>1, <2>2, Zenon DEF SReceive
<1>3. ASSUME SLocal \/ SOpenTimeout \/ STimeout \/ SRecvFails
      PROVE  /\ UNCHANGED <<drained, rstatus, base>>
             /\ UNCHANGED sstatus \/ (sstatus = "none" /\ sstatus' \notin {"none", "OK"})
  BY <1>0, <1>3, Zenon DEF SLocal, SReadWindow, SReadFails, SSendWindow, SSendFails,
                    SOpenTimeout, STimeout, SRecvFails, SFinish
<1> QED
  BY <1>1, <1>2, <1>3

\* What a step of the receiver is to the callers: it may store and return.
LEMMA ReceiverStep ==
  ASSUME IInv,
         \/ \E m \in toReceiver : RReceive(m)
         \/ RStart \/ RTimeout \/ RRecvFails \/ RDallyEnds
  PROVE  UNCHANGED <<base, sstatus>> /\ drained <= drained'
<1>1. drained \in Nat /\ Len(file) \in Nat /\ drained <= Len(file)
  BY DEF IInv, TypeOK, WindowInv
<1>2. UNCHANGED <<base, sstatus>>
  BY SenderLeftAlone DEF sendVars
<1>3. ASSUME NEW m \in toReceiver, RAckWindow(m) \/ RWindowFails(m)
      PROVE  drained <= drained'
  <2>1. Len(file') = Len(file) + 1
    BY <1>3, PublishFacts, Zenon DEF RAckWindow, RWindowFails
  <2>2. drained' = drained \/ drained' = Len(file')
    BY <1>3 DEF RAckWindow, RWindowFails, Flush
  <2> QED
    BY <1>1, <2>1, <2>2
<1>4. ASSUME NEW m \in toReceiver, RReceive(m), ~RAckWindow(m), ~RWindowFails(m)
      PROVE  UNCHANGED drained
  <2>1. CASE ROpenStray(m) \/ RDataStale(m)
    BY <2>1 DEF ROpenStray, RDataStale, recvVars, storeVars
  <2>2. CASE RPeerError(m) \/ RDally(m)
    BY <2>2 DEF RPeerError, RDally, storeVars
  <2>3. CASE RSizeExceeded(m) \/ RPublishFails(m) \/ RStore(m)
    BY <2>3 DEF RSizeExceeded, RPublishFails, RStore
  <2> QED
    BY <1>4, <2>1, <2>2, <2>3 DEF RReceive
<1>5. ASSUME RStart \/ RTimeout \/ RRecvFails \/ RDallyEnds
      PROVE  UNCHANGED drained
  BY <1>5, Zenon DEF RStart, RTimeout, RRecvFails, RDallyEnds, storeVars
<1>6. UNCHANGED drained => drained <= drained'
  BY <1>1
<1> QED
  BY <1>2, <1>3, <1>4, <1>5, <1>6

\* Every step of the transfer is a step of FileTransfer, or nothing to the callers.
LEMMA TransferStep ==
  ASSUME IInv, IInv', LastAckInv, [Next]_vars
  PROVE  [Transfer!Next]_(Transfer!vars)
<1> USE DEF Transfer!Next, Transfer!Receive, Transfer!Release, Transfer!Fail, Transfer!vars
<1>1. CASE \/ \E m \in toSender : SReceive(m)
           \/ SLocal \/ SOpenTimeout \/ STimeout \/ SRecvFails
  BY <1>1, SenderStep DEF Outcome
<1>2. CASE \/ \E m \in toReceiver : RReceive(m)
           \/ RStart \/ RTimeout \/ RRecvFails \/ RDallyEnds
  <2>1. UNCHANGED <<base, sstatus>> /\ drained <= drained'
    BY <1>2, ReceiverStep
  <2>2. /\ drained \in Nat /\ drained' \in Nat /\ drained' <= NBlocks /\ NBlocks \in Nat
        /\ rstatus' = "OK" => drained' = NBlocks
    <3>1. drained \in Nat /\ drained' \in Nat /\ Len(file)' \in Nat /\ NBlocks \in Nat
      BY XferAssumption DEF IInv, TypeOK
    <3>2. drained' <= Len(file)' /\ Len(file)' <= NBlocks
      BY DEF IInv, WindowInv, ReceiverInv, DeliveredInOrder
    <3>3. rstatus' = "OK" => drained' = NBlocks
      BY DEF IInv, ReceiverInv
    <3> QED
      BY <3>1, <3>2, <3>3
  <2>3. CASE rstatus = "none"
    BY <2>1, <2>2, <2>3 DEF Outcome
  <2>4. CASE rstatus # "none"
    BY <2>1, <2>4, OutcomeIsFinal DEF Outcome
  <2> QED
    BY <2>3, <2>4, Zenon
<1>3. CASE Lose \/ UNCHANGED vars
  BY <1>3 DEF Lose, vars, sendVars, recvVars, storeVars
<1> QED
  BY <1>1, <1>2, <1>3, Zenon DEF Next, Terminated

\* The two engines implement FileTransfer: blocks are stored before they are
\* released, and the sender succeeds only if the receiver did.
THEOREM Implements == Spec => ImplementsTransfer
<1>1. Init => LastAckInv /\ Transfer!Init
  BY DEF Init, LastAckInv, Transfer!Init, Outcome
<1>2. IInv /\ LastAckInv /\ [Next]_vars => LastAckInv'
  BY LastAckStep
<1>3. IInv /\ IInv' /\ LastAckInv /\ [Next]_vars => [Transfer!Next]_(Transfer!vars)
  BY TransferStep
<1> QED
  BY <1>1, <1>2, <1>3, Invariance, PTL DEF Spec, ImplementsTransfer, Transfer!Spec

-----------------------------------------------------------------------------
(***************************************************************************)
(* The reader                                                               *)
(***************************************************************************)

\* The blocks read and not yet released, each in its slot.
RingInv ==
  /\ filepos = released + count
  /\ held <= count
  /\ head = released % Slots
  /\ tail = filepos % Slots
  /\ \A i \in released..(filepos - 1) : ring[i % Slots] = i + 1
  /\ eof <=> filepos = FileBlocks

\* The thread reads only with a free slot and before the end of the file, and
\* whoever waits has its reason.
ThreadInv ==
  /\ tpc # "exit" => threaded /\ ~eof /\ ~error
  /\ tpc = "reading" => count < Slots
  /\ "thread" \in waiting => tpc = "check" /\ count = Slots
  /\ "engine" \in waiting => epc = "window" /\ WindowShort /\ threaded

ReaderInv == ReaderTypeOK /\ RingInv /\ ThreadInv

-----------------------------------------------------------------------------

\* io_next steps to the next remainder.
LEMMA NextSlotRemainder ==
  ASSUME NEW x \in Nat
  PROVE  NextSlot(x % Slots) = (x + 1) % Slots
<1>1. Slots \in Nat \ {0}
  BY ReaderAssumption
<1>2. (x + 1) % Slots = IF x % Slots = Slots - 1 THEN 0 ELSE (x % Slots) + 1
  BY <1>1, NextRemainder, Zenon
<1>3. x % Slots \in 0..(Slots - 1)
  BY <1>1, Division
<1> QED
  BY <1>1, <1>2, <1>3 DEF NextSlot

\* The n-th packet held is in the slot of block released + n + 1.
LEMMA HeldSlotRemainder ==
  ASSUME RingInv, released \in Nat, NEW n \in Nat
  PROVE  HeldSlot(n) = (released + n) % Slots
<1>1. Slots \in Nat \ {0}
  BY ReaderAssumption
<1> QED
  BY <1>1, RemainderAdd, Zenon DEF RingInv, HeldSlot

\* The tail slot holds none of the blocks in the ring, unless it is full.
LEMMA TailIsFree ==
  ASSUME ReaderTypeOK, RingInv, count < Slots, NEW i \in released..(filepos - 1)
  PROVE  i % Slots # tail
<1>1. Slots \in Nat \ {0} /\ filepos \in Nat /\ released \in Nat /\ count \in Nat
  BY ReaderAssumption DEF ReaderTypeOK
<1>2. i \in Nat /\ i < filepos /\ filepos - i < Slots
  BY <1>1 DEF RingInv
<1> QED
  BY <1>1, <1>2, RemaindersDiffer, Zenon DEF RingInv

\* Reading a packet into the tail slot keeps every block in its place.
LEMMA ReadPacketKeeps ==
  ASSUME ReaderTypeOK, RingInv, count < Slots, ~eof, ReadPacket,
         UNCHANGED <<released, head, held>>
  PROVE  /\ RingInv'
         /\ ring' \in [SlotIds -> 0..FileBlocks] /\ tail' \in SlotIds
         /\ count' \in 0..Slots /\ filepos' \in 0..FileBlocks /\ eof' \in BOOLEAN
<1>1. Slots \in Nat \ {0} /\ filepos \in 0..FileBlocks /\ released \in Nat /\ FileBlocks \in Nat
      /\ count \in Nat /\ tail \in SlotIds /\ ring \in [SlotIds -> 0..FileBlocks] /\ held \in Nat
  BY ReaderAssumption DEF ReaderTypeOK
<1>2. filepos < FileBlocks
  BY <1>1 DEF RingInv
<1>3. tail' = (filepos + 1) % Slots
  <2>1. filepos \in Nat
    BY <1>1
  <2> QED
    BY <2>1, NextSlotRemainder DEF ReadPacket, RingInv
<1>4. tail' \in SlotIds
  <2>1. filepos + 1 \in Nat
    BY <1>1
  <2> QED
    BY <1>1, <1>3, <2>1, Division DEF SlotIds
<1>5. ASSUME NEW i \in released..filepos PROVE ring'[i % Slots] = i + 1
  <2>1. i \in Nat /\ i % Slots \in SlotIds
    BY <1>1, Division DEF SlotIds
  <2>2. CASE i = filepos
    BY <1>1, <2>1, <2>2 DEF ReadPacket, RingInv
  <2>3. CASE i # filepos
    <3>1. i \in released..(filepos - 1)
      BY <1>1, <2>3
    <3>2. i % Slots # tail
      BY <3>1, TailIsFree
    <3> QED
      BY <1>1, <2>1, <3>1, <3>2, Zenon DEF ReadPacket, RingInv
  <2> QED
    BY <2>2, <2>3
<1>6. ring' \in [SlotIds -> 0..FileBlocks]
  BY <1>1, <1>2 DEF ReadPacket
<1>7. filepos' = filepos + 1 /\ count' = count + 1 /\ eof' = (filepos + 1 = FileBlocks)
  BY DEF ReadPacket
<1>8. RingInv'
  <2>1. filepos' = released' + count' /\ held' <= count' /\ head' = released' % Slots
    BY <1>1, <1>7 DEF RingInv
  <2>2. tail' = filepos' % Slots
    BY <1>3, <1>7
  <2>3. ASSUME NEW i \in released'..(filepos' - 1) PROVE ring'[i % Slots] = i + 1
    <3>1. i \in released..filepos
      BY <1>1, <1>7
    <3> QED
      BY <1>5, <3>1
  <2>4. eof' <=> filepos' = FileBlocks
    BY <1>7, Zenon
  <2> QED
    BY <2>1, <2>2, <2>3, <2>4 DEF RingInv
<1> QED
  BY <1>1, <1>2, <1>4, <1>6, <1>7, <1>8

\* The invariant holds at the start.
LEMMA ReaderInitInv == ReaderInit => ReaderInv
<1> SUFFICES ASSUME ReaderInit PROVE ReaderInv
  OBVIOUS
<1>1. Slots \in Nat \ {0} /\ FileBlocks \in Nat \ {0} /\ Window \in Nat \ {0}
  BY ReaderAssumption
<1>2. 0 % Slots = 0
  BY <1>1, SmallRemainder
<1>3. ReaderTypeOK
  <2>1. [s \in SlotIds |-> 0] \in [SlotIds -> 0..FileBlocks]
    BY <1>1
  <2>2. 0 \in SlotIds /\ 0 \in 0..Slots /\ 0 \in 0..Window /\ 0 \in 0..FileBlocks
    BY <1>1 DEF SlotIds
  <2>3. tpc \in {"check", "exit"}
    BY DEF ReaderInit
  <2> QED
    BY <2>1, <2>2, <2>3, Zenon DEF ReaderInit, ReaderTypeOK
<1>4. RingInv
  BY <1>1, <1>2 DEF ReaderInit, RingInv
<1>5. ThreadInv
  BY <1>1 DEF ReaderInit, ThreadInv
<1> QED
  BY <1>3, <1>4, <1>5 DEF ReaderInv

\* Every step of the thread and of the engine keeps it.
LEMMA ReaderStepInv == ReaderInv /\ [ReaderNext]_readerVars => ReaderInv'
<1> SUFFICES ASSUME ReaderInv, [ReaderNext]_readerVars PROVE ReaderInv'
  OBVIOUS
<1> USE DEF ReaderInv
<1>0. Slots \in Nat \ {0} /\ FileBlocks \in Nat \ {0} /\ Window \in Nat \ {0}
      /\ Window <= Slots
  BY ReaderAssumption
<1>1. CASE TCheck
  <2>1. ReaderTypeOK'
    <3>1. 0 \in 0..FileBlocks
      BY <1>0
    <3>2. ring' \in [SlotIds -> 0..FileBlocks]
      BY <1>1, <3>1 DEF TCheck, ReaderTypeOK
    <3>3. waiting' \in SUBSET {"thread", "engine"} /\ tpc' \in {"check", "reading", "exit"}
      BY <1>1, Zenon DEF TCheck, ReaderTypeOK
    <3> QED
      BY <1>1, <3>2, <3>3 DEF TCheck, ReaderTypeOK, engineVars
  <2>2. RingInv'
    <3>1. UNCHANGED <<filepos, released, count, held, head, tail, eof>>
      BY <1>1 DEF TCheck, engineVars
    <3>2. ASSUME NEW i \in released..(filepos - 1) PROVE ring'[i % Slots] = i + 1
      <4>1. CASE UNCHANGED ring
        BY <4>1 DEF RingInv
      <4>2. CASE ~RingFull /\ ring' = [ring EXCEPT ![tail] = 0]
        <5>1. count < Slots
          BY <1>0, <4>2 DEF RingFull, ReaderTypeOK
        <5>2. i % Slots # tail
          BY <5>1, TailIsFree
        <5>3. i % Slots \in SlotIds
          <6>1. i \in Nat
            BY <1>0 DEF ReaderTypeOK
          <6> QED
            BY <1>0, <6>1, Division DEF SlotIds
        <5> QED
          BY <4>2, <5>2, <5>3 DEF RingInv, ReaderTypeOK
      <4> QED
        BY <1>1, <4>1, <4>2 DEF TCheck
    <3> QED
      BY <3>1, <3>2 DEF RingInv
  <2>3. ThreadInv'
    BY <1>0, <1>1 DEF TCheck, ThreadInv, ReaderTypeOK, RingFull, engineVars, WindowShort
  <2> QED
    BY <2>1, <2>2, <2>3
<1>2. CASE TRead
  <2>1. count < Slots /\ ~eof /\ UNCHANGED <<released, head, held>> /\ ReadPacket
    BY <1>2 DEF TRead, ThreadInv, engineVars
  <2>2. /\ RingInv'
        /\ ring' \in [SlotIds -> 0..FileBlocks] /\ tail' \in SlotIds
        /\ count' \in 0..Slots /\ filepos' \in 0..FileBlocks /\ eof' \in BOOLEAN
    BY <2>1, ReadPacketKeeps
  <2>3. ReaderTypeOK'
    BY <1>2, <2>2 DEF TRead, ReaderTypeOK, engineVars
  <2>4. ThreadInv'
    BY <1>2 DEF TRead, ThreadInv
  <2> QED
    BY <2>2, <2>3, <2>4
<1>3. CASE TReadFails
  BY <1>3 DEF TReadFails, ReaderTypeOK, RingInv, ThreadInv, engineVars
<1>4. CASE EWaitWindow
  BY <1>4 DEF EWaitWindow, ReaderTypeOK, RingInv, ThreadInv, WindowShort, ringVars, engineVars
<1>5. CASE EReadPacket
  <2>0. ~threaded /\ tpc = "exit" /\ waiting = {}
    BY <1>5 DEF EReadPacket, ThreadInv, ReaderTypeOK
  <2>1. CASE ReadPacket /\ UNCHANGED error
    <3>1. count < Slots /\ ~eof /\ UNCHANGED <<released, head, held>>
      BY <1>0, <1>5 DEF EReadPacket, WindowShort, engineVars, ReaderTypeOK
    <3>2. /\ RingInv'
          /\ ring' \in [SlotIds -> 0..FileBlocks] /\ tail' \in SlotIds
          /\ count' \in 0..Slots /\ filepos' \in 0..FileBlocks /\ eof' \in BOOLEAN
      BY <2>1, <3>1, ReadPacketKeeps
    <3>3. ReaderTypeOK'
      BY <1>5, <2>1, <3>2 DEF EReadPacket, ReaderTypeOK, engineVars
    <3>4. ThreadInv'
      BY <1>5, <2>0 DEF EReadPacket, ThreadInv
    <3> QED
      BY <3>2, <3>3, <3>4
  <2>2. CASE error' = TRUE /\ UNCHANGED <<ring, tail, eof, filepos, count>>
    BY <1>5, <2>0, <2>2 DEF EReadPacket, ReaderTypeOK, RingInv, ThreadInv, engineVars
  <2> QED
    BY <1>5, <2>1, <2>2, Zenon DEF EReadPacket
<1>6. CASE EGetWindow
  <2>1. UNCHANGED <<threaded, ring, tail, eof, error, filepos, head, released, stopped,
                    count, waiting, tpc>>
    BY <1>6 DEF EGetWindow, ringVars
  <2>2. held' \in 0..Window /\ held' <= count
    BY <1>0, <1>6 DEF EGetWindow, Least, ReaderTypeOK, RingInv
  <2>3. final' \in BOOLEAN
    BY <1>6, Zenon DEF EGetWindow, LastWindow, ReaderTypeOK
  <2>4. epc' \in {"stop", "hold"} /\ "engine" \notin waiting
    BY <1>6 DEF EGetWindow
  <2>5. ReaderTypeOK'
    BY <2>1, <2>2, <2>3, <2>4 DEF ReaderTypeOK
  <2>6. RingInv'
    BY <2>1, <2>2 DEF RingInv
  <2>7. ThreadInv'
    BY <2>1, <2>4 DEF ThreadInv
  <2> QED
    BY <2>5, <2>6, <2>7
<1>7. CASE ERelease
  <2>1. released' = released + held /\ count' = count - held /\ held' = 0
        /\ UNCHANGED <<ring, filepos, tail, eof>>
    BY <1>7 DEF ERelease, ringVars
  <2>2. head' = (released + held) % Slots
    BY <1>7, HeldSlotRemainder DEF ERelease, ReaderTypeOK
  <2>3. released + held \in Nat
    BY DEF ReaderTypeOK
  <2>4. head' \in SlotIds
    BY <1>0, <2>2, <2>3, Division DEF SlotIds
  <2>5. released' \in 0..FileBlocks /\ count' \in 0..Slots
    BY <1>0, <2>1 DEF ReaderTypeOK, RingInv
  <2>6. ReaderTypeOK'
    <3>1. 0 \in 0..Window
      BY <1>0
    <3> QED
      BY <1>7, <2>1, <2>4, <2>5, <3>1, Zenon DEF ERelease, ReaderTypeOK, ringVars
  <2>7. RingInv'
    <3>1. filepos' = released' + count' /\ held' <= count' /\ tail' = filepos' % Slots
          /\ (eof' <=> filepos' = FileBlocks)
      BY <2>1, <2>5 DEF RingInv, ReaderTypeOK
    <3>2. head' = released' % Slots
      BY <2>1, <2>2
    <3>3. ASSUME NEW i \in released'..(filepos' - 1) PROVE ring'[i % Slots] = i + 1
      <4>1. i \in released..(filepos - 1)
        BY <1>0, <2>1 DEF ReaderTypeOK
      <4> QED
        BY <2>1, <4>1 DEF RingInv
    <3> QED
      BY <3>1, <3>2, <3>3 DEF RingInv
  <2>8. ThreadInv'
    BY <1>0, <1>7 DEF ERelease, ThreadInv, ReaderTypeOK, ringVars
  <2> QED
    BY <2>6, <2>7, <2>8
<1>8. CASE EAbort
  BY <1>8 DEF EAbort, ReaderTypeOK, RingInv, ThreadInv, ringVars
<1>9. CASE EStop
  BY <1>0, <1>9 DEF EStop, ReaderTypeOK, RingInv, ThreadInv, ringVars
<1>10. CASE EJoin
  BY <1>0, <1>10 DEF EJoin, ReaderTypeOK, RingInv, ThreadInv, ringVars
<1>11. CASE UNCHANGED readerVars
  BY <1>11 DEF readerVars, ReaderTypeOK, RingInv, ThreadInv, WindowShort, ringVars, engineVars
<1> QED
  BY <1>1, <1>2, <1>3, <1>4, <1>5, <1>6, <1>7, <1>8, <1>9, <1>10, <1>11
     DEF ReaderNext, Thread, Engine, ReaderTerminated

\* The ring's bookkeeping is right in every reachable state.
THEOREM ReaderInvariance == ReaderSpec => []ReaderInv
BY ReaderInitInv, ReaderStepInv, PTL DEF ReaderSpec

\* A window stays intact while it is held, for every ring and window size
\* that io_start accepts.
THEOREM WindowStaysIntact == ReaderSpec => []WindowIntact
<1>1. ReaderInv => WindowIntact
  <2> SUFFICES ASSUME ReaderInv, NEW n \in 0..(held - 1)
               PROVE  ring[HeldSlot(n)] = released + n + 1
    BY DEF WindowIntact
  <2>1. n \in Nat /\ released \in Nat /\ held \in Nat
    BY ReaderAssumption DEF ReaderInv, ReaderTypeOK
  <2>2. released + n \in released..(filepos - 1)
    BY <2>1 DEF ReaderInv, RingInv, ReaderTypeOK
  <2>3. HeldSlot(n) = (released + n) % Slots
    BY <2>1, HeldSlotRemainder DEF ReaderInv
  <2> QED
    BY <2>1, <2>2, <2>3 DEF ReaderInv, RingInv
<1> QED
  BY <1>1, ReaderInvariance, PTL

\* reader_thread and read_window never both wait.
THEOREM ReaderNeverBlocks == ReaderSpec => []NoMutualWait
<1>1. ReaderInv => NoMutualWait
  BY ReaderAssumption DEF ReaderInv, ThreadInv, NoMutualWait, WindowShort, ReaderTypeOK
<1> QED
  BY <1>1, ReaderInvariance, PTL

-----------------------------------------------------------------------------

\* The blocks of the window that the engine holds.
HeldBlocks == [n \in 1..held |-> ring[HeldSlot(n - 1)]]

\* They are the next blocks of the file.
LEMMA HeldBlocksExact ==
  ReaderInv => HeldBlocks = [n \in 1..held |-> released + n]
<1> SUFFICES ASSUME ReaderInv PROVE HeldBlocks = [n \in 1..held |-> released + n]
  OBVIOUS
<1>1. ASSUME NEW n \in 1..held PROVE ring[HeldSlot(n - 1)] = released + n
  <2>1. n - 1 \in Nat /\ released \in Nat /\ held \in Nat
    BY ReaderAssumption DEF ReaderInv, ReaderTypeOK
  <2>2. released + (n - 1) \in released..(filepos - 1)
    BY <2>1 DEF ReaderInv, RingInv, ReaderTypeOK
  <2>3. HeldSlot(n - 1) = (released + (n - 1)) % Slots
    BY <2>1, HeldSlotRemainder DEF ReaderInv
  <2> QED
    BY <2>1, <2>2, <2>3 DEF ReaderInv, RingInv
<1> QED
  BY <1>1 DEF HeldBlocks

\* The reader ring implements WindowSource: read_window hands out full windows
\* except the last, in order, unchanged until read_release, and says "final"
\* of the last window and of no other.
THEOREM ReaderRefines == ReaderSpec => ImplementsSource
<1>1. ReaderInit => source!Init
  BY DEF ReaderInit, source!Init
<1>next. (ReaderInv => HeldBlocks = [n \in 1..held |-> released + n])'
  BY HeldBlocksExact, PTL
<1>2. ReaderInv /\ ReaderInv' /\ [ReaderNext]_readerVars => [source!Next]_source!vars
  <2> SUFFICES ASSUME ReaderInv, ReaderInv', [ReaderNext]_readerVars PROVE [source!Next]_source!vars
    OBVIOUS
  <2>0. Slots \in Nat \ {0} /\ FileBlocks \in Nat \ {0} /\ Window \in Nat \ {0}
        /\ released \in 0..FileBlocks /\ count \in 0..Slots /\ held \in 0..Window
    BY ReaderAssumption DEF ReaderInv, ReaderTypeOK
  <2>same. ASSUME UNCHANGED <<epc, final, released, held, head>>,
                  epc = "hold" => HeldBlocks' = HeldBlocks
           PROVE  UNCHANGED source!vars
    BY <2>same, Zenon DEF source!vars, HeldBlocks
  <2>keep. ASSUME UNCHANGED <<released, held>> PROVE HeldBlocks' = HeldBlocks
    <3>1. HeldBlocks' = [n \in 1..held' |-> released' + n]
      BY <1>next
    <3> QED
      BY <2>keep, <3>1, HeldBlocksExact
  <2>1. CASE TCheck \/ TRead \/ TReadFails \/ EWaitWindow \/ EReadPacket
             \/ UNCHANGED readerVars
    <3>1. UNCHANGED <<epc, final, released, held, head>>
      BY <2>1 DEF TCheck, TRead, TReadFails, EWaitWindow, EReadPacket, readerVars, engineVars
    <3> QED
      BY <3>1, <2>keep, <2>same
  <2>2. CASE EGetWindow
    <3>1. CASE error
      BY <2>2, <3>1 DEF EGetWindow, source!Next, source!Fail
    <3>2. CASE ~error
      <4>1. epc = "window" /\ epc' = "hold" /\ released' = released
            /\ held' = Least(count, Window) /\ final' = LastWindow(held')
        BY <2>2, <3>2 DEF EGetWindow
      <4>2. count >= Window \/ eof
        BY <2>0, <2>2, <3>2 DEF EGetWindow, WindowShort
      <4>3. count <= FileBlocks - released /\ (eof <=> count = FileBlocks - released)
        <5>1. filepos = released + count /\ (eof <=> filepos = FileBlocks)
          BY <2>0, Zenon DEF ReaderInv, RingInv
        <5>2. filepos \in 0..FileBlocks /\ released \in 0..FileBlocks /\ count \in 0..Slots
          BY <2>0, Zenon DEF ReaderInv, ReaderTypeOK
        <5> QED
          BY <5>1, <5>2, ReaderAssumption
      <4>4. held' = IF FileBlocks - released < Window THEN FileBlocks - released ELSE Window
        BY <2>0, <4>1, <4>2, <4>3 DEF Least
      <4>5. LastWindow(held') <=> FileBlocks - released <= Window
        BY <2>0, <4>2, <4>3, <4>4 DEF LastWindow
      <4>6. final' = (FileBlocks - released <= Window)
        <5>1. final' \in BOOLEAN
          BY DEF ReaderInv, ReaderTypeOK
        <5> QED
          BY <4>1, <4>5, <5>1
      <4>7. HeldBlocks' = [n \in 1..held' |-> released' + n]
        BY <1>next
      <4>8. HeldBlocks' = [n \in 1..(IF FileBlocks - released < Window
                                      THEN FileBlocks - released ELSE Window)
                             |-> released + n]
        BY <4>1, <4>4, <4>7
      <4>9. (final' /\ epc' = "hold") = (FileBlocks - released <= Window)
        <5>1. final' \in BOOLEAN
          BY DEF ReaderInv, ReaderTypeOK
        <5>2. (final' /\ epc' = "hold") = final'
          BY <4>1, <5>1
        <5> QED
          BY <4>6, <5>2
      <4>10. (IF epc' = "hold" THEN HeldBlocks' ELSE <<>>)
             = [n \in 1..(IF FileBlocks - released < Window
                           THEN FileBlocks - released ELSE Window) |-> released + n]
        BY <4>1, <4>8
      <4>11. source!Give
        BY <4>1, <4>9, <4>10 DEF source!Give, source!Remaining, HeldBlocks
      <4> QED
        BY <4>11 DEF source!Next
    <3> QED
      BY <3>1, <3>2
  <2>3. CASE ERelease
    <3>1. Len(HeldBlocks) = held
      BY <2>0, HeldBlocksExact
    <3>2. epc = "hold" /\ epc' \in {"stop", "window"} /\ (epc' = "stop" <=> final)
          /\ released' = released + held /\ final' = FALSE
      BY <2>3 DEF ERelease
    <3>3. source!Release
      BY <3>1, <3>2, Zenon DEF source!Release, HeldBlocks
    <3> QED
      BY <3>3 DEF source!Next
  <2>4. CASE EAbort
    BY <2>4 DEF EAbort, source!Next, source!Abandon
  <2>5. CASE EStop
    BY <2>5 DEF EStop, source!Next, source!Stop
  <2>6. CASE EJoin
    BY <2>6 DEF EJoin, source!vars
  <2> QED
    BY <2>1, <2>2, <2>3, <2>4, <2>5, <2>6 DEF ReaderNext, Thread, Engine, ReaderTerminated
<1> QED
  BY <1>1, <1>2, ReaderInvariance, PTL DEF ReaderSpec, source!Spec, ImplementsSource
=============================================================================
