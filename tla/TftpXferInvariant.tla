------------------------- MODULE TftpXferInvariant --------------------------
(***************************************************************************)
(* The inductive invariant of TftpXfer and the steps of the two engines     *)
(* that keep it, for every file length, window size, block number width and *)
(* number of duplicated packets.                                            *)
(***************************************************************************)
EXTENDS TftpXfer, TLAPS

(***************************************************************************)
(* Facts about % that block numbers and the indices of the reader rest on.  *)
(***************************************************************************)

\* Euclidean division.
LEMMA Division ==
  ASSUME NEW d \in Nat \ {0}, NEW x \in Nat
  PROVE  /\ x % d \in 0..(d - 1)
         /\ x \div d \in Nat
         /\ x = (d * (x \div d)) + (x % d)
BY SMT

\* Quotient and remainder are unique.
LEMMA DivisionUnique ==
  ASSUME NEW d \in Nat \ {0}, NEW p \in Int, NEW q \in Int,
         NEW r \in 0..(d - 1), NEW s \in 0..(d - 1),
         (d * p) + r = (d * q) + s
  PROVE  p = q /\ r = s
<1>1. s - r = d * (p - q)
  OBVIOUS
<1>2. p - q >= 1 => d * (p - q) >= d
  OBVIOUS
<1>3. p - q <= -1 => d * (p - q) <= -d
  OBVIOUS
<1>4. p - q = 0
  BY <1>1, <1>2, <1>3
<1> QED
  BY <1>1, <1>4

\* Two numbers less than d apart have different remainders.
LEMMA RemaindersDiffer ==
  ASSUME NEW d \in Nat \ {0}, NEW x \in Nat, NEW y \in Nat,
         x < y, y - x < d
  PROVE  x % d # y % d
<1> SUFFICES ASSUME x % d = y % d PROVE FALSE
  OBVIOUS
<1> DEFINE p == x \div d
           q == y \div d
<1>1. x = (d * p) + (x % d) /\ p \in Nat /\ x % d \in 0..(d - 1)
  BY Division, Zenon
<1>2. y = (d * q) + (y % d) /\ q \in Nat
  BY Division, Zenon
<1> HIDE DEF p, q
<1>3. y - x = d * (q - p)
  BY <1>1, <1>2
<1>4. q - p >= 1 => d * (q - p) >= d
  BY <1>1, <1>2
<1>5. q - p <= 0 => d * (q - p) <= 0
  BY <1>1, <1>2
<1> QED
  BY <1>1, <1>2, <1>3, <1>4, <1>5

\* Counting up, the remainder goes up by one or back to zero.
LEMMA NextRemainder ==
  ASSUME NEW d \in Nat \ {0}, NEW x \in Nat
  PROVE  (x + 1) % d = IF x % d = d - 1 THEN 0 ELSE (x % d) + 1
<1>1. PICK y \in Nat : y = x + 1
  OBVIOUS
<1> DEFINE p == x \div d
           r == x % d
           q == y \div d
           s == y % d
<1>2. x = (d * p) + r /\ p \in Nat /\ r \in 0..(d - 1)
  BY Division, Zenon
<1>3. y = (d * q) + s /\ q \in Nat /\ s \in 0..(d - 1)
  BY Division, Zenon
<1> HIDE DEF p, q, r, s
<1>4. CASE r = d - 1
  <2>1. (d * (p + 1)) + 0 = (d * q) + s
    BY <1>1, <1>2, <1>3, <1>4
  <2>2. s = 0
    BY <2>1, <1>2, <1>3, DivisionUnique
  <2> QED
    BY <2>2, <1>1, <1>4 DEF r, s
<1>5. CASE r # d - 1
  <2>1. (d * p) + (r + 1) = (d * q) + s
    BY <1>1, <1>2, <1>3, <1>5
  <2>2. r + 1 \in 0..(d - 1)
    BY <1>2, <1>5
  <2>3. s = r + 1
    BY <2>1, <2>2, <1>2, <1>3, DivisionUnique
  <2> QED
    BY <2>3, <1>1, <1>5 DEF r, s
<1> QED
  BY <1>4, <1>5

\* A number below the divisor is its own remainder.
LEMMA SmallRemainder ==
  ASSUME NEW d \in Nat \ {0}, NEW x \in 0..(d - 1)
  PROVE  x % d = x
BY SMT

\* A remainder can be taken before adding.
LEMMA RemainderAdd ==
  ASSUME NEW d \in Nat \ {0}, NEW x \in Nat, NEW n \in Nat
  PROVE  ((x % d) + n) % d = (x + n) % d
<1> DEFINE r == x % d
           p == x \div d
<1>1. x = (d * p) + r /\ p \in Nat /\ r \in 0..(d - 1)
  BY Division, Zenon
<1>2. PICK y \in Nat : y = r + n
  BY <1>1
<1>3. PICK z \in Nat : z = x + n
  OBVIOUS
<1> DEFINE q == y \div d
           s == y % d
           u == z \div d
           t == z % d
<1>4. y = (d * q) + s /\ q \in Nat /\ s \in 0..(d - 1)
  BY Division, Zenon
<1>5. z = (d * u) + t /\ u \in Nat /\ t \in 0..(d - 1)
  BY Division, Zenon
<1> HIDE DEF p, q, r, s, t, u
<1>6. d * (p + q) = (d * p) + (d * q)
  BY <1>1, <1>4
<1>7. (d * (p + q)) + s = (d * u) + t
  BY <1>1, <1>2, <1>3, <1>4, <1>5, <1>6
<1>8. s = t
  BY <1>1, <1>4, <1>5, <1>7, DivisionUnique
<1> QED
  BY <1>2, <1>3, <1>8 DEF r, s, t

-----------------------------------------------------------------------------
(***************************************************************************)
(* What the closed form BlockNum is: the iteration of next_block, with no   *)
(* number repeated within a period.                                         *)
(***************************************************************************)

\* A period has at least two numbers.
LEMMA PeriodType == Period \in Nat \ {0, 1}
BY BlockNumberAssumption DEF Period

\* The numbers next_block produces are 16-bit numbers, 0 before the first
\* block and 1 for it.
LEMMA BlockNumType ==
  /\ BlockNum(0) = 0
  /\ BlockNum(1) = 1
  /\ \A i \in Nat : BlockNum(i) \in 0..(BlockMod - 1)
<1>1. BlockNum(0) = 0
  BY DEF BlockNum
<1>2. BlockNum(1) = 1
  <2>1. (1 - Rollover) \in 0..(Period - 1)
    BY PeriodType, BlockNumberAssumption
  <2>2. (1 - Rollover) % Period = 1 - Rollover
    BY <2>1, PeriodType, SmallRemainder
  <2> QED
    BY <2>2, BlockNumberAssumption DEF BlockNum
<1>3. ASSUME NEW i \in Nat PROVE BlockNum(i) \in 0..(BlockMod - 1)
  <2>1. CASE i = 0
    BY <2>1, <1>1, BlockNumberAssumption
  <2>2. CASE i # 0
    <3>1. PICK x \in Nat : x = i - Rollover
      BY <2>2, BlockNumberAssumption
    <3>2. x % Period \in 0..(Period - 1)
      BY PeriodType, Division
    <3> QED
      BY <2>2, <3>1, <3>2, BlockNumberAssumption DEF BlockNum, Period
  <2> QED
    BY <2>1, <2>2
<1> QED
  BY <1>1, <1>2, <1>3

\* next_block: the number of block i + 1 follows the number of block i, over
\* the wrap of the 16-bit counter too.
THEOREM NextBlockNum ==
  ASSUME NEW i \in Nat
  PROVE  NextBlock(BlockNum(i)) = BlockNum(i + 1)
<1>1. CASE i = 0
  <2>1. 1 % BlockMod = 1
    BY BlockNumberAssumption, SmallRemainder
  <2> QED
    BY <1>1, <2>1, BlockNumType DEF NextBlock
<1>2. CASE i # 0
  <2>1. PICK x \in Nat : x = i - Rollover
    BY <1>2, BlockNumberAssumption
  <2> DEFINE r == x % Period
  <2>2. r \in 0..(Period - 1)
    BY PeriodType, Division
  <2>3. (x + 1) % Period = IF r = Period - 1 THEN 0 ELSE r + 1
    BY PeriodType, NextRemainder, Zenon
  <2>4. BlockNum(i) = Rollover + r
    BY <1>2, <2>1 DEF BlockNum
  <2>5. BlockNum(i + 1) = Rollover + ((x + 1) % Period)
    <3>1. (i + 1) - Rollover = x + 1 /\ i + 1 # 0
      BY <2>1, BlockNumberAssumption
    <3> QED
      BY <3>1 DEF BlockNum
  <2> HIDE DEF r
  <2>6. CASE r = Period - 1
    <3>1. (BlockNum(i) + 1) = BlockMod
      BY <2>4, <2>6, BlockNumberAssumption DEF Period
    <3>2. BlockMod % BlockMod = 0
      BY BlockNumberAssumption, SMT
    <3> QED
      BY <2>3, <2>5, <2>6, <3>1, <3>2, BlockNumberAssumption DEF NextBlock
  <2>7. CASE r # Period - 1
    <3>1. BlockNum(i) + 1 \in 1..(BlockMod - 1)
      BY <2>2, <2>4, <2>7, BlockNumberAssumption DEF Period
    <3>2. (BlockNum(i) + 1) % BlockMod = BlockNum(i) + 1
      BY <3>1, BlockNumberAssumption, SmallRemainder
    <3> QED
      BY <2>2, <2>3, <2>4, <2>5, <2>7, <3>1, <3>2, BlockNumberAssumption
         DEF NextBlock
  <2> QED
    BY <2>6, <2>7
<1> QED
  BY <1>1, <1>2

\* Two blocks less than a period apart have different numbers.
THEOREM BlockNumInjective ==
  ASSUME NEW i \in Nat, NEW j \in Nat,
         BlockNum(i) = BlockNum(j), i - j < Period, j - i < Period
  PROVE  i = j
<1>1. ASSUME NEW a \in Nat, NEW b \in Nat, a < b, b - a < Period
      PROVE  BlockNum(a) # BlockNum(b)
  <2>1. PICK y \in Nat : y = b - Rollover
    BY <1>1, BlockNumberAssumption
  <2>2. BlockNum(b) = Rollover + (y % Period)
    BY <1>1, <2>1 DEF BlockNum
  <2>3. y % Period \in 0..(Period - 1)
    BY PeriodType, Division
  <2>4. CASE a = 0 /\ Rollover = 1
    BY <2>2, <2>3, <2>4, PeriodType, BlockNumType
  <2>5. CASE a # 0 \/ Rollover = 0
    <3>1. PICK x \in Nat : x = a - Rollover
      BY <2>5, BlockNumberAssumption
    <3>2. x % Period \in 0..(Period - 1)
      BY PeriodType, Division
    <3>3. BlockNum(a) = Rollover + (x % Period)
      <4>1. CASE a # 0
        BY <4>1, <3>1 DEF BlockNum
      <4>2. CASE a = 0 /\ Rollover = 0
        <5>1. 0 % Period = 0
          BY PeriodType, SmallRemainder
        <5> QED
          BY <4>2, <5>1, <3>1, BlockNumType
      <4> QED
        BY <4>1, <4>2, <2>5
    <3>4. x % Period # y % Period
      <4>1. x < y /\ y - x < Period
        BY <1>1, <2>1, <3>1, PeriodType, BlockNumberAssumption
      <4> QED
        BY <4>1, PeriodType, RemaindersDiffer, Zenon
    <3> QED
      BY <2>2, <2>3, <3>2, <3>3, <3>4, PeriodType, BlockNumberAssumption
  <2> QED
    BY <2>4, <2>5, BlockNumberAssumption
<1>2. i < j \/ j < i \/ i = j
  OBVIOUS
<1> QED
  BY <1>1, <1>2

-----------------------------------------------------------------------------

\* A packet that outlives its window by StaleWindows windows must not meet the
\* block number it carries again.
ASSUME FreshnessAssumption == StaleBlocks + WindowSize < Period

-----------------------------------------------------------------------------
(***************************************************************************)
(* The inductive invariant                                                  *)
(***************************************************************************)

\* The end of the window that follows b released blocks.
WindowEnd(b) == IF NBlocks - b < WindowSize THEN NBlocks ELSE b + WindowSize

\* What the sender's position says of its window.
SenderInv ==
  /\ spc # "done" => base < NBlocks /\ sstatus = "none"
  /\ spc \in {"send", "wait"} =>
       /\ base + packet_count = WindowEnd(base)
       /\ resend_start < packet_count
  /\ sbytes = BytesIn(base)
  /\ sstatus = "OK" => base = NBlocks /\ finished

\* The receiver's numbers are those of the blocks it has.
ReceiverInv ==
  /\ DeliveredInOrder
  /\ packets_in_window < WindowSize /\ packets_in_window <= Len(file)
  /\ Len(file) = NBlocks => packets_in_window = 0
  /\ block = BlockNum(Len(file) + 1)
  /\ last_received = BlockNum(Len(file))
  /\ last_acked = BlockNum(AckedIdx)
  /\ rbytes = BytesIn(Len(file)) /\ rbytes <= max_bytes
  /\ rpc \in {"open", "start"} => Len(file) = 0
  /\ rpc \in {"open", "start", "wait"} =>
       Len(file) < NBlocks /\ drained = AckedIdx /\ ~finished
         /\ rstatus = "none"
  /\ reply_pending => Len(file) = 0
  /\ rpc = "dally" => rstatus = "OK"
  /\ finished => Len(file) = NBlocks /\ drained = NBlocks
  /\ rstatus = "OK" => finished

\* The two sides are at most a window apart, and agree where it ends.
WindowInv ==
  /\ base <= drained /\ drained <= Len(file)
  /\ base <= AckedIdx /\ Len(file) <= WindowEnd(base)
  /\ AckedIdx = base \/ AckedIdx = WindowEnd(base)

\* Every packet in flight carries the number of its block, is not too old,
\* and an ACK that ends the window or the file tells the truth.
DataInv ==
  \A m \in toReceiver : m.op = "DATA" =>
    /\ m.num = BlockNum(m.idx)
    /\ m.idx \in 1..WindowEnd(base) /\ m.idx > Horizon(base)

AckInv ==
  \A m \in toSender : m.op = "ACK" =>
    /\ m.num = BlockNum(m.idx)
    /\ m.idx \in 0..Len(file) /\ m.idx >= Horizon(base)
    /\ m.idx = WindowEnd(base) => drained >= m.idx
    /\ m.idx = NBlocks => finished

IInv ==
  /\ TypeOK /\ SenderInv /\ ReceiverInv /\ WindowInv /\ DataInv /\ AckInv

-----------------------------------------------------------------------------
(***************************************************************************)
(* Facts about the constants and the block numbers in flight                *)
(***************************************************************************)

\* The age of a packet and the period of next_block are numbers.
LEMMA StaleBlocksType == StaleBlocks \in Nat /\ Period \in Nat
BY XferAssumption, PeriodType DEF StaleBlocks

\* The bytes of one more block.
LEMMA BytesInNext ==
  ASSUME NEW n \in Nat, n < NBlocks
  PROVE  /\ BytesIn(n) \in Nat
         /\ BytesIn(n + 1) = BytesIn(n) + Size(n + 1)
         /\ Size(n + 1) \in Nat
BY XferAssumption DEF BytesIn, Size

\* The size of a part of the file is a number.
LEMMA BytesInType ==
  ASSUME NEW n \in 0..NBlocks
  PROVE  BytesIn(n) \in Nat
BY XferAssumption DEF BytesIn

\* The packet the receiver takes for the block it waits for is that block,
\* and the window it belongs to has not been acknowledged.
LEMMA ExpectedIsNext ==
  ASSUME IInv, NEW m \in toReceiver, Expected(m)
  PROVE  /\ m \in Packets /\ m.num = BlockNum(m.idx)
         /\ m.idx = Len(file) + 1
         /\ m.idx <= NBlocks /\ m.idx <= WindowEnd(base)
         /\ AckedIdx = base
         /\ rpc \in {"open", "wait"}
         /\ drained = base /\ ~finished
<1>1. m \in Packets /\ m.op = "DATA" /\ rpc \in {"open", "wait"}
  BY DEF IInv, TypeOK, Expected
<1>2. /\ m.num = BlockNum(m.idx) /\ m.idx \in Nat
      /\ m.idx <= WindowEnd(base) /\ m.idx > Horizon(base) /\ m.idx >= 1
  BY <1>1, XferAssumption DEF IInv, DataInv, WindowEnd, TypeOK, Packets
<1>3. Len(file) \in Nat /\ base \in Nat /\ packets_in_window \in Nat
  BY DEF IInv, TypeOK
<1>4. m.num = BlockNum(Len(file) + 1)
  BY <1>1, <1>3, BlockNumType DEF IInv, ReceiverInv, Expected
<1>5. m.idx - (Len(file) + 1) < Period /\ (Len(file) + 1) - m.idx < Period
  BY <1>2, <1>3, StaleBlocksType, FreshnessAssumption, XferAssumption
     DEF IInv, WindowInv, WindowEnd, Horizon, AckedIdx
<1>6. m.idx = Len(file) + 1
  <2>1. Len(file) + 1 \in Nat
    BY <1>3
  <2> QED
    BY <1>2, <1>4, <1>5, <2>1, BlockNumInjective, Zenon
<1>7. WindowEnd(base) <= NBlocks
  BY <1>3, XferAssumption DEF WindowEnd
<1>8. AckedIdx = base
  BY <1>2, <1>3, <1>6 DEF IInv, WindowInv, AckedIdx
<1> QED
  BY <1>1, <1>2, <1>3, <1>6, <1>7, <1>8, XferAssumption DEF IInv, ReceiverInv

\* The ACK the sender takes for the end of its window is that of its end.
LEMMA ExpectedAckIsEnd ==
  ASSUME IInv, NEW m \in toSender, spc = "wait",
         m.op = "ACK", m.num = ExpectedAck
  PROVE  /\ m.idx = WindowEnd(base) /\ Len(file) = m.idx
         /\ drained = m.idx
         /\ m.idx = NBlocks => finished
<1>1. m \in Packets /\ Len(file) \in Nat /\ base \in Nat /\ drained \in Nat
  BY DEF IInv, TypeOK
<1>2. /\ m.num = BlockNum(m.idx) /\ m.idx \in Nat
      /\ m.idx <= Len(file) /\ m.idx >= Horizon(base)
      /\ m.idx = WindowEnd(base) => drained >= m.idx
      /\ m.idx = NBlocks => finished
  BY <1>1 DEF IInv, AckInv, Packets
<1>3. m.num = BlockNum(WindowEnd(base)) /\ WindowEnd(base) \in Nat
  BY <1>1, XferAssumption DEF IInv, SenderInv, ExpectedAck, WindowEnd
<1>4. m.idx - WindowEnd(base) < Period /\ WindowEnd(base) - m.idx < Period
  BY <1>1, <1>2, StaleBlocksType, FreshnessAssumption, XferAssumption
     DEF IInv, WindowInv, WindowEnd, Horizon
<1>5. m.idx = WindowEnd(base)
  BY <1>2, <1>3, <1>4, BlockNumInjective, Zenon
<1> QED
  BY <1>1, <1>2, <1>3, <1>5 DEF IInv, WindowInv

-----------------------------------------------------------------------------
(***************************************************************************)
(* Steps of the sender                                                      *)
(***************************************************************************)

\* Receiving a packet, or one of its copies, adds nothing to the network.
LEMMA TakeShrinks ==
  ASSUME NEW net, NEW m, NEW rest, dups \in 0..MaxDups, Take(net, m, rest)
  PROVE  rest \subseteq net /\ dups' \in 0..MaxDups
BY XferAssumption DEF Take

\* The window a sender sends consists of blocks of the file.
LEMMA DataInWindow ==
  ASSUME IInv, spc = "send", NEW n \in 1..packet_count
  PROVE  /\ Data(base + n) \in Packets
         /\ Data(base + n).num = BlockNum(base + n)
         /\ Data(base + n).idx = base + n
         /\ base + n \in 1..WindowEnd(base) /\ base + n > Horizon(base)
<1>1. base \in Nat /\ packet_count \in Nat /\ base + n \in Nat
  BY DEF IInv, TypeOK
<1>2. base + packet_count = WindowEnd(base)
  BY DEF IInv, SenderInv
<1>3. BlockNum(base + n) \in 0..(BlockMod - 1)
  BY <1>1, BlockNumType
<1> QED
  BY <1>1, <1>2, <1>3, StaleBlocksType DEF Data, Packets, Horizon

\* A step of the sender that releases nothing.
LEMMA SenderKeepsBase ==
  ASSUME IInv, UNCHANGED <<base, sbytes, recvVars>>,
         toSender' \subseteq toSender, dups' \in 0..MaxDups,
         \A m \in toReceiver' :
           \/ m \in toReceiver
           \/ m = Error
           \/ spc = "send" /\ \E n \in 1..packet_count : m = Data(base + n),
         /\ spc' \in {"open", "read", "send", "wait", "done"}
         /\ packet_count' \in 0..WindowSize /\ resend_start' \in 0..WindowSize
         /\ stimeout' \in Nat /\ sstatus' \in Statuses,
         spc' # "done" => base < NBlocks /\ sstatus' = "none",
         spc' \in {"send", "wait"} =>
           /\ base + packet_count' = WindowEnd(base)
           /\ resend_start' < packet_count',
         sstatus' # "OK"
  PROVE  IInv'
<1>1. Error \in Packets /\ Error.op # "DATA"
  BY BlockNumberAssumption DEF Error, Packets
<1>2. /\ toReceiver' \subseteq Packets
      /\ \A m \in toReceiver' : m.op = "DATA" =>
           /\ m.num = BlockNum(m.idx)
           /\ m.idx \in 1..WindowEnd(base) /\ m.idx > Horizon(base)
  <2> SUFFICES ASSUME NEW m \in toReceiver'
               PROVE  /\ m \in Packets
                      /\ m.op = "DATA" =>
                           /\ m.num = BlockNum(m.idx)
                           /\ m.idx \in 1..WindowEnd(base)
                           /\ m.idx > Horizon(base)
    OBVIOUS
  <2>1. CASE m \in toReceiver
    BY <2>1 DEF IInv, TypeOK, DataInv
  <2>2. CASE m = Error
    BY <2>2, <1>1
  <2>3. CASE spc = "send" /\ \E n \in 1..packet_count : m = Data(base + n)
    BY <2>3, DataInWindow
  <2> QED
    BY <2>1, <2>2, <2>3
<1>3. TypeOK'
  BY <1>2 DEF IInv, TypeOK, recvVars, setup, storeVars, Packets
<1>4. SenderInv'
  BY DEF IInv, SenderInv, recvVars, setup, storeVars, WindowEnd, BytesIn
<1>5. ReceiverInv'
  BY DEF IInv, ReceiverInv, DeliveredInOrder, AckedIdx, recvVars, setup, storeVars
<1>6. WindowInv'
  BY DEF IInv, WindowInv, AckedIdx, WindowEnd, recvVars, setup, storeVars
<1>7. DataInv'
  BY <1>2 DEF DataInv, WindowEnd, Horizon
<1>8. AckInv'
  BY DEF IInv, AckInv, WindowEnd, Horizon, recvVars, setup, storeVars
<1> QED
  BY <1>3, <1>4, <1>5, <1>6, <1>7, <1>8 DEF IInv

\* A sender that ends with an error leaves the invariant intact.
LEMMA SFinishInv ==
  ASSUME IInv, NEW status \in Statuses \ {"OK"}, SFinish(status),
         toSender' \subseteq toSender, dups' \in 0..MaxDups
  PROVE  IInv'
<1>1. \A m \in toReceiver' : m \in toReceiver \/ m = Error
  BY DEF SFinish
<1> QED
  BY <1>1, SenderKeepsBase, SMTT(20) DEF SFinish, IInv, TypeOK

\* So do the steps of tftp_xfer_send that release no block.
LEMMA SenderQuietInv ==
  ASSUME IInv,
         \/ SOpenTimeout \/ SLocal \/ STimeout \/ SRecvFails
         \/ \E m \in toSender : \/ SOpen(m) \/ SAckPrefix(m) \/ SAckStale(m)
                                \/ SOackAgain(m) \/ SPeerError(m)
  PROVE  IInv'
<1> USE DEF Statuses
<1>0. /\ dups \in 0..MaxDups /\ stimeout \in Nat /\ base \in Nat
      /\ packet_count \in 0..WindowSize /\ resend_start \in 0..WindowSize
      /\ sstatus \in Statuses
      /\ \A m \in toReceiver' : m \in toReceiver => m \in Packets
  BY DEF IInv, TypeOK
<1>1. CASE SOpenTimeout
  <2>1. CASE \E status \in {"TIMEOUT", "SEND_ERROR"} : SFinish(status)
    BY <1>0, <1>1, <2>1, SFinishInv DEF SOpenTimeout
  <2>2. CASE stimeout' = 2 * stimeout /\ UNCHANGED toReceiver
             /\ UNCHANGED <<spc, base, packet_count, resend_start, sbytes,
                            sstatus, recvVars>>
    BY <1>0, <1>1, <2>2, SenderKeepsBase
       DEF SOpenTimeout, IInv, SenderInv
  <2> QED
    BY <1>1, <2>1, <2>2 DEF SOpenTimeout
<1>2. CASE SReadWindow
  <2>1. /\ packet_count' \in 1..WindowSize
        /\ base + packet_count' = WindowEnd(base)
        /\ base < NBlocks /\ sstatus = "none"
    BY <1>0, <1>2, XferAssumption
       DEF SReadWindow, WindowEnd, IInv, SenderInv, TypeOK
  <2> QED
    BY <1>0, <1>2, <2>1, XferAssumption, SenderKeepsBase DEF SReadWindow, netVars
<1>3. CASE SReadFails
  BY <1>0, <1>3, SFinishInv DEF SReadFails
<1>4. CASE SSendWindow
  <2>1. \A m \in toReceiver' :
          \/ m \in toReceiver
          \/ \E n \in 1..packet_count : m = Data(base + n)
    BY <1>0, <1>4 DEF SSendWindow, Suffix
  <2> QED
    BY <1>0, <1>4, <2>1, SenderKeepsBase DEF SSendWindow, IInv, SenderInv
<1>5. CASE SSendFails
  <2>1. \A m \in toReceiver' :
          \/ m \in toReceiver
          \/ \E n \in 1..packet_count : m = Data(base + n)
    BY <1>0, <1>5 DEF SSendFails, Suffix
  <2> QED
    BY <1>0, <1>5, <2>1, SenderKeepsBase DEF SSendFails
<1>6. CASE STimeout
  <2>1. CASE SFinish("TIMEOUT")
    BY <1>0, <1>6, <2>1, SFinishInv DEF STimeout
  <2>2. CASE /\ stimeout' = 2 * stimeout /\ resend_start' = 0
             /\ spc' = "send" /\ UNCHANGED toReceiver
             /\ UNCHANGED <<base, packet_count, sbytes, sstatus, recvVars>>
    <3>1. /\ base + packet_count = WindowEnd(base) /\ base < NBlocks
          /\ resend_start < packet_count /\ sstatus = "none"
      BY <1>6 DEF STimeout, IInv, SenderInv
    <3> QED
      BY <1>0, <1>6, <2>2, <3>1, XferAssumption, SenderKeepsBase DEF STimeout
  <2> QED
    BY <1>6, <2>1, <2>2 DEF STimeout
<1>7. CASE SRecvFails
  BY <1>0, <1>7, SFinishInv DEF SRecvFails
<1>8. ASSUME NEW m \in toSender, SOpen(m) PROVE IInv'
  <2>1. toSender' \subseteq toSender /\ dups' \in 0..MaxDups
    BY <1>0, <1>8, TakeShrinks DEF SOpen
  <2> QED
    BY <1>0, <1>8, <2>1, SenderKeepsBase DEF SOpen, IInv, SenderInv
<1>9. ASSUME NEW m \in toSender, SAckPrefix(m) PROVE IInv'
  <2>1. toSender' \subseteq toSender /\ dups' \in 0..MaxDups
    BY <1>0, <1>9, TakeShrinks DEF SAckPrefix
  <2>2. resend_start' \in 0..WindowSize /\ resend_start' < packet_count
    BY <1>0, <1>9, XferAssumption DEF SAckPrefix, IInv, SenderInv
  <2>3. base + packet_count = WindowEnd(base) /\ base < NBlocks
        /\ sstatus = "none"
    BY <1>9 DEF SAckPrefix, IInv, SenderInv
  <2> QED
    BY <1>0, <1>9, <2>1, <2>2, <2>3, SenderKeepsBase DEF SAckPrefix
<1>10. ASSUME NEW m \in toSender, SAckStale(m) PROVE IInv'
  <2>1. toSender' \subseteq toSender /\ dups' \in 0..MaxDups
    BY <1>0, <1>10, TakeShrinks DEF SAckStale
  <2> QED
    BY <1>0, <1>10, <2>1, SenderKeepsBase
       DEF SAckStale, IInv, SenderInv, sendVars, setup
<1>11. ASSUME NEW m \in toSender, SOackAgain(m) PROVE IInv'
  <2>1. toSender' \subseteq toSender /\ dups' \in 0..MaxDups
    BY <1>0, <1>11, TakeShrinks DEF SOackAgain
  <2>2. resend_start' \in 0..WindowSize /\ resend_start' < packet_count
    BY <1>0, <1>11, XferAssumption DEF SOackAgain, IInv, SenderInv
  <2>3. base + packet_count = WindowEnd(base) /\ base < NBlocks
        /\ sstatus = "none"
    BY <1>11 DEF SOackAgain, IInv, SenderInv
  <2> QED
    BY <1>0, <1>11, <2>1, <2>2, <2>3, SenderKeepsBase DEF SOackAgain
<1>12. ASSUME NEW m \in toSender, SPeerError(m) PROVE IInv'
  BY <1>0, <1>12, TakeShrinks, SFinishInv DEF SPeerError
<1> QED
  BY <1>1, <1>2, <1>3, <1>4, <1>5, <1>6, <1>7, <1>8, <1>9, <1>10, <1>11, <1>12
     DEF SLocal

\* The step that releases a window.
LEMMA SAckWindowInv ==
  ASSUME IInv, NEW m \in toSender, SAckWindow(m)
  PROVE  IInv'
<1>1. /\ base \in Nat /\ base < NBlocks /\ packet_count \in Nat
      /\ Len(file) \in Nat /\ drained \in Nat /\ packets_in_window \in Nat
      /\ dups \in 0..MaxDups
  BY DEF IInv, TypeOK, SenderInv, SAckWindow
<1>2. base' = WindowEnd(base)
  BY DEF IInv, SenderInv, SAckWindow
<1>3. /\ WindowEnd(base) = Len(file) /\ drained = Len(file)
      /\ Len(file) = NBlocks => finished
  BY ExpectedAckIsEnd DEF SAckWindow
<1>4. base' \in 1..NBlocks /\ base' = Len(file) /\ base' <= WindowEnd(base')
  BY <1>1, <1>2, <1>3, XferAssumption DEF WindowEnd
<1>5. AckedIdx = base'
  BY <1>1, <1>3, <1>4, XferAssumption
     DEF IInv, WindowInv, ReceiverInv, AckedIdx, WindowEnd
<1>6. /\ toSender' \subseteq toSender /\ dups' \in 0..MaxDups
      /\ \A a \in toSender' : a.op = "ACK" => a.idx >= Horizon(base')
  <2>1. PICK rest : Take(toSender, m, rest) /\ toSender' = LiveAcks(rest, base')
    BY DEF SAckWindow
  <2> QED
    BY <1>1, <2>1, TakeShrinks DEF LiveAcks
<1>7. /\ toReceiver' \subseteq toReceiver
      /\ \A d \in toReceiver' : d.op = "DATA" => d.idx > Horizon(base')
  BY DEF SAckWindow, LiveData
<1>8. BytesIn(base) \in Nat /\ BytesIn(base') \in Nat
      /\ sbytes' = BytesIn(base')
  <2>1. base \in 0..NBlocks /\ base' \in 0..NBlocks
    BY <1>1, <1>4, XferAssumption
  <2>2. BytesIn(base) \in Nat /\ BytesIn(base') \in Nat
    BY <2>1, BytesInType
  <2> QED
    BY <2>2 DEF IInv, SenderInv, SAckWindow
<1>9. /\ UNCHANGED <<packet_count, resend_start, stimeout, recvVars>>
      /\ \/ spc' = "done" /\ sstatus' = "OK" /\ base' = NBlocks
         \/ spc' = "read" /\ sstatus' = "none" /\ base' # NBlocks
  BY DEF IInv, SenderInv, SAckWindow
<1>10. TypeOK'
  <2>1. /\ base' \in 0..NBlocks /\ sbytes' \in Nat /\ sstatus' \in Statuses
        /\ spc' \in {"open", "read", "send", "wait", "done"}
    BY <1>4, <1>8, <1>9, XferAssumption DEF Statuses
  <2>2. toReceiver' \subseteq Packets /\ toSender' \subseteq Packets
    BY <1>6, <1>7, Zenon DEF IInv, TypeOK
  <2> QED
    BY <1>6, <1>9, <2>1, <2>2, Zenon DEF IInv, TypeOK, recvVars, setup, storeVars
<1>11. SenderInv'
  <2>1. (sbytes = BytesIn(base))'
    BY <1>8 DEF BytesIn
  <2> QED
    BY <1>3, <1>4, <1>9, <2>1, XferAssumption
       DEF SenderInv, recvVars, setup, storeVars
<1>12. ReceiverInv'
  BY DEF IInv, ReceiverInv, DeliveredInOrder, AckedIdx, SAckWindow,
         recvVars, setup, storeVars
<1>13. WindowInv'
  BY <1>1, <1>3, <1>4, <1>5
     DEF WindowInv, AckedIdx, WindowEnd, SAckWindow, recvVars, setup, storeVars
<1>14. DataInv'
  <2> SUFFICES ASSUME NEW d \in toReceiver', d.op = "DATA"
               PROVE  /\ d.num = BlockNum(d.idx)
                      /\ d.idx \in 1..WindowEnd(base')
                      /\ d.idx > Horizon(base')
    BY DEF DataInv, WindowEnd, Horizon
  <2>1. /\ d.num = BlockNum(d.idx) /\ d.idx \in 1..WindowEnd(base)
        /\ d.idx > Horizon(base')
    BY <1>7 DEF IInv, DataInv
  <2>2. WindowEnd(base') \in Nat
    BY <1>4, XferAssumption DEF WindowEnd
  <2> QED
    BY <1>2, <1>4, <2>1, <2>2
<1>15. AckInv'
  <2> SUFFICES ASSUME NEW a \in toSender', a.op = "ACK"
               PROVE  /\ a.num = BlockNum(a.idx)
                      /\ a.idx \in 0..Len(file) /\ a.idx >= Horizon(base')
                      /\ drained >= a.idx
                      /\ a.idx = NBlocks => finished
    BY DEF AckInv, SAckWindow, recvVars, setup, storeVars, Horizon
  <2> QED
    BY <1>1, <1>3, <1>6 DEF IInv, AckInv
<1> QED
  BY <1>10, <1>11, <1>12, <1>13, <1>14, <1>15 DEF IInv

-----------------------------------------------------------------------------
(***************************************************************************)
(* Steps of the receiver                                                    *)
(***************************************************************************)

\* ERROR and OACK are packets that say nothing about blocks.
LEMMA ControlPackets ==
  /\ Error \in Packets /\ Error.op = "ERROR"
  /\ Oack \in Packets /\ Oack.op = "OACK"
BY BlockNumberAssumption DEF Error, Oack, Packets

\* An ACK of position i that tells the truth when the sender has released b
\* blocks and the receiver has n, drained up to d, finished or not.
TrueAck(m, b, n, d, fin) ==
  \E i \in b..n :
    /\ m = Ack(BlockNum(i), i)
    /\ i = WindowEnd(b) => d >= i
    /\ i = NBlocks => fin

\* A true ACK has what AckInv asks of an ACK.
LEMMA TrueAckInv ==
  ASSUME NEW b \in Nat, NEW n \in Nat, NEW d \in Nat, NEW fin,
         NEW m, TrueAck(m, b, n, d, fin)
  PROVE  /\ m \in Packets /\ m.op = "ACK" /\ m.num = BlockNum(m.idx)
         /\ m.idx \in 0..n /\ m.idx >= Horizon(b)
         /\ m.idx = WindowEnd(b) => d >= m.idx
         /\ m.idx = NBlocks => fin
<1>1. PICK i \in b..n : /\ m = Ack(BlockNum(i), i)
                        /\ i = WindowEnd(b) => d >= i
                        /\ i = NBlocks => fin
  BY DEF TrueAck
<1>2. i \in Nat /\ BlockNum(i) \in 0..(BlockMod - 1)
  BY BlockNumType
<1>3. m \in Packets /\ m.op = "ACK" /\ m.num = BlockNum(i) /\ m.idx = i
  BY <1>1, <1>2 DEF Ack, Packets
<1> QED
  BY <1>1, <1>2, <1>3, StaleBlocksType DEF Horizon

\* What the ACKs sent outside the end of a window say.
LEMMA RepliesAreTrue ==
  ASSUME IInv, rpc \in {"start", "wait", "dally"}
  PROVE  /\ TrueAck(Ack(last_acked, AckedIdx), base, Len(file), drained, finished)
         /\ TrueAck(Ack(last_received, Len(file)), base, Len(file), drained,
                    finished)
<1>1. /\ base \in Nat /\ Len(file) \in Nat /\ packets_in_window \in Nat
      /\ drained \in Nat
  BY DEF IInv, TypeOK
<1>2. rpc = "dally" => finished /\ Len(file) = NBlocks /\ drained = NBlocks
                        /\ packets_in_window = 0
  BY DEF IInv, ReceiverInv
<1>3. rpc # "dally" => Len(file) < NBlocks /\ drained = AckedIdx
  BY DEF IInv, ReceiverInv
<1>4. base <= AckedIdx /\ AckedIdx <= Len(file) /\ AckedIdx \in base..Len(file)
      /\ Len(file) \in base..Len(file)
  BY <1>1 DEF IInv, WindowInv, AckedIdx, ReceiverInv
<1>5. Len(file) = WindowEnd(base) => drained >= Len(file)
  <2>1. CASE rpc = "dally"
    BY <1>1, <1>2, <2>1
  <2>2. CASE rpc # "dally"
    BY <1>1, <1>3, <1>4, <2>2, XferAssumption
       DEF IInv, WindowInv, ReceiverInv, AckedIdx, WindowEnd
  <2> QED
    BY <2>1, <2>2
<1>6. AckedIdx = WindowEnd(base) => drained >= AckedIdx
  BY <1>1, <1>2, <1>3, <1>4 DEF AckedIdx
<1>7. (AckedIdx = NBlocks \/ Len(file) = NBlocks) => finished
  BY <1>1, <1>2, <1>3, <1>4, XferAssumption
<1>8. last_acked = BlockNum(AckedIdx) /\ last_received = BlockNum(Len(file))
  BY DEF IInv, ReceiverInv
<1> QED
  BY <1>4, <1>5, <1>6, <1>7, <1>8 DEF TrueAck

\* A step of the receiver that stores nothing.
LEMMA ReceiverKeepsFile ==
  ASSUME IInv,
         UNCHANGED <<sendVars, block, last_received, last_acked,
                     packets_in_window, file, drained, finished, rbytes>>,
         reply_pending' \in BOOLEAN /\ (reply_pending' => reply_pending),
         toReceiver' \subseteq toReceiver, dups' \in 0..MaxDups,
         rtimeout' \in Nat /\ rstatus' \in Statuses,
         \/ rpc' = rpc /\ rstatus' = rstatus
         \/ rpc = "start" /\ rpc' = "wait" /\ rstatus' = rstatus
         \/ rpc' = "done" /\ (rstatus' # "OK" \/ rstatus' = rstatus),
         \A m \in toSender' :
           \/ m \in toSender
           \/ m \in {Error, Oack}
           \/ TrueAck(m, base, Len(file), drained, finished)
  PROVE  IInv'
<1>1. /\ toSender' \subseteq Packets
      /\ \A m \in toSender' : m.op = "ACK" =>
           /\ m.num = BlockNum(m.idx)
           /\ m.idx \in 0..Len(file) /\ m.idx >= Horizon(base)
           /\ m.idx = WindowEnd(base) => drained >= m.idx
           /\ m.idx = NBlocks => finished
  <2> SUFFICES ASSUME NEW m \in toSender'
               PROVE  /\ m \in Packets
                      /\ m.op = "ACK" =>
                           /\ m.num = BlockNum(m.idx)
                           /\ m.idx \in 0..Len(file) /\ m.idx >= Horizon(base)
                           /\ m.idx = WindowEnd(base) => drained >= m.idx
                           /\ m.idx = NBlocks => finished
    OBVIOUS
  <2>1. CASE m \in toSender
    BY <2>1 DEF IInv, TypeOK, AckInv
  <2>2. CASE m \in {Error, Oack}
    BY <2>2, ControlPackets
  <2>3. CASE TrueAck(m, base, Len(file), drained, finished)
    <3>1. base \in Nat /\ Len(file) \in Nat /\ drained \in Nat
      BY DEF IInv, TypeOK
    <3> QED
      BY <2>3, <3>1, TrueAckInv
  <2> QED
    BY <2>1, <2>2, <2>3
<1>2. TypeOK'
  BY <1>1 DEF IInv, TypeOK, sendVars, setup, Packets
<1>3. SenderInv'
  BY DEF IInv, SenderInv, sendVars, setup, WindowEnd, BytesIn
<1>4. ReceiverInv'
  BY DEF IInv, ReceiverInv, DeliveredInOrder, AckedIdx, sendVars, setup
<1>5. WindowInv'
  BY DEF IInv, WindowInv, AckedIdx, WindowEnd, sendVars, setup
<1>6. DataInv'
  BY DEF IInv, DataInv, WindowEnd, Horizon, sendVars, setup
<1>7. AckInv'
  BY <1>1 DEF AckInv, WindowEnd, Horizon, sendVars, setup
<1> QED
  BY <1>2, <1>3, <1>4, <1>5, <1>6, <1>7 DEF IInv

\* What the receiver answers with is its OACK or a true ACK.
LEMMA ReplyIsTrue ==
  ASSUME IInv, rpc \in {"start", "wait"}
  PROVE  \/ Reply = Oack
         \/ TrueAck(Reply, base, Len(file), drained, finished)
BY RepliesAreTrue DEF Reply

\* A receiver that ends with an error leaves the invariant intact.
LEMMA RFinishInv ==
  ASSUME IInv, NEW status \in Statuses \ {"OK"}, RFinish(status),
         UNCHANGED <<block, last_received, last_acked, packets_in_window,
                     file, drained, finished, rbytes>>,
         reply_pending' \in BOOLEAN /\ (reply_pending' => reply_pending),
         toReceiver' \subseteq toReceiver, dups' \in 0..MaxDups
  PROVE  IInv'
<1>1. \A m \in toSender' : m \in toSender \/ m \in {Error, Oack}
  BY DEF RFinish
<1>2. rtimeout' \in Nat
  BY DEF RFinish, IInv, TypeOK
<1> QED
  BY <1>1, <1>2, ReceiverKeepsFile DEF RFinish

\* So do the steps of tftp_xfer_recv that store no block.
LEMMA ReceiverQuietInv ==
  ASSUME IInv,
         \/ RStart \/ RTimeout \/ RRecvFails \/ RDallyEnds
         \/ \E m \in toReceiver :
              \/ ROpenStray(m) \/ RSizeExceeded(m) \/ RPublishFails(m)
              \/ RDataStale(m) \/ RPeerError(m) \/ RDally(m)
  PROVE  IInv'
<1> USE DEF Statuses, storeVars
<1>0. /\ dups \in 0..MaxDups /\ rtimeout \in Nat
      /\ reply_pending \in BOOLEAN /\ rstatus \in Statuses
  BY DEF IInv, TypeOK
<1>1. CASE RStart
  <2>1. CASE \E status \in {"SEND_ERROR", "WRITE_ERROR"} : RFinish(status)
    BY <1>0, <1>1, <2>1, RFinishInv DEF RStart
  <2>2. CASE /\ rpc' = "wait" /\ toSender' = toSender \cup {Reply}
             /\ UNCHANGED <<rtimeout, rstatus, sendVars>>
    <3>1. \A m \in toSender' :
            m \in toSender \/ m \in {Error, Oack}
              \/ TrueAck(m, base, Len(file), drained, finished)
      BY <1>1, <2>2, ReplyIsTrue DEF RStart
    <3> QED
      BY <1>0, <1>1, <2>2, <3>1, ReceiverKeepsFile DEF RStart
  <2> QED
    BY <1>1, <2>1, <2>2 DEF RStart
<1>2. CASE RTimeout
  <2>1. CASE \E status \in {"TIMEOUT", "SEND_ERROR"} : RFinish(status)
    BY <1>0, <1>2, <2>1, RFinishInv DEF RTimeout
  <2>2. CASE /\ rtimeout' = 2 * rtimeout
             /\ toSender' = IF rpc = "open" THEN toSender
                                            ELSE toSender \cup {Reply}
             /\ UNCHANGED <<rpc, rstatus, sendVars>>
    <3>1. \A m \in toSender' :
            m \in toSender \/ m \in {Error, Oack}
              \/ TrueAck(m, base, Len(file), drained, finished)
      BY <1>2, <2>2, ReplyIsTrue DEF RTimeout
    <3> QED
      BY <1>0, <1>2, <2>2, <3>1, ReceiverKeepsFile DEF RTimeout
  <2> QED
    BY <1>2, <2>1, <2>2 DEF RTimeout
<1>3. CASE RRecvFails
  BY <1>0, <1>3, RFinishInv DEF RRecvFails
<1>4. CASE RDallyEnds
  BY <1>0, <1>4, ReceiverKeepsFile DEF RDallyEnds, netVars
<1>5. ASSUME NEW m \in toReceiver, ROpenStray(m) PROVE IInv'
  <2>1. toReceiver' \subseteq toReceiver /\ dups' \in 0..MaxDups
    BY <1>0, <1>5, TakeShrinks DEF ROpenStray
  <2> QED
    BY <1>0, <1>5, <2>1, ReceiverKeepsFile DEF ROpenStray, recvVars, setup
<1>6. ASSUME NEW m \in toReceiver, RSizeExceeded(m) PROVE IInv'
  <2>1. toReceiver' \subseteq toReceiver /\ dups' \in 0..MaxDups
    BY <1>0, <1>6, TakeShrinks DEF RSizeExceeded, Expected
  <2> QED
    BY <1>0, <1>6, <2>1, RFinishInv, Zenon DEF RSizeExceeded
<1>7. ASSUME NEW m \in toReceiver, RPublishFails(m) PROVE IInv'
  <2>1. toReceiver' \subseteq toReceiver /\ dups' \in 0..MaxDups
    BY <1>0, <1>7, TakeShrinks DEF RPublishFails, Expected
  <2> QED
    BY <1>0, <1>7, <2>1, RFinishInv, Zenon DEF RPublishFails
<1>8. ASSUME NEW m \in toReceiver, RDataStale(m) PROVE IInv'
  <2>1. toReceiver' \subseteq toReceiver /\ dups' \in 0..MaxDups
    BY <1>0, <1>8, TakeShrinks DEF RDataStale
  <2>2. \A a \in toSender' :
          a \in toSender \/ TrueAck(a, base, Len(file), drained, finished)
    BY <1>8, RepliesAreTrue DEF RDataStale
  <2> QED
    BY <1>0, <1>8, <2>1, <2>2, ReceiverKeepsFile DEF RDataStale, recvVars, setup
<1>9. ASSUME NEW m \in toReceiver, RPeerError(m) PROVE IInv'
  <2>1. toReceiver' \subseteq toReceiver /\ dups' \in 0..MaxDups
    BY <1>0, <1>9, TakeShrinks DEF RPeerError
  <2> QED
    BY <1>0, <1>9, <2>1, RFinishInv DEF RPeerError
<1>10. ASSUME NEW m \in toReceiver, RDally(m) PROVE IInv'
  <2>1. toReceiver' \subseteq toReceiver /\ dups' \in 0..MaxDups
    BY <1>0, <1>10, TakeShrinks DEF RDally
  <2>2. Len(file) = AckedIdx
    <3>1. rpc = "dally"
      BY <1>10, Zenon DEF RDally
    <3>2. packets_in_window = 0 /\ file \in Seq(Nat)
      BY <3>1 DEF IInv, ReceiverInv, TypeOK
    <3> QED
      BY <3>2 DEF AckedIdx
  <2>3. \A a \in toSender' :
          a \in toSender \/ TrueAck(a, base, Len(file), drained, finished)
    BY <1>10, <2>2, RepliesAreTrue DEF RDally
  <2> QED
    BY <1>0, <1>10, <2>1, <2>3, ReceiverKeepsFile DEF RDally
<1> QED
  BY <1>1, <1>2, <1>3, <1>4, <1>5, <1>6, <1>7, <1>8, <1>9, <1>10

\* What storing a block does to the file and to the numbers.
LEMMA PublishFacts ==
  ASSUME IInv, NEW m \in toReceiver, Expected(m), Fits(m), Publish(m)
  PROVE  /\ m.idx = Len(file) + 1 /\ m.num = BlockNum(Len(file) + 1)
         /\ Len(file') = Len(file) + 1 /\ file' \in Seq(Nat)
         /\ DeliveredInOrder'
         /\ block' = BlockNum(Len(file') + 1)
         /\ last_received' = BlockNum(Len(file'))
         /\ rbytes' \in Nat /\ rbytes' <= max_bytes /\ (rbytes = BytesIn(Len(file)))'
         /\ block' \in 0..(BlockMod - 1) /\ last_received' \in 0..(BlockMod - 1)
         /\ reply_pending' = FALSE
         /\ toReceiver' \subseteq toReceiver /\ dups' \in 0..MaxDups
         /\ Final(m) <=> Len(file') = NBlocks
<1>1. /\ m \in Packets /\ m.num = BlockNum(m.idx)
      /\ m.idx = Len(file) + 1 /\ m.idx <= NBlocks
      /\ rpc \in {"open", "wait"}
  BY ExpectedIsNext
<1>2. /\ Len(file) \in Nat /\ file \in Seq(Nat) /\ m.idx \in Nat
      /\ dups \in 0..MaxDups /\ rbytes \in Nat /\ max_bytes \in Nat
  BY <1>1 DEF IInv, TypeOK
<1>3. file' = Append(file, m.idx) /\ Len(file') = Len(file) + 1
      /\ file' \in Seq(Nat)
  BY <1>2 DEF Publish
<1>4. DeliveredInOrder'
  BY <1>1, <1>2, <1>3, XferAssumption DEF DeliveredInOrder, IInv, ReceiverInv
<1>5. block' = BlockNum(Len(file') + 1)
  <2>1. m.idx + 1 \in Nat
    BY <1>2
  <2> QED
    BY <1>1, <1>2, <1>3, <2>1, NextBlockNum DEF Publish, IInv, ReceiverInv
<1>6. last_received' = BlockNum(Len(file'))
  BY <1>1, <1>3 DEF Publish
<1>7. rbytes' \in Nat /\ rbytes' <= max_bytes /\ rbytes' = BytesIn(Len(file'))
  <2>1. /\ BytesIn(Len(file)) \in Nat /\ Size(Len(file) + 1) \in Nat
        /\ BytesIn(Len(file) + 1) = BytesIn(Len(file)) + Size(Len(file) + 1)
    BY <1>1, <1>2, XferAssumption, BytesInNext
  <2> QED
    BY <1>1, <1>2, <1>3, <2>1, XferAssumption
       DEF Publish, Fits, IInv, ReceiverInv
<1>8. block' \in 0..(BlockMod - 1) /\ last_received' \in 0..(BlockMod - 1)
  <2>1. Len(file') \in Nat /\ Len(file') + 1 \in Nat
    BY <1>2, <1>3
  <2> QED
    BY <1>5, <1>6, <2>1, BlockNumType
<1>9. Final(m) <=> Len(file') = NBlocks
  BY <1>1, <1>3, XferAssumption DEF Final, Size
<1>10. toReceiver' \subseteq toReceiver /\ dups' \in 0..MaxDups
  BY <1>2, TakeShrinks DEF Expected
<1> QED
  BY <1>1, <1>3, <1>4, <1>5, <1>6, <1>7, <1>8, <1>9, <1>10
     DEF Publish, BytesIn

\* A step of the receiver that stores a block: what remains to be shown of it
\* concerns the window, the position and the ACKs.
LEMMA ReceiverStores ==
  ASSUME IInv, NEW m \in toReceiver, Expected(m), Fits(m), Publish(m),
         UNCHANGED sendVars,
         packets_in_window' \in 0..(WindowSize - 1),
         /\ rpc' \in {"wait", "dally", "done"} /\ rtimeout' \in Nat
         /\ rstatus' \in Statuses /\ finished' \in BOOLEAN,
         \/ /\ packets_in_window' = packets_in_window + 1
            /\ ~ClosesWindow(m) /\ UNCHANGED <<last_acked, drained>>
         \/ /\ packets_in_window' = 0 /\ ClosesWindow(m)
            /\ last_acked' = m.num /\ drained' \in {drained, Len(file')},
         rpc' = "wait" =>
           /\ ~Final(m) /\ rstatus' = "none"
           /\ packets_in_window' = 0 => drained' = Len(file'),
         rpc' = "dally" => rstatus' = "OK",
         rstatus' = "OK" => finished',
         finished' => Final(m) /\ drained' = Len(file'),
         \A a \in toSender' :
           \/ a \in toSender
           \/ a = Error
           \/ /\ a = Ack(m.num, Len(file'))
              /\ drained' = Len(file')
              /\ Final(m) => finished'
  PROVE  IInv'
<1>1. /\ m.idx = Len(file) + 1 /\ m.idx <= NBlocks /\ m.idx <= WindowEnd(base)
      /\ AckedIdx = base /\ rpc \in {"open", "wait"}
      /\ drained = base /\ ~finished
  BY ExpectedIsNext
<1>2. /\ m.num = BlockNum(Len(file'))
      /\ Len(file') = Len(file) + 1 /\ file' \in Seq(Nat)
      /\ DeliveredInOrder'
      /\ block' = BlockNum(Len(file') + 1)
      /\ last_received' = BlockNum(Len(file'))
      /\ rbytes' \in Nat /\ rbytes' <= max_bytes /\ (rbytes = BytesIn(Len(file)))'
      /\ block' \in 0..(BlockMod - 1) /\ last_received' \in 0..(BlockMod - 1)
      /\ reply_pending' = FALSE
      /\ toReceiver' \subseteq toReceiver /\ dups' \in 0..MaxDups
      /\ Final(m) <=> Len(file') = NBlocks
  BY PublishFacts, Zenon
<1>3. /\ base \in Nat /\ Len(file) \in Nat /\ packets_in_window \in Nat
      /\ drained \in Nat /\ Len(file') \in Nat
      /\ packets_in_window < WindowSize
  <2>1. /\ base \in Nat /\ packets_in_window \in Nat /\ drained \in Nat /\ file \in Seq(Nat)
        /\ packets_in_window < WindowSize
    <3>1. base \in 0..NBlocks /\ packets_in_window \in 0..WindowSize
      BY Zenon DEF IInv, TypeOK
    <3>2. drained \in Nat /\ file \in Seq(Nat) /\ packets_in_window < WindowSize
      BY Zenon DEF IInv, TypeOK, ReceiverInv
    <3> QED
      BY <3>1, <3>2, XferAssumption
  <2> QED
    BY <1>2, <2>1
<1>4. base' = base /\ max_bytes' = max_bytes /\ UNCHANGED sendVars
  BY DEF sendVars, setup
<1>5. packets_in_window = Len(file) - base
  BY <1>1, <1>3 DEF AckedIdx
<1>len. Len(file') = Len(file) + 1 /\ Len(file') <= NBlocks
        /\ Len(file') <= WindowEnd(base) /\ base <= Len(file)
  BY <1>1, <1>2, <1>3 DEF IInv, WindowInv
<1>6. ClosesWindow(m) => Len(file') = WindowEnd(base)
  <2>1. CASE Final(m)
    <3>1. Len(file') = NBlocks
      BY <1>2, <2>1
    <3> QED
      BY <1>3, <1>len, <3>1, XferAssumption DEF WindowEnd
  <2>2. CASE packets_in_window + 1 = WindowSize
    BY <1>3, <1>5, <1>len, <2>2, XferAssumption DEF WindowEnd
  <2> QED
    BY <2>1, <2>2 DEF ClosesWindow
<1>7. ~Final(m) => Len(file') < NBlocks
  <2>1. ~Final(m) => Len(file') # NBlocks
    BY <1>2, Zenon
  <2> QED
    BY <1>3, <1>len, <2>1, XferAssumption
<1>8. last_acked' = BlockNum(Len(file') - packets_in_window')
      /\ last_acked' \in 0..(BlockMod - 1)
  <2>1. CASE packets_in_window' = 0
    BY <1>2, <1>3, <2>1 DEF ClosesWindow
  <2>2. CASE packets_in_window' # 0
    <3>1. Len(file') - packets_in_window' = AckedIdx
      BY <1>3, <1>len, <2>2 DEF AckedIdx
    <3> QED
      BY <2>2, <3>1 DEF IInv, ReceiverInv, TypeOK
  <2> QED
    BY <2>1, <2>2
<1>9. /\ toSender' \subseteq Packets
      /\ \A a \in toSender' : a.op = "ACK" =>
           /\ a.num = BlockNum(a.idx)
           /\ a.idx \in 0..Len(file') /\ a.idx >= Horizon(base)
           /\ a.idx = WindowEnd(base) => drained' >= a.idx
           /\ a.idx = NBlocks => finished'
  <2> SUFFICES ASSUME NEW a \in toSender'
               PROVE  /\ a \in Packets
                      /\ a.op = "ACK" =>
                           /\ a.num = BlockNum(a.idx)
                           /\ a.idx \in 0..Len(file')
                           /\ a.idx >= Horizon(base)
                           /\ a.idx = WindowEnd(base) => drained' >= a.idx
                           /\ a.idx = NBlocks => finished'
    OBVIOUS
  <2>1. CASE a \in toSender
    <3>1. /\ a \in Packets
          /\ a.op = "ACK" => /\ a.num = BlockNum(a.idx)
                             /\ a.idx \in 0..Len(file) /\ a.idx >= Horizon(base)
      BY <2>1 DEF IInv, TypeOK, AckInv
    <3>2. WindowEnd(base) \in Nat
      BY <1>3, XferAssumption DEF WindowEnd
    <3> QED
      BY <1>3, <1>len, <3>1, <3>2, XferAssumption
  <2>2. CASE a = Error
    BY <2>2, ControlPackets
  <2>3. CASE /\ a = Ack(m.num, Len(file')) /\ drained' = Len(file')
             /\ Final(m) => finished'
    <3>1. Len(file') \in base..Len(file')
      BY <1>3, <1>len
    <3>2. a = Ack(BlockNum(Len(file')), Len(file'))
      BY <1>2, <2>3, Zenon
    <3>3. Len(file') = NBlocks => finished'
      BY <1>2, <2>3
    <3>4. TrueAck(a, base, Len(file'), drained', finished')
      BY <2>3, <1>3, <3>1, <3>2, <3>3 DEF TrueAck
    <3>5. drained' \in Nat
      BY <1>3, <2>3
    <3> QED
      <4>1. base \in Nat /\ Len(file') \in Nat
        BY <1>3, Zenon
      <4> QED
        BY <3>4, <3>5, <4>1, TrueAckInv
  <2> QED
    BY <2>1, <2>2, <2>3
<1>10. TypeOK'
  <2>1. /\ drained' \in Nat /\ packets_in_window' \in 0..WindowSize
    BY <1>3, XferAssumption
  <2>2. toReceiver' \subseteq Packets
    BY <1>2 DEF IInv, TypeOK
  <2> QED
    BY <1>2, <1>4, <1>8, <1>9, <2>1, <2>2, Zenon DEF IInv, TypeOK, sendVars, setup, Packets
<1>11. SenderInv'
  BY <1>1, <1>4 DEF IInv, SenderInv, sendVars, setup, WindowEnd, BytesIn
<1>12. ReceiverInv'
  <2>1. packets_in_window' < WindowSize /\ packets_in_window' <= Len(file')
    BY <1>3, <1>5, <1>len, XferAssumption
  <2>2. Len(file') = NBlocks => packets_in_window' = 0
    BY <1>2, Zenon DEF ClosesWindow
  <2>3. rpc' = "wait" => /\ Len(file') < NBlocks
                         /\ drained' = Len(file') - packets_in_window'
                         /\ ~finished'
    <3> SUFFICES ASSUME rpc' = "wait"
                 PROVE  /\ Len(file') < NBlocks /\ ~finished'
                        /\ drained' = Len(file') - packets_in_window'
      OBVIOUS
    <3>1. ~Final(m) /\ ~finished'
      OBVIOUS
    <3>2. Len(file') < NBlocks
      BY <1>7, <3>1, Zenon
    <3>3. drained' = Len(file') - packets_in_window'
      BY <1>1, <1>3, <1>5, <1>len, XferAssumption
    <3> QED
      BY <3>1, <3>2, <3>3
  <2>4. finished' => Len(file') = NBlocks /\ drained' = NBlocks
    BY <1>2
  <2> QED
    BY <1>2, <1>4, <1>8, <2>1, <2>2, <2>3, <2>4 DEF ReceiverInv, AckedIdx
<1>13. WindowInv'
  <2>1. base <= drained' /\ drained' <= Len(file')
    BY <1>1, <1>3, <1>len
  <2>2. LET acked == Len(file') - packets_in_window'
        IN  /\ base <= acked
            /\ acked = base \/ acked = WindowEnd(base)
    BY <1>3, <1>5, <1>6, <1>len, XferAssumption
  <2> QED
    BY <1>4, <1>len, <2>1, <2>2 DEF WindowInv, AckedIdx, WindowEnd
<1>14. DataInv'
  BY <1>2, <1>4, Zenon DEF IInv, DataInv, WindowEnd, Horizon
<1>15. AckInv'
  BY <1>4, <1>9 DEF AckInv, WindowEnd, Horizon
<1> QED
  BY <1>10, <1>11, <1>12, <1>13, <1>14, <1>15 DEF IInv

\* And those that store one, whether or not they close the window.
LEMMA ReceiverStoresInv ==
  ASSUME IInv, NEW m \in toReceiver,
         RStore(m) \/ RAckWindow(m) \/ RWindowFails(m)
  PROVE  IInv'
<1> USE DEF Statuses
<1>0. /\ rtimeout \in Nat /\ rstatus \in Statuses /\ finished \in BOOLEAN
      /\ packets_in_window \in Nat /\ packets_in_window < WindowSize
      /\ rpc \in {"open", "wait"} => rstatus = "none" /\ ~finished
  BY SMTT(20) DEF IInv, TypeOK, ReceiverInv
<1>1. /\ Expected(m) /\ Fits(m) /\ Publish(m)
      /\ rpc \in {"open", "wait"}
  BY ExpectedIsNext DEF RStore, RAckWindow, RWindowFails
<1>2. CASE RStore(m)
  <2>1. /\ ~Final(m) /\ ~ClosesWindow(m)
        /\ packets_in_window' \in 0..(WindowSize - 1)
    BY <1>0, <1>2, XferAssumption DEF RStore, ClosesWindow
  <2>2. /\ UNCHANGED sendVars /\ rtimeout' \in Nat
        /\ rpc' \in {"wait", "done"} /\ rstatus' \in {"none", "WRITE_ERROR"}
        /\ rpc' = "wait" => rstatus' = "none"
        /\ \A a \in toSender' : a \in toSender \/ a = Error
    BY <1>0, <1>1, <1>2 DEF RStore, RFinish
  <2>3. packets_in_window' # 0
    BY <1>0, <1>2 DEF RStore
  <2> QED
    BY <1>0, <1>1, <1>2, <2>1, <2>2, <2>3, ReceiverStores DEF RStore
<1>3. CASE RAckWindow(m)
  <2>1. /\ 0 \in 0..(WindowSize - 1) /\ Final(m) \in BOOLEAN
    BY XferAssumption DEF Final
  <2>2. /\ UNCHANGED sendVars /\ rtimeout' \in Nat
        /\ rpc' \in {"wait", "dally", "done"} /\ rstatus' \in Statuses
        /\ rpc' = "wait" => ~Final(m) /\ rstatus' = "none"
        /\ rpc' = "dally" => rstatus' = "OK"
        /\ rstatus' = "OK" => Final(m)
        /\ \A a \in toSender' : a \in toSender \/ a = Ack(m.num, Len(file'))
    <3>1. CASE RFinish("SEND_ERROR")
      BY <1>0, <1>1, <3>1 DEF RFinish
    <3>2. CASE /\ toSender' = toSender \cup {Ack(m.num, Len(file'))}
               /\ rpc' = IF ~Final(m) THEN "wait" ELSE IF dally THEN "dally" ELSE "done"
               /\ rstatus' = IF Final(m) THEN "OK" ELSE rstatus
               /\ rtimeout' = IF Final(m) THEN rtimeout ELSE 1
               /\ UNCHANGED sendVars
      BY <1>0, <1>1, <3>2
    <3> QED
      BY <1>3, <3>1, <3>2, Zenon DEF RAckWindow
  <2> QED
    BY <1>0, <1>1, <1>3, <2>1, <2>2, ReceiverStores
       DEF RAckWindow, Close, Flush
<1>4. CASE RWindowFails(m)
  <2>1. 0 \in 0..(WindowSize - 1)
    BY XferAssumption
  <2>2. /\ UNCHANGED sendVars /\ rtimeout' \in Nat
        /\ rpc' = "done" /\ rstatus' = "WRITE_ERROR"
        /\ \A a \in toSender' :
             \/ a \in toSender \/ a = Error
             \/ /\ a = Ack(m.num, Len(file'))
                /\ ~Final(m) /\ drained' = Len(file')
    BY <1>0, <1>1, <1>4, Zenon DEF RWindowFails, RFinish
  <2>3. drained' \in {drained, Len(file')}
    BY <1>4 DEF RWindowFails
  <2> QED
    BY <1>0, <1>1, <1>4, <2>1, <2>2, <2>3, ReceiverStores, Zenon
       DEF RWindowFails, Close
<1> QED
  BY <1>2, <1>3, <1>4

=============================================================================
