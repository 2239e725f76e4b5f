--------------------------- MODULE IoWriterProofs ---------------------------
(***************************************************************************)
(* The writer ring for every file, ring and window size: the engine and the *)
(* thread keep out of each other's way, an ACK stands for flushed blocks,   *)
(* and the ring implements BlockSink.                                       *)
(*                                                                          *)
(* The inductive invariant says where each block is: block i + 1 sits in    *)
(* slot i % slots from write_publish until it is written to the stream, and *)
(* the slots that are not between head and tail are empty, but for the one  *)
(* the engine has reserved.                                                 *)
(***************************************************************************)
EXTENDS IoWriter, TLAPS

(***************************************************************************)
(* Facts about % that the indices of the ring rest on.                      *)
(***************************************************************************)

\* Euclidean division.
LEMMA Division ==
  ASSUME NEW d \in Nat \ {0}, NEW x \in Nat
  PROVE  /\ x % d \in 0..(d - 1)
         /\ x \div d \in Nat
         /\ x = (d * (x \div d)) + (x % d)
BY SMT

\* Quotient and remainder are unique.
LEMMA DivisionUnique ==
  ASSUME NEW d \in Nat \ {0}, NEW p \in Int, NEW q \in Int,
         NEW r \in 0..(d - 1), NEW s \in 0..(d - 1),
         (d * p) + r = (d * q) + s
  PROVE  p = q /\ r = s
<1>1. s - r = d * (p - q)
  OBVIOUS
<1>2. p - q >= 1 => d * (p - q) >= d
  OBVIOUS
<1>3. p - q <= -1 => d * (p - q) <= -d
  OBVIOUS
<1>4. p - q = 0
  BY <1>1, <1>2, <1>3
<1> QED
  BY <1>1, <1>4

\* Two numbers less than d apart have different remainders.
LEMMA RemaindersDiffer ==
  ASSUME NEW d \in Nat \ {0}, NEW x \in Nat, NEW y \in Nat,
         x < y, y - x < d
  PROVE  x % d # y % d
<1> SUFFICES ASSUME x % d = y % d PROVE FALSE
  OBVIOUS
<1> DEFINE p == x \div d
           q == y \div d
<1>1. x = (d * p) + (x % d) /\ p \in Nat /\ x % d \in 0..(d - 1)
  BY Division, Zenon
<1>2. y = (d * q) + (y % d) /\ q \in Nat
  BY Division, Zenon
<1> HIDE DEF p, q
<1>3. y - x = d * (q - p)
  BY <1>1, <1>2
<1>4. q - p >= 1 => d * (q - p) >= d
  BY <1>1, <1>2
<1>5. q - p <= 0 => d * (q - p) <= 0
  BY <1>1, <1>2
<1> QED
  BY <1>1, <1>2, <1>3, <1>4, <1>5

\* Counting up, the remainder goes up by one or back to zero.
LEMMA NextRemainder ==
  ASSUME NEW d \in Nat \ {0}, NEW x \in Nat
  PROVE  (x + 1) % d = IF x % d = d - 1 THEN 0 ELSE (x % d) + 1
<1>1. PICK y \in Nat : y = x + 1
  OBVIOUS
<1> DEFINE p == x \div d
           r == x % d
           q == y \div d
           s == y % d
<1>2. x = (d * p) + r /\ p \in Nat /\ r \in 0..(d - 1)
  BY Division, Zenon
<1>3. y = (d * q) + s /\ q \in Nat /\ s \in 0..(d - 1)
  BY Division, Zenon
<1> HIDE DEF p, q, r, s
<1>4. CASE r = d - 1
  <2>1. (d * (p + 1)) + 0 = (d * q) + s
    BY <1>1, <1>2, <1>3, <1>4
  <2>2. s = 0
    BY <2>1, <1>2, <1>3, DivisionUnique
  <2> QED
    BY <2>2, <1>1, <1>4 DEF r, s
<1>5. CASE r # d - 1
  <2>1. (d * p) + (r + 1) = (d * q) + s
    BY <1>1, <1>2, <1>3, <1>5
  <2>2. r + 1 \in 0..(d - 1)
    BY <1>2, <1>5
  <2>3. s = r + 1
    BY <2>1, <2>2, <1>2, <1>3, DivisionUnique
  <2> QED
    BY <2>3, <1>1, <1>5 DEF r, s
<1> QED
  BY <1>4, <1>5

\* A number below the divisor is its own remainder.
LEMMA SmallRemainder ==
  ASSUME NEW d \in Nat \ {0}, NEW x \in 0..(d - 1)
  PROVE  x % d = x
BY SMT

-----------------------------------------------------------------------------

\* The blocks published and not yet written, each in its slot.
Filled ==
  \A i \in Len(stream)..(published - 1) :
    slot[i % slots] = i + 1 /\ states[i % slots] \in {"READY", "WRITING"}

\* The slots behind the tail.
Free ==
  /\ \A i \in (published + 1)..(Len(stream) + slots - 1) : states[i % slots] = "EMPTY"
  /\ epc \in {"fill", "publish"} => count < slots /\ states[tail] = "RESERVED"
  /\ epc = "publish" => slot[tail] = published + 1
  /\ epc \in {"reserve", "drain", "flush", "finish", "ack"} /\ count < slots =>
       states[tail] = "EMPTY"
  /\ count < slots => states[tail] \in {"EMPTY", "RESERVED"}

RingInv ==
  /\ count = published - Len(stream)
  /\ head = Len(stream) % slots /\ tail = published % slots
  /\ Filled /\ Free

\* The file so far, and what each call of the engine may rely on.
StreamInv ==
  /\ \A i \in 1..Len(stream) : stream[i] = i
  /\ flushed <= Len(stream) /\ acked <= flushed
  /\ epc \in {"flush", "finish", "ack"} => count = 0
  /\ epc \in {"finish", "ack"} => flushed = Len(stream)

EngineInv ==
  /\ ~threaded => tpc = "exit" /\ slots = WindowSize
  /\ tpc = "writing" => count > 0
  /\ epc \in {"reserve", "fill", "publish"} =>
       published < NBlocks /\ ~finished /\ (threaded \/ count = inwindow)
  /\ epc \in {"drain", "flush"} => ~finished
  /\ epc \in {"drain", "flush", "finish", "ack"} => inwindow = 0
  /\ epc = "finish" => published = NBlocks
  /\ epc = "ack" => (finished <=> published = NBlocks)
  /\ epc = "done" => tpc = "exit"

IInv == TypeOK /\ RingInv /\ StreamInv /\ EngineInv

-----------------------------------------------------------------------------

\* What the invariant says of the types, without the sets nobody needs.
Shapes ==
  /\ slots \in Nat \ {0} /\ NBlocks \in Nat \ {0} /\ WindowSize \in Nat \ {0}
  /\ states \in [SlotIds -> {"EMPTY", "RESERVED", "READY", "WRITING"}]
  /\ slot \in [SlotIds -> 0..NBlocks]
  /\ count \in 0..slots /\ published \in 0..NBlocks
  /\ stream \in Seq(0..NBlocks) /\ Len(stream) \in Nat /\ Len(stream) <= published

\* The invariant gives the shapes.
LEMMA ShapesHold == TypeOK /\ RingInv => Shapes
<1> SUFFICES ASSUME TypeOK, RingInv PROVE Shapes
  OBVIOUS
<1>1. slots \in Nat \ {0} /\ NBlocks \in Nat \ {0} /\ WindowSize \in Nat \ {0}
  BY WriterAssumption DEF TypeOK
<1>2. Len(stream) \in Nat /\ count = published - Len(stream) /\ count \in 0..slots
      /\ published \in 0..NBlocks
  BY DEF TypeOK, RingInv
<1>3. Len(stream) <= published
  BY <1>1, <1>2
<1> QED
  BY <1>1, <1>2, <1>3 DEF Shapes, TypeOK

\* A slot number, and the next one by io_next.
LEMMA SlotNumber ==
  ASSUME Shapes, NEW x \in Nat
  PROVE  x % slots \in SlotIds /\ NextSlot(x % slots) = (x + 1) % slots
<1>1. slots \in Nat \ {0}
  BY DEF Shapes
<1>2. (x + 1) % slots = IF x % slots = slots - 1 THEN 0 ELSE (x % slots) + 1
  BY <1>1, NextRemainder, Zenon
<1>3. x % slots \in 0..(slots - 1)
  BY <1>1, Division
<1> QED
  BY <1>1, <1>2, <1>3 DEF NextSlot, SlotIds

\* Two blocks less than a ring apart are not in the same slot.
LEMMA SlotsDiffer ==
  ASSUME Shapes, NEW x \in Nat, NEW y \in Nat, x < y, y < x + slots
  PROVE  x % slots # y % slots
<1>1. slots \in Nat \ {0} /\ y - x < slots
  BY DEF Shapes
<1> QED
  BY <1>1, RemaindersDiffer, Zenon

\* A whole ring further is the same slot.
LEMMA SameSlot ==
  ASSUME Shapes, NEW x \in Nat
  PROVE  (x + slots) % slots = x % slots
<1>1. slots \in Nat \ {0} /\ x % slots \in 0..(slots - 1)
      /\ x = (slots * (x \div slots)) + (x % slots) /\ x \div slots \in Nat
  BY Division, Zenon DEF Shapes
<1>2. PICK y \in Nat : y = x + slots
  BY <1>1
<1>3. y % slots \in 0..(slots - 1) /\ y = (slots * (y \div slots)) + (y % slots)
      /\ y \div slots \in Nat
  BY <1>1, Division, Zenon
<1> DEFINE p == x \div slots
           q == y \div slots
           r == x % slots
           s == y % slots
<1>4. x = (slots * p) + r /\ y = (slots * q) + s /\ p \in Nat /\ q \in Nat
      /\ r \in 0..(slots - 1) /\ s \in 0..(slots - 1)
  BY <1>1, <1>3
<1> HIDE DEF p, q, r, s
<1>5. PICK u \in Int : u = p + 1
  BY <1>4
<1>6. (slots * u) + r = (slots * q) + s /\ q \in Int
  BY <1>1, <1>2, <1>4, <1>5
<1>7. r = s
  BY <1>1, <1>4, <1>6, DivisionUnique
<1> QED
  BY <1>2, <1>7 DEF r, s

\* The head slot is the first of the filled ones, if there is one.
LEMMA HeadReady ==
  ASSUME Shapes, RingInv, states[head] \in {"READY", "WRITING"}
  PROVE  count > 0
<1> SUFFICES ASSUME count = 0 PROVE FALSE
  BY DEF Shapes
<1>1. head = tail /\ count < slots
  BY DEF Shapes, RingInv
<1> QED
  BY <1>1 DEF RingInv, Free

\* The head slot holds a filled block in both its states: taking it to write
\* changes nothing else.
LEMMA TakeHead ==
  ASSUME Shapes, RingInv, states[head] \in {"READY", "WRITING"},
         states' = [states EXCEPT ![head] = "WRITING"],
         UNCHANGED <<slots, slot, head, tail, count, published, stream>>,
         epc' = epc \/ epc' \in {"stop", "join", "done"}
  PROVE  RingInv' /\ states' \in [SlotIds -> {"EMPTY", "RESERVED", "READY", "WRITING"}]
<1> DEFINE w == Len(stream)
<1>0. w \in Nat /\ published \in Nat /\ slots \in Nat \ {0} /\ count > 0 /\ w < published
      /\ head = w % slots /\ tail = published % slots /\ count = published - w
      /\ head \in SlotIds /\ count <= slots
  <2>1. w \in Nat /\ published \in Nat /\ slots \in Nat \ {0} /\ count \in 0..slots
    BY DEF Shapes
  <2>2. head = w % slots /\ tail = published % slots /\ count = published - w
    BY DEF RingInv
  <2>3. count > 0
    BY HeadReady
  <2>4. w < published /\ count <= slots
    BY <2>1, <2>2, <2>3
  <2>5. head \in SlotIds
    BY <2>1, <2>2, SlotNumber
  <2> QED
    BY <2>1, <2>2, <2>3, <2>4, <2>5
<1> HIDE DEF w
<1>1. states' \in [SlotIds -> {"EMPTY", "RESERVED", "READY", "WRITING"}]
  BY Zenon DEF Shapes
<1>2. \A i \in w..(published - 1) :
        slot[i % slots] = i + 1 /\ states'[i % slots] \in {"READY", "WRITING"}
  <2> TAKE i \in w..(published - 1)
  <2>1. i \in Nat
    BY <1>0
  <2>2. i % slots \in SlotIds
    BY <2>1, SlotNumber
  <2>3. slot[i % slots] = i + 1 /\ states[i % slots] \in {"READY", "WRITING"}
    BY DEF RingInv, Filled, w
  <2> QED
    BY <2>2, <2>3 DEF Shapes
<1>3. ASSUME NEW i \in (w + 1)..(w + slots - 1)
      PROVE  states'[i % slots] = states[i % slots]
  <2>1. i \in Nat /\ w < i /\ i < w + slots
    BY <1>0
  <2>2. i % slots # head /\ i % slots \in SlotIds
    BY <1>0, <2>1, SlotsDiffer, SlotNumber, Zenon
  <2> QED
    BY <2>2 DEF Shapes
<1>4. \A i \in (published + 1)..(w + slots - 1) : states'[i % slots] = "EMPTY"
  <2> TAKE i \in (published + 1)..(w + slots - 1)
  <2>1. i \in (w + 1)..(w + slots - 1)
    BY <1>0
  <2> QED
    BY <1>3, <2>1 DEF RingInv, Free, w
<1>5. count < slots => states'[tail] = states[tail]
  <2>1. count < slots => published \in (w + 1)..(w + slots - 1)
    BY <1>0
  <2> QED
    BY <1>0, <1>3, <2>1, Zenon
<1>6. Free'
  BY <1>4, <1>5 DEF RingInv, Free, w
<1>7. Filled'
  BY <1>2 DEF Filled, w
<1> QED
  BY <1>1, <1>6, <1>7 DEF RingInv

\* write_packet takes the next block from the head slot and frees the slot.
Written ==
  /\ RingInv'
  /\ states' \in [SlotIds -> {"EMPTY", "RESERVED", "READY", "WRITING"}]
  /\ head' \in SlotIds /\ count' \in 0..slots
  /\ stream' \in Seq(0..NBlocks) /\ Len(stream') = Len(stream) + 1
  /\ \A i \in 1..Len(stream') : stream'[i] = i

\* The ring stays in order when the thread, or the engine without one, writes a packet.
LEMMA WritePacketKeeps ==
  ASSUME Shapes, RingInv, count > 0, WritePacket, epc' = epc,
         \A i \in 1..Len(stream) : stream[i] = i,
         UNCHANGED <<slots, published>>
  PROVE  Written
<1> DEFINE w == Len(stream)
<1>0. w \in Nat /\ published \in Nat /\ slots \in Nat \ {0} /\ w < published
      /\ head = w % slots /\ tail = published % slots /\ count = published - w
      /\ head \in SlotIds /\ count <= slots
  BY SlotNumber DEF Shapes, RingInv
<1>1. slot[head] = w + 1
  BY <1>0 DEF RingInv, Filled
<1>2. stream' = Append(stream, w + 1) /\ w + 1 \in 0..NBlocks /\ stream \in Seq(0..NBlocks)
  BY <1>0, <1>1 DEF WritePacket, Shapes
<1>3. stream' \in Seq(0..NBlocks) /\ Len(stream') = w + 1
      /\ \A i \in 1..(w + 1) : stream'[i] = i
  BY <1>2
<1> HIDE DEF w
<1>4. /\ states' = [states EXCEPT ![head] = "EMPTY"]
      /\ head' = NextSlot(head) /\ count' = count - 1 /\ UNCHANGED <<slot, tail>>
  BY DEF WritePacket
<1>5. head' = (w + 1) % slots /\ head' \in SlotIds
  <2>1. w + 1 \in Nat
    BY <1>0
  <2> QED
    BY <1>0, <1>4, <2>1, SlotNumber, Zenon
<1>6. count' = published - (w + 1) /\ count' \in 0..slots /\ count' < slots
  BY <1>0, <1>4
<1>7. ASSUME NEW i \in (w + 1)..(w + slots - 1)
      PROVE  states'[i % slots] = states[i % slots]
  <2>1. i \in Nat /\ w < i /\ i < w + slots
    BY <1>0
  <2>2. i % slots # head /\ i % slots \in SlotIds
    BY <1>0, <2>1, SlotsDiffer, SlotNumber, Zenon
  <2> QED
    BY <1>4, <2>2 DEF Shapes
<1>8. states'[(w + slots) % slots] = "EMPTY"
  BY <1>0, <1>4, SameSlot, Zenon DEF Shapes
<1>9. ASSUME NEW i \in (w + 1)..(published - 1)
      PROVE  slot'[i % slots] = i + 1 /\ states'[i % slots] \in {"READY", "WRITING"}
  <2>1. i \in (w + 1)..(w + slots - 1) /\ i \in w..(published - 1)
    BY <1>0
  <2> QED
    BY <1>4, <1>7, <2>1 DEF RingInv, Filled, w
<1>10. Filled'
  BY <1>3, <1>9 DEF Filled
<1>11. \A i \in (published + 1)..(w + slots) : states'[i % slots] = "EMPTY"
  <2> TAKE i \in (published + 1)..(w + slots)
  <2>1. CASE i = w + slots
    BY <1>8, <2>1
  <2>2. CASE i # w + slots
    <3>1. i \in (published + 1)..(w + slots - 1) /\ i \in (w + 1)..(w + slots - 1)
      BY <1>0, <2>2
    <3> QED
      BY <1>7, <3>1 DEF RingInv, Free, w
  <2> QED
    BY <2>1, <2>2
<1>12. count < slots => states'[tail] = states[tail]
  <2>1. count < slots => published \in (w + 1)..(w + slots - 1)
    BY <1>0
  <2> QED
    BY <1>0, <1>7, <2>1, Zenon
<1>13. count = slots => states'[tail] = "EMPTY"
  BY <1>0, <1>8
<1>14. Free'
  <2>1. \A i \in (published' + 1)..(Len(stream') + slots' - 1) :
          states'[i % slots'] = "EMPTY"
    <3>1. Len(stream') + slots' - 1 = w + slots
      BY <1>0, <1>3
    <3> QED
      BY <1>11, <3>1
  <2>2. CASE count < slots
    BY <1>4, <1>6, <1>12, <2>1, <2>2 DEF RingInv, Free
  <2>3. CASE count = slots
    BY <1>0, <1>4, <1>6, <1>13, <2>1, <2>3 DEF RingInv, Free
  <2> QED
    BY <1>0, <2>2, <2>3
<1>15. states' \in [SlotIds -> {"EMPTY", "RESERVED", "READY", "WRITING"}]
  BY <1>4, Zenon DEF Shapes
<1>16. RingInv'
  BY <1>3, <1>4, <1>5, <1>6, <1>10, <1>14, <1>0, Zenon DEF RingInv
<1> QED
  BY <1>3, <1>5, <1>6, <1>15, <1>16 DEF Written, w

-----------------------------------------------------------------------------

\* The invariant holds at the start.
LEMMA InitInv == Init => IInv
<1> SUFFICES ASSUME Init PROVE IInv
  OBVIOUS
<1>1. slots \in Nat \ {0} /\ NBlocks \in Nat \ {0} /\ WindowSize \in Nat \ {0}
      /\ threaded \in BOOLEAN /\ slots \in RingSizes \cup {WindowSize}
      /\ (~threaded => tpc = "exit" /\ slots = WindowSize) /\ tpc \in {"check", "exit"}
  BY WriterAssumption, Zenon DEF Init
<1>2. 0 % slots = 0
  BY <1>1, SmallRemainder
<1>3. TypeOK
  <2>1. 0 \in SlotIds /\ 0 \in 0..slots /\ 0 \in 0..NBlocks /\ 0 \in 0..(WindowSize - 1)
    BY <1>1 DEF SlotIds
  <2>2. states \in [SlotIds -> {"EMPTY", "RESERVED", "READY", "WRITING"}]
        /\ slot \in [SlotIds -> 0..NBlocks]
    BY <2>1 DEF Init
  <2> QED
    BY <1>1, <2>1, <2>2 DEF Init, TypeOK
<1>4. Len(stream) = 0
  BY DEF Init
<1>5. \A i \in 1..(slots - 1) : states[i % slots] = "EMPTY"
  <2> TAKE i \in 1..(slots - 1)
  <2>1. i \in Nat
    BY <1>1
  <2>2. i % slots \in SlotIds
    BY <1>1, <2>1, Division DEF SlotIds
  <2> QED
    BY <2>2 DEF Init
<1>6. RingInv
  <2>1. Filled
    BY <1>1, <1>4 DEF Init, Filled
  <2>2. 0 \in SlotIds
    BY <1>1 DEF SlotIds
  <2>3. published = 0 /\ count = 0 /\ head = 0 /\ tail = 0 /\ epc = "reserve"
        /\ states[0] = "EMPTY"
    BY <2>2 DEF Init
  <2>4. \A i \in (published + 1)..(Len(stream) + slots - 1) : states[i % slots] = "EMPTY"
    <3>1. published + 1 = 1 /\ Len(stream) + slots - 1 = slots - 1
      BY <1>1, <1>4, <2>3
    <3> QED
      BY <1>5, <3>1
  <2>5. Free
    BY <2>3, <2>4 DEF Free
  <2> QED
    BY <1>2, <1>4, <2>1, <2>3, <2>5 DEF RingInv
<1>7. StreamInv
  BY <1>4 DEF Init, StreamInv
<1>8. EngineInv
  BY <1>1 DEF Init, EngineInv
<1> QED
  BY <1>3, <1>6, <1>7, <1>8 DEF IInv

\* A step that leaves the ring, the stream and what was published alone, and
\* moves the engine only to where the slots are as it found them.
LEMMA RingKept ==
  ASSUME RingInv, UNCHANGED <<slots, ring, published, stream>>,
         \/ epc' = epc
         \/ epc' \in {"stop", "join", "done"}
         \/ /\ epc \in {"reserve", "drain", "flush", "finish", "ack"}
            /\ epc' \in {"reserve", "drain", "flush", "finish", "ack"}
  PROVE  RingInv'
BY DEF RingInv, Filled, Free, ring

\* The steps of the thread keep the invariant.
LEMMA ThreadInv ==
  ASSUME IInv, Thread
  PROVE  IInv'
<1> USE DEF IInv
<1>0. Shapes
  BY ShapesHold
<1>1. CASE TCheck
  <2>1. UNCHANGED <<slots, threaded, slot, head, tail, count, error, stopped, epc,
                    published, inwindow, stream, flushed, finished, acked>>
        /\ waiting' \in SUBSET {"thread", "engine"} /\ tpc' \in {"check", "writing", "exit"}
        /\ tpc = "check"
    BY <1>1, Zenon DEF TCheck, conf, fileVars, TypeOK
  <2>2. RingInv' /\ states' \in [SlotIds -> {"EMPTY", "RESERVED", "READY", "WRITING"}]
        /\ (tpc' = "writing" => count > 0)
    <3>1. CASE UNCHANGED states /\ tpc' # "writing"
      BY <1>0, <2>1, <3>1, RingKept DEF ring, Shapes
    <3>2. CASE states[head] = "READY" /\ states' = [states EXCEPT ![head] = "WRITING"]
      BY <1>0, <2>1, <3>2, TakeHead, HeadReady
    <3> QED
      BY <1>1, <3>1, <3>2 DEF TCheck
  <2>3. TypeOK'
    BY <2>1, <2>2 DEF TypeOK, SlotIds
  <2>4. StreamInv' /\ EngineInv'
    BY <2>1, <2>2 DEF StreamInv, EngineInv
  <2> QED
    BY <2>2, <2>3, <2>4
<1>2. CASE TWrite
  <2>1. UNCHANGED <<slots, threaded, error, stopped, epc, published, inwindow, acked,
                    slot, tail, flushed, finished>>
        /\ waiting' = {} /\ tpc' = "check" /\ tpc = "writing" /\ count' = count - 1
    BY <1>2 DEF TWrite, WritePacket, conf
  <2>2. count > 0
    BY <2>1 DEF EngineInv
  <2>3. Written
    BY <1>0, <1>2, <2>1, <2>2, WritePacketKeeps DEF TWrite, StreamInv
  <2>4. TypeOK'
    BY <2>1, <2>3 DEF TypeOK, Written, SlotIds
  <2>5. Len(stream) \in Nat /\ flushed \in Nat /\ Len(stream') = Len(stream) + 1
    BY <1>0, <2>3 DEF Shapes, Written, TypeOK
  <2>6. StreamInv'
    BY <2>1, <2>2, <2>3, <2>5 DEF StreamInv, Written
  <2>7. EngineInv'
    BY <2>1, <2>2 DEF EngineInv
  <2> QED
    BY <2>3, <2>4, <2>6, <2>7 DEF Written
<1>3. CASE TWriteFails
  <2>1. UNCHANGED <<slots, threaded, ring, stopped, epc, published, inwindow, stream,
                    flushed, finished, acked>>
        /\ error' = TRUE /\ waiting' = {} /\ tpc' = "exit"
    BY <1>3 DEF TWriteFails, conf, fileVars
  <2>2. RingInv'
    BY <2>1, RingKept
  <2>3. TypeOK' /\ StreamInv' /\ EngineInv'
    BY <2>1 DEF TypeOK, StreamInv, EngineInv, SlotIds, ring
  <2> QED
    BY <2>2, <2>3
<1> QED
  BY <1>1, <1>2, <1>3 DEF Thread

\* write_reserve, the arrival of a block and write_publish.
LEMMA SlotStepInv ==
  ASSUME IInv, EReserve \/ EFill \/ EAbort \/ EPublish
  PROVE  IInv'
<1> USE DEF IInv
<1> DEFINE w == Len(stream)
<1>0. Shapes
  BY ShapesHold
<1>1. w \in Nat /\ published \in Nat /\ slots \in Nat \ {0} /\ w <= published
      /\ tail = published % slots /\ count = published - w
      /\ tail \in SlotIds /\ count \in 0..slots /\ NBlocks \in Nat /\ published \in 0..NBlocks
  <2>1. tail = published % slots /\ count = published - w
    BY DEF RingInv
  <2>2. published \in Nat
    BY <1>0 DEF Shapes
  <2>3. tail \in SlotIds
    BY <1>0, <2>1, <2>2, SlotNumber
  <2> QED
    BY <1>0, <2>1, <2>2, <2>3 DEF Shapes
<1> HIDE DEF w
<1>tail. ASSUME count < slots, NEW i \in w..(w + slots - 1), i # published
         PROVE  i % slots # tail /\ i % slots \in SlotIds
  <2>1. i \in Nat /\ (i < published \/ published < i)
        /\ published < i + slots /\ i < published + slots
    BY <1>1, <1>tail
  <2> QED
    BY <1>0, <1>1, <2>1, SlotsDiffer, SlotNumber, Zenon
<1>2. CASE EReserve
  <2>1. UNCHANGED <<slots, threaded, slot, head, tail, count, error, stopped, tpc,
                    published, inwindow, stream, flushed, finished, acked>>
        /\ waiting' \in SUBSET {"thread", "engine"} /\ epc' \in {"reserve", "stop", "fill"}
        /\ epc = "reserve"
    BY <1>2, Zenon DEF EReserve, conf, fileVars, TypeOK
  <2>2. RingInv' /\ states' \in [SlotIds -> {"EMPTY", "RESERVED", "READY", "WRITING"}]
    <3>1. CASE UNCHANGED states /\ epc' # "fill"
      BY <1>0, <2>1, <3>1, RingKept DEF ring, Shapes
    <3>2. CASE SlotFree /\ states' = [states EXCEPT ![tail] = "RESERVED"] /\ epc' = "fill"
      <4>1. count < slots
        <5> SUFFICES ASSUME count = slots PROVE FALSE
          BY <1>1
        <5>1. w \in w..(published - 1) /\ published = w + slots
          BY <1>1
        <5>2. states[w % slots] \in {"READY", "WRITING"}
          BY <5>1 DEF RingInv, Filled, w
        <5>3. w % slots = tail
          BY <1>0, <1>1, <5>1, SameSlot, Zenon
        <5> QED
          BY <3>2, <5>2, <5>3 DEF SlotFree
      <4>2. \A i \in w..(published - 1) :
              slot[i % slots] = i + 1 /\ states'[i % slots] \in {"READY", "WRITING"}
        <5> TAKE i \in w..(published - 1)
        <5>1. i \in w..(w + slots - 1) /\ i # published
          BY <1>1
        <5> QED
          BY <1>0, <1>tail, <3>2, <4>1, <5>1 DEF Shapes, RingInv, Filled, w
      <4>3. \A i \in (published + 1)..(w + slots - 1) : states'[i % slots] = "EMPTY"
        <5> TAKE i \in (published + 1)..(w + slots - 1)
        <5>1. i \in w..(w + slots - 1) /\ i # published
          BY <1>1
        <5> QED
          BY <1>0, <1>tail, <3>2, <4>1, <5>1 DEF Shapes, RingInv, Free, w
      <4>4. states'[tail] = "RESERVED"
            /\ states' \in [SlotIds -> {"EMPTY", "RESERVED", "READY", "WRITING"}]
        BY <1>0, <1>1, <3>2 DEF Shapes
      <4>5. Filled'
        BY <2>1, <4>2 DEF Filled, w
      <4>6. Free'
        BY <2>1, <3>2, <4>1, <4>3, <4>4 DEF Free, w
      <4> QED
        BY <2>1, <4>4, <4>5, <4>6 DEF RingInv
    <3> QED
      BY <1>2, <3>1, <3>2 DEF EReserve
  <2>3. TypeOK'
    BY <2>1, <2>2 DEF TypeOK, SlotIds
  <2>4. StreamInv' /\ EngineInv'
    BY <2>1 DEF StreamInv, EngineInv
  <2> QED
    BY <2>2, <2>3, <2>4
<1>3. CASE EFill
  <2>1. UNCHANGED <<slots, threaded, states, head, tail, count, error, stopped, waiting,
                    tpc, published, inwindow, stream, flushed, finished, acked>>
        /\ epc = "fill" /\ epc' = "publish" /\ slot' = [slot EXCEPT ![tail] = published + 1]
    BY <1>3 DEF EFill, conf, fileVars
  <2>2. count < slots /\ published < NBlocks
    BY <2>1 DEF RingInv, Free, EngineInv
  <2>3. slot' \in [SlotIds -> 0..NBlocks] /\ slot'[tail] = published + 1
    BY <1>0, <1>1, <2>1, <2>2 DEF Shapes
  <2>4. \A i \in w..(published - 1) :
          slot'[i % slots] = i + 1 /\ states[i % slots] \in {"READY", "WRITING"}
    <3> TAKE i \in w..(published - 1)
    <3>1. i \in w..(w + slots - 1) /\ i # published
      BY <1>1
    <3> QED
      BY <1>0, <1>tail, <2>1, <2>2, <3>1 DEF Shapes, RingInv, Filled, w
  <2>5. Filled' /\ Free'
    BY <2>1, <2>2, <2>3, <2>4 DEF RingInv, Filled, Free, w
  <2>6. RingInv'
    BY <2>1, <2>5 DEF RingInv
  <2>7. TypeOK' /\ StreamInv' /\ EngineInv'
    BY <2>1, <2>3 DEF TypeOK, SlotIds, StreamInv, EngineInv
  <2> QED
    BY <2>6, <2>7
<1>4. CASE EAbort
  <2>1. UNCHANGED <<slots, threaded, ring, error, stopped, waiting, tpc, published,
                    inwindow, stream, flushed, finished, acked>> /\ epc' = "stop"
    BY <1>4 DEF EAbort, conf, fileVars
  <2>2. RingInv'
    BY <2>1, RingKept
  <2>3. TypeOK' /\ StreamInv' /\ EngineInv'
    BY <2>1 DEF TypeOK, SlotIds, StreamInv, EngineInv, ring
  <2> QED
    BY <2>2, <2>3
<1>5. CASE EPublish
  <2>1. UNCHANGED <<slots, threaded, slot, head, error, stopped, tpc, stream, flushed,
                    finished, acked>> /\ epc = "publish" /\ states[tail] = "RESERVED"
        /\ count < slots /\ published < NBlocks /\ ~finished /\ slot[tail] = published + 1
        /\ (threaded \/ count = inwindow)
    BY <1>5 DEF EPublish, conf, fileVars, RingInv, Free, EngineInv
  <2>2. /\ states' = [states EXCEPT ![tail] = "READY"] /\ tail' = NextSlot(tail)
        /\ count' = count + 1 /\ waiting' = {} /\ published' = published + 1
        /\ inwindow' = IF WindowEnds THEN 0 ELSE inwindow + 1
        /\ epc' = IF WindowEnds THEN "drain" ELSE "reserve"
    BY <1>5, <2>1 DEF EPublish
  <2>3. tail' = (published + 1) % slots /\ tail' \in SlotIds
    <3>1. published + 1 \in Nat
      BY <1>1
    <3> QED
      BY <1>0, <1>1, <2>2, <3>1, SlotNumber, Zenon
  <2>4. \A i \in w..published :
          slot[i % slots] = i + 1 /\ states'[i % slots] \in {"READY", "WRITING"}
    <3> TAKE i \in w..published
    <3>1. CASE i = published
      BY <1>0, <1>1, <2>1, <2>2, <3>1 DEF Shapes
    <3>2. CASE i # published
      <4>1. i \in w..(w + slots - 1) /\ i \in w..(published - 1)
        BY <1>1, <2>1, <3>2
      <4> QED
        BY <1>0, <1>tail, <2>1, <2>2, <3>2, <4>1 DEF Shapes, RingInv, Filled, w
    <3> QED
      BY <3>1, <3>2
  <2>5. \A i \in (published + 1)..(w + slots - 1) : states'[i % slots] = "EMPTY"
    <3> TAKE i \in (published + 1)..(w + slots - 1)
    <3>1. i \in w..(w + slots - 1) /\ i # published
      BY <1>1
    <3> QED
      BY <1>0, <1>tail, <2>1, <2>2, <3>1 DEF Shapes, RingInv, Free, w
  <2>6. Filled'
    <3>1. published' - 1 = published
      BY <1>1, <2>2
    <3> QED
      BY <2>1, <2>4, <3>1 DEF Filled, w
  <2>7. Free'
    <3>1. \A i \in (published' + 1)..(w + slots - 1) : states'[i % slots] = "EMPTY"
      <4> TAKE i \in (published' + 1)..(w + slots - 1)
      <4>1. i \in (published + 1)..(w + slots - 1)
        BY <1>1, <2>2
      <4> QED
        BY <2>5, <4>1
    <3>2. count' < slots => states'[tail'] = "EMPTY"
      <4>1. count' < slots => published + 1 \in (published + 1)..(w + slots - 1)
        BY <1>1, <2>2
      <4> QED
        BY <2>3, <2>5, <4>1
    <3>3. epc' \in {"drain", "reserve"}
      BY <2>2
    <3> QED
      BY <2>1, <3>1, <3>2, <3>3 DEF Free, w
  <2>8. RingInv'
    <3>1. count' = published' - w
      BY <1>1, <2>2
    <3>2. tail' = published' % slots
      BY <2>2, <2>3
    <3>3. head' = Len(stream') % slots'
      BY <2>1 DEF RingInv
    <3> QED
      BY <2>1, <2>6, <2>7, <3>1, <3>2, <3>3 DEF RingInv, w
  <2>9. states' \in [SlotIds -> {"EMPTY", "RESERVED", "READY", "WRITING"}]
    BY <1>0, <2>2, Zenon DEF Shapes
  <2>10. inwindow' \in 0..(WindowSize - 1) /\ published' \in 0..NBlocks /\ count' \in 0..slots
         /\ epc' \in {"drain", "reserve"}
         /\ (epc' = "drain" => inwindow' = 0)
         /\ (epc' = "reserve" => published' < NBlocks /\ inwindow' = inwindow + 1)
    <3>1. inwindow \in 0..(WindowSize - 1) /\ WindowSize \in Nat \ {0}
      BY <1>0 DEF TypeOK, Shapes
    <3> QED
      BY <1>1, <2>1, <2>2, <3>1 DEF WindowEnds
  <2>11. TypeOK'
    BY <2>1, <2>2, <2>3, <2>9, <2>10 DEF TypeOK, SlotIds
  <2>12. StreamInv'
    BY <2>1, <2>10 DEF StreamInv
  <2>13. EngineInv'
    BY <1>1, <2>1, <2>2, <2>10 DEF EngineInv
  <2> QED
    BY <2>8, <2>11, <2>12, <2>13
<1> QED
  BY <1>2, <1>3, <1>4, <1>5

\* write_drain, write_finish, the ACK and tftp_io_stop.
LEMMA DrainStepInv ==
  ASSUME IInv,
         \/ EWaitDrained \/ EWritePacket \/ EDrained \/ EFlush \/ EFinish
         \/ EAck \/ EStop \/ EJoin
  PROVE  IInv'
<1> USE DEF IInv
<1>0. Shapes
  BY ShapesHold
<1>1. Len(stream) \in Nat /\ published \in 0..NBlocks /\ NBlocks \in Nat /\ flushed \in Nat
      /\ acked \in Nat /\ count \in 0..slots /\ count = published - Len(stream)
      /\ slots \in Nat
  BY <1>0 DEF Shapes, TypeOK, RingInv
<1>2. CASE EWaitDrained
  <2>1. UNCHANGED <<slots, threaded, ring, error, stopped, tpc, epc, published, inwindow,
                    stream, flushed, finished, acked>>
        /\ waiting' \in SUBSET {"thread", "engine"}
    BY <1>2 DEF EWaitDrained, conf, fileVars, TypeOK
  <2>2. RingInv'
    BY <2>1, RingKept
  <2>3. TypeOK' /\ StreamInv' /\ EngineInv'
    BY <2>1 DEF TypeOK, SlotIds, StreamInv, EngineInv, ring
  <2> QED
    BY <2>2, <2>3
<1>3. CASE EWritePacket
  <2>1. UNCHANGED <<slots, threaded, stopped, waiting, tpc, epc, published, inwindow, acked>>
        /\ epc = "drain" /\ count > 0 /\ tpc = "exit"
    BY <1>1, <1>3 DEF EWritePacket, conf, Drained, EngineInv
  <2>2. CASE WritePacket /\ UNCHANGED error
    <3>1. Written
      BY <1>0, <2>1, <2>2, WritePacketKeeps DEF StreamInv
    <3>2. UNCHANGED <<slot, tail, flushed, finished>>
      BY <2>2 DEF WritePacket
    <3>3. TypeOK'
      BY <2>1, <2>2, <3>1, <3>2 DEF TypeOK, Written, SlotIds
    <3>4. StreamInv'
      BY <1>1, <2>1, <3>1, <3>2 DEF StreamInv, Written
    <3>5. EngineInv'
      BY <2>1, <3>2 DEF EngineInv
    <3> QED
      BY <3>1, <3>3, <3>4, <3>5 DEF Written
  <2>3. CASE /\ error' = TRUE
             /\ states' = [states EXCEPT ![head] = IF @ = "READY" THEN "WRITING" ELSE @]
             /\ UNCHANGED <<slot, head, tail, count, fileVars>>
    <3>1. RingInv' /\ states' \in [SlotIds -> {"EMPTY", "RESERVED", "READY", "WRITING"}]
      <4>1. CASE states[head] = "READY"
        <5>1. states' = [states EXCEPT ![head] = "WRITING"]
          BY <2>3, <4>1
        <5> QED
          BY <1>0, <2>1, <2>3, <4>1, <5>1, TakeHead DEF fileVars
      <4>2. CASE states[head] # "READY"
        <5>1. states' = states
          BY <1>0, <2>3, <4>2 DEF Shapes
        <5> QED
          BY <1>0, <2>1, <2>3, <5>1, RingKept, Zenon DEF ring, fileVars, Shapes
      <4> QED
        BY <4>1, <4>2
    <3>2. TypeOK'
      BY <2>1, <2>3, <3>1 DEF TypeOK, SlotIds, fileVars
    <3>3. StreamInv' /\ EngineInv'
      BY <2>1, <2>3 DEF StreamInv, EngineInv, fileVars
    <3> QED
      BY <3>1, <3>2, <3>3
  <2> QED
    BY <1>3, <2>2, <2>3, Zenon DEF EWritePacket
<1>4. CASE EDrained
  <2>1. UNCHANGED <<slots, threaded, ring, error, stopped, waiting, tpc, published,
                    inwindow, stream, flushed, finished, acked>>
        /\ epc = "drain" /\ epc' \in {"stop", "flush"} /\ (epc' = "flush" => count = 0)
    BY <1>4 DEF EDrained, conf, fileVars, Drained
  <2>2. RingInv'
    BY <2>1, RingKept
  <2>3. TypeOK' /\ StreamInv' /\ EngineInv'
    BY <2>1 DEF TypeOK, SlotIds, StreamInv, EngineInv, ring
  <2> QED
    BY <2>2, <2>3
<1>5. CASE EFlush
  <2>1. UNCHANGED <<slots, threaded, ring, stopped, waiting, tpc, published, inwindow,
                    stream, finished, acked>>
        /\ epc = "flush" /\ count = 0 /\ inwindow = 0 /\ ~finished /\ error' \in BOOLEAN
    BY <1>5, Zenon DEF EFlush, conf, StreamInv, EngineInv, TypeOK
  <2>2. epc' \in {"stop", "finish", "ack"}
        /\ (epc' # "stop" => flushed' = Len(stream))
        /\ (epc' = "stop" => flushed' = flushed)
        /\ (epc' = "finish" => published = NBlocks)
        /\ (epc' = "ack" => published # NBlocks)
    BY <1>5 DEF EFlush
  <2>3. RingInv'
    BY <2>1, <2>2, RingKept
  <2>4. flushed' \in 0..NBlocks
    BY <1>1, <2>1, <2>2 DEF TypeOK
  <2>5. TypeOK'
    BY <2>1, <2>2, <2>4 DEF TypeOK, SlotIds, ring
  <2>6. acked <= flushed' /\ flushed' <= Len(stream)
    BY <1>1, <2>2 DEF StreamInv
  <2>7. StreamInv' /\ EngineInv'
    BY <2>1, <2>2, <2>6 DEF StreamInv, EngineInv, ring
  <2> QED
    BY <2>3, <2>5, <2>7
<1>6. CASE EFinish
  <2>1. UNCHANGED <<slots, threaded, ring, stopped, waiting, tpc, published, inwindow,
                    stream, flushed, acked>>
        /\ epc = "finish" /\ error' \in BOOLEAN /\ finished' \in BOOLEAN
        /\ epc' \in {"stop", "ack"} /\ (epc' = "ack" => finished')
    BY <1>6, Zenon DEF EFinish, conf, TypeOK
  <2>2. RingInv'
    BY <2>1, RingKept
  <2>3. TypeOK' /\ StreamInv' /\ EngineInv'
    BY <2>1 DEF TypeOK, SlotIds, StreamInv, EngineInv, ring
  <2> QED
    BY <2>2, <2>3
<1>7. CASE EAck
  <2>1. UNCHANGED <<slots, threaded, ring, error, stopped, waiting, tpc, published, inwindow,
                    stream, flushed, finished>>
        /\ epc = "ack" /\ acked' \in {acked, published} /\ epc' \in {"stop", "reserve"}
        /\ (epc' = "reserve" => ~finished)
    BY <1>7 DEF EAck, conf, fileVars
  <2>2. RingInv'
    BY <2>1, RingKept
  <2>3. published = flushed /\ count = 0 /\ inwindow = 0
    BY <1>1, <2>1 DEF StreamInv, EngineInv
  <2>4. TypeOK'
    BY <2>1 DEF TypeOK, SlotIds, ring
  <2>5. acked' <= flushed
    BY <1>1, <2>1, <2>3 DEF StreamInv
  <2>6. StreamInv'
    BY <2>1, <2>5 DEF StreamInv
  <2>7. EngineInv'
    BY <1>1, <2>1, <2>3 DEF EngineInv, ring
  <2> QED
    BY <2>2, <2>4, <2>6, <2>7
<1>8. CASE EStop \/ EJoin
  <2>1. UNCHANGED <<slots, threaded, ring, error, tpc, published, inwindow, stream,
                    flushed, finished, acked>>
        /\ waiting' \in SUBSET {"thread", "engine"} /\ stopped' \in BOOLEAN
        /\ epc' \in {"join", "done"} /\ (epc' = "done" => tpc = "exit")
    BY <1>8, Zenon DEF EStop, EJoin, conf, fileVars, TypeOK
  <2>2. RingInv'
    BY <2>1, RingKept
  <2>3. TypeOK' /\ StreamInv' /\ EngineInv'
    BY <2>1 DEF TypeOK, SlotIds, StreamInv, EngineInv, ring
  <2> QED
    BY <2>2, <2>3
<1> QED
  BY <1>2, <1>3, <1>4, <1>5, <1>6, <1>7, <1>8

\* Every step keeps the invariant.
LEMMA StepInv == IInv /\ [Next]_vars => IInv'
<1> SUFFICES ASSUME IInv, [Next]_vars PROVE IInv'
  OBVIOUS
<1>1. CASE UNCHANGED vars
  BY <1>1 DEF vars, IInv, TypeOK, SlotIds, RingInv, Filled, Free, StreamInv, EngineInv,
              conf, ring, fileVars
<1> QED
  BY <1>1, ThreadInv, SlotStepInv, DrainStepInv DEF Next, Engine, Terminated

\* The ring's bookkeeping is right in every reachable state.
THEOREM WriterInvariance == Spec => []IInv
BY InitInv, StepInv, PTL DEF Spec

\* The engine and writer_thread never use the stream or a slot at the same time,
\* whatever the sizes of ring and window.
THEOREM WriterApart == Spec => []NothingShared
<1>1. ASSUME IInv PROVE NothingShared
  <2>0. Shapes
    BY <1>1, ShapesHold DEF IInv
  <2>1. ~(tpc = "writing" /\ epc \in {"flush", "finish", "done"})
    BY <1>1 DEF IInv, StreamInv, EngineInv
  <2>2. ASSUME epc \in {"fill", "publish"}
        PROVE  states[tail] = "RESERVED" /\ (tpc = "writing" => head # tail)
    <3>1. states[tail] = "RESERVED" /\ count < slots
      BY <1>1, <2>2 DEF IInv, RingInv, Free
    <3>2. ASSUME count > 0 PROVE head # tail
      <4>1. Len(stream) \in Nat /\ published \in Nat /\ Len(stream) < published
            /\ published < Len(stream) + slots
        BY <1>1, <2>0, <3>1, <3>2 DEF Shapes, IInv, RingInv
      <4> QED
        BY <1>1, <2>0, <4>1, SlotsDiffer DEF IInv, RingInv
    <3> QED
      BY <1>1, <3>1, <3>2 DEF IInv, EngineInv
  <2>3. ASSUME epc = "reserve", ~threaded PROVE SlotFree
    <3>1. count < slots
      BY <1>1, <2>0, <2>3 DEF Shapes, IInv, EngineInv, TypeOK
    <3> QED
      BY <1>1, <2>3, <3>1 DEF IInv, RingInv, Free, SlotFree
  <2> QED
    BY <2>1, <2>2, <2>3 DEF NothingShared
<1> QED
  BY <1>1, WriterInvariance, PTL

\* An ACK stands for blocks that are in the file, in order and flushed.
THEOREM AcksAreFlushed == Spec => []AckedIsFlushed
<1>1. IInv => AckedIsFlushed
  BY DEF IInv, TypeOK, StreamInv, AckedIsFlushed
<1> QED
  BY <1>1, WriterInvariance, PTL

-----------------------------------------------------------------------------

\* What has been flushed is the file up to there.
Contents == SubSeq(stream, 1, flushed)

\* No block is missing or out of place in what the ACKs stand for.
LEMMA ContentsExact == IInv => Contents = [i \in 1..flushed |-> i]
<1> SUFFICES ASSUME IInv PROVE Contents = [i \in 1..flushed |-> i]
  OBVIOUS
<1>1. stream \in Seq(0..NBlocks) /\ flushed \in Nat /\ flushed <= Len(stream)
      /\ Len(stream) \in Nat /\ \A i \in 1..Len(stream) : stream[i] = i
  BY DEF IInv, TypeOK, StreamInv
<1>2. Contents = [i \in 1..flushed |-> stream[i]]
  BY <1>1 DEF Contents
<1> QED
  BY <1>1, <1>2

\* The writer ring implements BlockSink: a successful write_drain leaves exactly
\* the blocks published so far in the file, and write_finish succeeds only on
\* the whole of them.
THEOREM WriterRefines == Spec => ImplementsSink
<1>1. Init => sink!Init
  BY DEF Init, sink!Init
<1>next. (IInv => Contents = [i \in 1..flushed |-> i])'
  BY ContentsExact, PTL
<1>2. IInv /\ IInv' /\ [Next]_vars => [sink!Next]_sink!vars
  <2> SUFFICES ASSUME IInv, IInv', [Next]_vars PROVE [sink!Next]_sink!vars
    OBVIOUS
  <2>0. Contents = [i \in 1..flushed |-> i] /\ Contents' = [i \in 1..flushed' |-> i]
    BY ContentsExact, <1>next
  <2>1. flushed' = flushed => Contents' = Contents
    BY <2>0
  <2>2. CASE UNCHANGED <<published, flushed, finished, epc>>
    BY <2>1, <2>2, Zenon DEF sink!vars, Contents
  <2>3. CASE TCheck \/ TWrite \/ TWriteFails \/ EWaitDrained \/ EWritePacket \/ UNCHANGED vars
    <3>1. UNCHANGED <<published, flushed, finished, epc>>
      BY <2>3 DEF TCheck, TWrite, TWriteFails, EWaitDrained, EWritePacket, WritePacket,
                  fileVars, vars
    <3> QED
      BY <2>2, <3>1
  <2>4. CASE EReserve \/ EFill \/ EAbort \/ EDrained \/ EAck \/ EStop \/ EJoin
    <3>1. UNCHANGED <<published, flushed, finished>>
          /\ (epc \in {"stop", "join", "done"} => epc' \in {"stop", "join", "done"})
      BY <2>4 DEF EReserve, EFill, EAbort, EDrained, EAck, EStop, EJoin, fileVars
    <3>2. Contents' = Contents
      BY <2>1, <3>1
    <3> QED
      BY <3>1, <3>2, Zenon DEF sink!Next, sink!Close, sink!vars, Contents
  <2>5. CASE EPublish
    <3>1. UNCHANGED <<flushed, finished>> /\ epc = "publish" /\ ~finished
          /\ \/ published' = published + 1 /\ epc' \in {"drain", "reserve"}
             \/ published' = published /\ epc' = "stop"
      BY <2>5 DEF EPublish, fileVars, IInv, EngineInv
    <3>2. Contents' = Contents
      BY <2>1, <3>1
    <3> QED
      BY <3>1, <3>2, Zenon DEF sink!Next, sink!Publish, sink!Close, Contents
  <2>6. CASE EFlush
    <3>1. UNCHANGED <<published, finished>> /\ epc = "flush"
          /\ \/ flushed' = Len(stream) /\ epc' \in {"finish", "ack"}
             \/ flushed' = flushed /\ epc' = "stop"
      BY <2>6 DEF EFlush
    <3>2. Len(stream) = published
      BY <3>1 DEF IInv, RingInv, StreamInv, TypeOK
    <3>3. CASE flushed' = Len(stream) /\ epc' \in {"finish", "ack"}
      BY <2>0, <3>1, <3>2, <3>3 DEF sink!Next, sink!Drain, Contents
    <3>4. CASE flushed' = flushed /\ epc' = "stop"
      BY <2>1, <3>1, <3>4, Zenon DEF sink!Next, sink!Close, Contents
    <3> QED
      BY <3>1, <3>3, <3>4
  <2>7. CASE EFinish
    <3>1. UNCHANGED <<published, flushed>> /\ epc = "finish"
          /\ \/ finished' = TRUE /\ epc' = "ack"
             \/ finished' = finished /\ epc' = "stop"
      BY <2>7 DEF EFinish
    <3>2. flushed = published /\ flushed \in Nat
      BY <3>1 DEF IInv, RingInv, StreamInv, TypeOK
    <3>3. Len(Contents) = published /\ Contents' = Contents
      BY <2>0, <2>1, <3>1, <3>2
    <3> QED
      BY <3>1, <3>3, Zenon DEF sink!Next, sink!Finish, sink!Close, Contents
  <2> QED
    BY <2>3, <2>4, <2>5, <2>6, <2>7 DEF Next, Thread, Engine, Terminated
<1> QED
  BY <1>1, <1>2, WriterInvariance, PTL DEF Spec, sink!Spec, ImplementsSink
=============================================================================
