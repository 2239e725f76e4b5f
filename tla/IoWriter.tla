------------------------------ MODULE IoWriter ------------------------------
(***************************************************************************)
(* The writing side of common/tftp-io.c: the transfer engine fills a ring   *)
(* of packet slots, writer_thread (or write_drain when the adapter is not   *)
(* threaded) empties it into the file.  The order of the engine's calls is  *)
(* that of tftp_xfer_recv: reserve, publish, at the end of a window drain,  *)
(* at the end of the file finish, then the ACK.                             *)
(*                                                                          *)
(* Code under the lock is one step; waiting is as in IoReader.  Both        *)
(* threads use the stdio stream with the _unlocked functions, so the steps  *)
(* that do are separate from the locked ones.                               *)
(***************************************************************************)
EXTENDS Integers, Sequences

CONSTANTS
  NBlocks,    \* blocks in the transfer
  WindowSize, \* xfer->windowsize
  RingSizes   \* slots of a threaded ring

VARIABLES
  slots, threaded,                     \* struct tftp_io, set by io_start
  states, slot,                        \* state and contents of each slot
  head, tail, count, error, stopped,   \* struct tftp_io
  waiting,    \* who is in pthread_cond_wait
  tpc,        \* where writer_thread is
  epc,        \* which call the engine makes next
  published,  \* blocks published
  inwindow,   \* packets_in_window
  stream,     \* the blocks written to the stdio stream
  flushed,    \* how many of them fflush has pushed out
  finished,   \* write_finish has succeeded
  acked       \* the last block acknowledged

conf == <<slots, threaded>>
ring == <<states, slot, head, tail, count>>
fileVars == <<stream, flushed, finished>>
vars == <<conf, ring, error, stopped, waiting, tpc, epc, published, inwindow,
          fileVars, acked>>

\* io_start refuses a ring without slots.
ASSUME WriterAssumption ==
  /\ NBlocks \in Nat \ {0} /\ WindowSize \in Nat \ {0}
  /\ RingSizes \subseteq Nat \ {0}

SlotIds == 0..(slots - 1)

\* io_next
NextSlot(n) == IF n + 1 = slots THEN 0 ELSE n + 1

\* The server's writer is threaded; the client's is not, and asks for as many
\* slots as there are blocks in a window.
Init ==
  /\ \/ threaded = TRUE /\ slots \in RingSizes
     \/ threaded = FALSE /\ slots = WindowSize
  /\ states = [s \in SlotIds |-> "EMPTY"] /\ slot = [s \in SlotIds |-> 0]
  /\ head = 0 /\ tail = 0 /\ count = 0 /\ error = FALSE /\ stopped = FALSE
  /\ waiting = {}
  /\ tpc = IF threaded THEN "check" ELSE "exit"
  /\ epc = "reserve"
  /\ published = 0 /\ inwindow = 0
  /\ stream = <<>> /\ flushed = 0 /\ finished = FALSE
  /\ acked = 0

-----------------------------------------------------------------------------
(***************************************************************************)
(* writer_thread                                                            *)
(***************************************************************************)

\* Mutant: the thread polls the slot, and looks at stopped only when it is ready.
TCheckSpins ==
  /\ tpc = "check"
  /\ \/ states[head] # "READY" /\ UNCHANGED <<tpc, states>>
     \/ states[head] = "READY" /\ (stopped \/ error) /\ tpc' = "exit" /\ UNCHANGED states
     \/ /\ states[head] = "READY" /\ ~stopped /\ ~error
        /\ tpc' = "writing"
        /\ states' = [states EXCEPT ![head] = "WRITING"]
  /\ UNCHANGED <<conf, slot, head, tail, count, error, stopped, epc, published,
                 inwindow, fileVars, acked, waiting>>

\* The top of the loop, up to the unlock before the write.
TCheck ==
  /\ tpc = "check" /\ "thread" \notin waiting
  /\ \/ /\ states[head] # "READY" /\ ~stopped /\ ~error
        /\ waiting' = waiting \cup {"thread"}
        /\ UNCHANGED <<tpc, states>>
     \/ /\ stopped \/ error
        /\ tpc' = "exit"
        /\ UNCHANGED <<waiting, states>>
     \/ /\ states[head] = "READY" /\ ~stopped /\ ~error
        /\ tpc' = "writing"
        /\ states' = [states EXCEPT ![head] = "WRITING"]
        /\ UNCHANGED waiting
  /\ UNCHANGED <<conf, slot, head, tail, count, error, stopped, epc, published,
                 inwindow, fileVars, acked>>

\* The packet in the head slot is written and the slot is free again.
WritePacket ==
  /\ stream' = Append(stream, slot[head])
  /\ states' = [states EXCEPT ![head] = "EMPTY"]
  /\ head' = NextSlot(head)
  /\ count' = count - 1
  /\ UNCHANGED <<slot, tail, flushed, finished>>

TWrite ==
  /\ tpc = "writing"
  /\ WritePacket
  /\ waiting' = {}
  /\ tpc' = "check"
  /\ UNCHANGED <<conf, error, stopped, epc, published, inwindow, acked>>

\* Mutant: the thread ends without recording the error, the slot freed.
TWriteLost ==
  /\ tpc = "writing"
  /\ states' = [states EXCEPT ![head] = "EMPTY"]
  /\ head' = NextSlot(head)
  /\ count' = count - 1
  /\ waiting' = {}
  /\ tpc' = "check"
  /\ UNCHANGED <<conf, slot, tail, error, stopped, epc, published, inwindow,
                 fileVars, acked>>

\* The write fails; the slot stays in state WRITING.
TWriteFails ==
  /\ tpc = "writing"
  /\ error' = TRUE
  /\ waiting' = {}
  /\ tpc' = "exit"
  /\ UNCHANGED <<conf, ring, stopped, epc, published, inwindow, fileVars,
                 acked>>

-----------------------------------------------------------------------------
(***************************************************************************)
(* The engine's calls                                                       *)
(***************************************************************************)

SlotFree == states[tail] = "EMPTY"

\* write_reserve: waits for the next slot; without a thread, refuses.
EReserve ==
  /\ epc = "reserve" /\ "engine" \notin waiting
  /\ \/ /\ ~SlotFree /\ ~error
        /\ IF threaded THEN waiting' = waiting \cup {"engine"} /\ UNCHANGED epc
                       ELSE epc' = "stop" /\ UNCHANGED waiting
        /\ UNCHANGED states
     \/ /\ error
        /\ epc' = "stop"
        /\ UNCHANGED <<states, waiting>>
     \/ /\ SlotFree /\ ~error
        /\ states' = [states EXCEPT ![tail] = "RESERVED"]
        /\ epc' = "fill"
        /\ UNCHANGED waiting
  /\ UNCHANGED <<conf, slot, head, tail, count, error, stopped, tpc, published,
                 inwindow, fileVars, acked>>

\* A block arrives and is copied into the slot, without the lock.
EFill ==
  /\ epc = "fill"
  /\ slot' = [slot EXCEPT ![tail] = published + 1]
  /\ epc' = "publish"
  /\ UNCHANGED <<conf, states, head, tail, count, error, stopped, waiting, tpc,
                 published, inwindow, fileVars, acked>>

\* The transfer fails while the engine waits for a block.
EAbort ==
  /\ epc = "fill"
  /\ epc' = "stop"
  /\ UNCHANGED <<conf, ring, error, stopped, waiting, tpc, published, inwindow,
                 fileVars, acked>>

\* Whether the block just published ends the file or the window.
WindowEnds == published + 1 = NBlocks \/ inwindow + 1 = WindowSize

\* write_publish, which refuses a slot in another state, and the accounting
\* after it.
EPublish ==
  /\ epc = "publish"
  /\ IF states[tail] = "RESERVED"
     THEN /\ states' = [states EXCEPT ![tail] = "READY"]
          /\ tail' = NextSlot(tail)
          /\ count' = count + 1
          /\ waiting' = {}    \* without a thread, nobody waits
          /\ published' = published + 1
          /\ inwindow' = IF WindowEnds THEN 0 ELSE inwindow + 1
          /\ epc' = IF WindowEnds THEN "drain" ELSE "reserve"
     ELSE /\ epc' = "stop"
          /\ UNCHANGED <<states, tail, count, waiting, published, inwindow>>
  /\ UNCHANGED <<conf, slot, head, error, stopped, tpc, fileVars, acked>>

\* Mutant: write_drain waits until the writer has taken the last block.
DrainedTaken == \A s \in SlotIds : states[s] # "READY"

Drained == count = 0

EWaitDrained ==
  /\ threaded
  /\ epc = "drain" /\ "engine" \notin waiting
  /\ ~Drained /\ ~error
  /\ waiting' = waiting \cup {"engine"}
  /\ UNCHANGED <<conf, ring, error, stopped, tpc, epc, published, inwindow,
                 fileVars, acked>>

\* A turn of write_drain's own loop.
EWritePacket ==
  /\ ~threaded
  /\ epc = "drain" /\ ~Drained /\ ~error
  /\ \/ states[head] = "READY" /\ WritePacket /\ UNCHANGED error
     \/ /\ error' = TRUE
        /\ states' = [states EXCEPT ![head] = IF @ = "READY" THEN "WRITING" ELSE @]
        /\ UNCHANGED <<slot, head, tail, count, fileVars>>
  /\ UNCHANGED <<conf, stopped, waiting, tpc, epc, published, inwindow, acked>>

\* The loop of write_drain is over.
EDrained ==
  /\ epc = "drain" /\ "engine" \notin waiting
  /\ Drained \/ error
  /\ epc' = IF error THEN "stop" ELSE "flush"
  /\ UNCHANGED <<conf, ring, error, stopped, waiting, tpc, published, inwindow,
                 fileVars, acked>>

\* Mutant: a failed fflush goes unnoticed.
EFlushIgnored ==
  /\ epc = "flush"
  /\ flushed' \in {flushed, Len(stream)}
  /\ epc' = IF published = NBlocks THEN "finish" ELSE "ack"
  /\ UNCHANGED <<conf, ring, error, stopped, waiting, tpc, published, inwindow,
                 stream, finished, acked>>

\* The fflush of write_drain, without the lock.
EFlush ==
  /\ epc = "flush"
  /\ \/ /\ flushed' = Len(stream)
        /\ epc' = IF published = NBlocks THEN "finish" ELSE "ack"
        /\ UNCHANGED error
     \/ /\ error' = TRUE
        /\ epc' = "stop"
        /\ UNCHANGED flushed
  /\ UNCHANGED <<conf, ring, stopped, waiting, tpc, published, inwindow,
                 stream, finished, acked>>

\* write_finish, without the lock.
EFinish ==
  /\ epc = "finish"
  /\ \/ finished' = TRUE /\ epc' = "ack" /\ UNCHANGED error
     \/ error' = TRUE /\ epc' = "stop" /\ UNCHANGED finished
  /\ UNCHANGED <<conf, ring, stopped, waiting, tpc, published, inwindow,
                 stream, flushed, acked>>

\* The ACK of the window is sent, or the send fails.
EAck ==
  /\ epc = "ack"
  /\ \/ acked' = published /\ epc' = IF finished THEN "stop" ELSE "reserve"
     \/ epc' = "stop" /\ UNCHANGED acked
  /\ UNCHANGED <<conf, ring, error, stopped, waiting, tpc, published, inwindow,
                 fileVars>>

\* tftp_io_stop up to the join.
EStop ==
  /\ epc = "stop"
  /\ stopped' = threaded
  /\ waiting' = IF threaded THEN {} ELSE waiting
  /\ epc' = "join"
  /\ UNCHANGED <<conf, ring, error, tpc, published, inwindow, fileVars, acked>>

\* pthread_join.
EJoin ==
  /\ epc = "join" /\ tpc = "exit"
  /\ epc' = "done"
  /\ UNCHANGED <<conf, ring, error, stopped, waiting, tpc, published, inwindow,
                 fileVars, acked>>

Terminated == epc = "done" /\ UNCHANGED vars

Thread == TCheck \/ TWrite \/ TWriteFails
Engine ==
  \/ EReserve \/ EFill \/ EAbort \/ EPublish \/ EWaitDrained \/ EWritePacket
  \/ EDrained \/ EFlush \/ EFinish \/ EAck \/ EStop \/ EJoin
Next == Thread \/ Engine \/ Terminated

Spec == Init /\ [][Next]_vars

\* Both threads run; a block or the timeout that aborts the wait arrives.
LiveSpec == Spec /\ WF_vars(Thread) /\ WF_vars(Engine)

-----------------------------------------------------------------------------
(***************************************************************************)
(* Properties                                                               *)
(***************************************************************************)

TypeOK ==
  /\ threaded \in BOOLEAN /\ slots \in RingSizes \cup {WindowSize}
  /\ states \in [SlotIds -> {"EMPTY", "RESERVED", "READY", "WRITING"}]
  /\ slot \in [SlotIds -> 0..NBlocks]
  /\ head \in SlotIds /\ tail \in SlotIds /\ count \in 0..slots
  /\ error \in BOOLEAN /\ stopped \in BOOLEAN /\ finished \in BOOLEAN
  /\ waiting \in SUBSET {"thread", "engine"}
  /\ tpc \in {"check", "writing", "exit"}
  /\ epc \in {"reserve", "fill", "publish", "drain", "flush", "finish", "ack",
              "stop", "join", "done"}
  /\ published \in 0..NBlocks /\ inwindow \in 0..(WindowSize - 1)
  /\ stream \in Seq(0..NBlocks) /\ flushed \in 0..NBlocks
  /\ acked \in 0..NBlocks

\* The engine and writer_thread never use the same thing at the same time.  Not
\* the stdio stream, which neither locks: while write_drain flushes, write_finish
\* runs or tftp_io_stop has returned, the thread is not inside write_packet.  Not
\* a slot: the engine copies a packet only into one it has reserved, so that
\* write_publish never refuses; and without a thread a ring of one window of
\* slots is enough for write_reserve.
NothingShared ==
  /\ ~(tpc = "writing" /\ epc \in {"flush", "finish", "done"})
  /\ epc \in {"fill", "publish"} =>
       states[tail] = "RESERVED" /\ (tpc = "writing" => head # tail)
  /\ epc = "reserve" /\ ~threaded => SlotFree

\* An ACK is sent only for blocks that are in the file, in order and flushed,
\* whatever fails later.
AckedIsFlushed ==
  /\ acked <= flushed
  /\ \A i \in 1..flushed : stream[i] = i

sink == INSTANCE BlockSink WITH
  accepted <- published,
  contents <- SubSeq(stream, 1, flushed),
  open <- epc \notin {"stop", "join", "done"}

\* The ring implements the sink that tftp_xfer_recv relies on: each successful
\* write_drain leaves exactly the blocks published so far in the file, and a
\* failed write never goes unnoticed.
ImplementsSink == sink!Spec

\* write_reserve, write_drain and tftp_io_stop return: the engine gets to the
\* end and pthread_join does not hang.
EngineFinishes == <>(epc = "done")
=============================================================================
