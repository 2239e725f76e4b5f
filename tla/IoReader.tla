------------------------------ MODULE IoReader ------------------------------
(***************************************************************************)
(* The reading side of common/tftp-io.c: a ring of packet slots, filled     *)
(* ahead of the transfer by reader_thread (or on demand by read_window when *)
(* the adapter is not threaded) and emptied a window at a time by the       *)
(* transfer engine.                                                         *)
(*                                                                          *)
(* Code between pthread_mutex_lock and pthread_mutex_unlock is one step.    *)
(* pthread_cond_wait puts the caller into waiting and pthread_cond_broadcast*)
(* empties that set; a process in the set takes no step.                    *)
(***************************************************************************)
EXTENDS Integers, Sequences, FiniteSets

CONSTANTS
  FileBlocks,    \* blocks in the file; the last one is short, so it sets eof
  Slots,      \* io->slots
  Window      \* io->window

VARIABLES
  threaded,   \* io->threaded: the server's reader, not the client's
  ring,       \* the block in each slot; 0 while it is being overwritten
  head, tail, count, held, eof, error, stopped,   \* struct tftp_io
  waiting,    \* who is in pthread_cond_wait
  tpc,        \* where reader_thread is
  epc,        \* where the engine is: which call it makes next
  final,      \* what read_window said of the window
  filepos,    \* blocks read from the file
  released    \* blocks released by the engine

ringVars == <<ring, tail, eof, error, filepos>>
engineVars == <<head, held, final, released, epc, stopped>>
readerVars == <<threaded, ringVars, engineVars, count, waiting, tpc>>

\* io_start refuses a ring smaller than a window.
ASSUME ReaderAssumption ==
  /\ FileBlocks \in Nat \ {0} /\ Window \in Nat \ {0}
  /\ Slots \in Nat /\ Slots >= Window

SlotIds == 0..(Slots - 1)

\* io_next
NextSlot(n) == IF n + 1 = Slots THEN 0 ELSE n + 1

Least(m, n) == IF m < n THEN m ELSE n

\* The slot of the n-th packet held: tftp_io_read_packet, tftp_io_read_length.
HeldSlot(n) == (head + n) % Slots

ReaderInit ==
  /\ threaded \in BOOLEAN
  /\ ring = [s \in SlotIds |-> 0]
  /\ head = 0 /\ tail = 0 /\ count = 0 /\ held = 0
  /\ eof = FALSE /\ error = FALSE /\ stopped = FALSE
  /\ waiting = {}
  /\ tpc = IF threaded THEN "check" ELSE "exit"
  /\ epc = "window" /\ final = FALSE
  /\ filepos = 0 /\ released = 0

-----------------------------------------------------------------------------
(***************************************************************************)
(* reader_thread                                                            *)
(***************************************************************************)

\* Mutant: the thread looks only at the packets held, not at all of them.
RingFullHeld == held = Slots

RingFull == count = Slots

\* Mutant: the thread polls the ring, and looks at stopped only when there is room.
TCheckSpins ==
  /\ tpc = "check"
  /\ \/ RingFull /\ UNCHANGED <<tpc, ring>>
     \/ ~RingFull /\ stopped /\ tpc' = "exit" /\ UNCHANGED ring
     \/ /\ ~RingFull /\ ~stopped
        /\ tpc' = "reading"
        /\ ring' = [ring EXCEPT ![tail] = 0]
  /\ UNCHANGED <<threaded, tail, eof, error, filepos, engineVars, count, waiting>>

\* The top of the loop, up to the unlock before the read.
TCheck ==
  /\ tpc = "check" /\ "thread" \notin waiting
  /\ \/ /\ RingFull /\ ~stopped
        /\ waiting' = waiting \cup {"thread"}
        /\ UNCHANGED <<tpc, ring>>
     \/ /\ stopped
        /\ tpc' = "exit"
        /\ UNCHANGED <<waiting, ring>>
     \/ /\ ~RingFull /\ ~stopped
        /\ tpc' = "reading"
        /\ ring' = [ring EXCEPT ![tail] = 0]
        /\ UNCHANGED waiting
  /\ UNCHANGED <<threaded, tail, eof, error, filepos, engineVars, count>>

\* A packet is read into the tail slot, a short one at the end of the file.
ReadPacket ==
  /\ ring' = [ring EXCEPT ![tail] = filepos + 1]
  /\ filepos' = filepos + 1
  /\ tail' = NextSlot(tail)
  /\ count' = count + 1
  /\ eof' = (filepos + 1 = FileBlocks)

\* The read is over: the rest of the loop.
TRead ==
  /\ tpc = "reading"
  /\ ReadPacket
  /\ waiting' = {}
  /\ tpc' = IF eof' \/ stopped THEN "exit" ELSE "check"
  /\ UNCHANGED <<threaded, error, engineVars>>

TReadFails ==
  /\ tpc = "reading"
  /\ error' = TRUE
  /\ waiting' = {}
  /\ tpc' = "exit"
  /\ UNCHANGED <<threaded, ring, tail, eof, filepos, engineVars, count>>

-----------------------------------------------------------------------------
(***************************************************************************)
(* The engine's calls                                                       *)
(***************************************************************************)

\* Mutant: end of file alone makes a window the last.
LastWindowEof(h) == eof

\* Whether a window of h packets is the last.
LastWindow(h) == eof /\ h = count

\* read_window goes on waiting, or without a thread reading.
WindowShort == count < Window /\ ~eof /\ ~error

EWaitWindow ==
  /\ threaded
  /\ epc = "window" /\ "engine" \notin waiting
  /\ WindowShort
  /\ waiting' = waiting \cup {"engine"}
  /\ UNCHANGED <<threaded, ringVars, engineVars, count, tpc>>

\* A turn of read_window's own loop.
EReadPacket ==
  /\ ~threaded
  /\ epc = "window" /\ WindowShort
  /\ \/ ReadPacket /\ UNCHANGED error
     \/ error' = TRUE /\ UNCHANGED <<ring, tail, eof, filepos, count>>
  /\ UNCHANGED <<threaded, engineVars, waiting, tpc>>

\* The end of read_window.
EGetWindow ==
  /\ epc = "window" /\ "engine" \notin waiting
  /\ ~WindowShort
  /\ \/ /\ error
        /\ epc' = "stop"
        /\ UNCHANGED <<held, final>>
     \/ /\ ~error
        /\ held' = Least(count, Window)
        /\ final' = LastWindow(held')
        /\ epc' = "hold"
  /\ UNCHANGED <<threaded, ringVars, head, released, stopped, count, waiting,
                 tpc>>

\* tftp_io_read_release; after the last window the engine is done.
ERelease ==
  /\ epc = "hold"
  /\ head' = HeldSlot(held)
  /\ count' = count - held
  /\ held' = 0
  /\ released' = released + held
  /\ waiting' = {}    \* without a thread, nobody waits
  /\ final' = FALSE
  /\ epc' = IF final THEN "stop" ELSE "window"
  /\ UNCHANGED <<threaded, ringVars, stopped, tpc>>

\* The transfer fails while the window is held.
EAbort ==
  /\ epc = "hold"
  /\ epc' = "stop"
  /\ UNCHANGED <<threaded, ringVars, head, held, final, released, stopped,
                 count, waiting, tpc>>

\* tftp_io_stop up to the join.
EStop ==
  /\ epc = "stop"
  /\ stopped' = threaded
  /\ waiting' = IF threaded THEN {} ELSE waiting
  /\ epc' = "join"
  /\ UNCHANGED <<threaded, ringVars, head, held, final, released, count, tpc>>

\* pthread_join and the release of the ring.
EJoin ==
  /\ epc = "join" /\ tpc = "exit"
  /\ epc' = "done"
  /\ held' = 0
  /\ UNCHANGED <<threaded, ringVars, head, final, released, stopped, count,
                 waiting, tpc>>

ReaderTerminated == epc = "done" /\ UNCHANGED readerVars

Thread == TCheck \/ TRead \/ TReadFails
Engine ==
  \/ EWaitWindow \/ EReadPacket \/ EGetWindow \/ ERelease \/ EAbort \/ EStop
  \/ EJoin
ReaderNext == Thread \/ Engine \/ ReaderTerminated

ReaderSpec == ReaderInit /\ [][ReaderNext]_readerVars

\* Both threads run; the engine does not hold a window for ever, because its
\* own timeouts end the wait for the ACK.
ReaderLiveSpec == ReaderSpec /\ WF_readerVars(Thread) /\ WF_readerVars(Engine)
-----------------------------------------------------------------------------
(***************************************************************************)
(* Properties                                                               *)
(***************************************************************************)

ReaderTypeOK ==
  /\ threaded \in BOOLEAN
  /\ ring \in [SlotIds -> 0..FileBlocks]
  /\ head \in SlotIds /\ tail \in SlotIds
  /\ count \in 0..Slots /\ held \in 0..Window
  /\ eof \in BOOLEAN /\ error \in BOOLEAN /\ stopped \in BOOLEAN
  /\ final \in BOOLEAN
  /\ waiting \in SUBSET {"thread", "engine"}
  /\ tpc \in {"check", "reading", "exit"}
  /\ epc \in {"window", "hold", "stop", "join", "done"}
  /\ filepos \in 0..FileBlocks /\ released \in 0..FileBlocks

\* The packets of a window keep their contents while the engine sends and
\* resends them: slot (head + n) % slots holds block released + n + 1, however
\* far reader_thread, which fills slots without the lock, has run ahead.
WindowIntact ==
  epc = "hold" =>
    \A n \in 0..(held - 1) : ring[HeldSlot(n)] = released + n + 1

\* reader_thread and read_window never wait for each other: the ring is not
\* full and short of a window at the same time, and each one that changes what
\* the other waits for broadcasts.
NoMutualWait == waiting # {"thread", "engine"}

source == INSTANCE WindowSource WITH
  NBlocks <- FileBlocks,
  status <- CASE epc = "window" -> "idle"
              [] epc = "hold" -> "held"
              [] epc = "stop" -> "over"
              [] OTHER -> "stopped",
  given <- released,
  window <- IF epc = "hold"
            THEN [n \in 1..held |-> ring[HeldSlot(n - 1)]] ELSE <<>>,
  final <- final /\ epc = "hold"

\* The ring implements the window source that tftp_xfer_send relies on: full
\* windows except the last, in order, each unchanged until it is released, and
\* "final" said of the last window and of no other.
ImplementsSource == source!Spec

\* Every read_window, read_release and tftp_io_stop returns: the engine gets to
\* the end, and pthread_join does not hang on a thread that waits for room.
EngineFinishes == <>(epc = "done")
=============================================================================
