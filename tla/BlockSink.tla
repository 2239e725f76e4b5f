------------------------------ MODULE BlockSink ------------------------------
(***************************************************************************)
(* What tftp_xfer_recv is promised by its file adapter (common/tftp-xfer.h, *)
(* struct tftp_xfer_io_ops): write_publish hands over the next block, a     *)
(* successful write_drain leaves exactly the blocks handed over so far in   *)
(* the file, in order, and write_finish completes it.                       *)
(***************************************************************************)
EXTENDS Integers, Sequences

VARIABLES
  accepted,   \* blocks handed over
  contents,   \* the blocks pushed out to the file
  finished,   \* write_finish has succeeded
  open        \* no call has failed and tftp_io_stop has not been called

vars == <<accepted, contents, finished, open>>

Init == accepted = 0 /\ contents = <<>> /\ finished = FALSE /\ open = TRUE

Publish ==
  /\ open /\ ~finished
  /\ accepted' = accepted + 1
  /\ UNCHANGED <<contents, finished, open>>

Drain ==
  /\ open
  /\ contents' = [i \in 1..accepted |-> i]
  /\ UNCHANGED <<accepted, finished, open>>

Finish ==
  /\ open /\ Len(contents) = accepted
  /\ finished' = TRUE
  /\ UNCHANGED <<accepted, contents, open>>

Close == open /\ open' = FALSE /\ UNCHANGED <<accepted, contents, finished>>

Next == Publish \/ Drain \/ Finish \/ Close

Spec == Init /\ [][Next]_vars
=============================================================================
