---------------------------- MODULE FileTransfer ----------------------------
(***************************************************************************)
(* What a transfer promises its two callers, whatever the network does      *)
(* (common/tftp-xfer.h, struct tftp_xfer_result): the file arrives from the  *)
(* front, the sender gives up its copy of a block only once the block is     *)
(* stored, and it reports success only after the receiver has.  The          *)
(* receiver may succeed and the sender fail, never the other way round.      *)
(***************************************************************************)
EXTENDS Integers

CONSTANT NBlocks

VARIABLES
  stored,    \* blocks that the receiver has stored for good
  released,  \* blocks that the sender has let go of
  sender,    \* what tftp_xfer_send returned: "none" yet, "ok" or "failed"
  receiver   \* what tftp_xfer_recv returned

vars == <<stored, released, sender, receiver>>

Init == stored = 0 /\ released = 0 /\ sender = "none" /\ receiver = "none"

\* The receiver stores some blocks, and may return; with success only if it has
\* all of them.
Receive ==
  /\ receiver = "none"
  /\ stored' \in stored..NBlocks
  /\ \/ receiver' \in {"none", "failed"}
     \/ receiver' = "ok" /\ stored' = NBlocks
  /\ UNCHANGED <<released, sender>>

\* The sender releases some blocks, and with the last of them succeeds.
Release ==
  /\ sender = "none"
  /\ released' \in released..stored
  /\ \/ released' < NBlocks /\ UNCHANGED sender
     \/ released' = NBlocks /\ receiver = "ok" /\ sender' = "ok"
  /\ UNCHANGED <<stored, receiver>>

\* The sender gives up.
Fail ==
  /\ sender = "none"
  /\ sender' = "failed"
  /\ UNCHANGED <<stored, released, receiver>>

Next == Receive \/ Release \/ Fail

Spec == Init /\ [][Next]_vars
=============================================================================
