---------------------------- MODULE WindowSource ----------------------------
(***************************************************************************)
(* What tftp_xfer_send is promised by its file adapter (common/tftp-xfer.h, *)
(* struct tftp_xfer_io_ops): read_window hands out the next blocks of the   *)
(* file, a full window of them unless the file ends in it, and they stay    *)
(* as they are until read_release.                                          *)
(***************************************************************************)
EXTENDS Integers, Sequences

CONSTANTS NBlocks, Window

VARIABLES
  status,   \* "idle", "held", "over" or "stopped"
  given,    \* blocks released so far
  window,   \* the blocks handed out, in order
  final     \* whether they are the last ones

vars == <<status, given, window, final>>

Init == status = "idle" /\ given = 0 /\ window = <<>> /\ final = FALSE

Remaining == NBlocks - given

\* read_window succeeds.
Give ==
  /\ status = "idle"
  /\ status' = "held"
  /\ window' = [n \in 1..(IF Remaining < Window THEN Remaining ELSE Window)
                  |-> given + n]
  /\ final' = (Remaining <= Window)
  /\ UNCHANGED given

\* read_window fails: the caller gets no window again.
Fail ==
  /\ status = "idle"
  /\ status' = "over"
  /\ UNCHANGED <<given, window, final>>

\* read_release.
Release ==
  /\ status = "held"
  /\ status' = IF final THEN "over" ELSE "idle"
  /\ given' = given + Len(window)
  /\ window' = <<>>
  /\ final' = FALSE

\* The transfer fails in the middle of a window.
Abandon ==
  /\ status = "held"
  /\ status' = "over"
  /\ window' = <<>>
  /\ final' = FALSE
  /\ UNCHANGED given

\* tftp_io_stop.
Stop ==
  /\ status = "over"
  /\ status' = "stopped"
  /\ UNCHANGED <<given, window, final>>

Next == Give \/ Fail \/ Release \/ Abandon \/ Stop

Spec == Init /\ [][Next]_vars
=============================================================================
