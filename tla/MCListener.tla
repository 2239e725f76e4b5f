----------------------------- MODULE MCListener -----------------------------
(* Instances of Listener. *)
EXTENDS Listener, TLC

\* Two sockets: stray datagrams at the one, requests at the other.
TwoSockets == (3 :> "any") @@ (4 :> "a")
TwoSocketsTraffic ==
  {[fd |-> 3, op |-> "other", dst |-> "b"], [fd |-> 4, op |-> "WRQ", dst |-> "broadcast"]}
=============================================================================
