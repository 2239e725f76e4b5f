--------------------------- MODULE MCNegotiation ----------------------------
(***************************************************************************)
(* Configurations of the two programs for model checking Negotiation.  The  *)
(* sizes are scaled down: a default block of 4 bytes, at least 2, at most   *)
(* 9; a second of 4 microseconds.                                           *)
(***************************************************************************)
EXTENDS Negotiation, SequencesExt

Server(blksize, window, bytes, refused, mode) ==
  [blksize |-> blksize, max_windowsize |-> window, max_windowbytes |-> bytes,
   refused |-> refused, reject_all_options |-> FALSE, tsize_mode |-> mode,
   fsize |-> 3, max_upload |-> 4]

\* An absolute and an MTU-based limit on the block size, a tight and a wide
\* limit on the window.
SizeConfigs ==
  {Server(b, w, n, {}, "READ") :
     b \in {0, -1, 5, 9}, w \in {1, 3}, n \in {12, 64}}
  \cup {Server(9, 3, 64, {"windowsize"}, "READ"),
        [Server(9, 3, 64, {}, "WRITE") EXCEPT !.reject_all_options = TRUE]}

\* The modes of tsize, and refused options.
OtherConfigs ==
  {Server(9, 3, 64, r, m) :
     r \in {{}, {"tsize"}, {"utimeout"}}, m \in {"READ", "WRITE", "NAK"}}

AllConfigs == SizeConfigs \cup OtherConfigs
RejectConfigs == {[c EXCEPT !.reject_all_options = TRUE] : c \in OtherConfigs}
NoLimitConfigs == {Server(9, 3, 0, {}, "READ")}

ClientSizes ==
  {[no_options |-> n, blksize |-> b, max_windowsize |-> w] :
     n \in BOOLEAN, b \in {0, 3, 9}, w \in {0, 2, 5}}

Sizes == {1, 2, 3, 6, 8, 20, BadValue}
Times == {0, 1, 3, 4, 5, 12, 13, BadValue}

\* Up to two pairs about sizes, or about the rest; a pair may repeat or
\* contradict the one before.
SizeRequests == BoundedSeq({"blksize", "blksize2", "windowsize"} \X Sizes, 2)
OtherRequests ==
  BoundedSeq({"timeout", "utimeout", "tsize", "rollover", "cookie"} \X Times, 2)
AllRequests == SizeRequests \cup OtherRequests

AllReplies ==
  BoundedSeq({"blksize", "windowsize", "tsize", "timeout"} \X Sizes, 2) \ {<<>>}
\* blksize, tsize and blksize again.
TsizeBetween == {<<<<"blksize", 2>>, <<"tsize", 0>>, <<"blksize", 2>>>>}
=============================================================================
