----------------------------- MODULE MCNetAscii ------------------------------
(* Instances of NetAscii. *)
EXTENDS NetAscii, SequencesExt

\* All files of up to six characters; up to four characters in three packets, of which
\* some may be empty.
AllFiles == BoundedSeq(Chars, 6)
AllStreams ==
  LET cuts(n) == {c \in [1..3 -> 0..n] : c[1] <= c[2] /\ c[2] <= c[3] /\ c[3] = n} IN
    UNION {{[sent |-> s, ends |-> c] : c \in cuts(Len(s))} : s \in BoundedSeq(Chars, 4)}
=============================================================================
