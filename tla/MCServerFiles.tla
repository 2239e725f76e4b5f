--------------------------- MODULE MCServerFiles ----------------------------
(* Instances of ServerFiles: who sends which request.                       *)
EXTENDS ServerFiles

CONSTANTS p1, p2, p3, a, b

\* Every request is another client's.
AllDifferent == [w \in Putters |-> w]

\* p1 and p2 serve the same request, p3 another client's.
Duplicated == [w \in Putters |-> IF w = p3 THEN b ELSE a]
=============================================================================
