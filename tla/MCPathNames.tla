---------------------------- MODULE MCPathNames -----------------------------
(* Instances of PathNames. *)
EXTENDS PathNames

\* The directories /a and /..a.
TwoDirs == {<<<<"a">>>>, <<<<".", ".", "a">>>>}
SomePrefix == <<"/", "a">>
=============================================================================
