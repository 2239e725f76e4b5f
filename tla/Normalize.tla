----------------------------- MODULE Normalize ------------------------------
(***************************************************************************)
(* normalize_path of tftpd/tftpd.c: the file name is rewritten in place by  *)
(* two pointers into one buffer, p that reads and q that writes.            *)
(***************************************************************************)
EXTENDS Integers, Sequences

CONSTANTS
  Slash, Dot, Nul,   \* the characters that the code looks for
  Others,            \* characters of the other kinds
  MaxLen             \* bound: length of a file name

Chars == {Slash, Dot} \cup Others
Names == UNION {[1..n -> Chars] : n \in 0..MaxLen}

ASSUME NormalizeAssumption ==
  Slash # Dot /\ Nul \notin Chars /\ MaxLen \in Nat

VARIABLES
  normalize,   \* dopt.normalize
  name,   \* the name of the request
  buf,    \* the buffer fn, with its terminator
  p,      \* next character to read
  q,      \* next character to write
  npc      \* "root", "copy", "slash" or "done"

normVars == <<normalize, name, buf, p, q, npc>>

NormInit ==
  /\ normalize \in {"none", "root", "path"}
  /\ name \in Names
  /\ buf = Append(name, Nul)
  /\ p = 1 /\ q = 1
  /\ npc = "root"

\* The leading slash; buf[1] is the terminator when the name is empty.
AddRoot ==
  /\ npc = "root"
  /\ buf' = IF normalize # "none" /\ buf[1] # Slash THEN <<Slash>> \o buf ELSE buf
  /\ npc' = IF normalize = "path" THEN "copy" ELSE "done"
  /\ UNCHANGED <<normalize, name, p, q>>

\* Mutant: at the terminator, q is advanced and p is not.
CopyPast ==
  /\ npc = "copy"
  /\ buf' = [buf EXCEPT ![q] = buf[p]]
  /\ q' = q + 1
  /\ IF buf[p] = Nul
     THEN npc' = "done" /\ UNCHANGED p
     ELSE p' = p + 1 /\ npc' = IF buf[p] = Slash THEN "slash" ELSE "copy"
  /\ UNCHANGED <<normalize, name>>

\* One turn of the outer loop.
Copy ==
  /\ npc = "copy"
  /\ buf' = [buf EXCEPT ![q] = buf[p]]
  /\ p' = p + 1
  /\ IF buf[p] = Nul
     THEN npc' = "done" /\ UNCHANGED q
     ELSE q' = q + 1 /\ npc' = IF buf[p] = Slash THEN "slash" ELSE "copy"
  /\ UNCHANGED <<normalize, name>>

Ends(i) == buf[i] \in {Nul, Slash}

\* The first character from p on that is no slash.
AfterSlashes == CHOOSE i \in p..Len(buf) :
                  buf[i] # Slash /\ \A j \in p..(i - 1) : buf[j] = Slash

IsDot(i) == buf[i] = Dot /\ Ends(i + 1)

\* Mutant: the character after the two dots is not looked at.
IsDotDotPrefix(i) == buf[i] = Dot /\ buf[i + 1] = Dot

IsDotDot(i) == buf[i] = Dot /\ buf[i + 1] = Dot /\ Ends(i + 2)

\* q without the last component written and its slash, unless q is at the root.
Dropped ==
  IF q > 2
  THEN CHOOSE j \in 1..(q - 1) :
         (j = 1 \/ buf[j - 1] = Slash) /\ \A k \in (j + 1)..(q - 1) : buf[k - 1] # Slash
  ELSE q

\* One turn of the inner loop, which ends unless it stops at another slash.
SkipComponent ==
  /\ npc = "slash"
  /\ LET i == AfterSlashes IN
       /\ p' = IF IsDot(i) THEN i + 1 ELSE IF IsDotDot(i) THEN i + 2 ELSE i
       /\ q' = IF ~IsDot(i) /\ IsDotDot(i) THEN Dropped ELSE q
       /\ npc' = IF buf[p'] = Slash THEN "slash" ELSE "copy"
  /\ UNCHANGED <<normalize, name, buf>>

NormNext == AddRoot \/ Copy \/ SkipComponent
NormSpec == NormInit /\ [][NormNext]_normVars

-----------------------------------------------------------------------------
\* The type of every variable.
NormTypeOK ==
  /\ normalize \in {"none", "root", "path"}
  /\ npc \in {"root", "copy", "slash", "done"}
  /\ buf \in Seq(Chars \cup {Nul})
  /\ p \in Nat /\ q \in Nat

\* The loop never writes a character before it has read it, and never beyond the
\* buffer: q does not overtake p, and p does not pass the terminator
\* (tftpd/tftpd.c:1831-1857).
InPlace ==
  /\ 1 <= q /\ q <= p
  /\ npc \in {"copy", "slash"} =>
       p <= Len(buf) /\ buf[Len(buf)] = Nul
=============================================================================
