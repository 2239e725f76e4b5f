--------------------------- MODULE NetAsciiProofs ---------------------------
(***************************************************************************)
(* The netascii conversion for every file, every stream of packets, every   *)
(* block size and however much the receiver's file takes: a file comes back *)
(* as it was, and where the packets are cut makes no difference.            *)
(*                                                                          *)
(* The inductive invariant says which character of the file each character  *)
(* of this sender stands for, by counting those that are not the first of a *)
(* pair, and that what has been written is what the characters taken mean,  *)
(* but for a carriage return that is held back.                             *)
(***************************************************************************)
EXTENDS NetAscii, FiniteSetTheorems, TLAPS

\* How many characters of the file the first i characters of a stream complete.
Plain(s, i) == {j \in 1..i : s[j] # CR}
Completed(s, i) == Cardinality(Plain(s, i))

\* The cuts are in order, and the receiver is inside the packet it was given last.
CutsInv ==
  /\ \A i \in 1..Len(ends) : EndOf(i - 1) <= ends[i] /\ ends[i] <= Len(sent)
  /\ EndOf(got) <= Len(sent)
  /\ taken <= EndOf(got)
  /\ eof => EndOf(Len(ends)) = Len(sent)
  /\ PacketLen \in Nat
  /\ Len(out) <= room
  /\ status = "done" => eof

\* What this sender's packets hold: a carriage return is the first of a pair, and
\* the pair tells which character of the file it stands for.
Faithful(f, s, i) ==
  IF s[i] = CR THEN i = 1 \/ s[i - 1] # CR
  ELSE LET c == f[Completed(s, i)] IN
         /\ Completed(s, i) \in 1..Len(f)
         /\ IF i > 1 /\ s[i - 1] = CR
            THEN c \in {CR, LF} /\ s[i] = IF c = LF THEN LF ELSE NUL
            ELSE c \notin {CR, LF} /\ s[i] = c

SenderInv ==
  own => /\ \A i \in 1..Len(sent) : Faithful(file, sent, i)
         /\ newline <=> (Len(sent) > 0 /\ sent[Len(sent)] = CR)
         /\ pos = Completed(sent, Len(sent)) + IF newline THEN 1 ELSE 0
         /\ newline => prevchar = file[pos] /\ prevchar \in {CR, LF}
         /\ PacketLen <= BlockSize
         /\ eof => pos = Len(file) /\ ~newline
         /\ \A i \in 1..Len(ends) :
              IF i = Len(ends) /\ eof THEN ends[i] - EndOf(i - 1) < BlockSize
              ELSE ends[i] - EndOf(i - 1) = BlockSize

CopyInv ==
  own => /\ \A i \in 1..Len(out) : out[i] = file[i]
         /\ Len(out) <= Len(file)
         /\ status = "busy" => Len(out) = Completed(sent, taken)
         /\ status = "done" => Len(out) = Completed(sent, Len(sent))

\* The carriage returns that end at character i.
RunBefore(s, i) ==
  i > 0 /\ s[i] = CR =>
    \E j \in 1..i : (\A k \in j..i : s[k] = CR) /\ (j = 1 \/ s[j - 1] # CR)

Decided == IF write_cr THEN taken - 1 ELSE taken

MeaningInv ==
  /\ RunBefore(sent, taken)
  /\ status = "busy" =>
       /\ write_cr <=> (taken > 0 /\ sent[taken] = CR /\ ~Second(sent, taken))
       /\ Means(out, sent, Decided)
  /\ CutsDoNotMatter

AsciiInv == AsciiTypeOK /\ CutsInv /\ SenderInv /\ CopyInv /\ MeaningInv

-----------------------------------------------------------------------------

\* One more element of a set of indices.
LEMMA CountStep ==
  ASSUME NEW n \in Nat, NEW A, A \subseteq 1..n
  PROVE  /\ IsFiniteSet(A) /\ Cardinality(A) \in Nat
         /\ Cardinality(A \cup {n + 1}) = Cardinality(A) + 1
<1>1. IsFiniteSet(1..n)
  BY FS_Interval
<1>2. IsFiniteSet(A)
  BY <1>1, FS_Subset
<1>3. n + 1 \notin A
  OBVIOUS
<1> QED
  BY <1>2, <1>3, FS_AddElement, FS_CardinalityType

\* Fewer indices, fewer elements.
LEMMA CountMonotone ==
  ASSUME NEW n \in Nat, NEW B, B \subseteq 1..n, NEW A, A \subseteq B
  PROVE  Cardinality(A) <= Cardinality(B)
<1>0. IsFiniteSet(1..n) /\ B \in SUBSET (1..n)
  BY FS_Interval
<1>1. IsFiniteSet(B)
  BY <1>0, FS_Subset, Zenon
<1>2. A \in SUBSET B
  OBVIOUS
<1> QED
  BY <1>1, <1>2, FS_Subset, Zenon

\* Completed counts the characters that are not the first of a pair.
LEMMA CompletedStep ==
  ASSUME NEW s, NEW i \in Nat
  PROVE  /\ Completed(s, 0) = 0
         /\ Completed(s, i) \in Nat
         /\ Completed(s, i + 1) = Completed(s, i) + IF s[i + 1] # CR THEN 1 ELSE 0
<1>1. Plain(s, 0) = {}
  BY DEF Plain
<1>2. Plain(s, i) \subseteq 1..i
  BY DEF Plain
<1>3. Plain(s, i + 1) = IF s[i + 1] # CR THEN Plain(s, i) \cup {i + 1} ELSE Plain(s, i)
  <2>1. 1..(i + 1) = 1..i \cup {i + 1} /\ i + 1 \in 1..(i + 1)
    OBVIOUS
  <2> QED
    BY <2>1, Zenon DEF Plain
<1>4. Completed(s, 0) = 0
  BY <1>1, FS_EmptySet DEF Completed
<1>5. Completed(s, i) \in Nat /\ Cardinality(Plain(s, i) \cup {i + 1}) = Completed(s, i) + 1
  BY <1>2, CountStep DEF Completed
<1> QED
  BY <1>3, <1>4, <1>5 DEF Completed

\* Rank counts the characters that are kept.
LEMMA RankStep ==
  ASSUME NEW s, NEW i \in Nat
  PROVE  /\ Rank(s, 0) = 0
         /\ Rank(s, i) \in Nat
         /\ Rank(s, i + 1) = Rank(s, i) + IF Kept(s, i + 1) THEN 1 ELSE 0
<1> DEFINE K(n) == {j \in 1..n : Kept(s, j)}
<1>0. \A n : Rank(s, n) = Cardinality(K(n))
  BY DEF Rank
<1>1. K(0) = {}
  OBVIOUS
<1>2. K(i) \subseteq 1..i
  OBVIOUS
<1>3. K(i + 1) = IF Kept(s, i + 1) THEN K(i) \cup {i + 1} ELSE K(i)
  <2>1. 1..(i + 1) = 1..i \cup {i + 1} /\ i + 1 \in 1..(i + 1)
    OBVIOUS
  <2> QED
    BY <2>1, Zenon
<1> HIDE DEF K
<1>4. Rank(s, 0) = 0
  BY <1>0, <1>1, FS_EmptySet
<1>5. Rank(s, i) \in Nat /\ Cardinality(K(i) \cup {i + 1}) = Rank(s, i) + 1
  BY <1>0, <1>2, CountStep
<1> QED
  BY <1>0, <1>3, <1>4, <1>5

\* A kept character has its own place among those of a longer beginning.
LEMMA RankMonotone ==
  ASSUME NEW s, NEW n \in Nat, NEW i \in 0..n
  PROVE  Rank(s, i) <= Rank(s, n)
<1> DEFINE K(m) == {j \in 1..m : Kept(s, j)}
<1>1. K(n) \subseteq 1..n /\ K(i) \subseteq K(n)
  OBVIOUS
<1> HIDE DEF K
<1>2. Cardinality(K(i)) <= Cardinality(K(n))
  BY <1>1, CountMonotone
<1> QED
  BY <1>2 DEF Rank, K

\* What is a pair is decided by the characters before it.
LEMMA SecondStable ==
  ASSUME NEW s \in Seq(Chars), NEW c \in Chars, NEW i \in 1..(Len(s) + 1)
  PROVE  Second(Append(s, c), i) <=> Second(s, i)
<1> DEFINE t == Append(s, c)
<1>1. \A k \in 1..Len(s) : t[k] = s[k]
  OBVIOUS
<1> HIDE DEF t
<1>2. ASSUME NEW j \in 1..(i - 1)
      PROVE  /\ (\A k \in j..(i - 1) : t[k] = CR) <=> (\A k \in j..(i - 1) : s[k] = CR)
             /\ (j = 1 \/ t[j - 1] # CR) <=> (j = 1 \/ s[j - 1] # CR)
  <2>1. j..(i - 1) \subseteq 1..Len(s) /\ (j = 1 \/ j - 1 \in 1..Len(s))
    OBVIOUS
  <2> QED
    BY <1>1, <2>1, Zenon
<1>3. Second(t, i) <=> Second(s, i)
  BY <1>2, Zenon DEF Second
<1> QED
  BY <1>3 DEF t

\* Whether a character is kept does not change once the one after it is there, or
\* when it does not begin a pair.
LEMMA KeptStable ==
  ASSUME NEW s \in Seq(Chars), NEW c \in Chars, NEW i \in 1..Len(s),
         i < Len(s) \/ Second(s, i) \/ s[i] # CR
  PROVE  /\ Kept(Append(s, c), i) <=> Kept(s, i)
         /\ Char(Append(s, c), i) = Char(s, i)
<1>1. \A k \in 1..Len(s) : Append(s, c)[k] = s[k]
  OBVIOUS
<1>2. Second(Append(s, c), i) <=> Second(s, i)
  BY SecondStable
<1>3. Len(Append(s, c)) = Len(s) + 1
  OBVIOUS
<1>4. CASE i < Len(s)
  <2>1. i + 1 \in 1..Len(s) /\ i # Len(s) /\ i # Len(s) + 1
    BY <1>4
  <2> QED
    BY <1>1, <1>2, <1>3, <2>1 DEF Kept, Char
<1>5. CASE Second(s, i) \/ s[i] # CR
  BY <1>1, <1>2, <1>5 DEF Kept, Char
<1> QED
  BY <1>4, <1>5

\* The beginnings of a stream rank alike after one more character.
LEMMA RankStable ==
  ASSUME NEW s \in Seq(Chars), NEW c \in Chars, NEW n \in 0..Len(s),
         n < Len(s) \/ n = 0 \/ Second(s, n) \/ s[n] # CR
  PROVE  \A i \in 0..n : Rank(Append(s, c), i) = Rank(s, i)
<1> SUFFICES ASSUME NEW i \in 0..n
             PROVE  Rank(Append(s, c), i) = Rank(s, i)
  OBVIOUS
<1>1. \A j \in 1..i : Kept(Append(s, c), j) <=> Kept(s, j)
  <2> TAKE j \in 1..i
  <2>1. j \in 1..Len(s) /\ (j < Len(s) \/ Second(s, j) \/ s[j] # CR)
    <3>1. j \in 1..Len(s) /\ j <= n /\ n # 0
      OBVIOUS
    <3>2. CASE j < Len(s)
      BY <3>1, <3>2
    <3>3. CASE j = Len(s)
      <4>1. n = j
        BY <3>1, <3>3
      <4> QED
        BY <3>1, <3>3, <4>1
    <3> QED
      BY <3>1, <3>2, <3>3
  <2> QED
    BY <2>1, KeptStable
<1>2. {j \in 1..i : Kept(Append(s, c), j)} = {j \in 1..i : Kept(s, j)}
  BY <1>1, Zenon
<1> QED
  BY <1>2 DEF Rank

\* A carriage return that is not the second of a pair is the first of one.
LEMMA SecondStep ==
  ASSUME NEW s \in Seq(Chars), NEW i \in 1..Len(s), RunBefore(s, i)
  PROVE  Second(s, i + 1) <=> (s[i] = CR /\ ~Second(s, i))
<1>1. CASE s[i] # CR
  <2>1. ~Second(s, i + 1)
    BY <1>1 DEF Second
  <2> QED
    BY <1>1, <2>1
<1>2. CASE s[i] = CR
  <2>1. PICK j \in 1..i : (\A k \in j..i : s[k] = CR) /\ (j = 1 \/ s[j - 1] # CR)
    BY <1>2 DEF RunBefore
  <2>2. Second(s, i + 1) <=> (i + 1 - j) % 2 = 1
    <3>1. ASSUME Second(s, i + 1) PROVE (i + 1 - j) % 2 = 1
      <4>1. PICK m \in 1..i : (\A k \in m..i : s[k] = CR) /\ (m = 1 \/ s[m - 1] # CR)
                              /\ (i + 1 - m) % 2 = 1
        BY <3>1 DEF Second
      <4>2. ~(m < j) /\ ~(j < m)
        BY <2>1, <4>1
      <4> QED
        BY <4>1, <4>2
    <3>2. ASSUME (i + 1 - j) % 2 = 1 PROVE Second(s, i + 1)
      BY <2>1, <3>2 DEF Second
    <3> QED
      BY <3>1, <3>2
  <2>3. Second(s, i) <=> (i - j) % 2 = 1
    <3>1. ASSUME Second(s, i) PROVE (i - j) % 2 = 1
      <4>1. PICK m \in 1..(i - 1) : (\A k \in m..(i - 1) : s[k] = CR) /\ (m = 1 \/ s[m - 1] # CR)
                              /\ (i - m) % 2 = 1
        BY <3>1 DEF Second
      <4>2. ~(m < j) /\ ~(j < m)
        BY <2>1, <4>1
      <4> QED
        BY <4>1, <4>2
    <3>2. ASSUME (i - j) % 2 = 1 PROVE Second(s, i)
      <4>1. i # j
        BY <3>2
      <4> QED
        BY <2>1, <3>2, <4>1 DEF Second
    <3> QED
      BY <3>1, <3>2
  <2>4. (i + 1 - j) % 2 = 1 <=> (i - j) % 2 # 1
    <3>1. i - j \in Nat
      OBVIOUS
    <3> QED
      BY <3>1
  <2> QED
    BY <1>2, <2>2, <2>3, <2>4
<1> QED
  BY <1>1, <1>2

\* A run of carriage returns has a beginning.
LEMMA RunStep ==
  ASSUME NEW s \in Seq(Chars), NEW i \in 0..(Len(s) - 1), RunBefore(s, i)
  PROVE  RunBefore(s, i + 1)
<1> SUFFICES ASSUME s[i + 1] = CR
             PROVE  \E j \in 1..(i + 1) :
                      (\A k \in j..(i + 1) : s[k] = CR) /\ (j = 1 \/ s[j - 1] # CR)
  BY DEF RunBefore
<1>1. CASE i = 0 \/ s[i] # CR
  <2> WITNESS i + 1 \in 1..(i + 1)
  <2> QED
    BY <1>1
<1>2. CASE i > 0 /\ s[i] = CR
  <2>1. PICK j \in 1..i : (\A k \in j..i : s[k] = CR) /\ (j = 1 \/ s[j - 1] # CR)
    BY <1>2 DEF RunBefore
  <2>2. \A k \in j..(i + 1) : s[k] = CR
    BY <2>1
  <2> WITNESS j \in 1..(i + 1)
  <2> QED
    BY <2>1, <2>2
<1> QED
  BY <1>1, <1>2

-----------------------------------------------------------------------------

\* What putc_unlocked leaves of one or two characters.
LEMMA PutsLemma ==
  ASSUME NEW o \in Seq(Chars), NEW x \in Chars, NEW y \in Chars
  PROVE  /\ o \o SubSeq(<<>>, 1, 0) = o
         /\ o \o SubSeq(<<x>>, 1, 0) = o /\ o \o SubSeq(<<x, y>>, 1, 0) = o
         /\ o \o SubSeq(<<x>>, 1, 1) = Append(o, x)
         /\ o \o SubSeq(<<x, y>>, 1, 1) = Append(o, x)
         /\ o \o SubSeq(<<x, y>>, 1, 2) = Append(Append(o, x), y)
<1> DEFINE F == Chars
<1>0. o \in Seq(F) /\ x \in F /\ y \in F
  OBVIOUS
<1> HIDE DEF F
<1>1. SubSeq(<<>>, 1, 0) = <<>> /\ SubSeq(<<x>>, 1, 0) = <<>> /\ SubSeq(<<x, y>>, 1, 0) = <<>>
  BY <1>0
<1>2. SubSeq(<<x>>, 1, 1) = <<x>> /\ SubSeq(<<x, y>>, 1, 1) = <<x>>
  <2>1. \A i \in 1..1 : <<x>>[i] = x /\ <<x, y>>[i] = x
    OBVIOUS
  <2>3. <<x>> = [i \in 1..1 |-> x]
    OBVIOUS
  <2>4. [i \in 1..1 |-> <<x>>[i]] = [i \in 1..1 |-> x] /\ [i \in 1..1 |-> <<x, y>>[i]] = [i \in 1..1 |-> x]
    BY <2>1, Zenon
  <2>2. SubSeq(<<x>>, 1, 1) = [i \in 1..1 |-> <<x>>[i]] /\ SubSeq(<<x, y>>, 1, 1) = [i \in 1..1 |-> <<x, y>>[i]]
    OBVIOUS
  <2> QED
    BY <2>2, <2>3, <2>4, Zenon
<1>3. SubSeq(<<x, y>>, 1, 2) = <<x, y>>
  <2>1. <<x, y>> = [i \in 1..2 |-> <<x, y>>[i]]
    OBVIOUS
  <2>2. SubSeq(<<x, y>>, 1, 2) = [i \in 1..2 |-> <<x, y>>[i]]
    OBVIOUS
  <2> QED
    BY <2>1, <2>2
<1>4. o \o <<>> = o
  BY <1>0
<1>5. o \o <<x>> = Append(o, x)
  BY <1>0
<1>6. o \o <<x, y>> = Append(Append(o, x), y)
  BY <1>0
<1> QED
  BY <1>1, <1>2, <1>3, <1>4, <1>5, <1>6

\* The turns of the loop of netascii_write_packet.
Turn(c) ==
  \/ /\ ~write_cr /\ c = CR /\ status' = "busy"
     /\ write_cr' = TRUE /\ out' = out
  \/ /\ ~write_cr /\ c # CR /\ status' = "busy" /\ Len(out) < room
     /\ write_cr' = FALSE /\ out' = Append(out, c)
  \/ /\ write_cr /\ c \in {LF, NUL} /\ status' = "busy" /\ Len(out) < room
     /\ write_cr' = FALSE /\ out' = Append(out, IF c = NUL THEN CR ELSE c)
  \/ /\ write_cr /\ c \notin {LF, NUL} /\ status' = "busy" /\ Len(out) + 1 < room
     /\ write_cr' = FALSE /\ out' = Append(Append(out, CR), c)
  \/ /\ status' = "error" /\ out' = out /\ write_cr' \in BOOLEAN
  \/ /\ write_cr /\ c \notin {LF, NUL} /\ status' = "error" /\ Len(out) < room
     /\ write_cr' = FALSE /\ out' = Append(out, CR)

LEMMA WriteCharTurn ==
  ASSUME AsciiTypeOK, CutsInv, WriteChar
  PROVE  /\ taken + 1 \in 1..Len(sent) /\ sent[taken + 1] \in Chars
         /\ Turn(sent[taken + 1])
<1> DEFINE c == sent[taken + 1]
<1>1. taken + 1 \in 1..Len(sent) /\ c \in Chars
  <2>1. taken \in Nat /\ sent \in Seq(Chars) /\ EndOf(got) <= Len(sent) /\ taken < EndOf(got)
    BY DEF AsciiTypeOK, CutsInv, WriteChar
  <2>2. EndOf(got) \in Nat
    BY DEF AsciiTypeOK, EndOf
  <2>3. taken + 1 \in 1..Len(sent)
    BY <2>1, <2>2
  <2> QED
    BY <2>1, <2>3
<1>2. CR \in Chars /\ LF \in Chars /\ CR # LF /\ CR # NUL /\ LF # NUL
  BY NetAsciiAssumption, Zenon DEF Chars
<1>3. out \in Seq(Chars) /\ Len(out) \in Nat /\ room \in Nat /\ Len(out) <= room
      /\ write_cr \in BOOLEAN
  BY DEF AsciiTypeOK, CutsInv
<1>4. PutAll(Puts(c)) /\ write_cr' = IF write_cr THEN Len(Puts(c)) = 2 /\ Len(out) = room ELSE c = CR
  BY Zenon DEF WriteChar
<1> HIDE DEF c
<1>5. CASE ~write_cr /\ c = CR
  <2>1. Puts(c) = <<>>
    BY <1>5 DEF Puts
  <2>2. out' = out \o SubSeq(<<>>, 1, 0) /\ status' = "busy"
    BY <1>3, <1>4, <2>1 DEF PutAll
  <2>3. out' = out
    BY <1>1, <1>3, <2>2, PutsLemma
  <2> QED
    BY <1>1, <1>4, <1>5, <2>2, <2>3, Zenon DEF Turn, c
<1>6. ASSUME NEW x \in Chars, Puts(c) = <<x>>
      PROVE  \/ status' = "error" /\ out' = out
             \/ status' = "busy" /\ out' = Append(out, x) /\ Len(out) < room
  <2>1. CASE Len(out) < room
    <3>1. out' = out \o SubSeq(<<x>>, 1, 1) /\ status' = "busy"
      BY <1>3, <1>4, <1>6, <2>1 DEF PutAll
    <3> QED
      BY <1>3, <2>1, <3>1, PutsLemma
  <2>2. CASE Len(out) = room
    <3>1. out' = out \o SubSeq(<<x>>, 1, 0) /\ status' = "error"
      BY <1>3, <1>4, <1>6, <2>2 DEF PutAll
    <3> QED
      BY <1>3, <3>1, PutsLemma
  <2> QED
    BY <1>3, <2>1, <2>2
<1>7. CASE ~write_cr /\ c # CR
  <2>1. Puts(c) = <<c>> /\ write_cr' = FALSE
    BY <1>4, <1>7, Zenon DEF Puts
  <2> QED
    BY <1>1, <1>6, <1>7, <2>1, Zenon DEF Turn, c
<1>8. CASE write_cr /\ c \in {LF, NUL}
  <2>1. Puts(c) = <<IF c = NUL THEN CR ELSE c>>
    BY <1>2, <1>8, Zenon DEF Puts
  <2>2. Len(Puts(c)) = 1
    BY <2>1
  <2>3. write_cr' = FALSE
    <3>1. Len(Puts(c)) # 2
      BY <2>2
    <3> QED
      BY <1>4, <1>8, <3>1, Zenon
  <2>4. (IF c = NUL THEN CR ELSE c) \in Chars
    BY <1>1, <1>2
  <2> QED
    BY <1>1, <1>6, <1>8, <2>1, <2>3, <2>4, Zenon DEF Turn, c
<1>9. CASE write_cr /\ c \notin {LF, NUL}
  <2>1. Puts(c) = <<CR, c>>
    BY <1>9, Zenon DEF Puts
  <2>2. Len(Puts(c)) = 2
    BY <2>1
  <2>3. write_cr' = (Len(out) = room)
    BY <1>4, <1>9, <2>2, Zenon
  <2>4. CASE Len(out) + 1 < room
    <3>1. out' = out \o SubSeq(<<CR, c>>, 1, 2) /\ status' = "busy"
      BY <1>3, <1>4, <2>1, <2>4 DEF PutAll
    <3>2. out' = Append(Append(out, CR), c)
      BY <1>1, <1>2, <1>3, <3>1, PutsLemma
    <3>3. Len(out) # room
      BY <1>3, <2>4
    <3>4. write_cr' = FALSE
      BY <2>3, <3>3, Zenon
    <3> QED
      BY <1>1, <1>9, <2>4, <3>1, <3>2, <3>4, Zenon DEF Turn, c
  <2>5. CASE Len(out) + 1 = room
    <3>1. out' = out \o SubSeq(<<CR, c>>, 1, 1) /\ status' = "error"
      BY <1>3, <1>4, <2>1, <2>5 DEF PutAll
    <3>2. out' = Append(out, CR)
      BY <1>1, <1>2, <1>3, <3>1, PutsLemma
    <3>3. Len(out) # room /\ Len(out) < room
      BY <1>3, <2>5
    <3>4. write_cr' = FALSE
      BY <2>3, <3>3, Zenon
    <3> QED
      BY <1>1, <1>9, <3>1, <3>2, <3>3, <3>4, Zenon DEF Turn, c
  <2>6. CASE Len(out) = room
    <3>1. out' = out \o SubSeq(<<CR, c>>, 1, 0) /\ status' = "error"
      BY <1>3, <1>4, <2>1, <2>6 DEF PutAll
    <3>2. out' = out
      BY <1>1, <1>2, <1>3, <3>1, PutsLemma
    <3>4. write_cr' = TRUE
      BY <2>3, <2>6, Zenon
    <3> QED
      BY <1>1, <3>1, <3>2, <3>4, Zenon DEF Turn, c
  <2> QED
    BY <1>3, <2>4, <2>5, <2>6
<1> QED
  BY <1>3, <1>5, <1>7, <1>8, <1>9, Zenon

-----------------------------------------------------------------------------

\* One more character does not change what those before it complete.
LEMMA CompletedStable ==
  ASSUME NEW s \in Seq(Chars), NEW c \in Chars, NEW i \in 0..Len(s)
  PROVE  Completed(Append(s, c), i) = Completed(s, i)
<1>1. \A j \in 1..i : Append(s, c)[j] = s[j]
  OBVIOUS
<1>2. Plain(Append(s, c), i) = Plain(s, i)
  BY <1>1, Zenon DEF Plain
<1> QED
  BY <1>2 DEF Completed

\* The characters are different, and they are characters.
LEMMA CharFacts ==
  /\ CR \in Chars /\ LF \in Chars /\ NUL \in Chars
  /\ CR # LF /\ CR # NUL /\ LF # NUL
  /\ BlockSize \in Nat /\ BlockSize > 0
<1>1. BlockSize \in Nat /\ BlockSize > 0
  BY NetAsciiAssumption
<1> QED
  BY <1>1, NetAsciiAssumption, Zenon DEF Chars

\* A turn of the loop of netascii_read_packet: the character it puts into the packet.
NextChar == IF newline THEN SecondOfPair ELSE IF file[pos + 1] \in {LF, CR} THEN CR ELSE file[pos + 1]

LEMMA ReadCharTurn ==
  ASSUME AsciiTypeOK, ReadChar
  PROVE  /\ NextChar \in Chars /\ sent' = Append(sent, NextChar)
         /\ own /\ ~eof /\ PacketLen < BlockSize
         /\ UNCHANGED <<file, own, eof, ends, got, taken, out, write_cr, room, status>>
         /\ \/ /\ newline /\ ~newline' /\ pos' = pos /\ prevchar' = prevchar
               /\ NextChar = SecondOfPair
            \/ /\ ~newline /\ newline' /\ pos < Len(file) /\ pos' = pos + 1
               /\ file[pos + 1] \in {LF, CR} /\ prevchar' = file[pos + 1] /\ NextChar = CR
            \/ /\ ~newline /\ ~newline' /\ pos < Len(file) /\ pos' = pos + 1
               /\ file[pos + 1] \notin {LF, CR} /\ prevchar' = prevchar
               /\ NextChar = file[pos + 1]
<1>1. own /\ ~eof /\ PacketLen < BlockSize
      /\ UNCHANGED <<file, own, eof, ends, got, taken, out, write_cr, room, status>>
  BY DEF ReadChar, recvVars
<1>2. newline \in BOOLEAN /\ pos \in 0..Len(file) /\ Len(file) \in Nat /\ file \in Seq(Chars)
  BY DEF AsciiTypeOK
<1>3. CASE newline
  <2>1. sent' = Append(sent, SecondOfPair) /\ newline' = FALSE /\ pos' = pos /\ prevchar' = prevchar
    BY <1>3, Zenon DEF ReadChar
  <2>2. NextChar = SecondOfPair /\ SecondOfPair \in Chars
    BY <1>3, CharFacts, Zenon DEF NextChar, SecondOfPair
  <2> QED
    BY <1>1, <1>3, <2>1, <2>2, Zenon
<1>4. CASE ~newline
  <2>1. pos # Len(file)
    BY <1>4, Zenon DEF ReadChar, AtEOF
  <2>2. pos < Len(file) /\ pos + 1 \in 1..Len(file)
    BY <1>2, <2>1
  <2>3. file[pos + 1] \in Chars
    BY <1>2, <2>2
  <2>4. /\ pos' = pos + 1
        /\ newline' = (file[pos + 1] \in {LF, CR})
        /\ prevchar' = IF file[pos + 1] \in {LF, CR} THEN file[pos + 1] ELSE prevchar
        /\ sent' = Append(sent, IF file[pos + 1] \in {LF, CR} THEN CR ELSE file[pos + 1])
    BY <1>4, Zenon DEF ReadChar
  <2>5. NextChar = IF file[pos + 1] \in {LF, CR} THEN CR ELSE file[pos + 1]
    BY <1>4, Zenon DEF NextChar
  <2>6. NextChar \in Chars
    BY <2>3, <2>5, CharFacts, Zenon
  <2>7. CASE file[pos + 1] \in {LF, CR}
    BY <1>1, <1>4, <2>2, <2>4, <2>5, <2>6, <2>7, Zenon
  <2>8. CASE file[pos + 1] \notin {LF, CR}
    BY <1>1, <1>4, <2>2, <2>4, <2>5, <2>6, <2>8, Zenon
  <2> QED
    BY <2>7, <2>8, Zenon
<1> QED
  BY <1>2, <1>3, <1>4, Zenon

-----------------------------------------------------------------------------

\* The initial states satisfy the invariant.
LEMMA AsciiInitInv == AsciiInit => AsciiInv
<1> SUFFICES ASSUME AsciiInit PROVE AsciiInv
  OBVIOUS
<1>0. \A s : Completed(s, 0) = 0 /\ Rank(s, 0) = 0
  BY CompletedStep, RankStep
<1>1. /\ pos = 0 /\ newline = FALSE /\ prevchar = NUL /\ got = 0 /\ taken = 0
      /\ out = <<>> /\ write_cr = FALSE /\ status = "busy" /\ room \in Nat
  BY NetAsciiAssumption DEF AsciiInit
<1>2. MeaningInv
  <2>1. RunBefore(sent, 0)
    BY DEF RunBefore
  <2>2. Decided = 0
    BY <1>1 DEF Decided
  <2> QED
    BY <1>0, <1>1, <2>1, <2>2 DEF MeaningInv, CutsDoNotMatter, Means
<1>3. CASE own = TRUE /\ file \in Files /\ eof = FALSE /\ sent = <<>> /\ ends = <<>>
  <2>1. AsciiTypeOK
    <3>1. file \in Seq(Chars) /\ Len(file) \in Nat /\ NUL \in Chars
      BY <1>3, NetAsciiAssumption, CharFacts
    <3>2. sent \in Seq(Chars) /\ ends \in Seq(Nat) /\ out \in Seq(Chars)
      BY <1>1, <1>3
    <3>3. pos \in 0..Len(file) /\ got \in 0..Len(ends) /\ taken \in 0..Len(sent)
      BY <1>1, <1>3, <3>1
    <3> QED
      BY <1>1, <1>3, <3>1, <3>2, <3>3, Zenon DEF AsciiTypeOK
  <2>2. CutsInv
    BY <1>1, <1>3 DEF CutsInv, EndOf, PacketLen
  <2>3. SenderInv
    BY <1>0, <1>1, <1>3, CharFacts DEF SenderInv, EndOf, PacketLen
  <2>4. CopyInv
    BY <1>0, <1>1, <1>3, <2>1 DEF CopyInv, AsciiTypeOK
  <2> QED
    BY <1>2, <2>1, <2>2, <2>3, <2>4 DEF AsciiInv
<1>4. CASE own = FALSE /\ file = <<>> /\ eof = TRUE /\ \E s \in Streams : sent = s.sent /\ ends = s.ends
  <2>0. /\ sent \in Seq(Chars) /\ ends \in Seq(Nat) /\ Len(ends) > 0 /\ ends[Len(ends)] = Len(sent)
        /\ \A i, j \in 1..Len(ends) : i <= j => ends[i] <= ends[j]
    BY <1>4, StreamAssumption
  <2>1. AsciiTypeOK
    <3>1. file \in Seq(Chars) /\ out \in Seq(Chars) /\ Len(file) = 0
      BY <1>1, <1>4
    <3>2. NUL \in Chars /\ Len(sent) \in Nat /\ Len(ends) \in Nat
      BY <2>0, CharFacts
    <3>3. pos \in 0..Len(file) /\ got \in 0..Len(ends) /\ taken \in 0..Len(sent)
      BY <1>1, <3>1, <3>2
    <3> QED
      BY <1>1, <1>4, <2>0, <3>1, <3>2, <3>3, Zenon DEF AsciiTypeOK
  <2>2. CutsInv
    <3>1. ASSUME NEW i \in 1..Len(ends)
          PROVE  EndOf(i - 1) <= ends[i] /\ ends[i] <= Len(sent)
      BY <2>0 DEF EndOf
    <3>2. EndOf(Len(ends)) = Len(sent) /\ EndOf(0) = 0 /\ Len(sent) \in Nat
      BY <2>0 DEF EndOf
    <3> QED
      BY <1>1, <1>4, <3>1, <3>2 DEF CutsInv, PacketLen
  <2>3. SenderInv /\ CopyInv
    BY <1>4 DEF SenderInv, CopyInv
  <2> QED
    BY <1>2, <2>1, <2>2, <2>3 DEF AsciiInv
<1> QED
  BY <1>3, <1>4 DEF AsciiInit

\* Every step keeps the types.
LEMMA AsciiTypeStep ==
  ASSUME AsciiInv, AsciiNext
  PROVE  AsciiTypeOK'
<1> USE DEF AsciiInv
<1>1. CASE ReadChar
  <2>0. /\ NextChar \in Chars /\ sent' = Append(sent, NextChar)
        /\ UNCHANGED <<file, own, eof, ends, got, taken, out, write_cr, room, status>>
        /\ newline' \in BOOLEAN /\ pos' \in 0..Len(file) /\ prevchar' \in Chars
    <3>1. /\ prevchar \in Chars /\ pos \in 0..Len(file) /\ file \in Seq(Chars)
      BY DEF AsciiTypeOK
    <3>2. newline' \in BOOLEAN
      <4>1. CASE newline
        BY <1>1, <4>1, Zenon DEF ReadChar
      <4>2. CASE ~newline
        <5>1. newline' = (file[pos + 1] \in {LF, CR})
          BY <1>1, <4>2, Zenon DEF ReadChar
        <5> QED
          BY <5>1
      <4> QED
        BY <4>1, <4>2, Zenon
    <3>3. /\ pos' \in 0..Len(file) /\ prevchar' \in Chars
      BY <1>1, <3>1, ReadCharTurn
    <3> QED
      BY <1>1, <3>2, <3>3, ReadCharTurn, Zenon
  <2>1. sent' \in Seq(Chars) /\ Len(sent') = Len(sent) + 1
    BY <2>0 DEF AsciiTypeOK
  <2>2. taken' \in 0..Len(sent')
    BY <2>0, <2>1 DEF AsciiTypeOK
  <2> QED
    BY <2>0, <2>1, <2>2 DEF AsciiTypeOK
<1>2. CASE ReadReturn
  <2>1. Len(sent) \in Nat
    BY DEF AsciiTypeOK
  <2>2. ends' \in Seq(Nat) /\ Len(ends') = Len(ends) + 1
    BY <1>2, <2>1 DEF AsciiTypeOK, ReadReturn
  <2>3. eof' \in BOOLEAN
    BY <1>2 DEF ReadReturn
  <2> QED
    BY <1>2, <2>2, <2>3 DEF AsciiTypeOK, ReadReturn, recvVars
<1>3. CASE WritePacket
  BY <1>3 DEF AsciiTypeOK, WritePacket, sendVars
<1>4. CASE WriteChar
  <2>1. /\ taken + 1 \in 1..Len(sent) /\ sent[taken + 1] \in Chars
        /\ Turn(sent[taken + 1])
    BY <1>4, WriteCharTurn
  <2>2. status' \in {"busy", "error"} /\ write_cr' \in BOOLEAN
    BY <2>1, Zenon DEF Turn
  <2>3. out' \in Seq(Chars)
    <3> DEFINE c == sent[taken + 1]
    <3>1. /\ c \in Chars /\ out \in Seq(Chars) /\ CR \in Chars
      BY <2>1, CharFacts DEF AsciiTypeOK
    <3>2. \/ out' = out \/ out' = Append(out, c) \/ out' = Append(out, CR)
          \/ out' = Append(Append(out, CR), c)
      BY <2>1, Zenon DEF Turn
    <3> HIDE DEF c
    <3> QED
      BY <3>1, <3>2
  <2> QED
    BY <1>4, <2>1, <2>2, <2>3 DEF AsciiTypeOK, WriteChar, sendVars
<1>5. CASE WriteFinish
  <2>1. out' = out \/ out' = Append(out, CR)
    BY <1>5, Zenon DEF WriteFinish
  <2>2. out' \in Seq(Chars)
    <3>1. out \in Seq(Chars) /\ CR \in Chars
      BY CharFacts DEF AsciiTypeOK
    <3> QED
      BY <2>1, <3>1
  <2>3. write_cr' \in BOOLEAN /\ status' \in {"busy", "done", "error"}
    BY <1>5, Zenon DEF WriteFinish, AsciiTypeOK
  <2> QED
    BY <1>5, <2>2, <2>3 DEF AsciiTypeOK, WriteFinish, sendVars
<1> QED
  BY <1>1, <1>2, <1>3, <1>4, <1>5 DEF AsciiNext

\* Every step keeps the cuts in order.
LEMMA AsciiCutsStep ==
  ASSUME AsciiInv, AsciiNext
  PROVE  CutsInv'
<1>0. /\ sent \in Seq(Chars) /\ ends \in Seq(Nat) /\ out \in Seq(Chars)
      /\ got \in 0..Len(ends) /\ taken \in 0..Len(sent) /\ room \in Nat
      /\ Len(sent) \in Nat /\ Len(ends) \in Nat /\ Len(out) \in Nat
  BY DEF AsciiInv, AsciiTypeOK
<1>1. CASE ReadChar
  <2>1. Len(sent') = Len(sent) + 1 /\ ~eof
        /\ UNCHANGED <<ends, eof, got, taken, out, room, status>>
    BY <1>0, <1>1, ReadCharTurn DEF AsciiInv
  <2>2. \A i : (IF i = 0 THEN 0 ELSE ends'[i]) = EndOf(i)
    BY <2>1 DEF EndOf
  <2>3. EndOf(got)' = EndOf(got) /\ EndOf(Len(ends))' = EndOf(Len(ends)) /\ EndOf(Len(ends)) \in Nat
        /\ EndOf(got) \in Nat
    BY <1>0, <2>1 DEF EndOf
  <2>4. (\A i \in 1..Len(ends) : EndOf(i - 1) <= ends[i] /\ ends[i] <= Len(sent))'
    <3> SUFFICES ASSUME NEW i \in 1..Len(ends)
                 PROVE  EndOf(i - 1) <= ends[i] /\ ends[i] <= Len(sent) + 1
      BY <2>1, <2>2, Zenon DEF EndOf
    <3>1. ends[i] \in Nat /\ EndOf(i - 1) <= ends[i] /\ ends[i] <= Len(sent)
      BY <1>0 DEF AsciiInv, CutsInv
    <3> QED
      BY <1>0, <3>1
  <2>5. PacketLen' \in Nat
    BY <1>0, <2>1, <2>3 DEF AsciiInv, CutsInv, PacketLen
  <2>6. EndOf(got)' <= Len(sent') /\ taken' <= EndOf(got)'
    BY <1>0, <2>1, <2>3 DEF AsciiInv, CutsInv
  <2>7. Len(out') <= room' /\ status' # "done"
    BY <2>1 DEF AsciiInv, CutsInv
  <2> QED
    BY <2>1, <2>4, <2>5, <2>6, <2>7, Zenon DEF CutsInv
<1>2. CASE ReadReturn
  <2>1. /\ ends' = Append(ends, Len(sent)) /\ ~eof
        /\ UNCHANGED <<sent, got, taken, out, room, status>>
    BY <1>2 DEF ReadReturn, recvVars
  <2>2. Len(ends') = Len(ends) + 1 /\ ends'[Len(ends) + 1] = Len(sent)
        /\ \A i \in 1..Len(ends) : ends'[i] = ends[i]
    BY <1>0, <2>1
  <2>3. EndOf(Len(ends)) <= Len(sent)
    BY <1>0 DEF AsciiInv, CutsInv, PacketLen, EndOf
  <2>4. (\A i \in 1..Len(ends) : EndOf(i - 1) <= ends[i] /\ ends[i] <= Len(sent))'
    <3> SUFFICES ASSUME NEW i \in 1..(Len(ends) + 1)
                 PROVE  (IF i - 1 = 0 THEN 0 ELSE ends'[i - 1]) <= ends'[i] /\ ends'[i] <= Len(sent)
      BY <2>1, <2>2 DEF EndOf
    <3>1. CASE i <= Len(ends)
      <4>1. i \in 1..Len(ends) /\ (i - 1 # 0 => i - 1 \in 1..Len(ends))
        BY <1>0, <3>1
      <4>2. EndOf(i - 1) <= ends[i] /\ ends[i] <= Len(sent)
        BY <4>1 DEF AsciiInv, CutsInv
      <4> QED
        BY <2>2, <4>1, <4>2 DEF EndOf
    <3>2. CASE i = Len(ends) + 1
      BY <1>0, <2>2, <2>3, <3>2 DEF EndOf
    <3> QED
      BY <1>0, <3>1, <3>2
  <2>5. EndOf(got)' = EndOf(got) /\ EndOf(Len(ends))' = Len(sent)
    BY <1>0, <2>1, <2>2 DEF EndOf
  <2> QED
    BY <1>0, <2>1, <2>4, <2>5 DEF AsciiInv, CutsInv, PacketLen
<1>3. CASE WritePacket
  <2>1. /\ got' = got + 1 /\ taken = EndOf(got) /\ got < Len(ends)
        /\ UNCHANGED <<sent, ends, eof, taken, out, room, status>>
    BY <1>3 DEF WritePacket, sendVars
  <2> QED
    <3>1. got + 1 \in 1..Len(ends) /\ EndOf(got)' = ends[got + 1]
      BY <1>0, <2>1 DEF EndOf
    <3>2. EndOf(got) <= ends[got + 1] /\ ends[got + 1] <= Len(sent)
      <4>1. (got + 1) - 1 = got
        BY <1>0
      <4> QED
        BY <3>1, <4>1 DEF AsciiInv, CutsInv
    <3>3. EndOf(Len(ends))' = EndOf(Len(ends)) /\ PacketLen' = PacketLen
      BY <2>1 DEF EndOf, PacketLen
    <3>4. \A i \in 1..Len(ends) : EndOf(i - 1)' = EndOf(i - 1)
      BY <2>1 DEF EndOf
    <3> QED
      BY <1>0, <2>1, <3>1, <3>2, <3>3, <3>4 DEF AsciiInv, CutsInv
<1>4. CASE WriteChar
  <2>1. /\ taken' = taken + 1 /\ taken < EndOf(got)
        /\ UNCHANGED <<sent, ends, eof, got, room>>
    BY <1>4 DEF WriteChar, sendVars
  <2>2. Turn(sent[taken + 1]) /\ sent[taken + 1] \in Chars
    BY <1>4, WriteCharTurn DEF AsciiInv
  <2>3. status' # "done"
    BY <2>2 DEF Turn
  <2>4. Len(out') <= room
    <3> DEFINE c == sent[taken + 1]
    <3>1. \/ out' = out
          \/ \E x \in Chars : out' = Append(out, x) /\ Len(out) < room
          \/ out' = Append(Append(out, CR), c) /\ Len(out) + 1 < room
      <4>1. (IF c = NUL THEN CR ELSE c) \in Chars /\ c \in Chars /\ CR \in Chars
        BY <2>2, CharFacts, Zenon
      <4> QED
        BY <2>2, <4>1, Zenon DEF Turn
    <3>2. c \in Chars /\ CR \in Chars
      BY <2>2, CharFacts
    <3> HIDE DEF c
    <3>3. Len(out) <= room
      BY DEF AsciiInv, CutsInv
    <3> QED
      BY <1>0, <3>1, <3>2, <3>3
  <2>5. EndOf(got)' = EndOf(got) /\ EndOf(got) \in Nat
    BY <1>0, <2>1 DEF EndOf
  <2> QED
    BY <1>0, <2>1, <2>3, <2>4, <2>5 DEF AsciiInv, CutsInv, EndOf, PacketLen
<1>5. CASE WriteFinish
  <2>1. UNCHANGED <<sent, ends, eof, got, taken, room>> /\ eof
    BY <1>5 DEF WriteFinish, sendVars
  <2>2. out' = out \/ (out' = Append(out, CR) /\ Len(out) # room)
    BY <1>5, Zenon DEF WriteFinish
  <2>3. Len(out') <= room
    <3>1. CR \in Chars /\ Len(out) <= room
      BY CharFacts DEF AsciiInv, CutsInv
    <3> QED
      BY <1>0, <2>2, <3>1
  <2> QED
    BY <1>0, <2>1, <2>3 DEF AsciiInv, CutsInv, EndOf, PacketLen
<1> QED
  BY <1>1, <1>2, <1>3, <1>4, <1>5 DEF AsciiNext

\* Every step of this sender keeps what its packets say.
LEMMA AsciiSenderStep ==
  ASSUME AsciiInv, AsciiNext
  PROVE  SenderInv'
<1>0. /\ sent \in Seq(Chars) /\ ends \in Seq(Nat) /\ file \in Seq(Chars)
      /\ pos \in 0..Len(file) /\ Len(file) \in Nat
      /\ Len(sent) \in Nat /\ Len(ends) \in Nat
      /\ newline \in BOOLEAN /\ own \in BOOLEAN
  BY DEF AsciiInv, AsciiTypeOK
<1>1. CASE ReadChar
  <2>0. /\ NextChar \in Chars /\ sent' = Append(sent, NextChar)
        /\ own /\ ~eof /\ PacketLen < BlockSize
        /\ UNCHANGED <<file, own, eof, ends>>
    BY <1>1, ReadCharTurn DEF AsciiInv
  <2> DEFINE c == NextChar
             n == Len(sent)
  <2>1. /\ Len(sent') = n + 1 /\ sent'[n + 1] = c /\ \A i \in 1..n : sent'[i] = sent[i]
    BY <1>0, <2>0
  <2>2. \A i \in 0..n : Completed(sent', i) = Completed(sent, i)
    BY <1>0, <2>0, CompletedStable
  <2>3. /\ Completed(sent, n) \in Nat
        /\ Completed(sent', n + 1) = Completed(sent, n) + IF c # CR THEN 1 ELSE 0
    <3>1. Completed(sent, n) \in Nat
      BY <1>0, CompletedStep
    <3>2. Completed(sent', n + 1) = Completed(sent', n) + IF sent'[n + 1] # CR THEN 1 ELSE 0
      BY <1>0, CompletedStep
    <3>3. Completed(sent', n) = Completed(sent, n)
      BY <1>0, <2>2
    <3> QED
      BY <2>1, <3>1, <3>2, <3>3
  <2>4. /\ \A i \in 1..n : Faithful(file, sent, i)
        /\ newline <=> (n > 0 /\ sent[n] = CR)
        /\ pos = Completed(sent, n) + IF newline THEN 1 ELSE 0
        /\ newline => prevchar = file[pos] /\ prevchar \in {CR, LF}
    BY <2>0 DEF AsciiInv, SenderInv
  <2>5. \A i \in 1..n : Faithful(file', sent', i)
    <3> TAKE i \in 1..n
    <3>1. Completed(sent', i) = Completed(sent, i) /\ sent'[i] = sent[i] /\ (i > 1 => sent'[i - 1] = sent[i - 1])
      <4>1. i \in 0..n /\ (i > 1 => i - 1 \in 1..n)
        BY <1>0
      <4> QED
        BY <2>1, <2>2, <4>1
    <3>2. Faithful(file, sent, i)
      BY <2>4
    <3> QED
      BY <2>0, <3>1, <3>2 DEF Faithful
  <2>t. \/ /\ newline /\ ~newline' /\ pos' = pos /\ prevchar' = prevchar
           /\ c = SecondOfPair
        \/ /\ ~newline /\ newline' /\ pos < Len(file) /\ pos' = pos + 1
           /\ file[pos + 1] \in {LF, CR} /\ prevchar' = file[pos + 1] /\ c = CR
        \/ /\ ~newline /\ ~newline' /\ pos < Len(file) /\ pos' = pos + 1
           /\ file[pos + 1] \notin {LF, CR} /\ prevchar' = prevchar
           /\ c = file[pos + 1]
    BY <1>1, ReadCharTurn, Zenon DEF AsciiInv
  <2> HIDE DEF c
  <2>6. /\ Faithful(file', sent', n + 1)
        /\ newline' <=> c = CR
        /\ pos' = Completed(sent', n + 1) + IF newline' THEN 1 ELSE 0
        /\ newline' => prevchar' = file[pos'] /\ prevchar' \in {CR, LF}
    <3>0. n > 0 => sent'[n + 1 - 1] = sent[n]
      BY <1>0, <2>1
    <3>1. CASE newline /\ ~newline' /\ pos' = pos /\ prevchar' = prevchar /\ c = SecondOfPair
      <4>1. c = (IF file[pos] = LF THEN LF ELSE NUL) /\ file[pos] \in {CR, LF} /\ c # CR
        BY <2>4, <3>1, CharFacts, Zenon DEF SecondOfPair
      <4>2. n > 0 /\ sent[n] = CR /\ pos = Completed(sent, n) + 1
        BY <2>4, <3>1
      <4>3. Completed(sent', n + 1) = pos /\ pos \in 1..Len(file)
        BY <1>0, <2>3, <4>1, <4>2
      <4>4. n + 1 > 1 /\ sent'[n + 1 - 1] = CR
        BY <1>0, <3>0, <4>2
      <4>5. Faithful(file', sent', n + 1)
        <5>1. file' = file /\ sent'[n + 1] = c
          BY <2>0, <2>1
        <5> QED
          BY <5>1, <4>1, <4>3, <4>4 DEF Faithful
      <4> QED
        BY <1>0, <3>1, <4>1, <4>3, <4>5
    <3>2. CASE /\ ~newline /\ newline' /\ pos < Len(file) /\ pos' = pos + 1
               /\ file[pos + 1] \in {LF, CR} /\ prevchar' = file[pos + 1] /\ c = CR
      <4>1. ~(n > 0 /\ sent[n] = CR) /\ pos = Completed(sent, n)
        BY <1>0, <2>3, <2>4, <3>2
      <4>2. n + 1 = 1 \/ sent'[n + 1 - 1] # CR
        BY <1>0, <3>0, <4>1
      <4>3. Completed(sent', n + 1) = pos
        BY <1>0, <2>3, <3>2, <4>1
      <4>5. Faithful(file', sent', n + 1)
        <5>1. file' = file /\ sent'[n + 1] = c
          BY <2>0, <2>1
        <5> QED
          BY <5>1, <3>2, <4>2 DEF Faithful
      <4> QED
        BY <1>0, <3>2, <4>3, <4>5
    <3>3. CASE /\ ~newline /\ ~newline' /\ pos < Len(file) /\ pos' = pos + 1
               /\ file[pos + 1] \notin {LF, CR} /\ prevchar' = prevchar
               /\ c = file[pos + 1]
      <4>1. ~(n > 0 /\ sent[n] = CR) /\ pos = Completed(sent, n) /\ c # CR
        BY <1>0, <2>3, <2>4, <3>3
      <4>2. ~(n + 1 > 1 /\ sent'[n + 1 - 1] = CR)
        BY <1>0, <3>0, <4>1
      <4>3. Completed(sent', n + 1) = pos + 1 /\ pos + 1 \in 1..Len(file)
        BY <1>0, <2>3, <3>3, <4>1
      <4>5. Faithful(file', sent', n + 1)
        <5>1. file' = file /\ sent'[n + 1] = c
          BY <2>0, <2>1
        <5> QED
          BY <5>1, <3>3, <4>1, <4>2, <4>3 DEF Faithful
      <4> QED
        BY <1>0, <3>3, <4>1, <4>3, <4>5
    <3> QED
      BY <2>t, <3>1, <3>2, <3>3, Zenon
  <2>7. (\A i \in 1..Len(sent) : Faithful(file, sent, i))'
    <3>1. 1..(n + 1) = 1..n \cup {n + 1}
      BY <1>0
    <3> QED
      BY <2>1, <2>5, <2>6, <3>1, Zenon
  <2>8. PacketLen' <= BlockSize
    <3>1. EndOf(Len(ends)) \in Int /\ EndOf(Len(ends))' = EndOf(Len(ends))
      BY <1>0, <2>0 DEF EndOf
    <3> QED
      BY <1>0, <2>0, <2>1, <3>1, CharFacts DEF PacketLen
  <2>9. (\A i \in 1..Len(ends) :
              IF i = Len(ends) /\ eof THEN ends[i] - EndOf(i - 1) < BlockSize
              ELSE ends[i] - EndOf(i - 1) = BlockSize)'
    BY <2>0, Zenon DEF AsciiInv, SenderInv, EndOf
  <2>10. newline' <=> (Len(sent') > 0 /\ sent'[Len(sent')] = CR)
    BY <1>0, <2>1, <2>6
  <2> QED
    BY <2>0, <2>1, <2>6, <2>7, <2>8, <2>9, <2>10, Zenon DEF SenderInv
<1>2. CASE ReadReturn
  <2>1. /\ own /\ ~eof /\ (PacketLen = BlockSize \/ AtEOF)
        /\ ends' = Append(ends, Len(sent))
        /\ eof' = (PacketLen < BlockSize)
        /\ UNCHANGED <<file, own, pos, newline, prevchar, sent>>
    BY <1>2 DEF ReadReturn
  <2>2. /\ \A i \in 1..Len(sent) : Faithful(file, sent, i)
        /\ newline <=> (Len(sent) > 0 /\ sent[Len(sent)] = CR)
        /\ pos = Completed(sent, Len(sent)) + IF newline THEN 1 ELSE 0
        /\ newline => prevchar = file[pos] /\ prevchar \in {CR, LF}
        /\ PacketLen <= BlockSize
        /\ \A i \in 1..Len(ends) : ends[i] - EndOf(i - 1) = BlockSize
    BY <2>1 DEF AsciiInv, SenderInv
  <2>3. (\A i \in 1..Len(sent) : Faithful(file, sent, i))'
    BY <2>1, <2>2, Zenon DEF Faithful, Completed, Plain
  <2>4. /\ (newline <=> (Len(sent) > 0 /\ sent[Len(sent)] = CR))'
        /\ (pos = Completed(sent, Len(sent)) + IF newline THEN 1 ELSE 0)'
        /\ (newline => prevchar = file[pos] /\ prevchar \in {CR, LF})'
    BY <2>1, <2>2, Zenon DEF Completed, Plain
  <2>5. Len(ends') = Len(ends) + 1 /\ ends'[Len(ends) + 1] = Len(sent)
        /\ \A i \in 1..Len(ends) : ends'[i] = ends[i]
    BY <1>0, <2>1
  <2>6. PacketLen' = 0 /\ PacketLen' <= BlockSize
    BY <1>0, <2>1, <2>5, CharFacts DEF PacketLen, EndOf
  <2>7. PacketLen \in Nat /\ BlockSize \in Nat
    BY CharFacts DEF AsciiInv, CutsInv
  <2>8. eof' => pos' = Len(file') /\ ~newline'
    <3> SUFFICES ASSUME eof' PROVE pos' = Len(file') /\ ~newline'
      OBVIOUS
    <3>1. PacketLen < BlockSize
      BY <2>1, Zenon
    <3>2. PacketLen # BlockSize
      BY <2>7, <3>1
    <3> QED
      BY <2>1, <3>2, Zenon DEF AtEOF
  <2>9. ASSUME NEW i \in 1..(Len(ends) + 1)
        PROVE  IF i = Len(ends) + 1 /\ eof'
               THEN ends'[i] - (IF i - 1 = 0 THEN 0 ELSE ends'[i - 1]) < BlockSize
               ELSE ends'[i] - (IF i - 1 = 0 THEN 0 ELSE ends'[i - 1]) = BlockSize
    <3>1. CASE i \in 1..Len(ends)
      <4>1. ends'[i] = ends[i] /\ (i - 1 # 0 => ends'[i - 1] = ends[i - 1]) /\ i # Len(ends) + 1
        <5>1. (i - 1 # 0 => i - 1 \in 1..Len(ends)) /\ i # Len(ends) + 1
          BY <1>0, <3>1
        <5> QED
          BY <2>5, <3>1, <5>1
      <4>2. ends[i] - (IF i - 1 = 0 THEN 0 ELSE ends[i - 1]) = BlockSize
        BY <2>2, <3>1 DEF EndOf
      <4> QED
        BY <4>1, <4>2
    <3>2. CASE i = Len(ends) + 1
      <4>1. i - 1 # 0 => ends'[i - 1] = ends[i - 1]
        BY <1>0, <2>5, <3>2
      <4>2. PacketLen = Len(sent) - (IF i - 1 = 0 THEN 0 ELSE ends[i - 1])
        BY <1>0, <3>2 DEF PacketLen, EndOf
      <4>3. PacketLen = ends'[i] - (IF i - 1 = 0 THEN 0 ELSE ends'[i - 1])
        BY <2>5, <3>2, <4>1, <4>2
      <4>4. CASE eof'
        <5>1. PacketLen < BlockSize
          BY <2>1, <4>4, Zenon
        <5> QED
          BY <3>2, <4>3, <4>4, <5>1
      <4>5. CASE ~eof'
        <5>1. ~(PacketLen < BlockSize)
          BY <2>1, <4>5, Zenon
        <5>2. PacketLen = BlockSize
          BY <2>2, <2>7, <5>1
        <5> QED
          BY <4>3, <4>5, <5>2
      <4> QED
        BY <4>4, <4>5, Zenon
    <3>3. i \in 1..Len(ends) \/ i = Len(ends) + 1
      BY <1>0
    <3> QED
      BY <3>1, <3>2, <3>3, Zenon
  <2>10. (\A i \in 1..Len(ends) :
              IF i = Len(ends) /\ eof THEN ends[i] - EndOf(i - 1) < BlockSize
              ELSE ends[i] - EndOf(i - 1) = BlockSize)'
    BY <2>5, <2>9, Zenon DEF EndOf
  <2> QED
    BY <2>3, <2>4, <2>6, <2>8, <2>10, Zenon DEF SenderInv
<1>3. CASE WritePacket \/ WriteChar \/ WriteFinish
  <2>1. UNCHANGED sendVars
    BY <1>3, Zenon DEF WritePacket, WriteChar, WriteFinish
  <2> QED
    BY <2>1, Zenon DEF sendVars, AsciiInv, SenderInv, Faithful, Completed, Plain, PacketLen, EndOf
<1> QED
  BY <1>1, <1>2, <1>3 DEF AsciiNext

-----------------------------------------------------------------------------

\* The next character is kept, and put.
LEMMA MeansAppend ==
  ASSUME NEW o \in Seq(Chars), NEW s, NEW n \in Nat, Means(o, s, n), Kept(s, n + 1),
         Char(s, n + 1) \in Chars
  PROVE  Means(Append(o, Char(s, n + 1)), s, n + 1)
<1> DEFINE x == Char(s, n + 1)
           t == Append(o, x)
<1>1. Rank(s, n) \in Nat /\ Rank(s, n + 1) = Rank(s, n) + 1 /\ Len(o) = Rank(s, n)
  BY RankStep DEF Means
<1>2. /\ Len(t) = Len(o) + 1 /\ t[Len(o) + 1] = x /\ \A i \in 1..Len(o) : t[i] = o[i]
  OBVIOUS
<1> HIDE DEF x, t
<1>3. ASSUME NEW i \in 1..n, Kept(s, i)
      PROVE  t[Rank(s, i)] = Char(s, i)
  <2>1. o[Rank(s, i)] = Char(s, i)
    BY <1>3 DEF Means
  <2>2. Rank(s, i) <= Rank(s, n)
    BY RankMonotone
  <2>3. Rank(s, i - 1) \in Nat /\ Rank(s, i - 1 + 1) = Rank(s, i - 1) + 1 /\ i - 1 + 1 = i
    BY <1>3, RankStep
  <2>4. Rank(s, i) \in 1..Len(o)
    BY <1>1, <2>2, <2>3
  <2> QED
    BY <1>2, <2>1, <2>4
<1>4. t[Rank(s, n + 1)] = Char(s, n + 1)
  BY <1>1, <1>2 DEF x
<1>5. 1..(n + 1) = 1..n \cup {n + 1}
  OBVIOUS
<1>6. \A i \in 1..(n + 1) : Kept(s, i) => t[Rank(s, i)] = Char(s, i)
  BY <1>3, <1>4, <1>5, Zenon
<1>7. Len(t) = Rank(s, n + 1)
  BY <1>1, <1>2
<1> QED
  BY <1>6, <1>7 DEF Means, x, t

\* The next character is not kept.
LEMMA MeansSkip ==
  ASSUME NEW o, NEW s, NEW n \in Nat, Means(o, s, n), ~Kept(s, n + 1)
  PROVE  Means(o, s, n + 1)
<1>1. Rank(s, n) \in Nat /\ Rank(s, n + 1) = Rank(s, n)
  BY RankStep
<1>2. 1..(n + 1) = 1..n \cup {n + 1}
  OBVIOUS
<1> QED
  BY <1>1, <1>2, Zenon DEF Means

\* What the characters mean so far does not change with one more of them.
LEMMA MeansStable ==
  ASSUME NEW o, NEW s \in Seq(Chars), NEW c \in Chars, NEW n \in 0..Len(s), Means(o, s, n),
         n < Len(s) \/ n = 0 \/ Second(s, n) \/ s[n] # CR
  PROVE  Means(o, Append(s, c), n)
<1> DEFINE t == Append(s, c)
<1>1. \A i \in 0..n : Rank(t, i) = Rank(s, i)
  BY RankStable
<1>2. ASSUME NEW i \in 1..n
      PROVE  (Kept(t, i) <=> Kept(s, i)) /\ Char(t, i) = Char(s, i)
  <2>1. i \in 1..Len(s) /\ (i < Len(s) \/ i = n) /\ n # 0
    OBVIOUS
  <2>2. i < Len(s) \/ Second(s, i) \/ s[i] # CR
    BY <2>1, Zenon
  <2> QED
    BY <2>1, <2>2, KeptStable
<1>3. 1..n \subseteq 0..n /\ n \in 0..n
  OBVIOUS
<1> HIDE DEF t
<1>4. Means(o, t, n)
  BY <1>1, <1>2, <1>3, Zenon DEF Means
<1> QED
  BY <1>4 DEF t

\* Every step keeps what has been written the meaning of what has been taken.
LEMMA AsciiMeaningStep ==
  ASSUME AsciiInv, AsciiNext
  PROVE  MeaningInv'
<1>0. /\ sent \in Seq(Chars) /\ out \in Seq(Chars) /\ taken \in 0..Len(sent)
      /\ Len(sent) \in Nat /\ write_cr \in BOOLEAN
  BY DEF AsciiInv, AsciiTypeOK
<1>b. /\ RunBefore(sent, taken)
      /\ status = "busy" =>
           /\ write_cr <=> (taken > 0 /\ sent[taken] = CR /\ ~Second(sent, taken))
           /\ Means(out, sent, Decided)
      /\ CutsDoNotMatter
  BY DEF AsciiInv, MeaningInv
<1>1. CASE ReadChar
  <2> DEFINE t == Append(sent, NextChar)
  <2>0. /\ NextChar \in Chars /\ sent' = t /\ ~eof
        /\ UNCHANGED <<taken, out, write_cr, status>>
    BY <1>1, ReadCharTurn DEF AsciiInv
  <2>1. \A i \in 1..Len(sent) : t[i] = sent[i]
    BY <1>0, <2>0
  <2>2. RunBefore(t, taken)
    <3>1. ASSUME taken > 0, t[taken] = CR
          PROVE  \E j \in 1..taken : (\A k \in j..taken : t[k] = CR) /\ (j = 1 \/ t[j - 1] # CR)
      <4>1. sent[taken] = CR
        BY <1>0, <2>1, <3>1
      <4>2. PICK j \in 1..taken : (\A k \in j..taken : sent[k] = CR) /\ (j = 1 \/ sent[j - 1] # CR)
        BY <1>b, <3>1, <4>1 DEF RunBefore
      <4>3. j..taken \subseteq 1..Len(sent) /\ (j = 1 \/ j - 1 \in 1..Len(sent))
        BY <1>0
      <4> QED
        BY <2>1, <4>2, <4>3, Zenon
    <3> QED
      BY <3>1 DEF RunBefore
  <2>3. status # "done"
    BY <2>0 DEF AsciiInv, CutsInv
  <2>4. ASSUME status = "busy"
        PROVE  /\ write_cr <=> (taken > 0 /\ t[taken] = CR /\ ~Second(t, taken))
               /\ Means(out, t, Decided)
    <3>1. taken > 0 => t[taken] = sent[taken] /\ (Second(t, taken) <=> Second(sent, taken))
      <4>1. taken > 0 => taken \in 1..Len(sent) /\ taken \in 1..(Len(sent) + 1)
        BY <1>0
      <4> QED
        BY <1>0, <2>0, <2>1, <4>1, SecondStable
    <3>2. /\ Decided \in 0..Len(sent)
          /\ Decided < Len(sent) \/ Decided = 0 \/ Second(sent, Decided) \/ sent[Decided] # CR
      <4>1. CASE write_cr
        BY <1>0, <1>b, <2>4, <4>1 DEF Decided
      <4>2. CASE ~write_cr
        <5>1. Decided = taken
          BY <4>2 DEF Decided
        <5>2. taken = 0 \/ taken > 0
          BY <1>0
        <5> QED
          BY <1>0, <1>b, <2>4, <4>2, <5>1, <5>2, Zenon
      <4> QED
        BY <4>1, <4>2, Zenon
    <3>3. Means(out, t, Decided)
      BY <1>0, <1>b, <2>0, <2>4, <3>2, MeansStable
    <3> QED
      BY <1>b, <2>4, <3>1, <3>3, Zenon
  <2> HIDE DEF t
  <2>5. Decided' = Decided
    BY <2>0 DEF Decided
  <2> QED
    BY <2>0, <2>2, <2>3, <2>4, <2>5, Zenon DEF MeaningInv, CutsDoNotMatter
<1>2. CASE ReadReturn \/ WritePacket
  <2>1. UNCHANGED <<sent, taken, out, write_cr, status>>
    BY <1>2, Zenon DEF ReadReturn, WritePacket, sendVars, recvVars
  <2> QED
    BY <1>b, <2>1, Zenon DEF MeaningInv, CutsDoNotMatter, Decided
<1>4. CASE WriteChar
  <2> DEFINE c == sent[taken + 1]
             n == taken + 1
  <2>1. /\ n \in 1..Len(sent) /\ c \in Chars /\ Turn(c)
    BY <1>4, WriteCharTurn DEF AsciiInv
  <2>2. taken' = n /\ sent' = sent /\ status = "busy"
    BY <1>4 DEF WriteChar, sendVars
  <2>3. RunBefore(sent, n)
    <3>1. taken \in 0..(Len(sent) - 1)
      BY <1>0, <2>1
    <3> QED
      BY <1>0, <1>b, <3>1, RunStep
  <2>4. Second(sent, n) <=> write_cr
    <3>1. CASE taken = 0
      <4>1. ~Second(sent, n)
        BY <3>1 DEF Second
      <4>2. ~write_cr
        BY <1>b, <2>2, <3>1
      <4> QED
        BY <4>1, <4>2
    <3>2. CASE taken > 0
      <4>1. taken \in 1..Len(sent)
        BY <1>0, <3>2
      <4>2. Second(sent, n) <=> (sent[taken] = CR /\ ~Second(sent, taken))
        BY <1>0, <1>b, <4>1, SecondStep
      <4> QED
        BY <1>b, <2>2, <3>2, <4>2, Zenon
    <3> QED
      BY <1>0, <3>1, <3>2
  <2>5. CASE status' = "error"
    BY <2>2, <2>3, <2>5 DEF MeaningInv, CutsDoNotMatter
  <2>6. CASE status' = "busy"
    <3>0. CR \in Chars /\ CR # LF /\ CR # NUL
      BY CharFacts
    <3>1. n > 0 /\ n - 1 = taken /\ taken \in Nat /\ n \in Nat
      BY <1>0
    <3>2. SUFFICES (write_cr' <=> (sent[n] = CR /\ ~Second(sent, n)))
                   /\ Means(out', sent, IF write_cr' THEN taken ELSE n)
      <4>1. Decided' = IF write_cr' THEN taken ELSE n
        BY <2>2, <3>1 DEF Decided
      <4> QED
        BY <2>2, <2>3, <2>6, <3>1, <4>1 DEF MeaningInv, CutsDoNotMatter
    <3>3. Means(out, sent, Decided)
      BY <1>b, <2>2
    <3>4. CASE ~write_cr /\ c = CR /\ write_cr' = TRUE /\ out' = out
      <4>1. Means(out, sent, taken)
        BY <3>3, <3>4, Zenon DEF Decided
      <4> QED
        BY <2>4, <3>4, <4>1, Zenon
    <3>5. CASE ~write_cr /\ c # CR /\ write_cr' = FALSE /\ out' = Append(out, c)
      <4>1. Means(out, sent, taken)
        BY <3>3, <3>5, Zenon DEF Decided
      <4>2. Kept(sent, n) /\ Char(sent, n) = c
        BY <2>4, <3>5, Zenon DEF Kept, Char
      <4>3. Means(Append(out, Char(sent, n)), sent, n)
        BY <1>0, <2>1, <3>1, <4>1, <4>2, MeansAppend
      <4> QED
        BY <3>5, <4>2, <4>3, Zenon
    <3>6. CASE write_cr
      <4>1. /\ taken > 0 /\ sent[taken] = CR /\ ~Second(sent, taken)
            /\ taken - 1 \in Nat /\ taken - 1 + 1 = taken /\ taken # Len(sent) /\ taken + 1 = n
        BY <1>0, <1>b, <2>1, <2>2, <3>6
      <4>2. Means(out, sent, taken - 1)
        BY <3>3, <3>6, Zenon DEF Decided
      <4>3. Kept(sent, n) /\ Second(sent, n)
        BY <2>4, <3>6, Zenon DEF Kept
      <4>4. CASE c \in {LF, NUL} /\ write_cr' = FALSE /\ out' = Append(out, IF c = NUL THEN CR ELSE c)
        <5>1. ~Kept(sent, taken)
          BY <4>1, <4>4, Zenon DEF Kept
        <5>2. Means(out, sent, taken)
          BY <4>1, <4>2, <5>1, MeansSkip
        <5>3. Char(sent, n) = (IF c = NUL THEN CR ELSE c) /\ Char(sent, n) \in Chars
          BY <2>1, <3>0, <4>3, Zenon DEF Char
        <5>4. Means(Append(out, Char(sent, n)), sent, n)
          BY <1>0, <3>1, <4>3, <5>2, <5>3, MeansAppend
        <5> QED
          BY <4>3, <4>4, <5>3, <5>4, Zenon
      <4>5. CASE c \notin {LF, NUL} /\ write_cr' = FALSE /\ out' = Append(Append(out, CR), c)
        <5>1. Kept(sent, taken)
          BY <4>1, <4>5, Zenon DEF Kept
        <5>2. Char(sent, taken) = CR /\ Char(sent, n) = c
          BY <4>1, <4>5, Zenon DEF Char
        <5>3. Means(Append(out, CR), sent, taken)
          BY <1>0, <3>0, <4>1, <4>2, <5>1, <5>2, MeansAppend
        <5>4. Append(out, CR) \in Seq(Chars)
          BY <1>0, <3>0
        <5>5. Means(Append(Append(out, CR), c), sent, n)
          BY <2>1, <3>1, <4>3, <5>2, <5>3, <5>4, MeansAppend
        <5> QED
          BY <4>3, <4>5, <5>5, Zenon
      <4> QED
        BY <2>1, <2>6, <3>6, <4>4, <4>5, Zenon DEF Turn
    <3> QED
      BY <1>0, <2>1, <2>6, <3>4, <3>5, <3>6, Zenon DEF Turn
  <2> QED
    BY <2>1, <2>5, <2>6, Zenon DEF Turn
<1>5. CASE WriteFinish
  <2>1. taken' = taken /\ sent' = sent /\ status = "busy" /\ status' \in {"done", "error"} /\ taken = Len(sent)
    BY <1>5 DEF WriteFinish, sendVars, AsciiInv, CutsInv
  <2>2. CASE status' = "error"
    BY <1>b, <2>1, <2>2 DEF MeaningInv, CutsDoNotMatter
  <2>3. CASE status' = "done"
    <3>0. out' = IF write_cr THEN Append(out, CR) ELSE out
      BY <1>5, <2>3 DEF WriteFinish
    <3>1. Means(out', sent, taken)
      <4>1. CASE write_cr
        <5>1. /\ taken > 0 /\ sent[taken] = CR /\ taken - 1 \in Nat /\ taken - 1 + 1 = taken
          BY <1>0, <1>b, <2>1, <4>1
        <5>2. Means(out, sent, taken - 1)
          BY <1>b, <2>1, <4>1, Zenon DEF Decided
        <5>3. Kept(sent, taken) /\ Char(sent, taken) = CR /\ CR \in Chars
          BY <2>1, <5>1, CharFacts, Zenon DEF Kept, Char
        <5>4. Means(Append(out, Char(sent, taken)), sent, taken)
          BY <1>0, <5>1, <5>2, <5>3, MeansAppend
        <5> QED
          BY <3>0, <4>1, <5>3, <5>4, Zenon
      <4>2. CASE ~write_cr
        BY <1>b, <2>1, <3>0, <4>2, Zenon DEF Decided
      <4> QED
        BY <4>1, <4>2, Zenon
    <3> QED
      BY <1>b, <2>1, <2>3, <3>1 DEF MeaningInv, CutsDoNotMatter
  <2> QED
    BY <2>1, <2>2, <2>3
<1> QED
  BY <1>1, <1>2, <1>4, <1>5, Zenon DEF AsciiNext

\* What a character of this sender says, by the character before it.
LEMMA FaithfulCases ==
  ASSUME NEW f, NEW s, NEW i \in Nat, Faithful(f, s, i + 1)
  PROVE  /\ s[i + 1] = CR => i = 0 \/ s[i] # CR
         /\ s[i + 1] # CR =>
              LET c == f[Completed(s, i + 1)] IN
                /\ Completed(s, i + 1) \in 1..Len(f)
                /\ IF i > 0 /\ s[i] = CR
                   THEN c \in {CR, LF} /\ s[i + 1] = IF c = LF THEN LF ELSE NUL
                   ELSE s[i + 1] = c
<1> DEFINE k == Completed(s, i + 1)
<1>1. i + 1 - 1 = i /\ (i + 1 > 1 <=> i > 0) /\ (i + 1 = 1 <=> i = 0)
  OBVIOUS
<1>2. IF s[i + 1] = CR THEN i + 1 = 1 \/ s[i + 1 - 1] # CR
      ELSE /\ k \in 1..Len(f)
           /\ IF i + 1 > 1 /\ s[i + 1 - 1] = CR
              THEN f[k] \in {CR, LF} /\ s[i + 1] = IF f[k] = LF THEN LF ELSE NUL
              ELSE f[k] \notin {CR, LF} /\ s[i + 1] = f[k]
  BY DEF Faithful
<1> HIDE DEF k
<1>3. IF s[i + 1] = CR THEN i = 0 \/ s[i] # CR
      ELSE /\ k \in 1..Len(f)
           /\ IF i > 0 /\ s[i] = CR
              THEN f[k] \in {CR, LF} /\ s[i + 1] = IF f[k] = LF THEN LF ELSE NUL
              ELSE f[k] \notin {CR, LF} /\ s[i + 1] = f[k]
  BY <1>1, <1>2
<1> QED
  BY <1>3, Zenon DEF k

\* Every step keeps what has been written a beginning of the file.
LEMMA AsciiCopyStep ==
  ASSUME AsciiInv, AsciiNext
  PROVE  CopyInv'
<1>0. /\ sent \in Seq(Chars) /\ out \in Seq(Chars) /\ file \in Seq(Chars)
      /\ taken \in 0..Len(sent) /\ Len(sent) \in Nat /\ Len(out) \in Nat /\ Len(file) \in Nat
      /\ write_cr \in BOOLEAN /\ own \in BOOLEAN
  BY DEF AsciiInv, AsciiTypeOK
<1> SUFFICES ASSUME own'
             PROVE  /\ (\A i \in 1..Len(out) : out[i] = file[i])'
                    /\ Len(out') <= Len(file')
                    /\ status' = "busy" => Len(out') = Completed(sent', taken')
                    /\ status' = "done" => Len(out') = Completed(sent', Len(sent'))
  BY Zenon DEF CopyInv
<1>o. own /\ own' = own /\ file' = file
  BY DEF AsciiNext, ReadChar, ReadReturn, WritePacket, WriteChar, WriteFinish, sendVars
<1>b. /\ \A i \in 1..Len(out) : out[i] = file[i]
      /\ Len(out) <= Len(file)
      /\ status = "busy" => Len(out) = Completed(sent, taken)
      /\ status = "done" => Len(out) = Completed(sent, Len(sent))
  BY <1>o DEF AsciiInv, CopyInv
<1>s. \A i \in 1..Len(sent) : Faithful(file, sent, i)
  BY <1>o DEF AsciiInv, SenderInv
<1>1. CASE ReadChar
  <2>1. /\ NextChar \in Chars /\ sent' = Append(sent, NextChar) /\ ~eof
        /\ UNCHANGED <<taken, out, status>>
    BY <1>1, ReadCharTurn DEF AsciiInv
  <2>2. status # "done"
    BY <2>1 DEF AsciiInv, CutsInv
  <2>3. Completed(sent', taken) = Completed(sent, taken)
    BY <1>0, <2>1, CompletedStable
  <2> QED
    BY <1>o, <1>b, <2>1, <2>2, <2>3, Zenon
<1>2. CASE ReadReturn \/ WritePacket
  <2>1. UNCHANGED <<sent, taken, out, status>>
    BY <1>2, Zenon DEF ReadReturn, WritePacket, sendVars, recvVars
  <2> QED
    BY <1>o, <1>b, <2>1, Zenon
<1>4. CASE WriteChar
  <2> DEFINE c == sent[taken + 1]
             m == Len(out) + 1
  <2>1. /\ taken + 1 \in 1..Len(sent) /\ c \in Chars /\ Turn(c)
    BY <1>4, WriteCharTurn DEF AsciiInv
  <2>2. taken' = taken + 1 /\ sent' = sent /\ status = "busy"
    BY <1>4 DEF WriteChar, sendVars
  <2>3. write_cr <=> (taken > 0 /\ sent[taken] = CR)
    <3>1. ASSUME taken > 0, sent[taken] = CR
          PROVE  ~Second(sent, taken)
      <4>1. taken = 1 \/ sent[taken - 1] # CR
        BY <1>0, <1>s, <3>1 DEF Faithful
      <4> QED
        BY <1>0, <4>1 DEF Second
    <3>2. write_cr <=> (taken > 0 /\ sent[taken] = CR /\ ~Second(sent, taken))
      BY <2>2 DEF AsciiInv, MeaningInv
    <3> QED
      BY <3>1, <3>2, Zenon
  <2>4. /\ Completed(sent, taken) \in Nat
        /\ Completed(sent, taken + 1) = Completed(sent, taken) + IF c # CR THEN 1 ELSE 0
        /\ Len(out) = Completed(sent, taken)
    <3>1. taken \in Nat /\ Len(out) = Completed(sent, taken)
      BY <1>0, <1>b, <2>2
    <3> QED
      BY <3>1, CompletedStep
  <2>5. c # CR => /\ Completed(sent, taken + 1) = m /\ m \in 1..Len(file)
                  /\ IF write_cr
                     THEN file[m] \in {CR, LF} /\ c = IF file[m] = LF THEN LF ELSE NUL
                     ELSE c = file[m]
    <3> SUFFICES ASSUME c # CR
                 PROVE  /\ Completed(sent, taken + 1) = m /\ m \in 1..Len(file)
                        /\ IF write_cr
                           THEN file[m] \in {CR, LF} /\ c = IF file[m] = LF THEN LF ELSE NUL
                           ELSE c = file[m]
      OBVIOUS
    <3>1. Completed(sent, taken + 1) = m
      BY <2>4
    <3>2. Faithful(file, sent, taken + 1) /\ taken \in Nat
      BY <1>0, <1>s, <2>1
    <3>3. /\ m \in 1..Len(file)
          /\ IF taken > 0 /\ sent[taken] = CR
             THEN file[m] \in {CR, LF} /\ c = IF file[m] = LF THEN LF ELSE NUL
             ELSE c = file[m]
      <4>1. /\ Completed(sent, taken + 1) \in 1..Len(file)
            /\ IF taken > 0 /\ sent[taken] = CR
               THEN /\ file[Completed(sent, taken + 1)] \in {CR, LF}
                    /\ c = IF file[Completed(sent, taken + 1)] = LF THEN LF ELSE NUL
               ELSE c = file[Completed(sent, taken + 1)]
        BY <3>2, FaithfulCases, Zenon
      <4> HIDE DEF m
      <4> QED
        BY <3>1, <4>1, Zenon
    <3> QED
      BY <2>3, <3>1, <3>3, Zenon
  <2>6. c = CR => ~write_cr
    <3>1. Faithful(file, sent, taken + 1) /\ taken \in Nat
      BY <1>0, <1>s, <2>1
    <3>2. c = CR => taken = 0 \/ sent[taken] # CR
      BY <3>1, FaithfulCases, Zenon
    <3>3. ~(taken = 0 /\ taken > 0)
      OBVIOUS
    <3> QED
      BY <2>3, <3>2, <3>3, Zenon
  <2>7. write_cr => c \in {LF, NUL}
    BY <2>5, <2>6, Zenon
  <2>8. \/ out' = out /\ (status' = "error" \/ (status' = "busy" /\ c = CR))
        \/ out' = Append(out, file[m]) /\ c # CR /\ status' = "busy"
    <3>1. CASE ~write_cr
      BY <2>1, <2>5, <3>1, Zenon DEF Turn
    <3>2. CASE write_cr
      <4>1. c \in {LF, NUL} /\ c # CR /\ CR # NUL /\ LF # NUL
        BY <2>6, <2>7, <3>2, CharFacts, Zenon
      <4>2. (IF c = NUL THEN CR ELSE c) = file[m]
        BY <2>5, <3>2, <4>1, Zenon
      <4> QED
        BY <2>1, <3>2, <4>1, <4>2, Zenon DEF Turn
    <3> QED
      BY <3>1, <3>2, Zenon
  <2> HIDE DEF c
  <2>9. CASE out' = out /\ (status' = "error" \/ (status' = "busy" /\ c = CR))
    <3>1. status' # "done" /\ (status' = "busy" => Len(out') = Completed(sent, taken + 1))
      BY <1>0, <2>4, <2>9
    <3> QED
      BY <1>o, <1>b, <2>2, <2>9, <3>1, Zenon
  <2>10. CASE out' = Append(out, file[m]) /\ c # CR /\ status' = "busy"
    <3>1. m \in 1..Len(file) /\ Completed(sent, taken + 1) = m
      BY <2>5, <2>10, Zenon
    <3>2. file[m] \in Chars
      BY <1>0, <3>1
    <3>3. Len(out') = m /\ out'[m] = file[m] /\ \A i \in 1..Len(out) : out'[i] = out[i]
      BY <1>0, <2>10, <3>2
    <3>4. \A i \in 1..m : out'[i] = file[i]
      BY <1>0, <1>b, <3>3
    <3>5. m <= Len(file)
      BY <3>1
    <3> QED
      BY <1>o, <2>2, <2>10, <3>1, <3>3, <3>4, <3>5
  <2> QED
    BY <2>8, <2>9, <2>10, Zenon
<1>5. CASE WriteFinish
  <2>1. /\ taken' = taken /\ sent' = sent /\ status = "busy" /\ taken = Len(sent) /\ eof
        /\ status' # "busy"
    BY <1>5 DEF WriteFinish, sendVars, AsciiInv, CutsInv
  <2>2. ~newline /\ (newline <=> (Len(sent) > 0 /\ sent[Len(sent)] = CR))
    BY <1>o, <2>1 DEF AsciiInv, SenderInv
  <2>3. write_cr <=> (taken > 0 /\ sent[taken] = CR /\ ~Second(sent, taken))
    BY <2>1 DEF AsciiInv, MeaningInv
  <2>4. ~write_cr
    BY <2>1, <2>2, <2>3, Zenon
  <2>5. out' = out
    BY <1>5, <2>4, Zenon DEF WriteFinish
  <2>6. Len(out) = Completed(sent, Len(sent))
    BY <1>b, <2>1
  <2> QED
    BY <1>o, <1>b, <2>1, <2>5, <2>6, Zenon
<1> QED
  BY <1>1, <1>2, <1>4, <1>5, Zenon DEF AsciiNext

\* The invariant says what the two properties say.
LEMMA AsciiInvImplies == AsciiInv => RoundTrip /\ CutsDoNotMatter
<1> SUFFICES ASSUME AsciiInv PROVE RoundTrip /\ CutsDoNotMatter
  OBVIOUS
<1>1. CutsDoNotMatter
  BY DEF AsciiInv, MeaningInv
<1>2. ASSUME own PROVE RoundTrip
  <2>1. /\ \A i \in 1..Len(ends) :
              IF i = Len(ends) /\ eof THEN ends[i] - EndOf(i - 1) < BlockSize
              ELSE ends[i] - EndOf(i - 1) = BlockSize
        /\ eof => pos = Len(file) /\ ~newline
    BY <1>2, Zenon DEF AsciiInv, SenderInv
  <2>2. /\ \A i \in 1..Len(out) : out[i] = file[i]
        /\ Len(out) <= Len(file)
    BY <1>2, Zenon DEF AsciiInv, CopyInv
  <2>3. status = "done" => Len(out) = Len(file)
    <3> SUFFICES ASSUME status = "done" PROVE Len(out) = Len(file)
      OBVIOUS
    <3>1. eof
      BY DEF AsciiInv, CutsInv
    <3>2. Len(out) = Completed(sent, Len(sent)) /\ pos = Completed(sent, Len(sent)) + IF newline THEN 1 ELSE 0
      BY <1>2 DEF AsciiInv, CopyInv, SenderInv
    <3>3. Len(sent) \in Nat /\ Completed(sent, Len(sent)) \in Nat
      <4>1. Len(sent) \in Nat
        BY DEF AsciiInv, AsciiTypeOK
      <4> QED
        BY <4>1, CompletedStep
    <3> QED
      BY <2>1, <3>1, <3>2, <3>3
  <2> QED
    BY <2>1, <2>2, <2>3, Zenon DEF RoundTrip
<1> QED
  BY <1>1, <1>2, Zenon DEF RoundTrip

\* The invariant holds in every reachable state, for every file, every stream, every
\* block size and however much the receiver's file takes.
THEOREM AsciiInvariance == AsciiSpec => []AsciiInv
<1>1. AsciiInv /\ [AsciiNext]_asciiVars => AsciiInv'
  <2> SUFFICES ASSUME AsciiInv, [AsciiNext]_asciiVars PROVE AsciiInv'
    OBVIOUS
  <2>1. CASE AsciiNext
    BY <2>1, AsciiTypeStep, AsciiCutsStep, AsciiSenderStep, AsciiCopyStep, AsciiMeaningStep DEF AsciiInv
  <2>2. CASE UNCHANGED asciiVars
    <3>1. /\ UNCHANGED <<file, own, pos, newline, prevchar, eof, sent, ends>>
          /\ UNCHANGED <<got, taken, out, write_cr, room, status>>
      BY <2>2, Zenon DEF asciiVars, sendVars, recvVars
    <3>2. AsciiTypeOK' /\ CutsInv'
      BY <3>1, Zenon DEF AsciiInv, AsciiTypeOK, CutsInv, EndOf, PacketLen
    <3>3. SenderInv' /\ CopyInv'
      BY <3>1, Zenon DEF AsciiInv, SenderInv, CopyInv, EndOf, PacketLen
    <3>4. MeaningInv'
      BY <3>1, Zenon DEF AsciiInv, MeaningInv, CutsDoNotMatter, Decided
    <3> QED
      BY <3>2, <3>3, <3>4 DEF AsciiInv
  <2> QED
    BY <2>1, <2>2
<1> QED
  BY <1>1, AsciiInitInv, PTL DEF AsciiSpec

\* What netascii_write_packet writes of what netascii_read_packet sends is a beginning
\* of the file, and all of it in the end (common/tftp-io.c:90-199).
THEOREM NetasciiRoundTrip == AsciiSpec => []RoundTrip
BY AsciiInvariance, AsciiInvImplies, PTL

\* Where the packets are cut makes no difference to the file of a receiver that
\* succeeds, whoever sends them (common/tftp-io.c:133-199).
THEOREM NetasciiMeaning == AsciiSpec => []CutsDoNotMatter
BY AsciiInvariance, AsciiInvImplies, PTL
=============================================================================
