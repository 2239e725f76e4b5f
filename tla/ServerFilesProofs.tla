------------------------- MODULE ServerFilesProofs --------------------------
(***************************************************************************)
(* The file locks of the server for every number of workers, clients and    *)
(* blocks: uploads are not mixed, a file that is sent does not change, and   *)
(* only a timeout, a pending unlink or a discard that fails leaves part of   *)
(* an upload under the name.                                                 *)
(*                                                                          *)
(* The inductive invariant says who holds which lock: exactly the workers    *)
(* between lock_file and the close, and one that uploads holds it alone.     *)
(***************************************************************************)
EXTENDS ServerFiles, TLAPS

Positions == {"open", "lock", "check", "receive", "send", "unlink", "end"}
Results == {"none", "ok", "failed", "leftover", "timeout", "refused"}

Locked == {"check", "receive", "send"}
Opened == Locked \cup {"lock", "unlink"}

\* Who has which inode open, and who has locked it.
LockInv ==
  /\ \A w \in Workers : pc[w] \in Opened => ino[w] \in 1..used
  /\ \A w \in Workers : pc[w] \in Locked => w \in locks[ino[w]]
  /\ \A i \in Inodes : \A w \in locks[i] : ino[w] = i /\ pc[w] \in Locked
  /\ \A i \in Inodes : \A w \in locks[i] : w \in Putters => locks[i] = {w}
  /\ \A w \in Putters : pc[w] # "send"
  /\ \A w \in Getters : pc[w] \notin {"receive", "unlink"}
  /\ \A w \in Workers : pc[w] \in {"open", "lock", "check"} => pos[w] = 0
  /\ \A w \in Workers : result[w] \in {"timeout", "leftover"} => pc[w] = "end"

\* No file is longer than an upload, and one that is not allocated is empty.
DataInv ==
  /\ data \in [Inodes -> Seq(Putters \cup {Old, Hole})]
  /\ \A i \in Inodes : Len(data[i]) <= NBlocks /\ (i > used => data[i] = <<>>)

\* The other types.
TypeRest ==
  /\ cancreate \in BOOLEAN
  /\ dir \in 0..used /\ used \in 0..MaxInodes
  /\ locks \in [Inodes -> SUBSET Workers]
  /\ pc \in [Workers -> Positions] /\ result \in [Workers -> Results]
  /\ ino \in [Workers -> 0..used] /\ pos \in [Workers -> 0..NBlocks]
  /\ tsize \in [Workers -> Nat] /\ served \in [Clients -> Putters \cup {Old}]

\* A file that worker w alone has written.
Blocks(w, n) == [b \in 1..n |-> w]

\* What is in a file is worker w's, but for a hole.
OnlyOf(w, file) == \A b \in DOMAIN file : file[b] \in {w, Hole}

\* The file under the name, while nobody receives it.
Explained ==
  \/ data[dir] = <<>>
  \/ \E w \in Putters \cup {Old} : data[dir] = Blocks(w, NBlocks)
  \/ \E w \in Putters : ino[w] = dir /\ LeavesPart(w) /\ OnlyOf(w, data[dir])
LeftoverInv ==
  dir # 0 /\ (\A w \in Putters : pc[w] = "receive" => ino[w] # dir) => Explained

\* The size of a file that a worker is about to send, or sends.
Began == {"receive", "unlink", "end"}
Uploaded(i) == \E p \in Putters : ino[p] = i /\ pc[p] \in Began
SizeInv ==
  \A w \in Getters :
    pc[w] \in Opened => tsize[w] = Len(data[ino[w]]) \/ Uploaded(ino[w])

IInv == TypeOK /\ LockInv /\ DataInv /\ UploadNotMixed /\ LeftoverInv /\ SizeInv

-----------------------------------------------------------------------------

\* A file that one worker has written is a sequence of blocks.
LEMMA Uniform ==
  ASSUME NEW n \in Nat, NEW S, NEW x \in S
  PROVE  [b \in 1..n |-> x] \in Seq(S) /\ Len([b \in 1..n |-> x]) = n
OBVIOUS

\* What the proofs about the locks use of the types.
Shapes ==
  /\ locks \in [Inodes -> SUBSET Workers] /\ ino \in [Workers -> 0..used]
  /\ pc \in [Workers -> Positions] /\ result \in [Workers -> Results]
  /\ pos \in [Workers -> 0..NBlocks] /\ tsize \in [Workers -> Nat]
  /\ used \in Nat /\ dir \in 0..used /\ \A i \in 1..used : i \in Inodes
  /\ \A w \in Putters : w \in Workers /\ w \notin Getters
  /\ \A w \in Getters : w \in Workers /\ w \notin Putters
  /\ \A w \in Workers : w \in Putters \/ w \in Getters

\* They follow from the type invariant.
LEMMA ShapesHold == TypeOK => Shapes
<1> SUFFICES ASSUME TypeOK PROVE Shapes
  OBVIOUS
<1>1. used \in Nat /\ dir \in 0..used /\ \A i \in 1..used : i \in Inodes
  BY FilesAssumption DEF TypeOK, Inodes
<1>2. /\ \A w \in Putters : w \in Workers /\ w \notin Getters
      /\ \A w \in Getters : w \in Workers /\ w \notin Putters
      /\ \A w \in Workers : w \in Putters \/ w \in Getters
  BY FilesAssumption DEF Workers
<1> QED
  BY <1>1, <1>2 DEF TypeOK, Shapes, Positions, Results

\* A worker that has a file locked for an upload shares it with no other.
LEMMA Alone ==
  ASSUME Shapes, LockInv, NEW w \in Putters, NEW v \in Workers,
         pc[w] \in Locked, pc[v] \in Locked, ino[v] = ino[w]
  PROVE  v = w
BY DEF Shapes, LockInv, Opened

\* A worker that has written nothing has an empty file.
LEMMA NoBlocks == \A w : <<>> = [b \in 1..0 |-> w]
OBVIOUS

\* A step that leaves the file under the name, and what is known of it, alone.
Quiet ==
  /\ dir' = dir /\ (dir # 0 => data'[dir] = data[dir])
  /\ \A w \in Putters : LeavesPart(w) => LeavesPart(w)' /\ ino'[w] = ino[w]
  /\ \A w \in Putters : pc[w] = "receive" /\ ino[w] = dir =>
       pc'[w] = "receive" /\ ino'[w] = dir

\* A quiet step keeps the account of what is left under the name.
LEMMA QuietKeeps == ASSUME LeftoverInv, Quiet PROVE LeftoverInv'
<1> SUFFICES ASSUME dir' # 0, \A w \in Putters : pc'[w] = "receive" => ino'[w] # dir'
             PROVE  Explained'
  BY DEF LeftoverInv
<1>1. Explained /\ dir' = dir /\ data'[dir] = data[dir]
  BY DEF LeftoverInv, Quiet
<1>2. \A w \in Putters : LeavesPart(w) => LeavesPart(w)' /\ ino'[w] = ino[w]
  BY DEF Quiet
<1> QED
  BY <1>1, <1>2 DEF Explained

\* A step after which what a worker was told of the size is as true as before.
SizeKept ==
  /\ \A p \in Putters : pc[p] \in Began => pc'[p] \in Began /\ ino'[p] = ino[p]
  /\ \A w \in Getters : pc'[w] \in Opened =>
       /\ pc[w] \in Opened /\ ino'[w] = ino[w] /\ tsize'[w] = tsize[w]
       /\ data'[ino[w]] = data[ino[w]] \/ Uploaded(ino[w])'

\* Such a step keeps the account of the sizes.
LEMMA SizeKeeps == ASSUME SizeInv, SizeKept PROVE SizeInv'
<1> SUFFICES ASSUME NEW w \in Getters, pc'[w] \in Opened
             PROVE  (tsize[w] = Len(data[ino[w]]) \/ Uploaded(ino[w]))'
  BY DEF SizeInv
<1>1. /\ pc[w] \in Opened /\ ino'[w] = ino[w] /\ tsize'[w] = tsize[w]
      /\ data'[ino[w]] = data[ino[w]] \/ Uploaded(ino[w])'
  BY DEF SizeKept
<1>2. Uploaded(ino[w]) => Uploaded(ino[w])'
  BY <1>1 DEF SizeKept, Uploaded
<1> QED
  BY <1>1, <1>2 DEF SizeInv

\* A worker that unlocks its file leaves locks.
LEMMA UnlockedType ==
  ASSUME locks \in [Inodes -> SUBSET Workers], NEW w
  PROVE  Unlocked(w) \in [Inodes -> SUBSET Workers]
BY Zenon DEF Unlocked

\* What Write does to a file that holds what the worker has written.
Appended(w) ==
  /\ pc[w] = "receive" /\ ino[w] \in Inodes /\ ino[w] <= used
  /\ pos[w] + 1 \in 1..NBlocks
  /\ data' = [data EXCEPT ![ino[w]] = [b \in 1..(pos[w] + 1) |-> w]]
  /\ pos' = [pos EXCEPT ![w] = pos[w] + 1]
  /\ UNCHANGED <<cancreate, dir, locks, used, pc, ino, tsize, result>>
  /\ served' \in [Clients -> Putters \cup {Old}]

\* What Validate does, for a WRQ and for an RRQ.
Validated(w) ==
  /\ pc[w] = "check" /\ ino[w] \in Inodes /\ ino[w] <= used /\ w \in locks[ino[w]]
  /\ \/ /\ w \in Putters /\ locks[ino[w]] = {w}
        /\ data' = [data EXCEPT ![ino[w]] = <<>>]
        /\ pc' = [pc EXCEPT ![w] = "receive"]
     \/ w \in Getters /\ data' = data /\ pc' = [pc EXCEPT ![w] = "send"]
  /\ UNCHANGED <<cancreate, dir, locks, used, ino, pos, tsize, served, result>>

\* A write appends the worker's next block to the blocks it has written.
LEMMA WriteAppends ==
  ASSUME IInv, NEW w \in Putters, Write(w)
  PROVE  Appended(w)
<1> USE FilesAssumption
<1>1. pc[w] = "receive" /\ pos[w] \in 0..NBlocks /\ pos[w] < NBlocks /\ pos \in [Workers -> 0..NBlocks]
  BY DEF Write, IInv, TypeOK, Workers
<1>2. ino[w] \in Inodes /\ ino[w] <= used
  BY <1>1 DEF IInv, LockInv, TypeOK, Opened, Locked, Workers, Inodes
<1>3. data[ino[w]] = [b \in 1..pos[w] |-> w] /\ Len(data[ino[w]]) = pos[w]
  <2>1. data[ino[w]] = [b \in 1..pos[w] |-> w]
    BY <1>1 DEF IInv, UploadNotMixed
  <2>2. pos[w] \in Nat
    BY <1>1
  <2> QED
    BY <2>1, <2>2, Uniform
<1>4. [b \in 1..(IF Len(data[ino[w]]) > pos[w] THEN Len(data[ino[w]]) ELSE pos[w] + 1) |->
         IF b = pos[w] + 1 THEN w ELSE data[ino[w]][b]]
      = [b \in 1..(pos[w] + 1) |-> w]
  BY <1>1, <1>3
<1>5. served' \in [Clients -> Putters \cup {Old}]
  BY Zenon DEF Write, IInv, TypeOK
<1>6. data' = [data EXCEPT ![ino[w]] = [b \in 1..(pos[w] + 1) |-> w]]
  BY <1>4, Zenon DEF Write
<1>7. /\ pos' = [pos EXCEPT ![w] = pos[w] + 1]
      /\ UNCHANGED <<cancreate, dir, locks, used, pc, ino, tsize, result>>
  BY DEF Write
<1> QED
  BY <1>1, <1>2, <1>5, <1>6, <1>7 DEF Appended

\* After the checks a WRQ truncates its file and receives, an RRQ sends.
LEMMA ValidateStarts ==
  ASSUME IInv, NEW w \in Workers, Validate(w)
  PROVE  Validated(w)
BY FilesAssumption
   DEF Validate, Validated, Truncated, IInv, LockInv, TypeOK, Opened, Locked, Workers, Inodes

\* What discard_upload does to the file that it has open, whether or not the calls
\* it makes succeed: what remains is part of the worker's own upload.
Discards(w) ==
  /\ pc[w] = "receive" /\ ino[w] \in Inodes /\ ino[w] \in 1..used
  /\ \E file \in Seq(Putters \cup {Old, Hole}) :
       /\ data' = [data EXCEPT ![ino[w]] = file]
       /\ Len(file) <= NBlocks /\ OnlyOf(w, file)
       /\ file = <<>> \/ LeavesPart(w)'
  /\ pc' = [pc EXCEPT ![w] = "end"] \/ pc' = [pc EXCEPT ![w] = "unlink"]
  /\ \A v \in Putters : v # w => result'[v] = result[v]
  /\ UNCHANGED <<dir, used, ino, pos, tsize>>

\* A file of a worker's blocks behind a hole is a file.
LEMMA Holed ==
  ASSUME NEW w \in Putters, NEW n \in Nat, NEW k \in Nat
  PROVE  LET file == [b \in 1..n |-> IF b <= k THEN Hole ELSE w]
         IN  /\ file \in Seq(Putters \cup {Old, Hole})
             /\ Len(file) = n /\ OnlyOf(w, file)
BY DEF OnlyOf

\* The three actions of discard_upload that touch the file are of that shape.
LEMMA DiscardShape ==
  ASSUME IInv, NEW w \in Putters, FailTruncate(w) \/ TruncateFails(w) \/ FailClose(w)
  PROVE  Discards(w)
<1>1. pc[w] = "receive" /\ w \in Workers /\ Shapes /\ LockInv
  BY ShapesHold DEF IInv, FailTruncate, TruncateFails, FailClose, Shapes
<1>2. ino[w] \in Inodes /\ ino[w] \in 1..used /\ pos[w] \in 0..NBlocks /\ NBlocks \in Nat
  BY <1>1, FilesAssumption DEF Shapes, LockInv, Opened, Locked
<1>3. /\ \A v \in Putters : v # w => result'[v] = result[v]
      /\ UNCHANGED <<dir, used, ino, pos, tsize>>
      /\ pc' = [pc EXCEPT ![w] = "end"] \/ pc' = [pc EXCEPT ![w] = "unlink"]
  BY <1>1 DEF FailTruncate, TruncateFails, FailClose, Ends, Shapes
<1>4. \E file \in Seq(Putters \cup {Old, Hole}) :
        /\ data' = [data EXCEPT ![ino[w]] = file]
        /\ Len(file) <= NBlocks /\ OnlyOf(w, file)
        /\ file = <<>> \/ LeavesPart(w)'
  <2>1. CASE FailTruncate(w)
    <3>1. <<>> \in Seq(Putters \cup {Old, Hole}) /\ Len(<<>>) <= NBlocks /\ OnlyOf(w, <<>>)
      BY <1>2 DEF OnlyOf
    <3> QED
      BY <2>1, <3>1 DEF FailTruncate
  <2>2. CASE TruncateFails(w)
    <3>1. PICK n \in 1..pos[w], k \in 0..pos[w] :
            data' = [data EXCEPT ![ino[w]] = [b \in 1..n |-> IF b <= k THEN Hole ELSE w]]
      BY <2>2 DEF TruncateFails
    <3>2. n \in Nat /\ k \in Nat /\ n <= NBlocks
      BY <1>2, <3>1
    <3>3. LeavesPart(w)'
      BY <1>1, <2>2 DEF TruncateFails, Ends, LeavesPart, Shapes
    <3> DEFINE file == [b \in 1..n |-> IF b <= k THEN Hole ELSE w]
    <3>4. file \in Seq(Putters \cup {Old, Hole}) /\ Len(file) = n /\ OnlyOf(w, file)
      BY <3>2, Holed, Zenon
    <3>5. data' = [data EXCEPT ![ino[w]] = file] /\ Len(file) <= NBlocks
      BY <3>1, <3>2, <3>4
    <3> HIDE DEF file
    <3> QED
      BY <3>3, <3>4, <3>5, Zenon
  <2>3. CASE FailClose(w)
    <3>1. PICK n \in 0..pos[w] : data' = [data EXCEPT ![ino[w]] = [b \in 1..n |-> w]]
      BY <2>3 DEF FailClose
    <3>2. n \in Nat /\ n <= NBlocks
      BY <1>2, <3>1
    <3>3. LeavesPart(w)'
      BY <1>1, <2>3 DEF FailClose, LeavesPart, Shapes
    <3> DEFINE file == [b \in 1..n |-> w]
    <3>4. file \in Seq(Putters \cup {Old, Hole}) /\ Len(file) = n
      BY <3>2, Uniform
    <3>5. OnlyOf(w, file) /\ data' = [data EXCEPT ![ino[w]] = file] /\ Len(file) <= NBlocks
      BY <3>1, <3>2, <3>4 DEF OnlyOf
    <3> HIDE DEF file
    <3> QED
      BY <3>3, <3>4, <3>5, Zenon
  <2> QED
    BY <2>1, <2>2, <2>3
<1> QED
  BY <1>1, <1>2, <1>3, <1>4 DEF Discards

\* The workers start without a file.
LEMMA InitInv == Init => IInv
<1> SUFFICES ASSUME Init PROVE IInv
  OBVIOUS
<1> USE FilesAssumption
<1>1. [b \in 1..NBlocks |-> Old] \in Seq(Putters \cup {Old, Hole})
  BY Uniform
<1>2. dir \in {0, 1} /\ used = dir
      /\ data = [i \in Inodes |-> IF i = dir THEN [b \in 1..NBlocks |-> Old] ELSE <<>>]
  BY DEF Init
<1>3. <<>> \in Seq(Putters \cup {Old, Hole})
  OBVIOUS
<1>4. data \in [Inodes -> Seq(Putters \cup {Old, Hole})]
  BY <1>1, <1>2, <1>3
<1>5. TypeOK
  BY <1>2, <1>4 DEF Init, TypeOK, Clients
<1>6. LockInv
  BY DEF Init, LockInv, Opened, Locked, Workers
<1>7. DataInv
  BY <1>2, <1>4, Uniform DEF DataInv, Inodes
<1>8. UploadNotMixed
  BY DEF Init, UploadNotMixed, Workers
<1>9. LeftoverInv
  <2>1. dir # 0 => data[dir] = [b \in 1..NBlocks |-> Old]
    BY <1>2 DEF Inodes
  <2> QED
    BY <2>1, Zenon DEF LeftoverInv, Explained, Blocks
<1>10. SizeInv
  BY DEF Init, SizeInv, Opened, Locked, Workers
<1> QED
  BY <1>5, <1>6, <1>7, <1>8, <1>9, <1>10 DEF IInv

\* Every step keeps the account of who has locked what.
LEMMA LockStep ==
  ASSUME IInv, [Next]_vars
  PROVE  LockInv'
<1> USE DEF Shapes, LockInv, Ends, Unlocked, Compatible, Opened, Locked, fs
<1>0. Shapes /\ LockInv
  BY ShapesHold, FilesAssumption DEF IInv
<1>1. ASSUME NEW w \in Workers, Open(w) PROVE LockInv'
  BY <1>0, <1>1 DEF Open
<1>2. ASSUME NEW w \in Workers, OpenNew(w) PROVE LockInv'
  BY <1>0, <1>2 DEF OpenNew
<1>3. ASSUME NEW w \in Workers, OpenFails(w) PROVE LockInv'
  BY <1>0, <1>3 DEF OpenFails
<1>4. ASSUME NEW w \in Workers, Lock(w) PROVE LockInv'
  BY <1>0, <1>4 DEF Lock
<1>5. ASSUME NEW w \in Workers, LockFails(w) PROVE LockInv'
  BY <1>0, <1>5 DEF LockFails
<1>6. ASSUME NEW w \in Workers, Refuse(w) PROVE LockInv'
  BY <1>0, <1>6 DEF Refuse
<1>7. ASSUME NEW w \in Workers, Validate(w) PROVE LockInv'
  <2>1. Validated(w)
    BY <1>7, ValidateStarts
  <2>2. \E x \in {"receive", "send"} : /\ pc' = [pc EXCEPT ![w] = x]
                                       /\ x = "receive" <=> w \in Putters
    BY <1>0, <2>1 DEF Validated
  <2>3. pc[w] = "check" /\ w \in locks[ino[w]] /\ UNCHANGED <<locks, used, ino, pos, result>>
    BY <2>1 DEF Validated
  <2> QED
    BY <1>0, <2>2, <2>3
<1>8. ASSUME NEW w \in Putters, Write(w) PROVE LockInv'
  BY <1>0, <1>8 DEF Write
<1>9. ASSUME NEW w \in Putters, Commit(w) PROVE LockInv'
  BY <1>0, <1>9 DEF Commit
<1>10. ASSUME NEW w \in Putters, FailTruncate(w) PROVE LockInv'
  BY <1>0, <1>10 DEF FailTruncate
<1>11. ASSUME NEW w \in Putters, TruncateFails(w) PROVE LockInv'
  BY <1>0, <1>11 DEF TruncateFails
<1>12. ASSUME NEW w \in Putters, FailClose(w) PROVE LockInv'
  BY <1>0, <1>12 DEF FailClose
<1>13. ASSUME NEW w \in Putters, Unlink(w) PROVE LockInv'
  BY <1>0, <1>13 DEF Unlink
<1>14. ASSUME NEW w \in Putters, UnlinkFails(w) PROVE LockInv'
  BY <1>0, <1>14 DEF UnlinkFails
<1>15. ASSUME NEW w \in Putters, Timeout(w) PROVE LockInv'
  BY <1>0, <1>15 DEF Timeout
<1>16. ASSUME NEW w \in Getters, Read(w) PROVE LockInv'
  BY <1>0, <1>16 DEF Read
<1>17. ASSUME NEW w \in Getters, EndSend(w) PROVE LockInv'
  BY <1>0, <1>17 DEF EndSend
<1>18. CASE UNCHANGED vars
  BY <1>0, <1>18 DEF vars
<1> QED
  BY <1>1, <1>2, <1>3, <1>4, <1>5, <1>6, <1>7, <1>8, <1>9, <1>10, <1>11, <1>12,
     <1>13, <1>14, <1>15, <1>16, <1>17, <1>18, Zenon DEF Next, AllEnded

\* No step disturbs an upload: the lock on its file is held by one worker.
LEMMA UploadStep ==
  ASSUME IInv, [Next]_vars
  PROVE  UploadNotMixed'
<1> USE DEF Shapes, LockInv, UploadNotMixed, Ends, Opened, Locked, fs
<1>0. Shapes /\ LockInv /\ UploadNotMixed
      /\ data \in [Inodes -> Seq(Putters \cup {Old, Hole})]
  BY ShapesHold, FilesAssumption DEF IInv, TypeOK
<1>1. ASSUME NEW w \in Workers, Open(w) PROVE UploadNotMixed'
  BY <1>0, <1>1 DEF Open
<1>2. ASSUME NEW w \in Workers, OpenNew(w) PROVE UploadNotMixed'
  BY <1>0, <1>2 DEF OpenNew
<1>3. ASSUME NEW w \in Workers, OpenFails(w) PROVE UploadNotMixed'
  BY <1>0, <1>3 DEF OpenFails
<1>4. ASSUME NEW w \in Workers, Lock(w) PROVE UploadNotMixed'
  BY <1>0, <1>4 DEF Lock
<1>5. ASSUME NEW w \in Workers, LockFails(w) PROVE UploadNotMixed'
  BY <1>0, <1>5 DEF LockFails
<1>6. ASSUME NEW w \in Workers, Refuse(w) PROVE UploadNotMixed'
  BY <1>0, <1>6 DEF Refuse
<1>7. ASSUME NEW w \in Workers, Validate(w) PROVE UploadNotMixed'
  <2>1. Validated(w)
    BY <1>7, ValidateStarts
  <2>2. CASE w \in Putters
    <3>1. pos[w] = 0 /\ pc[w] \in Locked /\ ino[w] \in Inodes
      BY <1>0, <2>1, <2>2 DEF Validated
    <3>2. \A v \in Putters : pc'[v] = "receive" /\ v # w => pc[v] = "receive" /\ ino[v] # ino[w]
      BY <1>0, <2>1, <2>2, <3>1, Alone DEF Validated
    <3>3. ino[w] \in DOMAIN data /\ data'[ino[w]] = [b \in 1..pos[w] |-> w]
      BY <1>0, <2>1, <2>2, <3>1, NoBlocks DEF Validated
    <3> QED
      BY <1>0, <2>1, <2>2, <3>1, <3>2, <3>3 DEF Validated
  <2>3. CASE w \in Getters
    <3>1. UNCHANGED <<data, ino, pos>> /\ pc' = [pc EXCEPT ![w] = "send"]
      BY <1>0, <2>1, <2>3 DEF Validated
    <3> QED
      BY <1>0, <3>1
  <2> QED
    BY <1>0, <2>2, <2>3, Zenon
<1>8. ASSUME NEW w \in Putters, Write(w) PROVE UploadNotMixed'
  <2>1. Appended(w)
    BY <1>8, WriteAppends
  <2>2. \A v \in Putters : pc[v] = "receive" /\ v # w => ino[v] # ino[w]
    BY <1>0, <2>1, Alone DEF Appended
  <2>3. /\ pos'[w] = pos[w] + 1 /\ UNCHANGED <<pc, ino>>
        /\ data'[ino[w]] = [b \in 1..(pos[w] + 1) |-> w]
    BY <1>0, <2>1 DEF Appended
  <2>4. \A v \in Putters : pc[v] = "receive" /\ v # w =>
          pos'[v] = pos[v] /\ data'[ino[v]] = data[ino[v]]
    BY <1>0, <2>1, <2>2 DEF Appended
  <2> SUFFICES ASSUME NEW v \in Putters, pc'[v] = "receive"
               PROVE  data'[ino'[v]] = [b \in 1..pos'[v] |-> v]
    OBVIOUS
  <2>5. CASE v = w
    BY <2>3, <2>5, Zenon
  <2>6. CASE v # w
    BY <1>0, <2>3, <2>4, <2>6
  <2> QED
    BY <2>5, <2>6
<1>9. ASSUME NEW w \in Putters, Commit(w) PROVE UploadNotMixed'
  BY <1>0, <1>9 DEF Commit
<1>10. ASSUME NEW w \in Putters, FailTruncate(w) \/ TruncateFails(w) \/ FailClose(w)
       PROVE  UploadNotMixed'
  <2>1. Discards(w)
    BY <1>10, DiscardShape
  <2>2. \A v \in Putters : pc[v] = "receive" /\ v # w => ino[v] # ino[w]
    BY <1>0, <2>1, Alone DEF Discards
  <2>3. PICK file : data' = [data EXCEPT ![ino[w]] = file]
    BY <2>1 DEF Discards
  <2>4. /\ UNCHANGED <<ino, pos>>
        /\ pc' = [pc EXCEPT ![w] = "end"] \/ pc' = [pc EXCEPT ![w] = "unlink"]
    BY <2>1 DEF Discards
  <2> QED
    BY <1>0, <2>2, <2>3, <2>4
<1>11. ASSUME NEW w \in Putters, Unlink(w) PROVE UploadNotMixed'
  BY <1>0, <1>11 DEF Unlink
<1>12. ASSUME NEW w \in Putters, UnlinkFails(w) PROVE UploadNotMixed'
  BY <1>0, <1>12 DEF UnlinkFails
<1>13. ASSUME NEW w \in Putters, Timeout(w) PROVE UploadNotMixed'
  BY <1>0, <1>13 DEF Timeout
<1>14. ASSUME NEW w \in Getters, Read(w) PROVE UploadNotMixed'
  <2>1. UNCHANGED <<data, ino, pc>> /\ \A v \in Putters : pos'[v] = pos[v]
    BY <1>0, <1>14 DEF Read
  <2> QED
    BY <1>0, <2>1
<1>15. ASSUME NEW w \in Getters, EndSend(w) PROVE UploadNotMixed'
  <2>1. UNCHANGED <<data, ino, pos>> /\ pc' = [pc EXCEPT ![w] = "end"]
    BY <1>15 DEF EndSend
  <2> QED
    BY <1>0, <2>1
<1>16. CASE UNCHANGED vars
  BY <1>0, <1>16 DEF vars
<1> QED
  BY <1>1, <1>2, <1>3, <1>4, <1>5, <1>6, <1>7, <1>8, <1>9, <1>10, <1>11, <1>12,
     <1>13, <1>14, <1>15, <1>16, Zenon DEF Next, AllEnded

\* A worker changes only inodes that are allocated.
LEMMA DataStep ==
  ASSUME IInv, [Next]_vars
  PROVE  DataInv'
<1> USE DEF Shapes, LockInv, DataInv, Opened, Locked, fs
<1>0. Shapes /\ LockInv /\ DataInv /\ NBlocks \in Nat /\ MaxInodes \in Nat
  BY ShapesHold, FilesAssumption DEF IInv, TypeOK
<1>1. ASSUME NEW w \in Workers, Open(w) PROVE DataInv'
  BY <1>0, <1>1 DEF Open
<1>2. ASSUME NEW w \in Workers, OpenNew(w) PROVE DataInv'
  <2>1. used' = used + 1 /\ UNCHANGED data
    BY <1>2 DEF OpenNew
  <2>2. \A i \in Inodes : i \in Int /\ (i > used' => i > used)
    BY <1>0, <2>1 DEF Inodes
  <2> QED
    BY <1>0, <2>1, <2>2
<1>3. ASSUME NEW w \in Workers, OpenFails(w) PROVE DataInv'
  BY <1>0, <1>3 DEF OpenFails
<1>4. ASSUME NEW w \in Workers, Lock(w) PROVE DataInv'
  BY <1>0, <1>4 DEF Lock
<1>5. ASSUME NEW w \in Workers, LockFails(w) PROVE DataInv'
  BY <1>0, <1>5 DEF LockFails
<1>6. ASSUME NEW w \in Workers, Refuse(w) PROVE DataInv'
  BY <1>0, <1>6 DEF Refuse
<1>7. ASSUME NEW w \in Workers, Validate(w) PROVE DataInv'
  <2>1. Validated(w)
    BY <1>7, ValidateStarts
  <2>2. <<>> \in Seq(Putters \cup {Old, Hole}) /\ Len(<<>>) = 0
    OBVIOUS
  <2>3. /\ ino[w] \in Inodes /\ UNCHANGED used
        /\ data' = data \/ data' = [data EXCEPT ![ino[w]] = <<>>]
    BY <2>1 DEF Validated
  <2>4. CASE data' = data
    BY <1>0, <2>3, <2>4
  <2>5. CASE data' = [data EXCEPT ![ino[w]] = <<>>]
    BY <1>0, <2>2, <2>3, <2>5
  <2> QED
    BY <2>3, <2>4, <2>5
<1>8. ASSUME NEW w \in Putters, Write(w) PROVE DataInv'
  <2>1. Appended(w)
    BY <1>8, WriteAppends
  <2>2. /\ [b \in 1..(pos[w] + 1) |-> w] \in Seq(Putters \cup {Old, Hole})
        /\ Len([b \in 1..(pos[w] + 1) |-> w]) = pos[w] + 1
    BY <2>1, Uniform DEF Appended
  <2> QED
    BY <1>0, <2>1, <2>2 DEF Appended
<1>9. ASSUME NEW w \in Putters, Commit(w) PROVE DataInv'
  BY <1>0, <1>9 DEF Commit
<1>10. ASSUME NEW w \in Putters, FailTruncate(w) \/ TruncateFails(w) \/ FailClose(w)
       PROVE  DataInv'
  <2>1. Discards(w)
    BY <1>10, DiscardShape
  <2>2. PICK file \in Seq(Putters \cup {Old, Hole}) :
          Len(file) <= NBlocks /\ data' = [data EXCEPT ![ino[w]] = file]
    BY <2>1 DEF Discards
  <2>3. ino[w] \in Inodes /\ ino[w] \in 1..used /\ UNCHANGED used
    BY <2>1 DEF Discards
  <2> QED
    BY <1>0, <2>2, <2>3
<1>11. ASSUME NEW w \in Putters, Unlink(w) PROVE DataInv'
  BY <1>0, <1>11 DEF Unlink
<1>12. ASSUME NEW w \in Putters, UnlinkFails(w) PROVE DataInv'
  BY <1>0, <1>12 DEF UnlinkFails
<1>13. ASSUME NEW w \in Putters, Timeout(w) PROVE DataInv'
  BY <1>0, <1>13 DEF Timeout
<1>14. ASSUME NEW w \in Getters, Read(w) PROVE DataInv'
  BY <1>0, <1>14 DEF Read
<1>15. ASSUME NEW w \in Getters, EndSend(w) PROVE DataInv'
  BY <1>0, <1>15 DEF EndSend
<1>16. CASE UNCHANGED vars
  BY <1>0, <1>16 DEF vars
<1> QED
  BY <1>1, <1>2, <1>3, <1>4, <1>5, <1>6, <1>7, <1>8, <1>9, <1>10, <1>11, <1>12,
     <1>13, <1>14, <1>15, <1>16, Zenon DEF Next, AllEnded

\* Every step keeps the types.
LEMMA TypeStep ==
  ASSUME IInv, [Next]_vars
  PROVE  TypeRest'
<1> USE DEF TypeRest, Ends, Positions, Results, fs
<1>0. TypeRest /\ Shapes /\ NBlocks \in Nat /\ MaxInodes \in Nat
  BY ShapesHold, FilesAssumption DEF IInv, TypeOK, TypeRest,
     Positions, Results
<1>1. ASSUME NEW w \in Workers, Open(w) PROVE TypeRest'
  BY <1>0, <1>1 DEF Open
<1>2. ASSUME NEW w \in Workers, OpenNew(w) PROVE TypeRest'
  BY <1>0, <1>2 DEF OpenNew
<1>3. ASSUME NEW w \in Workers, OpenFails(w) PROVE TypeRest'
  BY <1>0, <1>3 DEF OpenFails
<1>4. ASSUME NEW w \in Workers, Lock(w) PROVE TypeRest'
  BY <1>0, <1>4, Zenon DEF Lock
<1>5. ASSUME NEW w \in Workers, LockFails(w) PROVE TypeRest'
  BY <1>0, <1>5 DEF LockFails
<1>6. ASSUME NEW w \in Workers, Refuse(w) PROVE TypeRest'
  <2>1. locks' \in [Inodes -> SUBSET Workers]
    BY <1>0, <1>6, UnlockedType DEF Refuse
  <2> QED
    BY <1>0, <1>6, <2>1, Zenon DEF Refuse
<1>7. ASSUME NEW w \in Workers, Validate(w) PROVE TypeRest'
  <2>1. Validated(w)
    BY <1>7, ValidateStarts
  <2>2. \E x \in Positions : pc' = [pc EXCEPT ![w] = x]
    BY <2>1 DEF Validated
  <2>3. UNCHANGED <<cancreate, dir, locks, used, ino, pos, tsize, served, result>>
    BY <2>1 DEF Validated
  <2> QED
    BY <1>0, <2>2, <2>3
<1>8. ASSUME NEW w \in Putters, Write(w) PROVE TypeRest'
  <2>1. /\ pos' = [pos EXCEPT ![w] = pos[w] + 1] /\ pos[w] + 1 \in 1..NBlocks
        /\ UNCHANGED <<cancreate, dir, locks, used, pc, ino, tsize, result>>
        /\ served' \in [Clients -> Putters \cup {Old}]
    BY <1>8, WriteAppends, Zenon DEF Appended
  <2>2. pos \in [Workers -> 0..NBlocks] /\ pos[w] + 1 \in 0..NBlocks
    BY <1>0, <2>1
  <2>3. pos' \in [Workers -> 0..NBlocks]
    BY <2>1, <2>2, Zenon
  <2> QED
    BY <1>0, <2>1, <2>3
<1>9. ASSUME NEW w \in Putters, Commit(w) PROVE TypeRest'
  <2>1. locks' \in [Inodes -> SUBSET Workers]
    BY <1>0, <1>9, UnlockedType DEF Commit
  <2> QED
    BY <1>0, <1>9, <2>1, Zenon DEF Commit
<1>10. ASSUME NEW w \in Putters, FailTruncate(w) PROVE TypeRest'
  <2>1. locks' \in [Inodes -> SUBSET Workers]
    BY <1>0, <1>10, UnlockedType DEF FailTruncate
  <2> QED
    BY <1>0, <1>10, <2>1, Zenon DEF FailTruncate
<1>11. ASSUME NEW w \in Putters, TruncateFails(w) PROVE TypeRest'
  <2>1. locks' \in [Inodes -> SUBSET Workers]
    BY <1>0, <1>11, UnlockedType DEF TruncateFails
  <2> QED
    BY <1>0, <1>11, <2>1, Zenon DEF TruncateFails
<1>12. ASSUME NEW w \in Putters, FailClose(w) PROVE TypeRest'
  <2>1. locks' \in [Inodes -> SUBSET Workers]
    BY <1>0, <1>12, UnlockedType DEF FailClose
  <2> QED
    BY <1>0, <1>12, <2>1, Zenon DEF FailClose
<1>13. ASSUME NEW w \in Putters, Unlink(w) PROVE TypeRest'
  <2>1. dir' = 0 /\ UNCHANGED used /\ 0 \in 0..used
    BY <1>0, <1>13 DEF Unlink
  <2> QED
    BY <1>0, <1>13, <2>1, Zenon DEF Unlink
<1>14. ASSUME NEW w \in Putters, UnlinkFails(w) PROVE TypeRest'
  BY <1>0, <1>14 DEF UnlinkFails
<1>15. ASSUME NEW w \in Putters, Timeout(w) PROVE TypeRest'
  <2>1. locks' \in [Inodes -> SUBSET Workers]
    BY <1>0, <1>15, UnlockedType DEF Timeout
  <2> QED
    BY <1>0, <1>15, <2>1, Zenon DEF Timeout
<1>16. ASSUME NEW w \in Getters, Read(w) PROVE TypeRest'
  <2>1. pos[w] + 1 \in 0..NBlocks
    <3>1. pc[w] = "send" /\ pos[w] < Len(data[ino[w]]) /\ w \in Workers
      BY <1>0, <1>16 DEF Read, Shapes
    <3>2. ino[w] \in Inodes
      BY <3>1, ShapesHold DEF IInv, LockInv, Shapes, Opened, Locked
    <3>3. Len(data[ino[w]]) \in Nat /\ Len(data[ino[w]]) <= NBlocks
      BY <3>2 DEF IInv, DataInv
    <3> QED
      BY <1>0, <3>1, <3>3
  <2> QED
    BY <1>0, <1>16, <2>1, Zenon DEF Read
<1>17. ASSUME NEW w \in Getters, EndSend(w) PROVE TypeRest'
  <2>1. locks' \in [Inodes -> SUBSET Workers]
    BY <1>0, <1>17, UnlockedType DEF EndSend
  <2>2. PICK how \in {"ok", "failed"} : Ends(w, how)
    BY <1>17, Zenon DEF EndSend
  <2>3. UNCHANGED <<cancreate, dir, used, ino, pos, tsize, served>>
    BY <1>17 DEF EndSend
  <2> QED
    BY <1>0, <2>1, <2>2, <2>3, Zenon
<1>18. CASE UNCHANGED vars
  BY <1>0, <1>18 DEF vars
<1> QED
  BY <1>1, <1>2, <1>3, <1>4, <1>5, <1>6, <1>7, <1>8, <1>9, <1>10, <1>11, <1>12,
     <1>13, <1>14, <1>15, <1>16, <1>17, <1>18, Zenon DEF Next, AllEnded

\* Part of an upload is left only by a timeout or before an unlink.
LEMMA LeftoverStep ==
  ASSUME IInv, [Next]_vars
  PROVE  LeftoverInv'
<1> USE DEF Shapes, LockInv, Ends, Opened, Locked, fs
<1>0. Shapes /\ LockInv /\ DataInv /\ UploadNotMixed /\ LeftoverInv
      /\ MaxInodes \in Nat
  BY ShapesHold, FilesAssumption DEF IInv
<1>1. ASSUME NEW w \in Workers, Open(w) PROVE LeftoverInv'
  <2>1. Quiet
    BY <1>0, <1>1 DEF Open, Quiet, LeavesPart
  <2> QED
    BY <1>0, <2>1, QuietKeeps
<1>2. ASSUME NEW w \in Workers, OpenNew(w) PROVE LeftoverInv'
  <2>1. used' \in Inodes /\ used' > used /\ dir' = used' /\ UNCHANGED data
    BY <1>0, <1>2 DEF OpenNew, Inodes
  <2> QED
    BY <1>0, <2>1 DEF DataInv, LeftoverInv, Explained
<1>3. ASSUME NEW w \in Workers, OpenFails(w) PROVE LeftoverInv'
  <2>1. Quiet
    BY <1>0, <1>3 DEF OpenFails, Quiet, LeavesPart
  <2> QED
    BY <1>0, <2>1, QuietKeeps
<1>4. ASSUME NEW w \in Workers, Lock(w) PROVE LeftoverInv'
  <2>1. Quiet
    BY <1>0, <1>4 DEF Lock, Quiet, LeavesPart
  <2> QED
    BY <1>0, <2>1, QuietKeeps
<1>5. ASSUME NEW w \in Workers, LockFails(w) PROVE LeftoverInv'
  <2>1. Quiet
    BY <1>0, <1>5 DEF LockFails, Quiet, LeavesPart
  <2> QED
    BY <1>0, <2>1, QuietKeeps
<1>6. ASSUME NEW w \in Workers, Refuse(w) PROVE LeftoverInv'
  <2>1. Quiet
    BY <1>0, <1>6 DEF Refuse, Quiet, LeavesPart
  <2> QED
    BY <1>0, <2>1, QuietKeeps
<1>7. ASSUME NEW w \in Workers, Validate(w) PROVE LeftoverInv'
  <2>1. Validated(w)
    BY <1>7, ValidateStarts
  <2>2. CASE w \in Putters /\ ino[w] = dir
    BY <1>0, <2>1, <2>2 DEF Validated, LeftoverInv
  <2>3. CASE w \in Putters /\ ino[w] # dir
    <3>1. Quiet
      BY <1>0, <2>1, <2>3 DEF Validated, Quiet, LeavesPart, DataInv
    <3> QED
      BY <1>0, <3>1, QuietKeeps
  <2>4. CASE w \in Getters
    <3>1. Quiet
      BY <1>0, <2>1, <2>4 DEF Validated, Quiet, LeavesPart
    <3> QED
      BY <1>0, <3>1, QuietKeeps
  <2> QED
    BY <1>0, <2>2, <2>3, <2>4
<1>8. ASSUME NEW w \in Putters, Write(w) PROVE LeftoverInv'
  <2>1. Appended(w)
    BY <1>8, WriteAppends
  <2>2. CASE ino[w] = dir
    BY <1>0, <2>1, <2>2 DEF Appended, LeftoverInv
  <2>3. CASE ino[w] # dir
    <3>1. Quiet
      BY <1>0, <2>1, <2>3 DEF Appended, Quiet, LeavesPart
    <3> QED
      BY <1>0, <3>1, QuietKeeps
  <2> QED
    BY <2>2, <2>3
<1>9. ASSUME NEW w \in Putters, Commit(w) PROVE LeftoverInv'
  <2>1. CASE ino[w] = dir
    <3>1. data[ino[w]] = Blocks(w, pos[w]) /\ pos[w] = NBlocks /\ UNCHANGED <<dir, data>>
      BY <1>0, <1>9 DEF Commit, UploadNotMixed, Blocks
    <3> QED
      BY <2>1, <3>1 DEF LeftoverInv, Explained
  <2>2. CASE ino[w] # dir
    <3>1. Quiet
      BY <1>0, <1>9, <2>2 DEF Commit, Quiet, LeavesPart
    <3> QED
      BY <1>0, <3>1, QuietKeeps
  <2> QED
    BY <2>1, <2>2
<1>10. ASSUME NEW w \in Putters, FailTruncate(w) \/ TruncateFails(w) \/ FailClose(w)
       PROVE  LeftoverInv'
  <2>1. Discards(w)
    BY <1>10, DiscardShape
  <2>2. PICK file : /\ data' = [data EXCEPT ![ino[w]] = file]
                    /\ OnlyOf(w, file) /\ (file = <<>> \/ LeavesPart(w)')
    BY <2>1 DEF Discards
  <2>3. CASE ino[w] = dir
    <3>1. data'[dir'] = file /\ ino'[w] = dir'
      BY <1>0, <2>1, <2>2, <2>3 DEF Discards, DataInv
    <3> QED
      BY <2>2, <3>1 DEF LeftoverInv, Explained
  <2>4. CASE ino[w] # dir
    <3>1. Quiet
      BY <1>0, <2>1, <2>2, <2>4 DEF Discards, Quiet, LeavesPart
    <3> QED
      BY <1>0, <3>1, QuietKeeps
  <2> QED
    BY <2>3, <2>4
<1>11. ASSUME NEW w \in Putters, Unlink(w) PROVE LeftoverInv'
  BY <1>11 DEF Unlink, LeftoverInv
<1>12. ASSUME NEW w \in Putters, UnlinkFails(w) PROVE LeftoverInv'
  <2>1. Quiet
    BY <1>0, <1>12 DEF UnlinkFails, Quiet, LeavesPart
  <2> QED
    BY <1>0, <2>1, QuietKeeps
<1>13. ASSUME NEW w \in Putters, Timeout(w) PROVE LeftoverInv'
  <2>1. CASE ino[w] = dir
    <3>1. /\ data[ino[w]] = Blocks(w, pos[w]) /\ LeavesPart(w)'
          /\ UNCHANGED <<dir, data, ino, pos>>
      BY <1>0, <1>13 DEF Timeout, UploadNotMixed, Blocks, LeavesPart
    <3>2. OnlyOf(w, data[ino[w]])
      BY <3>1 DEF OnlyOf, Blocks
    <3> QED
      BY <2>1, <3>1, <3>2 DEF LeftoverInv, Explained
  <2>2. CASE ino[w] # dir
    <3>1. Quiet
      BY <1>0, <1>13, <2>2 DEF Timeout, Quiet, LeavesPart
    <3> QED
      BY <1>0, <3>1, QuietKeeps
  <2> QED
    BY <2>1, <2>2
<1>14. ASSUME NEW w \in Getters, Read(w) PROVE LeftoverInv'
  <2>1. Quiet
    BY <1>0, <1>14 DEF Read, Quiet, LeavesPart
  <2> QED
    BY <1>0, <2>1, QuietKeeps
<1>15. ASSUME NEW w \in Getters, EndSend(w) PROVE LeftoverInv'
  <2>1. Quiet
    BY <1>0, <1>15 DEF EndSend, Quiet, LeavesPart
  <2> QED
    BY <1>0, <2>1, QuietKeeps
<1>16. CASE UNCHANGED vars
  BY <1>0, <1>16 DEF vars, LeftoverInv, Explained, LeavesPart
<1> QED
  BY <1>1, <1>2, <1>3, <1>4, <1>5, <1>6, <1>7, <1>8, <1>9, <1>10, <1>11, <1>12,
     <1>13, <1>14, <1>15, <1>16, Zenon DEF Next, AllEnded

\* Only an upload changes the size that fstat said.
LEMMA SizeStep ==
  ASSUME IInv, [Next]_vars
  PROVE  SizeInv'
<1> USE DEF Shapes, LockInv, Ends, Opened, Locked, fs
<1>0. Shapes /\ LockInv /\ DataInv /\ SizeInv
  BY ShapesHold, FilesAssumption DEF IInv
<1>1. ASSUME NEW w \in Workers, Open(w) PROVE SizeInv'
  <2>1. tsize'[w] = Len(data'[ino'[w]])
    BY <1>0, <1>1 DEF Open
  <2>2. \A v \in Workers : v # w => pc'[v] = pc[v] /\ ino'[v] = ino[v] /\ tsize'[v] = tsize[v]
    BY <1>0, <1>1 DEF Open
  <2>3. UNCHANGED data /\ pc[w] = "open" /\ w \in Workers
    BY <1>1 DEF Open
  <2> SUFFICES ASSUME NEW v \in Getters, pc'[v] \in Opened
               PROVE  (tsize[v] = Len(data[ino[v]]) \/ Uploaded(ino[v]))'
    BY DEF SizeInv
  <2>4. CASE v = w
    BY <2>1, <2>4
  <2>5. CASE v # w
    <3>1. /\ pc[v] \in Opened /\ ino'[v] = ino[v] /\ tsize'[v] = tsize[v]
          /\ tsize[v] = Len(data[ino[v]]) \/ Uploaded(ino[v])
      BY <1>0, <2>2, <2>5 DEF SizeInv
    <3>2. Uploaded(ino[v]) => Uploaded(ino[v])'
      BY <1>0, <2>2, <2>3, <3>1, Zenon DEF Uploaded, Began
    <3> QED
      BY <2>3, <3>1, <3>2
  <2> QED
    BY <2>4, <2>5
<1>2. ASSUME NEW w \in Workers, OpenNew(w) PROVE SizeInv'
  <2>1. SizeKept
    BY <1>0, <1>2 DEF OpenNew, SizeKept, Began
  <2> QED
    BY <1>0, <2>1, SizeKeeps
<1>3. ASSUME NEW w \in Workers, OpenFails(w) PROVE SizeInv'
  <2>1. SizeKept
    BY <1>0, <1>3 DEF OpenFails, SizeKept, Began
  <2> QED
    BY <1>0, <2>1, SizeKeeps
<1>4. ASSUME NEW w \in Workers, Lock(w) PROVE SizeInv'
  <2>1. SizeKept
    BY <1>0, <1>4 DEF Lock, SizeKept, Began
  <2> QED
    BY <1>0, <2>1, SizeKeeps
<1>5. ASSUME NEW w \in Workers, LockFails(w) PROVE SizeInv'
  <2>1. SizeKept
    BY <1>0, <1>5 DEF LockFails, SizeKept, Began
  <2> QED
    BY <1>0, <2>1, SizeKeeps
<1>6. ASSUME NEW w \in Workers, Refuse(w) PROVE SizeInv'
  <2>1. SizeKept
    BY <1>0, <1>6 DEF Refuse, SizeKept, Began
  <2> QED
    BY <1>0, <2>1, SizeKeeps
<1>7. ASSUME NEW w \in Workers, Validate(w) PROVE SizeInv'
  <2>1. Validated(w)
    BY <1>7, ValidateStarts
  <2>2. CASE w \in Putters
    <3>1. \A v \in Workers : ino[v] = ino[w] => Uploaded(ino[v])'
      BY <1>0, <2>1, <2>2 DEF Validated, Uploaded, Began
    <3>2. \A v \in Getters : pc[v] \in Opened => ino[v] \in Inodes
      BY <1>0
    <3>3. SizeKept
      BY <1>0, <2>1, <2>2, <3>1, <3>2 DEF Validated, SizeKept, Began, DataInv
    <3> QED
      BY <1>0, <3>3, SizeKeeps
  <2>3. CASE w \in Getters
    <3>1. SizeKept
      BY <1>0, <2>1, <2>3 DEF Validated, SizeKept, Began
    <3> QED
      BY <1>0, <3>1, SizeKeeps
  <2> QED
    BY <1>0, <2>2, <2>3
<1>8. ASSUME NEW w \in Putters, Write(w) PROVE SizeInv'
  <2>1. Appended(w)
    BY <1>8, WriteAppends
  <2>2. \A v \in Workers : ino[v] = ino[w] => Uploaded(ino[v])'
    BY <1>0, <2>1 DEF Appended, Uploaded, Began
  <2>3. SizeKept
    BY <1>0, <2>1, <2>2 DEF Appended, SizeKept, Began, DataInv
  <2> QED
    BY <1>0, <2>3, SizeKeeps
<1>9. ASSUME NEW w \in Putters, Commit(w) PROVE SizeInv'
  <2>1. SizeKept
    BY <1>0, <1>9 DEF Commit, SizeKept, Began
  <2> QED
    BY <1>0, <2>1, SizeKeeps
<1>10. ASSUME NEW w \in Putters, FailTruncate(w) \/ TruncateFails(w) \/ FailClose(w)
       PROVE  SizeInv'
  <2>1. Discards(w)
    BY <1>10, DiscardShape
  <2>2. PICK file : data' = [data EXCEPT ![ino[w]] = file]
    BY <2>1 DEF Discards
  <2>3. /\ pc[w] = "receive" /\ ino[w] \in Inodes /\ UNCHANGED <<ino, tsize>>
        /\ pc' = [pc EXCEPT ![w] = "end"] \/ pc' = [pc EXCEPT ![w] = "unlink"]
    BY <2>1 DEF Discards
  <2>4. \A v \in Workers : ino[v] = ino[w] => Uploaded(ino[v])'
    BY <1>0, <2>3 DEF Uploaded, Began
  <2>5. SizeKept
    BY <1>0, <2>2, <2>3, <2>4 DEF SizeKept, Began, DataInv
  <2> QED
    BY <1>0, <2>5, SizeKeeps
<1>11. ASSUME NEW w \in Putters, Unlink(w) PROVE SizeInv'
  <2>1. SizeKept
    BY <1>0, <1>11 DEF Unlink, SizeKept, Began
  <2> QED
    BY <1>0, <2>1, SizeKeeps
<1>12. ASSUME NEW w \in Putters, UnlinkFails(w) PROVE SizeInv'
  <2>1. SizeKept
    BY <1>0, <1>12 DEF UnlinkFails, SizeKept, Began
  <2> QED
    BY <1>0, <2>1, SizeKeeps
<1>13. ASSUME NEW w \in Putters, Timeout(w) PROVE SizeInv'
  <2>1. SizeKept
    BY <1>0, <1>13 DEF Timeout, SizeKept, Began
  <2> QED
    BY <1>0, <2>1, SizeKeeps
<1>14. ASSUME NEW w \in Getters, Read(w) PROVE SizeInv'
  <2>1. SizeKept
    BY <1>0, <1>14 DEF Read, SizeKept, Began
  <2> QED
    BY <1>0, <2>1, SizeKeeps
<1>15. ASSUME NEW w \in Getters, EndSend(w) PROVE SizeInv'
  <2>1. SizeKept
    BY <1>0, <1>15 DEF EndSend, SizeKept, Began
  <2> QED
    BY <1>0, <2>1, SizeKeeps
<1>16. CASE UNCHANGED vars
  BY <1>0, <1>16 DEF vars, SizeInv, Uploaded
<1> QED
  BY <1>1, <1>2, <1>3, <1>4, <1>5, <1>6, <1>7, <1>8, <1>9, <1>10, <1>11, <1>12,
     <1>13, <1>14, <1>15, <1>16, Zenon DEF Next, AllEnded

\* The invariant is inductive.
LEMMA StepInv ==
  ASSUME IInv, [Next]_vars
  PROVE  IInv'
<1>1. LockInv' /\ UploadNotMixed' /\ DataInv' /\ TypeRest' /\ LeftoverInv' /\ SizeInv'
  BY LockStep, UploadStep, DataStep, TypeStep, LeftoverStep, SizeStep
<1>2. TypeOK'
  BY <1>1 DEF TypeOK, TypeRest, DataInv, Positions, Results
<1> QED
  BY <1>1, <1>2 DEF IInv

\* The locks are as described in every state.
THEOREM LocksHeld == Spec => []IInv
BY InitInv, StepInv, PTL DEF Spec

\* While a worker receives an upload, its file holds the blocks that it has
\* written and no others, for every number of requests and of blocks.
THEOREM UploadsApart == Spec => []UploadNotMixed
<1>1. IInv => UploadNotMixed
  BY DEF IInv
<1> QED
  BY <1>1, LocksHeld, PTL

\* When nobody receives the file, part of an upload is in it only if one worker has
\* timed out, has yet to unlink it, or has logged that it could not discard it, and
\* the part is that worker's alone.
THEOREM LeftoversExplained == Spec => []LeftoverExplained
<1>1. IInv => LeftoverExplained
  <2> SUFFICES ASSUME IInv, dir # 0, locks[dir] \cap Putters = {}
               PROVE  Explained
    BY Zenon DEF LeftoverExplained, Explained, Blocks, OnlyOf
  <2>1. Shapes /\ LockInv /\ LeftoverInv
    BY ShapesHold DEF IInv
  <2>2. \A w \in Putters : pc[w] = "receive" => ino[w] # dir
    BY <2>1 DEF Shapes, LockInv, Locked
  <2> QED
    BY <2>1, <2>2 DEF LeftoverInv
<1> QED
  BY <1>1, LocksHeld, PTL

\* Only a worker that has a file locked for an upload changes it.
LEMMA ChangesLocked ==
  ASSUME IInv, [Next]_vars, NEW i \in Inodes, data'[i] # data[i]
  PROVE  \E p \in Putters : pc[p] \in Locked /\ ino[p] = i
<1>0. DataInv
  BY DEF IInv
<1>1. ASSUME NEW w \in Workers, Validate(w) PROVE w \in Putters /\ pc[w] \in Locked /\ ino[w] = i
  <2>1. Validated(w)
    BY <1>1, ValidateStarts
  <2> QED
    BY <1>0, <2>1 DEF Validated, DataInv, Locked
<1>2. ASSUME NEW w \in Putters, Write(w) PROVE pc[w] \in Locked /\ ino[w] = i
  <2>1. Appended(w)
    BY <1>2, WriteAppends
  <2> QED
    BY <1>0, <2>1 DEF Appended, DataInv, Locked
<1>3. ASSUME NEW w \in Putters, FailTruncate(w) \/ TruncateFails(w) \/ FailClose(w)
      PROVE  pc[w] \in Locked /\ ino[w] = i
  <2>1. Discards(w)
    BY <1>3, DiscardShape
  <2>2. PICK file : data' = [data EXCEPT ![ino[w]] = file]
    BY <2>1 DEF Discards
  <2> QED
    BY <1>0, <2>1, <2>2 DEF Discards, DataInv, Locked
<1>4. \/ UNCHANGED data \/ (\E w \in Workers : Validate(w))
      \/ \E w \in Putters : Write(w) \/ FailTruncate(w) \/ TruncateFails(w) \/ FailClose(w)
  BY DEF Next, Open, OpenNew, OpenFails, Lock, LockFails, Refuse, Commit,
         Unlink, UnlinkFails, Timeout, Read, EndSend, AllEnded, vars, fs
<1> QED
  BY <1>1, <1>2, <1>3, <1>4

\* A file does not change while it is sent, and its size is the one reported
\* unless an upload was begun before the lock was taken.
THEOREM SentFilesStable == Spec => SentFileStable
<1>1. IInv /\ [Next]_vars => StableStep
  <2> SUFFICES ASSUME IInv, [Next]_vars, NEW w \in Getters, pc[w] = "send"
               PROVE  SizeExplained(w) /\ data'[ino[w]] = data[ino[w]]
    BY DEF StableStep
  <2>1. Shapes /\ LockInv /\ SizeInv
    BY ShapesHold DEF IInv
  <2>2. \A p \in Putters : pc[p] \in Locked => ino[p] # ino[w]
    BY <2>1, Alone DEF Shapes, Locked
  <2>3. SizeExplained(w)
    BY <2>1, <2>2 DEF SizeInv, SizeExplained, Uploaded, Began, Opened, Locked
  <2>4. ino[w] \in Inodes
    BY <2>1 DEF Shapes, LockInv, Opened, Locked
  <2>5. data'[ino[w]] = data[ino[w]]
    BY <2>2, <2>4, ChangesLocked
  <2> QED
    BY <2>3, <2>5
<1> QED
  BY <1>1, LocksHeld, PTL DEF SentFileStable, Spec

=============================================================================
