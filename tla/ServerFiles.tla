---------------------------- MODULE ServerFiles -----------------------------
(***************************************************************************)
(* The worker processes of tftpd/tftpd.c at one file name: how they open,   *)
(* lock, truncate, fill, commit and discard the file (validate_access,      *)
(* tftp_recvfile, tftp_sendfile, discard_upload, commit_upload, timer).     *)
(* The listener forks one worker for every request packet, so a WRQ that    *)
(* is sent twice has two workers.                                           *)
(*                                                                          *)
(* External: the file system (names, inodes, fcntl locks, which a process   *)
(* loses when it closes the file or exits), as the code uses it.            *)
(***************************************************************************)
EXTENDS Integers, Sequences

CONSTANTS
  Putters,    \* workers that serve a WRQ
  Getters,    \* workers that serve an RRQ
  Client,     \* the client whose request a putter serves
  NBlocks,    \* blocks in an upload
  Old,        \* who wrote the file that is there at the start
  Hole,       \* a block of a file that nobody wrote
  MaxInodes   \* bound: one more than the putters is enough

Workers == Putters \cup Getters
Inodes == 1..MaxInodes

ASSUME FilesAssumption ==
  /\ Putters \cap Getters = {} /\ {Old, Hole} \cap Putters = {}
  /\ NBlocks \in Nat \ {0} /\ MaxInodes \in Nat \ {0}

VARIABLES
  cancreate, \* dopt.cancreate: --create
  dir,     \* the inode that has the name, or 0
  data,    \* who wrote each block of each inode
  locks,   \* who holds a lock on each inode
  used,    \* inodes allocated
  pc,      \* where each worker is
  ino,     \* the inode each worker has open, or 0
  pos,     \* blocks that each worker has received or sent
  tsize,   \* the size that fstat said
  served,  \* the worker that each client talks to, or Old
  result   \* "none", "ok", "failed", "timeout", "refused", or "leftover" if
           \* discard_upload has logged that it could not do its work

vars == <<cancreate, dir, data, locks, used, pc, ino, pos, tsize, served, result>>
fs == <<dir, data, locks, used>>

Clients == {Client[w] : w \in Putters}

Init ==
  /\ cancreate \in BOOLEAN
  /\ \E n \in {0, 1} :
       /\ dir = n
       /\ data = [i \in Inodes |-> IF i = n THEN [b \in 1..NBlocks |-> Old] ELSE <<>>]
       /\ used = n
  /\ locks = [i \in Inodes |-> {}]
  /\ pc = [w \in Workers |-> "open"]
  /\ ino = [w \in Workers |-> 0]
  /\ pos = [w \in Workers |-> 0]
  /\ tsize = [w \in Workers |-> 0]
  /\ served = [c \in Clients |-> Old]
  /\ result = [w \in Workers |-> "none"]

\* The worker closes its file, or exits, which closes it.
Unlocked(w) == [locks EXCEPT ![ino[w]] = @ \ {w}]
Ends(w, how) ==
  /\ pc' = [pc EXCEPT ![w] = "end"]
  /\ result' = [result EXCEPT ![w] = how]

-----------------------------------------------------------------------------
(***************************************************************************)
(* validate_access                                                          *)
(***************************************************************************)

\* open and fstat.
Open(w) ==
  /\ pc[w] = "open"
  /\ dir # 0
  /\ ino' = [ino EXCEPT ![w] = dir]
  /\ tsize' = [tsize EXCEPT ![w] = Len(data[dir])]
  /\ pc' = [pc EXCEPT ![w] = "lock"]
  /\ UNCHANGED <<cancreate, fs, pos, served, result>>

\* open with O_CREAT.
OpenNew(w) ==
  /\ pc[w] = "open"
  /\ dir = 0 /\ w \in Putters /\ cancreate
  /\ used < MaxInodes
  /\ used' = used + 1
  /\ dir' = used'
  /\ ino' = [ino EXCEPT ![w] = used']
  /\ pc' = [pc EXCEPT ![w] = "lock"]
  /\ UNCHANGED <<cancreate, data, locks, pos, tsize, served, result>>

OpenFails(w) ==
  /\ pc[w] = "open"
  /\ dir = 0 /\ ~(w \in Putters /\ cancreate)
  /\ Ends(w, "refused")
  /\ UNCHANGED <<cancreate, fs, ino, pos, tsize, served>>

\* Mutant: everyone asks for a shared lock.
CompatibleShared(w, v) == TRUE

\* A write lock excludes all others, a read lock excludes write locks.
Compatible(w, v) == w \in Getters /\ v \in Getters

\* lock_file: F_SETLK does not wait; a worker that cannot have the lock exits.
Lock(w) ==
  /\ pc[w] = "lock"
  /\ \A v \in locks[ino[w]] : Compatible(w, v)
  /\ locks' = [locks EXCEPT ![ino[w]] = @ \cup {w}]
  /\ pc' = [pc EXCEPT ![w] = "check"]
  /\ UNCHANGED <<cancreate, dir, data, used, ino, pos, tsize, served, result>>

LockFails(w) ==
  /\ pc[w] = "lock"
  /\ \E v \in locks[ino[w]] : ~Compatible(w, v)
  /\ Ends(w, "refused")
  /\ UNCHANGED <<cancreate, fs, ino, pos, tsize, served>>

\* The permissions of the file, or ftruncate, stop it.
Refuse(w) ==
  /\ pc[w] = "check"
  /\ locks' = Unlocked(w)
  /\ Ends(w, "refused")
  /\ UNCHANGED <<cancreate, dir, data, used, ino, pos, tsize, served>>

\* Mutant: the file is not truncated.
TruncatedNot(w) == data[ino[w]]

\* What ftruncate leaves.
Truncated(w) == <<>>

\* The rest of validate_access; a WRQ truncates the file.
Validate(w) ==
  /\ pc[w] = "check"
  /\ IF w \in Putters
     THEN /\ data' = [data EXCEPT ![ino[w]] = Truncated(w)]
          /\ pc' = [pc EXCEPT ![w] = "receive"]
     ELSE /\ pc' = [pc EXCEPT ![w] = "send"]
          /\ UNCHANGED data
  /\ UNCHANGED <<cancreate, dir, locks, used, ino, pos, tsize, served, result>>

-----------------------------------------------------------------------------
(***************************************************************************)
(* tftp_recvfile                                                            *)
(***************************************************************************)

\* The client talks to the first worker that answers, and to no other.
TalksTo(w) == served[Client[w]] \in {Old, w}

Write(w) ==
  /\ pc[w] = "receive" /\ TalksTo(w)
  /\ pos[w] < NBlocks
  /\ served' = [served EXCEPT ![Client[w]] = w]
  /\ pos' = [pos EXCEPT ![w] = @ + 1]
  /\ data' = [data EXCEPT ![ino[w]] =
       [b \in 1..(IF Len(@) > pos[w] THEN Len(@) ELSE pos[w] + 1) |->
          IF b = pos[w] + 1 THEN w ELSE @[b]]]
  /\ UNCHANGED <<cancreate, dir, locks, used, pc, ino, tsize, result>>

\* The last block is stored; commit_upload.
Commit(w) ==
  /\ pc[w] = "receive" /\ pos[w] = NBlocks
  /\ locks' = Unlocked(w)
  /\ Ends(w, "ok")
  /\ UNCHANGED <<cancreate, dir, data, used, ino, pos, tsize, served>>

\* Mutant: the upload is truncated only when it is complete.
FailTruncateWhole(w) ==
  /\ pc[w] = "receive" /\ ~cancreate
  /\ data' = [data EXCEPT ![ino[w]] = IF pos[w] = NBlocks THEN <<>> ELSE @]
  /\ locks' = Unlocked(w)
  /\ Ends(w, "failed")
  /\ UNCHANGED <<cancreate, dir, used, ino, pos, tsize, served>>

\* The transfer fails, after the last block too (write_drain, the last ACK);
\* discard_upload without --create.  What ftruncate leaves when all goes well ...
FailTruncate(w) ==
  /\ pc[w] = "receive" /\ ~cancreate
  /\ data' = [data EXCEPT ![ino[w]] = <<>>]
  /\ locks' = Unlocked(w)
  /\ Ends(w, "failed")
  /\ UNCHANGED <<cancreate, dir, used, ino, pos, tsize, served>>

\* ... and what is left if it does not, which is only logged: after a failed
\* ftruncate the blocks that were flushed, after a failed fflush those that fclose
\* writes once the file is empty, behind a hole.
TruncateFails(w) ==
  /\ pc[w] = "receive" /\ ~cancreate
  /\ \E n \in 1..pos[w], k \in 0..pos[w] :
       /\ k < n
       /\ data' = [data EXCEPT ![ino[w]] = [b \in 1..n |-> IF b <= k THEN Hole ELSE w]]
  /\ locks' = Unlocked(w)
  /\ Ends(w, "leftover")
  /\ UNCHANGED <<cancreate, dir, used, ino, pos, tsize, served>>

\* discard_upload with --create: first fclose, which may fail to write the last
\* blocks ...
FailClose(w) ==
  /\ pc[w] = "receive" /\ cancreate
  /\ \E n \in 0..pos[w] : data' = [data EXCEPT ![ino[w]] = [b \in 1..n |-> w]]
  /\ locks' = Unlocked(w)
  /\ pc' = [pc EXCEPT ![w] = "unlink"]
  /\ UNCHANGED <<cancreate, dir, used, ino, pos, tsize, served, result>>

\* ... then unlink, by name ...
Unlink(w) ==
  /\ pc[w] = "unlink"
  /\ dir # 0
  /\ dir' = 0
  /\ Ends(w, "failed")
  /\ UNCHANGED <<cancreate, data, locks, used, ino, pos, tsize, served>>

\* ... which fails if the name is gone or the directory does not allow it: that is
\* only logged.
UnlinkFails(w) ==
  /\ pc[w] = "unlink"
  /\ Ends(w, "leftover")
  /\ UNCHANGED <<cancreate, fs, ino, pos, tsize, served>>

\* timer: the last timeout ends the process.
Timeout(w) ==
  /\ pc[w] = "receive" /\ pos[w] < NBlocks
  /\ locks' = Unlocked(w)
  /\ Ends(w, "timeout")
  /\ UNCHANGED <<cancreate, dir, data, used, ino, pos, tsize, served>>

-----------------------------------------------------------------------------
(***************************************************************************)
(* tftp_sendfile                                                            *)
(***************************************************************************)

Read(w) ==
  /\ pc[w] = "send"
  /\ pos[w] < Len(data[ino[w]])
  /\ pos' = [pos EXCEPT ![w] = @ + 1]
  /\ UNCHANGED <<cancreate, fs, pc, ino, tsize, served, result>>

\* The end of the file, an error or a timeout.
EndSend(w) ==
  /\ pc[w] = "send"
  /\ locks' = Unlocked(w)
  /\ \E how \in {"failed"} \cup {h \in {"ok"} : pos[w] = Len(data[ino[w]])} :
       Ends(w, how)
  /\ UNCHANGED <<cancreate, dir, data, used, ino, pos, tsize, served>>

AllEnded == (\A w \in Workers : pc[w] = "end") /\ UNCHANGED vars

Next ==
  \/ \E w \in Workers :
       \/ Open(w) \/ OpenNew(w) \/ OpenFails(w) \/ Lock(w) \/ LockFails(w)
       \/ Refuse(w) \/ Validate(w)
  \/ \E w \in Putters :
       \/ Write(w) \/ Commit(w) \/ FailTruncate(w) \/ TruncateFails(w)
       \/ FailClose(w) \/ Unlink(w) \/ UnlinkFails(w) \/ Timeout(w)
  \/ \E w \in Getters : Read(w) \/ EndSend(w)
  \/ AllEnded

Spec == Init /\ [][Next]_vars

-----------------------------------------------------------------------------
(***************************************************************************)
(* Properties                                                               *)
(***************************************************************************)

TypeOK ==
  /\ cancreate \in BOOLEAN
  /\ dir \in 0..used /\ used \in 0..MaxInodes
  /\ data \in [Inodes -> Seq(Putters \cup {Old, Hole})]
  /\ locks \in [Inodes -> SUBSET Workers]
  /\ pc \in [Workers -> {"open", "lock", "check", "receive", "send", "unlink", "end"}]
  /\ ino \in [Workers -> 0..used]
  /\ pos \in [Workers -> 0..NBlocks] /\ tsize \in [Workers -> Nat]
  /\ served \in [Clients -> Putters \cup {Old}]
  /\ result \in [Workers -> {"none", "ok", "failed", "leftover", "timeout", "refused"}]

\* An upload is one client's alone: while a worker receives it, the file it has
\* open holds exactly the blocks that this worker has written, whatever other
\* requests for the name arrive in the meantime.
UploadNotMixed ==
  \A w \in Putters :
    pc[w] = "receive" => data[ino[w]] = [b \in 1..pos[w] |-> w]

\* The size that fstat said before the lock is that of the file sent, unless an
\* upload of the file was begun and ended in between.
SizeExplained(w) ==
  \/ tsize[w] = Len(data[ino[w]])
  \/ \E p \in Putters : ino[p] = ino[w] /\ pc[p] \in {"unlink", "end"}

\* What a step may do to a file that is being sent.
StableStep ==
  \A w \in Getters :
    pc[w] = "send" /\ pc'[w] = "send" =>
      SizeExplained(w) /\ data'[ino[w]] = data[ino[w]]

\* The file that a worker is sending does not change under it: no upload
\* truncates or writes it until the worker closes it.  Its size is the one that
\* was reported, unless an upload came between the fstat and the lock.
SentFileStable == [][StableStep]_vars

\* A worker that leaves the part it has received: it timed out, it is about to
\* unlink the file, or it has logged that it could not discard it.
LeavesPart(w) == result[w] \in {"timeout", "leftover"} \/ pc[w] = "unlink"

\* What is left behind: with no upload of it in progress, the file is empty, or all
\* of it is one worker's, or it is part of the upload of one worker (with a hole
\* at most) that timed out, is about to unlink it or has logged that it could not
\* discard it.  A failure that is discarded, a refusal or a duplicate request leaves
\* no part of an upload under the name, and two uploads are never mixed there.
LeftoverExplained ==
  dir # 0 /\ locks[dir] \cap Putters = {} =>
    \/ data[dir] = <<>>
    \/ \E w \in Putters \cup {Old} : data[dir] = [b \in 1..NBlocks |-> w]
    \/ \E w \in Putters : /\ ino[w] = dir /\ LeavesPart(w)
                          /\ \A b \in DOMAIN data[dir] : data[dir][b] \in {w, Hole}

(***************************************************************************)
(* What the documentation and comments say, and the code does not do        *)
(***************************************************************************)

\* CHANGES: "If --create is specified, the server will now delete a failed
\* upload file."  (An unlink that the system refuses is not held against it.)
FailedUploadDeleted ==
  cancreate /\ dir # 0 =>
    \A w \in Putters :
      pc[w] = "end" /\ result[w] \notin {"ok", "leftover"} =>
        w \notin {data[dir][b] : b \in DOMAIN data[dir]}

\* The same sentence: what is deleted is the failed upload, not the file that
\* another worker has since begun to receive or has completed.
OnlyFailedDeleted ==
  [][\A w \in Putters : pc[w] = "unlink" /\ pc'[w] = "end" /\ dir # 0 =>
       \A v \in Putters \ {w} :
         ino[v] = dir => pc[v] \notin {"receive"} /\ result[v] # "ok"]_vars

\* tftpd.8.in on tsize: "Report the size of the file that is about to be
\* transferred."
TsizeExact ==
  \A w \in Getters : pc[w] = "send" => tsize[w] = Len(data[ino[w]])

\* The comment in validate_access: "A duplicate RRQ or (worse!) WRQ packet could
\* really cause havoc..."; the lock is there so that it does not.  Once a client
\* has stored its file, and no other client writes it, the file stays.
DuplicateHarmless ==
  \A w \in Putters :
    result[w] = "ok" /\ (\A v \in Putters : Client[v] = Client[w]) =>
      dir # 0 /\ data[dir] = [b \in 1..NBlocks |-> w]
=============================================================================
