------------------------------ MODULE NetAscii -------------------------------
(***************************************************************************)
(* The netascii conversion of common/tftp-io.c: netascii_read_packet turns  *)
(* a file into packets, netascii_write_packet and netascii_write_finish     *)
(* turn packets into a file.  Both keep half a conversion in struct tftp_io *)
(* between two packets: newline and prevchar on the sending side, write_cr  *)
(* on the receiving side.  One step is one turn of a loop, or what is done  *)
(* before or after it.                                                      *)
(*                                                                          *)
(* The packets arrive once and in order, which is what module TftpXfer      *)
(* shows of the transfer.  They are kept as the characters in them and the  *)
(* places where a packet ends.                                              *)
(***************************************************************************)
EXTENDS Integers, Sequences, FiniteSets

CONSTANTS
  CR, LF, NUL, Others,   \* characters
  BlockSize,
  Files,                 \* the files a tftp-hpa sender may be given
  Streams,               \* what some other sender may send: characters, cuts
  Rooms                  \* how many characters the receiver's file may take

Chars == {CR, LF, NUL} \cup Others

ASSUME NetAsciiAssumption ==
  /\ BlockSize \in Nat \ {0}
  /\ CR # LF /\ CR # NUL /\ LF # NUL /\ {CR, LF, NUL} \cap Others = {}
  /\ Files \subseteq Seq(Chars) /\ Rooms \subseteq Nat

\* A stream ends with its last packet, and packets may be empty.
ASSUME StreamAssumption ==
  \A s \in Streams :
    /\ s.sent \in Seq(Chars) /\ s.ends \in Seq(Nat)
    /\ Len(s.ends) > 0 /\ s.ends[Len(s.ends)] = Len(s.sent)
    /\ \A i, j \in 1..Len(s.ends) : i <= j => s.ends[i] <= s.ends[j]

VARIABLES
  file,       \* what the sender reads
  own,        \* whether this code is the sender
  pos, newline, prevchar, eof,   \* the sending struct tftp_io
  sent,       \* the characters put into packets
  ends,       \* how many of them there were after each packet
  got,        \* packets given to netascii_write_packet
  taken,      \* characters its loop has taken
  out, write_cr,                 \* the receiving struct tftp_io
  room,       \* how many characters the receiver's file takes
  status      \* of the receiver: "busy", "done", "error"

sendVars == <<file, own, pos, newline, prevchar, eof, sent, ends>>
recvVars == <<got, taken, out, write_cr, room, status>>
asciiVars == <<sendVars, recvVars>>

AsciiInit ==
  /\ \/ /\ own = TRUE /\ file \in Files /\ eof = FALSE
        /\ sent = <<>> /\ ends = <<>>
     \/ /\ own = FALSE /\ file = <<>> /\ eof = TRUE
        /\ \E s \in Streams : sent = s.sent /\ ends = s.ends
  /\ pos = 0 /\ newline = FALSE /\ prevchar = NUL
  /\ got = 0 /\ taken = 0
  /\ out = <<>> /\ write_cr = FALSE /\ status = "busy"
  /\ room \in Rooms

\* Where packet i ends; the first begins at 0.
EndOf(i) == IF i = 0 THEN 0 ELSE ends[i]

-----------------------------------------------------------------------------
(***************************************************************************)
(* netascii_read_packet                                                     *)
(***************************************************************************)

\* Mutant: every carriage return is followed by a line feed.
SecondOfPairLf == LF

\* What follows the carriage return that stands for prevchar.
SecondOfPair == IF prevchar = LF THEN LF ELSE NUL

PacketLen == Len(sent) - EndOf(Len(ends))
AtEOF == ~newline /\ pos = Len(file)

\* One turn of the loop.
ReadChar ==
  /\ own /\ ~eof /\ PacketLen < BlockSize /\ ~AtEOF
  /\ IF newline
     THEN /\ sent' = Append(sent, SecondOfPair)
          /\ newline' = FALSE /\ UNCHANGED <<pos, prevchar>>
     ELSE LET c == file[pos + 1] IN
            /\ pos' = pos + 1
            /\ newline' = (c \in {LF, CR})
            /\ prevchar' = IF c \in {LF, CR} THEN c ELSE prevchar
            /\ sent' = Append(sent, IF c \in {LF, CR} THEN CR ELSE c)
  /\ UNCHANGED <<file, own, eof, ends, recvVars>>

\* The loop is over and the packet is sent: a short one is the last.  A sender that
\* cannot read its file stops, as it may here at any step.
ReadReturn ==
  /\ own /\ ~eof /\ (PacketLen = BlockSize \/ AtEOF)
  /\ ends' = Append(ends, Len(sent))
  /\ eof' = (PacketLen < BlockSize)
  /\ UNCHANGED <<file, own, pos, newline, prevchar, sent, recvVars>>

-----------------------------------------------------------------------------
(***************************************************************************)
(* netascii_write_packet and netascii_write_finish                          *)
(***************************************************************************)

\* Mutant: every packet starts afresh.
WritePacketAfresh ==
  /\ status = "busy" /\ taken = EndOf(got) /\ got < Len(ends)
  /\ got' = got + 1 /\ write_cr' = FALSE
  /\ UNCHANGED <<sendVars, taken, out, room, status>>

\* The call; ct is EndOf(got) - taken from here on.
WritePacket ==
  /\ status = "busy" /\ taken = EndOf(got) /\ got < Len(ends)
  /\ got' = got + 1
  /\ UNCHANGED <<sendVars, taken, out, write_cr, room, status>>

\* The characters a turn of the loop puts into the file.
Puts(c) ==
  IF write_cr
  THEN IF c = LF THEN <<LF>> ELSE IF c = NUL THEN <<CR>> ELSE <<CR, c>>
  ELSE IF c = CR THEN <<>> ELSE <<c>>

\* putc_unlocked for each of s; it fails when the file is full.
PutAll(s) ==
  /\ out' = out \o SubSeq(s, 1, IF Len(s) <= room - Len(out) THEN Len(s) ELSE room - Len(out))
  /\ status' = IF Len(s) <= room - Len(out) THEN "busy" ELSE "error"

\* One turn of the loop.  When the carriage return held back cannot be put, it remains.
WriteChar ==
  /\ status = "busy" /\ taken < EndOf(got)
  /\ LET c == sent[taken + 1] IN
       /\ PutAll(Puts(c))
       /\ write_cr' = IF write_cr THEN Len(Puts(c)) = 2 /\ Len(out) = room ELSE c = CR
  /\ taken' = taken + 1
  /\ UNCHANGED <<sendVars, got, room>>

\* netascii_write_finish, after the last packet; fflush may fail as well.
WriteFinish ==
  /\ status = "busy" /\ eof /\ got = Len(ends) /\ taken = EndOf(got)
  /\ \/ /\ write_cr /\ Len(out) = room
        /\ status' = "error" /\ UNCHANGED <<out, write_cr>>
     \/ /\ ~(write_cr /\ Len(out) = room)
        /\ out' = IF write_cr THEN Append(out, CR) ELSE out
        /\ write_cr' = FALSE
        /\ status' \in {"done", "error"}
  /\ UNCHANGED <<sendVars, got, taken, room>>

AsciiNext == ReadChar \/ ReadReturn \/ WritePacket \/ WriteChar \/ WriteFinish
AsciiSpec == AsciiInit /\ [][AsciiNext]_asciiVars

-----------------------------------------------------------------------------
(* The state has the types of struct tftp_io (common/tftp-io.c:31-60).       *)
AsciiTypeOK ==
  /\ file \in Seq(Chars) /\ sent \in Seq(Chars) /\ out \in Seq(Chars)
  /\ ends \in Seq(Nat)
  /\ pos \in 0..Len(file) /\ prevchar \in Chars
  /\ own \in BOOLEAN /\ newline \in BOOLEAN /\ eof \in BOOLEAN /\ write_cr \in BOOLEAN
  /\ got \in 0..Len(ends) /\ taken \in 0..Len(sent)
  /\ room \in Nat /\ status \in {"busy", "done", "error"}

(* Whatever the block size cuts in two, what has been written at any moment, *)
(* after an error too, is a prefix of the file that is being sent, and all   *)
(* of it when the receiver succeeds (CHANGES:154, "Fix netascii transfers    *)
(* when a CR sequence spans a data-packet").  Every packet of this sender    *)
(* but the last is full and the last is not, so that the length tells the    *)
(* receiver where the file ends, also when the file ends in half a pair      *)
(* (common/tftp-io.c:99-120).                                                *)
RoundTrip ==
  own => /\ Len(out) <= Len(file) /\ \A i \in 1..Len(out) : out[i] = file[i]
         /\ status = "done" => Len(out) = Len(file)
         /\ \A i \in 1..Len(ends) :
              IF i = Len(ends) /\ eof THEN ends[i] - EndOf(i - 1) < BlockSize
              ELSE ends[i] - EndOf(i - 1) = BlockSize
         /\ eof => pos = Len(file) /\ ~newline

\* Character i is the second of a pair: an odd run of carriage returns ends just before it.
Second(s, i) ==
  \E j \in 1..(i - 1) :
    /\ \A k \in j..(i - 1) : s[k] = CR
    /\ j = 1 \/ s[j - 1] # CR
    /\ (i - j) % 2 = 1

\* Every character stands for one of the file but a carriage return that pairs with
\* the line feed or the NUL after it.
Kept(s, i) == Second(s, i) \/ s[i] # CR \/ i = Len(s) \/ s[i + 1] \notin {LF, NUL}
Rank(s, i) == Cardinality({j \in 1..i : Kept(s, j)})
Char(s, i) == IF Second(s, i) /\ s[i] = NUL THEN CR ELSE s[i]

\* o holds what the first n characters of s stand for, each in its place.
Means(o, s, n) ==
  /\ Len(o) = Rank(s, n)
  /\ \A i \in 1..n : Kept(s, i) => o[Rank(s, i)] = Char(s, i)

(* Whoever the sender is and wherever its packets are cut, the file of a     *)
(* receiver that succeeds is what the characters mean in one piece: CR LF is *)
(* a line feed, CR NUL a carriage return, and a carriage return before       *)
(* anything else, or at the end, is itself (common/tftp-io.c:133-199).       *)
CutsDoNotMatter == status = "done" => Means(out, sent, Len(sent))
=============================================================================
