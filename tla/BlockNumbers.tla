---------------------------- MODULE BlockNumbers ----------------------------
(***************************************************************************)
(* The 16-bit block numbers of common/tftp-xfer.c.  The programs step from  *)
(* one number to the next; the model needs the number of any block.         *)
(***************************************************************************)
EXTENDS Integers

CONSTANTS
  BlockMod,   \* block numbers are counted modulo this: 2^16 in the code
  Rollover    \* xfer->rollover: what follows the largest number

\* The server grants a rollover of 0 or 1 and nothing else.
ASSUME BlockNumberAssumption ==
  /\ Rollover \in {0, 1}
  /\ BlockMod \in Nat /\ BlockMod - Rollover > 1

\* next_block: 16-bit increment, zero replaced by the rollover value.
NextBlock(b) ==
  LET n == (b + 1) % BlockMod IN IF n = 0 THEN Rollover ELSE n

\* Numbers repeat with this period.
Period == BlockMod - Rollover

\* The number the i-th DATA packet gets when next_block is iterated from
\* block 1; 0 is the number of the ACK before the first block.
BlockNum(i) ==
  IF i = 0 THEN 0 ELSE Rollover + ((i - Rollover) % Period)
=============================================================================
