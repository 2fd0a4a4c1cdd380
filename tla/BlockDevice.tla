----------------------------- MODULE BlockDevice -----------------------------
(***************************************************************************)
(* The disk as the buffer pool uses it: numbered blocks and a map of the   *)
(* blocks in use (DiskManager's free_block_map).  How a block is laid out  *)
(* over sectors is the subject of module DiskManager.                      *)
(***************************************************************************)
EXTENDS Integers, FiniteSets

CONSTANTS
  N_BLOCKS,      \* free_block_map.blocks.size()
  TOTAL_BLOCKS,  \* TOTAL_SECTORS / SECTORS_PER_BLOCK
  Bytes,         \* the contents of a block that are told apart
  Zero           \* the content of a block never written since new_disk

ASSUME BlockDeviceAssumption ==
  /\ N_BLOCKS \in Nat \ {0}
  /\ TOTAL_BLOCKS \in Nat
  /\ TOTAL_BLOCKS >= N_BLOCKS
  /\ Zero \in Bytes

VARIABLES
  disk,  \* what the sectors of every block hold
  used   \* the blocks whose free_block_map entry says used

BlockIds == 0 .. N_BLOCKS - 1

\* The id that no block has, set by load_disk.
NULL_BLOCK == TOTAL_BLOCKS

\* A write_block that forgets set_block_used.
WriteSectorsOnly(image) ==
  /\ disk' = [b \in BlockIds |-> IF b \in DOMAIN image THEN image[b] ELSE disk[b]]
  /\ UNCHANGED used

\* write_block on every block of image's domain: the sectors are written and
\* the block is marked used.
WriteBlocks(image) ==
  /\ disk' = [b \in BlockIds |-> IF b \in DOMAIN image THEN image[b] ELSE disk[b]]
  /\ used' = used \cup DOMAIN image

\* get_free_block(0), (1), (2)... until one is not in `taken': the least free
\* block outside it.  None is left when the enumeration runs past the last
\* block.
FreeBlocks(taken) == {b \in BlockIds : b \notin used /\ b \notin taken}

IsFirst(b, blocks) == b \in blocks /\ \A c \in blocks : b <= c
=============================================================================
