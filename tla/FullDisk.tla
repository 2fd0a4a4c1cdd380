------------------------------ MODULE FullDisk -------------------------------
(***************************************************************************)
(* get_load_free_frame on a full disk, in the other geometry: when the     *)
(* sectors left over by the blocks hide the two reserved ones,             *)
(* TOTAL_BLOCKS is blocks.size(), get_free_block reaches its last return,  *)
(* and the caller gets the page of the first slot, which nobody pinned for *)
(* it.                                                                     *)
(***************************************************************************)
EXTENDS Integers, Sequences

CONSTANTS N_BLOCKS, Bytes, Zero, capacity, NoFrame, MaxPin, MaxHeld, MaxFixed

VARIABLES
  disk, used, is_clock, frame_map, frame_slots, lru_list, clock_hand,
  held, unmarked, owners

Pool == INSTANCE BufferManager WITH TOTAL_BLOCKS <- N_BLOCKS

ReturnFirstSlot ==
  /\ Pool!FreeBlocks(Pool!Resident) = {}
  /\ Pool!MayTakeReference
  /\ frame_slots[0] # Pool!NULL_BLOCK
  /\ held' = [held EXCEPT ![frame_slots[0]] = @ + 1]
  /\ unmarked' = unmarked \cup {frame_slots[0]}
  /\ owners' = [owners EXCEPT ![frame_slots[0]] = @ + 1]
  /\ UNCHANGED <<disk, used, is_clock, frame_map, frame_slots, lru_list, clock_hand>>

\* The slots are empty: the code follows the end iterator.  The caller of the model
\* gives up there.
ReturnNothing ==
  /\ Pool!FreeBlocks(Pool!Resident) = {}
  /\ frame_slots[0] = Pool!NULL_BLOCK
  /\ Pool!Unwind
  /\ UNCHANGED <<disk, used, is_clock, frame_map, frame_slots, lru_list, clock_hand,
                 unmarked, owners>>

Next ==
  \/ \E p \in Pool!BlockIds :
       \/ Pool!LoadPinHit(p)
       \/ Pool!LoadPinMiss(p)
       \/ \E v \in Bytes \ {Zero} : Pool!WriteFrame(p, v)
       \/ \E is_dirty \in BOOLEAN : Pool!FreeUnpin(p, is_dirty)
  \/ ReturnFirstSlot
  \/ ReturnNothing
  \/ Pool!FlushAll

\* Every block is in use.
Init == Pool!Init /\ used = Pool!BlockIds

Spec == Init /\ [][Next]_Pool!vars

\* loads.cpp:117 of get_load_free_frame: a free block is looked for on the disk,
\* loaded and pinned.  Whoever gets a frame as new is its only user, and the frame
\* is pinned for it.
NewFrameIsFreeAndPinned ==
  \A p \in Pool!BlockIds :
    /\ owners[p] <= 1
    /\ held[p] > 0 => p \in Pool!Resident /\ frame_map[p].pin_count >= held[p]
=============================================================================
