\* Two frames over three blocks: every load beyond the second evicts, and a fourth
\* page cannot be had.
SPECIFICATION Spec
CONSTANTS
  N_BLOCKS <- Blocks
  TOTAL_BLOCKS = 4
  capacity <- Frames
  MaxPin <- TwoPins
  MaxHeld <- TwoReferences
  MaxFixed = 1
  Zero = zero
  Bytes = {zero, a}
  NoFrame = NoFrame
INVARIANTS
  TypeOK
  Bookkeeping
  RoomMeansFreeSlot
  CleanMatchesDisk
  HeldArePinned
  SingleOwner
  OwnedIsKept
  FreeBlocksAreZero
  ClockLoopAgrees
PROPERTIES
  PinnedStays
  ImplementsPageStore
