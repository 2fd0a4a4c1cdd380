\* Two frames over three pages; at most one is fixed.
SPECIFICATION FairSessionSpec
CONSTANTS
  N_BLOCKS = 3
  TOTAL_BLOCKS = 4
  capacity = 2
  MaxPin = 2
  MaxHeld = 0
  MaxFixed = 1
  Zero = zero
  Bytes = {zero, a}
  NoFrame = NoFrame
INVARIANTS
  SessionTypeOK
  Bookkeeping
  ProcessesArePinned
PROPERTIES
  ProcessesStay
  AlwaysKills
