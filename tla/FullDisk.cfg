\* Two frames over two blocks.
SPECIFICATION Spec
CONSTANTS
  N_BLOCKS = 2
  capacity = 2
  MaxPin = 2
  MaxHeld = 2
  MaxFixed = 1
  Zero = zero
  Bytes = {zero, a}
  NoFrame = NoFrame
INVARIANT NewFrameIsFreeAndPinned
CHECK_DEADLOCK FALSE
