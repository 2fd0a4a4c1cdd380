\* Two frames over three pages, LRU or clock.
SPECIFICATION SessionSpec
CONSTANTS
  N_BLOCKS = 3
  TOTAL_BLOCKS = 4
  capacity = 2
  MaxPin = 2
  MaxHeld = 0
  MaxFixed = 1
  Zero = zero
  Bytes = {zero, a, b}
  NoFrame = NoFrame
PROPERTY FlushSavesAll
