\* Twelve sectors make two blocks of four and leave two over, so TOTAL_BLOCKS is 3; a
\* block crosses from one cylinder to the next.
SPECIFICATION Spec
CONSTANTS
  SURFACES = 2
  TRACKS_PER_SURFACE = 2
  SECTORS_PER_TRACK = 3
  SECTORS_PER_BLOCK = 4
  Zero = zero
  Bytes = {zero, a}
INVARIANTS
  TypeOK
  BlockMapIsVertical
  MapAgreesWithBitmap
  FreeBlockSearchAgrees
  WrittenIsMarked
PROPERTIES
  DirectoryIsSafe
  ImplementsBlockStore
