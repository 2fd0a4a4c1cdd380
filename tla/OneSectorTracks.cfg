\* A disk of one-sector tracks: sector 1 is on another surface.
SPECIFICATION Spec
CONSTANTS
  SURFACES = 2
  TRACKS_PER_SURFACE = 2
  SECTORS_PER_TRACK = 1
  SECTORS_PER_BLOCK = 2
  Zero = zero
  Bytes = {zero, a}
PROPERTY DirectoryIsSafe
