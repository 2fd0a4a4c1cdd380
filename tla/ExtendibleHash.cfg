\* Buckets of two; room for a directory of eight.
SPECIFICATION Spec
CONSTANTS
  bucket_capacity = 2
  directory_capacity = 9
  SizeValues = 256
  Keys = {0, 1, 2, 4, 5, 7, 8}
  MaxBuckets = 5
  MaxCopies = 1
  MaxFailures = 2
INVARIANTS
  TypeOK
  DirectoryComplete
  PagesReached
  PinsReturned
PROPERTY IndexWhileRegular
CHECK_DEADLOCK FALSE
