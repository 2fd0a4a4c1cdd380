\* Two records to a page at most; on a slotted one a second or third is refused, before or
\* after it got a slot.
SPECIFICATION Spec
CONSTANTS
  small = small
  large = large
  Values = {small, large}
  NoValue = NoValue
  reg_size <- SmallAndLarge
  BLOCK_SIZE = 115
  max_reg_size = 40
  MaxPages = 2
  MaxBulk = 2
  MaxFailures = 1
INVARIANTS
  TypeOK
  PagesAreSound
  ListIsWhole
  KeysAgree
  PinsReturned
PROPERTY ImplementsRecordStore
CHECK_DEADLOCK FALSE
