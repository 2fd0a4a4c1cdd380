\* Pages of two records, as in Records.cfg.
SPECIFICATION Spec
CONSTANTS
  small = small
  large = large
  Values = {small, large}
  NoValue = NoValue
  reg_size <- SmallAndLarge
  BLOCK_SIZE = 115
  max_reg_size = 40
  MaxPages = 2
  MaxBulk = 2
  MaxFailures = 1
INVARIANT SelectAgrees
CHECK_DEADLOCK FALSE
