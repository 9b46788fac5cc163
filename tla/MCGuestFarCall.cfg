SPECIFICATION Spec
CONSTANTS
  Programs <- FarCallPrograms
  Input <- MCInput
  Disks <- MCDisks
  Time <- MCTime
CHECK_DEADLOCK FALSE
INVARIANT FarCallReturns
