SPECIFICATION Spec
CONSTANTS
  Programs <- MCPrograms
  Input <- MCInput
CHECK_DEADLOCK FALSE
INVARIANT DivideReturns
