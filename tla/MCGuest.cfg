SPECIFICATION Spec
CONSTANTS
  Programs <- MCPrograms
  Input <- MCInput
  Disks <- MCDisks
  Time <- MCTime
CHECK_DEADLOCK FALSE
INVARIANTS OperandsAddressed CallsReturn BlocksMoved ScansStop
PROPERTIES InstructionsFollow ControlAbstracted
