SPECIFICATION Spec
CONSTANTS
  MemSize = 4
  IoPorts = 2
  Writes <- MCWrites
  WrongSize <- MCWrongSize
  MaxSteps = 2
INVARIANTS OnlyWholeSaves RefusalTells
