SPECIFICATION Spec
CONSTANTS
  Programs <- MCPrograms
  Input <- MCInput
CHECK_DEADLOCK FALSE
INVARIANTS WideSums JumpsDecide QuotientsUndo ShiftIsSteps ShiftPairs MergesBits DecimalSums
