SPECIFICATION BothFairSpec
CONSTANTS
  Loc = {"exit", "code"}
  Exit = "exit"
  Boot = "code"
  Isr <- FlatIsr
  SegReg = {"ES", "CS"}
  Period = 3
  GuestOps = {"plain", "lea", "seg", "rep", "flags", "int", "hlt"}
  GuestTF = {FALSE, TRUE}
  KbdEntry = "kbd"
  KbdRead = "kread"
  Key = {}
  Esc = "esc"
  MaxKeys = 0
  OutSize = 8
  InSize = 2
  Budget = 8
INVARIANTS TypeOK PrefixScope StringInScope
PROPERTY AsyncNotSplit RunReturns
