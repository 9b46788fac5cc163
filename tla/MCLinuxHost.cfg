SPECIFICATION LFairSpec
CONSTANTS
  Loc = {"exit", "code"}
  Exit = "exit"
  Boot = "code"
  Isr <- FlatIsr
  SegReg = {"ES"}
  Period = 1
  GuestOps = {"putchar", "flags", "hlt"}
  GuestTF = {FALSE}
  KbdEntry = "kbd"
  KbdRead = "kread"
  Key = {"a"}
  Esc = "esc"
  MaxKeys = 2
  OutSize = 8
  InSize = 2
  Budget = 28
CHECK_DEADLOCK FALSE
INVARIANTS HostInv FlushedAtEnd
PROPERTIES HostContract ShutsDown HaltWakes KeysTaken
