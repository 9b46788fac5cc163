SPECIFICATION FairSpec
CONSTANTS
  Loc = {"exit", "code", "kbd", "kread"}
  Exit = "exit"
  Boot = "code"
  Isr <- KbdIsr
  SegReg = {"ES"}
  Period = 3
  GuestOps = {"plain", "seg", "flags", "int", "hlt", "putchar"}
  GuestTF = {FALSE}
  KbdEntry = "kbd"
  KbdRead = "kread"
  Key = {"a", "esc"}
  Esc = "esc"
  MaxKeys = 2
  OutSize = 8
  InSize = 4
  Budget = 8
INVARIANTS KeysInOrder NoOutputLost
PROPERTIES KeysServed
