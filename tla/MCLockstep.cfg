SPECIFICATION Spec
CONSTANTS
  Loc = {"exit", "code", "int7", "inta"}
  Exit = "exit"
  Boot = "code"
  Isr <- Handlers
  SegReg = {"ES", "CS"}
  Period = 3
  Wrap = 8
  Ulong = 16
  Setups <- MCSetups
  Key = {"a", "esc"}
  Esc = "esc"
  QueueSize = 2
  Commands <- MCCommands
  ControlEvery = 2
CHECK_DEADLOCK FALSE
INVARIANTS LockstepHolds KeysTogether OnlyStoresWait RepliesTell WithinLimit
