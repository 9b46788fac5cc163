SPECIFICATION FairSpec
CONSTANTS
  Size = 4
  Byte = {b1, b2}
  Nul = b1
  MaxLen = 3
INVARIANTS RoomForAccepted BytesForClaimed SlotsDisjoint CopyStillCurrent
PROPERTIES ImplementsQueue EventuallyDelivered
