SPECIFICATION FairSpec
CONSTANTS
  Senders = {s1, s2}
  Slots = 2
  PayloadLen = 3
  MaxFrame = 2
  Sizes = {1, 2, 3}
  MaxOps = 2
INVARIANTS SealComplete SpansDisjoint FramesWhole
PROPERTIES CommittedFrozen RefinesTraceLog ReceiverNeverWaits
CHECK_DEADLOCK FALSE
