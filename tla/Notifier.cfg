\* Two slots, two subscribers; threads are detached in time.
CONSTANTS
  s1 = s1
  s2 = s2
  none = none
  Slot <- MCSlot
  NoSlot <- MCNoSlot
  Sub = {0, 1}
  MaxVersion = 1
SPECIFICATION FairPrompt
INVARIANTS   BufferSafe
PROPERTIES DeliveredInOrder 
CHECK_DEADLOCK FALSE
