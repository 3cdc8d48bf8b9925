\* A subscriber and two changes; every step of every thread is fair.
CONSTANTS
  s1 = s1
  s2 = s2
  none = none
  Slot <- MCSlot
  NoSlot <- MCNoSlot
  Sub = {0}
  MaxVersion = 2
SPECIFICATION FairPrompt
PROPERTIES ChangeAnnounced
CHECK_DEADLOCK FALSE
