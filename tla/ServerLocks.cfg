\* Two client threads, a subscriber and the notification thread.
SPECIFICATION FairSpec
CONSTANTS
  Client = {c1, c2}
  Adder = {a1}
  Notifier = notifier
  NoThread = nobody
  MaxCalls = 4
INVARIANTS NoRace SnapshotsAgree UnlocksOwn SomeoneMoves
PROPERTIES CallsEnd
CHECK_DEADLOCK FALSE
