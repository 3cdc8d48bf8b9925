\* Three messages, shorter and longer than a block.
SPECIFICATION FairSpec
CONSTANTS
  BUFFER_SIZE = 3
  Length = {1, 2, 4, 5}
  MaxMessages = 3
INVARIANTS PrefixReturned WaitsIfCut SentIsInStream
PROPERTIES Delivered
CHECK_DEADLOCK FALSE
