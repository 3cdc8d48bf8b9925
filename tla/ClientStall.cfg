\* A notification before the node is in the table, and one after.
CONSTANTS
  MaxNews = 2
  MaxRetries = 1
SPECIFICATION FairSpec
PROPERTIES UpdatesContinue
CHECK_DEADLOCK FALSE
