\* Two notifications: two threads 3, each with its thread 4.
CONSTANTS
  MaxNews = 2
  MaxRetries = 1
SPECIFICATION FairSpec
INVARIANTS OneSchedule PlanIsCurrent
 
CHECK_DEADLOCK FALSE
