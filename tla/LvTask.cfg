SPECIFICATION FairSpec
CONSTANTS
  t1 = t1
  t2 = t2
  t3 = t3
  NULL = NULL
  Task <- MCTwo
  HIGHEST = 3
  RepeatCounts <- MCRepeatBoth
  CallbackOps = {"create", "del", "prio", "ready", "repeat", "raise"}
INVARIANTS SortedByPriority HandlerPointersValid
PROPERTIES ServesAllDue HandlerReturns
CHECK_DEADLOCK FALSE
