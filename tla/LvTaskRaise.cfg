SPECIFICATION Spec
CONSTANTS
  t1 = t1
  t2 = t2
  t3 = t3
  NULL = NULL
  Task <- MCThree
  HIGHEST = 3
  RepeatCounts <- MCRepeat
  CallbackOps = {"raise"}
INVARIANT MutexMeansRunning
CHECK_DEADLOCK FALSE
