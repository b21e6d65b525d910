\* Two applications after one another, an interpreter start may fail; the system stops
\* when both are done.
SPECIFICATION FairAppSpec
CONSTANTS
  App = {a1, a2}
  Req <- MCReq
  NULL = NULL
  InitMayFail = TRUE
INVARIANTS HeapFaultExplained
PROPERTIES AppsAreQuiet AppsReturn ArgsReachScript ImplementsPromise
CHECK_DEADLOCK FALSE
