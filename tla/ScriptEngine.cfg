\* Callers a timer tick apart, an interpreter start may fail.
SPECIFICATION QuietSpec
CONSTANTS
  Req = {r1, r2, r3}
  NULL = NULL
  InitMayFail = TRUE
SYMMETRY Symmetry
INVARIANTS NoControlFault OnlyJobOwnsMemory OneWakeUp
PROPERTIES SharedInterpreterSurvives RunningScriptUndisturbed
CHECK_DEADLOCK FALSE
