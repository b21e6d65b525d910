SPECIFICATION Spec
CONSTANTS
  Req = {r1, r2}
  NULL = NULL
  InitMayFail = FALSE
PROPERTY RefusedWhileBusy
