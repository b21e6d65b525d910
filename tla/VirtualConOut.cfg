\* A writer of higher priority may interrupt.
SPECIFICATION Spec
CONSTANTS
  ModeData <- MCModeData
  Strings <- MCStrings
  Attributes = {7, 23}
  Tpl = {4, 8}
  Addr = {b1, b2, b3, b4}
  MaxHistory = 2
SYMMETRY MCSymmetry
INVARIANTS CursorOnScreen AttributeRestored RowsAccounted
CHECK_DEADLOCK FALSE
