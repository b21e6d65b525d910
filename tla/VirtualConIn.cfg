\* Readers and registrations at both priorities.  A phantom key or a freed node ends a
\* behaviour.
SPECIFICATION FairSpec
CONSTANTS
  Code = {a}
  ShiftState = {0, 1}
  ToggleState = {0}
  Callback = {f}
  CallbackReads = TRUE
  CallbackNotify = TRUE
  MaxPress = 3
  MaxNotify = 3
  NULL = NULL
INVARIANTS KeysInOrder RegisteredOnce PhantomExplained
PROPERTY KeysAreRead
CHECK_DEADLOCK FALSE
