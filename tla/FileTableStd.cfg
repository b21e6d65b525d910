\* Scripts open plain files by name, and any number that is not a file of theirs.
\* One handle serves redirections.
SPECIFICATION Spec
CONSTANTS
  Obj = {o1, o2, o3}
  Handle = {h1, h2, h3, h4}
  Redirect = {x}
  PoolSize = 5
  Numbers <- StdNumbers
  Folders = FALSE
  NULL = NULL
SYMMETRY Symmetry
INVARIANTS FullMeansManyOpen StandardIoExplained
\* The model ends at the use of a closed handle.
CHECK_DEADLOCK FALSE
