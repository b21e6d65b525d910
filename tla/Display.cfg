SPECIFICATION FairSpec
CONSTANTS
  Width = 2
  Height = 3
  BufSize = 2
  InvBufSize = 2
  Areas <- MCAreas
  DrawAreas <- MCDrawAreas
  g1 = g1
  g2 = g2
  Monitors = {g1, g2}
  Res <- MCRes
INVARIANTS TypeOK NothingForgotten PartFitsBuffer FaultsExplained
PROPERTIES RefreshEnds Shown
\* A fault ends a behaviour.
CHECK_DEADLOCK FALSE
