\* A ring of three slots, so that it fills up and wraps, and lines that are just
\* long enough to end a compound statement.
SPECIFICATION Spec
CONSTANTS
  Printable = {"a"}
  Completions <- OneMatch
  Garbage <- AnyText
  HistSize = 3
  MaxLine = 3
  NULL = NULL
CHECK_DEADLOCK FALSE
INVARIANTS HistoryRing OverrunsExplained
PROPERTY EarlierLinesFixed
