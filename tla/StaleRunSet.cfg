\* The terminal UI alone, with a file created in it.
CONSTANTS
  writer = writer
  checker = checker
  tui = tui
  nobody = nobody
  Clis = {}
  Tui = tui
  None = nobody
  Catalog <- Three
  AtStart = {"s1", "s2"}
  Acknowledged = {"s2"}
  Opts <- NoRuns
  Outcomes <- GapOutcomes
  Fragile = {"s3"}
  Unlucky = {}
  Touched = {"s2", "s3"}
  Filters <- Searches
  MaxEdits = 1
  MaxLaunches = 1
SPECIFICATION Spec
INVARIANT RunAllCoversVisible
\* Every process may have exited.
CHECK_DEADLOCK FALSE
