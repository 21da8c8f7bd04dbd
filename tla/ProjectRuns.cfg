\* Two command-line runs and the terminal UI on one project.
CONSTANTS
  writer = writer
  checker = checker
  tui = tui
  nobody = nobody
  Clis = {writer, checker}
  Tui = tui
  None = nobody
  Catalog <- Three
  AtStart = {"s1", "s2"}
  Acknowledged = {"s2"}
  Opts <- TwoRuns
  Outcomes <- GapOutcomes
  Fragile = {"s3"}
  Unlucky = {writer}
  Touched = {"s2", "s3"}
  Filters <- Searches
  MaxEdits = 1
  MaxLaunches = 1
SPECIFICATION FairSpec
INVARIANTS
  OneRunAtATime
  NoLostAcknowledgement
  RecordsAreRuns
  TrendMatchesLedger
PROPERTIES
  DriftNeverMissed
  TuiRunEnds
\* Every process may have exited.
CHECK_DEADLOCK FALSE
