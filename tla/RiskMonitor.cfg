\* Two days; one market move and back, one sentinel each of a clearable and a
\* sticky kind, one restart.
CONSTANTS
  Armed = {"margin", "delta", "theta", "daily_pnl"}
  MaxDay = 1
  MaxMoves = 2
  Keys = {"daily_pnl", "margin"}
  MaxInduced = 1
  MaxRestarts = 1
SPECIFICATION RiskFairSpec
INVARIANTS TypeOK InducedAtMostOnce
PROPERTIES KillsAreSticky BreachIsActedOn HaltIsLifted
CHECK_DEADLOCK FALSE
