\* Two option fills of two half-deltas each, two hedge orders, one repeated
\* execution of either kind; a fills channel of two entries, which lags, and
\* one exec id remembered, which is evicted.
CONSTANTS
  OptionQtys = {2}
  OptionDelta = 1
  Tolerance = 1
  ReconcileEvery = 2
  ProcessedMax = 1
  FillCap = 2
  MaxFills = 2
  MaxOrders = 2
  MaxRepeats = 1
SPECIFICATION HedgeFairSpec
INVARIANTS EachExecutionOnce
PROPERTY OpenHedgeIsRepaired
CHECK_DEADLOCK FALSE
