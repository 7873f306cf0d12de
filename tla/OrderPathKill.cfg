CONSTANTS
  MaxOrders = 2
  MaxInFlight = 1
  InboxCap = 2
  Commands <- MCCommands
  Hedges <- MCHedges
  Amendments <- MCAmendments
SPECIFICATION Spec
PROPERTIES KillCancelsResting
CHECK_DEADLOCK FALSE
