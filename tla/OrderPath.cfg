\* Two orders; a dispatch channel of one message, which the three messages of
\* an acceptance overflow.
CONSTANTS
  MaxOrders = 2
  MaxInFlight = 1
  InboxCap = 1
  Commands <- MCCommands
  Hedges <- MCHedges
  Amendments <- MCAmendments
SPECIFICATION FairSpec
INVARIANTS TypeOK NoIdReuse AcksAreTrue WaitersHaveCallers WorkingTermsWereAsked CacheFollowsGateway
PROPERTIES PlaceReturns SweepRuns
CHECK_DEADLOCK FALSE
