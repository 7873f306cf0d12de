CONSTANTS
  Underlying = "fut"
  Chain = {"c1"}
  Ticks <- MCTicks
  MinStrikes = 1
  RingFrames = 2
  ChannelCap = 1
  MaxTicks = 4
  MaxPublished = 3
SPECIFICATION Spec
INVARIANTS TraderSeesLastQuote DaemonMarksLastPositive SurfaceRestsOnQuotes
PROPERTIES EveryEventIsRead
CHECK_DEADLOCK FALSE
