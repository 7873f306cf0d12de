\* A book of 2 at 4 that goes dark; a theo near it, whose quotes round to the
\* other side's best, and one far above, which makes the quotes stale.  Two
\* orders, and rings of two frames, which overflow.
CONSTANTS
  Bids = {0, 2}
  Asks = {4}
  Theos = {11, 23}
  MinEdgeTicks = 1
  DeltaCeiling = 3
  DeltaKill = 5
  Deltas = {0, 2}
  RingCap = 2
  MaxOrders = 2
SPECIFICATION Spec
INVARIANTS TypeOK IdsAreMapped NoOrphans QuoteKeepsEdge
CHECK_DEADLOCK FALSE
