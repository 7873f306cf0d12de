\* Capacity 5: lengths 1, 2 are admitted, 3 is over half of the ring; two
\* frames of 2 leave one free slot, so refusals, exact fits and wraps happen.
CONSTANTS
  Capacity = 5
  Lengths = {1, 2, 3}
  MaxFrames = 4
  KeepTail = FALSE
SPECIFICATION FairSpec
INVARIANTS TypeOK StreamIntact FramesInOrder
PROPERTIES NoOverwrite PublishedIsRead ImplementsLossyStream
CHECK_DEADLOCK FALSE
