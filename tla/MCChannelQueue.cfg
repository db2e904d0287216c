SPECIFICATION Spec
CONSTANTS
  Chan = {c1, c2}
  NoAddr = NoAddr
  Bundles = {b1, b2, b3}
  Critical = 1
  Overflow = 1
  MaxPackets = 2
  MaxSent = 3
SYMMETRY MCSymmetry
INVARIANTS
  TypeOK
  OwnedOnce
  QueueInOrder
  WaitsForEvent
  WindowBounds
PROPERTY BundlesKept
CHECK_DEADLOCK FALSE
