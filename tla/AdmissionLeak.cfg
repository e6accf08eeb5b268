\* Requests of one session may be in flight together.
SPECIFICATION Spec
CONSTANTS
  Requests = {r1, r2}
  Sessions = {s1, s2}
  big = big
  small = small
  Tiers <- MCTiers
  Capacity <- MCCapacity
  MaxQueue = 2
  Overlapping = TRUE
  None = None

INVARIANT IdleMeansAllFree
