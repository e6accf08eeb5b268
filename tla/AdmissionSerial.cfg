\* Four requests of three sessions whose turns do not overlap; one slot for
\* the big tier, two for the small one, and room for two waiting callers.
SPECIFICATION FairSpec
CONSTANTS
  Requests = {r1, r2, r3, r4}
  Sessions = {s1, s2, s3}
  big = big
  small = small
  Tiers <- MCTiers
  Capacity <- MCCapacity
  MaxQueue = 2
  Overlapping = FALSE
  None = None
INVARIANTS TypeOK SlotsConserved QueueIsBounded NoLostWakeup
PROPERTIES NoOvertaking ImplementsPool NoStarvation
