\* Two calls of route at a time over two cache keys with a TTL of two ticks.
SPECIFICATION Spec
CONSTANTS
  Callers = {c1, c2}
  Keys = {k1, k2}
  Ttl = 2
  FollowupStays = TRUE
  None = None
INVARIANTS TypeOK CacheIsFresh
PROPERTIES AsksOncePerTtl
SYMMETRY Symmetry
