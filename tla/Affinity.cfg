\* Two sessions, one big and two small backends, two callers whose calls
\* interleave, bindings that live for two ticks without a turn.
SPECIFICATION Spec
CONSTANTS
  s1 = s1
  s2 = s2
  big0 = big0
  small0 = small0
  small1 = small1
  big = big
  small = small
  Sessions = {s1, s2}
  Backends = {big0, small0, small1}
  Tiers = {big, small}
  TierOf <- MCTierOf
  MaxScore = 3
  Score <- MCScore
  Ttl = 2
  Callers = {c1, c2}
  None = None
INVARIANTS TypeOK EntriesKeepTheirTier
PROPERTIES StickyAcrossTurns NobodyStaysBehind
SYMMETRY Symmetry
