\* Three requests of two sessions, which may be in flight together, and one
\* backend with one slot per tier.
SPECIFICATION GatewayFairSpec
CONSTANTS
  Requests = {r1, r2, r3}
  Sessions = {s1, s2}
  Tiers <- MCTiers
  Capacity <- MCPairCapacity
  MaxQueue = 1
  Overlapping = TRUE
  None = None
  Big = Big
  Small = Small
  AnyTier = AnyTier
  big0 = big0
  small0 = small0
  small1 = small1
  Backends = {big0, small0}
  TierOf <- MCPairTierOf
  MaxInflight <- MCPairMaxInflight
INVARIANTS GatewayTypeOK TotalLoadIsBounded
PROPERTIES TierLoadIsBounded UnavailableMeansDown AdmissionAsSpecified EveryRequestIsAnswered
