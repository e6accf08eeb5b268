\* Two requests and two small backends, for the claim about one backend.
SPECIFICATION GatewaySpec
CONSTANTS
  Requests = {r1, r2}
  Sessions = {s1, s2}
  Tiers <- MCTiers
  Capacity <- MCCapacity
  MaxQueue = 1
  Overlapping = FALSE
  None = None
  Big = Big
  Small = Small
  AnyTier = AnyTier
  big0 = big0
  small0 = small0
  small1 = small1
  Backends = {big0, small0, small1}
  TierOf <- MCTrioTierOf
  MaxInflight <- MCTrioMaxInflight
INVARIANTS BackendLimitIsKept
