\* The small tier of configs/gateway.yaml, two backends; one session, which may
\* have two requests in the gateway; two failures to DOWN, two successes to
\* HEALTHY, so that a backend passes through DEGRADED both ways.
SPECIFICATION FailoverFairSpec
CONSTANTS
  small0 = small0
  small1 = small1
  s1 = s1
  Backends = {small0, small1}
  FailuresToDown = 2
  SuccessesToUp = 2
  MaxOverlap <- MCMaxOverlap
  Requests = {r1, r2}
  Sessions = {s1}
  Elsewhere = Elsewhere
  Ttl = 1
  MaxScore = 2
  Score <- MCScore
  None = None
INVARIANT FailoverTypeOK
PROPERTIES DeadBackendIsLeft SessionsSettle
