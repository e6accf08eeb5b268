\* The thresholds of configs/gateway.yaml, one backend whose probes never
\* overlap and one with up to three probes in flight.
SPECIFICATION FairSpec
CONSTANTS
  quick = quick
  slow = slow
  Backends <- MCBackends
  FailuresToDown = 3
  SuccessesToUp = 2
  MaxOverlap <- MCMaxOverlap
INVARIANTS TypeOK RegistryAgrees FewFailuresInPool
PROPERTIES OutageIsDetected RecoveryIsDetected
