\* Two sessions of one or two turns, or two rows to replay, one at a time where
\* a semaphore admits them; a study of two profiles and a drill of one request
\* before and two after the stop; two sessions of the demo agent of at most
\* three requests with at most two tool calls each.
SPECIFICATION ClientsFairSpec
CONSTANTS
  Total = 2
  Concurrency = 1
  Turns = {1, 2}
  Earlier = Earlier
  Profiles = 2
  Before = 1
  After = 2
  AgentSessions = 2
  MaxTurns = 3
  MaxCalls = 2
INVARIANTS ClientsTypeOK ConcurrencyIsKept RowsAreWholeSessions SummaryTellsThisStudy EveryCallIsAnswered ResultsAreWhole
PROPERTIES EveryProgramEnds
\* Every program comes to an end.
CHECK_DEADLOCK FALSE
