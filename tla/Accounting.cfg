\* Two agents, two debits over four ticks, a window of two ticks, and saves,
\* failures, stops, crashes, host reboots and restarts anywhere.
SPECIFICATION FairSpec
CONSTANTS
  Agents = {a1, a2}
  Amounts = {1, 2}
  Budget = 3
  Window = 2
  Missing = Missing
  Torn = Torn
  Horizon = 4
  MaxDebits = 2
INVARIANTS TypeOK CountedExactly SavedDebitsSurvive BudgetIsTruthful
PROPERTIES EveryDebitIsSaved
