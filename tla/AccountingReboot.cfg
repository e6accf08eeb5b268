\* The same system over five ticks, for the claim about restored windows.
SPECIFICATION Spec
CONSTANTS
  Agents = {a1, a2}
  Amounts = {1, 2}
  Budget = 3
  Window = 2
  Missing = Missing
  Torn = Torn
  Horizon = 5
  MaxDebits = 2
INVARIANTS NothingStale
