SPECIFICATION GenFairSpec
CONSTANTS
  Callers = {c1, c2}
  NoCaller = NoCaller
  Default = Default
  MAX_BATCH = 2
  TIME_MAX = 4
  RANDOM_MASK = 1
  SeedTimes = {1, 5}
  MaxCalls = 6
  FreeClock = 1
  MaxClock = 4
  ClockStepsInReread = FALSE
  DrawPanics = TRUE
INVARIANTS BatchContiguous WordsContiguous
PROPERTIES CoreSpec EveryCallReturns
