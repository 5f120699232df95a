SPECIFICATION FairSpec
CONSTANTS
  Callers = {c1, c2}
  TIME_MAX = 7
  RANDOM_MASK = 2
  SeedTimes = {0, 3}
  MaxCalls = 4
  FreeClock = 2
  MaxClock = 6
  ClockStepsInReread = FALSE
  DrawPanics = TRUE
INVARIANTS TypeOK StrictlyIncreasing
PROPERTIES NotBackdated StreamSpec CallsReturn
