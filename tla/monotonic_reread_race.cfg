SPECIFICATION Spec
CONSTANTS
  Callers = {c1}
  TIME_MAX = 7
  RANDOM_MASK = 1
  SeedTimes = {2}
  MaxCalls = 3
  FreeClock = 2
  MaxClock = 6
  ClockStepsInReread = TRUE
  DrawPanics = FALSE
INVARIANTS StrictlyIncreasing
