SPECIFICATION SharedFairSpec
CONSTANTS
  Callers = {c1, c2}
  NoCaller = NoCaller
  Default = Default
  NoAnswer = NoAnswer
  TIME_MAX = 4
  RANDOM_MASK = 1
  SeedTimes = {1, 5}
  MaxCalls = 3
  FreeClock = 1
  MaxClock = 4
  ClockStepsInReread = FALSE
  DrawPanics = TRUE
INVARIANTS RealTimeOrder
PROPERTIES NoIdFromTornState CoreSpec ValidCallsServed EveryCallReturns
