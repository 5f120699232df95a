SPECIFICATION WasmSpec
CONSTANTS
  Js = js
  Callers = {js}
  NoAnswer = NoAnswer
  Fraction = Fraction
  TIME_MAX = 4
  RANDOM_MASK = 1
  SeedTimes = {1, 5}
  MaxCalls = 4
  FreeClock = 1
  MaxClock = 4
  ClockStepsInReread = FALSE
  DrawPanics = TRUE
INVARIANTS OverflowRejected
