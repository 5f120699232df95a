SPECIFICATION Spec
CONSTANTS
  writer = writer
  reader = reader
  Threads = {writer, reader}
  ClockMax = 2
  Programs <- AllPrograms
  TIME_MAX = 4
  RANDOM_MASK = 2
  SeedTimes = {1, 2}
  MaxSeeded = 3
  FreeClock = 1
  MaxClock = 4
  BLOCK = 2
  MAX_BATCH = 2
  Counts = {0, 2, 3}
  Lengths = {0, 3, 4}
  Panics = TRUE
  MaxCalls = 2
CHECK_DEADLOCK FALSE
INVARIANTS SoleWriterObeyed ReproducibleUnlessExhausted OneMillisecond WholeBlocks
