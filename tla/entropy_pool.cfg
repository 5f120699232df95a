SPECIFICATION Spec
CONSTANTS
  Threads = {t1, t2}
  PoolSize = 3
  MaxFresh = 9
  FillPanics = TRUE
INVARIANTS TypeOK NoWordReused
