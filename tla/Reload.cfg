\* Loads and starts may fail, up to three configurations; two listeners queue
\* requests for one worker.
SPECIFICATION FairSpec
CONSTANTS
  i1 = i1  i2 = i2  d1 = d1  d2 = d2
  Ifs = {i1, i2}
  Devs = {d1}
  MaxLoads = 3
  MaxQueue = 2
  LoadFails = TRUE
  StartFails = TRUE
INVARIANTS NoFreedListener Drained InService
PROPERTY ReloadEnds
\* The daemon may die, and then it does nothing any more.
CHECK_DEADLOCK FALSE
