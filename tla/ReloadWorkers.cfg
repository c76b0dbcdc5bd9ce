\* The device threads are not waited for.
SPECIFICATION Spec
CONSTANTS
  i1 = i1  i2 = i2  d1 = d1  d2 = d2
  Ifs = {i1}
  Devs = {d1}
  MaxLoads = 2
  MaxQueue = 1
  LoadFails = FALSE
  StartFails = FALSE
INVARIANT WorkersStopped
\* The daemon may die, and then it does nothing any more.
CHECK_DEADLOCK FALSE
