\* Two listeners walk while two targets are added and one is deleted; slots are
\* 0..2, so the default section's slot wraps.
SPECIFICATION FairSpec
CONSTANTS
  l1 = l1  l2 = l2  s1 = s1  s2 = s2  s3 = s3  s4 = s4
  i1 = i1  i2 = i2  f1 = f1  f2 = f2  None = None
  Listeners = {l1, l2}
  Structs = {s1, s2, s3, s4}
  Ifs = {i1, i2}
  Files = {f1, f2}
  Unset = 2
  InitList <- TwoPaths
  InitAttr <- TwoPathsAttr
  AddRequests <- Adds
  DelRequests <- Dels
  HasDefault = TRUE
  DefaultIfc = i2
  FirstSlot = 1
  MaxStatus = 1
  OpenFails = TRUE
INVARIANTS ListShape WholeWalk UniqueTargets
\* A deleted target crashes the daemon, and then it does nothing any more.
CHECK_DEADLOCK FALSE
PROPERTIES FramesServed RequestsServed
