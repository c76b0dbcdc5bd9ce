\* Two listeners, two frames; one device has the broadcast address.
SPECIFICATION FairSpec
CONSTANTS
  i1 = i1  i2 = i2  d1 = d1  d2 = d2
  p1 = p1  p2 = p2
  a1 = a1  a2 = a2  bc = bc  None = None
  Listeners = {i1, i2}
  Devices = {d1, d2}
  Packets = {p1, p2}
  Addrs = {a1, a2, bc}
  Broadcast = bc
  Addr <- ApiAddr
  Kind <- ApiKind
  DevAddr <- ApiDev
  BcastRows <- NoRows
  LittleEndian = FALSE
  Spurious = FALSE
  MallocFails = FALSE
\* When all frames have come the threads sleep for ever.
CHECK_DEADLOCK FALSE
INVARIANTS RefcountExact NoStaleWork
PROPERTY Delivery
