\* One listener, two workers, five frames on linked queues, with failing malloc and
\* spurious wakeups, on a big-endian build.
SPECIFICATION Spec
CONSTANTS
  i1 = i1  i2 = i2  d1 = d1  d2 = d2
  p1 = p1  p2 = p2  p3 = p3  p4 = p4  p5 = p5
  a1 = a1  a2 = a2  bc = bc  None = None
  Listeners = {i1}
  Devices = {d1, d2}
  Packets = {p1, p2, p3, p4, p5}
  Addrs = {a1, a2, bc}
  Broadcast = bc
  Addr <- MixAddr
  Kind <- MixKind
  DevAddr <- MixDev
  BcastRows <- MixRows
  LittleEndian = FALSE
  Spurious = TRUE
  MallocFails = TRUE
\* When all frames have come the threads sleep for ever.
CHECK_DEADLOCK FALSE
INVARIANTS IInv UseSafe NoLostWakeup ResponsesDropped Linked
