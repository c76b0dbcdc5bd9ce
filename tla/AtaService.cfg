\* One path, requests up to and past the end of the file, reads and writes that fail,
\* writes that fall short.
SPECIFICATION Spec
CONSTANTS
  None = None
  p1 = p1  p2 = p2
  Paths = {p1}
  Size = 1
  Beyond = 1
  MaxTag = 3
  MaxPending = 2
  MaxFrames = 2
  Fails = TRUE
  WriteShort = TRUE
INVARIANTS AcknowledgedIsStored ReadsRight
\* The client sends a bounded number of requests.
CHECK_DEADLOCK FALSE
