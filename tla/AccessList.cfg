\* Two paths of one target with two lists each: checks while SETACL changes them.
SPECIFICATION Spec
CONSTANTS
  d1 = d1  d2 = d2  None = None
  Devices = {d1, d2}
  Followed = {d1}
  Macs = {"m1", "m2"}
  Fields <- TwoFields
  Names = {"mixed", "deny"}
  Block <- Blocks
  Unknown = "unknown"
  All = "all"
INVARIANTS Justified
PROPERTIES SuccessMeansSet PathsAlike
\* A check against a NULL list ends the daemon.
CHECK_DEADLOCK FALSE
