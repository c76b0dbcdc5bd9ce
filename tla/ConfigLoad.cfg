\* Files of up to three devices that inherit from a default section, and of up to
\* two devices without one, some of them wrong, and of up to two log targets.
SPECIFICATION Spec
CONSTANTS
  None = None
  Files <- AllFiles
  Strings <- Words
  NoSlot = 3
  NoShelf = 1
  Kind <- Targets
  OpenFails = TRUE
INVARIANTS LoadedIsMeant LoadedIsRight RefusedIsWrong
