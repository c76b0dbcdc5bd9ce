\* Two paths of one target, requests of two clients on one interface, on a big-endian build.
SPECIFICATION Spec
CONSTANTS
  d1 = d1  d2 = d2  c1 = c1  c2 = c2  i1 = i1  i2 = i2  None = None
  Devices = {d1, d2}
  Ifs = {i1}
  Clients = {c1, c2}
  IfOf <- OneIf
  Bytes = {"a", "b"}
  Words <- Strings
  Cmds = {"read", "match", "partial", "setifempty", "set", "other"}
  Limit = 1
  Base = 2
  LittleEndian = FALSE
  Readers = {c2}
  Setters = {c1, c2}
  MaxQueue = 2
INVARIANTS PathsAgree
PROPERTIES Behaves
SYMMETRY Paths
