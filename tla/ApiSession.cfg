\* One qdctl and one other program, on an interface with jumbo frames.  Thirteen
\* targets fit into a reply, fourteen do not.
SPECIFICATION Session
CONSTANTS
  None = None
  IfMtus = {4200}
  CfgMtus = {0, 1024}
  SetMtus = {}
  Counts = {8, 19}
  q = q  o = o
  Clients = {q, o}
  Qdctl = {q}
  Commands <- Asked
  Slots = {1, 2}
  FirstTargets = {1}
  Others = 12
  Ifs = 1
  Acls = 16
  Unknown = Unknown
INVARIANTS OwnAnswer ToldRight NoMutualWait WholeWrites AnswersSent
\* The API may end up stuck, and the programs come to an end.
CHECK_DEADLOCK FALSE
PROPERTIES Served SentIsDone
