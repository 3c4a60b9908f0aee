\* The instance of RunLock.cfg, for the one claim that the code does not keep.
SPECIFICATION Spec
CONSTANTS
  Servers = {p1, p2}
  Sessions = {s1, s2, s3}
  RunIds = {r1, r2}
  NoLock = NoLock
  Unreadable = Unreadable
  None = None
PROPERTY ReleaseSparesSuccessor
