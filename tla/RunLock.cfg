\* Three sessions over two servers: enough for a break that races with a fresh
\* link, for a late tear-down beside a recovered run, and for a reused pid.
SPECIFICATION Spec
CONSTANTS
  Servers = {p1, p2}
  Sessions = {s1, s2, s3}
  RunIds = {r1, r2}
  NoLock = NoLock
  Unreadable = Unreadable
  None = None
SYMMETRY Interchangeable
INVARIANTS
  HolderOwnsTheLock
  JudgedStaleIsOver
  LockIsSomeonesBusiness
  FailsOnlyToARival
PROPERTY
  KeepsThePromise
