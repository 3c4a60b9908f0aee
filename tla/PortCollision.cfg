CONSTANTS
  Procs = {p1, p2}
  Worktrees = {w1, w2}
  Ports = {a, b}
  None = None
SYMMETRY Interchangeable
SPECIFICATION Spec
INVARIANT PortsNeverCollide
