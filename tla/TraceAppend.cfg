\* Two processes, three emits, two faults: a process can fall behind by the two
\* retries, a retried emit can leave a torn file, and a recount can meet an
\* append halfway.
SPECIFICATION Spec
CONSTANTS
  Procs = {a, b}
  Unknown = Unknown
  RetryLimit = 2
  MaxEmits = 3
  MaxFaults = 2
SYMMETRY Interchangeable
INVARIANTS
  AckedKeepsItsSlot
  FloorBehindDisk
  GaplessFiles
  EventOrder
PROPERTIES
  EmitsAccounted
  KeepsTheLog
CHECK_DEADLOCK FALSE
