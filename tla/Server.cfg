\* Two servers, three calls, one edit; and the questions.
INIT Init
NEXT Next
CONSTANTS
  s1 = s1
  s2 = s2
  c1 = c1
  c2 = c2
  e1 = e1
  e2 = e2
  e3 = e3
  k1 = k1
  k2 = k2
  web = web
  py = py
  ghost = ghost
  in = in
  gone = gone
  out = out
  Servers = {s1, s2}
  Unsafe = {s2}
  OverlayCalls <- SomeCalls
  EditedBodies <- SomeBodies
  ModuleCalls <- SomeModuleCalls
  KeyOf <- SomeKeys
  OverlaysAt <- SomeOverlaysAt
  Worlds <- SomeWorlds
  EvaluatorInputs <- SomeInputs
  EditedFiles <- SomeFiles
  SortableLists = {{1, 2}, {0, 1}}
  MaxCalls = 3
  MaxEdits = 1
  MaxTime = 2
INVARIANTS
  ServedIsCurrent
  CommandsApproved
  ApprovalsKept
  EntriesKept
  AppendedStays
  CascadeByTier
  ValidMeansUsable
  FingerprintFaithful
  PlanStable
CHECK_DEADLOCK FALSE
