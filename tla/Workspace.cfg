\* Two runs, two commits, a kill and a cleanup; two migrations of a hook;
\* a health check of up to three polls.
INIT Init
NEXT Next
CONSTANTS
  r1 = r1
  r2 = r2
  m1 = m1
  m2 = m2
  t1 = t1
  t2 = t2
  v1 = v1
  v2 = v2
  Runs = {r1, r2}
  Asked <- SomeAsked
  MaxCommits = 2
  MaxKills = 1
  MaxCleanups = 1
  Migrations = {m1, m2}
  MaxEdits = 2
  MaxInstant = 2
  PollCap = 4
  Sleep = 1
  Late = 1
  Budgets = {0, 1, 5, 11}
  MaxChanges = 2
  Tools = {t1, t2}
  Values = {v1, v2}
  Unfit = {v2}
  MaxStackCalls = 3
  MaxStackEdits = 1
SYMMETRY Symmetry
INVARIANTS
  CommitsSurvive
  HookKept
  ProbeVerdictFits
  DockerAnswersHold
  StackFilesHold
CHECK_DEADLOCK FALSE
