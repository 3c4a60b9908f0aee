---------------------------- MODULE WorkspaceProofs ----------------------------
(***************************************************************************)
(* The invariants of the four parts that MCWorkspace checks side by side:  *)
(* the confinement hook, the docker tools, the files of a stack and the    *)
(* workspaces of the runs, each for every value of its constants.          *)
(***************************************************************************)
EXTENDS Workspace, Hooks, DockerTools, StackFiles, FiniteSetTheorems, TLAPS

-------------------------------------------------------------------------------
(* The confinement hook                                                    *)

HooksSpec == HooksInit /\ [][HooksNext]_hookVars

Phases == {"idle", "stat", "lstat", "read", "backup", "remove", "create"}
Hook == {NoHook, Link} \union {File(text) : text \in Texts}

(* The texts of the project's own hooks are the only ones that are copied. *)
OwnTextsOnly ==
  /\ hook \in Hook
  /\ \A s \in DOMAIN backups : backups[s] \in Texts
  /\ DOMAIN migration = Migrations
  /\ step \in [Migrations -> Phases]
  /\ \A m \in Migrations :
       /\ migration[m] = [action |-> migration[m].action, stamp |-> migration[m].stamp,
                          original |-> migration[m].original]
       /\ step[m] # "idle" => migration[m].action \in {"delete", "replace"}
       /\ step[m] \in {"backup", "remove"} => migration[m].original \in Texts

(* Before a migration unlinks, its backup is there, or shares its name.    *)
BackupBeforeRemove ==
  \A m \in Migrations : step[m] = "remove" =>
    LET stamp == migration[m].stamp IN
    \/ stamp \in shared
    \/ stamp \in DOMAIN backups /\ backups[stamp] = migration[m].original

ReplacedHasBackup ==
  \A r \in replaced : r[1] \in shared \/ (r[1] \in DOMAIN backups /\ backups[r[1]] = r[2])

HookInv == OwnTextsOnly /\ BackupBeforeRemove /\ ReplacedHasBackup

(* What is known of the probe at each of its steps.                        *)
ProbeInv ==
  /\ probe = [step |-> probe.step, ran |-> probe.ran, child |-> probe.child,
              verdict |-> probe.verdict, tempTree |-> probe.tempTree, leaked |-> probe.leaked]
  /\ probe.step \in {"idle", "shebang", "make tree", "spawn", "wait", "clean up", "over"}
  /\ probe.step \in {"idle", "shebang", "make tree", "spawn"} => probe.child = "none"
  /\ probe.step \in {"idle", "shebang", "make tree", "spawn", "wait"} => probe.verdict = "none"
  /\ probe.step \in {"clean up", "over"} => probe.child # "runs"
  /\ probe.step \in {"idle", "shebang", "make tree"} => ~probe.tempTree
  /\ probe.step = "over" /\ probe.tempTree => probe.leaked
  /\ probe.child = "runs" => probe.ran \in Scripts
  /\ probe.verdict = "current" => probe.child = "exited" /\ probe.ran \in {Template, Target}

-------------------------------------------------------------------------------
LEMMA HookInvInit == HooksInit => HookInv /\ ProbeInv
<1> SUFFICES ASSUME HooksInit PROVE HookInv /\ ProbeInv
    OBVIOUS
<1>1. hook \in Hook /\ DOMAIN backups = {}
    BY DEF HooksInit, Hook
<1>2. OwnTextsOnly /\ BackupBeforeRemove /\ ReplacedHasBackup
    BY <1>1 DEF HooksInit, OwnTextsOnly, BackupBeforeRemove, ReplacedHasBackup, Phases,
                NoMigration
<1>3. ProbeInv
    BY DEF HooksInit, ProbeInv, NoProbe
<1> QED BY <1>2, <1>3 DEF HookInv

(* Each call of a migration, and each step of the user.                    *)
LEMMA HookInvNext == HookInv /\ [HooksNext]_hookVars => HookInv'
<1> SUFFICES ASSUME HookInv, [HooksNext]_hookVars PROVE HookInv'
    OBVIOUS
<1> USE DEF HookInv, OwnTextsOnly, BackupBeforeRemove, ReplacedHasBackup, Phases, To
<1>1. ASSUME NEW m \in Migrations, Start(m) PROVE HookInv'
    BY <1>1 DEF Start, NoMigration
<1>2. ASSUME NEW m \in Migrations, GiveUp(m) PROVE HookInv'
    BY <1>2 DEF GiveUp
<1>3. ASSUME NEW m \in Migrations, IsFileAt(m) \/ IsSymlinkAt(m) PROVE HookInv'
  <2>1. PICK next \in {"idle", "lstat", "read", "create"} : step' = [step EXCEPT ![m] = next]
    <3>1. CASE IsFileAt(m) /\ hook # NoHook
        BY <3>1, Zenon DEF IsFileAt
    <3>2. CASE IsFileAt(m) /\ hook = NoHook
      <4>1. migration[m].action \in {"delete", "replace"}
          BY <3>2 DEF IsFileAt
      <4> QED BY <3>2, <4>1, Zenon DEF IsFileAt
    <3>3. CASE IsSymlinkAt(m)
        BY <3>3, Zenon DEF IsSymlinkAt
    <3> QED BY <1>3, <3>1, <3>2, <3>3
  <2>2. step[m] # "idle"
      BY <1>3 DEF IsFileAt, IsSymlinkAt
  <2>3. UNCHANGED <<hook, backups, migration, replaced, shared>>
      BY <1>3 DEF IsFileAt, IsSymlinkAt
  <2> QED BY <2>1, <2>2, <2>3
<1>4. ASSUME NEW m \in Migrations, ReadHookContentsNoFollow(m) PROVE HookInv'
  <2>1. hook.kind = "file" => hook.text \in Texts
      BY DEF Hook, NoHook, Link, File
  <2> QED BY <1>4, <2>1 DEF ReadHookContentsNoFollow
<1>5. ASSUME NEW m \in Migrations, WriteBackup(m) PROVE HookInv'
    BY <1>5 DEF WriteBackup
<1>6. ASSUME NEW m \in Migrations, RemoveHook(m) PROVE HookInv'
  <2>1. hook' \in Hook
      BY <1>6 DEF RemoveHook, Hook, Texts
  <2>2. /\ step' = [step EXCEPT ![m] = "idle"]
        /\ UNCHANGED <<backups, migration, shared>>
      BY <1>6 DEF RemoveHook
  <2>3. step[m] = "remove" /\ replaced' \subseteq
          replaced \union {<<migration[m].stamp, migration[m].original>>}
      BY <1>6 DEF RemoveHook
  <2>4. OwnTextsOnly' /\ BackupBeforeRemove'
      BY <2>1, <2>2
  <2>5. ReplacedHasBackup'
      BY <2>2, <2>3
  <2> QED BY <2>4, <2>5
<1>7. ASSUME NEW m \in Migrations, CreateHook(m) PROVE HookInv'
    BY <1>7 DEF CreateHook, Hook, Texts
<1>8. CASE Tick \/ EditHook
    BY <1>8 DEF Tick, EditHook, Hook, migrationVars
<1>9. CASE RestoreBackup
    BY <1>9 DEF RestoreBackup, Hook, Restrict
<1>10. CASE FindHook \/ CheckShebang \/ MakeTree \/ Spawn \/ ChildExits \/ ChildIsKilled \/ GivesUpOnChild \/ CleanUp
  <2>1. UNCHANGED Steady
      BY <1>10, Zenon DEF FindHook, CheckShebang, MakeTree, Spawn, ChildExits, ChildIsKilled,
                          GivesUpOnChild, CleanUp
  <2> QED BY <2>1 DEF Steady, migrationVars
<1>11. CASE UNCHANGED hookVars
    BY <1>11 DEF hookVars, migrationVars
<1> QED BY <1>1, <1>2, <1>3, <1>4, <1>5, <1>6, <1>7, <1>8, <1>9, <1>10, <1>11 DEF HooksNext

LEMMA ProbeInvNext == ProbeInv /\ [HooksNext]_hookVars => ProbeInv'
<1> SUFFICES ASSUME ProbeInv, [HooksNext]_hookVars PROVE ProbeInv'
    OBVIOUS
<1> USE DEF ProbeInv, Settles, Over, Scripts
<1>1. ASSUME NEW m \in Migrations,
             Start(m) \/ GiveUp(m) \/ IsFileAt(m) \/ IsSymlinkAt(m)
               \/ ReadHookContentsNoFollow(m) \/ WriteBackup(m) \/ RemoveHook(m) \/ CreateHook(m)
      PROVE ProbeInv'
    BY <1>1 DEF Start, GiveUp, IsFileAt, IsSymlinkAt, ReadHookContentsNoFollow, WriteBackup,
                RemoveHook, CreateHook
<1>2. CASE Tick \/ EditHook \/ RestoreBackup
    BY <1>2 DEF Tick, EditHook, RestoreBackup
<1>3. CASE FindHook \/ CheckShebang \/ MakeTree
  <2>1. CASE FindHook
      BY <2>1 DEF FindHook
  <2>2. CASE CheckShebang
      BY <2>2 DEF CheckShebang
  <2>3. CASE MakeTree
      BY <2>3 DEF MakeTree
  <2> QED BY <1>3, <2>1, <2>2, <2>3
<1>4. CASE Spawn
    BY <1>4 DEF Spawn
<1>5. CASE ChildExits
    BY <1>5 DEF ChildExits, Template, Target
<1>6. CASE ChildIsKilled
    BY <1>6 DEF ChildIsKilled
<1>7. CASE GivesUpOnChild
    BY <1>7 DEF GivesUpOnChild
<1>8. CASE CleanUp
    BY <1>8 DEF CleanUp
<1>9. CASE UNCHANGED hookVars
    BY <1>9 DEF hookVars
<1> QED BY <1>1, <1>2, <1>3, <1>4, <1>5, <1>6, <1>7, <1>8, <1>9 DEF HooksNext

-------------------------------------------------------------------------------
(* A hook that a migration took away is in its backup until the user moves *)
(* it back, and nothing from behind a link is ever copied, for any number  *)
(* of migrations (src/cli/commands/hooks-migrate.ts).                      *)
THEOREM HookSafe == HooksSpec => []HookKept
<1>1. HookInv => HookKept
    BY DEF HookInv, HookKept, OwnTextsOnly, ReplacedHasBackup, Range, Texts, Target, Template
<1> QED BY <1>1, HookInvInit, HookInvNext, PTL DEF HooksSpec

(* A probe that is over has left no hook running, and no tree but one that *)
(* would not go; it lets a run go on only past a hook that has exited of   *)
(* itself (src/hook-probe/probe.ts).                                       *)
THEOREM ProbeSafe == HooksSpec => []ProbeVerdictFits
<1>1. ProbeInv => ProbeVerdictFits
    BY DEF ProbeInv, ProbeVerdictFits
<1> QED BY <1>1, HookInvInit, ProbeInvNext, PTL DEF HooksSpec

-------------------------------------------------------------------------------
(* The docker tools                                                        *)

DockerSpec == DockerInit /\ [][DockerNext]_dockerVars

Fields(w) ==
  w = [step |-> w.step, budget |-> w.budget, event |-> w.event, due |-> w.due,
       got |-> w.got, outcome |-> w.outcome]

IsWait(w) ==
  /\ Fields(w)
  /\ w.step \in {"idle", "loop", "fetch", "sleep", "over"}
  /\ w.budget \in Nat /\ w.event \in Int /\ w.due \in Int

WaitTypeOK ==
  /\ clock \in Nat /\ goodSince \in Int
  /\ service \in Services
  /\ IsWait(wait)

(* The longest that a good service has been overlooked when a poll begins. *)
Overlooked == PollCap + Sleep + 2 * Late

(* What is known of the time at each step of the wait.  A poll that met no *)
(* good service bounds by its own length how long there has been one; a    *)
(* good answer that may be lost is the last poll's, cut to the deadline.   *)
OnTime ==
  /\ wait.step = "idle" => clock = 0 /\ goodSince = 0
  /\ wait.step = "loop" =>
       /\ clock <= wait.budget + Late
       /\ service \in Good => clock - goodSince <= Overlooked
  /\ wait.step = "fetch" =>
       /\ wait.event <= wait.due /\ wait.due <= wait.budget
       /\ clock <= wait.event + Late /\ wait.event - clock <= PollCap
       /\ wait.got \notin Good /\ service \in Good => wait.event - goodSince <= PollCap
       /\ wait.got = "good" =>
            /\ wait.event <= clock
            /\ wait.due = wait.event + PollCap \/ wait.due = wait.budget
            /\ service \in Good => wait.event - goodSince <= Overlooked
  /\ wait.step = "sleep" =>
       /\ wait.event <= wait.budget
       /\ clock <= wait.event + Late /\ wait.event - clock <= Sleep
       /\ service \in Good => wait.event - goodSince <= PollCap + Sleep + Late
  /\ wait.outcome = "TimeoutError" =>
       /\ wait.step = "over"
       /\ service \in Good => clock - goodSince <= Overlooked + Late

WaitInv == WaitTypeOK /\ OnTime

(* A layer that the search has passed has said something else than a port. *)
Passed(layer) == saidSoFar[layer] # {layer}

SearchInv ==
  /\ sources = [layer \in {"envVar", "registry", "docker ps", "fallback"} |-> sources[layer]]
  /\ saidSoFar = [layer \in {"envVar", "registry", "docker ps", "fallback"} |-> saidSoFar[layer]]
  /\ discovery = [step |-> discovery.step, outcome |-> discovery.outcome]
  /\ discovery.step \in {"idle", "envVar", "registry", "docker ps", "fallback", "over"}
  /\ discovery.step = "idle" => discovery = NoDiscovery
  /\ discovery.step # "idle" => \A layer \in DOMAIN sources : sources[layer] \in saidSoFar[layer]
  /\ discovery.step \in {"registry", "docker ps", "fallback"} => Passed("envVar")
  /\ discovery.step \in {"docker ps", "fallback"} => Passed("registry")
  /\ discovery.step = "fallback" => Passed("docker ps")
  /\ SearchInOrder

-------------------------------------------------------------------------------
LEMMA MinOfTwo ==
  ASSUME NEW a \in Int, NEW b \in Int
  PROVE  Min({a, b}) \in Int /\ Min({a, b}) \in {a, b} /\ Min({a, b}) <= a /\ Min({a, b}) <= b
<1>1. CASE a <= b
  <2>1. \E x \in {a, b} : \A y \in {a, b} : x <= y
      BY <1>1
  <2> QED BY <2>1 DEF Min
<1>2. CASE b <= a
  <2>1. \E x \in {a, b} : \A y \in {a, b} : x <= y
      BY <1>2
  <2> QED BY <2>1 DEF Min
<1> QED BY <1>1, <1>2

(* The provers take updates of one field only.                            *)
LEMMA TwoUpdates ==
  ASSUME NEW w, Fields(w), NEW s, NEW x
  PROVE  /\ [w EXCEPT !.step = s, !.outcome = x] =
              [step |-> s, budget |-> w.budget, event |-> w.event, due |-> w.due,
               got |-> w.got, outcome |-> x]
         /\ [w EXCEPT !.step = s, !.event = x] =
              [step |-> s, budget |-> w.budget, event |-> x, due |-> w.due,
               got |-> w.got, outcome |-> w.outcome]
         /\ [w EXCEPT !.step = s, !.budget = x] =
              [step |-> s, budget |-> x, event |-> w.event, due |-> w.due,
               got |-> w.got, outcome |-> w.outcome]
<1> DEFINE v == [w EXCEPT !.step = s]
<1>1. v = [step |-> s, budget |-> w.budget, event |-> w.event, due |-> w.due,
           got |-> w.got, outcome |-> w.outcome]
    BY DEF Fields
<1>2. /\ [w EXCEPT !.step = s, !.outcome = x] = [v EXCEPT !.outcome = x]
      /\ [w EXCEPT !.step = s, !.event = x] = [v EXCEPT !.event = x]
      /\ [w EXCEPT !.step = s, !.budget = x] = [v EXCEPT !.budget = x]
    BY Zenon
<1> HIDE DEF v
<1> QED BY <1>1, <1>2

LEMMA FourUpdates ==
  ASSUME NEW w, Fields(w), NEW s, NEW g, NEW d, NEW e
  PROVE  [w EXCEPT !.step = s, !.got = g, !.due = d, !.event = e] =
           [step |-> s, budget |-> w.budget, event |-> e, due |-> d, got |-> g,
            outcome |-> w.outcome]
<1> DEFINE v1 == [w EXCEPT !.step = s]
           v2 == [v1 EXCEPT !.got = g]
           v3 == [v2 EXCEPT !.due = d]
<1>1. [w EXCEPT !.step = s, !.got = g, !.due = d, !.event = e] = [v3 EXCEPT !.event = e]
    BY Zenon
<1>2. v1 = [step |-> s, budget |-> w.budget, event |-> w.event, due |-> w.due, got |-> w.got,
            outcome |-> w.outcome]
    BY DEF Fields
<1> HIDE DEF v1
<1>3. v2 = [step |-> s, budget |-> w.budget, event |-> w.event, due |-> w.due, got |-> g,
            outcome |-> w.outcome]
    BY <1>2
<1> HIDE DEF v2
<1>4. v3 = [step |-> s, budget |-> w.budget, event |-> w.event, due |-> d, got |-> g,
            outcome |-> w.outcome]
    BY <1>3
<1> HIDE DEF v3
<1> QED BY <1>1, <1>4

LEMMA DockerInvInit == DockerInit => WaitInv /\ SearchInv
<1> SUFFICES ASSUME DockerInit PROVE WaitInv /\ SearchInv
    OBVIOUS
<1>1. WaitTypeOK
  <2>1. IsWait(NoWait)
      BY DEF IsWait, Fields, NoWait
  <2> QED BY <2>1 DEF DockerInit, WaitTypeOK
<1>2. OnTime
    BY DockerConstants DEF DockerInit, OnTime, NoWait
<1>3. {Layers[i] : i \in 1..4} = {"envVar", "registry", "docker ps", "fallback"}
  <2>1. 1..4 = {1, 2, 3, 4}
      OBVIOUS
  <2>2. Layers[1] = "envVar" /\ Layers[2] = "registry" /\ Layers[3] = "docker ps" /\ Layers[4] = "fallback"
      BY DEF Layers
  <2> QED BY <2>1, <2>2
<1>4. SearchInv
    BY <1>3 DEF DockerInit, SearchInv, SearchInOrder, NoDiscovery
<1> QED BY <1>1, <1>2, <1>4 DEF WaitInv

-------------------------------------------------------------------------------
(* The health check                                                        *)

LEMMA WaitInvNext ==
  ASSUME Late < PollCap
  PROVE  WaitInv /\ [DockerNext]_dockerVars => WaitInv'
<1> SUFFICES ASSUME WaitInv, [DockerNext]_dockerVars PROVE WaitInv'
    OBVIOUS
<1> USE DockerConstants DEF WaitInv, WaitTypeOK
<1>1. CASE StartWait
  <2>1. PICK budget \in Budgets :
          wait' = IF installed THEN [NoWait EXCEPT !.step = "loop", !.budget = budget]
                  ELSE [NoWait EXCEPT !.step = "over", !.outcome = "ModulePrerequisiteFailed"]
      BY <1>1 DEF StartWait
  <2>2. UNCHANGED <<clock, service, goodSince>> /\ clock = 0 /\ wait.step = "idle"
      BY <1>1 DEF StartWait, Outside, NoWait
  <2>3. budget \in Nat
      OBVIOUS
  <2>4. Fields(NoWait)
      BY DEF Fields, NoWait
  <2>5. CASE installed
    <3>1. wait' = [NoWait EXCEPT !.step = "loop", !.budget = budget]
        BY <2>1, <2>5
    <3>2. wait' = [step |-> "loop", budget |-> budget, event |-> NoWait.event,
                   due |-> NoWait.due, got |-> NoWait.got, outcome |-> NoWait.outcome]
        BY <2>4, <3>1, TwoUpdates, Zenon
    <3> QED BY <2>2, <2>3, <3>2 DEF OnTime, IsWait, Fields, Overlooked, NoWait
  <2>6. CASE ~installed
    <3>1. wait' = [NoWait EXCEPT !.step = "over", !.outcome = "ModulePrerequisiteFailed"]
        BY <2>1, <2>6
    <3>2. wait' = [step |-> "over", budget |-> NoWait.budget, event |-> NoWait.event,
                   due |-> NoWait.due, got |-> NoWait.got,
                   outcome |-> "ModulePrerequisiteFailed"]
        BY <2>4, <3>1, TwoUpdates, Zenon
    <3> QED BY <2>2, <3>2 DEF OnTime, IsWait, Fields, NoWait
  <2> QED BY <2>5, <2>6
<1>2. CASE Poll
  <2>1. UNCHANGED <<clock, service, goodSince>> /\ wait.step = "loop"
      BY <1>2 DEF Poll, Outside
  <2>2. CASE Remaining <= 0
    <3>1. wait' = [wait EXCEPT !.step = "over", !.outcome = "TimeoutError"]
        BY <1>2, <2>2 DEF Poll, IsWait, Remaining
    <3>2. wait' = [step |-> "over", budget |-> wait.budget, event |-> wait.event,
                   due |-> wait.due, got |-> wait.got, outcome |-> "TimeoutError"]
        BY <3>1, TwoUpdates, Zenon DEF IsWait
    <3> QED BY <2>1, <3>2 DEF OnTime, IsWait, Fields, Overlooked
  <2>3. CASE Remaining > 0
    <3> DEFINE until == clock + PerPoll
               event == IF service \in {"silent", "no body"} THEN until ELSE clock
    <3>1. wait.budget - clock \in Int
        BY DEF IsWait
    <3>2. /\ PerPoll \in Int /\ PerPoll \in {PollCap, Remaining}
          /\ PerPoll <= PollCap /\ PerPoll <= Remaining
      <4>1. PollCap \in Int /\ Remaining \in Int
          BY <3>1 DEF Remaining
      <4> QED BY <4>1, MinOfTwo, Zenon DEF PerPoll
    <3>3. PerPoll > 0
        BY <2>3, <3>2
    <3>4. wait' = [wait EXCEPT !.step = "fetch", !.got = service, !.due = until,
                               !.event = event]
      <4>1. ~(Remaining <= 0)
          BY <2>3, <3>1 DEF Remaining
      <4> QED BY <1>2, <4>1, Zenon DEF Poll
    <3>5. until \in Int /\ event \in Int /\ event <= until /\ until <= wait.budget
          /\ clock <= event /\ event <= clock + PollCap
      <4>1. until \in Int /\ until <= wait.budget /\ clock <= until /\ until <= clock + PollCap
          BY <3>1, <3>2, <3>3 DEF Remaining, IsWait
      <4>2. event \in {until, clock}
          OBVIOUS
      <4> HIDE DEF until, event
      <4> QED BY <4>1, <4>2
    <3>6. service = "good" => event = clock
        OBVIOUS
    <3>7. until = clock + PollCap \/ until = wait.budget
        BY <3>2 DEF IsWait, Remaining
    <3> HIDE DEF until, event
    <3>8. /\ wait'.step = "fetch" /\ wait'.got = service /\ wait'.due = until
          /\ wait'.event = event /\ wait'.budget = wait.budget /\ wait'.outcome = wait.outcome
          /\ IsWait(wait')
      <4>1. wait' = [step |-> "fetch", budget |-> wait.budget, event |-> event, due |-> until,
                     got |-> service, outcome |-> wait.outcome]
          BY <3>4, FourUpdates, Zenon DEF IsWait
      <4> QED BY <3>5, <4>1 DEF IsWait, Fields
    <3>9. wait.outcome # "TimeoutError"
        BY <2>1 DEF OnTime
    <3> QED BY <2>1, <3>5, <3>6, <3>7, <3>8, <3>9 DEF OnTime, Overlooked
  <2> QED BY <1>2, <2>2, <2>3 DEF Poll
<1>3. CASE Answered
  <2>1. wait' = [step |-> "over", budget |-> wait.budget, event |-> wait.event,
                 due |-> wait.due, got |-> wait.got, outcome |-> "healthy"]
      BY <1>3, TwoUpdates, Zenon DEF Answered, IsWait
  <2> QED BY <1>3, <2>1 DEF Answered, OnTime, IsWait, Fields, Outside
<1>4. CASE Unanswered
  <2>1. UNCHANGED <<clock, service, goodSince>> /\ wait.step = "fetch" /\ clock >= wait.event
      BY <1>4 DEF Unanswered, Outside
  <2>2. wait' = SleepsOrStops(wait)
      BY <1>4 DEF Unanswered
  <2>3. wait.got \notin Good \/ (wait.got = "good" /\ clock >= wait.due)
      BY <1>4 DEF Unanswered, Good
  (* A good answer is lost only at the deadline.                           *)
  <2>4. CASE wait.budget > clock
    <3> DEFINE pause == Min({Sleep, wait.budget - clock})
    <3>1. /\ pause \in Int /\ pause <= Sleep /\ pause <= wait.budget - clock
          /\ pause \in {Sleep, wait.budget - clock}
      <4>1. Sleep \in Int /\ wait.budget - clock \in Int
          BY DEF IsWait
      <4> QED BY <4>1, MinOfTwo, Zenon
    <3>2. wait.got \notin Good
        BY <2>1, <2>3, <2>4 DEF OnTime, IsWait
    <3>3. wait' = [wait EXCEPT !.step = "sleep", !.event = clock + pause]
        BY <2>2, <2>4 DEF SleepsOrStops
    <3>4. pause >= 0
        BY <2>4, <3>1 DEF IsWait
    <3> HIDE DEF pause
    <3>5. /\ wait'.step = "sleep" /\ wait'.event = clock + pause
          /\ wait'.budget = wait.budget /\ wait'.outcome = wait.outcome
          /\ IsWait(wait')
      <4>1. wait' = [step |-> "sleep", budget |-> wait.budget, event |-> clock + pause,
                     due |-> wait.due, got |-> wait.got, outcome |-> wait.outcome]
          BY <3>3, TwoUpdates, Zenon DEF IsWait
      <4> QED BY <3>1, <4>1 DEF IsWait, Fields
    <3> QED BY <2>1, <3>1, <3>2, <3>4, <3>5 DEF OnTime, IsWait
  <2>5. CASE ~(wait.budget > clock)
    <3>1. wait' = [wait EXCEPT !.step = "over", !.outcome = "TimeoutError"]
        BY <2>2, <2>5 DEF SleepsOrStops
    <3>3. wait' = [step |-> "over", budget |-> wait.budget, event |-> wait.event,
                   due |-> wait.due, got |-> wait.got, outcome |-> "TimeoutError"]
        BY <3>1, TwoUpdates, Zenon DEF IsWait
    <3>2. service \in Good => clock - goodSince <= Overlooked + Late
        BY <2>1, <2>3 DEF OnTime, Overlooked, IsWait
    <3> QED BY <2>1, <3>2, <3>3 DEF OnTime, IsWait, Fields
  <2> QED BY <2>4, <2>5
<1>5. CASE Wake
    BY <1>5 DEF Wake, OnTime, IsWait, Fields, Outside, Overlooked
<1>6. CASE TimePasses
    BY <1>6 DEF TimePasses, OnTime, IsWait, Outside
<1>7. CASE ServiceChanges
    BY <1>7 DEF ServiceChanges, OnTime, IsWait, Overlooked
<1>8. CASE StartDiscovery \/ AskLayer \/ SourceChanges
  <2>1. UNCHANGED <<clock, service, goodSince, wait>>
      BY <1>8 DEF StartDiscovery, AskLayer, SourceChanges, Outside
  <2> QED BY <2>1 DEF OnTime
<1>9. CASE UNCHANGED dockerVars
    BY <1>9 DEF dockerVars, OnTime
<1> QED BY <1>1, <1>2, <1>3, <1>4, <1>5, <1>6, <1>7, <1>8, <1>9 DEF DockerNext

-------------------------------------------------------------------------------
(* The port search                                                         *)

LEMMA SearchInvNext == SearchInv /\ [DockerNext]_dockerVars => SearchInv'
<1> SUFFICES ASSUME SearchInv, [DockerNext]_dockerVars PROVE SearchInv'
    OBVIOUS
<1>1. CASE StartDiscovery
  <2>1. /\ UNCHANGED <<sources, installed>>
        /\ saidSoFar' = [layer \in DOMAIN sources |-> {sources[layer]}]
        /\ discovery' = IF installed THEN [NoDiscovery EXCEPT !.step = "envVar"]
                        ELSE [step |-> "over", outcome |-> "ModulePrerequisiteFailed"]
      BY <1>1 DEF StartDiscovery, Outside
  <2> QED BY <2>1 DEF SearchInv, SearchInOrder, NoDiscovery, Passed
<1>2. CASE AskLayer
  <2> DEFINE layer == discovery.step
  <2>1. /\ UNCHANGED <<sources, installed, saidSoFar>>
        /\ layer \in DOMAIN sources
      BY <1>2 DEF AskLayer, Outside
  <2>2. CASE sources[layer] = layer
    <3>1. discovery' = [step |-> "over", outcome |-> layer]
        BY <1>2, <2>2 DEF AskLayer
    <3> QED BY <2>1, <2>2, <3>1 DEF SearchInv, SearchInOrder, Passed
  <2>3. CASE layer = "registry" /\ sources[layer] = "malformed"
    <3>1. discovery' = [step |-> "over", outcome |-> "MalformedInput"]
        BY <1>2, <2>3 DEF AskLayer
    <3> QED BY <2>1, <2>3, <3>1 DEF SearchInv, SearchInOrder, Passed
  <2>4. CASE sources[layer] # layer /\ ~(layer = "registry" /\ sources[layer] = "malformed")
    <3>1. discovery' = [step |-> NextLayer(layer),
                        outcome |-> IF layer = "fallback" THEN "PortNotDiscovered" ELSE "none"]
        BY <1>2, <2>4 DEF AskLayer
    <3>2. Passed(layer)
        BY <2>1, <2>4 DEF SearchInv, Passed
    <3>3. /\ layer = "envVar" => NextLayer(layer) = "registry"
          /\ layer = "registry" => NextLayer(layer) = "docker ps"
          /\ layer = "docker ps" => NextLayer(layer) = "fallback"
          /\ layer = "fallback" => NextLayer(layer) = "over"
        BY DEF NextLayer
    <3> HIDE DEF layer
    <3>4. layer \in {"envVar", "registry", "docker ps", "fallback"}
        BY <2>1 DEF SearchInv
    <3> QED BY <2>1, <3>1, <3>2, <3>3, <3>4 DEF SearchInv, SearchInOrder, Passed, layer
  <2> QED BY <1>2, <2>2, <2>3, <2>4 DEF AskLayer
<1>3. CASE SourceChanges
  <2>1. PICK layer \in DOMAIN sources : \E said \in Says(layer) :
          /\ sources' = [sources EXCEPT ![layer] = said]
          /\ saidSoFar' = [saidSoFar EXCEPT ![layer] = @ \union {said}]
      BY <1>3 DEF SourceChanges, SearchInv
  <2>2. UNCHANGED <<discovery, installed>> /\ discovery.step # "over"
      BY <1>3 DEF SourceChanges
  <2>3. ASSUME NEW other \in DOMAIN sources, discovery.step # "idle", Passed(other)
        PROVE  Passed(other)'
    <3>1. sources[other] \in saidSoFar[other]
        BY <2>3 DEF SearchInv
    <3>2. saidSoFar[other] \subseteq saidSoFar'[other]
        BY <2>1 DEF SearchInv
    <3>3. saidSoFar[other] # {other}
        BY <2>3 DEF Passed
    <3> QED BY <3>1, <3>2, <3>3 DEF Passed
  <2> QED BY <2>1, <2>2, <2>3 DEF SearchInv, SearchInOrder
<1>4. CASE StartWait \/ Poll \/ Answered \/ Unanswered \/ Wake \/ TimePasses \/ ServiceChanges
  <2>1. UNCHANGED <<sources, installed, discovery, saidSoFar>>
      BY <1>4 DEF StartWait, Poll, Answered, Unanswered, Wake, TimePasses, ServiceChanges,
                  Outside, Searching
  <2> QED BY <2>1 DEF SearchInv, SearchInOrder, Passed
<1>5. CASE UNCHANGED dockerVars
    BY <1>5 DEF dockerVars, SearchInv, SearchInOrder, Passed
<1> QED BY <1>1, <1>2, <1>3, <1>4, <1>5 DEF DockerNext

-------------------------------------------------------------------------------
(* However late its timers, a health check ends in time and overlooks no   *)
(* service for longer than a poll, a sleep and three late timers           *)
(* (ContainerHealth.ts); and a port search ends with the first layer that  *)
(* names a port (PortDiscovery.ts).                                        *)
THEOREM AnswersHold ==
  ASSUME Late < PollCap
  PROVE  DockerSpec => []DockerAnswersHold
<1>1. WaitInv => WaitKeepsItsTime
  <2> SUFFICES ASSUME WaitInv PROVE WaitKeepsItsTime
      OBVIOUS
  <2>1. /\ clock \in Nat /\ goodSince \in Int
        /\ wait.budget \in Nat /\ wait.event \in Int /\ wait.due \in Int
      BY DEF WaitInv, WaitTypeOK, IsWait
  <2>2. wait.step \in {"fetch", "sleep", "loop"} => clock <= wait.budget + Late
      BY <2>1, DockerConstants DEF WaitInv, OnTime
  <2>3. wait.outcome = "TimeoutError" /\ service \in Good =>
          clock - goodSince <= PollCap + Sleep + 3 * Late
      BY <2>1, DockerConstants DEF WaitInv, OnTime, Overlooked
  <2> QED BY <2>2, <2>3 DEF WaitKeepsItsTime
<1>2. SearchInv => SearchInOrder
    BY DEF SearchInv
<1> QED BY <1>1, <1>2, DockerInvInit, WaitInvNext, SearchInvNext, PTL DEF DockerSpec, DockerAnswersHold

-------------------------------------------------------------------------------
(* The files of a stack                                                    *)

StackSpec == StackInit /\ [][StackNext]_stackVars

Stacks == [is : {"missing", "broken", "scalar", "list"}, list : SUBSET Values]
Levels == {"project", "user", "package"}
WholeFiles == {"customize", "new"}
ToolSteps == {"idle", "find built-in", "look", "read built-in", "write", "unlink",
              "resolve", "read"}
Kinds == WholeFiles \union StackMutations \union {"reset", "none"}
IsCall(c) ==
  /\ c = [kind |-> c.kind, place |-> c.place, force |-> c.force, value |-> c.value,
          base |-> c.base]
  /\ c.kind \in Kinds
  /\ c.kind # "none" => c.place \in Levels
  /\ c.force \in BOOLEAN
  /\ c.kind \in StackMutations => c.value \in Values
  /\ c.base \in Stacks

StackTypeOK ==
  /\ file \in [Levels -> Stacks]
  /\ DOMAIN toolCall = Tools /\ \A t \in Tools : IsCall(toolCall[t])
  /\ toolAt \in [Tools -> ToolSteps]
  /\ given \subseteq Levels \X Values
  /\ cleared \subseteq Levels

(* The steps of each kind of call.                                         *)
StepFits(work, c) ==
  /\ work # "idle" => c.kind # "none"
  /\ work \in {"find built-in", "read built-in"} => c.kind = "customize"
  /\ work = "look" => c.kind \in WholeFiles \union {"reset"}
  /\ work = "unlink" => c.kind = "reset"
  /\ work \in {"resolve", "read"} => c.kind \in StackMutations
  /\ work = "write" => c.kind \in WholeFiles \union StackMutations

StepsOfKinds == \A t \in Tools : StepFits(toolAt[t], toolCall[t])

Earlier(place) ==
  {p \in Levels : \/ p = "project" /\ place \in {"user", "package"}
                  \/ p = "user" /\ place = "package"}

(* What a tool that is not behind has seen.                                *)
Sees(work, c) ==
  /\ work \in {"read built-in", "write"} /\ c.kind \in WholeFiles /\ ~c.force =>
       file[c.place] = NoStack
  /\ work \in {"resolve", "read", "write"} /\ c.kind \in StackMutations =>
       \A p \in Earlier(c.place) : file[p] = NoStack
  /\ work \in {"read", "write"} /\ c.kind \in StackMutations => file[c.place] # NoStack
  /\ work = "write" /\ c.kind \in StackMutations => file[c.place] = c.base

InStep == \A t \in Tools \ behind : Sees(toolAt[t], toolCall[t])

SInv == StackTypeOK /\ StepsOfKinds /\ InStep /\ StackFilesHold

-------------------------------------------------------------------------------
LEMMA PlacesInOrder ==
  /\ DOMAIN StackPlaces = {1, 2, 3}
  /\ StackPlaces[1] = "project" /\ StackPlaces[2] = "user" /\ StackPlaces[3] = "package"
  /\ Len(StackPlaces) = 3
  /\ AllPlaces = Levels
BY DEF StackPlaces, AllPlaces, OwnPlaces, Levels

(* The file in force is the first of them that is there.                   *)
LEMMA FirstInForce ==
  ASSUME NEW place \in Levels, file[place] # NoStack,
         \A p \in Earlier(place) : file[p] = NoStack
  PROVE  InForce(file) = place
<1> DEFINE First(q) ==
      \E i \in DOMAIN StackPlaces :
        /\ StackPlaces[i] = q
        /\ file[q] # NoStack \/ i = Len(StackPlaces)
        /\ \A j \in 1..(i - 1) : file[StackPlaces[j]] = NoStack
<1>1. 1..(1 - 1) = {} /\ 1..(2 - 1) = {1} /\ 1..(3 - 1) = {1, 2}
    OBVIOUS
<1>2. First(place)
  <2>1. CASE place = "project"
      BY <1>1, <2>1, PlacesInOrder
  <2>2. CASE place = "user"
      BY <1>1, <2>2, PlacesInOrder DEF Earlier, Levels
  <2>3. CASE place = "package"
      BY <1>1, <2>3, PlacesInOrder DEF Earlier, Levels
  <2> QED BY <2>1, <2>2, <2>3 DEF Levels
<1>3. ASSUME NEW q \in AllPlaces, First(q) PROVE q = place
  <2>1. PICK i \in {1, 2, 3} :
          /\ StackPlaces[i] = q
          /\ file[q] # NoStack \/ i = 3
          /\ \A j \in 1..(i - 1) : file[StackPlaces[j]] = NoStack
      BY <1>3, PlacesInOrder
  <2>2. q \in Earlier(place) => file[q] = NoStack /\ i # 3
      BY <2>1, PlacesInOrder DEF Earlier
  <2>3. place \in Earlier(q) => file[place] = NoStack
    <3>1. CASE i = 1
        BY <2>1, <3>1, PlacesInOrder DEF Earlier
    <3>2. CASE i = 2
        BY <1>1, <2>1, <3>2, PlacesInOrder DEF Earlier
    <3>3. CASE i = 3
        BY <1>1, <2>1, <3>3, PlacesInOrder DEF Earlier
    <3> QED BY <3>1, <3>2, <3>3
  <2>4. q \in Levels
      BY PlacesInOrder
  <2> QED BY <2>1, <2>2, <2>3, <2>4 DEF Earlier, Levels
<1>4. InForce(file) = CHOOSE q \in AllPlaces : First(q)
    BY DEF InForce
<1> HIDE DEF First
<1> QED BY <1>2, <1>3, <1>4, PlacesInOrder

(* Whoever looks at a place before it changes is behind afterwards.        *)
LEMMA LookersSee ==
  ASSUME StackTypeOK, StepsOfKinds, NEW t \in Tools, NEW place \in Levels,
         t \notin Lookers(place)
  PROVE  /\ toolAt[t] \in {"read built-in", "write", "unlink", "read"} =>
              toolCall[t].place # place
         /\ toolAt[t] \in {"resolve", "read", "write"} /\ toolCall[t].kind \in StackMutations =>
              place \notin Earlier(toolCall[t].place)
<1>1. toolAt[t] \in {"read built-in", "write", "unlink", "read"} => toolCall[t].place # place
    BY DEF Lookers
<1>2. ASSUME toolAt[t] \in {"resolve", "read", "write"}, toolCall[t].kind \in StackMutations,
             place \in Earlier(toolCall[t].place)
      PROVE  FALSE
  <2>1. \E i, j \in DOMAIN StackPlaces :
          StackPlaces[i] = place /\ StackPlaces[j] = toolCall[t].place /\ i < j
      BY <1>2, PlacesInOrder DEF Earlier, Levels
  <2> QED BY <1>2, <2>1 DEF Lookers, StackMutations
<1> QED BY <1>1, <1>2

(* A tool that is not behind after a change of a place has seen no such    *)
(* change.                                                                 *)
LEMMA OthersInStep ==
  ASSUME StackTypeOK, StepsOfKinds, InStep, NEW t \in Tools, NEW place \in Levels,
         t \notin behind, t \notin Lookers(place),
         \A p \in Levels \ {place} : file'[p] = file[p],
         toolAt'[t] = toolAt[t], toolCall'[t] = toolCall[t]
  PROVE  Sees(toolAt[t], toolCall[t])'
<1>1. Sees(toolAt[t], toolCall[t])
    BY DEF InStep
<1>2. toolCall[t].kind # "none" => toolCall[t].place \in Levels
    BY DEF StackTypeOK, IsCall
<1>3. toolAt[t] # "idle" => toolCall[t].kind # "none"
    BY DEF StepsOfKinds, StepFits
<1> QED BY <1>1, <1>2, <1>3, LookersSee DEF Sees, Earlier

-------------------------------------------------------------------------------
LEMMA StackInvInit == StackInit => SInv
<1> SUFFICES ASSUME StackInit PROVE SInv
    OBVIOUS
<1>1. NoStack \in Stacks /\ List({}) \in Stacks
    BY DEF NoStack, List, Stacks
<1>2. IsCall(NoToolCall)
    BY <1>1 DEF IsCall, NoToolCall, Kinds, StackMutations
<1>3. StackTypeOK
    BY <1>1, <1>2, PlacesInOrder DEF StackInit, StackTypeOK, ToolSteps
<1>4. StepsOfKinds /\ InStep /\ StackFilesHold
    BY DEF StackInit, StepsOfKinds, StepFits, InStep, Sees, StackFilesHold
<1> QED BY <1>3, <1>4 DEF SInv

-------------------------------------------------------------------------------
(* A work of one tool that changes no file.                                *)
LEMMA LocalStep ==
  ASSUME SInv, NEW t \in Tools, NEW work \in ToolSteps, NEW c, IsCall(c), StepFits(work, c),
         toolAt' = [toolAt EXCEPT ![t] = work],
         DOMAIN toolCall' = Tools, toolCall'[t] = c,
         \A u \in Tools \ {t} : toolCall'[u] = toolCall[u],
         UNCHANGED <<file, overlapped, given, cleared, strays>>,
         behind' \in {behind, behind \ {t}},
         t \notin behind' => Sees(work, c)
  PROVE  SInv'
<1>1. /\ toolAt' \in [Tools -> ToolSteps]
      /\ toolAt'[t] = work /\ \A u \in Tools \ {t} : toolAt'[u] = toolAt[u]
    BY DEF SInv, StackTypeOK
<1>2. StackTypeOK'
    BY <1>1 DEF SInv, StackTypeOK
<1>3. StepsOfKinds'
    BY <1>1 DEF SInv, StepsOfKinds
<1>4. ASSUME NEW u \in Tools, u \notin behind' PROVE Sees(toolAt[u], toolCall[u])'
  <2>1. CASE u = t
      BY <1>1, <1>4, <2>1 DEF Sees
  <2>2. CASE u # t
      BY <1>1, <1>4, <2>2 DEF SInv, InStep, Sees
  <2> QED BY <2>1, <2>2
<1>5. StackFilesHold'
    BY DEF SInv, StackFilesHold
<1> QED BY <1>2, <1>3, <1>4, <1>5 DEF SInv, InStep

LEMMA NoCall == IsCall(NoToolCall) /\ StepFits("idle", NoToolCall) /\ Sees("idle", NoToolCall)
BY DEF IsCall, NoToolCall, Kinds, StackMutations, NoStack, Stacks, StepFits, Sees

(* A call that ends having done nothing.                                   *)
LEMMA EndsIdle ==
  ASSUME SInv, NEW t \in Tools, Done(t), UNCHANGED <<file, stackHistory>>
  PROVE  SInv'
<1>1. /\ toolAt' = [toolAt EXCEPT ![t] = "idle"]
      /\ toolCall' = [toolCall EXCEPT ![t] = NoToolCall]
      /\ DOMAIN toolCall = Tools
    BY DEF Done, ToolGoes, SInv, StackTypeOK
<1>2. /\ DOMAIN toolCall' = Tools /\ toolCall'[t] = NoToolCall
      /\ \A u \in Tools \ {t} : toolCall'[u] = toolCall[u]
    BY <1>1
<1>3. UNCHANGED <<file, overlapped, given, cleared, strays, behind>>
    BY DEF stackHistory
<1>4. "idle" \in ToolSteps
    BY DEF ToolSteps
<1> QED BY <1>1, <1>2, <1>3, <1>4, NoCall, LocalStep

(* A call that goes on and keeps what it has.                              *)
LEMMA GoesOn ==
  ASSUME SInv, NEW t \in Tools, NEW work \in ToolSteps,
         ToolGoes(t, work), UNCHANGED <<file, stackHistory, toolCall>>,
         StepFits(work, toolCall[t]), t \notin behind => Sees(work, toolCall[t])
  PROVE  SInv'
<1>1. toolAt' = [toolAt EXCEPT ![t] = work]
    BY DEF ToolGoes
<1>2. DOMAIN toolCall' = Tools /\ IsCall(toolCall[t])
    BY DEF SInv, StackTypeOK
<1>3. UNCHANGED <<file, overlapped, given, cleared, strays, behind>>
    BY DEF stackHistory
<1> QED BY <1>1, <1>2, <1>3, LocalStep

LEMMA CallFields ==
  ASSUME SInv, NEW t \in Tools
  PROVE  /\ IsCall(toolCall[t]) /\ StepFits(toolAt[t], toolCall[t])
         /\ t \notin behind => Sees(toolAt[t], toolCall[t])
BY DEF SInv, StackTypeOK, StepsOfKinds, InStep

(* A call that goes on with something that it has found.                   *)
LEMMA FindsMore ==
  ASSUME SInv, NEW t \in Tools, NEW work \in ToolSteps, NEW c, IsCall(c),
         toolAt' = [toolAt EXCEPT ![t] = work], toolCall' = [toolCall EXCEPT ![t] = c],
         UNCHANGED <<file, stackHistory>>,
         StepFits(work, c), t \notin behind => Sees(work, c)
  PROVE  SInv'
<1>1. /\ DOMAIN toolCall' = Tools /\ toolCall'[t] = c
      /\ \A u \in Tools \ {t} : toolCall'[u] = toolCall[u]
    BY DEF SInv, StackTypeOK
<1>3. UNCHANGED <<file, overlapped, given, cleared, strays, behind>>
    BY DEF stackHistory
<1> QED BY <1>1, <1>3, LocalStep

(* A tool replaces or removes a file.                                      *)
LEMMA PutsEffect ==
  ASSUME SInv, NEW t \in Tools, NEW contents \in Stacks, toolCall[t].place \in Levels,
         Puts(t, contents)
  PROVE  LET place == toolCall[t].place IN
         /\ file' \in [Levels -> Stacks]
         /\ file'[place] = contents
         /\ \A p \in Levels \ {place} : file'[p] = file[p]
         /\ given' \subseteq Levels \X Values /\ cleared' \subseteq Levels => StackTypeOK'
         /\ StepsOfKinds' /\ InStep'
<1> DEFINE place == toolCall[t].place
<1>1. /\ file' = [file EXCEPT ![place] = contents]
      /\ behind' = (behind \union Lookers(place)) \ {t}
      /\ toolAt' = [toolAt EXCEPT ![t] = "idle"]
      /\ toolCall' = [toolCall EXCEPT ![t] = NoToolCall]
    BY DEF Puts, Done, ToolGoes
<1>2. /\ file' \in [Levels -> Stacks]
      /\ file'[place] = contents
      /\ \A p \in Levels \ {place} : file'[p] = file[p]
    BY <1>1 DEF SInv, StackTypeOK
<1>3. /\ DOMAIN toolCall' = Tools /\ toolCall'[t] = NoToolCall
      /\ \A u \in Tools \ {t} : toolCall'[u] = toolCall[u]
      /\ toolAt' \in [Tools -> ToolSteps] /\ toolAt'[t] = "idle"
      /\ \A u \in Tools \ {t} : toolAt'[u] = toolAt[u]
    BY <1>1 DEF SInv, StackTypeOK, ToolSteps
<1>4. given' \subseteq Levels \X Values /\ cleared' \subseteq Levels => StackTypeOK'
    BY <1>2, <1>3, NoCall DEF SInv, StackTypeOK
<1>5. StepsOfKinds'
    BY <1>3, NoCall DEF SInv, StepsOfKinds
<1>6. ASSUME NEW u \in Tools, u \notin behind' PROVE Sees(toolAt[u], toolCall[u])'
  <2>1. CASE u = t
      BY <1>3, <2>1 DEF Sees
  <2>2. CASE u # t
      BY <1>1, <1>2, <1>3, <1>6, <2>2, OthersInStep DEF SInv
  <2> QED BY <2>1, <2>2
<1> QED BY <1>2, <1>4, <1>5, <1>6 DEF InStep

-------------------------------------------------------------------------------
LEMMA StartStep == ASSUME SInv, NEW t \in Tools, StartTool(t) PROVE SInv'
<1> DEFINE first(c) == CASE c.kind = "customize"        -> "find built-in"
                        [] c.kind \in {"new", "reset"} -> "look"
                        [] c.kind \in StackMutations   -> "resolve"
<1>1. PICK c \in CustomizeCalls \union NewCalls \union ResetCalls \union MutationCalls :
        toolCall' = [toolCall EXCEPT ![t] = c] /\ ToolGoes(t, first(c))
    BY DEF StartTool
<1>2. /\ UNCHANGED <<file, overlapped, given, cleared, strays>>
      /\ behind' = behind \ {t}
    BY DEF StartTool
<1>3. NoStack \in Stacks /\ Scaffold \in Stacks
    BY DEF NoStack, Scaffold, List, Stacks
<1>4. /\ IsCall(c)
      /\ c.kind \in {"customize", "new", "reset"} \union StackMutations
      /\ c.kind \in StackMutations => c.place = "project"
    BY <1>3, PlacesInOrder
    DEF CustomizeCalls, NewCalls, ResetCalls, MutationCalls, IsCall, Kinds, StackMutations,
        WholeFiles, OwnPlaces, Levels
<1>5. /\ c.kind = "customize" => first(c) = "find built-in"
      /\ c.kind \in {"new", "reset"} => first(c) = "look"
      /\ c.kind \in StackMutations => first(c) = "resolve"
  <2>1. c.kind = "customize" => c.kind \notin {"new", "reset"} \union StackMutations
      BY DEF StackMutations
  <2>2. c.kind \in {"new", "reset"} => c.kind # "customize" /\ c.kind \notin StackMutations
      BY DEF StackMutations
  <2>3. c.kind \in StackMutations => c.kind # "customize" /\ c.kind \notin {"new", "reset"}
      BY DEF StackMutations
  <2> QED BY <2>1, <2>2, <2>3, Zenon
<1>6. toolAt' = [toolAt EXCEPT ![t] = first(c)]
    BY <1>1 DEF ToolGoes
<1> HIDE DEF first
<1>7. first(c) \in ToolSteps /\ StepFits(first(c), c) /\ Sees(first(c), c)
    BY <1>4, <1>5 DEF ToolSteps, StepFits, Sees, WholeFiles, Earlier, StackMutations
<1>8. /\ DOMAIN toolCall' = Tools /\ toolCall'[t] = c
      /\ \A u \in Tools \ {t} : toolCall'[u] = toolCall[u]
    BY <1>1 DEF SInv, StackTypeOK
<1> QED BY <1>2, <1>4, <1>6, <1>7, <1>8, LocalStep

(* The steps that look, and those that read.                               *)
LEMMA LookStep ==
  ASSUME SInv, NEW t \in Tools,
         \/ FindBuiltin(t) \/ LookBeforeCustomize(t) \/ LookBeforeNew(t) \/ LookBeforeReset(t)
         \/ ToolStops(t)
  PROVE  SInv'
<1>1. UNCHANGED <<file, stackHistory>>
    BY DEF FindBuiltin, LookBeforeCustomize, LookBeforeNew, LookBeforeReset, ToolStops
<1>2. CASE Done(t)
    BY <1>1, <1>2, EndsIdle
<1>3. CASE ~Done(t)
  <2>1. PICK work \in {"look", "read built-in", "write", "unlink"} :
          /\ ToolGoes(t, work) /\ UNCHANGED toolCall
          /\ StepFits(work, toolCall[t]) /\ toolCall[t].kind \notin StackMutations
          /\ work \in {"read built-in", "write"} =>
               \/ toolCall[t].force /\ work = "read built-in"
               \/ file[toolCall[t].place] = NoStack
    <3>1. CASE FindBuiltin(t)
        BY <1>3, <3>1, CallFields DEF FindBuiltin, StepFits, WholeFiles, StackMutations
    <3>2. CASE LookBeforeCustomize(t)
        BY <1>3, <3>2 DEF LookBeforeCustomize, StepFits, StackMutations
    <3>3. CASE LookBeforeNew(t)
        BY <1>3, <3>3 DEF LookBeforeNew, StepFits, WholeFiles, StackMutations
    <3>4. CASE LookBeforeReset(t)
        BY <1>3, <3>4 DEF LookBeforeReset, StepFits, StackMutations
    <3>5. CASE ToolStops(t)
        BY <1>3, <3>5 DEF ToolStops
    <3> QED BY <3>1, <3>2, <3>3, <3>4, <3>5
  <2>2. work \in ToolSteps
      BY DEF ToolSteps
  <2>3. Sees(work, toolCall[t])
      BY <2>1 DEF Sees
  <2> QED BY <1>1, <2>1, <2>2, <2>3, GoesOn
<1> QED BY <1>2, <1>3

LEMMA ReadStep ==
  ASSUME SInv, NEW t \in Tools, ReadBuiltin(t) \/ ReadStack(t)
  PROVE  SInv'
<1>1. UNCHANGED <<file, stackHistory>>
    BY DEF ReadBuiltin, ReadStack
<1>2. CASE Done(t)
    BY <1>1, <1>2, EndsIdle
<1>3. CASE ~Done(t)
  <2> DEFINE place == IF ReadBuiltin(t) THEN "package" ELSE toolCall[t].place
             c == [toolCall[t] EXCEPT !.base = file[place]]
  <2>1. /\ toolAt' = [toolAt EXCEPT ![t] = "write"]
        /\ toolCall' = [toolCall EXCEPT ![t] = c]
        /\ toolAt[t] = IF ReadBuiltin(t) THEN "read built-in" ELSE "read"
      BY <1>3 DEF ReadBuiltin, ReadStack, ToolGoes, Finds
  <2>2. /\ StepFits(toolAt[t], toolCall[t]) /\ IsCall(toolCall[t])
        /\ t \notin behind => Sees(toolAt[t], toolCall[t])
      BY CallFields
  <2>3. toolCall[t].kind # "none" /\ toolCall[t].place \in Levels
      BY <2>1, <2>2 DEF StepFits, IsCall
  <2>4. file[place] \in Stacks
      BY <2>3 DEF SInv, StackTypeOK, Levels
  <2> HIDE DEF place
  <2>5. c = [kind |-> toolCall[t].kind, place |-> toolCall[t].place,
             force |-> toolCall[t].force, value |-> toolCall[t].value, base |-> file[place]]
      BY <2>2 DEF IsCall
  <2> HIDE DEF c
  <2>6. IsCall(c)
      BY <2>2, <2>4, <2>5 DEF IsCall
  <2>7. StepFits("write", c)
      BY <2>1, <2>2, <2>5 DEF StepFits, WholeFiles
  <2>8. t \notin behind => Sees("write", c)
    <3>1. CASE ReadBuiltin(t)
        BY <2>1, <2>2, <2>5, <3>1 DEF Sees, StepFits, WholeFiles, StackMutations
    <3>2. CASE ~ReadBuiltin(t)
        BY <2>1, <2>2, <2>5, <3>2 DEF Sees, StepFits, WholeFiles, StackMutations, place
    <3> QED BY <3>1, <3>2
  <2>9. "write" \in ToolSteps
      BY DEF ToolSteps
  <2> QED BY <1>1, <2>1, <2>6, <2>7, <2>8, <2>9, FindsMore
<1> QED BY <1>2, <1>3

LEMMA ResolveStep ==
  ASSUME SInv, NEW t \in Tools, ResolveStackFile(t)
  PROVE  SInv'
<1> DEFINE c == toolCall[t]
           i == CHOOSE i \in DOMAIN StackPlaces : StackPlaces[i] = c.place
<1>1. /\ toolAt[t] = "resolve" /\ StepFits(toolAt[t], c) /\ IsCall(c)
      /\ t \notin behind => Sees(toolAt[t], c)
      /\ UNCHANGED <<file, stackHistory>>
    BY CallFields DEF ResolveStackFile
<1>2. c.place \in Levels /\ c.kind \in StackMutations
    BY <1>1 DEF StepFits, IsCall
<1>3. i \in {1, 2, 3} /\ StackPlaces[i] = c.place
  <2>1. \E j \in DOMAIN StackPlaces : StackPlaces[j] = c.place
      BY <1>2, PlacesInOrder DEF Levels
  <2>2. i \in DOMAIN StackPlaces /\ StackPlaces[i] = c.place
      BY <2>1, Zenon
  <2> HIDE DEF i
  <2> QED BY <2>2, PlacesInOrder
<1>4. CASE file[c.place] # NoStack
  <2>1. ToolGoes(t, "read") /\ UNCHANGED toolCall
      BY <1>4, Zenon DEF ResolveStackFile
  <2>2. "read" \in ToolSteps /\ StepFits("read", c) /\ (t \notin behind => Sees("read", c))
      BY <1>1, <1>2, <1>4 DEF ToolSteps, StepFits, Sees, StackMutations, WholeFiles
  <2> QED BY <1>1, <2>1, <2>2, GoesOn
<1>5. CASE file[c.place] = NoStack /\ i < Len(StackPlaces)
  <2> DEFINE next == StackPlaces[i + 1]
             d == [c EXCEPT !.place = next]
  <2>1. Finds(t, "place", next) /\ UNCHANGED toolAt
      BY <1>5, Zenon DEF ResolveStackFile
  <2>2. \/ i = 1 /\ c.place = "project" /\ next = "user"
        \/ i = 2 /\ c.place = "user" /\ next = "package"
    <3> HIDE DEF i
    <3>1. Len(StackPlaces) = 3
        BY PlacesInOrder
    <3>2. i = 1 \/ i = 2
        BY <1>3, <1>5, <3>1
    <3>3. i + 1 = 2 => next = "user"
        BY PlacesInOrder
    <3>4. i + 1 = 3 => next = "package"
        BY PlacesInOrder
    <3>5. (i = 1 => c.place = "project") /\ (i = 2 => c.place = "user")
        BY <1>3, PlacesInOrder
    <3> HIDE DEF next, c
    <3> QED BY <3>2, <3>3, <3>4, <3>5
  <2> HIDE DEF i, next
  <2>3. d = [kind |-> c.kind, place |-> next, force |-> c.force, value |-> c.value,
             base |-> c.base]
      BY <1>1 DEF IsCall
  <2>4. toolCall' = [toolCall EXCEPT ![t] = d]
      BY <2>1 DEF Finds
  <2>5. toolAt' = [toolAt EXCEPT ![t] = "resolve"]
      BY <1>1, <2>1 DEF SInv, StackTypeOK
  <2> HIDE DEF d
  <2>6. IsCall(d) /\ StepFits("resolve", d) /\ "resolve" \in ToolSteps
      BY <1>1, <1>2, <2>2, <2>3 DEF IsCall, Levels, StepFits, ToolSteps
  <2>7. t \notin behind => Sees("resolve", d)
      BY <1>1, <1>2, <1>5, <2>2, <2>3 DEF Sees, Earlier, Levels
  <2> QED BY <1>1, <2>4, <2>5, <2>6, <2>7, FindsMore
<1>6. CASE file[c.place] = NoStack /\ ~(i < Len(StackPlaces))
  <2>1. Done(t)
      BY <1>6, Zenon DEF ResolveStackFile
  <2> QED BY <1>1, <2>1, EndsIdle
<1> QED BY <1>4, <1>5, <1>6

-------------------------------------------------------------------------------
(* The steps that change a file.                                           *)
LEMMA WholeFileStep ==
  ASSUME SInv, NEW t \in Tools, WriteWholeFile(t)
  PROVE  SInv'
<1> DEFINE c == toolCall[t]
           place == c.place
<1>1. /\ toolAt[t] = "write" /\ c.kind \in WholeFiles
      /\ Puts(t, c.base)
      /\ overlapped' = IF c.force THEN overlapped \ {place}
                       ELSE IF t \in behind THEN overlapped \union {place} ELSE overlapped
      /\ strays' = IF c.force THEN strays \ {place}
                   ELSE IF file[place] # NoStack THEN strays \union {place} ELSE strays
      /\ given' = IF c.force THEN {g \in given : g[1] # place} ELSE given
      /\ cleared' = cleared \ {place}
    BY DEF WriteWholeFile, WholeFiles
<1>2. /\ IsCall(c) /\ (t \notin behind => Sees("write", c))
    BY <1>1, CallFields
<1>3. place \in Levels /\ c.base \in Stacks /\ c.force \in BOOLEAN
    BY <1>1, <1>2 DEF IsCall, WholeFiles
<1>4. given' \subseteq given
    BY <1>1
<1>5. given \subseteq Levels \X Values /\ cleared \subseteq Levels
    BY DEF SInv, StackTypeOK
<1>6. /\ StackTypeOK' /\ StepsOfKinds' /\ InStep'
      /\ \A p \in Levels \ {place} : file'[p] = file[p]
    BY <1>1, <1>3, <1>4, <1>5, PutsEffect
<1>7. ~c.force /\ t \notin behind => file[place] = NoStack
    BY <1>1, <1>2 DEF Sees
<1> HIDE DEF c, place
<1>8. strays' \subseteq overlapped'
    BY <1>1, <1>7 DEF SInv, StackFilesHold
<1>9. ASSUME NEW g \in given' PROVE g[1] \in overlapped' \/ g[2] \in file'[g[1]].list
  <2>1. g \in given /\ g[1] \in Levels /\ (g[1] \in overlapped \/ g[2] \in file[g[1]].list)
      BY <1>4, <1>5, <1>9 DEF SInv, StackFilesHold
  <2>2. CASE g[1] # place
      BY <1>1, <1>6, <2>1, <2>2
  <2>3. CASE g[1] = place
    <3>1. ~c.force
        BY <1>1, <1>9, <2>3
    <3>2. t \notin behind => file[g[1]].list = {}
        BY <1>7, <2>3, <3>1 DEF NoStack
    <3> QED BY <1>1, <2>1, <2>3, <3>1, <3>2
  <2> QED BY <2>2, <2>3
<1>10. ASSUME NEW p \in cleared' \ overlapped' PROVE file'[p] = NoStack
    BY <1>1, <1>6, <1>10, PlacesInOrder DEF SInv, StackTypeOK, StackFilesHold
<1> QED BY <1>6, <1>8, <1>9, <1>10 DEF SInv, StackFilesHold

LEMMA UnlinkStep ==
  ASSUME SInv, NEW t \in Tools, Unlink(t)
  PROVE  SInv'
<1> DEFINE place == toolCall[t].place
<1>1. CASE file[place] = NoStack /\ Done(t) /\ UNCHANGED <<file, stackHistory>>
    BY <1>1, EndsIdle
<1>2. CASE /\ Puts(t, NoStack)
           /\ overlapped' = overlapped \ {place}
           /\ strays' = strays \ {place}
           /\ given' = {g \in given : g[1] # place}
           /\ cleared' = cleared \union {place}
  <2>1. toolAt[t] = "unlink" /\ StepFits(toolAt[t], toolCall[t]) /\ IsCall(toolCall[t])
      BY CallFields DEF Unlink
  <2>2. place \in Levels /\ NoStack \in Stacks
      BY <2>1 DEF StepFits, IsCall, NoStack, Stacks
  <2>3. given \subseteq Levels \X Values /\ cleared \subseteq Levels
      BY DEF SInv, StackTypeOK
  <2>4. given' \subseteq Levels \X Values /\ cleared' \subseteq Levels
      BY <1>2, <2>2, <2>3
  <2>5. /\ StackTypeOK' /\ StepsOfKinds' /\ InStep'
        /\ file'[place] = NoStack
        /\ \A p \in Levels \ {place} : file'[p] = file[p]
      BY <1>2, <2>2, <2>4, PutsEffect
  <2> HIDE DEF place
  <2>6. strays' \subseteq overlapped'
      BY <1>2 DEF SInv, StackFilesHold
  <2>7. ASSUME NEW g \in given' PROVE g[1] \in overlapped' \/ g[2] \in file'[g[1]].list
      BY <1>2, <2>3, <2>5, <2>7 DEF SInv, StackFilesHold
  <2>8. ASSUME NEW p \in cleared' \ overlapped' PROVE file'[p] = NoStack
      BY <1>2, <2>3, <2>5, <2>8 DEF SInv, StackFilesHold
  <2> QED BY <2>5, <2>6, <2>7, <2>8 DEF SInv, StackFilesHold
<1> QED BY <1>1, <1>2 DEF Unlink

LEMMA PersistStep ==
  ASSUME SInv, NEW t \in Tools, PersistStack(t)
  PROVE  SInv'
<1> DEFINE c == toolCall[t]
           place == c.place
           at(values) == {<<place, v>> : v \in values}
<1>1. CASE Done(t) /\ UNCHANGED <<file, stackHistory>>
    BY <1>1, EndsIdle
<1>2. CASE /\ ~Throws(c) /\ Puts(t, Applied(c))
           /\ overlapped' = IF t \in behind THEN overlapped \union {place} ELSE overlapped
           /\ strays' = IF InForce(file) # place THEN strays \union {place} ELSE strays
           /\ given' = CASE c.kind = "updateStackField" ->
                              {g \in given : g[1] # place} \union at({c.value})
                         [] c.kind = "appendToStackField"   -> given \union at({c.value})
                         [] c.kind = "removeFromStackField" -> given \ at({c.value})
           /\ UNCHANGED cleared
  <2>1. /\ toolAt[t] = "write" /\ c.kind \in StackMutations
        /\ IsCall(c) /\ (t \notin behind => Sees("write", c))
    <3>1. toolAt[t] = "write" /\ c.kind \in StackMutations
        BY DEF PersistStack
    <3> QED BY <3>1, CallFields
  <2>2. place \in Levels /\ c.value \in Values /\ c.base \in Stacks
      BY <2>1 DEF IsCall, StackMutations
  <2>3. given \subseteq Levels \X Values /\ cleared \subseteq Levels
      BY DEF SInv, StackTypeOK
  (* What the call makes of the list, and of what is wanted in it.         *)
  <2>4. /\ Applied(c) \in Stacks
        /\ given' \subseteq given \union {<<place, c.value>>}
        /\ \A g \in given' : g[1] = place =>
             \/ g[2] \in Applied(c).list
             \/ g \in given /\ g[2] \notin c.base.list
    <3>1. CASE c.kind = "updateStackField"
      <4>1. Applied(c) = List({c.value})
          BY <3>1, Zenon DEF Applied
      <4>2. given' = {g \in given : g[1] # place} \union {<<place, c.value>>}
        <5>1. given' = {g \in given : g[1] # place} \union at({c.value})
            BY <1>2, <3>1, Zenon
        <5> QED BY <5>1
      <4> QED BY <2>2, <4>1, <4>2 DEF List, Stacks
    <3>2. CASE c.kind = "appendToStackField"
      <4>1. Applied(c) = List(c.base.list \union {c.value})
        <5>1. c.kind # "updateStackField" /\ c.kind # "removeFromStackField"
            BY <3>2
        <5> QED BY <3>2, <5>1, Zenon DEF Applied
      <4>2. given' = given \union {<<place, c.value>>}
        <5>1. c.kind # "updateStackField" /\ c.kind # "removeFromStackField"
            BY <3>2
        <5>2. given' = given \union at({c.value})
            BY <1>2, <3>2, <5>1, Zenon
        <5> QED BY <5>2
      <4> QED BY <2>2, <4>1, <4>2 DEF List, Stacks
    <3>3. CASE c.kind = "removeFromStackField"
      <4>1. Applied(c) = [c.base EXCEPT !.list = @ \ {c.value}]
        <5>1. c.kind # "updateStackField" /\ c.kind # "appendToStackField"
            BY <3>3
        <5> QED BY <3>3, <5>1, Zenon DEF Applied
      <4>2. given' = given \ {<<place, c.value>>}
        <5>1. c.kind # "updateStackField" /\ c.kind # "appendToStackField"
            BY <3>3
        <5>2. given' = given \ at({c.value})
            BY <1>2, <3>3, <5>1, Zenon
        <5> QED BY <5>2
      <4>3. Applied(c) \in Stacks /\ Applied(c).list = c.base.list \ {c.value}
          BY <2>2, <4>1 DEF Stacks
      <4>4. \A g \in given' : g[1] = place => g[2] # c.value
          BY <2>3, <4>2
      <4> QED BY <4>2, <4>3, <4>4
    <3> QED BY <2>1, <3>1, <3>2, <3>3 DEF StackMutations
  <2>5. given' \subseteq Levels \X Values /\ cleared' \subseteq Levels
    <3>1. cleared' = cleared
        BY <1>2
    <3>2. <<place, c.value>> \in Levels \X Values
        BY <2>2
    <3>3. given' \subseteq given \union {<<place, c.value>>}
        BY <2>4
    <3> HIDE DEF c, place
    <3> QED BY <2>3, <3>1, <3>2, <3>3
  <2>6. /\ StackTypeOK' /\ StepsOfKinds' /\ InStep'
        /\ file'[place] = Applied(c)
        /\ \A p \in Levels \ {place} : file'[p] = file[p]
      BY <1>2, <2>2, <2>4, <2>5, PutsEffect
  <2>7. t \notin behind =>
          /\ file[place] = c.base /\ file[place] # NoStack
          /\ InForce(file) = place
    <3> SUFFICES ASSUME t \notin behind PROVE file[place] = c.base /\ file[place] # NoStack
                                             /\ InForce(file) = place
        OBVIOUS
    <3>1. /\ file[place] = c.base /\ file[place] # NoStack
          /\ \A p \in Earlier(place) : file[p] = NoStack
        BY <2>1 DEF Sees
    <3> QED BY <2>2, <3>1, FirstInForce
  <2>8. t \in behind => place \in overlapped'
      BY <1>2
  <2>9. overlapped \subseteq overlapped' /\ cleared' = cleared
        /\ (strays' \subseteq strays \union IF t \in behind THEN {place} ELSE {})
      BY <1>2, <2>7
  <2> HIDE DEF c, place
  <2>10. strays' \subseteq overlapped'
      BY <2>8, <2>9 DEF SInv, StackFilesHold
  <2>11. ASSUME NEW g \in given' PROVE g[1] \in overlapped' \/ g[2] \in file'[g[1]].list
    <3>1. CASE g[1] = place
        BY <2>4, <2>6, <2>7, <2>8, <2>9, <2>11, <3>1 DEF SInv, StackFilesHold
    <3>2. CASE g[1] # place
      <4>1. g \in given /\ g[1] \in Levels
          BY <2>3, <2>4, <2>11, <3>2
      <4> QED BY <2>6, <2>9, <3>2, <4>1 DEF SInv, StackFilesHold
    <3> QED BY <3>1, <3>2
  <2>12. ASSUME NEW p \in cleared' \ overlapped' PROVE file'[p] = NoStack
    <3>1. p \in cleared \ overlapped /\ p \in Levels /\ file[p] = NoStack
        BY <2>3, <2>9, <2>12 DEF SInv, StackFilesHold
    <3>2. p # place
        BY <2>7, <2>8, <2>12, <3>1
    <3> QED BY <2>6, <3>1, <3>2
  <2> QED BY <2>6, <2>10, <2>11, <2>12 DEF SInv, StackFilesHold
<1> QED BY <1>1, <1>2, Zenon DEF PersistStack

LEMMA EditStep == ASSUME SInv, EditStack PROVE SInv'
<1>1. PICK place \in OwnPlaces, contents \in {NoStack, BrokenStack, Scalar, List(Unfit)} :
        /\ file' = [file EXCEPT ![place] = contents]
        /\ behind' = behind \union Lookers(place)
        /\ given' = {g \in given : g[1] # place}
        /\ cleared' = cleared \ {place}
    BY DEF EditStack
<1>2. UNCHANGED <<toolAt, toolCall, overlapped, strays>>
    BY DEF EditStack
<1>3. contents \in Stacks /\ place \in Levels
    BY UnfitAssumption
    DEF NoStack, BrokenStack, Scalar, List, Stacks, OwnPlaces, Levels
<1>4. /\ file' \in [Levels -> Stacks] /\ file'[place] = contents
      /\ \A p \in Levels \ {place} : file'[p] = file[p]
    BY <1>1, <1>3 DEF SInv, StackTypeOK
<1>5. StackTypeOK' /\ StepsOfKinds'
    BY <1>1, <1>2, <1>4 DEF SInv, StackTypeOK, StepsOfKinds
<1>6. ASSUME NEW t \in Tools, t \notin behind' PROVE Sees(toolAt[t], toolCall[t])'
    BY <1>1, <1>2, <1>3, <1>4, <1>6, OthersInStep DEF SInv
<1>7. given \subseteq Levels \X Values /\ cleared \subseteq Levels
    BY DEF SInv, StackTypeOK
<1>8. StackFilesHold'
    BY <1>1, <1>2, <1>4, <1>7 DEF SInv, StackFilesHold
<1> QED BY <1>5, <1>6, <1>8 DEF SInv, InStep

LEMMA StackInvNext == SInv /\ [StackNext]_stackVars => SInv'
<1> SUFFICES ASSUME SInv, [StackNext]_stackVars PROVE SInv'
    OBVIOUS
<1>1. CASE UNCHANGED stackVars
    BY <1>1 DEF stackVars, SInv, StackTypeOK, StepsOfKinds, InStep, Sees, StackFilesHold
<1>2. CASE EditStack
    BY <1>2, EditStep
<1>3. ASSUME NEW t \in Tools,
             \/ StartTool(t) \/ FindBuiltin(t) \/ LookBeforeCustomize(t) \/ ReadBuiltin(t)
             \/ LookBeforeNew(t) \/ WriteWholeFile(t) \/ LookBeforeReset(t) \/ Unlink(t)
             \/ ResolveStackFile(t) \/ ReadStack(t) \/ PersistStack(t) \/ ToolStops(t)
      PROVE  SInv'
    BY <1>3, StartStep, LookStep, ReadStep, ResolveStep, WholeFileStep, UnlinkStep, PersistStep
<1> QED BY <1>1, <1>2, <1>3 DEF StackNext

-------------------------------------------------------------------------------
(* Unless a tool acts on what it saw before another's write, no file is    *)
(* replaced unasked, edits go to the file in force, acknowledged entries   *)
(* stay and what was reset stays away, for any tools and values            *)
(* (src/cli/commands/stacks-*.ts, tools/writes.ts).                        *)
THEOREM StackFilesSafe == StackSpec => []StackFilesHold
<1>1. SInv => StackFilesHold
    BY DEF SInv
<1> QED BY <1>1, StackInvInit, StackInvNext, PTL DEF StackSpec

-------------------------------------------------------------------------------
(* The workspaces of the runs                                              *)

(* A record of a run: the place, if gan made it, is the run's own.         *)
WorkspaceRecord ==
  [place : Places \union {None}, branch : {None, Task, Topic}, createdByGan : BOOLEAN]
RecordsFit(records) ==
  /\ records \in [Runs -> WorkspaceRecord]
  /\ \A r \in Runs : records[r].createdByGan => records[r].place = r

(* Every checkout has a branch that is there; the main one may be detached.*)
HeadsFit ==
  /\ Root \in DOMAIN head /\ DOMAIN head \subseteq Places
  /\ Main \in DOMAIN local /\ DOMAIN local \subseteq Branches
  /\ \A p \in DOMAIN head : \/ head[p].on \in DOMAIN local
                            \/ head[p].on = Detached /\ p = Root

SessionsFit ==
  /\ phase \in [Runs -> {"new", "freed", "resolved", "running", "over", "gone"}]
  /\ holder \in Runs \union {None}
  /\ RecordsFit(resolved) /\ RecordsFit(progress)

(* What a commit is known by: a branch here or on origin, the detached     *)
(* head, or the reason why it may be gone.                                 *)
Kept(c) ==
  \/ \E b \in DOMAIN local : c \in local[b]
  \/ \E b \in DOMAIN remote : c \in remote[b]
  \/ head[Root].on = Detached /\ c \in head[Root].at
  \/ c \in confirmed \union unforeseen \union ownCopyOnly

AllKept == \A c \in commits : Kept(c)

(* A plan is for the run's own worktree; what it found merged is on the    *)
(* base branch to this day, or counted as the upstream's only.             *)
PlanFields == {"run", "step", "yes", "place", "branch", "kind", "withRemote", "had"}
PlanFits ==
  plan # NoPlan =>
    /\ plan = [f \in PlanFields |-> plan[f]]
    /\ plan.run \in Runs
    /\ plan.step \in {"worktree", "branch", "remote", "run dir"}
    /\ plan.place \in {None, plan.run}
    /\ plan.branch \in {None, Task, Topic}
    /\ plan.kind \in {None, "delete-merged", "warn-unmerged"}
    /\ plan.withRemote \in BOOLEAN
    /\ plan.step = "remote" => plan.withRemote
    /\ plan.withRemote => plan.kind = "delete-merged"
    /\ plan.kind = "delete-merged" => plan.had \subseteq local[Main] \union ownCopyOnly
    /\ phase[plan.run] # "new"
    /\ plan.run \notin overtaken => ~ (holder = plan.run /\ alive)

(* The session of a live run has the worktree that was made for the run.   *)
LiveHasWorktree ==
  \A r \in Runs \ overtaken :
    holder = r /\ alive =>
      /\ phase[r] = "running" /\ progress[r].place = r => r \in DOMAIN head
      /\ phase[r] = "resolved" /\ resolved[r].place = r => r \in DOMAIN head

WorkspaceInv == HeadsFit /\ SessionsFit /\ AllKept /\ PlanFits /\ LiveHasWorktree

LEMMA WithIs ==
  ASSUME NEW f, NEW x, NEW value
  PROVE  /\ DOMAIN With(f, x, value) = DOMAIN f \union {x}
         /\ With(f, x, value)[x] = value
         /\ \A y \in DOMAIN f : y # x => With(f, x, value)[y] = f[y]
BY DEF With

LEMMA WithoutIs ==
  ASSUME NEW f, NEW x
  PROVE  /\ DOMAIN Without(f, x) = DOMAIN f \ {x}
         /\ \A y \in DOMAIN f : y # x => Without(f, x)[y] = f[y]
BY DEF Without, Restrict

LEMMA BranchNames ==
  /\ {Main, Task, Topic} = Branches /\ Detached \notin Branches /\ None \notin Branches
  /\ Main # Task /\ Main # Topic /\ Task # Topic /\ None # Detached
BY DEF Branches, Main, Task, Topic, Detached, None

LEMMA PlaceNames ==
  /\ Root \in Places /\ Own \in Places /\ Runs \subseteq Places
  /\ Root \notin Runs /\ Own \notin Runs /\ None \notin Runs /\ None \notin Places
BY RunsAssumption DEF Places, Root, Own, None

LEMMA AtWork == plan.step # None => plan # NoPlan
BY DEF NoPlan

LEMMA WorkspaceInvInit == WorkspaceInit => WorkspaceInv
<1> SUFFICES ASSUME WorkspaceInit PROVE WorkspaceInv
  OBVIOUS
<1>1. HeadsFit
  BY PlaceNames, BranchNames DEF WorkspaceInit, HeadsFit, On
<1>2. SessionsFit
  <2>1. NoRecord \in WorkspaceRecord /\ ~NoRecord.createdByGan
    BY DEF NoRecord, WorkspaceRecord
  <2> QED BY <2>1 DEF WorkspaceInit, SessionsFit, RecordsFit
<1>3. AllKept
  BY DEF WorkspaceInit, AllKept, Kept, Range
<1>4. PlanFits /\ LiveHasWorktree
  BY DEF WorkspaceInit, PlanFits, LiveHasWorktree
<1> QED BY <1>1, <1>2, <1>3, <1>4 DEF WorkspaceInv

(* The branches and heads that a step leaves alone keep fitting.           *)
LEMMA HeadsNext == WorkspaceInv /\ [WorkspaceNext]_workspaceVars => HeadsFit'
<1> SUFFICES ASSUME WorkspaceInv, [WorkspaceNext]_workspaceVars PROVE HeadsFit'
  OBVIOUS
<1>0. HeadsFit /\ SessionsFit /\ PlanFits
  BY DEF WorkspaceInv
<1>1. CASE UNCHANGED <<local, head>>
  BY <1>0, <1>1 DEF HeadsFit
<1>2. ASSUME NEW r \in Runs, NEW ask, ResolveNew(r, ask) PROVE HeadsFit'
  <2>1. local' = With(local, Task, HeadCommits(ask.from)) /\ head' = With(head, r, On(Task))
    BY <1>2 DEF ResolveNew
  <2>2. /\ DOMAIN local' = DOMAIN local \union {Task} /\ DOMAIN head' = DOMAIN head \union {r}
        /\ head'[r] = On(Task) /\ \A p \in DOMAIN head : p # r => head'[p] = head[p]
    BY <2>1 DEF With
  <2>3. On(Task).on = Task
    BY DEF On
  <2> QED BY <1>0, <2>2, <2>3, PlaceNames, BranchNames DEF HeadsFit
<1>3. ASSUME NEW r \in Runs, NEW ask, FreeCurrentCheckout(r, ask) PROVE HeadsFit'
  <2>1. /\ local' = local
        /\ \/ head' = [head EXCEPT ![Root] = [on |-> Detached, at |-> HeadCommits(Root)]]
           \/ head' = [head EXCEPT ![Root] = On(Main)]
    BY <1>3 DEF FreeCurrentCheckout
  <2> QED BY <1>0, <2>1 DEF HeadsFit, On
<1>4. ASSUME NEW r \in Runs, AddWorktree(r) PROVE HeadsFit'
  <2>1. CASE UNCHANGED head
    BY <1>1, <1>4, <2>1 DEF AddWorktree
  <2>2. CASE resolved[r].branch \in DOMAIN local /\ head' = With(head, r, On(resolved[r].branch))
    <3>1. /\ DOMAIN head' = DOMAIN head \union {r} /\ head'[r] = On(resolved[r].branch)
          /\ \A p \in DOMAIN head : p # r => head'[p] = head[p]
      BY <2>2 DEF With
    <3>2. On(resolved[r].branch).on = resolved[r].branch
      BY DEF On
    <3>3. local' = local
      BY <1>4 DEF AddWorktree
    <3> QED BY <1>0, <2>2, <3>1, <3>2, <3>3, PlaceNames DEF HeadsFit
  <2> QED BY <1>4, <2>1, <2>2 DEF AddWorktree
<1>5. ASSUME NEW p, p # Root, head' = Without(head, p), local' = local PROVE HeadsFit'
  <2>1. DOMAIN head' = DOMAIN head \ {p} /\ \A q \in DOMAIN head : q # p => head'[q] = head[q]
    BY <1>5, WithoutIs
  <2> QED BY <1>0, <1>5, <2>1 DEF HeadsFit
<1>6. ASSUME NEW r \in Runs, EndRun(r) PROVE HeadsFit'
  BY <1>1, <1>5, <1>6, PlaceNames DEF EndRun
<1>7. CASE RemoveWorktree
  BY <1>1, <1>5, <1>7 DEF RemoveWorktree
<1>8. ASSUME NEW b, NEW value, local' = [local EXCEPT ![b] = value], head' = head PROVE HeadsFit'
  BY <1>0, <1>8 DEF HeadsFit
<1>9. CASE DeleteLocalBranch
  <2>1. CASE UNCHANGED local
    BY <1>1, <1>9, <2>1 DEF DeleteLocalBranch
  <2>2. CASE plan.branch \in DOMAIN local /\ ~Occupied(plan.branch) /\ local' = Without(local, plan.branch)
    <3>1. plan # NoPlan
      BY <1>9, AtWork DEF DeleteLocalBranch, None
    <3>2. plan.branch \in {None, Task, Topic} /\ head' = head
      BY <1>0, <1>9, <3>1 DEF PlanFits, DeleteLocalBranch
    <3>3. DOMAIN local' = DOMAIN local \ {plan.branch}
      BY <2>2, WithoutIs
    <3>4. \A p \in DOMAIN head : head[p].on # plan.branch
      BY <2>2 DEF Occupied
    <3>5. Main # plan.branch
      BY <3>2, BranchNames DEF Main, None
    <3> QED BY <1>0, <3>2, <3>3, <3>4, <3>5 DEF HeadsFit
  <2> QED BY <1>9, <2>1, <2>2 DEF DeleteLocalBranch
<1>10. ASSUME NEW p, Commit(p) PROVE HeadsFit'
  BY <1>8, <1>10 DEF Commit
<1>11. ASSUME NEW b, MergeLocal(b) PROVE HeadsFit'
  BY <1>8, <1>11 DEF MergeLocal
<1>12. ASSUME NEW r \in Runs, NEW ask,
              ResolveHere(r, ask) \/ RecordWorkspace(r) \/ RecoverRun(r) \/ StartCleanup(r)
       PROVE  HeadsFit'
  BY <1>1, <1>12 DEF ResolveHere, RecordWorkspace, RecoverRun, StartCleanup, git
<1>13. CASE KillSession \/ DeleteRemoteBranch \/ RemoveRunDir \/ UNCHANGED workspaceVars
  BY <1>1, <1>13 DEF KillSession, DeleteRemoteBranch, RemoveRunDir, workspaceVars, git
<1>14. ASSUME NEW p, Change(p) PROVE HeadsFit'
  BY <1>1, <1>14 DEF Change
<1>15. ASSUME NEW b, Push(b) \/ RemoteCommit(b) PROVE HeadsFit'
  BY <1>1, <1>15 DEF Push, RemoteCommit
<1> QED BY <1>2, <1>3, <1>4, <1>6, <1>7, <1>9, <1>10, <1>11, <1>12, <1>13, <1>14, <1>15 DEF WorkspaceNext

LEMMA SessionsNext == WorkspaceInv /\ [WorkspaceNext]_workspaceVars => SessionsFit'
<1> SUFFICES ASSUME WorkspaceInv, [WorkspaceNext]_workspaceVars PROVE SessionsFit'
  OBVIOUS
<1>0. HeadsFit /\ SessionsFit /\ PlanFits
  BY DEF WorkspaceInv
<1>1. CASE UNCHANGED session
  <2>1. UNCHANGED <<phase, holder, resolved, progress>>
    BY <1>1 DEF session
  <2> QED BY <1>0, <2>1 DEF SessionsFit
<1>2. ASSUME NEW r \in Runs, NEW record \in WorkspaceRecord,
             record.createdByGan => record.place = r,
             NEW records, RecordsFit(records)
      PROVE  RecordsFit([records EXCEPT ![r] = record])
  BY <1>2 DEF RecordsFit
<1>3. ASSUME NEW r \in Runs, NEW ask, ResolveNew(r, ask) \/ ResolveHere(r, ask) PROVE SessionsFit'
  <2>1. /\ phase' = [phase EXCEPT ![r] = "resolved"] /\ holder' = r /\ UNCHANGED progress
    BY <1>3 DEF ResolveNew, ResolveHere, Begins, ResolvesTo
  <2>2. PICK record \in WorkspaceRecord :
          /\ resolved' = [resolved EXCEPT ![r] = record]
          /\ record.createdByGan => record.place = r
    <3>1. CASE ResolveNew(r, ask)
      <4>1. [place |-> r, branch |-> Task, createdByGan |-> TRUE] \in WorkspaceRecord
        BY PlaceNames DEF WorkspaceRecord
      <4> QED BY <3>1, <4>1 DEF ResolveNew, ResolvesTo
    <3>2. CASE ResolveHere(r, ask)
      <4>1. head[ask.from].on \in {Task, Topic} /\ ask.from \in Places
        BY <1>0, <3>2 DEF ResolveHere, Begins, Matches, BranchMatchesSlug, HeadsFit
      <4>2. [place |-> ask.from, branch |-> head[ask.from].on, createdByGan |-> FALSE] \in WorkspaceRecord
        BY <4>1 DEF WorkspaceRecord
      <4> QED BY <3>2, <4>2 DEF ResolveHere, ResolvesTo
    <3> QED BY <1>3, <3>1, <3>2
  <2> QED BY <1>0, <1>2, <2>1, <2>2 DEF SessionsFit
<1>4. ASSUME NEW r \in Runs, NEW ask, FreeCurrentCheckout(r, ask) PROVE SessionsFit'
  <2>1. /\ phase' = [phase EXCEPT ![r] = "freed"] /\ holder' = r /\ UNCHANGED progress
        /\ head[Root].on \in {Task, Topic}
    BY <1>4 DEF FreeCurrentCheckout, Begins, Matches, BranchMatchesSlug
  <2> DEFINE record == [place |-> resolved[r].place, branch |-> head[Root].on,
                        createdByGan |-> resolved[r].createdByGan]
  <2>2. resolved[r] \in WorkspaceRecord /\ (resolved[r].createdByGan => resolved[r].place = r)
    BY <1>0 DEF SessionsFit, RecordsFit
  <2>3. record \in WorkspaceRecord /\ (record.createdByGan => record.place = r)
    BY <2>1, <2>2 DEF WorkspaceRecord
  <2>4. resolved' = [resolved EXCEPT ![r] = record]
    <3>1. [resolved[r] EXCEPT !.branch = head[Root].on] = record
      BY <2>2 DEF WorkspaceRecord
    <3>2. resolved' = [resolved EXCEPT ![r] = [resolved[r] EXCEPT !.branch = head[Root].on]]
      BY <1>4 DEF FreeCurrentCheckout
    <3> QED BY <3>1, <3>2
  <2> HIDE DEF record
  <2> QED BY <1>0, <1>2, <2>1, <2>3, <2>4 DEF SessionsFit
<1>5. ASSUME NEW r \in Runs, AddWorktree(r) PROVE SessionsFit'
  <2>1. CASE /\ ResolvesTo(r, r, resolved[r].branch, TRUE)
             /\ UNCHANGED holder /\ UNCHANGED progress
    <3>1. resolved[r].branch \in {None, Task, Topic}
      BY <1>0 DEF SessionsFit, RecordsFit, WorkspaceRecord
    <3>2. [place |-> r, branch |-> resolved[r].branch, createdByGan |-> TRUE] \in WorkspaceRecord
      BY <3>1, PlaceNames DEF WorkspaceRecord
    <3> QED BY <1>0, <1>2, <2>1, <3>2 DEF SessionsFit, ResolvesTo
  <2>2. CASE /\ phase' = [phase EXCEPT ![r] = "over"] /\ holder' = None
             /\ UNCHANGED resolved /\ UNCHANGED progress
    BY <1>0, <2>2 DEF SessionsFit
  <2> QED BY <1>5, <2>1, <2>2 DEF AddWorktree
<1>6. ASSUME NEW r \in Runs, RecordWorkspace(r) PROVE SessionsFit'
  <2>1. resolved[r] \in WorkspaceRecord /\ (resolved[r].createdByGan => resolved[r].place = r)
    BY <1>0 DEF SessionsFit, RecordsFit
  <2> QED BY <1>0, <1>2, <1>6, <2>1 DEF SessionsFit, RecordWorkspace
<1>7. ASSUME NEW r \in Runs, EndRun(r) \/ RecoverRun(r) PROVE SessionsFit'
  BY <1>0, <1>7 DEF SessionsFit, EndRun, RecoverRun
<1>8. CASE KillSession
  BY <1>0, <1>8 DEF SessionsFit, KillSession
<1>9. CASE RemoveRunDir
  <2>1. CASE UNCHANGED <<phase, progress>>
    BY <1>0, <1>9, <2>1 DEF SessionsFit, RemoveRunDir
  <2>2. CASE /\ phase' = [phase EXCEPT ![plan.run] = "gone"]
             /\ progress' = [progress EXCEPT ![plan.run] = NoRecord]
    <3>1. plan.run \in Runs
      BY <1>0, <1>9, AtWork DEF PlanFits, RemoveRunDir, None
    <3>2. NoRecord \in WorkspaceRecord /\ ~NoRecord.createdByGan
      BY DEF NoRecord, WorkspaceRecord
    <3> QED BY <1>0, <1>2, <1>9, <2>2, <3>1, <3>2 DEF SessionsFit, RemoveRunDir
  <2> QED BY <1>9, <2>1, <2>2 DEF RemoveRunDir
<1>10. ASSUME NEW r \in Runs, StartCleanup(r) PROVE SessionsFit'
  BY <1>1, <1>10 DEF StartCleanup
<1>11. ASSUME NEW x, Change(x) \/ Commit(x) \/ Push(x) \/ RemoteCommit(x) \/ MergeLocal(x)
       PROVE  SessionsFit'
  BY <1>1, <1>11 DEF Change, Commit, Push, RemoteCommit, MergeLocal
<1>12. CASE RemoveWorktree \/ DeleteLocalBranch \/ DeleteRemoteBranch \/ UNCHANGED workspaceVars
  BY <1>1, <1>12 DEF RemoveWorktree, DeleteLocalBranch, DeleteRemoteBranch, workspaceVars
<1> QED BY <1>3, <1>4, <1>5, <1>6, <1>7, <1>8, <1>9, <1>10, <1>11, <1>12 DEF WorkspaceNext

LEMMA KeptNext == WorkspaceInv /\ [WorkspaceNext]_workspaceVars => AllKept'
<1> SUFFICES ASSUME WorkspaceInv, [WorkspaceNext]_workspaceVars PROVE AllKept'
  OBVIOUS
<1>0. HeadsFit /\ SessionsFit /\ PlanFits /\ AllKept
  BY DEF WorkspaceInv
<1>1. ASSUME UNCHANGED <<local, remote, commits, head>>,
             confirmed \union unforeseen \union ownCopyOnly
               \subseteq confirmed' \union unforeseen' \union ownCopyOnly'
      PROVE  AllKept'
  BY <1>0, <1>1 DEF AllKept, Kept
<1>2. ASSUME UNCHANGED <<remote, commits, confirmed, unforeseen, ownCopyOnly>>,
             \A b \in DOMAIN local : b \in DOMAIN local' /\ local[b] \subseteq local'[b],
             head'[Root] = head[Root]
      PROVE  AllKept'
  BY <1>0, <1>2 DEF AllKept, Kept
<1>3. ASSUME NEW r \in Runs, NEW ask, ResolveNew(r, ask) PROVE AllKept'
  <2>1. /\ local' = With(local, Task, HeadCommits(ask.from)) /\ head' = With(head, r, On(Task))
        /\ Task \notin DOMAIN local
        /\ UNCHANGED <<remote, commits, confirmed, unforeseen, ownCopyOnly>>
    BY <1>3 DEF ResolveNew, Begins, cleanup
  <2>2. \A b \in DOMAIN local : b \in DOMAIN local' /\ local[b] \subseteq local'[b]
    BY <2>1 DEF With
  <2>3. head'[Root] = head[Root]
    BY <1>0, <2>1, PlaceNames DEF With, HeadsFit
  <2> QED BY <1>2, <2>1, <2>2, <2>3
<1>4. ASSUME NEW r \in Runs, NEW ask, FreeCurrentCheckout(r, ask) PROVE AllKept'
  <2>1. UNCHANGED <<local, remote, commits, confirmed, unforeseen, ownCopyOnly>>
    BY <1>4 DEF FreeCurrentCheckout, Begins, cleanup
  <2>2. head[Root].on # Detached
    BY <1>4, BranchNames DEF FreeCurrentCheckout, Matches, BranchMatchesSlug
  <2> QED BY <1>0, <2>1, <2>2 DEF AllKept, Kept
<1>5. ASSUME NEW r \in Runs, AddWorktree(r) PROVE AllKept'
  <2>1. UNCHANGED <<local, remote, commits, confirmed, unforeseen, ownCopyOnly>>
    BY <1>5 DEF AddWorktree, cleanup
  <2>2. head'[Root] = head[Root]
    BY <1>0, <1>5, PlaceNames DEF AddWorktree, With, HeadsFit
  <2> QED BY <1>2, <2>1, <2>2
<1>6. ASSUME NEW p, p # Root, head' = Without(head, p) PROVE head'[Root] = head[Root]
  BY <1>0, <1>6 DEF Without, Restrict, HeadsFit
<1>7. ASSUME NEW r \in Runs, EndRun(r) PROVE AllKept'
  <2>1. UNCHANGED <<local, remote, commits, confirmed, unforeseen, ownCopyOnly>>
    BY <1>7 DEF EndRun, cleanup
  <2>2. head'[Root] = head[Root]
    BY <1>6, <1>7, PlaceNames DEF EndRun
  <2> QED BY <1>2, <2>1, <2>2
<1>8. CASE RemoveWorktree
  <2>1. UNCHANGED <<local, remote, commits, confirmed, unforeseen, ownCopyOnly>>
    BY <1>8 DEF RemoveWorktree
  <2>2. head'[Root] = head[Root]
    BY <1>6, <1>8 DEF RemoveWorktree
  <2> QED BY <1>2, <2>1, <2>2
<1>9. ASSUME NEW p \in DOMAIN head, Commit(p) PROVE AllKept'
  <2>1. /\ head[p].on # Detached /\ commits' = commits \union {New}
        /\ local' = [local EXCEPT ![head[p].on] = @ \union {New}]
        /\ UNCHANGED <<remote, head, confirmed, unforeseen, ownCopyOnly>>
    BY <1>9 DEF Commit, cleanup
  <2>2. head[p].on \in DOMAIN local
    BY <1>0, <2>1 DEF HeadsFit
  <2>3. /\ \A b \in DOMAIN local : b \in DOMAIN local' /\ local[b] \subseteq local'[b]
        /\ New \in local'[head[p].on] /\ head[p].on \in DOMAIN local'
    BY <2>1, <2>2
  <2> QED BY <1>0, <2>1, <2>3 DEF AllKept, Kept
<1>10. ASSUME NEW b \in {Task, Topic}, Push(b) PROVE AllKept'
  <2>1. /\ b \in DOMAIN remote => remote[b] \subseteq local[b]
        /\ remote' = With(remote, b, local[b])
        /\ UNCHANGED <<local, head, commits, confirmed, unforeseen, ownCopyOnly>>
    BY <1>10 DEF Push, cleanup
  <2>2. \A d \in DOMAIN remote : d \in DOMAIN remote' /\ remote[d] \subseteq remote'[d]
    BY <2>1 DEF With
  <2> QED BY <1>0, <2>1, <2>2 DEF AllKept, Kept
<1>11. ASSUME NEW b \in {Task, Topic}, RemoteCommit(b) PROVE AllKept'
  <2>1. /\ b \in DOMAIN remote /\ commits' = commits \union {New}
        /\ remote' = [remote EXCEPT ![b] = @ \union {New}]
        /\ UNCHANGED <<local, head, confirmed, unforeseen, ownCopyOnly>>
    BY <1>11 DEF RemoteCommit, cleanup
  <2>2. /\ \A d \in DOMAIN remote : d \in DOMAIN remote' /\ remote[d] \subseteq remote'[d]
        /\ New \in remote'[b] /\ b \in DOMAIN remote'
    BY <2>1
  <2> QED BY <1>0, <2>1, <2>2 DEF AllKept, Kept
<1>12. ASSUME NEW b \in {Task, Topic}, MergeLocal(b) PROVE AllKept'
  <2>1. /\ local' = [local EXCEPT ![Main] = @ \union local[b]]
        /\ UNCHANGED <<remote, head, commits, confirmed, unforeseen, ownCopyOnly>>
    BY <1>12 DEF MergeLocal, cleanup
  <2> QED BY <1>2, <2>1
<1>13. ASSUME NEW r \in Runs, StartCleanup(r) PROVE AllKept'
  <2>1. /\ UNCHANGED <<local, remote, commits, head, confirmed, unforeseen>>
        /\ ownCopyOnly \subseteq ownCopyOnly'
    BY <1>13 DEF StartCleanup, git
  <2> QED BY <1>1, <2>1
<1>14. \A c : plan # NoPlan /\ plan.kind = "delete-merged" /\ c \in plan.had =>
               c \in local[Main] \/ c \in ownCopyOnly
  BY <1>0 DEF PlanFits
<1>15. CASE DeleteLocalBranch
  <2>1. plan # NoPlan /\ plan.branch \in {None, Task, Topic}
    BY <1>0, <1>15, AtWork DEF PlanFits, DeleteLocalBranch, None
  <2>2. UNCHANGED <<remote, head, commits, ownCopyOnly>>
    BY <1>15 DEF DeleteLocalBranch
  <2>3. CASE UNCHANGED <<local, confirmed, unforeseen>>
    BY <1>1, <2>2, <2>3
  <2>4. CASE local' # local \/ confirmed' # confirmed \/ unforeseen' # unforeseen
    <3>1. /\ local' = Without(local, plan.branch)
          /\ plan.kind = "delete-merged" \/ plan.kind = "warn-unmerged"
          /\ IF plan.kind = "warn-unmerged"
             THEN confirmed' = confirmed \union local[plan.branch] /\ UNCHANGED unforeseen
             ELSE unforeseen' = unforeseen \union (local[plan.branch] \ plan.had) /\ UNCHANGED confirmed
      BY <1>15, <2>4 DEF DeleteLocalBranch
    <3>2. \A b \in DOMAIN local : b # plan.branch => b \in DOMAIN local' /\ local'[b] = local[b]
      BY <3>1 DEF Without, Restrict
    <3>3. Main # plan.branch /\ Main \in DOMAIN local
      BY <1>0, <2>1, BranchNames DEF HeadsFit, Main, None
    <3>4. ASSUME NEW c \in local[plan.branch] PROVE Kept(c)'
      <4>1. CASE plan.kind = "warn-unmerged"
        BY <3>1, <4>1 DEF Kept
      <4>2. CASE plan.kind # "warn-unmerged" /\ c \notin plan.had
        BY <3>1, <4>2 DEF Kept
      <4>3. CASE plan.kind # "warn-unmerged" /\ c \in plan.had
        <5>1. c \in local[Main] \/ c \in ownCopyOnly
          BY <1>14, <2>1, <3>1, <4>3
        <5> QED BY <2>2, <3>2, <3>3, <5>1 DEF Kept
      <4> QED BY <4>1, <4>2, <4>3
    <3>5. confirmed \subseteq confirmed' /\ unforeseen \subseteq unforeseen'
      BY <3>1
    <3>6. ASSUME NEW c \in commits PROVE Kept(c)'
      <4>1. CASE \E b \in DOMAIN local : c \in local[b]
        BY <3>2, <3>4, <4>1 DEF Kept
      <4>2. CASE ~ \E b \in DOMAIN local : c \in local[b]
        BY <1>0, <2>2, <3>5, <4>2 DEF AllKept, Kept
      <4> QED BY <4>1, <4>2
    <3> QED BY <2>2, <3>6 DEF AllKept
  <2> QED BY <2>3, <2>4
<1>16. CASE DeleteRemoteBranch
  <2>1. /\ plan # NoPlan /\ plan.kind = "delete-merged"
    BY <1>0, <1>16, AtWork DEF PlanFits, DeleteRemoteBranch, None
  <2>2. UNCHANGED <<local, head, commits, confirmed, ownCopyOnly>>
    BY <1>16 DEF DeleteRemoteBranch
  <2>3. CASE UNCHANGED <<remote, unforeseen>>
    BY <1>1, <2>2, <2>3
  <2>4. CASE /\ remote' = Without(remote, plan.branch)
             /\ unforeseen' = unforeseen \union (remote[plan.branch] \ plan.had)
    <3>1. \A b \in DOMAIN remote : b # plan.branch => b \in DOMAIN remote' /\ remote'[b] = remote[b]
      BY <2>4 DEF Without, Restrict
    <3>2. Main \in DOMAIN local
      BY <1>0 DEF HeadsFit
    <3>3. ASSUME NEW c \in remote[plan.branch] PROVE Kept(c)'
      <4>1. CASE c \notin plan.had
        BY <2>4, <4>1 DEF Kept
      <4>2. CASE c \in plan.had
        BY <1>14, <2>1, <2>2, <3>2, <4>2 DEF Kept
      <4> QED BY <4>1, <4>2
    <3>4. ASSUME NEW c \in commits PROVE Kept(c)'
      <4>1. CASE \E b \in DOMAIN remote : c \in remote[b]
        BY <3>1, <3>3, <4>1 DEF Kept
      <4>2. CASE ~ \E b \in DOMAIN remote : c \in remote[b]
        BY <1>0, <2>2, <2>4, <4>2 DEF AllKept, Kept
      <4> QED BY <4>1, <4>2
    <3> QED BY <2>2, <3>4 DEF AllKept
  <2> QED BY <1>16, <2>3, <2>4 DEF DeleteRemoteBranch
<1>17. ASSUME NEW r \in Runs, NEW ask, ResolveHere(r, ask) \/ RecordWorkspace(r) \/ RecoverRun(r)
       PROVE  AllKept'
  <2>1. UNCHANGED <<local, remote, commits, head, confirmed, unforeseen, ownCopyOnly>>
    BY <1>17 DEF ResolveHere, Begins, RecordWorkspace, RecoverRun, git, cleanup
  <2> QED BY <1>1, <2>1
<1>18. ASSUME NEW p, Change(p) PROVE AllKept'
  <2>1. UNCHANGED <<local, remote, commits, head, confirmed, unforeseen, ownCopyOnly>>
    BY <1>18 DEF Change, cleanup
  <2> QED BY <1>1, <2>1
<1>19. CASE KillSession \/ RemoveRunDir \/ UNCHANGED workspaceVars
  <2>1. UNCHANGED <<local, remote, commits, head, confirmed, unforeseen, ownCopyOnly>>
    BY <1>19 DEF KillSession, RemoveRunDir, workspaceVars, git, cleanup
  <2> QED BY <1>1, <2>1
<1> QED BY <1>3, <1>4, <1>5, <1>7, <1>8, <1>9, <1>10, <1>11, <1>12, <1>13, <1>15, <1>16, <1>17, <1>18, <1>19
    DEF WorkspaceNext

LEMMA PlanNext == WorkspaceInv /\ [WorkspaceNext]_workspaceVars => PlanFits'
<1> SUFFICES ASSUME WorkspaceInv, [WorkspaceNext]_workspaceVars PROVE PlanFits'
  OBVIOUS
<1>0. HeadsFit /\ SessionsFit /\ PlanFits /\ Main \in DOMAIN local
  BY DEF WorkspaceInv, HeadsFit
(* A step that is none of the cleanup's.                                   *)
<1>1. ASSUME UNCHANGED <<plan, ownCopyOnly>>, overtaken \subseteq overtaken',
             local[Main] \subseteq local'[Main],
             plan # NoPlan /\ plan.run \in Runs /\ phase[plan.run] # "new" => phase'[plan.run] # "new",
             plan # NoPlan /\ plan.run \in Runs /\ phase[plan.run] # "new" /\ plan.run \notin overtaken'
               /\ ~ (holder = plan.run /\ alive) => ~ (holder' = plan.run /\ alive')
      PROVE  PlanFits'
  <2> SUFFICES ASSUME plan # NoPlan PROVE PlanFits'
    BY <1>1 DEF PlanFits
  <2>1. plan.run \in Runs /\ phase[plan.run] # "new"
    BY <1>0 DEF PlanFits
  <2>2. plan.run \notin overtaken' => ~ (holder' = plan.run /\ alive')
    BY <1>0, <1>1, <2>1 DEF PlanFits
  <2>3. plan.kind = "delete-merged" => plan.had \subseteq local'[Main] \union ownCopyOnly'
    BY <1>0, <1>1 DEF PlanFits
  <2> QED BY <1>0, <1>1, <2>1, <2>2, <2>3 DEF PlanFits
<1>2. ASSUME UNCHANGED <<plan, ownCopyOnly, overtaken, phase, holder, alive>>,
             local[Main] \subseteq local'[Main]
      PROVE  PlanFits'
  BY <1>1, <1>2
<1>3. phase \in [Runs -> {"new", "freed", "resolved", "running", "over", "gone"}]
  BY <1>0 DEF SessionsFit
<1>4. ASSUME NEW r \in Runs, NEW ask, ResolveNew(r, ask) \/ ResolveHere(r, ask) \/ FreeCurrentCheckout(r, ask)
      PROVE  PlanFits'
  <2>1. /\ UNCHANGED <<plan, ownCopyOnly, overtaken>> /\ phase[r] = "new" /\ holder' = r
        /\ \E to \in {"resolved", "freed"} : phase' = [phase EXCEPT ![r] = to]
    BY <1>4 DEF ResolveNew, ResolveHere, FreeCurrentCheckout, Begins, ResolvesTo, cleanup
  <2>2. local[Main] \subseteq local'[Main]
    <3>1. CASE local' = With(local, Task, HeadCommits(ask.from))
      BY <1>0, <3>1, BranchNames DEF With
    <3> QED BY <1>4, <3>1 DEF ResolveNew, ResolveHere, FreeCurrentCheckout, git
  <2> QED BY <1>1, <1>3, <2>1, <2>2
<1>5. ASSUME NEW r \in Runs, AddWorktree(r) \/ RecordWorkspace(r) \/ EndRun(r) PROVE PlanFits'
  <2>1. /\ UNCHANGED <<plan, ownCopyOnly, overtaken, local, alive>>
        /\ holder' = holder \/ holder' = None
        /\ \E to \in {"resolved", "running", "over"} : phase' = [phase EXCEPT ![r] = to]
    BY <1>5 DEF AddWorktree, RecordWorkspace, EndRun, ResolvesTo, cleanup, git
  <2>2. None \notin Runs
    BY PlaceNames
  <2> QED BY <1>1, <1>3, <2>1, <2>2
<1>6. CASE KillSession
  <2>1. /\ UNCHANGED <<plan, ownCopyOnly, overtaken, local>>
        /\ alive' = FALSE /\ phase' = [phase EXCEPT ![holder] = "over"]
    BY <1>6 DEF KillSession, cleanup, git
  <2> QED BY <1>1, <1>3, <2>1
<1>7. ASSUME NEW r \in Runs, RecoverRun(r) PROVE PlanFits'
  <2>1. /\ UNCHANGED <<plan, ownCopyOnly, local>>
        /\ holder' = r /\ phase' = [phase EXCEPT ![r] = "running"]
        /\ overtaken' = IF plan # NoPlan /\ plan.run = r THEN overtaken \union {r} ELSE overtaken
    BY <1>7 DEF RecoverRun, git
  <2> QED BY <1>1, <1>3, <2>1
<1>8. ASSUME NEW b \in {Task, Topic}, Push(b) \/ RemoteCommit(b) \/ MergeLocal(b) PROVE PlanFits'
  <2>1. UNCHANGED <<plan, ownCopyOnly, overtaken, phase, holder, alive>>
    BY <1>8 DEF Push, RemoteCommit, MergeLocal, session, cleanup
  <2>2. local[Main] \subseteq local'[Main]
    BY <1>0, <1>8 DEF Push, RemoteCommit, MergeLocal
  <2> QED BY <1>2, <2>1, <2>2
<1>9. ASSUME NEW p, Change(p) \/ Commit(p) PROVE PlanFits'
  <2>1. UNCHANGED <<plan, ownCopyOnly, overtaken, phase, holder, alive>>
    BY <1>9 DEF Change, Commit, session, cleanup
  <2>2. local[Main] \subseteq local'[Main]
    BY <1>0, <1>9 DEF Change, Commit
  <2> QED BY <1>2, <2>1, <2>2
<1>10. ASSUME NEW r \in Runs, StartCleanup(r) PROVE PlanFits'
  <2>1. PICK yes \in BOOLEAN : plan' = PlanRunCleanup(r, yes)
    BY <1>10 DEF StartCleanup
  <2>2. /\ UNCHANGED <<local, upstream, phase, holder, alive, overtaken>>
        /\ phase[r] # "new" /\ ~ (holder = r /\ alive)
        /\ ownCopyOnly' = IF /\ plan'.withRemote
                             /\ plan'.had \subseteq upstream[plan'.branch]
                             /\ ~(plan'.had \subseteq local[Main])
                          THEN ownCopyOnly \union plan'.had ELSE ownCopyOnly
    BY <1>10 DEF StartCleanup, git, session, ActiveRunGuard
  <2> DEFINE run == progress[r]
             tracked == IF run.branch \in DOMAIN local \intersect DOMAIN upstream
                        THEN {upstream[run.branch]} ELSE {}
             merged == IsMergedIntoAny(run.branch, {local[Main]} \union tracked)
  <2>3. run \in WorkspaceRecord /\ (run.createdByGan => run.place = r)
    BY <1>0 DEF SessionsFit, RecordsFit
  <2>4. /\ plan'.run = r /\ plan'.step = "worktree"
        /\ plan'.place = IF run.createdByGan THEN run.place ELSE None
        /\ plan'.branch = IF run.createdByGan THEN run.branch ELSE None
        /\ plan'.kind = CASE ~run.createdByGan -> None
                          [] run.createdByGan /\ merged -> "delete-merged"
                          [] OTHER -> "warn-unmerged"
        /\ plan'.withRemote = (run.createdByGan /\ merged /\ tracked # {})
        /\ plan'.had = IF run.branch \in DOMAIN local THEN local[run.branch] ELSE {}
    BY <2>1 DEF PlanRunCleanup
  <2>5. plan' = [f \in PlanFields |-> plan'[f]]
    BY <2>1 DEF PlanRunCleanup, PlanFields
  <2>6. merged \in BOOLEAN
    BY DEF IsMergedIntoAny
  <2>7. merged => \/ plan'.had \subseteq local[Main]
                  \/ tracked # {} /\ plan'.had \subseteq upstream[run.branch]
    BY <2>4 DEF IsMergedIntoAny, IsAncestor
  <2> HIDE DEF tracked, merged
  <2>8. plan'.kind \in {None, "delete-merged", "warn-unmerged"}
        /\ (plan'.kind = "delete-merged" => run.createdByGan /\ merged)
        /\ (run.createdByGan /\ merged => plan'.kind = "delete-merged")
    <3>1. CASE ~run.createdByGan
      BY <2>4, <3>1 DEF None
    <3>2. CASE run.createdByGan /\ merged
      BY <2>4, <3>2
    <3>3. CASE run.createdByGan /\ ~merged
      BY <2>4, <3>3
    <3> QED BY <2>3, <2>6, <3>1, <3>2, <3>3 DEF WorkspaceRecord
  <2>9. plan'.kind = "delete-merged" => plan'.had \subseteq local'[Main] \union ownCopyOnly'
    <3> SUFFICES ASSUME plan'.kind = "delete-merged"
                 PROVE  plan'.had \subseteq local'[Main] \union ownCopyOnly'
      OBVIOUS
    <3>1. run.createdByGan /\ merged /\ plan'.branch = run.branch
      BY <2>4, <2>8
    <3>2. CASE plan'.had \subseteq local[Main]
      BY <2>2, <3>2
    <3>3. CASE ~ (plan'.had \subseteq local[Main])
      <4>1. tracked # {} /\ plan'.had \subseteq upstream[run.branch]
        BY <2>7, <3>1, <3>3
      <4>2. plan'.withRemote
        BY <2>4, <3>1, <4>1
      <4>3. ownCopyOnly' = ownCopyOnly \union plan'.had
        BY <2>2, <3>1, <3>3, <4>1, <4>2
      <4> QED BY <4>3
    <3> QED BY <3>2, <3>3
  <2>10. plan'.place \in {None, plan'.run} /\ plan'.branch \in {None, Task, Topic}
    BY <2>3, <2>4 DEF WorkspaceRecord
  <2>11. plan'.withRemote \in BOOLEAN /\ (plan'.withRemote => plan'.kind = "delete-merged")
    BY <2>4, <2>8
  <2>12. plan'.step # "remote"
    BY <2>4
  <2> QED BY <2>2, <2>4, <2>5, <2>8, <2>9, <2>10, <2>11, <2>12 DEF PlanFits
<1>11. ASSUME NEW next \in {"branch", "remote", "run dir"}, Goes(next), plan # NoPlan,
              next = "remote" => plan.withRemote,
              UNCHANGED <<phase, holder, alive, ownCopyOnly, overtaken>>,
              local[Main] \subseteq local'[Main]
       PROVE  PlanFits'
  <2>1. plan = [f \in PlanFields |-> plan[f]] /\ plan' = [plan EXCEPT !.step = next]
    BY <1>0, <1>11 DEF PlanFits, Goes
  <2>2. /\ plan' = [f \in PlanFields |-> plan'[f]]
        /\ plan'.step = next /\ plan'.run = plan.run /\ plan'.place = plan.place
        /\ plan'.branch = plan.branch /\ plan'.kind = plan.kind
        /\ plan'.withRemote = plan.withRemote /\ plan'.had = plan.had
    BY <2>1 DEF PlanFields
  <2>3. plan.kind = "delete-merged" => plan.had \subseteq local'[Main] \union ownCopyOnly
    BY <1>0, <1>11 DEF PlanFits
  <2> QED BY <1>0, <1>11, <2>2, <2>3 DEF PlanFits
<1>12. CASE RemoveWorktree
  <2>1. plan # NoPlan
    BY <1>12, AtWork DEF RemoveWorktree, None
  <2> QED BY <1>11, <1>12, <2>1 DEF RemoveWorktree, session
<1>13. CASE DeleteLocalBranch
  <2>1. plan # NoPlan /\ plan.branch \in {None, Task, Topic} /\ plan.withRemote \in BOOLEAN
    BY <1>0, <1>13, AtWork DEF DeleteLocalBranch, PlanFits, None
  <2>2. local[Main] \subseteq local'[Main]
    <3>1. CASE local' = Without(local, plan.branch)
      <4>1. Main # plan.branch
        BY <2>1, BranchNames DEF Main, None
      <4> QED BY <1>0, <3>1, <4>1 DEF Without, Restrict
    <3> QED BY <1>13, <3>1 DEF DeleteLocalBranch
  <2>3. UNCHANGED <<phase, holder, alive, ownCopyOnly, overtaken>>
    BY <1>13 DEF DeleteLocalBranch, session
  <2>4. Goes(IF plan.withRemote THEN "remote" ELSE "run dir")
    BY <1>13 DEF DeleteLocalBranch
  <2>5. CASE plan.withRemote
    BY <1>11, <2>1, <2>2, <2>3, <2>4, <2>5
  <2>6. CASE ~plan.withRemote
    BY <1>11, <2>1, <2>2, <2>3, <2>4, <2>6
  <2> QED BY <2>5, <2>6
<1>14. CASE DeleteRemoteBranch
  <2>1. plan # NoPlan
    BY <1>14, AtWork DEF DeleteRemoteBranch, None
  <2> QED BY <1>11, <1>14, <2>1 DEF DeleteRemoteBranch, session
<1>15. CASE RemoveRunDir
  BY <1>15 DEF RemoveRunDir, PlanFits
<1>16. CASE UNCHANGED workspaceVars
  BY <1>2, <1>16 DEF workspaceVars, git, session, cleanup
<1> QED BY <1>4, <1>5, <1>6, <1>7, <1>8, <1>9, <1>10, <1>12, <1>13, <1>14, <1>15, <1>16 DEF WorkspaceNext

LEMMA LiveNext == WorkspaceInv /\ [WorkspaceNext]_workspaceVars => LiveHasWorktree'
<1> SUFFICES ASSUME WorkspaceInv, [WorkspaceNext]_workspaceVars PROVE LiveHasWorktree'
  OBVIOUS
<1>0. HeadsFit /\ SessionsFit /\ PlanFits /\ LiveHasWorktree
  BY DEF WorkspaceInv
<1>1. ASSUME UNCHANGED <<phase, holder, alive, progress, resolved>>, overtaken \subseteq overtaken',
             DOMAIN head \subseteq DOMAIN head'
      PROVE  LiveHasWorktree'
  BY <1>0, <1>1 DEF LiveHasWorktree
<1>2. /\ phase \in [Runs -> {"new", "freed", "resolved", "running", "over", "gone"}]
      /\ resolved \in [Runs -> WorkspaceRecord] /\ progress \in [Runs -> WorkspaceRecord]
  BY <1>0 DEF SessionsFit, RecordsFit
<1>3. ASSUME NEW r \in Runs, holder' = r,
             phase'[r] = "running" /\ progress'[r].place = r => r \in DOMAIN head',
             phase'[r] = "resolved" /\ resolved'[r].place = r => r \in DOMAIN head'
      PROVE  LiveHasWorktree'
  BY <1>3 DEF LiveHasWorktree
<1>4. ASSUME holder' = None \/ ~alive' PROVE LiveHasWorktree'
  BY <1>4, PlaceNames DEF LiveHasWorktree
<1>5. ASSUME NEW r \in Runs, NEW ask, ResolveNew(r, ask) PROVE LiveHasWorktree'
  <2>1. holder' = r /\ r \in DOMAIN head'
    BY <1>5 DEF ResolveNew, Begins, With
  <2> QED BY <1>3, <2>1
<1>6. ASSUME NEW r \in Runs, NEW ask, ResolveHere(r, ask) PROVE LiveHasWorktree'
  <2>1. /\ holder' = r /\ head' = head /\ phase'[r] = "resolved"
        /\ resolved'[r].place = ask.from /\ ask.from \in DOMAIN head
    BY <1>2, <1>6 DEF ResolveHere, Begins, ResolvesTo, git
  <2> QED BY <1>3, <2>1
<1>7. ASSUME NEW r \in Runs, NEW ask, FreeCurrentCheckout(r, ask) PROVE LiveHasWorktree'
  <2>1. holder' = r /\ phase'[r] = "freed"
    BY <1>2, <1>7 DEF FreeCurrentCheckout, Begins
  <2> QED BY <1>3, <2>1
<1>8. ASSUME NEW r \in Runs, AddWorktree(r) PROVE LiveHasWorktree'
  <2>1. CASE holder' = None
    BY <1>4, <2>1
  <2>2. CASE head' = With(head, r, On(resolved[r].branch)) /\ holder' = holder
    <3>1. holder' = r /\ r \in DOMAIN head'
      BY <1>8, <2>2 DEF AddWorktree, With
    <3> QED BY <1>3, <3>1
  <2> QED BY <1>8, <2>1, <2>2 DEF AddWorktree
<1>9. ASSUME NEW r \in Runs, RecordWorkspace(r) PROVE LiveHasWorktree'
  <2>1. /\ holder = r /\ alive /\ UNCHANGED <<holder, alive, head, overtaken>>
        /\ phase[r] = "resolved" /\ phase'[r] = "running" /\ progress'[r] = resolved[r]
    BY <1>2, <1>9 DEF RecordWorkspace, git, cleanup
  <2>2. CASE r \in overtaken
    BY <2>1, <2>2 DEF LiveHasWorktree
  <2>3. CASE r \notin overtaken
    <3>1. resolved[r].place = r => r \in DOMAIN head
      BY <1>0, <2>1, <2>3 DEF LiveHasWorktree
    <3> QED BY <1>3, <2>1, <3>1
  <2> QED BY <2>2, <2>3
<1>10. ASSUME NEW r \in Runs, EndRun(r) PROVE LiveHasWorktree'
  BY <1>4, <1>10 DEF EndRun
<1>11. CASE KillSession
  BY <1>4, <1>11 DEF KillSession
<1>12. ASSUME NEW r \in Runs, RecoverRun(r) PROVE LiveHasWorktree'
  <2>1. /\ holder' = r /\ head' = head /\ progress' = progress /\ phase'[r] = "running"
        /\ progress[r].place \in DOMAIN head
    BY <1>2, <1>12 DEF RecoverRun, git
  <2> QED BY <1>3, <2>1
<1>13. CASE RemoveWorktree
  <2>1. plan # NoPlan /\ plan.place \in {None, plan.run}
        /\ (plan.run \notin overtaken => ~ (holder = plan.run /\ alive))
    BY <1>0, <1>13, AtWork DEF RemoveWorktree, PlanFits, None
  <2>2. UNCHANGED <<phase, holder, alive, progress, resolved, overtaken>>
    BY <1>13 DEF RemoveWorktree, session
  <2>3. \A p \in DOMAIN head : p # plan.place => p \in DOMAIN head'
    BY <1>13 DEF RemoveWorktree, Without, Restrict
  <2> SUFFICES ASSUME NEW r \in Runs \ overtaken, holder = r, alive
               PROVE  r # plan.place
    BY <1>0, <2>2, <2>3 DEF LiveHasWorktree
  <2> QED BY <2>1, PlaceNames
<1>14. CASE RemoveRunDir
  <2>1. UNCHANGED <<holder, alive, resolved, overtaken, head>>
    BY <1>14 DEF RemoveRunDir, git
  <2>2. CASE UNCHANGED <<phase, progress>>
    BY <1>1, <2>1, <2>2
  <2>3. CASE /\ phase' = [phase EXCEPT ![plan.run] = "gone"]
             /\ progress' = [progress EXCEPT ![plan.run] = NoRecord]
    BY <1>0, <1>2, <2>1, <2>3 DEF LiveHasWorktree
  <2> QED BY <1>14, <2>2, <2>3 DEF RemoveRunDir
<1>15. ASSUME NEW r \in Runs, StartCleanup(r) PROVE LiveHasWorktree'
  BY <1>1, <1>15 DEF StartCleanup, session, git
<1>16. ASSUME NEW x, Change(x) \/ Commit(x) \/ Push(x) \/ RemoteCommit(x) \/ MergeLocal(x)
       PROVE  LiveHasWorktree'
  BY <1>1, <1>16 DEF Change, Commit, Push, RemoteCommit, MergeLocal, session, cleanup
<1>17. CASE DeleteLocalBranch \/ DeleteRemoteBranch \/ UNCHANGED workspaceVars
  BY <1>1, <1>17 DEF DeleteLocalBranch, DeleteRemoteBranch, workspaceVars, session, cleanup, git
<1> QED BY <1>5, <1>6, <1>7, <1>8, <1>9, <1>10, <1>11, <1>12, <1>13, <1>14, <1>15, <1>16, <1>17
    DEF WorkspaceNext

LEMMA ProvesSurvival == WorkspaceInv => CommitsSurvive
<1> SUFFICES ASSUME WorkspaceInv PROVE CommitsSurvive
  OBVIOUS
<1>1. ASSUME NEW c \in Lost PROVE c \in confirmed \union unforeseen \union ownCopyOnly
  <2>1. c \in commits /\ c \notin UNION Reachable
    BY DEF Lost
  <2>2. ~ \E b \in DOMAIN local : c \in local[b]
    BY <2>1 DEF Reachable, Range
  <2>3. ~ \E b \in DOMAIN remote : c \in remote[b]
    BY <2>1 DEF Reachable, Range
  <2>4. ~ (head[Root].on = Detached /\ c \in head[Root].at)
    <3>1. Root \in DOMAIN head
      BY DEF WorkspaceInv, HeadsFit
    <3> QED BY <2>1, <3>1 DEF Reachable, HeadCommits
  <2>5. Kept(c)
    BY <2>1 DEF WorkspaceInv, AllKept
  <2> QED BY <2>2, <2>3, <2>4, <2>5 DEF Kept
<1>2. plan # NoPlan => plan.place \in {None, plan.run}
  BY DEF WorkspaceInv, PlanFits
<1>3. \A r \in Runs \ overtaken :
        holder = r /\ alive /\ phase[r] = "running" /\ progress[r].place = r => r \in DOMAIN head
  BY DEF WorkspaceInv, LiveHasWorktree
<1> QED BY <1>1, <1>2, <1>3 DEF CommitsSurvive

(* Whatever the commands of resolveWorkspace and of a cleanup meet between *)
(* them, no commit goes but those that the user gave up, that the plan had *)
(* not seen or that it took for merged; executeRunCleanup removes only   *)
(* the worktree of its own run, and not under a session that works there.  *)
THEOREM WorkIsKept == WorkspaceSpec => []CommitsSurvive
<1>1. WorkspaceInv /\ [WorkspaceNext]_workspaceVars => WorkspaceInv'
  BY HeadsNext, SessionsNext, KeptNext, PlanNext, LiveNext DEF WorkspaceInv
<1> QED BY <1>1, WorkspaceInvInit, ProvesSurvival, PTL DEF WorkspaceSpec
===============================================================================
