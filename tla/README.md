# TLA+ models of ClaudeAgents

Models of the parts of ClaudeAgents that hold state between calls, and of the
pure algorithms that decide what a run may do, checked with TLC and, where
marked, proved with TLAPS. Paths below are relative to the repository; `src/` is
its TypeScript tree.

## 1. The system

ClaudeAgents runs `/gan` sprints: an orchestrator (a skill that a language model
follows, `skills/gan/SKILL.md`) spawns planner, proposer, generator and evaluator
agents and calls the tools of a *config server* (`src/config-server/`, one
process per Claude session, over MCP). The server runs each synchronous tool to
completion before the next, so inside one process there is no interleaving
except at an `await`. Everything that outlives a call is a file, and files are
shared by the servers of all sessions of a repository, by the `gan` commands and
by whoever has an editor. Concurrency, then, is between processes and at
system-call granularity; failures are system calls that throw, processes that
are killed, and orchestrators that stop or skip a step.

### Components

| component | state | operations | correct when | module |
|---|---|---|---|---|
| run lock (`config-server/storage/run-lock.ts`, `tools/run-lock.ts`) | `run.lock` per repository | acquire, release, break of a stale lock, hand removal | one active run; only locks of ended sessions are broken; no lock outlives its session's tear-down | `RunLock`, `RepositoryLock` |
| trace log (`trace/append.ts`, `emit.ts`, `reconcile.ts`, `store.ts`, `dropped-emits.ts`) | `events/<n>.json`, `index.json`; per process a floor and a drop tally | append, emit with one retry, recount | acknowledged events are never overwritten; numbers have no gap and follow the calls; each lost event is counted once | `TraceAppend`, `EventLog` |
| contract re-lock (`agents/independent-review/relock.ts`, `tools/independent-review.ts`) | canonical contract, archives, drafts, `contractRevision` and `status` in `progress.json`; a promise chain | re-lock with a round, re-lock as a tool | no contract is lost, the archives are named for the reigns, calls take turns, the status is not left behind | `ContractRelock` |
| loop safety (`safety/`, `tools/safety.ts`, `trace/reconstruct-revision-state.ts`) | counters reconstructed from the trace | role ceiling, sprint budget, edit oscillation, recovery with or without reset | halts at the limit, not before or after; a recovery does not undo a halt; one edit has one fingerprint | `Safety`, `Fingerprint`, `Sorting` |
| review verdict (`agents/independent-review/`) | the findings of an attempt, the terminal record | validate findings, reject the run | only what reproduces, or cannot be re-run by nature, rejects | `Review` |
| sprint loop (`skills/gan/SKILL.md`) | status and sprint in `progress.json` | the status machine, renegotiation, halts, recovery | the limits bound the attempts; a rejection has a cause | `SprintLoop` |
| docker ports (`modules/docker/PortRegistry.ts`) over module state | one file per repository, an entry per worktree | register, release, lookup, each with a prune first | the file gives no port to two worktrees; it says what the last calls did; an absent worktree blocks nobody | `PortRegistry`, `PortBook` |
| docker tools (`ContainerHealth.ts`, `PortDiscovery.ts`) | none | wait for health, discover a port | an answer in time, from the first source that has one | `DockerTools` |
| trust cache (`config-server/trust/`) | approvals, file mode | approve, revoke, check | what is approved is what runs; no approval is lost | `ConfigServer` |
| resolved-config cache (`config-server/resolution/cache.ts`) | one snapshot with modification times | get, invalidate | what is served is what the files say | `ConfigServer` |
| config writes (`tools/writes.ts`) | overlays, module state and stacks | set, append, remove, with validation | a write changes what it names only | `ConfigServer`, `ModuleState`, `StackFiles` |
| resolution and validation (`config-server/resolution/`, `invariants/`, `tools/validate.ts`) | none | cascade, detection, stack resolution, the phases of `validateAll`, composition | a setting is the highest tier's that may speak; a valid configuration can be worked with | `Cascade`, `Validation`, `Questions` |
| evaluator core (`agents/evaluator-core/`) | none | plan, surfaces, secrets rows, commands | a function of what it is given, and of no order | `EvaluatorPlan`, `Sorting` |
| run life cycle (`storage/worktree-resolver.ts`, `run-progress.ts`, `run-enumerator.ts`, `cleanup-planner.ts`) | run directories, branches, worktrees | create, interrupt, recover, clean up | no commit is lost, a live run keeps its worktree | `Workspace` |
| confinement hook (`cli/commands/hooks-migrate.ts`, `hook-probe/`) | the hook, its backups, a subprocess | migrate, probe | no hook is removed without a backup; a verdict fits what ran | `Hooks` |
| stack commands (`cli/commands/stacks-*.ts`, `stack-update.ts`) | stack files of three tiers | customize, new, reset, update | no file is replaced that was not given up | `StackFiles` |
| telemetry, server shell, in-process emitter, installer, schemas, scripts | none, or files written once | printing, transport, copying | - | not modelled, see 6 |

How they meet: a session acquires the run lock before its first write to the run
directory and releases it last; the trace and `progress.json` of a run are
written by the server of the session that holds the lock, or held it (an
interrupted session's server lives on: that is why the trace is written with
exclusive creation); a recovery derives its counters from the trace and its
re-entry point from `status` and `contractRevision`, which the re-lock writes;
the sprint loop asks the safety checks before every attempt, with the limits of
the resolved configuration that the run began with, which the config server has
merged, validated and checked for trust; cleanup reads the run's record in
`progress.json` and looks at the run lock without taking it.

What is hard here is listed in `PROJECT.json` under `hazards`, each at its line.

## 2. Modules

### RunLock, RepositoryLock

One action per system call on the lock file. `lock` is the file, with a ghost
field `owner` for the inode's identity, which the code never looks at; `alive`
is what `kill(pid, 0)` answers, `pc`/`cur`/`attempt`/`seen` are the locals of
`acquireRunLock` and of `releaseRunLockTool` in each server; `phase`, `run`,
`server`, `recovering` describe the `/gan` sessions.

| action | code |
|---|---|
| `AskFresh`, `AskRecover`, `Release`, `Interrupt` | the session (SKILL.md, steps 7 and 11, and the recovery dispatch) |
| `Link`, `ReadHolder`, `ProbeHolder`, `Break`, `Fail` | `acquireRunLock` and `tryCreateLock` |
| `ReadOwn`, `UnlinkOwn` | `releaseRunLockTool`, `releaseRunLockAtPath` |
| `StartServer`, `KillServer`, `RemoveByHand` | the environment: pids are reused; a user may follow the advice of a refusal |

`displaced` and `rivalled` are history: the first holds the sessions whose lock
file another call unlinked by path, the second the servers that lost a race.
They let the properties say exactly which window is open instead of assuming it
away.

`RepositoryLock` is the contract in terms of sessions: one holder, taken when
free, kept while its session runs, freed afterwards, with `Evict` as the one
exception. `KeepsThePromise` is that contract under the mapping *holder = owner
of the lock file, active = the active sessions, evicted = the displaced ones*.

### TraceAppend, EventLog

One action per access to the disk, by any number of processes, each with a floor
and a tally in memory that die with it. Two processes write one trace when a run
is recovered while the old server lives. `Open` is the exclusive creation,
`Write` the write and close, with their failures: an error leaves the file, a
short write is not noticed (`writeSync`'s count is discarded). `Throw` is what
`emitTraceEvent` does with a failed append. `ReadIndex`/`BumpIndex` are the
unlocked increment, `ListEvents`/`CountEvents`/`RewriteIndex` are
`reconcileIndex`. A file has the emit it records and whether it is whole. The
event contents, the hash references and the index's other counters are left out.

The counting of a recount is one step although the code reads file by file; the
comment at `CountEvents` says why no count is lost by that.

`EventLog` is the contract without directory, floor or index: one log that only
grows; an emit claims the entry after the last, fills it, and is acknowledged
with it or lost. `KeepsTheLog` is that contract under the mapping *log = the event
files, open = the emits in a call, torn = `short`, raced = `twice`*; the last two
are its exceptions.

### ContractRelock

`Request`/`Start` are the promise chain of `relockContract`, `EndRound` its
callback, `StartTool` the synchronous twin of the tool; `CheckDraft`, `Archive`,
`Swap`, `Rollback`, `Commit`, `Restore` follow the code one call at a time, each
with the branch on which its system call throws. From the end of the round to
the end of the call the code has no `await`, hence the guard `Quiet` of what may
start meanwhile. `Crash` ends the process at any point. A read of `progress.json`
may fail too, and is then an answer: `Reads` is what `readContractRevision` and
`writeProgressFields` make of the file (no revision, an empty document), so a call
may begin at revision 0, and a write of the status may drop the revision
(`WriteStatus`). `existsSync`, likewise, says that a file is missing when it
cannot look. `mishaps` names the five failures that no call repairs, such a
`misread` among them; every property says which it depends on.

### PortRegistry, PortBook

`registry` is the file, `disk` the worktrees that exist; `op`, `blob`, `todo`,
`pruned` are the arguments and locals of a call in each server. `Load` reads the
file; `Probe` is one step of the loop of `pruneAbsentWorktrees`, as the worktree
may be removed between two of them; `PersistPruned` is the save inside `load`;
`Register`, `Refuse`, `Release`, `Lookup` are what each call does with what it
has loaded (`getAll` differs from `lookup` in what it returns only). `Persist`
replaces the file by the caller's whole table. `Abandon` is a throw or a kill at
any access. A port stands for a port with its container name; rows that
`validateBlob` would drop are left out, as no call of the registry writes them,
and so is a value that someone else stores under the registry's key.

`latest` and `stood` are history: what the last call told each worktree, and the
worktrees that have existed since. `behind` has the calls whose load is older
than the last write, and `overlapped` says that one of these has written: the
properties that need it name the very window that the missing lock leaves open.

`PortBook` is the registry that the class comment describes ("concurrent processes
always see the latest persisted state"): a table of which each call changes an
entry in one step, by what the table says at that step; what a prune drops has
left; a release that finds nothing does not write. Its one exception is a call
that is `late`, open while another one wrote: it may put an older table back, in
which still no port is two worktrees'. `KeepsTheBook` is that contract under the
mapping *table = the file, open = the calls under way, late = `behind`*.

### Safety, Review, SprintLoop

`Safety` has the pure decisions of `src/safety`: the role ceiling, the sprint
budget, the oscillation detector over the generator's fingerprints, the resolver
of the limits with its fallbacks, and what a recovery starts from, all over the
attempts that the trace holds. `Review` has `validateFindings` and the guard of
the rejecting record. `SprintLoop` EXTENDS both and adds the orchestrator: what
an agent returns is a choice of outcomes (`\E`), everything the orchestrator
does with it is an action that follows the text of `SKILL.md` (`Clarified`,
`Planned`, `Proposed`, `ContractReviewed`, `Generated`, `Reviewed`,
`Evaluated`). An attempt may end without an event in the trace (`Dropped`),
which is what `emitTraceEvent` allows and `TraceAppend` shows to happen. `Stop`
kills the session anywhere, `Recover` is `--recover` with or without
`--reset-attempts`, under the overlay that is there by then, re-entering where
the recorded status says (`ReEntry`). Named by its id, a run that is over can be
recovered too: the refusal is deferred to v1.1 (SKILL.md:168), and as its status
has no branch the dispatch does nothing or enters any of the five (`ReEntries`).
`made` is `currentAttempt`, `started`/`before` the counters of the session;
`lost`, `pardoned`, `limits`, `halts` and `rejection`, what the run was rejected
on, are history. The reads of `progress.json` succeed here; what one that fails
does to the revision is `ContractRelock`'s.

### ConfigServer, ModuleState

The servers that share overlay files, trust cache and module state. A call is
cut where it reads or writes a file: `ReadOverlay`/`Persist` are
`persistOverlayMutation`; `Hash`, `ReadApprovals`, `ReplaceApprovals`, `Chmod`
are `trustApprove` and `trustRevoke` with `writeCache`; `Get`, `Validate`,
`Hash`, `LookUp`, `LoadOverlays`, `Record` are `composeResolvedConfigSync`,
which reads each overlay twice and captures the modification times last. An
overlay is absent, unparseable, or a mapping of two of its lists; a modification
time is an instant that two writes may share. `ModuleState` EXTENDS it with the
module-state tools of the same servers, on one state value: `Mutated` is the
JSON that `setModuleState`, `appendToModuleState` or `removeFromModuleState`
writes, given what it read. `disturbed`, `unseen`, `clobbered`, `writer`,
`owed` are history that names each window which the missing locks leave open.

### Cascade, Validation, EvaluatorPlan, Fingerprint, Sorting, Questions

Pure code as operators, each with a reference definition that is written the
other way round: not rule after rule but what may be in the result and why
(`MergeFits`, `Usable`, `Essence`, `PlanFits`). They are asked over all small
inputs: from the first state an action chooses a `question`, and an invariant
compares the code's answer with the reference. `Questions` asks them; its CONSTANTS
are what a question may be about (the overlays at each splice point, whole
configurations, what `buildEvaluatorPlan` is given, edited files and the texts
that a sortable pattern matches), to which `MCServer` gives small values. `Sorting`
has sort and filter by relations that are sets, not operators, so that lemmas
about them can be proved; a sort puts each element at the place that the number
of its predecessors gives it. Names compare by a total order, as `localeCompare`
does on the names that occur.

`Fingerprint` keeps lines as (text, is a comment, has extra blanks) and one sortable
list per path, `Cascade` keeps what each tier says at a point, `Validation` keeps of
a file the bits that its checks look at, and of a detection block the tree of its
entries, as a table that a recursive function evaluates. `EvaluatorPlan` keeps of a
name or an id its segments between dots (`spelled`), as `isKnownSurfaceId` puts
them together and takes them apart at another dot.

### Workspace, Hooks, DockerTools, StackFiles

`Workspace` is git as far as a run meets it: branches as sets of commits,
checkouts with a branch or a detached head, origin. `ResolveNew`, `ResolveHere`,
`FreeCurrentCheckout`/`AddWorktree` are the three ways of `resolveWorkspace`,
`RecordWorkspace` the write that makes the worktree known, `EndRun`,
`KillSession`, `RecoverRun` the session; `StartCleanup` is the plan with its look
at the lock, and `RemoveWorktree`, `DeleteLocalBranch`, `DeleteRemoteBranch`,
`RemoveRunDir` its commands, each of which may fail. Users commit, push and merge
at any time. In v1.0 no command reaches the cleanup: `--cleanup` prints that it
requires v1.1 (SKILL.md:157-161), and the planner and its executor are a tested
library that is shipped and cannot be called. The model is of that library, as a
caller will run it.

`Hooks` has `gan hooks migrate` one system call at a time beside a user who
changes the hook, and the probe with its subprocess, timer and output cap, and
with the failures to read the hook and to make or remove the temporary tree: the
probe throws, or leaves the tree.
`DockerTools` has `waitForHealthy` under a clock whose events may be late, and
the ordered search of `discoverPort`. `StackFiles` has the stack commands and the
server's stack mutations on the three places of one stack.

`MCWorkspace` runs the four side by side without mixing them: they share no
state, so `part` chooses one per behaviour.

## 3. Runs

| run | checks | shows |
|---|---|---|
| `run_lock` | `HolderOwnsTheLock`, `JudgedStaleIsOver`, `LockIsSomeonesBusiness`, `FailsOnlyToARival`, `KeepsThePromise` | what the lock guarantees under crashes, pid reuse, interrupts and recoveries, and that it implements `RepositoryLock` |
| `run_lock_two_runs` | `MutualExclusion` is violated | two sessions hold the repository: see finding 1 |
| `run_lock_release` | `ReleaseSparesSuccessor` is violated | finding 2 |
| `trace_append` | `AckedKeepsItsSlot`, `FloorBehindDisk`, `GaplessFiles`, `EventOrder`, `EmitsAccounted`, `KeepsTheLog` | the log under two writers, recounts, faults and kills, and that it implements `EventLog` |
| `contract_relock` | `HistoryKept`, `RevisionNamesReign`, `PriorRecoverable`, `CanonicalBetweenCalls`, `StatusTellsRound`, `OwnRevision`, `CallsSettle` | three overlapping re-locks under failures and kills |
| `relock_history` | `NeverLostHistory` is violated | finding 3 |
| `port_registry` | `PortsUnique`, `LatestInFile`, `GoneHoldNothing`, `KeepsTheBook` | what the unlocked registry guarantees, and until when, and that it implements `PortBook` |
| `port_collision` | `PortsNeverCollide` is violated | finding 4 |
| `sprint_loop` | `AttemptsBounded`, `HaltsStick`, `NoThirdTry`, `RejectedForCause` | the limits hold over lost events, kills, recoveries and changed settings |
| `config_server` | `ServedIsCurrent`, `CommandsApproved`, `ApprovalsKept`, `EntriesKept`, `AppendedStays`; `CascadeByTier`, `ValidMeansUsable`, `FingerprintFaithful`, `PlanStable` | two servers on shared files; the pure parts against their reference definitions |
| `workspace` | `CommitsSurvive`; `HookKept`, `ProbeVerdictFits`; `DockerAnswersHold`; `StackFilesHold` | runs, cleanups, hooks, docker tools and stack commands beside users and each other |
| `cleanup_pushed` | `ReclaimedOnlyWhenMerged` is violated | finding 5 |

The type invariants of the lock, the trace, the re-lock and the port registry are
proved and no longer run; the modules of `sprint_loop`, `config_server` and `workspace` state
none, as a state of a wrong type stops TLC in one of the properties.

Bounds, and why they are enough:

- `RunLock`: 2 servers, 3 sessions, 2 run ids. A break that unlinks a fresh lock
  takes two acquirers and a leftover; a late tear-down beside a recovered run
  takes two sessions of one run; the third session is the bystander of both.
  Nothing counts beyond the code's own two attempts, so there is no other bound.
- `TraceAppend`: 2 processes, 3 emits (`MaxEmits`), 2 faults (`MaxFaults`),
  `RetryLimit = 2` for the code's 64, so that a process falls behind by the limit
  within three emits.
- `ContractRelock`: 3 calls. Losing a contract takes two re-locks after the one
  that left a revision unrecorded or a canonical file missing.
- `PortRegistry`: 2 servers, 2 worktrees, 2 ports. A lost entry or a shared port
  takes two calls; the properties speak of two worktrees, and the second port is
  there so that registrations can also differ. Calls are not counted. The view
  `Distinguished` drops `latest` once `overlapped` holds, when no checked property
  reads it and no guard ever does.
- `SprintLoop`: 2 sprints, 2 edits, 2 clarification rounds, one attempt of the
  generator that leaves no event, one recovery, and two configurations: one with
  tight ceilings, one whose ceilings leave oscillation and budget to fire first.
  A counter that is wrong over a sprint boundary takes two sprints, a third try
  of one edit takes two edits and five attempts, which the second configuration
  allows.
- `Server`: 2 servers, one of them with trust bypassed, 3 calls, 1 edit by hand,
  2 instants. A lost update takes two overlapping calls and a third that reads;
  equal modification times take two writes in one instant. Questions: files of up to
  three lines, of six kinds; a sortable pattern that matches two of the texts and
  one that also matches the empty line, since a line parts two runs or does not;
  plans of two stacks given against the order of their names, with surfaces, ids
  and extensions that occur twice and scopes that share files, so that order,
  duplicates and scopes can matter, once with a dot in an id and once in a name.
- `Workspace`: 2 runs, the second started inside the first's worktree or in one
  of the user's, 2 commits beyond the first, one kill, one cleanup. Hooks: 2
  migrations, 2 edits, 2 instants. Docker: polls capped at 4, sleeps of 1, events
  late by up to 1, budgets 0, 1, 5 and 11 (none, less than a poll, one poll and a
  rest, several polls), 2 changes outside. Stacks: 2 tools, 3 calls, 1 edit, 2
  values of which the schema refuses one.

Deadlock is checked of `run_lock`, `port_registry` and their violation runs,
which go on for ever. The others are run with `CHECK_DEADLOCK FALSE`: calls,
emits, edits or recoveries are used up, or a run has come to its end. Symmetry is
over servers, sessions and run ids, over processes, over calls, over servers,
worktrees and ports, or over migrations; no model tells members of these sets apart, and no run with
symmetry checks liveness.

### Fairness

`ContractRelock!FairSpec` has weak fairness of each call's own steps. Once a
turn has come the code runs on without waiting, so the only assumption is that
the awaited round settles; a re-lock that is killed counts as settled. Nothing
is assumed of `Request`, `StartTool` or `Crash`. The other modules check no
liveness: their loops are bounded, and `FailsOnlyToARival`, `EmitsAccounted`,
`AttemptsBounded` and `DockerAnswersHold` say as safety properties how and when
they end. Whether a sprint makes progress depends on what language models
return, of which nothing is assumed.

## 4. Findings

1. **Two active runs** (`run_lock_two_runs`). `acquireRunLock` reads the holder
   and later unlinks by path. In between another acquirer may break the same
   stale lock and link its own, which the unlink removes. A lock released
   between the failed link and the read reads as `undefined`, like garbage, and
   has the same effect without any dead process.
2. **A late tear-down takes a recovered run's lock** (`run_lock_release`).
   The release compares run ids, and a recovery has the run id of the run it
   recovers.
3. **A lost contract** (`relock_history`). If the last write of `progress.json`
   fails, the new contract is canonical under the old revision; the next re-lock
   archives under that number again, over the archive that is there.
4. **One port for two worktrees** (`port_collision`). `register` reads the file,
   checks, and replaces the file, without a lock. Two servers that read before
   either writes both succeed. `PortsUnique` holds all the same: the file keeps
   the later entry only, so the collision cannot be seen in it.
5. **A pushed branch counts as merged** (`cleanup_pushed`). `planRunCleanup` adds
   a branch's own upstream to what it may be merged into, so after `push -u` an
   unmerged task branch is deleted here and on the remote without a question, once
   a command calls it.

Met while modelling, with the line or the definition that shows it. Several are
deliberate or harmless; each is something that the code does and a reader of its
comments would not expect.

- Trace: a failure between the creation of an event file and its write leaves an
  empty file for good, which no reader counts and no append reuses. A process
  without a floor that finds an index more than 64 below the log drops every
  event it emits until the index is recounted (`TraceAppend`, the last disjunct of
  `Probe`). A recount that meets an append between its write and its increment
  makes the index run ahead by one, and a process started afterwards leaves a gap
  (`twice`).
- Re-lock: after a kill between the two renames there is no canonical contract,
  and no recovery renames it back (`CanonicalBetweenCalls` names the mishap).
  `progress.ts:40-41` says "an update never clobbers a field it does not explicitly
  name", but `writeProgressFields` takes a document that it cannot read for an empty
  one: after a write of the status `contractRevision` is gone, the next re-lock
  starts at 0 again (`relock.ts:504-511`), archives over the first archive and
  commits a revision already given (`misread`).
- Loop safety: budget and ceilings are of the whole run, although
  `sprint-budget.ts:53-54` says "a single sprint may make". An oscillation halt
  survives `--reset-attempts`, as the history is read from the trace, which
  `recovery.ts:243-244` denies. After a reset, a plain recovery has the old
  counters back.
- Cascade: `safety.renegotiationCap` is no splice point (`cascade.ts:71-164`), so
  an overlay's cap, which `schemas/overlay-v1.json:413-415` accepts, never takes
  effect and the cap is always 2. In a keyed list the last duplicate of a higher
  tier wins for an inherited key and the first for a new one.
- Resolved configuration: trust cache, detection files, inactive stacks and
  context paths are no backing files, so an approval given in another process
  leaves a cached `UntrustedOverlay`; `cache.ts:5-10` says that a stale
  configuration is never served after an edit. Compositions throw on an overlay
  that `validateAll` would report. `persistOverlayMutation` validates less than
  `validateAll`: not the clarifier timeout, not the override's references.
- `cacheEnv.no_conflict` looks at every stack file of every tier and ignores
  `stack.cacheEnvOverride`, where the specifications say "across active stacks"
  (C1:150-162, F3:85).
- Detection's built-in index and `resolveStackFile` may pick different files of
  one name; the shrinkage warning is silent for an override of the same size.
- Module state: a state that is no object is read as `{}` and a top-level array is
  overwritten; what is in the way of a path is replaced by `{}`; the policies
  `error` and `skip` behave alike; `remove` sees top-level keys only; one failing
  prerequisite of any module makes the state tools of all throw.
- Fingerprints: a blank or comment line inside a sortable list cuts it in two,
  unless the pattern matches the empty line. Where two sortable lists apply to one
  path, they are sorted one after the other, and a swap of neighbours that
  both match need not be undone (`fingerprint.ts`; the model has one list).
- Cleanup: a run that was started inside another run's worktree loses it when that
  one is cleaned; a user's own branch that a run moved to a worktree counts as
  made by gan and goes once merged; `push --delete` takes a teammate's commits
  along; a kill between `worktree add` and the progress write orphans the
  worktree; the look at the lock and the deletions are not one step, so a run
  resumed meanwhile loses its place (`overtaken`).
- Hooks: a migration removes by path what may have been edited since it read it;
  two migrations of one millisecond share a backup name; a dangling link is taken
  for no hook, and replaced; the probe kills its direct child only; where its
  docstring has the tree "removed on every code path", a failure of `rmSync` is
  swallowed and the tree stays (`probe.ts:267-273`, which says so). "The function
  never throws" (`probe.ts:167-168`), but `mkdtempSync` is outside of the `try`, and
  `mkdirSync` and `readSync` are in one without a `catch` (the verdict `thrown`).
- Docker: `ContainerNaming.ts` calls names always distinct, with a suffix of 16
  bits; a malformed registry makes the whole port search throw; a late event loop
  can lose an answer to the abort; the fallback port is not range-checked.
- Stacks: `stack-update.ts:5-6` speaks of the project's copy, but the update goes
  to whichever tier resolves, the packaged one included. R1:116 and F2:73,85 call
  append and remove atomic across processes. An update in flight brings back a
  file that was reset. `customize` and `new` replace a file that appears after
  their look.
- Evaluator: `buildBuildTestLint` takes one stack's command, the first by name,
  for the whole plan. A stack's name may have a dot; `isKnownSurfaceId` takes what
  is before the first dot for the name, so that no surface of such a stack is known
  by its qualified id (`OfItsStack` excepts it).

## 5. Proofs

One module of proofs for each model that TLC runs, named after it, and
`DataLemmas` with the facts about data that several need. All theorems hold for
every value of the constants under the assumptions that the modules name, so for
any number of processes, calls, overlays, runs or edits. A property below is the
one that a run checks unless it says otherwise. Each inductive invariant was
checked by TLC on the run's model before its proof was begun.

**`RunLockProofs`** proves every property of the run `run_lock` for any sets of
servers, sessions and run ids, from `LockConstants` (the model values are
distinct from each other and from lock files). `IInv` adds to the checked
invariants what they rest on:

- `CallsHaveCallers`: a call in progress has a live server and a session that
  waits for it or has stopped listening. Without it a `Link` could make a
  session of a dead server active.
- `LiveSessionsAreServed`: a session that has not ended has a live server; so a
  dead pid in a lock file means that the lock's session has ended.
- `SeenLocksWereTaken`: what a call has read was linked by a session, on that
  pid; it ties the two together for `JudgedStaleHasEnded`, which strengthens
  `JudgedStaleIsOver` to phases that are never left, as it must survive the
  steps between the judgement and the unlink.
- `SecondAttemptMeetsARival`: on the second attempt, the lock is gone or a rival
  has linked it.

Each conjunct has one lemma with one step per action. The theorems are
`TypeCorrect`, `HolderSafe`, `JudgementSafe`, `NoOrphanLock`, `SelfHealing`, and
`MutexUnlessDisplaced`: two sessions are active at once only if one of them is
displaced, so the windows of findings 1 and 2 are the only ones. `LockRefined`
is the refinement: under `IInv` every system call maps to a step of
`RepositoryLock` or to none (`PromiseStep`).

**`TraceAppendProofs`** proves the type invariant and the properties of
`trace_append`, from `TraceConstants` (finitely many processes; at least one
retry; numbers for the bounds). Its `IInv`:

- `EmitsAreOwned`, `SlotsAreOwned`: an emit belongs to one call until it returns,
  and a call that has made a file finds its own emit in it. So no two calls write
  one file, which is what `AckedKeepsItsSlot` needs when the emit returns.
- `MemoryOnDisk`: what a call remembers of the log is there, as the log only
  grows (`GrowingLog`).
- `Counted`: the files are numbered from 0 without a gap; the index plus the
  appends with a file they have still to count (`Uncounted`) never exceeds their
  number, nor does what a call is about to put in the index; so every candidate
  is at most one past the last file. This is the argument for `GaplessFiles` and
  `EventOrder`, and the place where `twice` enters: a recount keeps it because the
  uncounted appends map one to one into the files that the recount has not
  counted (`CountedOnce`), unless it met one of them halfway.

`EveryEmitAccounted` is about steps: each either leaves the tallies alone or
ends one emit, acknowledged or counted as dropped (`AccountedStep`).

`LogRefined` is the refinement: under `IInv` every system call maps to a step of
`EventLog` or to none (`LogStep`). `OpenClaims` takes `Counted` for the entry to be
the last, `WriteFills` takes `SlotsAreOwned` for it to be the emit's own, and
`FilesAreBegun` (no file has an emit that is yet to begin) makes each emit new.

**`ContractRelockProofs`** proves the type invariant and the six state properties of `contract_relock`,
from `RelockConstants`. Its `IInv`:

- `OneAtATime`, `ChainOrder`: only the head of the chain, or a tool call, is under
  way. The code has no lock; everything below depends on this.
- `InStep`: until a read fails, a call under way finds `progress.json` as it read
  it, at its own `prior`; without it the commit could write an old revision. A
  failed read only ever gives a lower number, so that the calls that are done bound
  the revision whatever has failed, hence the type of `archive`. `AnnounceDoes` and
  `RestoreDoes` say what the two writes of the status do to it (`Reread`).
- `FilesAtHand`, `LatestReigns`: what a call has found out about the files holds
  until it acts on it, unless `existsSync` could not look, and the canonical file is the latest contract or missing
  for a stated reason.
- `ArchivesNameReigns`: `RevisionNamesReign` extended to the moment between swap
  and commit, when there is one contract more than revisions.

**`PortRegistryProofs`** proves the type invariant and the properties of
`port_registry`, from `PortConstants`. The idea of its `IInv`: the file is always
some call's load with entries dropped and at most one added, so

- what must hold of the file must hold of every load, however old
  (`BlobsUnique`), whatever the order in which the loads are written back;
- `BlobsInStep`: a load that is not behind tells the same as the file
  (`Tells`), and a call that is behind sets `overlapped` when it writes;
- `SeenOnDisk`, `FinishedPruning`: an entry that has been looked for is on the
  disk or has moved since, and what a call decides on has been looked for;
- `StoodOnDisk`: what a prune drops has been away, so the drop is no loss;
- `LoadIsFile`: the load of a call that is not behind is the file to this day, but
  for the absent worktrees that it is dropping, whatever has been overwritten
  before.

`CollideOnlyOverlapped` is the other side of finding 4: until a call overwrites what
it has not read, no two standing worktrees are told one port.
`BookRefined` is the refinement: with `LoadIsFile` the write of a call that is not
behind is a step of `PortBook` that goes by the table, and with `PortsUnique` that
of one behind is an `Overwrite` (`BookStep`, one step per action).

**`ConfigServerProofs`** proves the five state properties of `ServersSpec`, the
config servers with the module-state tools in them, and the four properties of
`QuestionsSpec`, what comes of overlays, stack files, a sprint's files and edits.
The assumptions are
`ServersAssumption` (no server is called "user"), `CallsAssumption` (the overlay
calls are of the kinds, tiers and fields there are), `BodiesAssumption` (what a
user's editor leaves in an overlay is lists) and `ModuleCallsAssumption` (see
below).

- `IInv`, for `ApprovalsKept`, `CommandsApproved` and `ServedIsCurrent`.
  `NoneForged` says of the approvals in the file *and in the hands of a call that
  will write them back* that they were approved, as an old read may be written
  at any time. `CompositionFits` says what a composition knows at each of its
  steps while no file moves under it; `EntryFits` what remains of that in the
  cache once files do move: an overlay that has changed since was written by
  somebody else, and one recorded as missing was missing. `LocalStep` reduces
  the steps that write neither overlays nor the trust cache to what they do to
  their own server.
- `EntriesInv`, for `EntriesKept`: what a call has read is lists, and an
  acknowledged entry is in its overlay until a call that names it, a write over
  an older read or an editor takes it out. `AppendAdds` and
  `WithoutLeavesTheRest` say what an append and a removal do to a list of any
  length; the removal is a fold, and the lemma is an induction over it.
- `ModuleInv`, for `AppendedStays`: the value in a module's state has lists where
  the appending calls expect them (`ListsAtPaths`), also in the hands of a call
  that is about to write, and holds every appended entry that no later call may
  have dropped. `AppendAtWrites`, `AppendedKeeps`, `RemoveKeepsOthers` and
  `MutatedKeeps` say what each tool leaves of a value.

`ModuleCallsAssumption` asks for paths of one or two members of which the second
is no entry's key. A path that leads into an entry of a map would let one call
rewrite what another one appended; then what is owed is no longer the entry, and
the property has nothing to say.


Nothing happens in `QuestionsSpec` but that a question is asked; the work is in
the operators, for overlays, files and lists of any number and length.

- `CascadeFollowsTiers` proves `CascadeByTier` by `CascadeMadeByTier`: `Reached`
  says what the tiers up to one have come to, and `ContributeReaches` that the
  next tier takes it one further; for a value `RuleExtends` has a lemma for each
  rule (`StringsExtend`, `KeyedExtend`, `RolesExtend`, `CachesExtend`). The list
  rules are folds: `AppendFreshRuns` is the induction, `AppendFreshEnlarges` what
  such a fold does to a list of any length.
- `ValidIsUsable` proves `ValidMeansUsable` from it. The checks of `validateAll`
  look at what each tier says, composition at what the cascade leaves:
  `MergedIsSaid` is the bridge, and with the check of the user tier nothing that
  is merged at a path or an override is the user's. `DetectionFits` is what the
  rest needs of detection, whatever its blocks say; `ShrinkageReported` compares
  the sizes of the two sets of stacks.
- `PlansAreStable` proves `PlanStable`. `PlanForgetsOrder` is more than the property
  asks: any rearrangement of stacks, touched files and worktree files gives one
  plan, as a sort depends on how often each entry occurs only
  (`LocaleSortForgetsOrder`, by `SortForgetsOrder` of `DataLemmas`). The rest follows
  from what a filter holds and that a row is made by one surface of one stack; and
  a qualified id split at its first dot gives back a name that has none
  (`SplitAtFirstDot`).
- `FingerprintsAreFaithful` proves `FingerprintFaithful`. `RunsMoved` says that the
  sorting moves each line within its run of matching lines (`MovesLines`), hence
  keeps its `Essence` (`EssenceKept`): two files of one fingerprint differ in the
  order inside their lists only. In the other direction `SwapSortedAway` (a swap
  of neighbours in one run leaves the run the same bag of lines) and
  `BlankDropped` (a blank line at the end leaves with the others, even where it was
  sorted to the front) show that churn is not seen; `PrintOf` and `LaterWrite`
  that of two writes of a path the later counts.

`QuestionsAssumption` is what the schema and the file system give: `FieldsFit`
(lists where lists are merged, maps of maps for the caches), `WorldFits` (a finite
number of files, each at one of the four places), `PlanInputFits` (lists; stacks
told apart by name; no empty id) and `IsFile` (a sequence of lines). TLC evaluates it for the
constants of `config_server`. The attempt to prove the first corrected the
property: a malformed wrapper at *any* splice point, not only at the one in
question, empties the merge.

**`SprintLoopProofs`** proves `AttemptsBounded`, `HaltsStick`, `NoThirdTry` and
`RejectedForCause` for any number of sprints, lost events and recoveries, any
overlays and any findings of the reviewers, from `LoopAssumption` (an overlay's
limits are numbers, a bundle's findings a list). Its `IInv`:

- `Balanced`: the attempts of a role that were made and not lost are those in the
  trace and the one in flight; and the counters that a session started with hide
  none since the last reset (`started` plus what the reset pardoned is at least
  what the trace held). It ties the orchestrator's counting to the trace across
  kills and recoveries, and is what every bound rests on.
- `Numbered`: recorded attempts of a role have different numbers, so that the
  trace, a set, counts each.
- `Clear`: while an attempt runs, the boundary it was started at is still clear.
  A recovery may arrive with tighter limits; the check before the attempt is what
  counts.
- `Within`: since the last reset each role and the sum of the roles stay within
  one of the configurations that were in force (`AttemptsBounded` adds what was
  lost).
- `Held`: what a halt was about is still the case, as neither counts nor history
  shrink without a reset.

`RejectedForCause` is inductive beside it with `OnRecord`: only `Reviewed` rejects a
run, and puts on record what it rejected it on and after how many recoveries; a
session of a rejected run has been started by a later one.

`ThirdTryFound` is the lemma about the detector: an edit that came three times
after a rejection makes a pattern wherever the three stand, and `PatternStays`
says that what comes after does not unmake it. The total of the counters is a
sum over a finite set, computed in an order that `CHOOSE` picks; `SumTakesAny`
shows that the order does not matter.

**`WorkspaceProofs`** proves the properties of the four models that `MCWorkspace`
runs.

- `CommitsSurvive`, for any runs, from `RunsAssumption` (a run's worktree is no
  other place). `WorkspaceInv` has `AllKept`: every commit is on a branch here or
  on origin, on the detached head, or was given up, was taken unforeseen, or
  counted as merged by the branch's own upstream. For a deletion to keep that,
  `PlanFits`: what the plan found merged is on the base branch to this day, as
  the base only grows. `HeadsFit` (a checkout has a branch that is there; only
  the main one is detached) keeps a commit from being made where nothing holds
  it, and `LiveHasWorktree` is the second half of the property, with `overtaken`
  for the window between the look at the lock and the deletions.
- `HookKept` and `ProbeVerdictFits` of `HooksSpec`: `BackupBeforeRemove` (before a
  migration unlinks, its backup is there or shares its name) and `OwnTextsOnly`
  (what a migration holds was read from a file and not through a link) carry the
  first, `ProbeInv`, one line per step of the probe, the second.
- `DockerAnswersHold` under `Late < PollCap`, which is needed: with events later
  than a whole poll a healthy service can be missed for as long as one likes. It is
  an assumption about the environment, not about the code: the `spawnSync` calls of
  docker and lsof (`PortDiscovery.ts:39`, `PortValidator.ts:39`) have no timeout,
  and one that hangs holds up the event loop of a poll in the same process. Its
  invariant bounds the clock by the event waited for and says how long ago the
  service can have become healthy at each step (`OnTime`), and which sources have
  been silent at each step of the search (`SearchInv`).
- `StackFilesHold`: `InStep` says that a tool which is not `behind` acts on what is
  there, whatever it has looked at so far.

**`DataLemmas`**. The library's induction theorems take an operator as a
parameter, which the installed provers cannot instantiate. `SetInduction` is the
same principle over a set of numbers, from the well-foundedness of `<` (`WFMin`);
`FiniteRecursion` and `FiniteRecursionType` derive from it that a recursion over
the subsets of a finite set, which is how the community modules define their
folds, has a solution, and that its values are what its steps keep. For `Sorting`
it has that enumerating a finite set by counting predecessors is a bijection onto
its places, in order, for every strict total order (`Enumerates` and the
lemmas before it); that `Keep` runs through the places it keeps; and that sorting
two sequences in which every entry occurs equally often gives one result
(`SortForgetsOrder`).

Model-checked only:

- liveness (`CallsSettle`): neither fairness nor `ENABLED` is within the prover's
  reach;
- the properties of the violation runs, which are false.

## 6. Not modelled

- The temporary file of `atomicWriteFile`: a write that goes through it is one
  step that replaces the file or fails. The directory may not survive a power
  cut; the code does not call `fsync`, and no model has power cuts.
- YAML: an overlay or a stack is its data; comments, anchors and the text around
  the block are left out, and so are the JSON schemas, of which a model keeps
  whether a body passes.
- The trust hash is the contents, without collisions; which files it covers is
  abstracted to the project overlay.
- `trace/emitter.ts` and its companions, which nothing in the product constructs;
  the payload files and encodings of events; the progress report.
- Telemetry (one file per run, written once), the server shell (registration and
  transport), read tools (views of what is modelled), logging.
- The installer: a sequence of copies with a roll-back, run by one user. Read
  while deciding: a failed re-install rolls back by deleting files of the earlier
  installation while the restored settings go on to register its hook, and an
  interrupt leaves what is done so far.
- `scripts/` (documentation lint, pipeline check): build tooling.
- The CLI beyond hooks and stacks: it parses arguments, calls one modelled tool
  and prints.
- The orchestrator's own choices: `SprintLoop` lets an agent return anything that
  its schema allows and has the orchestrator follow its text. What a model does
  that ignores the text is not modelled, except that sessions stop anywhere.
- `isPortFree`, container names, `git` beyond the commands that the code runs.

## 7. Plan

Done: every component above that keeps state, with proofs of the safety
properties of all of them. What is left, in this order:

1. A contract like `EventLog` and `PortBook` for the shared files of the config
   server, where the windows of lost updates are more than one.
2. Several sortable lists on one path in `Fingerprint`, with the order in which the
   code sorts them, to say for which lists a swap is forgotten.
3. The installer's copies and roll-back as a module of its own, if the installer
   comes to keep state between its invocations.
