-------------------------------- MODULE Workspace ------------------------------
(***************************************************************************)
(* The git side of a run's life: where resolveWorkspace puts a run         *)
(* (src/config-server/storage/worktree-resolver.ts), the record of it in   *)
(* progress.json, the anchor of a recovery, and the removal of a run's     *)
(* worktree and branch (storage/cleanup-planner.ts).  Between any two git  *)
(* commands the user, a teammate and other sessions work on.               *)
(*                                                                         *)
(* A branch is the set of the commits it reaches: it is an ancestor of     *)
(* another one if it is a subset of it.                                    *)
(***************************************************************************)
EXTENDS Naturals, FiniteSets, Functions

CONSTANTS
  Runs,
  Asked,            (* run -> set of [from, newWorktree]: calls of /gan    *)
  MaxCommits,       (* bound: commits                                      *)
  MaxKills,         (* bound: sessions that die                            *)
  MaxCleanups       (* bound: cleanups                                     *)

(* All runs here have one subject: Task is the branch that gan makes for it*)
(* and Topic a branch of the user's that matches it too.                   *)
Main == "main"
Task == "feature/x"
Topic == "x"
Branches == {Main, Task, Topic}
BranchMatchesSlug(branch) == branch \in {Task, Topic}

(* Checkouts: the main one, a worktree of the user's, and one per run      *)
(* under .gan-state/runs.                                                  *)
Root == "root"
Own == "own"
Places == {Root, Own} \union Runs

VARIABLES
  local,            (* branch -> commits                                   *)
  remote,           (* the branches of origin                              *)
  upstream,         (* remote-tracking refs, as of the last push           *)
  head,             (* place -> [on, at]: a branch, or detached at commits *)
  dirty,            (* places with changes that are not committed          *)
  phase,            (* run -> where its session is                         *)
  resolved,         (* run -> what resolveWorkspace has returned to it     *)
  progress,         (* run -> what enumerateRuns finds of it               *)
  holder,           (* the run in the run lock                             *)
  alive,            (* the session of the holder lives                     *)
  plan,             (* the cleanup at work, and its next step              *)
  commits, kills, cleanups,
  (* History, read by no guard: *)
  confirmed,        (* commits that --yes gave up                          *)
  unforeseen,       (* commits deleted that the plan had not seen          *)
  ownCopyOnly,      (* commits counted as merged for their own upstream    *)
  overtaken         (* runs resumed while their cleanup was at work        *)

git == <<local, remote, upstream, head, dirty, commits>>
session == <<phase, resolved, progress, holder, alive, kills>>
cleanup == <<plan, cleanups, confirmed, unforeseen, ownCopyOnly, overtaken>>
workspaceVars == <<git, session, cleanup>>

None == "none"
Detached == "detached"
NoRecord == [place |-> None, branch |-> None, createdByGan |-> FALSE]
NoPlan == [step |-> None]
On(branch) == [on |-> branch, at |-> {}]

ASSUME RunsAssumption == Runs \intersect {Root, Own, None} = {}

WorkspaceInit ==
  /\ \/ /\ local = [b \in {Main} |-> {0}]
        /\ head = [place \in {Root} |-> On(Main)]
     \/ /\ local = [b \in {Main, Topic} |-> {0}]
        /\ head \in {[place \in {Root} |-> On(Topic)],
                    [place \in {Root, Own} |-> On(IF place = Root THEN Topic ELSE Main)]}
  /\ remote = << >>
  /\ upstream = << >>
  /\ dirty = {}
  /\ phase = [r \in Runs |-> "new"]
  /\ resolved = [r \in Runs |-> NoRecord]
  /\ progress = [r \in Runs |-> NoRecord]
  /\ holder = None
  /\ alive = FALSE
  /\ plan = NoPlan
  /\ commits = UNION Range(local)
  /\ kills = 0
  /\ cleanups = 0
  /\ confirmed = {}
  /\ unforeseen = {}
  /\ ownCopyOnly = {}
  /\ overtaken = {}

-------------------------------------------------------------------------------
(* git                                                                     *)

OccupiedElsewhere(branch, place) == \E p \in DOMAIN head \ {place} : head[p].on = branch
Occupied(branch) == \E p \in DOMAIN head : head[p].on = branch
HeadCommits(place) == IF head[place].on = Detached THEN head[place].at ELSE local[head[place].on]

With(f, x, value) == [y \in DOMAIN f \union {x} |-> IF y = x THEN value ELSE f[y]]
Without(f, x) == Restrict(f, DOMAIN f \ {x})

(* merge-base --is-ancestor                                                *)
IsAncestor(branch, ref) == branch \in DOMAIN local /\ local[branch] \subseteq ref

-------------------------------------------------------------------------------
(* A run finds its place                                                   *)

LockFree == holder = None \/ ~alive

ResolvesTo(r, place, branch, createdByGan) ==
  /\ resolved' = [resolved EXCEPT ![r] = [place |-> place, branch |-> branch,
                                         createdByGan |-> createdByGan]]
  /\ phase' = [phase EXCEPT ![r] = "resolved"]

Begins(r, ask) ==
  /\ phase[r] = "new"
  /\ LockFree
  /\ ask.from \in DOMAIN head
  /\ holder' = r
  /\ alive' = TRUE
  /\ UNCHANGED <<progress, kills, cleanup>>

Matches(ask) == BranchMatchesSlug(head[ask.from].on) /\ ~ask.newWorktree

(* 1c: worktree add -b, off the head of the checkout.  It fails, and the   *)
(* call with it, if the branch exists.                                     *)
ResolveNew(r, ask) ==
  /\ Begins(r, ask)
  /\ ~Matches(ask)
  /\ Task \notin DOMAIN local
  /\ local' = With(local, Task, HeadCommits(ask.from))
  /\ head' = With(head, r, On(Task))
  /\ ResolvesTo(r, r, Task, TRUE)
  /\ UNCHANGED <<remote, upstream, dirty, commits>>

(* Mutant: any worktree that is not the main one counts as made by gan.    *)
ResolveHereAsCreated(r, ask) ==
  /\ Begins(r, ask)
  /\ Matches(ask)
  /\ ask.from # Root
  /\ ResolvesTo(r, ask.from, head[ask.from].on, TRUE)
  /\ UNCHANGED git

(* 1a: a worktree that is not the main one is used as it is.               *)
ResolveHere(r, ask) ==
  /\ Begins(r, ask)
  /\ Matches(ask)
  /\ ask.from # Root
  /\ ResolvesTo(r, ask.from, head[ask.from].on, FALSE)
  /\ UNCHANGED git

(* 1b: a clean main checkout lets go of its branch, for the default one or,*)
(* if another worktree has that, by detaching; the worktree is added next. *)
FreeCurrentCheckout(r, ask) ==
  /\ Begins(r, ask)
  /\ Matches(ask)
  /\ ask.from = Root
  /\ Root \notin dirty
  /\ head' = [head EXCEPT ![Root] =
                IF OccupiedElsewhere(Main, Root)
                THEN [on |-> Detached, at |-> HeadCommits(Root)] ELSE On(Main)]
  /\ resolved' = [resolved EXCEPT ![r].branch = head[Root].on]
  /\ phase' = [phase EXCEPT ![r] = "freed"]
  /\ UNCHANGED <<local, remote, upstream, dirty, commits>>

(* The call throws if somebody has taken, or deleted, the branch meanwhile.*)
AddWorktree(r) ==
  LET branch == resolved[r].branch IN
  /\ phase[r] = "freed" /\ holder = r /\ alive
  /\ \/ /\ branch \in DOMAIN local /\ ~Occupied(branch)
        /\ head' = With(head, r, On(branch))
        /\ ResolvesTo(r, r, branch, TRUE)
        /\ UNCHANGED holder
     \/ /\ branch \notin DOMAIN local \/ Occupied(branch)
        /\ phase' = [phase EXCEPT ![r] = "over"]
        /\ holder' = None
        /\ UNCHANGED <<head, resolved>>
  /\ UNCHANGED <<local, remote, upstream, dirty, commits, progress, alive, kills, cleanup>>

(* progress.json is written when the workspace is known.                   *)
RecordWorkspace(r) ==
  /\ phase[r] = "resolved" /\ holder = r /\ alive
  /\ progress' = [progress EXCEPT ![r] = resolved[r]]
  /\ phase' = [phase EXCEPT ![r] = "running"]
  /\ UNCHANGED <<git, resolved, holder, alive, kills, cleanup>>

(* Tear-down: the run's own worktree goes if it is clean, then the lock.   *)
EndRun(r) ==
  /\ phase[r] = "running" /\ holder = r /\ alive
  /\ phase' = [phase EXCEPT ![r] = "over"]
  /\ holder' = None
  /\ head' = IF progress[r].createdByGan /\ r \in DOMAIN head /\ r \notin dirty
             THEN Without(head, r) ELSE head
  /\ UNCHANGED <<local, remote, upstream, dirty, commits, resolved, progress, alive, kills, cleanup>>

KillSession ==
  /\ kills < MaxKills /\ holder # None /\ alive
  /\ kills' = kills + 1
  /\ alive' = FALSE
  /\ phase' = [phase EXCEPT ![holder] = "over"]
  /\ UNCHANGED <<git, resolved, progress, holder, cleanup>>

(* checkRecoveryAnchor: a run resumes in its recorded worktree only, which *)
(* has to be there.                                                        *)
RecoverRun(r) ==
  /\ phase[r] = "over" /\ LockFree
  /\ progress[r].place \in DOMAIN head
  /\ phase' = [phase EXCEPT ![r] = "running"]
  /\ holder' = r
  /\ alive' = TRUE
  /\ overtaken' = IF plan # NoPlan /\ plan.run = r THEN overtaken \union {r} ELSE overtaken
  /\ UNCHANGED <<git, resolved, progress, kills, plan, cleanups, confirmed, unforeseen, ownCopyOnly>>

-------------------------------------------------------------------------------
(* Work in the checkouts, and on origin                                    *)

Change(place) ==
  /\ place \in DOMAIN head \ dirty
  /\ dirty' = dirty \union {place}
  /\ UNCHANGED <<local, remote, upstream, head, commits, session, cleanup>>

New == Cardinality(commits)

Commit(place) ==
  LET branch == head[place].on IN
  /\ place \in dirty /\ branch # Detached
  /\ New < MaxCommits
  /\ commits' = commits \union {New}
  /\ local' = [local EXCEPT ![branch] = @ \union {New}]
  /\ dirty' = dirty \ {place}
  /\ UNCHANGED <<remote, upstream, head, session, cleanup>>

Push(branch) ==
  /\ branch \in DOMAIN local /\ Occupied(branch)
  /\ branch \in DOMAIN remote => remote[branch] \subseteq local[branch]
  /\ remote' = With(remote, branch, local[branch])
  /\ upstream' = With(upstream, branch, local[branch])
  /\ UNCHANGED <<local, head, dirty, commits, session, cleanup>>

(* A teammate pushes to a branch of origin.                                *)
RemoteCommit(branch) ==
  /\ branch \in DOMAIN remote
  /\ New < MaxCommits
  /\ commits' = commits \union {New}
  /\ remote' = [remote EXCEPT ![branch] = @ \union {New}]
  /\ UNCHANGED <<local, upstream, head, dirty, session, cleanup>>

MergeLocal(branch) ==
  /\ Occupied(Main) /\ branch \in DOMAIN local
  /\ local' = [local EXCEPT ![Main] = @ \union local[branch]]
  /\ UNCHANGED <<remote, upstream, head, dirty, commits, session, cleanup>>

-------------------------------------------------------------------------------
(* Cleanup of a run, from the main checkout                                *)

ActiveRunGuard(r) == holder # r \/ ~alive

(* Mutant: a ref that is an ancestor of the branch will do.                *)
IsMergedIntoAnyReversed(branch, refs) ==
  branch \in DOMAIN local /\ \E ref \in refs : ref \subseteq local[branch]

IsMergedIntoAny(branch, refs) == \E ref \in refs : IsAncestor(branch, ref)

(* The base of every run here is Main, which progress.json records.        *)
PlanRunCleanup(r, yes) ==
  LET run == progress[r]
      base == {local[Main]}
      tracked == IF run.branch \in DOMAIN local \intersect DOMAIN upstream THEN {upstream[run.branch]} ELSE {}
      merged == IsMergedIntoAny(run.branch, base \union tracked)
  IN
  [run |-> r, step |-> "worktree", yes |-> yes,
   place |-> IF run.createdByGan THEN run.place ELSE None,
   branch |-> IF run.createdByGan THEN run.branch ELSE None,
   kind |-> CASE ~run.createdByGan -> None
              [] run.createdByGan /\ merged -> "delete-merged"
              [] OTHER -> "warn-unmerged",
   withRemote |-> run.createdByGan /\ merged /\ tracked # {},
   had |-> IF run.branch \in DOMAIN local THEN local[run.branch] ELSE {}]

StartCleanup(r) ==
  /\ plan = NoPlan /\ cleanups < MaxCleanups
  /\ phase[r] \notin {"new", "gone"}
  /\ ActiveRunGuard(r)
  /\ \E yes \in BOOLEAN : plan' = PlanRunCleanup(r, yes)
  /\ cleanups' = cleanups + 1
  /\ ownCopyOnly' = IF /\ plan'.withRemote
                       /\ plan'.had \subseteq upstream[plan'.branch]
                       /\ ~(plan'.had \subseteq local[Main])
                    THEN ownCopyOnly \union plan'.had ELSE ownCopyOnly
  /\ UNCHANGED <<git, session, confirmed, unforeseen, overtaken>>

Goes(step) == plan' = [plan EXCEPT !.step = step]

(* Every command may fail; a warning is printed and the next one is tried. *)
RemoveWorktree ==
  /\ plan.step = "worktree"
  /\ Goes("branch")
  /\ \/ UNCHANGED <<head, dirty>>
     \/ /\ plan.place \in DOMAIN head \ {Root}
        /\ head' = Without(head, plan.place)
        /\ dirty' = dirty \ {plan.place}
  /\ UNCHANGED <<local, remote, upstream, commits, session, cleanups, confirmed, unforeseen, ownCopyOnly, overtaken>>

(* branch -D does not delete a branch that a worktree has.                 *)
DeleteLocalBranch ==
  LET branch == plan.branch
      wanted == plan.kind = "delete-merged" \/ (plan.kind = "warn-unmerged" /\ plan.yes)
  IN
  /\ plan.step = "branch"
  /\ Goes(IF plan.withRemote THEN "remote" ELSE "run dir")
  /\ \/ UNCHANGED <<local, confirmed, unforeseen>>
     \/ /\ wanted /\ branch \in DOMAIN local /\ ~Occupied(branch)
        /\ local' = Without(local, branch)
        /\ IF plan.kind = "warn-unmerged"
           THEN confirmed' = confirmed \union local[branch] /\ UNCHANGED unforeseen
           ELSE unforeseen' = unforeseen \union (local[branch] \ plan.had) /\ UNCHANGED confirmed
  /\ UNCHANGED <<remote, upstream, head, dirty, commits, session, cleanups, ownCopyOnly, overtaken>>

DeleteRemoteBranch ==
  /\ plan.step = "remote"
  /\ Goes("run dir")
  /\ \/ UNCHANGED <<remote, upstream, unforeseen>>
     \/ /\ plan.branch \in DOMAIN remote
        /\ remote' = Without(remote, plan.branch)
        /\ upstream' = Without(upstream, plan.branch)
        /\ unforeseen' = unforeseen \union (remote[plan.branch] \ plan.had)
  /\ UNCHANGED <<local, head, dirty, commits, session, cleanups, confirmed, ownCopyOnly, overtaken>>

(* If the directory cannot be removed the call throws, and a later cleanup *)
(* plans again from the same record.                                       *)
RemoveRunDir ==
  /\ plan.step = "run dir"
  /\ plan' = NoPlan
  /\ \/ UNCHANGED <<phase, progress>>
     \/ /\ phase' = [phase EXCEPT ![plan.run] = "gone"]
        /\ progress' = [progress EXCEPT ![plan.run] = NoRecord]
  /\ UNCHANGED <<git, resolved, holder, alive, kills, cleanups, confirmed, unforeseen, ownCopyOnly, overtaken>>

-------------------------------------------------------------------------------
WorkspaceNext ==
  \/ \E r \in Runs :
       \/ \E ask \in Asked[r] :
            ResolveNew(r, ask) \/ ResolveHere(r, ask) \/ FreeCurrentCheckout(r, ask)
       \/ AddWorktree(r) \/ RecordWorkspace(r) \/ EndRun(r) \/ RecoverRun(r) \/ StartCleanup(r)
  \/ KillSession
  \/ \E place \in DOMAIN head \ {Own} : Change(place) \/ Commit(place)
  \/ \E branch \in {Task, Topic} : Push(branch) \/ RemoteCommit(branch) \/ MergeLocal(branch)
  \/ RemoveWorktree \/ DeleteLocalBranch \/ DeleteRemoteBranch \/ RemoveRunDir

WorkspaceSpec == WorkspaceInit /\ [][WorkspaceNext]_workspaceVars

-------------------------------------------------------------------------------
(* Properties *)

Reachable ==
  UNION {Range(local), Range(remote), Range(upstream), {HeadCommits(p) : p \in DOMAIN head}}
Lost == commits \ UNION Reachable

(* Whatever fails, dies or happens between the commands of a run and of a  *)
(* cleanup, no commit is lost but those that the user gave up with --yes,  *)
(* those that came to the branch after the plan, or that only others have  *)
(* pushed, and those that the planner counts as merged because their own   *)
(* upstream has them.  The only worktree that a cleanup takes is the one   *)
(* that was made for its run, and a live run keeps the worktree that was   *)
(* made for it, unless it was resumed under the cleanup.                   *)
CommitsSurvive ==
  /\ Lost \subseteq confirmed \union unforeseen \union ownCopyOnly
  /\ plan # NoPlan => plan.place \in {None, plan.run}
  /\ \A r \in Runs \ overtaken :
       holder = r /\ alive /\ phase[r] = "running" /\ progress[r].place = r => r \in DOMAIN head

(* Cleanup "reclaims it only when the work is safely merged or the user    *)
(* explicitly confirms" (F7, of the task branch).  Checked to be violated. *)
ReclaimedOnlyWhenMerged == Lost \subseteq confirmed \union unforeseen
===============================================================================
