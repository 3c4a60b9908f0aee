---------------------------------- MODULE Hooks ---------------------------------
(***************************************************************************)
(* The confinement hook of a project: `gan hooks migrate` removes it or    *)
(* puts the framework's in its place (src/cli/commands/hooks-migrate.ts),  *)
(* and the probe that a run and `gan hooks status` ask runs it             *)
(* (src/hook-probe/probe.ts).  A hook is known by its path only: between   *)
(* any two system calls the user or another command may put another one    *)
(* there, a symbolic link included.                                        *)
(***************************************************************************)
EXTENDS Naturals, Functions

CONSTANTS
  Migrations,       (* processes of gan hooks migrate                      *)
  MaxEdits,         (* bound: changes that the user makes to the hook      *)
  MaxInstant        (* bound: instants that a backup's name tells apart    *)

VARIABLES
  hook,             (* what is at the path: [kind, text]                   *)
  backups,          (* instant -> text of the backup named for it          *)
  instant, hookEdits,
  step,             (* migration -> the system call it comes to            *)
  migration,        (* migration -> [action, stamp, original]              *)
  probe,            (* the probe: [step, ran, child, verdict, tempTree]    *)
                    (* and, as history, whether its tree would not go      *)
  (* History, read by no guard: *)
  replaced,         (* <<instant, text>> taken away with a backup          *)
  shared            (* instants of which two backups have the name         *)

migrationVars == <<step, migration, replaced, shared>>
hookVars == <<hook, backups, instant, hookEdits, migrationVars, probe>>

(* Hooks by what running them does: the framework's lets a run write, an   *)
(* old one refuses, one hangs or floods, and one is no script at all.      *)
Template == "template"
Texts == {Template, "old", "hangs", "no script"}
(* What a link leads to is a file outside the project, a script as well.   *)
Target == "outside"

NoHook == [kind |-> "none", text |-> "none"]
File(text) == [kind |-> "file", text |-> text]
Link == [kind |-> "link", text |-> Target]
NoMigration == [action |-> "none", stamp |-> 0, original |-> "none"]
NoProbe == [step |-> "idle", ran |-> "none", child |-> "none", verdict |-> "none",
            tempTree |-> FALSE, leaked |-> FALSE]

HooksInit ==
  /\ hook \in {NoHook} \union {File(text) : text \in Texts}
  /\ backups = << >>
  /\ instant = 1
  /\ hookEdits = 0
  /\ step = [m \in Migrations |-> "idle"]
  /\ migration = [m \in Migrations |-> NoMigration]
  /\ probe = NoProbe
  /\ replaced = {}
  /\ shared = {}

-------------------------------------------------------------------------------
(* gan hooks migrate --delete and --replace.  Every system call may fail,  *)
(* and the process may be killed before it: GiveUp.                        *)

To(m, next) == step' = [step EXCEPT ![m] = next]

(* The time is taken before the operator is asked; without a confirmation, *)
(* or without a template to put in place, nothing more is done.            *)
Start(m) ==
  /\ step[m] = "idle" /\ migration[m] = NoMigration
  /\ \E action \in {"delete", "replace"} :
       migration' = [migration EXCEPT ![m] = [action |-> action, stamp |-> instant,
                                              original |-> "none"]]
  /\ To(m, "stat")
  /\ UNCHANGED <<hook, backups, instant, hookEdits, probe, replaced, shared>>

GiveUp(m) ==
  /\ step[m] # "idle"
  /\ To(m, "idle")
  /\ UNCHANGED <<hook, backups, instant, hookEdits, migration, probe, replaced, shared>>

(* isFileAt follows a link.  A missing hook is nothing to delete, and is   *)
(* made by replace.                                                        *)
IsFileAt(m) ==
  /\ step[m] = "stat"
  /\ To(m, CASE hook # NoHook                                              -> "lstat"
             [] hook = NoHook /\ migration[m].action = "delete"  -> "idle"
             [] hook = NoHook /\ migration[m].action = "replace" -> "create")
  /\ UNCHANGED <<hook, backups, instant, hookEdits, migration, probe, replaced, shared>>

IsSymlinkAt(m) ==
  /\ step[m] = "lstat"
  /\ To(m, IF hook.kind = "link" THEN "idle" ELSE "read")
  /\ UNCHANGED <<hook, backups, instant, hookEdits, migration, probe, replaced, shared>>

(* Mutant: the open follows a link.                                        *)
ReadHookContentsFollowing(m) ==
  /\ step[m] = "read"
  /\ \/ hook = NoHook /\ To(m, "idle") /\ UNCHANGED migration
     \/ /\ hook # NoHook
        /\ To(m, "backup")
        /\ migration' = [migration EXCEPT ![m].original = hook.text]
  /\ UNCHANGED <<hook, backups, instant, hookEdits, probe, replaced, shared>>

(* The open refuses a link that has come in between.                       *)
ReadHookContentsNoFollow(m) ==
  /\ step[m] = "read"
  /\ \/ hook.kind # "file" /\ To(m, "idle") /\ UNCHANGED migration
     \/ /\ hook.kind = "file"
        /\ To(m, "backup")
        /\ migration' = [migration EXCEPT ![m].original = hook.text]
  /\ UNCHANGED <<hook, backups, instant, hookEdits, probe, replaced, shared>>

(* atomicWriteBuffer: a rename, over a backup of the same instant too.     *)
WriteBackup(m) ==
  LET stamp == migration[m].stamp IN
  /\ step[m] = "backup"
  /\ backups' = [s \in DOMAIN backups \union {stamp} |->
                   IF s = stamp THEN migration[m].original ELSE backups[s]]
  /\ shared' = IF stamp \in DOMAIN backups THEN shared \union {stamp} ELSE shared
  /\ To(m, "remove")
  /\ UNCHANGED <<hook, instant, hookEdits, migration, probe, replaced>>

(* unlink, or a rename of the template: of whatever is there by now.       *)
RemoveHook(m) ==
  LET original == migration[m].original IN
  /\ step[m] = "remove"
  /\ \/ migration[m].action = "delete" /\ hook # NoHook /\ hook' = NoHook
     \/ migration[m].action = "replace" /\ hook' = File(Template)
  /\ replaced' = IF hook = File(original)
                 THEN replaced \union {<<migration[m].stamp, original>>} ELSE replaced
  /\ To(m, "idle")
  /\ UNCHANGED <<backups, instant, hookEdits, migration, probe, shared>>

CreateHook(m) ==
  /\ step[m] = "create"
  /\ hook' = File(Template)
  /\ To(m, "idle")
  /\ UNCHANGED <<backups, instant, hookEdits, migration, probe, replaced, shared>>

-------------------------------------------------------------------------------
(* The user                                                                *)

Tick ==
  /\ instant < MaxInstant
  /\ instant' = instant + 1
  /\ UNCHANGED <<hook, backups, hookEdits, migrationVars, probe>>

EditHook ==
  /\ hookEdits < MaxEdits
  /\ hookEdits' = hookEdits + 1
  /\ hook' \in {NoHook, Link} \union {File(text) : text \in Texts}
  /\ UNCHANGED <<backups, instant, migrationVars, probe>>

(* mv of a backup to the hook, as the command prints it when it is done.   *)
RestoreBackup ==
  /\ hookEdits < MaxEdits
  /\ hookEdits' = hookEdits + 1
  /\ \E stamp \in DOMAIN backups :
       /\ \A m \in Migrations : step[m] = "remove" => migration[m].stamp # stamp
       /\ hook' = File(backups[stamp])
       /\ backups' = Restrict(backups, DOMAIN backups \ {stamp})
       /\ replaced' = {r \in replaced : r[1] # stamp}
  /\ UNCHANGED <<instant, step, migration, probe, shared>>

-------------------------------------------------------------------------------
(* The probe                                                               *)

Steady == <<hook, backups, instant, hookEdits, migrationVars>>
Settles(p, verdict) == [p EXCEPT !.verdict = verdict, !.step = "clean up"]
Scripts == {Template, "old", "hangs", Target}

Over(p, verdict) == [p EXCEPT !.verdict = verdict, !.step = "over"]

(* Without a hook there is nothing to ask, and the run proceeds.           *)
FindHook ==
  /\ probe.step = "idle"
  /\ probe' = [probe EXCEPT !.step = IF hook = NoHook THEN "over" ELSE "shebang"]
  /\ UNCHANGED Steady

(* A hook that is gone, or that cannot be opened, is misconfigured too; of *)
(* the read only the end is guarded, so that a failure is thrown.          *)
CheckShebang ==
  /\ probe.step = "shebang"
  /\ \/ hook.text \in Scripts /\ probe' = [probe EXCEPT !.step = "make tree"]
     \/ probe' = Over(probe, "misconfigured")
     \/ hook # NoHook /\ probe' = Over(probe, "thrown")
  /\ UNCHANGED Steady

(* mkdtempSync fails outside of the try, mkdirSync inside of it.           *)
MakeTree ==
  LET made == [probe EXCEPT !.tempTree = TRUE] IN
  /\ probe.step = "make tree"
  /\ probe' \in {Over(probe, "thrown"), Settles(made, "thrown"), [made EXCEPT !.step = "spawn"]}
  /\ UNCHANGED Steady

Spawn ==
  /\ probe.step = "spawn"
  /\ probe' = IF hook.text \in Scripts
              THEN [probe EXCEPT !.step = "wait", !.child = "runs", !.ran = hook.text]
              ELSE Settles(probe, "misconfigured")
  /\ UNCHANGED Steady

(* The exit of the child settles the probe, unless something else has.     *)
ChildExits ==
  /\ probe.child = "runs" /\ probe.ran # "hangs"
  /\ LET ended == [probe EXCEPT !.child = "exited"]
         verdict == IF probe.ran = Template THEN {"current"}
                    ELSE IF probe.ran = "old" THEN {"stale"} ELSE {"current", "stale"}
     IN probe' \in IF probe.step = "wait" THEN {Settles(ended, v) : v \in verdict} ELSE {ended}
  /\ UNCHANGED Steady

(* A signal from elsewhere: the hook did not run to its end.               *)
ChildIsKilled ==
  /\ probe.child = "runs" /\ probe.step = "wait"
  /\ probe' = Settles([probe EXCEPT !.child = "exited"], "stale")
  /\ UNCHANGED Steady

(* Mutant: the child is left alone.                                        *)
GivesUpOnChildOnly ==
  /\ probe.step = "wait"
  /\ probe' = Settles(probe, "misconfigured")
  /\ UNCHANGED Steady

(* The time is up, or a stream is over its cap: SIGKILL.                   *)
GivesUpOnChild ==
  /\ probe.step = "wait"
  /\ probe' = Settles([probe EXCEPT !.child = "killed"], "misconfigured")
  /\ UNCHANGED Steady

(* A failure of rmSync is swallowed, and what is left of the tree stays.   *)
CleanUp ==
  /\ probe.step = "clean up"
  /\ \E fails \in BOOLEAN :
       probe' = [probe EXCEPT !.tempTree = fails, !.leaked = fails, !.step = "over"]
  /\ UNCHANGED Steady

-------------------------------------------------------------------------------
HooksNext ==
  \/ \E m \in Migrations :
       \/ Start(m) \/ GiveUp(m) \/ IsFileAt(m) \/ IsSymlinkAt(m)
       \/ ReadHookContentsNoFollow(m) \/ WriteBackup(m) \/ RemoveHook(m) \/ CreateHook(m)
  \/ Tick \/ EditHook \/ RestoreBackup
  \/ FindHook \/ CheckShebang \/ MakeTree
  \/ Spawn \/ ChildExits \/ ChildIsKilled \/ GivesUpOnChild \/ CleanUp

-------------------------------------------------------------------------------
(* Properties *)

(* Whatever fails, dies or changes in between, a hook that a migration has *)
(* taken away, being the one that it had read, is in the backup of that    *)
(* name until the user moves it back, or another migration of the same     *)
(* instant replaces it; and what is behind a link, even one swapped in     *)
(* between two system calls, is never copied into the project.             *)
HookKept ==
  /\ \A r \in replaced :
       r[1] \in shared \/ (r[1] \in DOMAIN backups /\ backups[r[1]] = r[2])
  /\ Target \notin Range(backups)

(* However the exit, the timer and the output cap race and whatever fails  *)
(* before, a probe that is over has left no hook running, and no tree that *)
(* it has not tried to remove in vain; it lets a run go on only if the hook*)
(* that it ran, which need not be the one that is there by now, has exited *)
(* of itself, and it does not clear an old one.                            *)
ProbeVerdictFits ==
  probe.step = "over" =>
    /\ probe.child # "runs" /\ (probe.tempTree => probe.leaked)
    /\ probe.verdict = "current" => probe.child = "exited" /\ probe.ran \in {Template, Target}
===============================================================================
