-------------------------------- MODULE RunLock --------------------------------
(***************************************************************************)
(* The single-active-run lock of a repository: the file run.lock in the    *)
(* repository's central store (src/config-server/storage/run-lock.ts), the *)
(* MCP tools over it (src/config-server/tools/run-lock.ts) and the /gan    *)
(* sessions that call them (skills/gan/SKILL.md).                          *)
(*                                                                         *)
(* A config server runs its tools to completion one at a time, so a server *)
(* has one call in progress at most.  Servers of different Claude sessions *)
(* share the file: every system call on it (link, read, kill(pid, 0),      *)
(* unlink) is a step of its own here.  A server may die between any two.   *)
(***************************************************************************)
EXTENDS Naturals

CONSTANTS
  Servers,      (* config-server processes, named by their pid             *)
  Sessions,     (* /gan invocations                                        *)
  RunIds,       (* run ids                                                 *)
  NoLock,       (* run.lock does not exist                                 *)
  Unreadable,   (* run.lock exists and does not parse                      *)
  None          (* a session without a server or a run, a call without a   *)
                (* session                                                 *)

VARIABLES
  lock,         (* the file                                                *)
  alive,        (* the pids that answer kill(pid, 0)                       *)
  pc,           (* where each server is in its current call                *)
  cur,          (* the session each server's call is for                   *)
  attempt,      (* the loop counter of acquireRunLock, 1 or 2              *)
  seen,         (* what the call read last from the file                   *)
  phase,        (* how far each session is                                 *)
  run,          (* its run id                                              *)
  server,       (* the server of its Claude session                        *)
  recovering,   (* whether it passes recoverTargetRunId (= its run id)     *)
  (* History, read by no guard: *)
  displaced,    (* sessions whose lock file another session's call has     *)
                (* unlinked: not the file it had judged, or not the        *)
                (* acquisition it meant                                    *)
  rivalled      (* servers in whose call another server linked the file    *)

onDisk == <<lock, alive>>
calls  == <<pc, cur, attempt, seen>>
users  == <<phase, run, server, recovering>>
ghosts == <<displaced, rivalled>>
vars   == <<lock, alive, pc, cur, attempt, seen, phase, run, server,
            recovering, displaced, rivalled>>

(* A lock file: runId and pid are its contents; owner tells which session  *)
(* linked it, the identity of the inode, which the code never looks at.    *)
LockFile == [run : RunIds, pid : Servers, owner : Sessions]

ASSUME LockConstants ==
  /\ None \notin Servers \union Sessions \union RunIds
  /\ NoLock \notin LockFile
  /\ Unreadable \notin LockFile \union {NoLock}

Content == LockFile \union {NoLock, Unreadable}

Points == {"idle", "link", "read", "probe", "break", "fail",
           "readOwn", "unlinkOwn"}

(* gone: ended before it heard of its lock; lost: stopped while it held    *)
(* the lock and may yet tear down; dead: ended for good, never to tear     *)
(* down; over: torn down, and its server has died.                         *)
Phases == {"new", "asking", "active", "closing", "done", "refused",
           "stranded", "lost", "gone", "dead", "over"}

(* The session's own end still answers: it waits for a lock, holds the     *)
(* repository for its run, or is tearing that run down.                    *)
Running(s) == phase[s] \in {"asking", "active", "closing"}

TypeOK ==
  /\ lock \in Content
  /\ alive \subseteq Servers
  /\ pc \in [Servers -> Points]
  /\ cur \in [Servers -> Sessions \union {None}]
  /\ attempt \in [Servers -> {1, 2}]
  /\ seen \in [Servers -> Content]
  /\ phase \in [Sessions -> Phases]
  /\ run \in [Sessions -> RunIds \union {None}]
  /\ server \in [Sessions -> Servers \union {None}]
  /\ recovering \in [Sessions -> BOOLEAN]
  /\ displaced \subseteq Sessions
  /\ rivalled \subseteq Servers

Init ==
  /\ lock \in {NoLock, Unreadable}
  /\ alive = {}
  /\ pc = [p \in Servers |-> "idle"]
  /\ cur = [p \in Servers |-> None]
  /\ attempt = [p \in Servers |-> 1]
  /\ seen = [p \in Servers |-> NoLock]
  /\ phase = [s \in Sessions |-> "new"]
  /\ run = [s \in Sessions |-> None]
  /\ server = [s \in Sessions |-> None]
  /\ recovering = [s \in Sessions |-> FALSE]
  /\ displaced = {}
  /\ rivalled = {}

-------------------------------------------------------------------------------
(* Processes *)

(* A config server starts.  One that died may have left a lock with the    *)
(* same pid: to kill(pid, 0) a reused pid looks like the first process.    *)
StartServer(p) ==
  /\ p \notin alive
  /\ alive' = alive \union {p}
  /\ UNCHANGED <<lock, calls, users, ghosts>>

(* A server is killed, whatever call it is in; its sessions end with it    *)
(* and release nothing.                                                    *)
KillServer(p) ==
  /\ p \in alive
  /\ alive' = alive \ {p}
  /\ pc' = [pc EXCEPT ![p] = "idle"]
  /\ cur' = [cur EXCEPT ![p] = None]
  /\ phase' = [s \in Sessions |->
                 CASE server[s] = p /\ phase[s] = "asking" -> "gone"
                   [] server[s] = p /\ phase[s] \in {"active", "closing", "lost"} -> "dead"
                   [] server[s] = p /\ phase[s] = "done" -> "over"
                   [] OTHER -> phase[s]]
  /\ UNCHANGED <<lock, attempt, seen, run, server, recovering, ghosts>>

-------------------------------------------------------------------------------
(* acquireRunLock *)

Call(p, s, point) ==
  /\ p \in alive
  /\ pc[p] = "idle"
  /\ pc' = [pc EXCEPT ![p] = point]
  /\ cur' = [cur EXCEPT ![p] = s]
  /\ attempt' = [attempt EXCEPT ![p] = 1]
  /\ seen' = [seen EXCEPT ![p] = NoLock]

Return(p) ==
  /\ pc' = [pc EXCEPT ![p] = "idle"]
  /\ cur' = [cur EXCEPT ![p] = None]
  /\ UNCHANGED <<attempt, seen>>

Ask(s, p, r, recover) ==
  /\ phase[s] = "new"
  /\ Call(p, s, "link")
  /\ phase' = [phase EXCEPT ![s] = "asking"]
  /\ run' = [run EXCEPT ![s] = r]
  /\ server' = [server EXCEPT ![s] = p]
  /\ recovering' = [recovering EXCEPT ![s] = recover]
  /\ rivalled' = rivalled \ {p}
  /\ UNCHANGED <<onDisk, displaced>>

(* A regular /gan mints a run id and asks for the lock under it.           *)
AskFresh(s, p, r) ==
  /\ \A t \in Sessions : run[t] # r
  /\ Ask(s, p, r, FALSE)

(* /gan --recover asks under the id of a run that has begun (it has a run  *)
(* directory) and is not terminal, be it still active.                     *)
AskRecover(s, p, r) ==
  /\ \E t \in Sessions : run[t] = r /\ phase[t] \in {"active", "lost", "dead"}
  /\ \A t \in Sessions : run[t] = r => phase[t] \notin {"closing", "done", "over"}
  /\ Ask(s, p, r, TRUE)

(* The session s of server p's call hears back, if it still listens.       *)
Answer(s, outcome) ==
  phase' = [phase EXCEPT ![s] = IF @ \in {"asking", "closing"} THEN outcome ELSE @]

(* tryCreateLock: link(2) creates the file or fails because it exists.     *)
Link(p) ==
  LET s == cur[p] IN
  /\ pc[p] = "link"
  /\ \/ /\ lock = NoLock
        /\ lock' = [run |-> run[s], pid |-> p, owner |-> s]
        /\ rivalled' = rivalled \union {q \in Servers \ {p} : pc[q] # "idle"}
        /\ Answer(s, "active")
        /\ Return(p)
     \/ /\ lock # NoLock
        /\ pc' = [pc EXCEPT ![p] = "read"]
        /\ UNCHANGED <<lock, cur, attempt, seen, phase, rivalled>>
  /\ UNCHANGED <<alive, run, server, recovering, displaced>>

(* readRunLock: a file that is gone by now reads like an unreadable one,   *)
(* and either is broken without a probe.                                   *)
ReadHolder(p) ==
  /\ pc[p] = "read"
  /\ seen' = [seen EXCEPT ![p] = lock]
  /\ pc' = [pc EXCEPT ![p] = IF lock \in LockFile THEN "probe" ELSE "break"]
  /\ UNCHANGED <<onDisk, cur, attempt, users, ghosts>>

(* Mutant: --recover takes a stranded lock of its own run for stale.       *)
ProbeBreaksOwnRun(p) ==
  LET s == cur[p]
      honoured == /\ seen[p].pid \in alive
                  /\ ~(recovering[s] /\ seen[p].run = run[s])
  IN
  /\ pc[p] = "probe"
  /\ \/ honoured /\ Answer(s, "refused") /\ Return(p)
     \/ /\ ~honoured
        /\ pc' = [pc EXCEPT ![p] = "break"]
        /\ UNCHANGED <<cur, attempt, seen, phase>>
  /\ UNCHANGED <<onDisk, run, server, recovering, ghosts>>

(* isAlive(holder.pid): a live holder makes the call throw, a dead one is  *)
(* broken.                                                                 *)
ProbeHolder(p) ==
  LET s == cur[p] IN
  /\ pc[p] = "probe"
  /\ \/ /\ seen[p].pid \in alive
        /\ Answer(s, IF recovering[s] /\ seen[p].run = run[s]
                     THEN "stranded" ELSE "refused")
        /\ Return(p)
     \/ /\ seen[p].pid \notin alive
        /\ pc' = [pc EXCEPT ![p] = "break"]
        /\ UNCHANGED <<cur, attempt, seen, phase>>
  /\ UNCHANGED <<onDisk, run, server, recovering, ghosts>>

(* The session whose lock file is on disk, if that file is not the one     *)
(* which the call of server p has judged stale.                            *)
Bystander(p) ==
  IF lock \in LockFile /\ lock # seen[p] THEN {lock.owner} ELSE {}

(* Mutant: one attempt, so that the breaker does not come back to link.    *)
BreakAndGiveUp(p) ==
  /\ pc[p] = "break"
  /\ lock' = NoLock
  /\ displaced' = displaced \union Bystander(p)
  /\ pc' = [pc EXCEPT ![p] = "fail"]
  /\ UNCHANGED <<alive, cur, attempt, seen, users, rivalled>>

(* breakStaleLock: unlink(2) by path, whichever file is there by now; then *)
(* the second attempt, or the throw after the loop.                        *)
Break(p) ==
  /\ pc[p] = "break"
  /\ lock' = NoLock
  /\ displaced' = displaced \union Bystander(p)
  /\ pc' = [pc EXCEPT ![p] = IF attempt[p] = 1 THEN "link" ELSE "fail"]
  /\ attempt' = [attempt EXCEPT ![p] = 2]
  /\ UNCHANGED <<alive, cur, seen, users, rivalled>>

(* The throw after the loop.  Its last read only fills the message.        *)
Fail(p) ==
  /\ pc[p] = "fail"
  /\ Answer(cur[p], "refused")
  /\ Return(p)
  /\ UNCHANGED <<onDisk, run, server, recovering, ghosts>>

-------------------------------------------------------------------------------
(* releaseRunLockTool *)

(* The tear-down of a session: on its way out of an active run, once more  *)
(* on a graceful-then-error path, or late, when a session that stopped     *)
(* without tearing down gets there after all.                              *)
Release(s) ==
  LET p == server[s] IN
  /\ phase[s] \in {"active", "lost", "done"}
  /\ Call(p, s, "readOwn")
  /\ phase' = [phase EXCEPT ![s] = "closing"]
  /\ rivalled' = rivalled \ {p}
  /\ UNCHANGED <<onDisk, run, server, recovering, displaced>>

(* Mutant: the release trusts the path and compares no run id.             *)
ReadOwnAnyRun(p) ==
  /\ pc[p] = "readOwn"
  /\ \/ /\ lock \in LockFile
        /\ seen' = [seen EXCEPT ![p] = lock]
        /\ pc' = [pc EXCEPT ![p] = "unlinkOwn"]
        /\ UNCHANGED <<cur, attempt, phase>>
     \/ lock \notin LockFile /\ Answer(cur[p], "done") /\ Return(p)
  /\ UNCHANGED <<onDisk, run, server, recovering, ghosts>>

(* Mutant: the release leaves a lock with a live pid alone, as acquire does.*)
ReadOwnHonouringLive(p) ==
  LET s == cur[p]
      own == lock \in LockFile /\ lock.run = run[s] /\ lock.pid \notin alive
  IN
  /\ pc[p] = "readOwn"
  /\ \/ /\ own
        /\ seen' = [seen EXCEPT ![p] = lock]
        /\ pc' = [pc EXCEPT ![p] = "unlinkOwn"]
        /\ UNCHANGED <<cur, attempt, phase>>
     \/ ~own /\ Answer(s, "done") /\ Return(p)
  /\ UNCHANGED <<onDisk, run, server, recovering, ghosts>>

(* Only a lock with the caller's run id is unlinked.                       *)
ReadOwn(p) ==
  LET s == cur[p] IN
  /\ pc[p] = "readOwn"
  /\ \/ /\ lock \in LockFile
        /\ lock.run = run[s]
        /\ seen' = [seen EXCEPT ![p] = lock]
        /\ pc' = [pc EXCEPT ![p] = "unlinkOwn"]
        /\ UNCHANGED <<cur, attempt, phase>>
     \/ /\ lock \in LockFile => lock.run # run[s]
        /\ Answer(s, "done")
        /\ Return(p)
  /\ UNCHANGED <<onDisk, run, server, recovering, ghosts>>

(* The session, not the caller's, whose lock file the release of server p  *)
(* finds: linked since the read, or linked under the caller's own run id   *)
(* by a session that recovers that run.                                    *)
Successor(p) ==
  IF /\ lock \in LockFile
     /\ lock.owner # cur[p]
     /\ lock # seen[p] \/ lock.run = run[cur[p]]
  THEN {lock.owner}
  ELSE {}

(* releaseRunLockAtPath: unlink(2) by path; a missing file is no error.    *)
UnlinkOwn(p) ==
  LET s == cur[p] IN
  /\ pc[p] = "unlinkOwn"
  /\ lock' = NoLock
  /\ displaced' = displaced \union Successor(p)
  /\ Answer(s, "done")
  /\ Return(p)
  /\ UNCHANGED <<alive, run, server, recovering, rivalled>>

-------------------------------------------------------------------------------
(* The user *)

(* The session stops (interrupted, or the orchestrator skips a step)       *)
(* without releasing; its server lives on and finishes the call it is in.  *)
(* One that stops before it heard that it has the lock never tears down.   *)
Interrupt(s) ==
  /\ Running(s)
  /\ phase' = [phase EXCEPT ![s] = IF @ = "asking" THEN "gone" ELSE "lost"]
  /\ UNCHANGED <<onDisk, calls, run, server, recovering, ghosts>>

(* The escape that the refusals name: if no session is running the run of  *)
(* the lock, rm the file.                                                  *)
RemoveByHand ==
  /\ lock \in LockFile
  /\ \E s \in Sessions : phase[s] \in {"refused", "stranded"}
  /\ \A s \in Sessions : run[s] = lock.run => ~Running(s)
  /\ lock' = NoLock
  /\ UNCHANGED <<alive, calls, users, ghosts>>

-------------------------------------------------------------------------------
ServerStep(p) ==
  \/ Link(p) \/ ReadHolder(p) \/ ProbeHolder(p) \/ Break(p) \/ Fail(p)
  \/ ReadOwn(p) \/ UnlinkOwn(p)

Next ==
  \/ \E p \in Servers : StartServer(p) \/ KillServer(p) \/ ServerStep(p)
  \/ \E s \in Sessions, p \in Servers, r \in RunIds :
       AskFresh(s, p, r) \/ AskRecover(s, p, r)
  \/ \E s \in Sessions : Release(s) \/ Interrupt(s)
  \/ RemoveByHand

Spec == Init /\ [][Next]_vars

-------------------------------------------------------------------------------
(* Properties *)

(* "At most one /gan run may be active per repository at a time, across all*)
(* of its worktrees" (run-lock.ts:4): two sessions never both hold it.     *)
MutualExclusion ==
  \A s, t \in Sessions : phase[s] = "active" /\ phase[t] = "active" => s = t

(* What the lock does guarantee: a session that holds the repository has   *)
(* its own lock file on disk unless it is displaced, that is, unless a call*)
(* unlinked the file by path after the file it had read was replaced, or   *)
(* for sharing a run id.  Two runs are active together in no other way.    *)
HolderOwnsTheLock ==
  \A s \in Sessions :
    phase[s] = "active" /\ s \notin displaced =>
      lock \in LockFile /\ lock.owner = s

(* The stale-lock judgement is right: when a call is about to break a lock *)
(* it read as held by a dead pid, the session that took that lock has      *)
(* ended, however the file, the pids and the sessions moved since.         *)
JudgedStaleIsOver ==
  \A p \in Servers :
    pc[p] = "break" /\ seen[p] \in LockFile => ~Running(seen[p].owner)

(* No orphan: the file on disk belongs to a session that still has to      *)
(* release it or stopped before it could; a session that tore down, or was *)
(* refused, has no file there for the next one to be refused by.           *)
LockIsSomeonesBusiness ==
  lock \in LockFile =>
    /\ phase[lock.owner] \in {"active", "closing", "lost", "gone", "dead"}
    /\ lock.run = run[lock.owner]
    /\ lock.pid = server[lock.owner]

(* Self-healing: an acquisition that runs out of attempts lost a race to   *)
(* another call that linked the file meanwhile; whatever stale or          *)
(* unreadable file it met, alone it would have got the lock.               *)
FailsOnlyToARival ==
  \A p \in Servers : pc[p] = "fail" => p \in rivalled

(* RepositoryLock with its lock read off the file: the system calls of     *)
(* acquisitions, releases and hand removals of any number of processes     *)
(* amount to a lock that is taken when it is free and freed when its       *)
(* session does not run, with no exception but the one that is recorded.   *)
Promise ==
  INSTANCE RepositoryLock WITH
    holder  <- IF lock \in LockFile THEN lock.owner ELSE None,
    active  <- {s \in Sessions : phase[s] = "active"},
    evicted <- displaced

KeepsThePromise == Promise!Spec

(* "a late, stale tear-down from a superseded run is a silent no-op and    *)
(* never deletes a live successor's lock" (SKILL.md:324): a release takes  *)
(* no running session's lock file away but its own.                        *)
ReleaseSparesSuccessor ==
  [][\A p \in Servers :
       UnlinkOwn(p) /\ lock \in LockFile =>
         lock.owner = cur[p] \/ ~Running(lock.owner)]_vars

===============================================================================
