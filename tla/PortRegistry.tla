------------------------------ MODULE PortRegistry ------------------------------
(***************************************************************************)
(* The registry of host ports of a repository (modules/docker/             *)
(* PortRegistry.ts): one module-state file that all its worktrees share,   *)
(* with at most one entry per worktree.                                    *)
(*                                                                         *)
(* Each call of register, release or lookup loads the file, drops the      *)
(* entries whose worktree is gone from the disk (and saves the rest if     *)
(* there was one), and then does its own work on what it has loaded.  The  *)
(* file is replaced as a whole and nothing locks it.  The processes are    *)
(* the config servers; each runs one call at a time, and a call may throw  *)
(* or be killed between any two accesses to the disk.                      *)
(***************************************************************************)
CONSTANTS
  Procs,      (* the config servers of the repository's sessions           *)
  Worktrees,  (* canonical worktree paths                                  *)
  Ports,      (* host ports                                                *)
  None        (* no entry, no argument                                     *)

ASSUME PortConstants == None \notin Ports \union Worktrees

VARIABLES
  registry,   (* the file: the port of each worktree                       *)
  disk,       (* the worktrees that exist                                  *)
  pc,         (* where each process is in its call                         *)
  op,         (* the call: what it does, and its arguments                 *)
  blob,       (* the registry as the call has loaded and pruned it         *)
  todo,       (* the entries it has still to look for on the disk          *)
  pruned,     (* whether it has dropped one                                *)
  (* History, read by no guard: *)
  latest,     (* the port of each worktree, by the last register or        *)
              (* release that has gone through                             *)
  stood,      (* the worktrees that have existed ever since                *)
  behind,     (* the calls whose load is older than the last write         *)
  moved,      (* worktrees created or removed since each call's load       *)
  overlapped  (* a call that was behind has replaced the file              *)

file   == <<registry, latest, stood, overlapped>>
vars   == <<registry, disk, pc, op, blob, todo, pruned,
            latest, stood, behind, moved, overlapped>>

Tables == [Worktrees -> Ports \union {None}]
Entries(t) == {w \in Worktrees : t[w] # None}
Empty == [w \in Worktrees |-> None]

Ops  ==      [kind : {"register"}, w : Worktrees, port : Ports]
      \union [kind : {"release"}, w : Worktrees, port : {None}]
      \union [kind : {"lookup"}, w : {None}, port : {None}]
NoOp == [kind |-> "none", w |-> None, port |-> None]

TypeOK ==
  /\ registry \in Tables
  /\ disk \subseteq Worktrees
  /\ pc \in [Procs -> {"idle", "prune", "finish"}]
  /\ op \in [Procs -> Ops \union {NoOp}]
  /\ blob \in [Procs -> Tables]
  /\ todo \in [Procs -> SUBSET Worktrees]
  /\ pruned \in [Procs -> BOOLEAN]
  /\ latest \in Tables
  /\ stood \subseteq Worktrees
  /\ behind \subseteq Procs
  /\ moved \in [Procs -> SUBSET Worktrees]
  /\ overlapped \in BOOLEAN
  /\ \A p \in Procs : todo[p] \subseteq Entries(blob[p])

Init ==
  /\ registry = Empty
  /\ disk \in SUBSET Worktrees
  /\ pc = [p \in Procs |-> "idle"]
  /\ op = [p \in Procs |-> NoOp]
  /\ blob = [p \in Procs |-> Empty]
  /\ todo = [p \in Procs |-> {}]
  /\ pruned = [p \in Procs |-> FALSE]
  /\ latest = Empty
  /\ stood = {}
  /\ behind = {}
  /\ moved = [p \in Procs |-> {}]
  /\ overlapped = FALSE

-------------------------------------------------------------------------------
(* The disk and the calls *)

(* Each load under way may or may not have looked at w already.            *)
Move(w) ==
  moved' = [p \in Procs |-> IF pc[p] = "idle" THEN {} ELSE moved[p] \union {w}]

CreateWorktree(w) ==
  /\ w \notin disk
  /\ disk' = disk \union {w}
  /\ Move(w)
  /\ UNCHANGED <<file, pc, op, blob, todo, pruned, behind>>

RemoveWorktree(w) ==
  /\ w \in disk
  /\ disk' = disk \ {w}
  /\ stood' = stood \ {w}
  /\ Move(w)
  /\ UNCHANGED <<registry, pc, op, blob, todo, pruned, latest, behind, overlapped>>

End(p) ==
  /\ pc' = [pc EXCEPT ![p] = "idle"]
  /\ op' = [op EXCEPT ![p] = NoOp]
  /\ blob' = [blob EXCEPT ![p] = Empty]
  /\ todo' = [todo EXCEPT ![p] = {}]
  /\ pruned' = [pruned EXCEPT ![p] = FALSE]
  /\ moved' = [moved EXCEPT ![p] = {}]
  /\ UNCHANGED disk

(* A system call throws, or the process is killed.                         *)
Abandon(p) ==
  /\ pc[p] # "idle"
  /\ End(p)
  /\ behind' = behind \ {p}
  /\ UNCHANGED file

-------------------------------------------------------------------------------
(* load *)

(* A file that is not there reads as a registry without entries.           *)
Load(p, o) ==
  /\ pc[p] = "idle"
  /\ op' = [op EXCEPT ![p] = o]
  /\ blob' = [blob EXCEPT ![p] = registry]
  /\ todo' = [todo EXCEPT ![p] = Entries(registry)]
  /\ pc' = [pc EXCEPT ![p] = "prune"]
  /\ UNCHANGED <<file, disk, pruned, behind, moved>>

(* Mutant: the probe is negated.                                           *)
ProbeNegated(p, w) ==
  /\ pc[p] = "prune"
  /\ w \in todo[p]
  /\ todo' = [todo EXCEPT ![p] = @ \ {w}]
  /\ IF w \notin disk
     THEN UNCHANGED <<blob, pruned>>
     ELSE /\ blob' = [blob EXCEPT ![p][w] = None]
          /\ pruned' = [pruned EXCEPT ![p] = TRUE]
  /\ UNCHANGED <<file, disk, pc, op, behind, moved>>

(* Mutant: the loop notes the absence and forgets to delete.               *)
ProbeKeeps(p, w) ==
  /\ pc[p] = "prune"
  /\ w \in todo[p]
  /\ todo' = [todo EXCEPT ![p] = @ \ {w}]
  /\ pruned' = [pruned EXCEPT ![p] = @ \/ w \notin disk]
  /\ UNCHANGED <<file, disk, pc, op, blob, behind, moved>>

(* pruneAbsentWorktrees looks for the worktrees one after the other.       *)
Probe(p, w) ==
  /\ pc[p] = "prune"
  /\ w \in todo[p]
  /\ todo' = [todo EXCEPT ![p] = @ \ {w}]
  /\ IF w \in disk
     THEN UNCHANGED <<blob, pruned>>
     ELSE /\ blob' = [blob EXCEPT ![p][w] = None]
          /\ pruned' = [pruned EXCEPT ![p] = TRUE]
  /\ UNCHANGED <<file, disk, pc, op, behind, moved>>

(* persist: the file is replaced by what the call makes of its own load.   *)
Persist(p, table) ==
  /\ registry' = table
  /\ behind' = {q \in Procs \ {p} : pc[q] # "idle"}
  /\ overlapped' = (overlapped \/ p \in behind)

PersistPruned(p) ==
  /\ pc[p] = "prune" /\ todo[p] = {} /\ pruned[p]
  /\ Persist(p, blob[p])
  /\ pc' = [pc EXCEPT ![p] = "finish"]
  /\ UNCHANGED <<disk, op, blob, todo, pruned, latest, stood, moved>>

Loaded(p) == pc[p] = "finish" \/ (pc[p] = "prune" /\ todo[p] = {} /\ ~pruned[p])

-------------------------------------------------------------------------------
(* register, release, lookup and getAll *)

(* Mutant: only the worktree's own entry is compared.                      *)
InUseByItself(p) == blob[p][op[p].w] = op[p].port

InUse(p) == \E other \in Worktrees \ {op[p].w} : blob[p][other] = op[p].port

Register(p) ==
  LET w == op[p].w IN
  /\ Loaded(p) /\ op[p].kind = "register"
  /\ ~InUse(p)
  /\ Persist(p, [blob[p] EXCEPT ![w] = op[p].port])
  /\ latest' = [latest EXCEPT ![w] = op[p].port]
  /\ stood' = IF w \in disk THEN stood \union {w} ELSE stood \ {w}
  /\ End(p)

(* PortInUse                                                               *)
Refuse(p) ==
  /\ Loaded(p) /\ op[p].kind = "register"
  /\ InUse(p)
  /\ End(p)
  /\ behind' = behind \ {p}
  /\ UNCHANGED file

(* Mutant: the file is written even if there was nothing to release.       *)
ReleaseAlways(p) ==
  LET w == op[p].w IN
  /\ Loaded(p) /\ op[p].kind = "release"
  /\ Persist(p, [blob[p] EXCEPT ![w] = None])
  /\ latest' = [latest EXCEPT ![w] = None]
  /\ UNCHANGED stood
  /\ End(p)

(* What is not there is not written away.                                  *)
Release(p) ==
  LET w == op[p].w IN
  /\ Loaded(p) /\ op[p].kind = "release"
  /\ \/ /\ blob[p][w] # None
        /\ Persist(p, [blob[p] EXCEPT ![w] = None])
        /\ latest' = [latest EXCEPT ![w] = None]
        /\ UNCHANGED stood
     \/ /\ blob[p][w] = None
        /\ behind' = behind \ {p}
        /\ UNCHANGED file
  /\ End(p)

Lookup(p) ==
  /\ Loaded(p) /\ op[p].kind = "lookup"
  /\ End(p)
  /\ behind' = behind \ {p}
  /\ UNCHANGED file

-------------------------------------------------------------------------------
Next ==
  \/ \E w \in Worktrees : CreateWorktree(w) \/ RemoveWorktree(w)
  \/ \E p \in Procs :
       \/ \E o \in Ops : Load(p, o)
       \/ \E w \in Worktrees : Probe(p, w)
       \/ PersistPruned(p)
       \/ Register(p) \/ Refuse(p) \/ Release(p) \/ Lookup(p)
       \/ Abandon(p)

Spec == Init /\ [][Next]_vars

-------------------------------------------------------------------------------
(* Properties *)

(* No file that any interleaving of calls leaves behind gives one port to  *)
(* two worktrees: not even a call that writes over what it has not read.   *)
PortsUnique ==
  \A v, w \in Worktrees : registry[v] = registry[w] /\ registry[v] # None => v = w

(* Unless such a call has been, the file says of each worktree what the    *)
(* last register or release for it did; a missing entry is that of a       *)
(* worktree that has been away since.  A prune takes nothing else, and     *)
(* brings nothing back.                                                    *)
LatestInFile ==
  overlapped \/ \A w \in Worktrees :
                  registry[w] = latest[w] \/ (registry[w] = None /\ w \notin stood)

(* A worktree that is gone cannot keep its port from others: what a call   *)
(* decides on are entries of worktrees that exist, or came or went since   *)
(* its load.                                                               *)
GoneHoldNothing ==
  \A p \in Procs : Loaded(p) => Entries(blob[p]) \subseteq disk \union moved[p]

(* PortBook with its table read off the file: until a write overtakes them *)
(* the loads, prunes and writes of any number of calls amount to a registry*)
(* whose every call is one step, that goes by what the registry says at the*)
(* step; an overtaken call is the only exception.                          *)
Book ==
  INSTANCE PortBook WITH
    Calls <- Procs,
    table <- registry,
    open  <- {p \in Procs : pc[p] # "idle"},
    late  <- behind

KeepsTheBook == Book!Spec

(* "So two live worktrees can never collide on one host port" (the comment *)
(* of PortRegistry).                                                       *)
PortsNeverCollide ==
  \A v, w \in stood : latest[v] = latest[w] /\ latest[v] # None => v = w
===============================================================================
