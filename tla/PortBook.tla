------------------------------- MODULE PortBook -------------------------------
(***************************************************************************)
(* What the registry of host ports promises to its callers, with no file,  *)
(* no load and no prune: a table that each call changes in one step, from  *)
(* what the table says at that step.  PortRegistry implements it.  The     *)
(* promise has one exception, and says whom it befalls: a call that was    *)
(* open while another one wrote is late, and may put an older table back.  *)
(* Even then no port is two worktrees'.                                    *)
(***************************************************************************)
CONSTANTS Calls, Worktrees, Ports, None

VARIABLES
  table,        (* the port of each worktree, or None                      *)
  stood,        (* the worktrees that have not left since they got theirs  *)
  open,         (* the calls under way                                     *)
  late          (* those of them that began before the last write          *)

vars == <<table, stood, open, late>>

Tables == [Worktrees -> Ports \union {None}]
OneEach(t) == \A v, w \in Worktrees : t[v] = t[w] /\ t[v] # None => v = w

Init ==
  /\ table = [w \in Worktrees |-> None]
  /\ stood = {}
  /\ open = {}
  /\ late = {}

Begin(c) ==
  /\ c \notin open
  /\ open' = open \union {c}
  /\ UNCHANGED <<table, stood, late>>

(* A call that has nothing to write, is refused or comes to grief.         *)
Return(c) ==
  /\ c \in open
  /\ open' = open \ {c}
  /\ late' = late \ {c}
  /\ UNCHANGED <<table, stood>>

Leave(w) ==
  /\ stood' = stood \ {w}
  /\ UNCHANGED <<table, open, late>>

(* Whoever is open when a call writes has read what is now out of date.    *)
Writes(c) ==
  /\ c \in open
  /\ late' = open \ {c}

HandOut(c, w, port) ==
  /\ c \notin late
  /\ \A other \in Worktrees \ {w} : table[other] # port
  /\ table' = [table EXCEPT ![w] = port]
  /\ stood' \in {stood \union {w}, stood \ {w}}
  /\ Writes(c)
  /\ open' = open \ {c}

TakeBack(c, w) ==
  /\ c \notin late
  /\ table[w] # None
  /\ table' = [table EXCEPT ![w] = None]
  /\ Writes(c)
  /\ open' = open \ {c}
  /\ UNCHANGED stood

(* What a call drops before it does its own work has left.                 *)
Drop(c) ==
  /\ c \notin late
  /\ \E gone \in SUBSET (Worktrees \ stood) :
       table' = [w \in Worktrees |-> IF w \in gone THEN None ELSE table[w]]
  /\ Writes(c)
  /\ UNCHANGED <<stood, open>>

Overwrite(c) ==
  /\ c \in late
  /\ table' \in Tables /\ OneEach(table')
  /\ \/ open' = open /\ stood' = stood
     \/ open' = open \ {c} /\ \E w \in Worktrees : stood' \in {stood, stood \union {w}, stood \ {w}}
  /\ Writes(c)

Next ==
  \/ \E w \in Worktrees : Leave(w)
  \/ \E c \in Calls :
       \/ Begin(c) \/ Return(c) \/ Drop(c) \/ Overwrite(c)
       \/ \E w \in Worktrees : TakeBack(c, w) \/ \E port \in Ports : HandOut(c, w, port)

Spec == Init /\ [][Next]_vars
===============================================================================
