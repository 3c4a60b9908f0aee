---------------------------- MODULE MCPortRegistry -----------------------------
(* Two config servers, worktrees and ports that nothing tells apart.       *)
EXTENDS PortRegistry, TLC

Interchangeable ==
  Permutations(Procs) \union Permutations(Worktrees) \union Permutations(Ports)

(* Once a call has written over what it had not read, no checked property  *)
(* reads what the calls have told each worktree, and no guard ever does.   *)
Distinguished ==
  <<registry, disk, pc, op, blob, todo, pruned, stood, behind, moved, overlapped,
    IF overlapped THEN <<>> ELSE latest>>
===============================================================================
