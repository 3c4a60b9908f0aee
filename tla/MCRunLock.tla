------------------------------- MODULE MCRunLock -------------------------------
(* Instances of RunLock for TLC. *)
EXTENDS RunLock, TLC

(* Servers, sessions and runs are interchangeable.  Used in the runs that  *)
(* check no liveness.                                                      *)
Interchangeable ==
  Permutations(Servers) \union Permutations(Sessions) \union Permutations(RunIds)
===============================================================================
