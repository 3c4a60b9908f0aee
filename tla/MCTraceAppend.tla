----------------------------- MODULE MCTraceAppend -----------------------------
(* Instances of TraceAppend for TLC. *)
EXTENDS TraceAppend, TLC

(* The processes are interchangeable.  Used where no liveness is checked.  *)
Interchangeable == Permutations(Procs)
===============================================================================
