--------------------------- MODULE MCContractRelock ----------------------------
(* Instances of ContractRelock for TLC. *)
EXTENDS ContractRelock, TLC

(* The calls are interchangeable.  Used where no liveness is checked.      *)
Interchangeable == Permutations(Calls)
===============================================================================
