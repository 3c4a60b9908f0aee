---------------------------- MODULE RepositoryLock ----------------------------
(***************************************************************************)
(* What run.lock promises to the sessions of a repository, with no file, no*)
(* pid and no system call: one lock, which is taken when it is free, stays *)
(* with its session while that session runs, and is freed afterwards.      *)
(* RunLock implements it.  The promise has one exception, and names whom it*)
(* befalls: a session from which the lock is taken by a call that meant    *)
(* another lock.                                                           *)
(***************************************************************************)
CONSTANTS Sessions, None

VARIABLES
  holder,       (* the session that has the lock, or None                  *)
  active,       (* the sessions that run on the strength of it             *)
  evicted       (* those whose lock was taken by mistake                   *)

vars == <<holder, active, evicted>>

Init ==
  /\ holder = None
  /\ active = {}
  /\ evicted = {}

(* A session that has stopped listening gets the lock and does not run.    *)
Acquire(s) ==
  /\ holder = None
  /\ holder' = s
  /\ active' \in {active, active \union {s}}
  /\ UNCHANGED evicted

(* Sessions stop running; the lock stays until it is freed.                *)
Leave ==
  /\ active' \in SUBSET active
  /\ UNCHANGED <<holder, evicted>>

(* The lock of a session that does not run is freed, by whomever.          *)
Free ==
  /\ holder \notin active
  /\ holder' = None
  /\ UNCHANGED <<active, evicted>>

Evict ==
  /\ holder # None
  /\ holder' = None
  /\ evicted' = evicted \union {holder}
  /\ UNCHANGED active

Next == Leave \/ Free \/ Evict \/ \E s \in Sessions : Acquire(s)

Spec == Init /\ [][Next]_vars
===============================================================================
