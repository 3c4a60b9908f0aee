------------------------------- MODULE EventLog -------------------------------
(***************************************************************************)
(* What the trace of a run promises to those who emit into it, with no     *)
(* directory, no floor and no index: a log that only grows, in which an    *)
(* event that is acknowledged has its entry, at the end of the log when it *)
(* was made, and nobody else ever has that entry.  TraceAppend implements  *)
(* it.  The promise has two exceptions: an event of which the kernel stored*)
(* a part without an error is torn, and once a recount has met an append   *)
(* halfway, new entries may leave numbers out.                             *)
(***************************************************************************)
EXTENDS Naturals

CONSTANT Emits

VARIABLES
  log,          (* [emit, whole] by number: whose event, and if all of it  *)
  open,         (* the emits under way                                     *)
  acked,        (* [emit, seq]: the events acknowledged, with their numbers*)
  torn,         (* the events stored in part, without an error             *)
  raced         (* a recount has met an append halfway                     *)

vars == <<log, open, acked, torn, raced>>

Init ==
  /\ DOMAIN log = {}
  /\ open = {}
  /\ acked = {}
  /\ torn = {}
  /\ raced = FALSE

(* An emit is new: nothing in the log is its, and nothing was acknowledged.*)
Begin(e) ==
  /\ e \notin open
  /\ \A k \in DOMAIN log : log[k].emit # e
  /\ \A a \in acked : a.emit # e
  /\ open' = open \union {e}
  /\ UNCHANGED <<log, acked, torn, raced>>

(* An entry is made, empty, at the end: the log is numbered from 0 on.     *)
Claim(e) ==
  /\ e \in open
  /\ \E k \in DOMAIN log' \ DOMAIN log :
       /\ k \in Nat
       /\ raced \/ DOMAIN log = 0..(k - 1)
       /\ log' = [j \in DOMAIN log \union {k} |->
                    IF j = k THEN [emit |-> e, whole |-> FALSE] ELSE log[j]]
  /\ UNCHANGED <<open, acked, torn, raced>>

(* Its event is stored: for good, and in no entry but its own.  The emit   *)
(* may fail all the same.                                                  *)
Fill(e) ==
  /\ e \in open
  /\ \E k \in DOMAIN log :
       /\ log[k] = [emit |-> e, whole |-> FALSE]
       /\ log' = [j \in DOMAIN log |->
                    IF j = k THEN [emit |-> e, whole |-> TRUE] ELSE log[j]]
  /\ open' \in {open, open \ {e}}
  /\ UNCHANGED <<acked, torn, raced>>

Tear(e) ==
  /\ e \in open
  /\ torn' = torn \union {e}
  /\ UNCHANGED <<log, open, acked, raced>>

Acknowledge(e) ==
  /\ e \in open
  /\ \E k \in DOMAIN log :
       /\ log[k].emit = e
       /\ log[k].whole \/ e \in torn
       /\ acked' = acked \union {[emit |-> e, seq |-> k]}
  /\ open' = open \ {e}
  /\ UNCHANGED <<log, torn, raced>>

(* An emit is dropped, or its process is killed.                           *)
Lose(e) ==
  /\ e \in open
  /\ open' = open \ {e}
  /\ UNCHANGED <<log, acked, torn, raced>>

Race ==
  /\ raced' = TRUE
  /\ UNCHANGED <<log, open, acked, torn>>

Next ==
  \/ Race
  \/ \E e \in Emits :
       Begin(e) \/ Claim(e) \/ Fill(e) \/ Tear(e) \/ Acknowledge(e) \/ Lose(e)

Spec == Init /\ [][Next]_vars
===============================================================================
