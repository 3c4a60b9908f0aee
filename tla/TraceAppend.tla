------------------------------ MODULE TraceAppend ------------------------------
(***************************************************************************)
(* The event log of one run: the files events/<sequence>.json and their    *)
(* derived cache index.json in the run's trace directory.                  *)
(*   - appendTraceEvent (src/trace/append.ts) claims the next free         *)
(*     sequence number by exclusive creation of its file;                  *)
(*   - emitTraceEvent (src/trace/emit.ts) turns a failed append into a     *)
(*     counted drop, after one more try for an agentAttempt;               *)
(*   - reconcileIndex (src/trace/reconcile.ts) recounts the log.           *)
(*                                                                         *)
(* A process runs one call at a time, to the end.  Several processes may   *)
(* write the trace of a run (a recovered run has a new config server, and  *)
(* the old one may be alive), so every access to the disk is a step.  Any  *)
(* of them may fail, and a process may be killed between any two; it then  *)
(* starts anew under the same name, with an empty memory.                  *)
(***************************************************************************)
EXTENDS Naturals, FiniteSets

CONSTANTS
  Procs,        (* processes that write the trace                          *)
  Unknown,      (* no floor for this trace in the memory of a process      *)
  RetryLimit,   (* APPEND_RETRY_LIMIT, 64 in the code                      *)
  MaxEmits,     (* bound: emits begun, by all the processes                *)
  MaxFaults     (* bound: failed system calls and kills, in all            *)

ASSUME TraceConstants ==
  /\ IsFiniteSet(Procs)
  /\ Unknown \notin Nat
  /\ RetryLimit \in Nat \ {0}
  /\ MaxEmits \in Nat
  /\ MaxFaults \in Nat

VARIABLES
  events,       (* the event files, by sequence number                     *)
  index,        (* totalEvents of index.json, 0 if there is no such file   *)
  floor,        (* seqFloorByTraceRoot, in the memory of each process      *)
  dropped,      (* the droppedEmits tally, in the memory of each process   *)
  pc,           (* where each process is in its current call               *)
  local,        (* the local variables of that call                        *)
  emits,        (* emits begun                                             *)
  faults,       (* faults so far                                           *)
  (* History, read by no guard: *)
  acked,        (* the emits returned ok, with their sequence numbers      *)
  short,        (* emits whose write stored a part only, without an error  *)
  twice         (* a recount has counted an event whose own append was     *)
                (* still to count it                                       *)

disk   == <<events, index>>
memory == <<floor, dropped>>
bounds == <<emits, faults>>
ghosts == <<acked, short, twice>>
vars   == <<events, index, floor, dropped, pc, local,
            emits, faults, acked, short, twice>>

Emits == 1..MaxEmits

(* An event file: the emit it records, and whether the file is whole.  One *)
(* that is not does not parse; a new file is empty until it is written.    *)
EventFile == [emit : Emits, whole : BOOLEAN]

(* The locals of a call; before is history.                                *)
Locals == [
  emit   : 0..MaxEmits,      (* the emit it is for, 0 in a recount         *)
  again  : BOOLEAN,          (* whether a failed append is tried once more *)
  cand   : Nat,              (* the candidate sequence number              *)
  tries  : 0..(RetryLimit - 1), (* candidates found taken by this append   *)
  total  : Nat,              (* totalEvents as it was read or counted      *)
  listed : SUBSET Nat,       (* the event files that a recount has listed  *)
  before : SUBSET Nat]       (* numbers returned before the call began     *)

NoLocals == [emit |-> 0, again |-> FALSE, cand |-> 0, tries |-> 0, total |-> 0,
             listed |-> {}, before |-> {}]

Points == {"idle", "pick", "scan", "open", "write", "bump", "reindex",
           "count", "rewrite"}

Emitting == {"pick", "scan", "open", "write", "bump", "reindex"}

TypeOK ==
  /\ DOMAIN events \subseteq Nat
  /\ events \in [DOMAIN events -> EventFile]
  /\ index \in Nat
  /\ floor \in [Procs -> Nat \union {Unknown}]
  /\ dropped \in [Procs -> Nat]
  /\ pc \in [Procs -> Points]
  /\ local \in [Procs -> Locals]
  /\ emits \in 0..MaxEmits
  /\ faults \in 0..MaxFaults
  /\ acked \subseteq [emit : Emits, seq : Nat]
  /\ short \subseteq Emits
  /\ twice \in BOOLEAN

Init ==
  /\ events = [k \in {} |-> [emit |-> 1, whole |-> TRUE]]
  /\ index = 0
  /\ floor = [p \in Procs |-> Unknown]
  /\ dropped = [p \in Procs |-> 0]
  /\ pc = [p \in Procs |-> "idle"]
  /\ local = [p \in Procs |-> NoLocals]
  /\ emits = 0
  /\ faults = 0
  /\ acked = {}
  /\ short = {}
  /\ twice = FALSE

-------------------------------------------------------------------------------
(* A system call fails, or a process is killed.                            *)
Fault == faults < MaxFaults /\ faults' = faults + 1

-------------------------------------------------------------------------------
(* emitTraceEvent and appendTraceEvent *)

(* A call of the emit tool; retried tells whether it is an agentAttempt.   *)
StartEmit(p, retried) ==
  /\ pc[p] = "idle"
  /\ emits < MaxEmits
  /\ pc' = [pc EXCEPT ![p] = "pick"]
  /\ emits' = emits + 1
  /\ local' = [local EXCEPT ![p] = [NoLocals EXCEPT
                  !.emit = emits + 1, !.again = retried, !.before = {a.seq : a \in acked}]]
  /\ UNCHANGED <<disk, memory, faults, ghosts>>

Return(p) ==
  /\ pc' = [pc EXCEPT ![p] = "idle"]
  /\ local' = [local EXCEPT ![p] = NoLocals]

(* pickInitialCandidate: the floor; else the index; else, when the index   *)
(* is missing or counts nothing, a scan.                                   *)
Pick(p) ==
  /\ pc[p] = "pick"
  /\ \/ /\ floor[p] # Unknown
        /\ local' = [local EXCEPT ![p].cand = floor[p], ![p].tries = 0]
        /\ pc' = [pc EXCEPT ![p] = "open"]
     \/ /\ floor[p] = Unknown
        /\ index > 0
        /\ local' = [local EXCEPT ![p].cand = index, ![p].tries = 0]
        /\ pc' = [pc EXCEPT ![p] = "open"]
     \/ /\ floor[p] = Unknown
        /\ index = 0
        /\ pc' = [pc EXCEPT ![p] = "scan"]
        /\ UNCHANGED local
  /\ UNCHANGED <<disk, memory, bounds, ghosts>>

(* deriveSequenceFromEventsDirectory: one past the highest file name.      *)
ScanDirectory(p) ==
  /\ pc[p] = "scan"
  /\ pc' = [pc EXCEPT ![p] = "open"]
  /\ \E next \in {0} \union {top + 1 : top \in DOMAIN events} :
       /\ \A k \in DOMAIN events : k < next
       /\ next = 0 \/ next - 1 \in DOMAIN events
       /\ local' = [local EXCEPT ![p].cand = next, ![p].tries = 0]
  /\ UNCHANGED <<disk, memory, bounds, ghosts>>

(* Mutant: a drop is counted at every failed append.                       *)
ThrowCountsEachFailure(p) ==
  /\ dropped' = [dropped EXCEPT ![p] = @ + 1]
  /\ \/ /\ local[p].again
        /\ local' = [local EXCEPT ![p].again = FALSE]
        /\ pc' = [pc EXCEPT ![p] = "pick"]
     \/ ~local[p].again /\ Return(p)

(* The append throws: one more try, or a drop and the tool's return.       *)
Throw(p) ==
  \/ /\ local[p].again
     /\ local' = [local EXCEPT ![p].again = FALSE]
     /\ pc' = [pc EXCEPT ![p] = "pick"]
     /\ UNCHANGED dropped
  \/ /\ ~local[p].again
     /\ dropped' = [dropped EXCEPT ![p] = @ + 1]
     /\ Return(p)

PutFile(k, file) ==
  events' = [j \in DOMAIN events \union {k} |-> IF j = k THEN file ELSE events[j]]

(* The candidate is taken: the next one is probed, unless that was the     *)
(* last of the retries.                                                    *)
Probe(p) ==
  \/ /\ local[p].tries + 1 < RetryLimit
     /\ local' = [local EXCEPT ![p].cand = @ + 1, ![p].tries = @ + 1]
     /\ UNCHANGED <<dropped, pc>>
  \/ /\ local[p].tries + 1 = RetryLimit
     /\ Throw(p)

(* Mutant: the file is opened with 'w', which truncates one that exists.   *)
OpenInclusive(p) ==
  /\ pc[p] = "open"
  /\ \/ /\ PutFile(local[p].cand, [emit |-> local[p].emit, whole |-> FALSE])
        /\ pc' = [pc EXCEPT ![p] = "write"]
        /\ UNCHANGED <<dropped, local, faults>>
     \/ Fault /\ Throw(p) /\ UNCHANGED events
  /\ UNCHANGED <<index, floor, emits, ghosts>>

(* Mutant: the floor is raised for the attempt, not for its success.       *)
OpenRaisesFloor(p) ==
  LET k == local[p].cand IN
  /\ pc[p] = "open"
  /\ floor' = [floor EXCEPT ![p] = k + 1]
  /\ \/ /\ k \notin DOMAIN events
        /\ PutFile(k, [emit |-> local[p].emit, whole |-> FALSE])
        /\ pc' = [pc EXCEPT ![p] = "write"]
        /\ UNCHANGED <<dropped, local, faults>>
     \/ k \in DOMAIN events /\ Probe(p) /\ UNCHANGED <<events, faults>>
     \/ Fault /\ Throw(p) /\ UNCHANGED events
  /\ UNCHANGED <<index, emits, ghosts>>

(* openSync(candidate, 'wx'): the file is new, or it is there already, or  *)
(* the call fails for another reason, which is not probed.                 *)
Open(p) ==
  LET k == local[p].cand IN
  /\ pc[p] = "open"
  /\ \/ /\ k \notin DOMAIN events
        /\ PutFile(k, [emit |-> local[p].emit, whole |-> FALSE])
        /\ pc' = [pc EXCEPT ![p] = "write"]
        /\ UNCHANGED <<dropped, local, faults>>
     \/ k \in DOMAIN events /\ Probe(p) /\ UNCHANGED <<events, faults>>
     \/ Fault /\ Throw(p) /\ UNCHANGED events
  /\ UNCHANGED <<index, floor, emits, ghosts>>

(* Mutant: the error of a write or close is swallowed, as the index's is.  *)
WriteSwallows(p) ==
  LET k == local[p].cand
      e == local[p].emit
  IN
  /\ pc[p] = "write"
  /\ \E whole \in BOOLEAN :
       /\ PutFile(k, [emit |-> e, whole |-> whole])
       /\ IF whole THEN UNCHANGED faults ELSE Fault
       /\ floor' = [floor EXCEPT ![p] = k + 1]
       /\ pc' = [pc EXCEPT ![p] = "bump"]
  /\ UNCHANGED <<index, dropped, local, emits, ghosts>>

(* writeSync and closeSync.  A write that runs out of space may store a    *)
(* part and report no error (its count is not looked at), or throw; the    *)
(* close may throw after a complete write.  A throw leaves the file.       *)
Write(p) ==
  LET k == local[p].cand
      e == local[p].emit
  IN
  /\ pc[p] = "write"
  /\ \E whole \in BOOLEAN :
       /\ PutFile(k, [emit |-> e, whole |-> whole])
       /\ \/ /\ IF whole THEN UNCHANGED <<short, faults>>
                         ELSE short' = short \union {e} /\ Fault
             /\ floor' = [floor EXCEPT ![p] = k + 1]
             /\ pc' = [pc EXCEPT ![p] = "bump"]
             /\ UNCHANGED <<dropped, local>>
          \/ Fault /\ Throw(p) /\ UNCHANGED <<floor, short>>
  /\ UNCHANGED <<index, emits, acked, twice>>

(* The index is replaced by a rename, which may fail.                      *)
ReplaceIndex(n) ==
  \/ index' = n /\ UNCHANGED faults
  \/ Fault /\ UNCHANGED index

(* bestEffortIncrementIndex reads the index ...                            *)
ReadIndex(p) ==
  /\ pc[p] = "bump"
  /\ local' = [local EXCEPT ![p].total = index]
  /\ pc' = [pc EXCEPT ![p] = "reindex"]
  /\ UNCHANGED <<disk, memory, bounds, ghosts>>

(* ... and replaces it; a failure is swallowed, and the emit returns ok.   *)
BumpIndex(p) ==
  /\ pc[p] = "reindex"
  /\ ReplaceIndex(local[p].total + 1)
  /\ acked' = acked \union {[emit |-> local[p].emit, seq |-> local[p].cand]}
  /\ Return(p)
  /\ UNCHANGED <<events, memory, emits, short, twice>>

-------------------------------------------------------------------------------
(* reconcileIndex *)

(* listEventFiles.                                                         *)
ListEvents(p) ==
  /\ pc[p] = "idle"
  /\ local' = [local EXCEPT ![p].listed = DOMAIN events]
  /\ pc' = [pc EXCEPT ![p] = "count"]
  /\ UNCHANGED <<disk, memory, bounds, ghosts>>

Readable(p) == {k \in local[p].listed : events[k].whole}

(* scanEvents reads the listed files one after the other and counts those  *)
(* that parse.  Reading them at one moment finds every count that reading  *)
(* them one by one can: the number of whole files among them only grows,   *)
(* by one at a time, until it is the count.                                *)
CountEvents(p) ==
  /\ pc[p] = "count"
  /\ local' = [local EXCEPT ![p].total = Cardinality(Readable(p)), ![p].listed = {}]
  /\ pc' = [pc EXCEPT ![p] = "rewrite"]
  /\ twice' = (twice \/ \E q \in Procs : pc[q] = "bump" /\ local[q].cand \in Readable(p))
  /\ UNCHANGED <<disk, memory, bounds, acked, short>>

(* writeIndex; a failure is the tool's error.                              *)
RewriteIndex(p) ==
  /\ pc[p] = "rewrite"
  /\ ReplaceIndex(local[p].total)
  /\ Return(p)
  /\ UNCHANGED <<events, memory, emits, ghosts>>

(* The process is killed and another one started in its place.             *)
Kill(p) ==
  /\ Fault
  /\ Return(p)
  /\ floor' = [floor EXCEPT ![p] = Unknown]
  /\ dropped' = [dropped EXCEPT ![p] = 0]
  /\ UNCHANGED <<disk, emits, acked, short, twice>>

-------------------------------------------------------------------------------
ProcStep(p) ==
  \/ Pick(p) \/ ScanDirectory(p) \/ Open(p) \/ Write(p)
  \/ ReadIndex(p) \/ BumpIndex(p)
  \/ CountEvents(p) \/ RewriteIndex(p)

Next ==
  \E p \in Procs :
    \/ \E retried \in BOOLEAN : StartEmit(p, retried)
    \/ ListEvents(p)
    \/ ProcStep(p)
    \/ Kill(p)

Spec == Init /\ [][Next]_vars

-------------------------------------------------------------------------------
(* Properties *)

(* An append that returned ok owns its sequence number for ever: no other  *)
(* append, of a process with an old floor or an old index, has taken the   *)
(* file over, and it is whole unless the kernel stored a part of it.       *)
AckedKeepsItsSlot ==
  \A a \in acked :
    /\ a.seq \in DOMAIN events
    /\ events[a.seq].emit = a.emit
    /\ events[a.seq].whole \/ a.emit \in short

(* The comment of pickInitialCandidate: a floor ahead of the disk is       *)
(* structurally impossible.  The number below every floor is on disk.      *)
FloorBehindDisk ==
  \A p \in Procs : floor[p] # Unknown => floor[p] > 0 /\ floor[p] - 1 \in DOMAIN events

(* Whatever fails, is killed or races, the candidates derived from floors, *)
(* indexes and scans leave no number out, unless a recount has met an      *)
(* append halfway: the one way for the index to run ahead of the log.      *)
GaplessFiles ==
  twice \/ \A k \in DOMAIN events : \A j \in 0..k : j \in DOMAIN events

(* And the numbers are in the order of the calls: an append takes a number *)
(* above all those returned before it began, those of other processes too. *)
EventOrder ==
  twice \/ \A p \in Procs : pc[p] \in {"write", "bump", "reindex"} =>
             \A k \in local[p].before : k < local[p].cand

(* droppedEmits counts just the emits that come to nothing: an emit that   *)
(* ends is returned ok, or is counted as dropped, once and at its end, or  *)
(* its process is killed, and the tally with it.                           *)
EmitsAccounted ==
  [][\A p \in Procs :
       LET ended  == pc[p] \in Emitting /\ pc'[p] = "idle"
           acks   == {a \in acked' \ acked : a.emit = local[p].emit}
           killed == floor'[p] = Unknown /\ dropped'[p] = 0
       IN  /\ dropped'[p] > dropped[p] => ended /\ acks = {}
           /\ ended => \/ dropped'[p] = dropped[p] + 1
                       \/ acks # {}
                       \/ killed]_vars

(* EventLog with its entries read off the files: the picks, probes, writes *)
(* and index updates of any number of processes amount to one log to which *)
(* events are appended at the end, and that keeps what it has acknowledged.*)
Log ==
  INSTANCE EventLog WITH
    log   <- events,
    open  <- {local[p].emit : p \in {q \in Procs : pc[q] \in Emitting}},
    torn  <- short,
    raced <- twice

KeepsTheLog == Log!Spec
===============================================================================
