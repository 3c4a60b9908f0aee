--------------------------- MODULE TraceAppendProofs ---------------------------
(***************************************************************************)
(* Proofs about TraceAppend, for any number of processes, retries, emits   *)
(* and faults.                                                             *)
(*                                                                         *)
(* That acknowledged events stay rests on the ownership of emits and of    *)
(* slots.  That the numbers have no gap is a count: the index, with the    *)
(* appends that have made a file and not yet read the index, never exceeds *)
(* the number of files.                                                    *)
(***************************************************************************)
EXTENDS TraceAppend, FiniteSetTheorems, TLAPS

Writing == {"write", "bump", "reindex"}

(* Each emit is in the hands of one call, until it has returned.           *)
EmitsAreOwned ==
  /\ \A p \in Procs : pc[p] \in Emitting => local[p].emit \in 1..emits
  /\ \A p, q \in Procs :
       pc[p] \in Emitting /\ pc[q] \in Emitting /\ local[p].emit = local[q].emit => p = q
  /\ \A a \in acked :
       a.emit <= emits /\ \A p \in Procs : pc[p] \in Emitting => local[p].emit # a.emit

(* A call that has made an event file finds its own emit in it.            *)
SlotsAreOwned ==
  \A p \in Procs : pc[p] \in Writing =>
    /\ local[p].cand \in DOMAIN events
    /\ events[local[p].cand].emit = local[p].emit
    /\ IF pc[p] = "write" THEN ~events[local[p].cand].whole
       ELSE events[local[p].cand].whole \/ local[p].emit \in short

(* What a call remembers of the log is on disk.                            *)
MemoryOnDisk ==
  \A p \in Procs : local[p].before \subseteq DOMAIN events /\ local[p].listed \subseteq DOMAIN events

(* No file has an emit that is yet to begin.                               *)
FilesAreBegun == \A k \in DOMAIN events : events[k].emit <= emits

Top == Cardinality(DOMAIN events)

(* The appends that have a file and have not yet read the index.           *)
Uncounted == {p \in Procs : pc[p] \in {"write", "bump"}}

(* GaplessFiles, with the count that keeps every candidate at or below the *)
(* number of files.                                                        *)
Counted ==
  /\ DOMAIN events = 0..(Top - 1)
  /\ index + Cardinality(Uncounted) <= Top
  /\ \A p \in Procs :
       /\ pc[p] = "open" => local[p].cand <= Top
       /\ pc[p] = "reindex" => local[p].total + 1 + Cardinality(Uncounted) <= Top
       /\ pc[p] = "rewrite" => local[p].total + Cardinality(Uncounted) <= Top

IInv ==
  /\ TypeOK
  /\ EmitsAreOwned
  /\ SlotsAreOwned
  /\ MemoryOnDisk
  /\ AckedKeepsItsSlot
  /\ FloorBehindDisk
  /\ IsFiniteSet(DOMAIN events)
  /\ twice \/ Counted
  /\ EventOrder
  /\ FilesAreBegun

-------------------------------------------------------------------------------
(* The types of what the parts of an append leave behind.                  *)
LEMMA PutFileTypes ==
  ASSUME TypeOK, NEW k \in Nat, NEW file \in EventFile, PutFile(k, file)
  PROVE  /\ DOMAIN events' = DOMAIN events \union {k}
         /\ DOMAIN events' \subseteq Nat
         /\ events' \in [DOMAIN events' -> EventFile]
BY DEF TypeOK, PutFile

LEMMA ReturnTypes ==
  ASSUME TypeOK, NEW p \in Procs, Return(p)
  PROVE  pc' \in [Procs -> Points] /\ local' \in [Procs -> Locals]
<1>1. NoLocals \in Locals
  BY TraceConstants DEF NoLocals, Locals
<1>2. QED
  BY <1>1, Zenon DEF TypeOK, Return, Points

LEMMA ThrowTypes ==
  ASSUME TypeOK, NEW p \in Procs, Throw(p)
  PROVE  pc' \in [Procs -> Points] /\ local' \in [Procs -> Locals] /\ dropped' \in [Procs -> Nat]
<1>1. CASE /\ local' = [local EXCEPT ![p].again = FALSE]
           /\ pc' = [pc EXCEPT ![p] = "pick"]
           /\ UNCHANGED dropped
  <2>1. local' \in [Procs -> Locals]
    BY <1>1 DEF TypeOK, Locals
  <2>2. QED
    BY <1>1, <2>1 DEF TypeOK, Points
<1>2. CASE dropped' = [dropped EXCEPT ![p] = @ + 1] /\ Return(p)
  BY <1>2, ReturnTypes DEF TypeOK
<1>3. QED
  BY <1>1, <1>2 DEF Throw

LEMMA ProbeTypes ==
  ASSUME TypeOK, NEW p \in Procs, Probe(p)
  PROVE  pc' \in [Procs -> Points] /\ local' \in [Procs -> Locals] /\ dropped' \in [Procs -> Nat]
<1>1. CASE /\ local[p].tries + 1 < RetryLimit
           /\ local' = [local EXCEPT ![p].cand = @ + 1, ![p].tries = @ + 1]
           /\ UNCHANGED <<dropped, pc>>
  <2>1. local[p] \in Locals /\ local[p].cand + 1 \in Nat /\ local[p].tries + 1 \in 0..(RetryLimit - 1)
    BY <1>1, TraceConstants DEF TypeOK, Locals
  <2>2. [local[p] EXCEPT !.cand = @ + 1, !.tries = @ + 1] \in Locals
    BY <2>1 DEF Locals
  <2>3. local' \in [Procs -> Locals]
    BY <1>1, <2>2 DEF TypeOK
  <2>4. QED
    BY <1>1, <2>3 DEF TypeOK
<1>2. QED
  BY <1>1, ThrowTypes DEF Probe

LEMMA CandTypes ==
  ASSUME TypeOK, NEW p \in Procs, NEW next \in Nat,
         local' = [local EXCEPT ![p].cand = next, ![p].tries = 0]
  PROVE  local' \in [Procs -> Locals]
<1>1. local[p] \in Locals /\ 0 \in 0..(RetryLimit - 1)
  BY TraceConstants DEF TypeOK
<1>2. [local[p] EXCEPT !.cand = next, !.tries = 0] \in Locals
  BY <1>1 DEF Locals
<1>3. QED
  BY <1>2 DEF TypeOK

(* Every step keeps the types.                                            *)
LEMMA TypeStep == IInv /\ [Next]_vars => TypeOK'
<1> SUFFICES ASSUME IInv, [Next]_vars PROVE TypeOK'
  OBVIOUS
<1> USE TraceConstants DEF IInv, TypeOK, Points
<1>1. ASSUME NEW p \in Procs, NEW retried \in BOOLEAN, StartEmit(p, retried)
      PROVE  TypeOK'
  <2>1. emits' \in Emits /\ emits' \in 0..MaxEmits /\ {a.seq : a \in acked} \subseteq Nat
    BY <1>1 DEF StartEmit, Emits
  <2>2. [NoLocals EXCEPT !.emit = emits + 1, !.again = retried, !.before = {a.seq : a \in acked}] \in Locals
    <3>1. NoLocals \in Locals
      BY DEF NoLocals, Locals
    <3>2. QED
      BY <1>1, <2>1, <3>1 DEF StartEmit, Locals
  <2>3. local' \in [Procs -> Locals]
    BY <1>1, <2>2 DEF StartEmit
  <2>4. QED
    BY <1>1, <2>1, <2>3 DEF StartEmit, disk, memory, ghosts
<1>2. ASSUME NEW p \in Procs, ListEvents(p)
      PROVE  TypeOK'
  <2>1. local' \in [Procs -> Locals]
    BY <1>2 DEF ListEvents, Locals
  <2>2. QED
    BY <1>2, <2>1 DEF ListEvents, disk, memory, bounds, ghosts
<1>3. ASSUME NEW p \in Procs, Pick(p)
      PROVE  TypeOK'
  <2>1. floor[p] # Unknown => floor[p] \in Nat
    OBVIOUS
  <2>2. local' \in [Procs -> Locals]
    BY <1>3, <2>1, CandTypes DEF Pick
  <2>3. pc' \in [Procs -> Points]
    BY <1>3 DEF Pick
  <2>4. QED
    BY <1>3, <2>2, <2>3 DEF Pick, disk, memory, bounds, ghosts
<1>4. ASSUME NEW p \in Procs, ScanDirectory(p)
      PROVE  TypeOK'
  <2>1. {0} \union {top + 1 : top \in DOMAIN events} \subseteq Nat
    OBVIOUS
  <2>2. local' \in [Procs -> Locals]
    BY <1>4, <2>1, CandTypes DEF ScanDirectory
  <2>3. QED
    BY <1>4, <2>2 DEF ScanDirectory, disk, memory, bounds, ghosts
<1>5. ASSUME NEW p \in Procs, Open(p)
      PROVE  TypeOK'
  <2>1. local[p].cand \in Nat /\ [emit |-> local[p].emit, whole |-> FALSE] \in EventFile
    BY <1>5 DEF Open, EmitsAreOwned, Emitting, Locals, EventFile, Emits
  <2>2. /\ DOMAIN events' \subseteq Nat
        /\ events' \in [DOMAIN events' -> EventFile]
    BY <1>5, <2>1, PutFileTypes DEF Open
  <2>3. pc' \in [Procs -> Points] /\ local' \in [Procs -> Locals] /\ dropped' \in [Procs -> Nat]
    BY <1>5, ThrowTypes, ProbeTypes DEF Open
  <2>4. faults' \in 0..MaxFaults
    BY <1>5 DEF Open, Fault
  <2>5. QED
    BY <1>5, <2>2, <2>3, <2>4 DEF Open, ghosts
<1>6. ASSUME NEW p \in Procs, Write(p)
      PROVE  TypeOK'
  <2>1. /\ local[p].cand \in Nat /\ local[p].emit \in Emits
        /\ \A whole \in BOOLEAN : [emit |-> local[p].emit, whole |-> whole] \in EventFile
    BY <1>6 DEF Write, EmitsAreOwned, Emitting, Locals, EventFile, Emits
  <2>2. /\ DOMAIN events' \subseteq Nat
        /\ events' \in [DOMAIN events' -> EventFile]
    BY <1>6, <2>1, PutFileTypes DEF Write
  <2>3. pc' \in [Procs -> Points] /\ local' \in [Procs -> Locals] /\ dropped' \in [Procs -> Nat]
    BY <1>6, ThrowTypes DEF Write
  <2>4. faults' \in 0..MaxFaults /\ short' \subseteq Emits
    BY <1>6, <2>1 DEF Write, Fault
  <2>5. floor' \in [Procs -> Nat \union {Unknown}]
    BY <1>6, <2>1 DEF Write
  <2>6. QED
    BY <1>6, <2>2, <2>3, <2>4, <2>5 DEF Write
<1>7. ASSUME NEW p \in Procs, ReadIndex(p)
      PROVE  TypeOK'
  <2>1. local' \in [Procs -> Locals]
    BY <1>7 DEF ReadIndex, Locals
  <2>2. QED
    BY <1>7, <2>1 DEF ReadIndex, disk, memory, bounds, ghosts
<1>8. ASSUME NEW p \in Procs, BumpIndex(p)
      PROVE  TypeOK'
  <2>1. local[p].cand \in Nat /\ local[p].emit \in Emits /\ local[p].total + 1 \in Nat
    BY <1>8 DEF BumpIndex, EmitsAreOwned, Emitting, Locals, Emits
  <2>2. index' \in Nat /\ faults' \in 0..MaxFaults
    BY <1>8, <2>1 DEF BumpIndex, ReplaceIndex, Fault
  <2>3. acked' \subseteq [emit : Emits, seq : Nat]
    BY <1>8, <2>1 DEF BumpIndex
  <2>4. QED
    BY <1>8, <2>2, <2>3, ReturnTypes DEF BumpIndex, memory
<1>9. ASSUME NEW p \in Procs, CountEvents(p)
      PROVE  TypeOK'
  <2>1. local[p].listed \subseteq DOMAIN events /\ Readable(p) \subseteq DOMAIN events
    BY DEF MemoryOnDisk, Readable
  <2>2. Cardinality(Readable(p)) \in Nat
    BY <2>1, FS_Subset, FS_CardinalityType
  <2>3. local' \in [Procs -> Locals]
    <3>1. local[p] \in Locals
      OBVIOUS
    <3>2. [local[p] EXCEPT !.total = Cardinality(Readable(p)), !.listed = {}] \in Locals
      BY <2>2, <3>1 DEF Locals
    <3>3. QED
      BY <1>9, <3>2 DEF CountEvents
  <2>4. pc' \in [Procs -> Points] /\ twice' \in BOOLEAN
    BY <1>9 DEF CountEvents
  <2>5. QED
    BY <1>9, <2>3, <2>4 DEF CountEvents, disk, memory, bounds
<1>10. ASSUME NEW p \in Procs, RewriteIndex(p)
       PROVE  TypeOK'
  <2>1. index' \in Nat /\ faults' \in 0..MaxFaults
    BY <1>10 DEF RewriteIndex, ReplaceIndex, Fault, Locals
  <2>2. QED
    BY <1>10, <2>1, ReturnTypes DEF RewriteIndex, memory, ghosts
<1>11. ASSUME NEW p \in Procs, Kill(p)
       PROVE  TypeOK'
  <2>1. QED
    BY <1>11, ReturnTypes DEF Kill, Fault, disk
<1>12. CASE UNCHANGED vars
  BY <1>12 DEF vars
<1>13. QED
  BY <1>1, <1>2, <1>3, <1>4, <1>5, <1>6, <1>7, <1>8, <1>9,
     <1>10, <1>11, <1>12 DEF Next, ProcStep

(* A step of a process leaves the calls of the others alone.               *)
LEMMA OthersStay ==
  ASSUME TypeOK, NEW p \in Procs,
         ProcStep(p) \/ ListEvents(p) \/ Kill(p) \/ \E retried \in BOOLEAN : StartEmit(p, retried)
  PROVE  \A q \in Procs \ {p} : pc'[q] = pc[q] /\ local'[q] = local[q]
<1> USE DEF TypeOK
<1>1. CASE Pick(p) \/ ScanDirectory(p) \/ ReadIndex(p) \/ CountEvents(p) \/ ListEvents(p)
  BY <1>1 DEF Pick, ScanDirectory, ReadIndex, CountEvents, ListEvents
<1>2. CASE BumpIndex(p) \/ RewriteIndex(p) \/ Kill(p)
  BY <1>2 DEF BumpIndex, RewriteIndex, Kill, Return
<1>3. CASE Open(p) \/ Write(p)
  BY <1>3 DEF Open, Write, Probe, Throw, Return
<1>4. CASE \E retried \in BOOLEAN : StartEmit(p, retried)
  BY <1>4 DEF StartEmit
<1>5. QED
  BY <1>1, <1>2, <1>3, <1>4 DEF ProcStep

(* The same call, with the same emit and the same memory.                  *)
SameCall(p) ==
  /\ local'[p].emit = local[p].emit
  /\ local'[p].before = local[p].before
  /\ local'[p].listed = local[p].listed

Ended(p) == pc'[p] = "idle" /\ local'[p] = NoLocals

LEMMA ThrowEffect ==
  ASSUME TypeOK, NEW p \in Procs, Throw(p)
  PROVE  (pc'[p] = "pick" /\ SameCall(p)) \/ Ended(p)
<1>1. CASE /\ local' = [local EXCEPT ![p].again = FALSE]
           /\ pc' = [pc EXCEPT ![p] = "pick"]
  <2>1. local[p] \in Locals /\ local'[p] = [local[p] EXCEPT !.again = FALSE] /\ pc'[p] = "pick"
    BY <1>1 DEF TypeOK
  <2>2. QED
    BY <2>1 DEF Locals, SameCall
<1>2. CASE Return(p)
  BY <1>2 DEF Return, Ended, TypeOK
<1>3. QED
  BY <1>1, <1>2 DEF Throw

LEMMA ProbeEffect ==
  ASSUME TypeOK, NEW p \in Procs, Probe(p)
  PROVE  \/ /\ pc'[p] = pc[p]
            /\ SameCall(p)
            /\ local'[p].cand = local[p].cand + 1
         \/ pc'[p] = "pick" /\ SameCall(p)
         \/ Ended(p)
<1>1. CASE /\ local' = [local EXCEPT ![p].cand = @ + 1, ![p].tries = @ + 1]
           /\ pc' = pc
  <2>1. /\ local[p] \in Locals
        /\ local'[p] = [local[p] EXCEPT !.cand = @ + 1, !.tries = @ + 1]
        /\ pc'[p] = pc[p]
    BY <1>1 DEF TypeOK
  <2>2. QED
    BY <2>1 DEF Locals, SameCall
<1>2. CASE Throw(p)
  BY <1>2, ThrowEffect
<1>3. QED
  BY <1>1, <1>2 DEF Probe

LEMMA CandEffect ==
  ASSUME TypeOK, NEW p \in Procs, NEW next,
         local' = [local EXCEPT ![p].cand = next, ![p].tries = 0]
  PROVE  SameCall(p) /\ local'[p].cand = next
<1>1. local[p] \in Locals /\ local'[p] = [local[p] EXCEPT !.cand = next, !.tries = 0]
  BY DEF TypeOK
<1>2. QED
  BY <1>1 DEF Locals, SameCall

LEMMA PickEffect ==
  ASSUME TypeOK, NEW p \in Procs, Pick(p)
  PROVE  /\ pc[p] = "pick"
         /\ SameCall(p)
         /\ \/ /\ pc'[p] = "open"
               /\ \/ floor[p] # Unknown /\ local'[p].cand = floor[p]
                  \/ index > 0 /\ local'[p].cand = index
            \/ pc'[p] = "scan"
<1>1. CASE /\ local' = [local EXCEPT ![p].cand = floor[p], ![p].tries = 0]
           /\ floor[p] # Unknown
           /\ pc' = [pc EXCEPT ![p] = "open"]
  BY <1>1, CandEffect DEF Pick, TypeOK
<1>2. CASE /\ local' = [local EXCEPT ![p].cand = index, ![p].tries = 0]
           /\ index > 0
           /\ pc' = [pc EXCEPT ![p] = "open"]
  BY <1>2, CandEffect DEF Pick, TypeOK
<1>3. CASE pc' = [pc EXCEPT ![p] = "scan"] /\ UNCHANGED local
  BY <1>3 DEF Pick, TypeOK, SameCall
<1>4. QED
  BY <1>1, <1>2, <1>3 DEF Pick

LEMMA ScanEffect ==
  ASSUME TypeOK, NEW p \in Procs, ScanDirectory(p)
  PROVE  /\ pc[p] = "scan" /\ pc'[p] = "open" /\ SameCall(p)
         /\ \A k \in DOMAIN events : k < local'[p].cand
         /\ local'[p].cand = 0 \/ local'[p].cand - 1 \in DOMAIN events
<1>1. PICK next \in {0} \union {top + 1 : top \in DOMAIN events} :
        /\ \A k \in DOMAIN events : k < next
        /\ next = 0 \/ next - 1 \in DOMAIN events
        /\ local' = [local EXCEPT ![p].cand = next, ![p].tries = 0]
  BY DEF ScanDirectory
<1>2. SameCall(p) /\ local'[p].cand = next
  BY <1>1, CandEffect
<1>3. QED
  BY <1>1, <1>2 DEF ScanDirectory, TypeOK

(* The file is made; or it is there, and the next one is tried; or the     *)
(* append has failed, and is tried once more or dropped.                   *)
LEMMA OpenEffect ==
  ASSUME TypeOK, NEW p \in Procs, Open(p)
  PROVE  /\ pc[p] = "open"
         /\ \/ /\ pc'[p] = "write" /\ local' = local
               /\ local[p].cand \notin DOMAIN events
               /\ PutFile(local[p].cand, [emit |-> local[p].emit, whole |-> FALSE])
            \/ /\ events' = events
               /\ \/ /\ pc'[p] = "open" /\ SameCall(p)
                     /\ local[p].cand \in DOMAIN events
                     /\ local'[p].cand = local[p].cand + 1
                  \/ pc'[p] = "pick" /\ SameCall(p)
                  \/ Ended(p)
<1>1. CASE /\ local[p].cand \notin DOMAIN events
           /\ PutFile(local[p].cand, [emit |-> local[p].emit, whole |-> FALSE])
           /\ pc' = [pc EXCEPT ![p] = "write"]
           /\ UNCHANGED <<dropped, local, faults>>
  BY <1>1 DEF Open, TypeOK
<1>2. CASE local[p].cand \in DOMAIN events /\ Probe(p) /\ UNCHANGED <<events, faults>>
  BY <1>2, ProbeEffect DEF Open
<1>3. CASE Throw(p) /\ UNCHANGED events
  BY <1>3, ThrowEffect DEF Open
<1>4. QED
  BY <1>1, <1>2, <1>3 DEF Open

(* The file is written, at least a part of it, and the floor raised; or    *)
(* the append has failed.                                                  *)
LEMMA WriteEffect ==
  ASSUME TypeOK, NEW p \in Procs, Write(p)
  PROVE  /\ pc[p] = "write"
         /\ \E whole \in BOOLEAN :
              /\ PutFile(local[p].cand, [emit |-> local[p].emit, whole |-> whole])
              /\ \/ /\ pc'[p] = "bump" /\ local' = local
                    /\ IF whole THEN short' = short ELSE short' = short \union {local[p].emit}
                    /\ floor' = [floor EXCEPT ![p] = local[p].cand + 1]
                 \/ /\ (pc'[p] = "pick" /\ SameCall(p)) \/ Ended(p)
                    /\ UNCHANGED <<floor, short>>
<1>1. PICK whole \in BOOLEAN :
        /\ PutFile(local[p].cand, [emit |-> local[p].emit, whole |-> whole])
        /\ \/ /\ IF whole THEN UNCHANGED <<short, faults>>
                          ELSE short' = short \union {local[p].emit} /\ Fault
              /\ floor' = [floor EXCEPT ![p] = local[p].cand + 1]
              /\ pc' = [pc EXCEPT ![p] = "bump"]
              /\ UNCHANGED <<dropped, local>>
           \/ Fault /\ Throw(p) /\ UNCHANGED <<floor, short>>
  BY DEF Write
<1>2. CASE /\ IF whole THEN UNCHANGED <<short, faults>>
                       ELSE short' = short \union {local[p].emit} /\ Fault
           /\ floor' = [floor EXCEPT ![p] = local[p].cand + 1]
           /\ pc' = [pc EXCEPT ![p] = "bump"]
           /\ UNCHANGED <<dropped, local>>
  <2>1. /\ pc'[p] = "bump"
        /\ IF whole THEN short' = short ELSE short' = short \union {local[p].emit}
    BY <1>2 DEF TypeOK
  <2>2. QED
    BY <1>1, <1>2, <2>1 DEF Write
<1>3. CASE Throw(p) /\ UNCHANGED <<floor, short>>
  BY <1>1, <1>3, ThrowEffect DEF Write
<1>4. QED
  BY <1>1, <1>2, <1>3

LEMMA ReadIndexEffect ==
  ASSUME TypeOK, NEW p \in Procs, ReadIndex(p)
  PROVE  /\ pc[p] = "bump" /\ pc'[p] = "reindex" /\ SameCall(p)
         /\ local'[p].cand = local[p].cand /\ local'[p].total = index
<1>1. /\ local[p] \in Locals
      /\ local'[p] = [local[p] EXCEPT !.total = index]
      /\ pc[p] = "bump" /\ pc'[p] = "reindex"
  BY DEF ReadIndex, TypeOK
<1>2. QED
  BY <1>1 DEF Locals, SameCall

(* A step of an append keeps its emit and what it remembers, or returns.   *)
LEMMA AppendGoesOn ==
  ASSUME TypeOK, NEW p \in Procs,
         Pick(p) \/ ScanDirectory(p) \/ Open(p) \/ Write(p) \/ ReadIndex(p)
  PROVE  /\ pc[p] \in Emitting
         /\ (pc'[p] \in Emitting /\ SameCall(p)) \/ Ended(p)
<1>1. CASE Pick(p)
  BY <1>1, PickEffect DEF Emitting
<1>2. CASE ScanDirectory(p)
  BY <1>2, ScanEffect DEF Emitting
<1>3. CASE Open(p)
  BY <1>3, OpenEffect DEF Emitting, SameCall
<1>4. CASE Write(p)
  BY <1>4, WriteEffect DEF Emitting, SameCall
<1>5. CASE ReadIndex(p)
  BY <1>5, ReadIndexEffect DEF Emitting
<1>6. QED
  BY <1>1, <1>2, <1>3, <1>4, <1>5

(* Every step leaves each emit in the hands of one call.                  *)
LEMMA EmitsStep == IInv /\ [Next]_vars => EmitsAreOwned'
<1> SUFFICES ASSUME IInv, [Next]_vars PROVE EmitsAreOwned'
  OBVIOUS
<1> USE TraceConstants DEF IInv, TypeOK, Points, Emitting, EmitsAreOwned
<1>1. ASSUME NEW p \in Procs, NEW retried \in BOOLEAN, StartEmit(p, retried)
      PROVE  EmitsAreOwned'
  <2>1. \A q \in Procs \ {p} : pc'[q] = pc[q] /\ local'[q] = local[q]
    BY <1>1, OthersStay DEF ProcStep
  <2>2. local'[p].emit = emits + 1 /\ emits' = emits + 1 /\ acked' = acked
    BY <1>1 DEF StartEmit, NoLocals, ghosts
  <2>3. \A q \in Procs \ {p} : pc'[q] \in Emitting => local'[q].emit \in 1..emits
    BY <2>1
  <2>4. \A q \in Procs : pc'[q] \in Emitting => local'[q].emit \in 1..emits'
    BY <2>2, <2>3
  <2>5. \A q, r \in Procs :
          pc'[q] \in Emitting /\ pc'[r] \in Emitting /\ local'[q].emit = local'[r].emit => q = r
    BY <2>1, <2>2, <2>3
  <2>6. \A a \in acked : a.emit \in 1..emits
    BY DEF Emits
  <2>7. \A a \in acked' :
          a.emit <= emits' /\ \A q \in Procs : pc'[q] \in Emitting => local'[q].emit # a.emit
    BY <2>1, <2>2, <2>6
  <2>8. QED
    BY <2>4, <2>5, <2>7
<1>2. ASSUME NEW p \in Procs, ListEvents(p)
      PROVE  EmitsAreOwned'
  <2>1. \A q \in Procs \ {p} : pc'[q] = pc[q] /\ local'[q] = local[q]
    BY <1>2, OthersStay DEF ProcStep
  <2>2. pc'[p] \notin Emitting
    BY <1>2 DEF ListEvents
  <2>3. QED
    BY <1>2, <2>1, <2>2 DEF ListEvents, bounds, ghosts
<1>3. ASSUME NEW p \in Procs, Pick(p)
      PROVE  EmitsAreOwned'
  <2>1. \A q \in Procs \ {p} : pc'[q] = pc[q] /\ local'[q] = local[q]
    BY <1>3, OthersStay DEF ProcStep
  <2>2. emits' = emits /\ acked' = acked
    BY <1>3 DEF Pick, bounds, ghosts
  <2>3. pc'[p] \in Emitting => pc[p] \in Emitting /\ local'[p].emit = local[p].emit
    BY <1>3, AppendGoesOn DEF SameCall, Ended
  <2>4. QED
    BY <2>1, <2>2, <2>3
<1>4. ASSUME NEW p \in Procs, ScanDirectory(p)
      PROVE  EmitsAreOwned'
  <2>1. \A q \in Procs \ {p} : pc'[q] = pc[q] /\ local'[q] = local[q]
    BY <1>4, OthersStay DEF ProcStep
  <2>2. emits' = emits /\ acked' = acked
    BY <1>4 DEF ScanDirectory, bounds, ghosts
  <2>3. pc'[p] \in Emitting => pc[p] \in Emitting /\ local'[p].emit = local[p].emit
    BY <1>4, AppendGoesOn DEF SameCall, Ended
  <2>4. QED
    BY <2>1, <2>2, <2>3
<1>5. ASSUME NEW p \in Procs, Open(p)
      PROVE  EmitsAreOwned'
  <2>1. \A q \in Procs \ {p} : pc'[q] = pc[q] /\ local'[q] = local[q]
    BY <1>5, OthersStay DEF ProcStep
  <2>2. emits' = emits /\ acked' = acked
    BY <1>5 DEF Open, ghosts
  <2>3. pc'[p] \in Emitting => pc[p] \in Emitting /\ local'[p].emit = local[p].emit
    BY <1>5, AppendGoesOn DEF SameCall, Ended
  <2>4. QED
    BY <2>1, <2>2, <2>3
<1>6. ASSUME NEW p \in Procs, Write(p)
      PROVE  EmitsAreOwned'
  <2>1. \A q \in Procs \ {p} : pc'[q] = pc[q] /\ local'[q] = local[q]
    BY <1>6, OthersStay DEF ProcStep
  <2>2. emits' = emits /\ acked' = acked
    BY <1>6 DEF Write
  <2>3. pc'[p] \in Emitting => pc[p] \in Emitting /\ local'[p].emit = local[p].emit
    BY <1>6, AppendGoesOn DEF SameCall, Ended
  <2>4. QED
    BY <2>1, <2>2, <2>3
<1>7. ASSUME NEW p \in Procs, ReadIndex(p)
      PROVE  EmitsAreOwned'
  <2>1. \A q \in Procs \ {p} : pc'[q] = pc[q] /\ local'[q] = local[q]
    BY <1>7, OthersStay DEF ProcStep
  <2>2. emits' = emits /\ acked' = acked
    BY <1>7 DEF ReadIndex, bounds, ghosts
  <2>3. pc'[p] \in Emitting => pc[p] \in Emitting /\ local'[p].emit = local[p].emit
    BY <1>7, AppendGoesOn DEF SameCall, Ended
  <2>4. QED
    BY <2>1, <2>2, <2>3
<1>8. ASSUME NEW p \in Procs, BumpIndex(p)
      PROVE  EmitsAreOwned'
  <2>1. \A q \in Procs \ {p} : pc'[q] = pc[q] /\ local'[q] = local[q]
    BY <1>8, OthersStay DEF ProcStep
  <2>2. pc'[p] \notin Emitting /\ pc[p] \in Emitting /\ emits' = emits
    BY <1>8 DEF BumpIndex, Return
  <2>3. \A a \in acked' : a \in acked \/ a.emit = local[p].emit
    BY <1>8 DEF BumpIndex
  <2>4. QED
    BY <2>1, <2>2, <2>3
<1>9. ASSUME NEW p \in Procs, CountEvents(p)
      PROVE  EmitsAreOwned'
  <2>1. \A q \in Procs \ {p} : pc'[q] = pc[q] /\ local'[q] = local[q]
    BY <1>9, OthersStay DEF ProcStep
  <2>2. pc'[p] \notin Emitting
    BY <1>9 DEF CountEvents
  <2>3. QED
    BY <1>9, <2>1, <2>2 DEF CountEvents, bounds
<1>10. ASSUME NEW p \in Procs, RewriteIndex(p)
       PROVE  EmitsAreOwned'
  <2>1. \A q \in Procs \ {p} : pc'[q] = pc[q] /\ local'[q] = local[q]
    BY <1>10, OthersStay DEF ProcStep
  <2>2. pc'[p] \notin Emitting
    BY <1>10 DEF RewriteIndex, Return
  <2>3. QED
    BY <1>10, <2>1, <2>2 DEF RewriteIndex, ghosts
<1>11. ASSUME NEW p \in Procs, Kill(p)
       PROVE  EmitsAreOwned'
  <2>1. \A q \in Procs \ {p} : pc'[q] = pc[q] /\ local'[q] = local[q]
    BY <1>11, OthersStay DEF ProcStep
  <2>2. pc'[p] \notin Emitting
    BY <1>11 DEF Kill, Return
  <2>3. QED
    BY <1>11, <2>1, <2>2 DEF Kill
<1>12. CASE UNCHANGED vars
  BY <1>12 DEF vars
<1>13. QED
  BY <1>1, <1>2, <1>3, <1>4, <1>5, <1>6, <1>7, <1>8, <1>9,
     <1>10, <1>11, <1>12 DEF Next, ProcStep

-------------------------------------------------------------------------------
Step(p) ==
  \/ \E retried \in BOOLEAN : StartEmit(p, retried)
  \/ ListEvents(p)
  \/ ProcStep(p)
  \/ Kill(p)

(* What the steps outside the append proper do to a call.                  *)
LEMMA StartEffect ==
  ASSUME TypeOK, NEW p \in Procs, NEW retried \in BOOLEAN, StartEmit(p, retried)
  PROVE  /\ pc[p] = "idle" /\ pc'[p] = "pick"
         /\ local'[p].before = {a.seq : a \in acked}
         /\ local'[p].listed = {}
         /\ UNCHANGED <<events, index, floor, short, acked, twice>>
<1>1. /\ local'[p] = [NoLocals EXCEPT !.emit = emits + 1, !.again = retried,
                                      !.before = {a.seq : a \in acked}]
      /\ pc'[p] = "pick"
  BY DEF TypeOK, StartEmit
<1>2. QED
  BY <1>1 DEF StartEmit, NoLocals, disk, memory, ghosts

LEMMA ListEffect ==
  ASSUME TypeOK, NEW p \in Procs, ListEvents(p)
  PROVE  /\ pc[p] = "idle" /\ pc'[p] = "count"
         /\ local'[p].before = local[p].before
         /\ local'[p].listed = DOMAIN events
         /\ UNCHANGED <<events, index, floor, short, acked, twice>>
<1>1. /\ local[p] \in Locals
      /\ local'[p] = [local[p] EXCEPT !.listed = DOMAIN events]
      /\ pc'[p] = "count"
  BY DEF TypeOK, ListEvents
<1>2. QED
  BY <1>1 DEF ListEvents, Locals, disk, memory, bounds, ghosts

LEMMA CountEffect ==
  ASSUME TypeOK, NEW p \in Procs, CountEvents(p)
  PROVE  /\ pc[p] = "count" /\ pc'[p] = "rewrite"
         /\ local'[p].before = local[p].before
         /\ local'[p].listed = {}
         /\ local'[p].total = Cardinality(Readable(p))
         /\ UNCHANGED <<events, index, floor, short, acked>>
<1>1. /\ local[p] \in Locals
      /\ local'[p] = [local[p] EXCEPT !.total = Cardinality(Readable(p)), !.listed = {}]
      /\ pc'[p] = "rewrite"
  BY DEF TypeOK, CountEvents
<1>2. QED
  BY <1>1 DEF CountEvents, Locals, disk, memory, bounds

LEMMA EndEffect ==
  ASSUME TypeOK, NEW p \in Procs, BumpIndex(p) \/ RewriteIndex(p) \/ Kill(p)
  PROVE  Ended(p) /\ UNCHANGED <<events, short, twice>>
BY DEF TypeOK, BumpIndex, RewriteIndex, Kill, Return, Ended, memory, disk, ghosts

-------------------------------------------------------------------------------
(* The log only grows, and an event file keeps its emit.                   *)
LogGrows(p) ==
  /\ DOMAIN events \subseteq DOMAIN events'
  /\ \A k \in DOMAIN events :
       /\ events'[k] = events[k] \/ (pc[p] = "write" /\ k = local[p].cand)
       /\ events'[k].emit = events[k].emit
       /\ events[k].whole => events'[k].whole
  /\ short \subseteq short'

LEMMA GrowingLog ==
  ASSUME IInv, NEW p \in Procs, Step(p)
  PROVE  LogGrows(p)
<1> USE DEF IInv
<1>1. CASE \E retried \in BOOLEAN : StartEmit(p, retried)
  BY <1>1, StartEffect DEF LogGrows
<1>2. CASE ListEvents(p) \/ CountEvents(p)
  BY <1>2, ListEffect, CountEffect DEF LogGrows
<1>3. CASE BumpIndex(p) \/ RewriteIndex(p) \/ Kill(p)
  BY <1>3, EndEffect DEF LogGrows
<1>4. CASE Pick(p) \/ ScanDirectory(p) \/ ReadIndex(p)
  BY <1>4 DEF Pick, ScanDirectory, ReadIndex, LogGrows, disk, ghosts
<1>5. CASE Open(p)
  <2>1. short' = short
    BY <1>5 DEF Open, ghosts
  <2>2. CASE events' = events
    BY <2>1, <2>2 DEF LogGrows
  <2>3. CASE /\ local[p].cand \notin DOMAIN events
             /\ PutFile(local[p].cand, [emit |-> local[p].emit, whole |-> FALSE])
    BY <2>1, <2>3 DEF LogGrows, PutFile
  <2>4. QED
    BY <1>5, <2>2, <2>3, OpenEffect
<1>6. CASE Write(p)
  <2>1. short \subseteq short'
    BY <1>6, WriteEffect
  <2>2. PICK whole \in BOOLEAN :
          PutFile(local[p].cand, [emit |-> local[p].emit, whole |-> whole])
    BY <1>6, WriteEffect
  <2>3. /\ pc[p] = "write"
        /\ local[p].cand \in DOMAIN events
        /\ events[local[p].cand].emit = local[p].emit
        /\ ~events[local[p].cand].whole
    BY <1>6, WriteEffect DEF SlotsAreOwned, Writing
  <2>4. QED
    BY <2>1, <2>2, <2>3 DEF PutFile, LogGrows
<1>7. QED
  BY <1>1, <1>2, <1>3, <1>4, <1>5, <1>6 DEF Step, ProcStep

LEMMA OthersInStep ==
  ASSUME IInv, NEW p \in Procs, Step(p)
  PROVE  \A q \in Procs \ {p} : pc'[q] = pc[q] /\ local'[q] = local[q]
BY OthersStay DEF Step, IInv

(* Every step leaves on disk what calls remember.                          *)
LEMMA MemoryStep ==
  ASSUME IInv, NEW p \in Procs, Step(p)
  PROVE  MemoryOnDisk'
<1> USE DEF IInv
<1>1. DOMAIN events \subseteq DOMAIN events'
  BY GrowingLog DEF LogGrows
<1>2. \A q \in Procs \ {p} : local'[q].before \subseteq DOMAIN events'
                          /\ local'[q].listed \subseteq DOMAIN events'
  BY <1>1, OthersInStep DEF MemoryOnDisk
<1>3. local'[p].before \subseteq DOMAIN events' /\ local'[p].listed \subseteq DOMAIN events'
  <2>1. CASE \E retried \in BOOLEAN : StartEmit(p, retried)
    BY <1>1, <2>1, StartEffect DEF AckedKeepsItsSlot
  <2>2. CASE ListEvents(p) \/ CountEvents(p)
    BY <1>1, <2>2, ListEffect, CountEffect DEF MemoryOnDisk
  <2>3. CASE Ended(p)
    BY <2>3 DEF Ended, NoLocals
  <2>4. CASE SameCall(p)
    BY <1>1, <2>4 DEF SameCall, MemoryOnDisk
  <2>5. QED
    BY <2>1, <2>2, <2>3, <2>4, EndEffect, AppendGoesOn DEF Step, ProcStep
<1>4. QED
  BY <1>2, <1>3 DEF MemoryOnDisk

(* Every step leaves each file to the call that made it.                   *)
LEMMA SlotsStep ==
  ASSUME IInv, NEW p \in Procs, Step(p)
  PROVE  SlotsAreOwned'
<1> USE DEF IInv
<1> DEFINE Slot(q) ==
      /\ local[q].cand \in DOMAIN events
      /\ events[local[q].cand].emit = local[q].emit
      /\ IF pc[q] = "write" THEN ~events[local[q].cand].whole
         ELSE events[local[q].cand].whole \/ local[q].emit \in short
<1>1. \A q \in Procs : pc[q] \in Writing => Slot(q)
  BY DEF SlotsAreOwned
<1>2. LogGrows(p)
  BY GrowingLog
<1>3. ASSUME NEW q \in Procs \ {p}, pc'[q] \in Writing
      PROVE  Slot(q)'
  <2>1. pc'[q] = pc[q] /\ local'[q] = local[q] /\ Slot(q)
    BY <1>1, <1>3, OthersInStep
  <2>2. pc[p] = "write" => local[p].cand # local[q].cand
    <3>1. SUFFICES ASSUME pc[p] = "write", local[p].cand = local[q].cand
                   PROVE  FALSE
      OBVIOUS
    <3>2. local[p].emit = local[q].emit
      BY <1>1, <2>1, <3>1 DEF Writing
    <3>3. QED
      BY <1>3, <2>1, <3>1, <3>2 DEF EmitsAreOwned, Emitting, Writing
  <2>3. local[q].cand \in DOMAIN events' /\ events'[local[q].cand] = events[local[q].cand]
    BY <1>2, <2>1, <2>2 DEF LogGrows
  <2>4. QED
    BY <1>2, <2>1, <2>3 DEF LogGrows
<1>4. ASSUME pc'[p] \in Writing
      PROVE  Slot(p)'
  <2>1. CASE Open(p)
    <3>1. /\ pc'[p] = "write" /\ local' = local
          /\ PutFile(local[p].cand, [emit |-> local[p].emit, whole |-> FALSE])
      BY <1>4, <2>1, OpenEffect DEF Writing, Ended
    <3>2. QED
      BY <3>1 DEF PutFile
  <2>2. CASE Write(p)
    <3>1. PICK whole \in BOOLEAN :
            /\ PutFile(local[p].cand, [emit |-> local[p].emit, whole |-> whole])
            /\ pc'[p] = "bump" /\ local' = local
            /\ whole \/ short' = short \union {local[p].emit}
      BY <1>4, <2>2, WriteEffect DEF Writing, Ended
    <3>2. QED
      BY <3>1 DEF PutFile
  <2>3. CASE ReadIndex(p)
    <3>1. /\ pc[p] = "bump" /\ pc'[p] = "reindex"
          /\ local'[p].cand = local[p].cand /\ local'[p].emit = local[p].emit
      BY <2>3, ReadIndexEffect DEF SameCall
    <3>2. events' = events /\ short' = short
      BY <2>3 DEF ReadIndex, disk, ghosts
    <3>3. QED
      BY <1>1, <3>1, <3>2 DEF Writing
  <2>4. CASE \/ Pick(p) \/ ScanDirectory(p) \/ ListEvents(p) \/ CountEvents(p)
             \/ BumpIndex(p) \/ RewriteIndex(p) \/ Kill(p)
             \/ \E retried \in BOOLEAN : StartEmit(p, retried)
    <3>1. pc'[p] \notin Writing
      BY <2>4, PickEffect, ScanEffect, ListEffect, CountEffect, EndEffect, StartEffect
         DEF Writing, Ended
    <3>2. QED
      BY <1>4, <3>1
  <2>5. QED
    BY <2>1, <2>2, <2>3, <2>4 DEF Step, ProcStep
<1>5. QED
  BY <1>3, <1>4 DEF SlotsAreOwned

(* Every step leaves the acknowledged events in place.                     *)
LEMMA AckedStep ==
  ASSUME IInv, NEW p \in Procs, Step(p)
  PROVE  AckedKeepsItsSlot'
<1> USE DEF IInv
<1>1. LogGrows(p)
  BY GrowingLog
<1>2. CASE acked' = acked
  BY <1>1, <1>2 DEF AckedKeepsItsSlot, LogGrows
<1>3. CASE BumpIndex(p)
  <2>1. acked' = acked \union {[emit |-> local[p].emit, seq |-> local[p].cand]}
    BY <1>3 DEF BumpIndex
  <2>2. pc[p] = "reindex" /\ events' = events /\ short' = short
    BY <1>3 DEF BumpIndex
  <2>3. /\ local[p].cand \in DOMAIN events
        /\ events[local[p].cand].emit = local[p].emit
        /\ events[local[p].cand].whole \/ local[p].emit \in short
    BY <2>2 DEF SlotsAreOwned, Writing
  <2>4. QED
    BY <2>1, <2>2, <2>3 DEF AckedKeepsItsSlot
<1>4. QED
  BY <1>2, <1>3
     DEF Step, ProcStep, StartEmit, ListEvents, Pick, ScanDirectory, Open, Write, ReadIndex,
         CountEvents, RewriteIndex, Kill, ghosts

(* Every step leaves the floors behind the disk.                           *)
LEMMA FloorStep ==
  ASSUME IInv, NEW p \in Procs, Step(p)
  PROVE  FloorBehindDisk'
<1> USE DEF IInv
<1>1. DOMAIN events \subseteq DOMAIN events'
  BY GrowingLog DEF LogGrows
<1>2. CASE floor' = floor
  BY <1>1, <1>2 DEF FloorBehindDisk
<1>3. CASE floor' = [floor EXCEPT ![p] = Unknown]
  BY <1>1, <1>3 DEF FloorBehindDisk, TypeOK
<1>4. CASE Write(p) /\ floor' = [floor EXCEPT ![p] = local[p].cand + 1]
  <2>1. local[p].cand \in DOMAIN events /\ local[p].cand \in Nat
    BY <1>4, WriteEffect DEF SlotsAreOwned, Writing, TypeOK, Locals
  <2>2. floor'[p] > 0 /\ floor'[p] - 1 \in DOMAIN events'
    BY <1>1, <1>4, <2>1 DEF TypeOK
  <2>3. \A q \in Procs \ {p} : floor'[q] = floor[q]
    BY <1>4 DEF TypeOK
  <2>4. QED
    BY <1>1, <2>2, <2>3 DEF FloorBehindDisk
<1>5. CASE Write(p)
  BY <1>2, <1>4, <1>5, WriteEffect
<1>6. QED
  BY <1>2, <1>3, <1>5
     DEF Step, ProcStep, StartEmit, ListEvents, Pick, ScanDirectory, Open, ReadIndex,
         BumpIndex, CountEvents, RewriteIndex, Kill, memory

(* Every step leaves the log finite, and twice set once it is.             *)
LEMMA FiniteStep ==
  ASSUME IInv, NEW p \in Procs, Step(p)
  PROVE  IsFiniteSet(DOMAIN events)'
<1> USE DEF IInv
<1>1. CASE \E k \in Nat : \E file : PutFile(k, file)
  <2>1. PICK k \in Nat : \E file : PutFile(k, file)
    BY <1>1
  <2>2. DOMAIN events' = DOMAIN events \union {k}
    BY <2>1 DEF PutFile
  <2>3. QED
    BY <2>2, FS_AddElement
<1>2. CASE events' = events
  BY <1>2
<1>3. CASE Open(p) \/ Write(p)
  <2>1. local[p].cand \in Nat
    BY DEF TypeOK, Locals
  <2>2. QED
    BY <1>1, <1>2, <1>3, <2>1, OpenEffect, WriteEffect
<1>4. QED
  BY <1>2, <1>3
     DEF Step, ProcStep, StartEmit, ListEvents, Pick, ScanDirectory, ReadIndex, BumpIndex,
         CountEvents, RewriteIndex, Kill, disk

(* Every step leaves no file of an emit that is yet to begin.              *)
LEMMA BegunStep ==
  ASSUME IInv, NEW p \in Procs, Step(p)
  PROVE  FilesAreBegun'
<1> USE DEF IInv
<1>1. emits \in Nat /\ emits' \in Nat /\ emits <= emits'
  <2>1. emits' = emits \/ emits' = emits + 1
    BY Zenon DEF Step, ProcStep, StartEmit, ListEvents, Pick, ScanDirectory, Open, Write, ReadIndex,
                 BumpIndex, CountEvents, RewriteIndex, Kill, bounds
  <2>2. emits \in Nat
    BY TraceConstants DEF TypeOK
  <2>3. QED
    BY <2>1, <2>2
<1>2. CASE Open(p) \/ Write(p)
  <2>1. local[p].emit <= emits /\ emits' = emits
    BY <1>2 DEF Open, Write, EmitsAreOwned, Emitting, ghosts, TypeOK
  <2>2. events' = events \/ \E whole \in BOOLEAN :
          PutFile(local[p].cand, [emit |-> local[p].emit, whole |-> whole])
    BY <1>2, OpenEffect, WriteEffect
  <2>3. QED
    BY <2>1, <2>2 DEF FilesAreBegun, PutFile
<1>3. CASE events' = events
  BY <1>1, <1>3 DEF FilesAreBegun, TypeOK, EventFile, Emits
<1>4. QED
  BY <1>2, <1>3
     DEF Step, ProcStep, StartEmit, ListEvents, Pick, ScanDirectory, ReadIndex, BumpIndex,
         CountEvents, RewriteIndex, Kill, disk

LEMMA TwiceStays ==
  ASSUME IInv, NEW p \in Procs, Step(p)
  PROVE  twice => twice'
BY Zenon
   DEF Step, ProcStep, StartEmit, ListEvents, Pick, ScanDirectory, Open, Write, ReadIndex,
       BumpIndex, CountEvents, RewriteIndex, Kill, ghosts

-------------------------------------------------------------------------------
(* The count.                                                              *)
LEMMA UncountedFinite ==
  ASSUME NEW S \in SUBSET Procs
  PROVE  IsFiniteSet(S) /\ Cardinality(S) \in Nat
BY TraceConstants, FS_Subset, FS_CardinalityType

(* The whole files that a recount finds and the files of the appends that  *)
(* it does not meet halfway are different ones.                            *)
LEMMA CountedOnce ==
  ASSUME IInv, NEW p \in Procs,
         \A q \in Procs : pc[q] = "bump" => local[q].cand \notin Readable(p)
  PROVE  Cardinality(Readable(p)) + Cardinality(Uncounted) <= Top
<1> DEFINE R == Readable(p)
           T == DOMAIN events \ Readable(p)
           f == [q \in Uncounted |-> local[q].cand]
<1> USE DEF IInv
<1>1. R \subseteq DOMAIN events
  BY DEF MemoryOnDisk, Readable
<1>2. IsFiniteSet(R) /\ IsFiniteSet(T) /\ Cardinality(R) \in Nat /\ Cardinality(T) \in Nat
  BY <1>1, FS_Subset, FS_CardinalityType
<1>3. Cardinality(R) + Cardinality(T) = Top
  <2>1. R \union T = DOMAIN events /\ R \cap T = {}
    BY <1>1
  <2>2. Cardinality(R \union T) = Cardinality(R) + Cardinality(T) - Cardinality(R \cap T)
    BY <1>2, FS_Union
  <2>3. Cardinality(R \cap T) = 0
    BY <2>1, FS_EmptySet
  <2>4. Cardinality(R \union T) = Top
    BY <2>1 DEF Top
  <2>5. QED
    BY <1>2, <2>2, <2>3, <2>4
<1>4. \A q \in Uncounted : local[q].cand \in T
  BY DEF Uncounted, SlotsAreOwned, Writing, Readable
<1>5. \A q, r \in Uncounted : local[q].cand = local[r].cand => q = r
  BY DEF Uncounted, SlotsAreOwned, Writing, EmitsAreOwned, Emitting
<1>6. f \in Injection(Uncounted, T)
  BY <1>4, <1>5 DEF Injection, IsInjective
<1>7. Cardinality(Uncounted) <= Cardinality(T)
  BY <1>2, <1>6, FS_Injection
<1>8. Cardinality(Uncounted) \in Nat
  BY UncountedFinite DEF Uncounted
<1>9. QED
  BY <1>2, <1>3, <1>7, <1>8

(* A step that makes no file and takes up no append keeps the count if     *)
(* what it leaves in the index and in its call does.                       *)
LEMMA CountedFrame ==
  ASSUME IInv, Counted, NEW p \in Procs, Step(p),
         DOMAIN events' = DOMAIN events,
         pc'[p] \in {"write", "bump"} => pc[p] \in {"write", "bump"},
         index' + Cardinality(Uncounted') <= Top,
         pc'[p] = "open" => local'[p].cand <= Top,
         pc'[p] = "reindex" => local'[p].total + 1 + Cardinality(Uncounted') <= Top,
         pc'[p] = "rewrite" => local'[p].total + Cardinality(Uncounted') <= Top
  PROVE  Counted'
<1> USE DEF IInv
<1>1. Top' = Top
  BY DEF Top
<1>2. Cardinality(Uncounted') <= Cardinality(Uncounted)
  <2>1. Uncounted' \subseteq Uncounted
    BY OthersInStep DEF Uncounted
  <2>2. QED
    BY <2>1, UncountedFinite, FS_Subset DEF Uncounted
<1>3. /\ Cardinality(Uncounted) \in Nat /\ Cardinality(Uncounted') \in Nat
      /\ Top \in Nat
  BY UncountedFinite, FS_CardinalityType DEF Uncounted, Top
<1>4. ASSUME NEW q \in Procs \ {p}
      PROVE  /\ pc'[q] = "open" => local'[q].cand <= Top
             /\ pc'[q] = "reindex" => local'[q].total + 1 + Cardinality(Uncounted') <= Top
             /\ pc'[q] = "rewrite" => local'[q].total + Cardinality(Uncounted') <= Top
  <2>1. pc'[q] = pc[q] /\ local'[q] = local[q] /\ local[q].total \in Nat
    BY OthersInStep DEF TypeOK, Locals
  <2>2. QED
    BY <1>2, <1>3, <2>1 DEF Counted
<1>5. DOMAIN events' = 0..(Top' - 1)
  BY <1>1 DEF Counted
<1>6. QED
  BY <1>1, <1>4, <1>5 DEF Counted

(* Unless a recount meets an append halfway, every step keeps the count.   *)
LEMMA CountedStep ==
  ASSUME IInv, NEW p \in Procs, Step(p), ~twice'
  PROVE  Counted'
<1> USE DEF IInv
<1>1. Counted
  BY TwiceStays
<1>2. /\ Cardinality(Uncounted) \in Nat /\ Cardinality(Uncounted') \in Nat
      /\ Top \in Nat /\ index \in Nat
  BY UncountedFinite, FS_CardinalityType DEF Uncounted, Top, TypeOK
<1>3. DOMAIN events = 0..(Top - 1) /\ index + Cardinality(Uncounted) <= Top
  BY <1>1 DEF Counted
<1>4. ASSUME pc'[p] \in {"write", "bump"} => pc[p] \in {"write", "bump"}
      PROVE  Cardinality(Uncounted') <= Cardinality(Uncounted)
  <2>1. Uncounted' \subseteq Uncounted
    BY <1>4, OthersInStep DEF Uncounted
  <2>2. QED
    BY <2>1, UncountedFinite, FS_Subset DEF Uncounted
<1>5. CASE \E retried \in BOOLEAN : StartEmit(p, retried)
  <2>1. pc'[p] = "pick" /\ UNCHANGED <<events, index>>
    BY <1>5, StartEffect
  <2>2. QED
    BY <1>1, <1>2, <1>3, <1>4, <2>1, CountedFrame
<1>6. CASE ListEvents(p)
  <2>1. pc'[p] = "count" /\ UNCHANGED <<events, index>>
    BY <1>6, ListEffect
  <2>2. QED
    BY <1>1, <1>2, <1>3, <1>4, <2>1, CountedFrame
<1>7. CASE Pick(p)
  <2>1. UNCHANGED <<events, index>>
    BY <1>7 DEF Pick, disk
  <2>2. \/ pc'[p] = "scan"
        \/ /\ pc'[p] = "open"
           /\ local'[p].cand = index \/ (floor[p] # Unknown /\ local'[p].cand = floor[p])
    BY <1>7, PickEffect
  <2>3. floor[p] # Unknown => floor[p] <= Top
    BY <1>2, <1>3 DEF FloorBehindDisk, TypeOK
  <2>4. pc'[p] = "open" => local'[p].cand <= Top
    BY <1>2, <1>3, <2>2, <2>3
  <2>5. QED
    BY <1>1, <1>2, <1>3, <1>4, <2>1, <2>2, <2>4, CountedFrame
<1>8. CASE ScanDirectory(p)
  <2>1. pc'[p] = "open" /\ UNCHANGED <<events, index>>
    BY <1>8, ScanEffect DEF ScanDirectory, disk
  <2>2. local'[p].cand = 0 \/ local'[p].cand - 1 \in 0..(Top - 1)
    BY <1>3, <1>8, ScanEffect
  <2>3. local'[p].cand \in Nat
    BY TypeStep, <1>8 DEF Next, ProcStep, TypeOK, Locals
  <2>4. QED
    BY <1>1, <1>2, <1>3, <1>4, <2>1, <2>2, <2>3, CountedFrame
<1>9. CASE Open(p)
  <2>1. index' = index
    BY <1>9 DEF Open
  <2>2. CASE /\ pc'[p] = "write" /\ local' = local
             /\ local[p].cand \notin DOMAIN events
             /\ PutFile(local[p].cand, [emit |-> local[p].emit, whole |-> FALSE])
    <3>1. pc[p] = "open" /\ local[p].cand \in Nat
      BY <1>9, OpenEffect DEF TypeOK, Locals
    <3>2. local[p].cand = Top
      BY <1>1, <1>2, <1>3, <2>2, <3>1 DEF Counted
    <3>3. DOMAIN events' = DOMAIN events \union {Top}
      BY <2>2, <3>2 DEF PutFile
    <3>4. Top' = Top + 1
      <4>1. Top \notin DOMAIN events
        BY <1>2, <1>3
      <4>2. Cardinality(DOMAIN events \union {Top}) = Cardinality(DOMAIN events) + 1
        BY <4>1, FS_AddElement
      <4>3. QED
        BY <3>3, <4>2 DEF Top
    <3>5. DOMAIN events' = 0..(Top' - 1)
      BY <1>2, <1>3, <3>3, <3>4
    <3>6. Uncounted' = Uncounted \union {p} /\ p \notin Uncounted
      BY <2>2, <3>1, OthersInStep DEF Uncounted
    <3>7. Cardinality(Uncounted') = Cardinality(Uncounted) + 1
      BY <3>6, UncountedFinite, FS_AddElement DEF Uncounted
    <3>8. ASSUME NEW q \in Procs
          PROVE  /\ pc'[q] = "open" => local'[q].cand <= Top'
                 /\ pc'[q] = "reindex" => local'[q].total + 1 + Cardinality(Uncounted') <= Top'
                 /\ pc'[q] = "rewrite" => local'[q].total + Cardinality(Uncounted') <= Top'
      <4>1. CASE q = p
        BY <2>2, <4>1
      <4>2. CASE q # p
        <5>1. /\ pc'[q] = pc[q] /\ local'[q] = local[q]
              /\ local[q].total \in Nat /\ local[q].cand \in Nat
          BY <4>2, OthersInStep DEF TypeOK, Locals
        <5>2. /\ pc[q] = "open" => local[q].cand <= Top
              /\ pc[q] = "reindex" => local[q].total + 1 + Cardinality(Uncounted) <= Top
              /\ pc[q] = "rewrite" => local[q].total + Cardinality(Uncounted) <= Top
          BY <1>1, <4>2 DEF Counted
        <5>3. QED
          BY <1>2, <3>4, <3>7, <5>1, <5>2
      <4>3. QED
        BY <4>1, <4>2
    <3>9. index' + Cardinality(Uncounted') <= Top'
      BY <1>2, <1>3, <2>1, <3>4, <3>7
    <3>10. QED
      BY <3>5, <3>8, <3>9 DEF Counted
  <2>3. CASE /\ events' = events
             /\ \/ /\ pc'[p] = "open" /\ local[p].cand \in DOMAIN events
                   /\ local'[p].cand = local[p].cand + 1
                \/ pc'[p] = "pick"
                \/ pc'[p] = "idle"
    <3>1. pc'[p] = "open" => local'[p].cand <= Top
      BY <1>2, <1>3, <2>3
    <3>2. QED
      BY <1>1, <1>2, <1>3, <1>4, <2>1, <2>3, <3>1, CountedFrame
  <2>4. QED
    BY <1>9, <2>2, <2>3, OpenEffect DEF Ended
<1>10. CASE Write(p)
  <2>1. index' = index /\ pc[p] = "write" /\ pc'[p] \in {"bump", "pick", "idle"}
    BY <1>10, WriteEffect DEF Write, Ended
  <2>2. PICK whole \in BOOLEAN :
          PutFile(local[p].cand, [emit |-> local[p].emit, whole |-> whole])
    BY <1>10, WriteEffect
  <2>3. DOMAIN events' = DOMAIN events
    BY <2>1, <2>2 DEF PutFile, SlotsAreOwned, Writing
  <2>4. QED
    BY <1>1, <1>2, <1>3, <1>4, <2>1, <2>3, CountedFrame
<1>11. CASE ReadIndex(p)
  <2>1. /\ pc[p] = "bump" /\ pc'[p] = "reindex" /\ local'[p].total = index
        /\ UNCHANGED <<events, index>>
    BY <1>11, ReadIndexEffect DEF ReadIndex, disk
  <2>2. Uncounted' = Uncounted \ {p} /\ p \in Uncounted
    BY <2>1, OthersInStep DEF Uncounted
  <2>3. Cardinality(Uncounted') = Cardinality(Uncounted) - 1
    BY <2>2, UncountedFinite, FS_RemoveElement DEF Uncounted
  <2>4. QED
    BY <1>1, <1>2, <1>3, <2>1, <2>3, CountedFrame
<1>12. CASE BumpIndex(p)
  <2>1. pc[p] = "reindex" /\ pc'[p] = "idle" /\ events' = events
    BY <1>12, EndEffect DEF BumpIndex, Ended
  <2>2. index' = index \/ index' = local[p].total + 1
    BY <1>12 DEF BumpIndex, ReplaceIndex
  <2>3. local[p].total + 1 + Cardinality(Uncounted) <= Top /\ local[p].total \in Nat
    BY <1>1, <2>1 DEF Counted, TypeOK, Locals
  <2>4. QED
    BY <1>1, <1>2, <1>3, <1>4, <2>1, <2>2, <2>3, CountedFrame
<1>13. CASE CountEvents(p)
  <2>1. /\ pc'[p] = "rewrite" /\ local'[p].total = Cardinality(Readable(p))
        /\ UNCHANGED <<events, index>>
    BY <1>13, CountEffect
  <2>2. \A q \in Procs : pc[q] = "bump" => local[q].cand \notin Readable(p)
    BY <1>13 DEF CountEvents
  <2>3. Cardinality(Readable(p)) + Cardinality(Uncounted) <= Top
    BY <2>2, CountedOnce
  <2>4. Cardinality(Readable(p)) \in Nat
    BY FS_Subset, FS_CardinalityType DEF MemoryOnDisk, Readable
  <2>5. QED
    BY <1>1, <1>2, <1>3, <1>4, <2>1, <2>3, <2>4, CountedFrame
<1>14. CASE RewriteIndex(p)
  <2>1. pc[p] = "rewrite" /\ pc'[p] = "idle" /\ events' = events
    BY <1>14, EndEffect DEF RewriteIndex, Ended
  <2>2. index' = index \/ index' = local[p].total
    BY <1>14 DEF RewriteIndex, ReplaceIndex
  <2>3. local[p].total + Cardinality(Uncounted) <= Top /\ local[p].total \in Nat
    BY <1>1, <2>1 DEF Counted, TypeOK, Locals
  <2>4. QED
    BY <1>1, <1>2, <1>3, <1>4, <2>1, <2>2, <2>3, CountedFrame
<1>15. CASE Kill(p)
  <2>1. pc'[p] = "idle" /\ UNCHANGED <<events, index>>
    BY <1>15, EndEffect DEF Kill, disk, Ended
  <2>2. QED
    BY <1>1, <1>2, <1>3, <1>4, <2>1, CountedFrame
<1>16. QED
  BY <1>5, <1>6, <1>7, <1>8, <1>9, <1>10, <1>11, <1>12, <1>13, <1>14, <1>15 DEF Step, ProcStep

(* Every step leaves the numbers in the order of the calls.                *)
LEMMA OrderStep ==
  ASSUME IInv, NEW p \in Procs, Step(p)
  PROVE  EventOrder'
<1> USE DEF IInv
<1>1. SUFFICES ASSUME ~twice', NEW q \in Procs, pc'[q] \in Writing, NEW k \in local'[q].before
               PROVE  k < local'[q].cand
  BY DEF EventOrder, Writing
<1>2. /\ Counted
      /\ \A r \in Procs : pc[r] \in Writing => \A j \in local[r].before : j < local[r].cand
  BY <1>1, TwiceStays DEF EventOrder, Writing
<1>3. CASE q # p
  BY <1>1, <1>2, <1>3, OthersInStep
<1>4. CASE q = p /\ Open(p)
  <2>1. pc[p] = "open" /\ local' = local /\ local[p].cand \notin DOMAIN events
    BY <1>1, <1>4, OpenEffect DEF Writing, Ended
  <2>2. local[p].cand \in Nat /\ Top \in Nat
    BY FS_CardinalityType DEF TypeOK, Locals, Top
  <2>3. DOMAIN events = 0..(Top - 1) /\ local[p].cand <= Top
    BY <1>2, <2>1 DEF Counted
  <2>4. k \in DOMAIN events
    BY <1>1, <1>4, <2>1 DEF MemoryOnDisk
  <2>5. QED
    BY <1>4, <2>1, <2>2, <2>3, <2>4
<1>5. CASE q = p /\ Write(p)
  BY <1>1, <1>2, <1>5, WriteEffect DEF Writing, Ended
<1>6. CASE q = p /\ ReadIndex(p)
  BY <1>1, <1>2, <1>6, ReadIndexEffect DEF Writing, SameCall
<1>7. CASE q = p /\ \/ Pick(p) \/ ScanDirectory(p) \/ ListEvents(p) \/ CountEvents(p)
                    \/ BumpIndex(p) \/ RewriteIndex(p) \/ Kill(p)
                    \/ \E retried \in BOOLEAN : StartEmit(p, retried)
  BY <1>1, <1>7, PickEffect, ScanEffect, ListEffect, CountEffect, EndEffect, StartEffect
     DEF Writing, Ended
<1>8. QED
  BY <1>3, <1>4, <1>5, <1>6, <1>7 DEF Step, ProcStep

-------------------------------------------------------------------------------
(* The inductive invariant holds at the start and after every step.        *)
LEMMA InitIInv == Init => IInv
<1> SUFFICES ASSUME Init PROVE IInv
  OBVIOUS
<1>1. NoLocals \in Locals /\ NoLocals.before = {} /\ NoLocals.listed = {}
  BY TraceConstants DEF NoLocals, Locals
<1>2. DOMAIN events = {}
  BY DEF Init
<1>3. TypeOK
  <2>1. events \in [DOMAIN events -> EventFile]
    BY DEF Init
  <2>2. /\ DOMAIN events \subseteq Nat
        /\ pc \in [Procs -> Points] /\ local \in [Procs -> Locals]
    BY <1>1, <1>2 DEF Init, Points
  <2>3. index \in Nat /\ emits \in 0..MaxEmits /\ faults \in 0..MaxFaults
    BY TraceConstants DEF Init
  <2>4. floor \in [Procs -> Nat \union {Unknown}] /\ dropped \in [Procs -> Nat]
    BY DEF Init
  <2>5. acked \subseteq [emit : Emits, seq : Nat] /\ short \subseteq Emits /\ twice \in BOOLEAN
    BY Zenon DEF Init
  <2>6. QED
    BY <2>1, <2>2, <2>3, <2>4, <2>5 DEF TypeOK
<1>4. /\ EmitsAreOwned /\ SlotsAreOwned /\ AckedKeepsItsSlot /\ FloorBehindDisk /\ EventOrder
      /\ FilesAreBegun
  BY <1>2 DEF Init, EmitsAreOwned, SlotsAreOwned, AckedKeepsItsSlot, FloorBehindDisk, EventOrder,
              FilesAreBegun, Emitting, Writing
<1>5. MemoryOnDisk
  BY <1>1 DEF Init, MemoryOnDisk
<1>6. IsFiniteSet(DOMAIN events) /\ Top = 0
  BY <1>2, FS_EmptySet DEF Top
<1>7. Counted
  <2>1. Uncounted = {}
    BY DEF Init, Uncounted
  <2>2. Cardinality(Uncounted) = 0 /\ index = 0
    BY <2>1, FS_EmptySet DEF Init
  <2>3. DOMAIN events = 0..(Top - 1)
    BY <1>2, <1>6
  <2>4. \A p \in Procs : pc[p] = "idle"
    BY DEF Init
  <2>5. QED
    BY <1>6, <2>2, <2>3, <2>4 DEF Counted
<1>8. QED
  BY <1>3, <1>4, <1>5, <1>6, <1>7 DEF IInv

LEMMA Inductive == IInv /\ [Next]_vars => IInv'
<1> SUFFICES ASSUME IInv, [Next]_vars PROVE IInv'
  OBVIOUS
<1>1. TypeOK' /\ EmitsAreOwned'
  BY TypeStep, EmitsStep
<1>2. ASSUME NEW p \in Procs, Step(p)
      PROVE  /\ SlotsAreOwned' /\ MemoryOnDisk' /\ AckedKeepsItsSlot' /\ FloorBehindDisk'
             /\ IsFiniteSet(DOMAIN events)' /\ (twice \/ Counted)' /\ EventOrder'
             /\ FilesAreBegun'
  BY <1>2, SlotsStep, MemoryStep, AckedStep, FloorStep, FiniteStep, CountedStep, OrderStep, BegunStep
<1>3. CASE UNCHANGED vars
  <2>1. Uncounted' = Uncounted /\ Top' = Top
    BY <1>3 DEF vars, Uncounted, Top
  <2>2. Counted => Counted'
    BY <1>3, <2>1 DEF vars, Counted
  <2>3. /\ SlotsAreOwned' /\ MemoryOnDisk' /\ AckedKeepsItsSlot' /\ FloorBehindDisk' /\ EventOrder'
        /\ FilesAreBegun'
    BY <1>3 DEF vars, IInv, SlotsAreOwned, MemoryOnDisk, AckedKeepsItsSlot, FloorBehindDisk,
                EventOrder, FilesAreBegun
  <2>4. QED
    BY <1>1, <1>3, <2>2, <2>3 DEF vars, IInv
<1>4. Next => \E p \in Procs : Step(p)
  BY DEF Next, Step
<1>5. QED
  BY <1>1, <1>2, <1>3, <1>4 DEF IInv

THEOREM Invariance == Spec => []IInv
  BY InitIInv, Inductive, PTL DEF Spec

(* The variables keep their types.                                         *)
THEOREM TraceTypeCorrect == Spec => []TypeOK
<1>1. IInv => TypeOK
  BY DEF IInv
<1>2. QED
  BY Invariance, <1>1, PTL

(* An event that appendTraceEvent has acknowledged stays in its file:      *)
(* whatever fails, is killed or races, the number is never given twice.    *)
THEOREM AckedSafe == Spec => []AckedKeepsItsSlot
<1>1. IInv => AckedKeepsItsSlot
  BY DEF IInv
<1>2. QED
  BY Invariance, <1>1, PTL

(* pickInitialCandidate never starts from a floor that is ahead of the     *)
(* event files, as its comment says.                                       *)
THEOREM FloorSafe == Spec => []FloorBehindDisk
<1>1. IInv => FloorBehindDisk
  BY DEF IInv
<1>2. QED
  BY Invariance, <1>1, PTL

(* The event files have no gap in their numbers, unless reconcileIndex has *)
(* counted an event that its own append was still to count.                *)
THEOREM GaplessSafe == Spec => []GaplessFiles
<1>1. IInv => GaplessFiles
  <2>1. SUFFICES ASSUME IInv, ~twice, NEW k \in DOMAIN events, NEW j \in 0..k
                 PROVE  j \in DOMAIN events
    BY DEF GaplessFiles
  <2>2. DOMAIN events = 0..(Top - 1) /\ Top \in Nat
    BY <2>1, FS_CardinalityType DEF IInv, Counted, Top
  <2>3. QED
    BY <2>1, <2>2
<1>2. QED
  BY Invariance, <1>1, PTL

(* Nor does appendTraceEvent, without such a recount, give an event a      *)
(* number below one returned before its call began.                        *)
THEOREM OrderSafe == Spec => []EventOrder
<1>1. IInv => EventOrder
  BY DEF IInv
<1>2. QED
  BY Invariance, <1>1, PTL

(* What the end of a call does to the tally, and to what is acknowledged.  *)
Accounted(p) ==
  LET ended  == pc[p] \in Emitting /\ pc'[p] = "idle"
      acks   == {a \in acked' \ acked : a.emit = local[p].emit}
      killed == floor'[p] = Unknown /\ dropped'[p] = 0
  IN  /\ dropped'[p] > dropped[p] => ended /\ acks = {}
      /\ ended => dropped'[p] = dropped[p] + 1 \/ acks # {} \/ killed

LEMMA DropsCounted ==
  ASSUME TypeOK, NEW p \in Procs, Throw(p) \/ Probe(p)
  PROVE  \/ dropped'[p] = dropped[p] /\ (pc'[p] = pc[p] \/ pc'[p] = "pick")
         \/ dropped'[p] = dropped[p] + 1 /\ pc'[p] = "idle"
BY DEF TypeOK, Throw, Probe, Return

(* A step that changes neither the tally nor what is acknowledged, of a    *)
(* call that goes on.                                                      *)
LEMMA QuietStep ==
  ASSUME TypeOK, NEW p \in Procs, dropped'[p] = dropped[p],
         pc[p] \in Emitting => pc'[p] # "idle"
  PROVE  Accounted(p)
<1>1. dropped[p] \in Nat
  BY DEF TypeOK
<1>2. QED
  BY <1>1 DEF Accounted

LEMMA AppendAccounted ==
  ASSUME TypeOK, NEW p \in Procs, Open(p) \/ Write(p)
  PROVE  Accounted(p)
<1>1. UNCHANGED acked /\ pc[p] \in Emitting /\ dropped[p] \in Nat
  BY DEF Open, Write, Emitting, ghosts, TypeOK
<1>2. CASE Throw(p) \/ Probe(p)
  BY <1>1, <1>2, DropsCounted DEF Accounted, Emitting
<1>3. CASE UNCHANGED dropped /\ pc'[p] # "idle"
  BY <1>3, QuietStep
<1>4. Throw(p) \/ Probe(p) \/ (UNCHANGED dropped /\ pc'[p] # "idle")
  <2>1. CASE Open(p)
    BY <2>1 DEF Open, TypeOK
  <2>2. CASE Write(p)
    BY <2>2 DEF Write, TypeOK
  <2>3. QED
    BY <2>1, <2>2
<1>5. QED
  BY <1>2, <1>3, <1>4

(* Nobody else has the emit, and it has not been acknowledged before.      *)
LEMMA AckAccounted ==
  ASSUME IInv, NEW p \in Procs, BumpIndex(p)
  PROVE  Accounted(p)
<1>1. /\ pc[p] \in Emitting /\ UNCHANGED dropped /\ dropped[p] \in Nat
      /\ acked' = acked \union {[emit |-> local[p].emit, seq |-> local[p].cand]}
  BY DEF BumpIndex, Emitting, memory, IInv, TypeOK
<1>2. \A a \in acked : a.emit # local[p].emit
  BY <1>1 DEF IInv, EmitsAreOwned
<1>3. DEFINE ack == [emit |-> local[p].emit, seq |-> local[p].cand]
<1>4. ack \in acked' \ acked /\ ack.emit = local[p].emit
  BY <1>1, <1>2
<1>5. QED
  BY <1>1, <1>4 DEF Accounted

LEMMA OthersAccounted ==
  ASSUME TypeOK, NEW p \in Procs, Step(p), NEW q \in Procs \ {p}
  PROVE  Accounted(q)
<1>1. pc'[q] = pc[q]
  BY OthersStay DEF Step
<1>2. dropped'[q] = dropped[q]
  BY DEF Step, ProcStep, Pick, ScanDirectory, Open, Write, ReadIndex, BumpIndex, CountEvents,
         RewriteIndex, ListEvents, StartEmit, Kill, Probe, Throw, memory, TypeOK
<1>3. QED
  BY <1>1, <1>2, QuietStep DEF Emitting

LEMMA AccountedStep ==
  ASSUME IInv, NEW p \in Procs, Step(p)
  PROVE  \A q \in Procs : Accounted(q)
<1>1. TypeOK
  BY DEF IInv
<1>2. CASE Open(p) \/ Write(p)
  BY <1>1, <1>2, AppendAccounted, OthersAccounted
<1>3. CASE BumpIndex(p)
  BY <1>1, <1>3, AckAccounted, OthersAccounted
<1>4. CASE Kill(p)
  <2>1. floor'[p] = Unknown /\ dropped'[p] = 0 /\ dropped[p] \in Nat
    BY <1>1, <1>4 DEF Kill, TypeOK
  <2>2. Accounted(p)
    BY <2>1 DEF Accounted
  <2>3. QED
    BY <1>1, <2>2, OthersAccounted
<1>5. CASE \/ Pick(p) \/ ScanDirectory(p) \/ ReadIndex(p) \/ CountEvents(p) \/ ListEvents(p)
           \/ RewriteIndex(p) \/ \E retried \in BOOLEAN : StartEmit(p, retried)
  <2>1. dropped'[p] = dropped[p]
    BY <1>5 DEF Pick, ScanDirectory, ReadIndex, CountEvents, ListEvents, RewriteIndex,
                StartEmit, memory
  <2>2. pc[p] \in Emitting => pc'[p] # "idle"
    BY <1>1, <1>5 DEF Pick, ScanDirectory, ReadIndex, CountEvents, ListEvents, RewriteIndex,
                      StartEmit, Emitting, TypeOK
  <2>3. QED
    BY <1>1, <2>1, <2>2, QuietStep, OthersAccounted
<1>6. QED
  BY <1>2, <1>3, <1>4, <1>5 DEF Step, ProcStep

(* An emit that ends is returned ok, or dropped and counted just then, or  *)
(* its process is killed with the tally (src/trace/emit.ts).               *)
THEOREM EveryEmitAccounted == Spec => EmitsAccounted
<1>1. IInv /\ [Next]_vars =>
        [\A p \in Procs :
           LET ended  == pc[p] \in Emitting /\ pc'[p] = "idle"
                acks   == {a \in acked' \ acked : a.emit = local[p].emit}
                killed == floor'[p] = Unknown /\ dropped'[p] = 0
            IN  /\ dropped'[p] > dropped[p] => ended /\ acks = {}
                /\ ended => \/ dropped'[p] = dropped[p] + 1
                            \/ acks # {}
                            \/ killed]_vars
  <2>1. Next => \E p \in Procs : Step(p)
    BY DEF Next, Step
  <2>2. IInv /\ Next => \A p \in Procs : Accounted(p)
    BY <2>1, AccountedStep
  <2>3. QED
    BY <2>2, Zenon DEF Accounted
<1>2. QED
  BY Invariance, <1>1, PTL DEF Spec, EmitsAccounted

-------------------------------------------------------------------------------
(* The emits under way, as EventLog sees them.                             *)
OpenEmits == {local[p].emit : p \in {q \in Procs : pc[q] \in Emitting}}

LEMMA OpenGoesOn ==
  ASSUME IInv, NEW p \in Procs, Step(p), pc[p] \in Emitting, pc'[p] \in Emitting, SameCall(p)
  PROVE  OpenEmits' = OpenEmits
BY OthersInStep DEF OpenEmits, SameCall

LEMMA OpenEnds ==
  ASSUME IInv, NEW p \in Procs, Step(p), pc[p] \in Emitting, Ended(p)
  PROVE  OpenEmits' = OpenEmits \ {local[p].emit}
<1>1. pc'[p] \notin Emitting /\ \A q \in Procs \ {p} : pc'[q] = pc[q] /\ local'[q] = local[q]
  BY OthersInStep DEF Ended, Emitting
<1>2. \A q \in Procs \ {p} : pc[q] \in Emitting => local[q].emit # local[p].emit
  BY DEF IInv, EmitsAreOwned
<1> QED BY <1>1, <1>2 DEF OpenEmits

LEMMA OpenIdles ==
  ASSUME IInv, NEW p \in Procs, Step(p), pc[p] \notin Emitting, pc'[p] \notin Emitting
  PROVE  OpenEmits' = OpenEmits
BY OthersInStep DEF OpenEmits

LEMMA OpenIsBegun ==
  ASSUME IInv, NEW p \in Procs, pc[p] \in Emitting
  PROVE  local[p].emit \in OpenEmits /\ local[p].emit \in Emits
BY TraceConstants DEF IInv, EmitsAreOwned, OpenEmits, Emits, TypeOK

(* A call that fails is tried once more, or its emit is lost.              *)
LEMMA FailLoses ==
  ASSUME IInv, NEW p \in Procs, Step(p), pc[p] \in Emitting,
         (pc'[p] \in Emitting /\ SameCall(p)) \/ Ended(p),
         UNCHANGED <<events, acked, short, twice>>
  PROVE  UNCHANGED Log!vars \/ \E e \in Emits : Log!Lose(e)
<1>1. CASE pc'[p] \in Emitting /\ SameCall(p)
  BY <1>1, OpenGoesOn DEF OpenEmits, Log!vars
<1>2. CASE Ended(p)
  <2>1. PICK e \in Emits : e = local[p].emit
    BY OpenIsBegun
  <2>2. Log!Lose(e)
    BY <1>2, <2>1, OpenEnds, OpenIsBegun DEF OpenEmits, Log!Lose
  <2>3. QED
    BY <2>2
<1>3. QED
  BY <1>1, <1>2

(* The creation of an event file claims the next number.                   *)
LEMMA OpenClaims ==
  ASSUME IInv, NEW p \in Procs, Open(p)
  PROVE  UNCHANGED Log!vars \/ \E e \in Emits : Log!Claim(e) \/ Log!Lose(e)
<1> USE DEF IInv
<1>1. /\ Step(p) /\ pc[p] = "open" /\ pc[p] \in Emitting /\ UNCHANGED <<acked, short, twice>>
  BY OpenEffect DEF Step, ProcStep, Open, Emitting, ghosts
<1>2. PICK e \in Emits : e = local[p].emit
  BY <1>1, OpenIsBegun
<1>3. CASE /\ pc'[p] = "write" /\ local' = local
           /\ local[p].cand \notin DOMAIN events
           /\ PutFile(local[p].cand, [emit |-> local[p].emit, whole |-> FALSE])
  <2>1. PICK k \in Nat : k = local[p].cand
    BY DEF TypeOK, Locals
  <2>2. OpenEmits' = OpenEmits
    BY <1>1, <1>3, OpenGoesOn DEF SameCall, Emitting
  <2>3. twice \/ DOMAIN events = 0..(k - 1)
    <3>1. SUFFICES ASSUME ~twice PROVE k = Top
      BY DEF Counted
    <3>2. DOMAIN events = 0..(Top - 1) /\ k <= Top /\ Top \in Nat
      BY <1>1, <2>1, <3>1, FS_CardinalityType DEF Counted, Top
    <3>3. k \notin DOMAIN events
      BY <1>3, <2>1
    <3>4. QED
      BY <3>2, <3>3
  <2>4. /\ k \notin DOMAIN events
        /\ events' = [j \in DOMAIN events \union {k} |->
                        IF j = k THEN [emit |-> e, whole |-> FALSE] ELSE events[j]]
    BY <1>2, <1>3, <2>1 DEF PutFile
  <2>5. k \in DOMAIN events' \ DOMAIN events
    BY <2>4
  <2>6. \E n \in DOMAIN events' \ DOMAIN events :
          /\ n \in Nat
          /\ twice \/ DOMAIN events = 0..(n - 1)
          /\ events' = [j \in DOMAIN events \union {n} |->
                          IF j = n THEN [emit |-> e, whole |-> FALSE] ELSE events[j]]
    BY <2>3, <2>4, <2>5
  <2>7. e \in OpenEmits
    BY <1>1, <1>2, OpenIsBegun
  <2>8. Log!Claim(e)
    BY <1>1, <2>2, <2>6, <2>7 DEF OpenEmits, Log!Claim
  <2>9. QED
    BY <2>8
<1>4. CASE /\ events' = events
           /\ \/ pc'[p] \in {"open", "pick"} /\ SameCall(p)
              \/ Ended(p)
  BY <1>1, <1>4, FailLoses DEF Emitting
<1>5. QED
  BY <1>3, <1>4, OpenEffect

(* The write fills the entry, or tears the event, or leaves it as it was.  *)
LEMMA WriteFills ==
  ASSUME IInv, NEW p \in Procs, Write(p)
  PROVE  UNCHANGED Log!vars \/ \E e \in Emits : Log!Fill(e) \/ Log!Tear(e) \/ Log!Lose(e)
<1> USE DEF IInv
<1>1. /\ Step(p) /\ pc[p] = "write" /\ pc[p] \in Emitting /\ UNCHANGED <<acked, twice>>
  BY WriteEffect DEF Step, ProcStep, Write, Emitting
<1>2. PICK e \in Emits : e = local[p].emit
  BY <1>1, OpenIsBegun
<1>3. PICK whole \in BOOLEAN :
        /\ PutFile(local[p].cand, [emit |-> local[p].emit, whole |-> whole])
        /\ \/ /\ pc'[p] = "bump" /\ local' = local
              /\ IF whole THEN short' = short ELSE short' = short \union {local[p].emit}
           \/ /\ (pc'[p] = "pick" /\ SameCall(p)) \/ Ended(p)
              /\ UNCHANGED short
  BY WriteEffect
<1>4. PICK k \in DOMAIN events : k = local[p].cand
  BY <1>1 DEF SlotsAreOwned, Writing
<1>5. events[k] = [emit |-> e, whole |-> FALSE]
  <2>1. events[k].emit = e /\ ~events[k].whole /\ events[k] \in EventFile
    BY <1>1, <1>2, <1>4 DEF SlotsAreOwned, Writing, TypeOK
  <2>2. QED
    BY <2>1 DEF EventFile
<1>6. events' = [j \in DOMAIN events |->
                  IF j = k THEN [emit |-> e, whole |-> whole] ELSE events[j]]
  <2>1. DOMAIN events \union {k} = DOMAIN events
    BY <1>4
  <2>2. QED
    BY <1>2, <1>3, <1>4, <2>1 DEF PutFile
<1>7. (pc'[p] \in Emitting /\ SameCall(p)) \/ Ended(p)
  BY <1>3 DEF Emitting, SameCall
<1>8. OpenEmits' \in {OpenEmits, OpenEmits \ {e}} /\ e \in OpenEmits
  BY <1>1, <1>2, <1>7, OpenGoesOn, OpenEnds, OpenIsBegun
<1>9. CASE ~whole
  <2>1. events' = events
    BY <1>5, <1>6, <1>9 DEF TypeOK
  <2>2. CASE pc'[p] = "bump" /\ local' = local /\ short' = short \union {local[p].emit}
    <3>1. OpenEmits' = OpenEmits
      BY <1>1, <2>2, OpenGoesOn DEF Emitting, SameCall
    <3>2. Log!Tear(e)
      BY <1>1, <1>2, <1>8, <2>1, <2>2, <3>1 DEF OpenEmits, Log!Tear
    <3>3. QED
      BY <3>2
  <2>3. CASE UNCHANGED short
    BY <1>1, <1>7, <2>1, <2>3, FailLoses
  <2>4. QED
    BY <1>3, <1>9, <2>2, <2>3
<1>10. CASE whole /\ UNCHANGED short
  <2>1. events' = [j \in DOMAIN events |->
                    IF j = k THEN [emit |-> e, whole |-> TRUE] ELSE events[j]]
    BY <1>6, <1>10
  <2>2. Log!Fill(e)
    BY <1>1, <1>4, <1>5, <1>8, <1>10, <2>1 DEF OpenEmits, Log!Fill
  <2>3. QED
    BY <2>2
<1>11. QED
  BY <1>3, <1>9, <1>10

(* Every step of a process is a step of the log, or leaves it as it is.    *)
LEMMA LogStep ==
  ASSUME IInv, NEW p \in Procs, Step(p)
  PROVE  UNCHANGED Log!vars \/ Log!Race \/ \E e \in Emits :
           \/ Log!Begin(e) \/ Log!Claim(e) \/ Log!Fill(e) \/ Log!Tear(e)
           \/ Log!Acknowledge(e) \/ Log!Lose(e)
<1> USE DEF IInv
<1>1. CASE \E retried \in BOOLEAN : StartEmit(p, retried)
  <2>1. /\ pc[p] = "idle" /\ pc'[p] = "pick" /\ local'[p].emit = emits + 1
        /\ emits < MaxEmits /\ UNCHANGED <<events, acked, short, twice>>
    BY <1>1 DEF StartEmit, TypeOK, NoLocals, disk, ghosts
  <2>2. PICK e \in Emits : e = emits + 1
    BY <2>1, TraceConstants DEF TypeOK, Emits
  <2>3. /\ OpenEmits' = OpenEmits \union {e}
        /\ e \notin OpenEmits
    <3>1. emits \in Nat
      BY TraceConstants DEF TypeOK
    <3>2. \A q \in Procs : pc[q] \in Emitting => local[q].emit # e
      BY <2>2, <3>1 DEF EmitsAreOwned
    <3>3. pc[p] \notin Emitting /\ pc'[p] \in Emitting
      BY <2>1 DEF Emitting
    <3>4. QED
      BY <2>1, <2>2, <3>2, <3>3, OthersInStep DEF OpenEmits
  <2>4. /\ \A k \in DOMAIN events : events[k].emit # e
        /\ \A a \in acked : a.emit # e
    <3>1. /\ \A k \in DOMAIN events : events[k].emit \in Nat
          /\ \A a \in acked : a.emit \in Nat
          /\ emits \in Nat
      BY TraceConstants DEF TypeOK, EventFile, Emits
    <3>2. QED
      BY <2>2, <3>1 DEF FilesAreBegun, EmitsAreOwned
  <2>5. Log!Begin(e)
    BY <2>1, <2>3, <2>4 DEF OpenEmits, Log!Begin
  <2>6. QED
    BY <2>5
<1>2. CASE Pick(p) \/ ScanDirectory(p) \/ ReadIndex(p)
  <2>1. /\ UNCHANGED <<events, acked, short, twice>> /\ pc[p] \in Emitting
        /\ (pc'[p] \in Emitting /\ SameCall(p)) \/ Ended(p)
    BY <1>2, AppendGoesOn DEF Pick, ScanDirectory, ReadIndex, disk, ghosts
  <2>2. QED
    BY <2>1, FailLoses
<1>3. CASE Open(p)
  BY <1>3, OpenClaims
<1>4. CASE Write(p)
  BY <1>4, WriteFills
<1>5. CASE BumpIndex(p)
  <2>1. /\ pc[p] = "reindex" /\ pc[p] \in Emitting /\ pc[p] \in Writing /\ Ended(p)
        /\ UNCHANGED <<events, short, twice>>
        /\ acked' = acked \union {[emit |-> local[p].emit, seq |-> local[p].cand]}
    BY <1>5, EndEffect DEF BumpIndex, Emitting, Writing
  <2>2. PICK e \in Emits : e = local[p].emit
    BY <2>1, OpenIsBegun
  <2>3. PICK k \in DOMAIN events : k = local[p].cand
    BY <2>1 DEF SlotsAreOwned
  <2>4. events[k].emit = e /\ (events[k].whole \/ e \in short)
    BY <2>1, <2>2, <2>3 DEF SlotsAreOwned
  <2>5. OpenEmits' = OpenEmits \ {e} /\ e \in OpenEmits
    BY <2>1, <2>2, OpenEnds, OpenIsBegun
  <2>6. Log!Acknowledge(e)
    BY <2>1, <2>2, <2>3, <2>4, <2>5 DEF OpenEmits, Log!Acknowledge
  <2>7. QED
    BY <2>6
<1>6. CASE ListEvents(p) \/ RewriteIndex(p)
  <2>1. /\ UNCHANGED <<events, acked, short, twice>>
        /\ pc[p] \notin Emitting /\ pc'[p] \notin Emitting
    BY <1>6, ListEffect, EndEffect DEF RewriteIndex, Ended, Emitting, ghosts
  <2>2. QED
    BY <2>1, OpenIdles DEF OpenEmits, Log!vars
<1>7. CASE CountEvents(p)
  <2>1. /\ UNCHANGED <<events, acked, short>> /\ (twice' = twice \/ twice' = TRUE)
        /\ pc[p] \notin Emitting /\ pc'[p] \notin Emitting
    <3>1. twice' = twice \/ twice' = TRUE
      BY <1>7, Zenon DEF CountEvents, TypeOK
    <3>2. QED
      BY <1>7, <3>1, CountEffect DEF Emitting
  <2>2. OpenEmits' = OpenEmits
    BY <2>1, OpenIdles
  <2>3. CASE twice' = TRUE
    <3>1. Log!Race
      BY <2>1, <2>2, <2>3 DEF OpenEmits, Log!Race
    <3>2. QED
      BY <3>1
  <2>4. CASE twice' = twice
    BY <2>1, <2>2, <2>4 DEF OpenEmits, Log!vars
  <2>5. QED
    BY <2>1, <2>3, <2>4
<1>8. CASE Kill(p)
  <2>1. Ended(p) /\ UNCHANGED <<events, acked, short, twice>>
    BY <1>8, EndEffect DEF Kill
  <2>2. CASE pc[p] \in Emitting
    BY <2>1, <2>2, FailLoses
  <2>3. CASE pc[p] \notin Emitting
    BY <2>1, <2>3, OpenIdles DEF OpenEmits, Log!vars, Ended, Emitting
  <2>4. QED
    BY <2>2, <2>3
<1>9. QED
  BY <1>1, <1>2, <1>3, <1>4, <1>5, <1>6, <1>7, <1>8 DEF Step, ProcStep

(* The trace implements the log: appendTraceEvent, emitTraceEvent and      *)
(* reconcileIndex in any number of processes, with their faults and kills, *)
(* append to one log that keeps what it has acknowledged.                  *)
THEOREM LogRefined == Spec => KeepsTheLog
<1>1. Init => Log!Init
  BY DEF Init, Log!Init, Emitting
<1>2. IInv /\ [Next]_vars => [Log!Next]_(Log!vars)
  <2>1. SUFFICES ASSUME IInv, [Next]_vars PROVE [Log!Next]_(Log!vars)
    OBVIOUS
  <2>2. CASE UNCHANGED vars
    BY <2>2 DEF vars, Log!vars
  <2>3. CASE Next
    <3>1. PICK p \in Procs : Step(p)
      BY <2>3 DEF Next, Step
    <3>2. QED
      BY <2>1, <3>1, LogStep DEF Log!Next
  <2>4. QED
    BY <2>1, <2>2, <2>3
<1>3. QED
  BY <1>1, <1>2, Invariance, PTL DEF Spec, KeepsTheLog, Log!Spec
===============================================================================
