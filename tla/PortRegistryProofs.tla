--------------------------- MODULE PortRegistryProofs ---------------------------
(***************************************************************************)
(* Proofs about PortRegistry, for any sets of processes, worktrees and     *)
(* ports.                                                                  *)
(*                                                                         *)
(* The file is always some call's load with entries dropped and at most    *)
(* one added, so what must hold of the file must hold of every load,       *)
(* however old (BlobsUnique); and what the file says of the calls that     *)
(* went through, a load says as long as it is not behind (BlobsInStep).    *)
(***************************************************************************)
EXTENDS PortRegistry, TLAPS

Unique(t) == \A v, w \in Worktrees : t[v] = t[w] /\ t[v] # None => v = w

(* An entry is the latest, or missing for a worktree that has been away.   *)
Tells(t) == \A w \in Worktrees : t[w] = latest[w] \/ (t[w] = None /\ w \notin stood)

BlobsUnique == \A p \in Procs : Unique(blob[p])

BlobsInStep ==
  /\ \A p \in behind : pc[p] # "idle"
  /\ \A p \in Procs : pc[p] # "idle" /\ p \notin behind /\ ~overlapped => Tells(blob[p])

(* The entries that have been looked for are there, or have moved.         *)
SeenOnDisk ==
  \A p \in Procs : pc[p] # "idle" => Entries(blob[p]) \ todo[p] \subseteq disk \union moved[p]

StoodOnDisk == stood \subseteq disk

(* A load that is not behind is the file, but for what it is pruning.      *)
LoadIsFile ==
  \A p \in Procs : pc[p] # "idle" /\ p \notin behind =>
    \A w \in Worktrees :
      \/ blob[p][w] = registry[w]
      \/ blob[p][w] = None /\ w \notin stood /\ pc[p] = "prune" /\ pruned[p]

FinishedPruning == \A p \in Procs : pc[p] = "finish" => todo[p] = {}

IInv ==
  /\ TypeOK
  /\ PortsUnique
  /\ BlobsUnique
  /\ LatestInFile
  /\ BlobsInStep
  /\ SeenOnDisk
  /\ StoodOnDisk
  /\ FinishedPruning
  /\ LoadIsFile

-------------------------------------------------------------------------------
(* What the end of a call leaves.                                          *)
LEMMA EndEffect ==
  ASSUME TypeOK, NEW p \in Procs, End(p)
  PROVE  /\ pc' \in [Procs -> {"idle", "prune", "finish"}]
         /\ op' \in [Procs -> Ops \union {NoOp}]
         /\ blob' \in [Procs -> Tables]
         /\ todo' \in [Procs -> SUBSET Worktrees]
         /\ pruned' \in [Procs -> BOOLEAN]
         /\ moved' \in [Procs -> SUBSET Worktrees]
         /\ disk' = disk
         /\ pc'[p] = "idle" /\ blob'[p] = Empty /\ todo'[p] = {}
         /\ \A q \in Procs \ {p} :
              /\ pc'[q] = pc[q] /\ blob'[q] = blob[q] /\ pruned'[q] = pruned[q]
              /\ todo'[q] = todo[q] /\ moved'[q] = moved[q]
<1>1. Empty \in Tables
  BY DEF Empty, Tables
<1>2. pruned' \in [Procs -> BOOLEAN]
  BY Zenon DEF TypeOK, End
<1>3. op' \in [Procs -> Ops \union {NoOp}]
  BY Zenon DEF TypeOK, End
<1>4. /\ pc' \in [Procs -> {"idle", "prune", "finish"}]
      /\ blob' \in [Procs -> Tables]
      /\ todo' \in [Procs -> SUBSET Worktrees]
      /\ moved' \in [Procs -> SUBSET Worktrees]
  BY <1>1 DEF TypeOK, End
<1>5. \A q \in Procs \ {p} : pruned'[q] = pruned[q]
  BY Zenon DEF TypeOK, End
<1>6. QED
  BY <1>2, <1>3, <1>4, <1>5 DEF TypeOK, End

(* A registration names a worktree and a port, a release a worktree.       *)
LEMMA OpTypes ==
  ASSUME TypeOK, NEW p \in Procs
  PROVE  /\ op[p].kind = "register" => op[p].w \in Worktrees /\ op[p].port \in Ports
         /\ op[p].kind = "release" => op[p].w \in Worktrees
<1>1. op[p] \in Ops \union {NoOp}
  BY DEF TypeOK
<1>2. QED
  BY <1>1 DEF Ops, NoOp

(* Every step keeps the types.                                             *)
LEMMA TypeStep == IInv /\ [Next]_vars => TypeOK'
<1> SUFFICES ASSUME IInv, [Next]_vars PROVE TypeOK'
  OBVIOUS
<1> USE DEF IInv
<1>1. ASSUME NEW w \in Worktrees, CreateWorktree(w) \/ RemoveWorktree(w)
      PROVE  TypeOK'
  <2>1. moved' \in [Procs -> SUBSET Worktrees]
    BY <1>1 DEF CreateWorktree, RemoveWorktree, Move, TypeOK
  <2>2. QED
    BY <1>1, <2>1 DEF CreateWorktree, RemoveWorktree, TypeOK, file
<1>2. ASSUME NEW p \in Procs, NEW o \in Ops, Load(p, o)
      PROVE  TypeOK'
  <2>1. /\ op' \in [Procs -> Ops \union {NoOp}]
        /\ pc' \in [Procs -> {"idle", "prune", "finish"}]
    BY <1>2, Zenon DEF Load, TypeOK
  <2>2. /\ blob' \in [Procs -> Tables]
        /\ todo' \in [Procs -> SUBSET Worktrees]
    BY <1>2 DEF Load, TypeOK, Entries
  <2>3. \A q \in Procs : todo'[q] \subseteq Entries(blob'[q])
    BY <1>2 DEF Load, TypeOK, Entries
  <2>4. QED
    BY <1>2, <2>1, <2>2, <2>3 DEF Load, TypeOK, file
<1>3. ASSUME NEW p \in Procs, NEW w \in Worktrees, Probe(p, w)
      PROVE  TypeOK'
  <2>1. /\ blob' \in [Procs -> Tables]
        /\ todo' \in [Procs -> SUBSET Worktrees]
    <3>1. [blob[p] EXCEPT ![w] = None] \in Tables
      BY DEF TypeOK, Tables
    <3>2. blob' = blob \/ blob' = [blob EXCEPT ![p] = [blob[p] EXCEPT ![w] = None]]
      BY <1>3 DEF Probe
    <3>3. blob' \in [Procs -> Tables]
      BY <3>1, <3>2 DEF TypeOK
    <3>4. QED
      BY <1>3, <3>3 DEF Probe, TypeOK
  <2>2. pruned' \in [Procs -> BOOLEAN]
    BY <1>3, Zenon DEF Probe, TypeOK
  <2>3. \A q \in Procs : todo'[q] \subseteq Entries(blob'[q])
    BY <1>3 DEF Probe, TypeOK, Entries, Tables
  <2>4. QED
    BY <1>3, <2>1, <2>2, <2>3 DEF Probe, TypeOK, file
<1>4. ASSUME NEW p \in Procs, PersistPruned(p)
      PROVE  TypeOK'
  <2>1. overlapped' \in BOOLEAN
    BY <1>4, Zenon DEF PersistPruned, Persist, TypeOK
  <2>2. QED
    BY <1>4, <2>1 DEF PersistPruned, Persist, TypeOK
<1>5. ASSUME NEW p \in Procs, End(p), registry' \in Tables, latest' \in Tables,
             stood' \subseteq Worktrees, behind' \subseteq Procs, overlapped' \in BOOLEAN
      PROVE  TypeOK'
  BY <1>5, EndEffect DEF TypeOK
<1>6. ASSUME NEW p \in Procs, Register(p)
      PROVE  TypeOK'
  <2>1. op[p].w \in Worktrees /\ op[p].port \in Ports
    BY <1>6, OpTypes DEF Register
  <2>2. overlapped' \in BOOLEAN
    BY <1>6, Zenon DEF Register, Persist, TypeOK
  <2>3. registry' \in Tables /\ latest' \in Tables
    BY <1>6, <2>1 DEF Register, Persist, TypeOK, Tables
  <2>4. stood' \subseteq Worktrees /\ behind' \subseteq Procs
    BY <1>6, <2>1 DEF Register, Persist, TypeOK
  <2>5. QED
    BY <1>5, <1>6, <2>2, <2>3, <2>4 DEF Register
<1>7. ASSUME NEW p \in Procs, Release(p)
      PROVE  TypeOK'
  <2>1. op[p].w \in Worktrees
    BY <1>7, OpTypes DEF Release
  <2>2. overlapped' \in BOOLEAN
    BY <1>7, Zenon DEF Release, Persist, TypeOK, file
  <2>3. registry' \in Tables /\ latest' \in Tables
    <3>1. [blob[p] EXCEPT ![op[p].w] = None] \in Tables /\ [latest EXCEPT ![op[p].w] = None] \in Tables
      BY <2>1 DEF TypeOK, Tables
    <3>2. QED
      BY <1>7, <3>1 DEF Release, Persist, TypeOK, file
  <2>4. stood' \subseteq Worktrees /\ behind' \subseteq Procs
    BY <1>7 DEF Release, Persist, TypeOK, file
  <2>5. QED
    BY <1>5, <1>7, <2>2, <2>3, <2>4 DEF Release
<1>8. ASSUME NEW p \in Procs, Refuse(p) \/ Lookup(p) \/ Abandon(p)
      PROVE  TypeOK'
  <2>1. End(p) /\ behind' \subseteq Procs /\ UNCHANGED file
    BY <1>8 DEF Refuse, Lookup, Abandon, TypeOK
  <2>2. QED
    BY <1>5, <2>1 DEF TypeOK, file
<1>9. CASE UNCHANGED vars
  BY <1>9 DEF vars, TypeOK
<1>10. QED
  BY <1>1, <1>2, <1>3, <1>4, <1>6, <1>7, <1>8, <1>9 DEF Next

(* A table with an entry dropped is as unique, and so is one with a port   *)
(* that no other worktree has.                                             *)
LEMMA DropUnique ==
  ASSUME NEW t \in Tables, Unique(t), NEW w \in Worktrees
  PROVE  Unique([t EXCEPT ![w] = None])
BY DEF Unique, Tables

LEMMA AddUnique ==
  ASSUME NEW t \in Tables, Unique(t), NEW w \in Worktrees, NEW port \in Ports,
         \A other \in Worktrees \ {w} : t[other] # port
  PROVE  Unique([t EXCEPT ![w] = port])
BY DEF Unique, Tables

(* Every step keeps the file and the loads unique.                         *)
LEMMA UniqueStep == IInv /\ [Next]_vars => PortsUnique' /\ BlobsUnique'
<1> SUFFICES ASSUME IInv, [Next]_vars PROVE PortsUnique' /\ BlobsUnique'
  OBVIOUS
<1> USE DEF IInv
<1>1. Unique(registry) /\ \A p \in Procs : Unique(blob[p])
  BY DEF PortsUnique, BlobsUnique, Unique
<1>2. SUFFICES Unique(registry') /\ \A p \in Procs : Unique(blob'[p])
  BY DEF PortsUnique, BlobsUnique, Unique
<1>3. Unique(Empty)
  BY DEF Unique, Empty
<1>4. ASSUME NEW w \in Worktrees, CreateWorktree(w) \/ RemoveWorktree(w)
      PROVE  UNCHANGED <<registry, blob>>
  BY <1>4 DEF CreateWorktree, RemoveWorktree, file
<1>5. ASSUME NEW p \in Procs, NEW o \in Ops, Load(p, o)
      PROVE  registry' = registry /\ \A q \in Procs : Unique(blob'[q])
  BY <1>1, <1>5 DEF Load, TypeOK, file
<1>6. ASSUME NEW p \in Procs, NEW w \in Worktrees, Probe(p, w)
      PROVE  registry' = registry /\ \A q \in Procs : Unique(blob'[q])
  <2>1. Unique([blob[p] EXCEPT ![w] = None])
    BY <1>1, DropUnique DEF TypeOK
  <2>2. blob' = blob \/ blob' = [blob EXCEPT ![p][w] = None]
    BY <1>6 DEF Probe
  <2>3. \A q \in Procs : blob'[q] = blob[q] \/ blob'[q] = [blob[p] EXCEPT ![w] = None]
    BY <2>2 DEF TypeOK
  <2>4. \A q \in Procs : Unique(blob'[q])
    BY <1>1, <2>1, <2>3
  <2>5. QED
    BY <1>6, <2>4 DEF Probe, file
<1>7. ASSUME NEW p \in Procs, PersistPruned(p)
      PROVE  registry' = blob[p] /\ blob' = blob
  BY <1>7 DEF PersistPruned, Persist
<1>8. ASSUME NEW p \in Procs, End(p)
      PROVE  \A q \in Procs : Unique(blob'[q])
  <2>1. \A q \in Procs : blob'[q] = blob[q] \/ blob'[q] = Empty
    BY <1>8, EndEffect
  <2>2. QED
    BY <1>1, <1>3, <2>1
<1>9. ASSUME NEW p \in Procs, Register(p)
      PROVE  Unique(registry') /\ End(p)
  <2>1. /\ op[p].w \in Worktrees /\ op[p].port \in Ports
        /\ registry' = [blob[p] EXCEPT ![op[p].w] = op[p].port]
        /\ \A other \in Worktrees \ {op[p].w} : blob[p][other] # op[p].port
    BY <1>9, OpTypes DEF Register, Persist, InUse
  <2>2. QED
    BY <1>1, <1>9, <2>1, AddUnique DEF TypeOK, Register
<1>10. ASSUME NEW p \in Procs, Release(p)
       PROVE  Unique(registry') /\ End(p)
  <2>1. /\ op[p].w \in Worktrees
        /\ registry' = registry \/ registry' = [blob[p] EXCEPT ![op[p].w] = None]
    BY <1>10, OpTypes DEF Release, Persist, file
  <2>2. Unique([blob[p] EXCEPT ![op[p].w] = None])
    BY <1>1, <2>1, DropUnique DEF TypeOK
  <2>3. QED
    BY <1>1, <1>10, <2>1, <2>2 DEF Release
<1>11. ASSUME NEW p \in Procs, Refuse(p) \/ Lookup(p) \/ Abandon(p)
       PROVE  registry' = registry /\ End(p)
  BY <1>11 DEF Refuse, Lookup, Abandon, file
<1>12. CASE UNCHANGED vars
  BY <1>1, <1>12 DEF vars
<1>13. QED
  BY <1>1, <1>4, <1>5, <1>6, <1>7, <1>8, <1>9, <1>10, <1>11, <1>12 DEF Next

(* Every step leaves the worktrees that stood on the disk.                 *)
LEMMA StoodStep == IInv /\ [Next]_vars => StoodOnDisk'
<1> SUFFICES ASSUME IInv, [Next]_vars PROVE StoodOnDisk'
  OBVIOUS
<1> USE DEF IInv, StoodOnDisk
<1>1. ASSUME NEW w \in Worktrees, CreateWorktree(w) \/ RemoveWorktree(w)
      PROVE  StoodOnDisk'
  BY <1>1 DEF CreateWorktree, RemoveWorktree, file
<1>2. ASSUME NEW p \in Procs, Register(p)
      PROVE  StoodOnDisk'
  BY <1>2 DEF Register, End
<1>3. ASSUME NEW p \in Procs, Release(p) \/ Refuse(p) \/ Lookup(p) \/ Abandon(p)
      PROVE  StoodOnDisk'
  BY <1>3 DEF Release, Refuse, Lookup, Abandon, End, file
<1>4. ASSUME NEW p \in Procs,
             \/ \E o \in Ops : Load(p, o)
             \/ \E w \in Worktrees : Probe(p, w)
             \/ PersistPruned(p)
      PROVE  StoodOnDisk'
  BY <1>4 DEF Load, Probe, PersistPruned, file
<1>5. CASE UNCHANGED vars
  BY <1>5 DEF vars
<1>6. QED
  BY <1>1, <1>2, <1>3, <1>4, <1>5 DEF Next

(* Every step keeps the file, and the loads that are not behind, in step   *)
(* with the calls that went through.                                       *)
LEMMA InStepStep == IInv /\ [Next]_vars => LatestInFile' /\ BlobsInStep'
<1> SUFFICES ASSUME IInv, [Next]_vars PROVE LatestInFile' /\ BlobsInStep'
  OBVIOUS
<1> USE DEF IInv
<1>1. /\ ~overlapped => Tells(registry)
      /\ \A p \in behind : pc[p] # "idle"
      /\ \A p \in Procs : pc[p] # "idle" /\ p \notin behind /\ ~overlapped => Tells(blob[p])
  BY DEF LatestInFile, BlobsInStep, Tells
<1>2. SUFFICES /\ ~overlapped' => Tells(registry)'
               /\ \A p \in behind' : pc'[p] # "idle"
               /\ \A p \in Procs : pc'[p] # "idle" /\ p \notin behind' /\ ~overlapped'
                                     => Tells(blob[p])'
  BY DEF LatestInFile, BlobsInStep, Tells
<1>3. ASSUME NEW w \in Worktrees, CreateWorktree(w) \/ RemoveWorktree(w)
      PROVE  \A t : Tells(t) => /\ \A v \in Worktrees : t[v] = latest'[v]
                                                        \/ (t[v] = None /\ v \notin stood')
  BY <1>3 DEF CreateWorktree, RemoveWorktree, Tells, file
<1>4. ASSUME NEW w \in Worktrees, CreateWorktree(w) \/ RemoveWorktree(w)
      PROVE  UNCHANGED <<registry, blob, pc, behind, overlapped>>
  BY <1>4 DEF CreateWorktree, RemoveWorktree, file
<1>5. CASE \E w \in Worktrees : CreateWorktree(w) \/ RemoveWorktree(w)
  BY <1>1, <1>3, <1>4, <1>5 DEF Tells
<1>6. ASSUME NEW p \in Procs, NEW o \in Ops, Load(p, o)
      PROVE  /\ ~overlapped' => Tells(registry)'
             /\ \A q \in behind' : pc'[q] # "idle"
             /\ \A q \in Procs : pc'[q] # "idle" /\ q \notin behind' /\ ~overlapped'
                                   => Tells(blob[q])'
  <2>1. UNCHANGED <<registry, latest, stood, behind, overlapped>>
    BY <1>6 DEF Load, file
  <2>2. /\ pc'[p] = "prune" /\ blob'[p] = registry
        /\ \A q \in Procs \ {p} : pc'[q] = pc[q] /\ blob'[q] = blob[q]
    BY <1>6 DEF Load, TypeOK
  <2>3. behind \subseteq Procs
    BY DEF TypeOK
  <2>4. QED
    BY <1>1, <2>1, <2>2, <2>3 DEF Tells
<1>7. ASSUME NEW p \in Procs, NEW w \in Worktrees, Probe(p, w)
      PROVE  /\ ~overlapped' => Tells(registry)'
             /\ \A q \in behind' : pc'[q] # "idle"
             /\ \A q \in Procs : pc'[q] # "idle" /\ q \notin behind' /\ ~overlapped'
                                   => Tells(blob[q])'
  <2>1. UNCHANGED <<registry, latest, stood, behind, overlapped, pc>> /\ pc[p] # "idle"
    BY <1>7 DEF Probe, file
  <2>2. \A q \in Procs \ {p} : blob'[q] = blob[q]
    BY <1>7 DEF Probe, TypeOK
  <2>3. blob'[p] = blob[p] \/ (w \notin stood /\ blob'[p] = [blob[p] EXCEPT ![w] = None])
    BY <1>7 DEF Probe, TypeOK, StoodOnDisk
  <2>4. blob[p] \in Tables
    BY DEF TypeOK
  <2>5. Tells(blob[p]) => Tells(blob[p])'
    BY <2>1, <2>3, <2>4 DEF Tells, Tables
  <2>6. QED
    BY <1>1, <2>1, <2>2, <2>5 DEF Tells
<1>8. ASSUME NEW p \in Procs, NEW table, Persist(p, table),
             ~overlapped' => Tells(registry)',
             pc'[p] = "idle" \/ (blob'[p] = table /\ pc'[p] = "finish"),
             \A q \in Procs \ {p} : pc'[q] = pc[q]
      PROVE  /\ ~overlapped' => Tells(registry)'
             /\ \A q \in behind' : pc'[q] # "idle"
             /\ \A q \in Procs : pc'[q] # "idle" /\ q \notin behind' /\ ~overlapped'
                                   => Tells(blob[q])'
  <2>1. behind' = {q \in Procs \ {p} : pc[q] # "idle"} /\ registry' = table
    BY <1>8 DEF Persist
  <2>2. pc'[p] # "idle" => Tells(blob[p])' \/ overlapped'
    BY <1>8, <2>1 DEF Tells
  <2>3. QED
    BY <1>8, <2>1, <2>2
<1>9. ASSUME NEW p \in Procs, PersistPruned(p)
      PROVE  /\ ~overlapped' => Tells(registry)'
             /\ pc'[p] = "finish" /\ blob'[p] = blob[p]
             /\ \A q \in Procs \ {p} : pc'[q] = pc[q]
  <2>1. /\ registry' = blob[p] /\ UNCHANGED <<latest, stood, blob>>
        /\ overlapped' = (overlapped \/ p \in behind)
        /\ pc[p] = "prune"
    BY <1>9 DEF PersistPruned, Persist
  <2>2. ~overlapped' => Tells(blob[p])
    BY <1>1, <2>1
  <2>3. ~overlapped' => Tells(registry)'
    BY <2>1, <2>2 DEF Tells
  <2>4. QED
    BY <1>9, <2>1, <2>3 DEF PersistPruned, TypeOK
<1>10. ASSUME NEW p \in Procs, NEW w \in Worktrees, NEW port,
              Persist(p, [blob[p] EXCEPT ![w] = port]),
              latest' = [latest EXCEPT ![w] = port],
              \A v \in Worktrees \ {w} : v \in stood' <=> v \in stood,
              Loaded(p)
       PROVE  ~overlapped' => Tells(registry)'
  <2>1. SUFFICES ASSUME ~overlapped' PROVE Tells(registry)'
    OBVIOUS
  <2>2. ~overlapped /\ p \notin behind /\ registry' = [blob[p] EXCEPT ![w] = port]
    BY <1>10, <2>1 DEF Persist
  <2>3. Tells(blob[p])
    BY <1>1, <1>10, <2>2 DEF Loaded
  <2>4. blob[p] \in Tables /\ latest \in Tables
    BY DEF TypeOK
  <2>5. \A v \in Worktrees \ {w} : registry'[v] = blob[p][v] /\ latest'[v] = latest[v]
    BY <1>10, <2>2, <2>4 DEF Tables
  <2>6. registry'[w] = port /\ latest'[w] = port
    BY <1>10, <2>2, <2>4 DEF Tables
  <2>7. QED
    BY <1>10, <2>3, <2>5, <2>6 DEF Tells
<1>11. ASSUME NEW p \in Procs, End(p), behind' = behind \ {p}, UNCHANGED file
       PROVE  /\ ~overlapped' => Tells(registry)'
              /\ \A q \in behind' : pc'[q] # "idle"
              /\ \A q \in Procs : pc'[q] # "idle" /\ q \notin behind' /\ ~overlapped'
                                    => Tells(blob[q])'
  <2>1. /\ pc'[p] = "idle"
        /\ \A q \in Procs \ {p} : pc'[q] = pc[q] /\ blob'[q] = blob[q]
    BY <1>11, EndEffect
  <2>2. UNCHANGED <<registry, latest, stood, overlapped>> /\ behind \subseteq Procs
    BY <1>11 DEF file, TypeOK
  <2>3. QED
    BY <1>1, <1>11, <2>1, <2>2 DEF Tells
<1>12. ASSUME NEW p \in Procs, Register(p)
       PROVE  /\ ~overlapped' => Tells(registry)'
              /\ pc'[p] = "idle" /\ \A q \in Procs \ {p} : pc'[q] = pc[q]
  <2>1. op[p].w \in Worktrees
    BY <1>12, OpTypes DEF Register
  <2>2. \A v \in Worktrees \ {op[p].w} : v \in stood' <=> v \in stood
    BY <1>12 DEF Register
  <2>3. ~overlapped' => Tells(registry)'
    BY <1>10, <1>12, <2>1, <2>2 DEF Register
  <2>4. QED
    BY <1>12, <2>3, EndEffect DEF Register
<1>13. ASSUME NEW p \in Procs, Release(p), Persist(p, [blob[p] EXCEPT ![op[p].w] = None]),
              latest' = [latest EXCEPT ![op[p].w] = None], UNCHANGED stood
       PROVE  /\ ~overlapped' => Tells(registry)'
              /\ pc'[p] = "idle" /\ \A q \in Procs \ {p} : pc'[q] = pc[q]
  <2>1. op[p].w \in Worktrees /\ Loaded(p)
    BY <1>13, OpTypes DEF Release
  <2>2. ~overlapped' => Tells(registry)'
    BY <1>10, <1>13, <2>1
  <2>3. QED
    BY <1>13, <2>2, EndEffect DEF Release
<1>14. CASE \E p \in Procs : PersistPruned(p)
  BY <1>8, <1>9, <1>14 DEF PersistPruned
<1>15. CASE \E p \in Procs : Register(p)
  BY <1>8, <1>12, <1>15 DEF Register
<1>16. CASE \E p \in Procs : Release(p)
  BY <1>8, <1>11, <1>13, <1>16 DEF Release
<1>17. CASE \E p \in Procs : Refuse(p) \/ Lookup(p) \/ Abandon(p)
  BY <1>11, <1>17 DEF Refuse, Lookup, Abandon
<1>18. CASE UNCHANGED vars
  BY <1>1, <1>18 DEF vars, Tells
<1>19. QED
  BY <1>5, <1>6, <1>7, <1>14, <1>15, <1>16, <1>17, <1>18 DEF Next

(* Every step keeps the entries that have been looked for on the disk, but *)
(* for those that came or went since the load.                             *)
LEMMA SeenStep == IInv /\ [Next]_vars => SeenOnDisk' /\ FinishedPruning'
<1> SUFFICES ASSUME IInv, [Next]_vars PROVE SeenOnDisk' /\ FinishedPruning'
  OBVIOUS
<1> USE DEF IInv, SeenOnDisk, FinishedPruning
<1>1. ASSUME NEW w \in Worktrees, CreateWorktree(w) \/ RemoveWorktree(w)
      PROVE  SeenOnDisk' /\ FinishedPruning'
  <2>1. /\ disk \subseteq disk' \union {w}
        /\ UNCHANGED <<pc, blob, todo>>
    BY <1>1 DEF CreateWorktree, RemoveWorktree
  <2>2. \A p \in Procs : pc[p] # "idle" => moved'[p] = moved[p] \union {w}
    BY <1>1 DEF CreateWorktree, RemoveWorktree, Move
  <2>3. QED
    BY <2>1, <2>2 DEF Entries
<1>2. ASSUME NEW p \in Procs, NEW o \in Ops, Load(p, o)
      PROVE  SeenOnDisk' /\ FinishedPruning'
  <2>1. /\ pc'[p] = "prune" /\ todo'[p] = Entries(blob'[p])
        /\ \A q \in Procs \ {p} : /\ pc'[q] = pc[q] /\ blob'[q] = blob[q]
                                   /\ todo'[q] = todo[q]
        /\ UNCHANGED <<disk, moved>>
    BY <1>2 DEF Load, TypeOK, Entries
  <2>2. QED
    BY <2>1 DEF Entries
<1>3. ASSUME NEW p \in Procs, NEW w \in Worktrees, Probe(p, w)
      PROVE  SeenOnDisk' /\ FinishedPruning'
  <2>1. /\ todo'[p] = todo[p] \ {w} /\ pc[p] = "prune"
        /\ \A q \in Procs \ {p} : blob'[q] = blob[q] /\ todo'[q] = todo[q]
        /\ UNCHANGED <<pc, disk, moved>>
    BY <1>3 DEF Probe, TypeOK
  <2>2. \/ w \in disk /\ blob'[p] = blob[p]
        \/ blob'[p] = [blob[p] EXCEPT ![w] = None]
    BY <1>3 DEF Probe, TypeOK
  <2>3. Entries(blob'[p]) \ todo'[p] \subseteq disk \union moved[p]
    <3>1. blob[p] \in Tables
      BY DEF TypeOK
    <3>2. Entries(blob[p]) \ todo[p] \subseteq disk \union moved[p]
      BY <2>1
    <3>3. QED
      BY <2>1, <2>2, <3>1, <3>2 DEF Entries, Tables
  <2>4. QED
    BY <2>1, <2>3 DEF Entries
<1>4. ASSUME NEW p \in Procs, PersistPruned(p)
      PROVE  SeenOnDisk' /\ FinishedPruning'
  <2>1. /\ pc[p] = "prune" /\ todo[p] = {}
        /\ \A q \in Procs \ {p} : pc'[q] = pc[q]
        /\ UNCHANGED <<disk, blob, todo, moved>>
    BY <1>4 DEF PersistPruned, TypeOK
  <2>2. QED
    BY <2>1 DEF Entries
<1>5. ASSUME NEW p \in Procs, End(p)
      PROVE  SeenOnDisk' /\ FinishedPruning'
  BY <1>5, EndEffect DEF Entries
<1>6. ASSUME NEW p \in Procs,
             Register(p) \/ Refuse(p) \/ Release(p) \/ Lookup(p) \/ Abandon(p)
      PROVE  End(p)
  BY <1>6 DEF Register, Refuse, Release, Lookup, Abandon
<1>7. CASE UNCHANGED vars
  BY <1>7 DEF vars, Entries
<1>8. QED
  BY <1>1, <1>2, <1>3, <1>4, <1>5, <1>6, <1>7 DEF Next

(* Every step keeps the loads that no write has overtaken the file's.      *)
LEMMA LoadStep == IInv /\ [Next]_vars => LoadIsFile'
<1> SUFFICES ASSUME IInv, [Next]_vars PROVE LoadIsFile'
  OBVIOUS
<1> USE DEF IInv
<1>1. ASSUME NEW w \in Worktrees, CreateWorktree(w) \/ RemoveWorktree(w)
      PROVE  LoadIsFile'
  BY <1>1 DEF CreateWorktree, RemoveWorktree, LoadIsFile, file
<1>2. ASSUME NEW p \in Procs, NEW o \in Ops, Load(p, o)
      PROVE  LoadIsFile'
  <2>1. /\ UNCHANGED <<registry, stood, behind, pruned>> /\ blob'[p] = registry
        /\ \A q \in Procs \ {p} : pc'[q] = pc[q] /\ blob'[q] = blob[q]
    BY <1>2 DEF Load, TypeOK, file
  <2>2. QED
    BY <2>1 DEF LoadIsFile
<1>3. ASSUME NEW p \in Procs, NEW w \in Worktrees, Probe(p, w)
      PROVE  LoadIsFile'
  <2>1. CASE w \in disk
    BY <1>3, <2>1 DEF Probe, LoadIsFile, file
  <2>2. CASE w \notin disk
    <3>1. /\ UNCHANGED <<registry, stood, behind, pc>> /\ w \notin stood /\ pc[p] = "prune"
          /\ pruned'[p] /\ \A q \in Procs \ {p} : pruned'[q] = pruned[q]
      BY <1>3, <2>2, Zenon DEF Probe, TypeOK, StoodOnDisk, file
    <3>2. /\ \A q \in Procs \ {p} : blob'[q] = blob[q]
          /\ blob'[p][w] = None /\ \A v \in Worktrees \ {w} : blob'[p][v] = blob[p][v]
      BY <1>3, <2>2 DEF Probe, TypeOK, Tables
    <3>3. \A q \in Procs : pruned[q] => pruned'[q]
      BY <3>1, Zenon
    <3>4. QED
      BY <3>1, <3>2, <3>3 DEF LoadIsFile
  <2>3. QED
    BY <2>1, <2>2
<1>4. ASSUME NEW p \in Procs, NEW table, Persist(p, table),
             pc'[p] = "idle" \/ blob'[p] = table,
             \A q \in Procs \ {p} : pc'[q] = pc[q]
      PROVE  LoadIsFile'
  BY <1>4 DEF Persist, LoadIsFile
<1>5. ASSUME NEW p \in Procs, PersistPruned(p)
      PROVE  LoadIsFile'
  BY <1>4, <1>5 DEF PersistPruned, TypeOK
<1>6. ASSUME NEW p \in Procs, End(p), NEW table, Persist(p, table)
      PROVE  LoadIsFile'
  BY <1>4, <1>6, EndEffect
<1>7. ASSUME NEW p \in Procs, End(p), behind' = behind \ {p}, UNCHANGED file
      PROVE  LoadIsFile'
  <2>1. /\ pc'[p] = "idle" /\ UNCHANGED <<registry, stood>>
        /\ \A q \in Procs \ {p} : pc'[q] = pc[q] /\ blob'[q] = blob[q] /\ pruned'[q] = pruned[q]
    BY <1>7, EndEffect DEF file
  <2>2. QED
    BY <1>7, <2>1 DEF LoadIsFile
<1>8. CASE \E p \in Procs :
             Register(p) \/ Refuse(p) \/ Release(p) \/ Lookup(p) \/ Abandon(p)
  BY <1>6, <1>7, <1>8 DEF Register, Refuse, Release, Lookup, Abandon
<1>9. CASE UNCHANGED vars
  BY <1>9 DEF vars, LoadIsFile
<1>10. QED
  BY <1>1, <1>2, <1>3, <1>5, <1>8, <1>9 DEF Next

-------------------------------------------------------------------------------
(* The initial states satisfy the invariant, and each step keeps it.       *)
LEMMA InitIInv == Init => IInv
<1> SUFFICES ASSUME Init PROVE IInv
  OBVIOUS
<1>1. TypeOK
  <2>1. pruned \in [Procs -> BOOLEAN] /\ overlapped \in BOOLEAN
    BY Zenon DEF Init
  <2>2. Empty \in Tables
    BY DEF Empty, Tables
  <2>3. QED
    BY <2>1, <2>2 DEF Init, TypeOK
<1>2. PortsUnique /\ BlobsUnique
  BY DEF Init, PortsUnique, BlobsUnique, Unique, Empty
<1>3. LatestInFile /\ BlobsInStep
  BY DEF Init, LatestInFile, BlobsInStep, Empty
<1>4. SeenOnDisk /\ StoodOnDisk /\ FinishedPruning /\ LoadIsFile
  BY DEF Init, SeenOnDisk, StoodOnDisk, FinishedPruning, LoadIsFile
<1>5. QED
  BY <1>1, <1>2, <1>3, <1>4 DEF IInv

(* The same for the steps.                                                 *)
LEMMA Inductive == IInv /\ [Next]_vars => IInv'
BY TypeStep, UniqueStep, InStepStep, SeenStep, StoodStep, LoadStep DEF IInv

(* The inductive invariant holds throughout.                               *)
THEOREM Invariance == Spec => []IInv
<1>1. Init => IInv
  BY InitIInv
<1>2. IInv /\ [Next]_vars => IInv'
  BY Inductive
<1>3. QED
  BY <1>1, <1>2, PTL DEF Spec

(* The state of the registry and its calls has the types that TypeOK gives.*)
THEOREM PortTypeCorrect == Spec => []TypeOK
<1>1. IInv => TypeOK
  BY DEF IInv
<1>2. QED
  BY <1>1, Invariance, PTL

(* The calls of any number of processes, interleaved and cut short in any  *)
(* way, never leave one port to two worktrees in the file.                 *)
THEOREM FileUnique == Spec => []PortsUnique
<1>1. IInv => PortsUnique
  BY DEF IInv
<1>2. QED
  BY <1>1, Invariance, PTL

(* As long as no call overwrites what it has not read, the file says what  *)
(* the last register or release of each worktree did, pruning included.    *)
THEOREM LatestSafe == Spec => []LatestInFile
<1>1. IInv => LatestInFile
  BY DEF IInv
<1>2. QED
  BY <1>1, Invariance, PTL

(* What register, release and lookup decide on are entries of worktrees    *)
(* that exist or moved since the load.                                     *)
THEOREM GoneSafe == Spec => []GoneHoldNothing
<1>1. IInv => GoneHoldNothing
  BY DEF IInv, SeenOnDisk, FinishedPruning, GoneHoldNothing, Loaded
<1>2. QED
  BY <1>1, Invariance, PTL

(* Two worktrees that have stood since they were told a port were told     *)
(* different ones, as the comment of PortRegistry has it, unless a call has*)
(* overwritten what it had not read: register's missing lock is the only   *)
(* way to a collision.                                                     *)
THEOREM CollideOnlyOverlapped == Spec => [](overlapped \/ PortsNeverCollide)
<1>1. IInv => overlapped \/ PortsNeverCollide
  <2>1. SUFFICES ASSUME IInv, ~overlapped PROVE PortsNeverCollide
    OBVIOUS
  <2>2. \A w \in stood : w \in Worktrees /\ registry[w] = latest[w]
    BY <2>1 DEF IInv, LatestInFile, TypeOK
  <2>3. QED
    BY <2>1, <2>2 DEF IInv, PortsUnique, PortsNeverCollide
<1>2. QED
  BY <1>1, Invariance, PTL

-------------------------------------------------------------------------------
(* What a call that is not behind decides on is the file.                  *)
LEMMA LoadedIsFile ==
  ASSUME IInv, NEW p \in Procs, Loaded(p), p \notin behind
  PROVE  blob[p] = registry
<1>1. pc[p] # "idle" /\ ~(pc[p] = "prune" /\ pruned[p])
  BY DEF Loaded
<1>2. \A w \in Worktrees : blob[p][w] = registry[w]
  BY <1>1 DEF IInv, LoadIsFile
<1>3. blob[p] \in Tables /\ registry \in Tables
  BY DEF IInv, TypeOK
<1> QED BY <1>2, <1>3 DEF Tables

(* A call that ends without a write returns, and nothing else.             *)
LEMMA EndReturns ==
  ASSUME IInv, NEW p \in Procs, pc[p] # "idle", End(p), behind' = behind \ {p}, UNCHANGED file
  PROVE  Book!Return(p)
<1>1. pc'[p] = "idle" /\ \A q \in Procs \ {p} : pc'[q] = pc[q]
  BY EndEffect DEF IInv
<1> QED BY <1>1 DEF Book!Return, file

(* What a write leaves of the calls, and of the file when the write is one *)
(* by a call that has been overtaken.                                      *)
LEMMA WriteWrites ==
  ASSUME IInv, NEW p \in Procs, pc[p] # "idle", NEW t, Persist(p, t),
         \A q \in Procs \ {p} : pc'[q] = pc[q]
  PROVE  /\ Book!Writes(p)
         /\ pc'[p] = "idle" => {q \in Procs : pc'[q] # "idle"} = {q \in Procs : pc[q] # "idle"} \ {p}
         /\ pc'[p] # "idle" => {q \in Procs : pc'[q] # "idle"} = {q \in Procs : pc[q] # "idle"}
BY DEF Book!Writes, Persist

LEMMA BehindOverwrites ==
  ASSUME IInv, NEW p \in Procs, p \in behind, PortsUnique', registry' \in Tables, Book!Writes(p),
         \/ /\ {q \in Procs : pc'[q] # "idle"} = {q \in Procs : pc[q] # "idle"}
            /\ stood' = stood
         \/ /\ {q \in Procs : pc'[q] # "idle"} = {q \in Procs : pc[q] # "idle"} \ {p}
            /\ \E w \in Worktrees : stood' \in {stood, stood \union {w}, stood \ {w}}
  PROVE  Book!Overwrite(p)
BY DEF Book!Overwrite, Book!Tables, Book!OneEach, Tables, PortsUnique

(* Every step of the calls and of the disk is a step of the book, or leaves*)
(* the book as it is.                                                      *)
LEMMA BookStep == IInv /\ [Next]_vars => [Book!Next]_(Book!vars)
<1> SUFFICES ASSUME IInv, [Next]_vars PROVE [Book!Next]_(Book!vars)
  OBVIOUS
<1>u. PortsUnique' /\ registry' \in Tables
  BY UniqueStep, TypeStep DEF TypeOK
<1>1. ASSUME NEW w \in Worktrees, CreateWorktree(w)
      PROVE  UNCHANGED Book!vars
  BY <1>1 DEF CreateWorktree, Book!vars, file
<1>2. ASSUME NEW w \in Worktrees, RemoveWorktree(w)
      PROVE  Book!Leave(w)
  BY <1>2 DEF RemoveWorktree, Book!Leave
<1>3. ASSUME NEW p \in Procs, NEW o \in Ops, Load(p, o)
      PROVE  Book!Begin(p)
  <2>1. pc[p] = "idle" /\ pc'[p] = "prune" /\ \A q \in Procs \ {p} : pc'[q] = pc[q]
    BY <1>3 DEF Load, IInv, TypeOK
  <2>2. QED
    BY <1>3, <2>1 DEF Load, Book!Begin, file
<1>4. ASSUME NEW p \in Procs, NEW w \in Worktrees, Probe(p, w)
      PROVE  UNCHANGED Book!vars
  BY <1>4 DEF Probe, Book!vars, file
<1>5. ASSUME NEW p \in Procs, PersistPruned(p)
      PROVE  Book!Drop(p) \/ Book!Overwrite(p)
  <2>1. /\ Persist(p, blob[p]) /\ registry' = blob[p] /\ stood' = stood
        /\ pc[p] = "prune" /\ pc'[p] = "finish" /\ \A q \in Procs \ {p} : pc'[q] = pc[q]
    BY <1>5 DEF PersistPruned, Persist, IInv, TypeOK
  <2>2. /\ Book!Writes(p)
        /\ {q \in Procs : pc'[q] # "idle"} = {q \in Procs : pc[q] # "idle"}
    BY <2>1, WriteWrites
  <2>3. CASE p \in behind
    BY <1>u, <2>1, <2>2, <2>3, BehindOverwrites
  <2>4. CASE p \notin behind
    <3> DEFINE gone == {w \in Worktrees : blob[p][w] # registry[w]}
    <3>1. gone \in SUBSET (Worktrees \ stood) /\ \A w \in gone : blob[p][w] = None
      BY <2>1, <2>4 DEF IInv, LoadIsFile
    <3>2. registry' = [w \in Worktrees |-> IF w \in gone THEN None ELSE registry[w]]
      BY <2>1, <3>1 DEF IInv, TypeOK, Tables
    <3> HIDE DEF gone
    <3>3. QED
      BY <2>1, <2>2, <2>4, <3>1, <3>2 DEF Book!Drop
  <2>5. QED
    BY <2>3, <2>4
<1>6. ASSUME NEW p \in Procs, Register(p)
      PROVE  \/ Book!Overwrite(p)
             \/ \E w \in Worktrees, port \in Ports : Book!HandOut(p, w, port)
  <2>a. PICK w \in Worktrees, port \in Ports : op[p].w = w /\ op[p].port = port
    BY <1>6, OpTypes DEF Register, IInv
  <2>1. /\ pc[p] # "idle" /\ End(p) /\ Loaded(p)
        /\ Persist(p, [blob[p] EXCEPT ![w] = port])
        /\ stood' \in {stood \union {w}, stood \ {w}}
        /\ \A other \in Worktrees \ {w} : blob[p][other] # port
    BY <1>6, <2>a DEF Register, Loaded, InUse
  <2>2. pc'[p] = "idle" /\ \A q \in Procs \ {p} : pc'[q] = pc[q]
    BY <2>1, EndEffect DEF IInv
  <2>3. /\ Book!Writes(p)
        /\ {q \in Procs : pc'[q] # "idle"} = {q \in Procs : pc[q] # "idle"} \ {p}
    BY <2>1, <2>2, WriteWrites
  <2>4. CASE p \in behind
    BY <1>u, <2>1, <2>3, <2>4, BehindOverwrites
  <2>5. CASE p \notin behind
    <3>1. blob[p] = registry
      BY <2>1, <2>5, LoadedIsFile
    <3>2. registry' = [registry EXCEPT ![w] = port]
      BY <2>1, <3>1 DEF Persist
    <3>3. Book!HandOut(p, w, port)
      BY <2>1, <2>3, <2>5, <3>1, <3>2 DEF Book!HandOut
    <3>4. QED
      BY <3>3
  <2>6. QED
    BY <2>4, <2>5
<1>7. ASSUME NEW p \in Procs, Release(p)
      PROVE  \/ Book!Overwrite(p) \/ Book!Return(p)
             \/ \E w \in Worktrees : Book!TakeBack(p, w)
  <2>a. PICK w \in Worktrees : op[p].w = w
    BY <1>7, OpTypes DEF Release, IInv
  <2>1. pc[p] # "idle" /\ End(p) /\ Loaded(p)
    BY <1>7 DEF Release, Loaded
  <2>2. pc'[p] = "idle" /\ \A q \in Procs \ {p} : pc'[q] = pc[q]
    BY <2>1, EndEffect DEF IInv
  <2>3. CASE behind' = behind \ {p} /\ UNCHANGED file
    BY <2>1, <2>3, EndReturns
  <2>4. CASE blob[p][w] # None /\ Persist(p, [blob[p] EXCEPT ![w] = None])
             /\ UNCHANGED stood
    <3>1. /\ Book!Writes(p)
          /\ {q \in Procs : pc'[q] # "idle"} = {q \in Procs : pc[q] # "idle"} \ {p}
      BY <2>1, <2>2, <2>4, WriteWrites
    <3>2. CASE p \in behind
      BY <1>u, <2>1, <2>4, <3>1, <3>2, BehindOverwrites
    <3>3. CASE p \notin behind
      <4>1. blob[p] = registry
        BY <2>1, <3>3, LoadedIsFile
      <4>2. Book!TakeBack(p, w)
        BY <2>4, <3>1, <3>3, <4>1 DEF Book!TakeBack, Persist
      <4>3. QED
        BY <4>2
    <3>4. QED
      BY <3>2, <3>3
  <2>5. QED
    BY <1>7, <2>a, <2>3, <2>4 DEF Release
<1>8. ASSUME NEW p \in Procs, Refuse(p) \/ Lookup(p) \/ Abandon(p)
      PROVE  Book!Return(p)
  BY <1>8, EndReturns DEF Refuse, Lookup, Abandon, Loaded
<1>9. CASE UNCHANGED vars
  BY <1>9 DEF vars, Book!vars
<1>10. QED
  BY <1>1, <1>2, <1>3, <1>4, <1>5, <1>6, <1>7, <1>8, <1>9 DEF Next, Book!Next

(* The registry implements the book: but for the calls that a write has    *)
(* overtaken, each register and release is one step that goes by what the  *)
(* registry says at that step, and what a prune drops has left.            *)
THEOREM BookRefined == Spec => KeepsTheBook
<1>1. Init => Book!Init
  BY DEF Init, Book!Init, Empty
<1>2. QED
  BY <1>1, BookStep, Invariance, PTL DEF Spec, KeepsTheBook, Book!Spec
===============================================================================
