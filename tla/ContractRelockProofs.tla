-------------------------- MODULE ContractRelockProofs -------------------------
(***************************************************************************)
(* Proofs about ContractRelock, for any finite set of calls.               *)
(*                                                                         *)
(* What becomes of the files rests on two things that the code never       *)
(* checks: that no other call is under way while a call is (OneAtATime,    *)
(* from the chain), and that progress.json has not moved since the call    *)
(* read it, if it could be read (InStep).  IInv is the conjunction of these*)
(* with what the files hold at each point of a call.                       *)
(***************************************************************************)
EXTENDS ContractRelock, SequenceTheorems, FiniteSetTheorems, TLAPS

Active(c) == pc[c] \in Busy \union {"round"}
Done == {c \in Calls : pc[c] = "done"}

OneAtATime == \A c, d \in Calls : Active(c) /\ Active(d) => c = d

(* The chain holds the calls that wait, each once, behind the one, if any, *)
(* that is under way.                                                      *)
ChainOrder ==
  /\ \A i \in 1..Len(chain) : pc[chain[i]] = "queued" \/ (i = 1 /\ Active(chain[i]))
  /\ \A i, j \in 1..Len(chain) : chain[i] = chain[j] => i = j
  /\ \A c \in Calls : pc[c] \in {"queued", "round"} => \E i \in 1..Len(chain) : chain[i] = c

(* A call under way knows what progress.json says; a finished one has moved*)
(* the revision on; a failed read only ever gives a lower number.          *)
InStep ==
  /\ \A c \in Calls : Active(c) => prior[c] <= Cardinality(Done) /\ status = "negotiating"
  /\ revision <= Cardinality(Done)
  /\ "misread" \notin mishaps =>
       /\ \A c \in Calls : Active(c) => prior[c] = revision
       /\ \A c \in Calls : pc[c] = "done" => prior[c] < revision

(* What a call has found out about the files holds until it acts on it.    *)
FilesAtHand ==
  \A c \in Calls :
    /\ pc[c] \in {"archive", "swap"} => draft[c] # Missing
    /\ pc[c] \in {"archive", "commit"} => canonical # Missing
    /\ pc[c] \in {"round", "check", "archive"} => ~archived[c]
    /\ pc[c] = "rollback" => archived[c]
    /\ pc[c] \in {"swap", "rollback"} /\ archived[c] =>
         canonical = Missing /\ archive[prior[c]] = reigned[Len(reigned)]
    /\ pc[c] = "swap" /\ ~archived[c] =>
         \/ canonical # Missing /\ "misread" \in mishaps
         \/ canonical = Missing /\ mishaps \intersect {"crash", "headless"} # {}

(* The canonical file, if there is one, is the latest contract; if there is*)
(* none, a call is about to put one there or a mishap has taken it.        *)
LatestReigns ==
  /\ reigned # <<>>
  /\ canonical \in {reigned[Len(reigned)], Missing}
  /\ canonical = Missing =>
       \/ \E c \in Calls : pc[c] \in {"swap", "rollback"}
       \/ mishaps \intersect {"crash", "headless"} # {}

(* RevisionNamesReign, told also of the moment between swap and commit.    *)
ArchivesNameReigns ==
  Truthful =>
    /\ (\A c \in Calls : pc[c] # "commit") => Len(reigned) = revision + 1
    /\ \A c \in Calls : pc[c] = "commit" => Len(reigned) = revision + 2
    /\ \A k \in Revisions : k < Len(reigned) - 1 => archive[k] = reigned[k + 1]

IInv ==
  /\ TypeOK
  /\ OneAtATime
  /\ ChainOrder
  /\ InStep
  /\ FilesAtHand
  /\ LatestReigns
  /\ PriorRecoverable
  /\ ArchivesNameReigns
  /\ StatusTellsRound
  /\ OwnRevision

-------------------------------------------------------------------------------
(* What is left of the chain is a chain.                                   *)
LEMMA BehindType ==
  ASSUME chain \in Seq(Calls), NEW c \in Calls
  PROVE  Behind(c) \in Seq(Calls)
BY DEF Behind

(* The number of re-locks bounds the revision.                             *)
LEMMA RevisionsBound ==
  ASSUME TypeOK, InStep, NEW c \in Calls, pc[c] = "commit"
  PROVE  /\ prior[c] + 1 \in Revisions
         /\ prior[c] + 1 <= Cardinality(Done \union {c})
         /\ 0 \in Revisions
<1>1. IsFiniteSet(Calls) /\ Done \subseteq Calls /\ c \notin Done /\ Done \union {c} \subseteq Calls
  BY RelockConstants DEF Done
<1>2. IsFiniteSet(Done) /\ Cardinality(Done \union {c}) <= Cardinality(Calls)
  BY <1>1, FS_Subset, Zenon
<1>3. Cardinality(Done \union {c}) = Cardinality(Done) + 1
  BY <1>1, <1>2, FS_AddElement, Zenon
<1>4. Cardinality(Done) \in Nat /\ Cardinality(Calls) \in Nat /\ Cardinality(Done \union {c}) \in Nat
  BY <1>1, <1>2, FS_CardinalityType, FS_Subset, Zenon
<1>5. QED
  BY <1>2, <1>3, <1>4 DEF InStep, Active, Busy, TypeOK, Revisions

(* A read gives the revision or 0, and says so.                            *)
LEMMA ReadsAre ==
  ASSUME TypeOK
  PROVE  /\ Reads \subseteq Revisions
         /\ \A found \in Reads : found <= revision /\ Misread(found) \subseteq {"misread"}
         /\ \A found \in Reads : found = revision \/ Misread(found) = {"misread"}
<1>1. 0 \in Revisions /\ revision \in Nat
  BY RelockConstants, FS_CardinalityType DEF Revisions, TypeOK
<1>2. QED
  BY <1>1 DEF Reads, Misread, TypeOK

(* What a step with reads of progress.json does to it, ...                 *)
Reread ==
  /\ revision' \in Revisions /\ revision' <= revision
  /\ mishaps \subseteq mishaps'
  /\ "misread" \notin mishaps' => revision' = revision

(* ... and what an announcement does: the call is active and in step, or   *)
(* it has ended and nothing is written.                                    *)
Announced(c, next) ==
  /\ Reread
  /\ mishaps' \subseteq mishaps \union {"misread"}
  /\ archived' = [archived EXCEPT ![c] = FALSE]
  /\ \E read \in Revisions :
       /\ read <= revision /\ prior' = [prior EXCEPT ![c] = read]
       /\ \/ /\ Goto(c, next) /\ UNCHANGED chain /\ status' = "negotiating"
             /\ "misread" \notin mishaps' => read = revision
          \/ End(c, "failed") /\ UNCHANGED <<progress, mishaps>>
  /\ UNCHANGED <<canonical, archive, reigned>>

LEMMA AnnounceDoes ==
  ASSUME TypeOK, NEW c \in Calls, NEW next, Announce(c, next)
  PROVE  Announced(c, next)
<1>1. revision \in Nat /\ revision \in Revisions
  BY DEF TypeOK, Revisions
<1>2. PICK read \in Reads :
        /\ prior' = [prior EXCEPT ![c] = read]
        /\ \/ \E found \in Reads :
                /\ WriteStatus("negotiating", found)
                /\ mishaps' = mishaps \union Misread(read) \union Misread(found)
                /\ Goto(c, next)
                /\ UNCHANGED chain
           \/ End(c, "failed") /\ UNCHANGED <<progress, mishaps>>
  BY DEF Announce
<1>3. archived' = [archived EXCEPT ![c] = FALSE] /\ UNCHANGED <<canonical, archive, reigned>>
  BY DEF Announce
<1>4. /\ read \in Revisions /\ read <= revision /\ Misread(read) \subseteq {"misread"}
      /\ read = revision \/ Misread(read) = {"misread"}
  BY ReadsAre
<1>5. ASSUME NEW found \in Reads,
             WriteStatus("negotiating", found),
             mishaps' = mishaps \union Misread(read) \union Misread(found),
             Goto(c, next), UNCHANGED chain
      PROVE  Announced(c, next)
  <2>1. /\ found \in Revisions /\ found <= revision /\ Misread(found) \subseteq {"misread"}
        /\ found = revision \/ Misread(found) = {"misread"}
    BY ReadsAre
  <2>2. revision' = found /\ status' = "negotiating"
    BY <1>5 DEF WriteStatus
  <2>3. Reread /\ mishaps' \subseteq mishaps \union {"misread"}
    BY <1>4, <1>5, <2>1, <2>2 DEF Reread
  <2>4. "misread" \notin mishaps' => read = revision
    BY <1>4, <1>5
  <2>5. QED
    BY <1>2, <1>3, <1>4, <1>5, <2>2, <2>3, <2>4 DEF Announced
<1>6. CASE End(c, "failed") /\ UNCHANGED <<progress, mishaps>>
  <2>1. Reread
    BY <1>1, <1>6 DEF Reread, progress
  <2>2. QED
    BY <1>2, <1>3, <1>4, <1>6, <2>1 DEF Announced
<1>7. QED
  BY <1>2, <1>5, <1>6

(* The catch rereads too.                                                  *)
LEMMA RestoreDoes ==
  ASSUME TypeOK, NEW c \in Calls, Restore(c)
  PROVE  /\ Reread
         /\ \/ status' = "building" /\ mishaps' \subseteq mishaps \union {"misread"}
            \/ status' = status /\ mishaps' = mishaps \union {"open"}
         /\ End(c, "failed")
         /\ UNCHANGED <<files, locals, reigned>>
<1>1. revision \in Nat /\ revision \in Revisions
  BY DEF TypeOK, Revisions
<1>2. End(c, "failed") /\ UNCHANGED <<files, locals, reigned>>
  BY DEF Restore
<1>3. ASSUME NEW found \in Reads, WriteStatus("building", found), mishaps' = mishaps \union Misread(found)
      PROVE  Reread /\ status' = "building" /\ mishaps' \subseteq mishaps \union {"misread"}
  BY <1>3, ReadsAre DEF Reread, WriteStatus
<1>4. CASE mishaps' = mishaps \union {"open"} /\ UNCHANGED progress
  BY <1>1, <1>2, <1>4 DEF Reread, progress
<1>5. QED
  BY <1>2, <1>3, <1>4 DEF Restore

(* Every step keeps the types.                                            *)
LEMMA TypeStep == IInv /\ [Next]_vars => TypeOK'
<1> SUFFICES ASSUME IInv, [Next]_vars PROVE TypeOK'
  OBVIOUS
<1> USE RelockConstants DEF IInv, TypeOK, Contracts, Points, Mishaps
<1>1. ASSUME NEW c \in Calls, Request(c)
      PROVE  TypeOK'
  BY <1>1 DEF Request, Goto, files, progress, locals, ghosts
<1>2. ASSUME NEW c \in Calls, StartTool(c)
      PROVE  TypeOK'
  <2>1. Announced(c, "check")
    BY <1>2, AnnounceDoes DEF StartTool
  <2>2. /\ prior' \in [Calls -> Revisions] /\ archived' \in [Calls -> BOOLEAN]
        /\ draft' \in [Calls -> Calls \union {Missing}]
    <3>1. draft' \in {draft, [draft EXCEPT ![c] = c]}
      BY <1>2 DEF StartTool
    <3>2. draft' \in [Calls -> Calls \union {Missing}]
      BY <3>1
    <3>3. QED
      BY <2>1, <3>2 DEF Announced
  <2>3. /\ pc' \in [Calls -> Points] /\ status' \in {"building", "negotiating"}
        /\ revision' \in Revisions /\ mishaps' \subseteq Mishaps
    BY <2>1 DEF Announced, Reread, End, Goto, progress
  <2>4. chain' \in Seq(Calls)
    BY <2>1, BehindType DEF Announced, End
  <2>5. QED
    BY <2>1, <2>2, <2>3, <2>4 DEF Announced
<1>3. ASSUME NEW c \in Calls, Start(c)
      PROVE  TypeOK'
  <2>1. Announced(c, "round")
    BY <1>3, AnnounceDoes DEF Start
  <2>2. /\ prior' \in [Calls -> Revisions] /\ archived' \in [Calls -> BOOLEAN]
        /\ draft' \in [Calls -> Calls \union {Missing}]
    BY <1>3, <2>1 DEF Start, Announced
  <2>3. /\ pc' \in [Calls -> Points] /\ status' \in {"building", "negotiating"}
        /\ revision' \in Revisions /\ mishaps' \subseteq Mishaps
    BY <2>1 DEF Announced, Reread, End, Goto, progress
  <2>4. chain' \in Seq(Calls)
    BY <2>1, BehindType DEF Announced, End
  <2>5. QED
    BY <2>1, <2>2, <2>3, <2>4 DEF Announced
<1>4. ASSUME NEW c \in Calls, EndRound(c)
      PROVE  TypeOK'
  BY <1>4 DEF EndRound, Goto, progress, locals, ghosts
<1>5. ASSUME NEW c \in Calls, CheckDraft(c)
      PROVE  TypeOK'
  BY <1>5 DEF CheckDraft, Goto, files, progress, locals, ghosts
<1>6. ASSUME NEW c \in Calls, Archive(c)
      PROVE  TypeOK'
  <2>1. archive' \in [Revisions -> Contracts \union {Missing}]
    BY <1>6 DEF Archive
  <2>2. pc' \in [Calls -> Points] /\ archived' \in [Calls -> BOOLEAN]
    BY <1>6 DEF Archive, Goto
  <2>3. QED
    BY <1>6, <2>1, <2>2 DEF Archive, progress, ghosts
<1>7. ASSUME NEW c \in Calls, Swap(c)
      PROVE  TypeOK'
  <2>1. draft[c] \in Calls
    <3>1. pc[c] = "swap"
      BY <1>7 DEF Swap
    <3>2. draft[c] # Missing
      BY <3>1 DEF FilesAtHand
    <3>3. QED
      BY <3>2
  <2>2. canonical' \in Contracts \union {Missing} /\ draft' \in [Calls -> Calls \union {Missing}]
    <3>1. draft' = draft \/ draft' = [draft EXCEPT ![c] = Missing]
      BY <1>7, Zenon DEF Swap
    <3>2. draft' \in [Calls -> Calls \union {Missing}]
      BY <3>1
    <3>3. QED
      BY <1>7, <2>1, <3>2 DEF Swap
  <2>3. reigned' \in Seq(Contracts)
    <3>1. reigned' = reigned \/ reigned' = Append(reigned, draft[c])
      BY <1>7, Zenon DEF Swap
    <3>2. QED
      BY <2>1, <3>1
  <2>4. pc' \in [Calls -> Points]
    BY <1>7 DEF Swap, Goto
  <2>5. QED
    BY <1>7, <2>2, <2>3, <2>4 DEF Swap, progress, locals
<1>8. ASSUME NEW c \in Calls, Rollback(c)
      PROVE  TypeOK'
  <2>1. /\ canonical' \in Contracts \union {Missing}
        /\ archive' \in [Revisions -> Contracts \union {Missing}]
    BY <1>8 DEF Rollback
  <2>2. /\ pc' \in [Calls -> Points] /\ archived' \in [Calls -> BOOLEAN]
        /\ mishaps' \subseteq Mishaps
    BY <1>8 DEF Rollback, Goto
  <2>3. QED
    BY <1>8, <2>1, <2>2 DEF Rollback, progress
<1>9. ASSUME NEW c \in Calls, Commit(c)
      PROVE  TypeOK'
  <2>1. prior[c] + 1 \in Revisions
    BY <1>9, RevisionsBound DEF Commit
  <2>2. revision' \in Revisions
    BY <1>9, <2>1 DEF Commit, progress
  <2>3. /\ pc' \in [Calls -> Points] /\ status' \in {"building", "negotiating"}
        /\ mishaps' \subseteq Mishaps
    BY <1>9 DEF Commit, End, Goto, progress
  <2>4. chain' \in Seq(Calls)
    BY <1>9, BehindType DEF Commit, End
  <2>5. QED
    BY <1>9, <2>2, <2>3, <2>4 DEF Commit, files, locals
<1>10. ASSUME NEW c \in Calls, Restore(c)
       PROVE  TypeOK'
  BY <1>10, RestoreDoes, BehindType DEF Restore, Reread, End, Goto, files, locals
<1>11. CASE Crash
  BY <1>11 DEF Crash, files, progress, locals
<1>12. CASE UNCHANGED vars
  BY <1>12 DEF vars
<1>13. QED
  BY <1>1, <1>2, <1>3, <1>4, <1>5, <1>6, <1>7, <1>8, <1>9,
     <1>10, <1>11, <1>12 DEF Next, CallStep

(* The call at the head of the chain starts when no other is under way.    *)
LEMMA NoneUnderWay ==
  ASSUME TypeOK, ChainOrder, NEW c \in Calls, Start(c)
  PROVE  /\ \A d \in Calls : ~Active(d)
         /\ chain # <<>> /\ chain[1] = c
<1>1. pc[c] = "queued" /\ Head(chain) = c /\ Quiet
  BY DEF Start
<1>2. PICK i \in 1..Len(chain) : chain[i] = c
  BY <1>1 DEF ChainOrder
<1>3. chain # <<>> /\ chain[1] = c
  BY <1>1, <1>2 DEF TypeOK
<1>4. ASSUME NEW d \in Calls, Active(d) PROVE FALSE
  <2>1. pc[d] = "round"
    BY <1>1, <1>4 DEF Active, Quiet
  <2>2. PICK j \in 1..Len(chain) : chain[j] = d
    BY <2>1 DEF ChainOrder
  <2>3. j = 1
    BY <2>1, <2>2 DEF ChainOrder
  <2>4. QED
    BY <1>1, <1>3, <2>1, <2>2, <2>3
<1>5. QED
  BY <1>3, <1>4

(* No call starts while another one is under way.                         *)
LEMMA OneStep == IInv /\ [Next]_vars => OneAtATime'
<1> SUFFICES ASSUME IInv, [Next]_vars PROVE OneAtATime'
  OBVIOUS
<1> USE RelockConstants DEF IInv, TypeOK, OneAtATime, ChainOrder, Active, Busy, Points, Settled
<1>1. ASSUME NEW c \in Calls, Request(c)
      PROVE  OneAtATime'
  BY <1>1 DEF Request, Goto, files, progress, locals, ghosts
<1>2. ASSUME NEW c \in Calls, StartTool(c)
      PROVE  OneAtATime'
  <2>1. Announced(c, "check")
    BY <1>2, AnnounceDoes DEF StartTool
  <2>2. QED
    BY <1>2, <2>1 DEF StartTool, Announced, Reread, End, Goto, progress, Quiet
<1>3. ASSUME NEW c \in Calls, Start(c)
      PROVE  OneAtATime'
  <2>1. \A d \in Calls : ~Active(d)
    BY <1>3, NoneUnderWay
  <2>2. Announced(c, "round")
    BY <1>3, AnnounceDoes DEF Start
  <2>3. QED
    BY <1>3, <2>1, <2>2 DEF Announced, End, Goto
<1>4. ASSUME NEW c \in Calls, EndRound(c)
      PROVE  OneAtATime'
  BY <1>4 DEF EndRound, Goto, progress, locals, ghosts
<1>5. ASSUME NEW c \in Calls, CheckDraft(c)
      PROVE  OneAtATime'
  BY <1>5 DEF CheckDraft, Goto, files, progress, locals, ghosts
<1>6. ASSUME NEW c \in Calls, Archive(c)
      PROVE  OneAtATime'
  BY <1>6 DEF Archive, Goto, progress, ghosts
<1>7. ASSUME NEW c \in Calls, Swap(c)
      PROVE  OneAtATime'
  BY <1>7 DEF Swap, Goto, progress, locals
<1>8. ASSUME NEW c \in Calls, Rollback(c)
      PROVE  OneAtATime'
  BY <1>8 DEF Rollback, Goto, progress
<1>9. ASSUME NEW c \in Calls, Commit(c)
      PROVE  OneAtATime'
  BY <1>9 DEF Commit, End, Goto, files, progress, locals
<1>10. ASSUME NEW c \in Calls, Restore(c)
       PROVE  OneAtATime'
  BY <1>10, RestoreDoes DEF Restore, Reread, End, Goto, files, locals
<1>11. CASE Crash
  BY <1>11 DEF Crash
<1>12. CASE UNCHANGED vars
  BY <1>12 DEF vars
<1>13. QED
  BY <1>1, <1>2, <1>3, <1>4, <1>5, <1>6, <1>7, <1>8, <1>9,
     <1>10, <1>11, <1>12 DEF Next, CallStep

(* When a call whose turn it is settles, the calls behind it wait on.       *)
LEMMA BehindOrder ==
  ASSUME TypeOK, ChainOrder, NEW c \in Calls,
         \A d \in Calls : Active(d) => d = c,
         \A i \in 1..Len(chain) : chain[i] = c => i = 1
  PROVE  /\ \A i \in 1..Len(Behind(c)) : Behind(c)[i] # c /\ pc[Behind(c)[i]] = "queued"
         /\ \A i, j \in 1..Len(Behind(c)) : Behind(c)[i] = Behind(c)[j] => i = j
         /\ \A d \in Calls \ {c} : pc[d] = "queued" =>
              \E i \in 1..Len(Behind(c)) : Behind(c)[i] = d
<1> USE DEF ChainOrder, TypeOK
<1>1. CASE chain # <<>> /\ Head(chain) = c
  <2>1. /\ Behind(c) = Tail(chain) /\ Len(Tail(chain)) = Len(chain) - 1
        /\ chain[1] = c
        /\ \A i \in 1..Len(Tail(chain)) : i + 1 \in 1..Len(chain) /\ Tail(chain)[i] = chain[i + 1]
    BY <1>1 DEF Behind
  <2>2. \A i \in 1..Len(Tail(chain)) : Tail(chain)[i] # c /\ pc[Tail(chain)[i]] = "queued"
    BY <2>1
  <2>3. \A i, j \in 1..Len(Tail(chain)) : Tail(chain)[i] = Tail(chain)[j] => i = j
    BY <2>1
  <2>4. ASSUME NEW d \in Calls \ {c}, pc[d] = "queued"
        PROVE  \E i \in 1..Len(Tail(chain)) : Tail(chain)[i] = d
    <3>1. PICK i \in 1..Len(chain) : chain[i] = d
      BY <2>4
    <3>2. i - 1 \in 1..Len(Tail(chain)) /\ Tail(chain)[i - 1] = d
      BY <2>1, <2>4, <3>1
    <3>3. QED
      BY <3>2
  <2>5. QED
    BY <2>1, <2>2, <2>3, <2>4
<1>2. CASE ~(chain # <<>> /\ Head(chain) = c)
  <2>1. Behind(c) = chain
    BY <1>2 DEF Behind
  <2>2. \A i \in 1..Len(chain) : chain[i] # c
    BY <1>2
  <2>3. \A i \in 1..Len(chain) : chain[i] \in Calls /\ pc[chain[i]] = "queued"
    BY <2>2
  <2>4. QED
    BY <2>1, <2>2, <2>3
<1>3. QED
  BY <1>1, <1>2

(* A call that goes on leaves the chain in order, ...                       *)
LEMMA GoOnOrder ==
  ASSUME TypeOK, ChainOrder, NEW c \in Calls, NEW point \in Busy,
         Active(c), Goto(c, point), UNCHANGED chain
  PROVE  ChainOrder'
<1> USE DEF TypeOK, ChainOrder, Goto, Active, Busy
<1>1. \A i \in 1..Len(chain) : chain[i] \in Calls
  OBVIOUS
<1>2. \A i \in 1..Len(chain) : pc'[chain[i]] = "queued" \/ (i = 1 /\ Active(chain[i])')
  BY <1>1
<1>3. \A d \in Calls : pc'[d] \in {"queued", "round"} => \E i \in 1..Len(chain) : chain[i] = d
  OBVIOUS
<1>4. QED
  BY <1>2, <1>3

(* ... and so does one that settles.                                        *)
LEMMA SettleOrder ==
  ASSUME TypeOK, ChainOrder, NEW c \in Calls, NEW point \in Settled,
         \A d \in Calls : Active(d) => d = c,
         \A i \in 1..Len(chain) : chain[i] = c => i = 1,
         Goto(c, point), chain' = Behind(c)
  PROVE  ChainOrder'
<1> DEFINE rest == Behind(c)
<1>1. /\ \A i \in 1..Len(rest) : rest[i] # c /\ pc[rest[i]] = "queued"
      /\ \A i, j \in 1..Len(rest) : rest[i] = rest[j] => i = j
      /\ \A d \in Calls \ {c} : pc[d] = "queued" => \E i \in 1..Len(rest) : rest[i] = d
      /\ rest \in Seq(Calls)
  <2>1. chain \in Seq(Calls)
    BY DEF TypeOK
  <2>2. rest \in Seq(Calls)
    BY <2>1, BehindType
  <2>3. QED
    BY <2>2, BehindOrder
<1> HIDE DEF rest
<1>2. \A d \in Calls : d # c => pc'[d] = pc[d]
  BY DEF TypeOK, Goto
<1>3. chain' = rest /\ \A i \in 1..Len(rest) : pc'[rest[i]] = "queued"
  BY <1>1, <1>2 DEF rest
<1>4. \A d \in Calls : pc'[d] \in {"queued", "round"} => d # c /\ pc[d] = "queued"
  BY <1>2 DEF TypeOK, Goto, Settled, Active
<1>5. QED
  BY <1>1, <1>3, <1>4 DEF ChainOrder

(* Every step keeps the chain in order.                                   *)
LEMMA OrderStep == IInv /\ [Next]_vars => ChainOrder'
<1> SUFFICES ASSUME IInv, [Next]_vars PROVE ChainOrder'
  OBVIOUS
<1> USE RelockConstants DEF IInv, TypeOK, OneAtATime, ChainOrder, Active, Busy, Points, Settled
<1>1. ASSUME NEW c \in Calls, Request(c)
      PROVE  ChainOrder'
  <2>1. \A i \in 1..Len(chain) : chain[i] # c /\ chain[i] \in Calls
    BY <1>1 DEF Request
  <2>2. /\ chain' = Append(chain, c) /\ Len(chain') = Len(chain) + 1
        /\ \A i \in 1..Len(chain) : chain'[i] = chain[i]
        /\ chain'[Len(chain) + 1] = c
    BY <1>1 DEF Request
  <2>3. \A i \in 1..Len(chain') :
          i = Len(chain) + 1 \/ (i \in 1..Len(chain) /\ chain'[i] = chain[i])
    BY <2>2
  <2>4. pc' = [pc EXCEPT ![c] = "queued"] /\ pc[c] = "new"
    BY <1>1 DEF Request, Goto
  <2>5. \A i \in 1..Len(chain') : pc'[chain'[i]] = "queued" \/ (i = 1 /\ Active(chain[i])')
    <3>1. TAKE i \in 1..Len(chain')
    <3>2. CASE i = Len(chain) + 1
      BY <2>2, <2>4, <3>2
    <3>3. CASE i \in 1..Len(chain) /\ chain'[i] = chain[i]
      <4>1. pc'[chain[i]] = pc[chain[i]]
        BY <2>1, <2>4, <3>3
      <4>2. QED
        BY <3>3, <4>1
    <3>4. QED
      BY <2>3, <3>2, <3>3
  <2>6. \A i, j \in 1..Len(chain') : chain'[i] = chain'[j] => i = j
    BY <2>1, <2>2, <2>3
  <2>7. ASSUME NEW d \in Calls, pc'[d] \in {"queued", "round"}
        PROVE  \E i \in 1..Len(chain') : chain'[i] = d
    <3>1. CASE d = c
      BY <2>2, <3>1
    <3>2. CASE d # c
      <4>1. PICK i \in 1..Len(chain) : chain[i] = d
        BY <2>4, <2>7, <3>2
      <4>2. i \in 1..Len(chain') /\ chain'[i] = d
        BY <2>2, <4>1
      <4>3. QED
        BY <4>2
    <3>3. QED
      BY <3>1, <3>2
  <2>8. QED
    BY <2>5, <2>6, <2>7
<1>2. ASSUME NEW c \in Calls, StartTool(c)
      PROVE  ChainOrder'
  <2>1. Behind(c) = <<>> /\ chain = <<>>
    BY <1>2 DEF StartTool, Behind
  <2>2. Announced(c, "check")
    BY <1>2, AnnounceDoes DEF StartTool
  <2>3. QED
    BY <1>2, <2>1, <2>2 DEF StartTool, Announced, End, Goto
<1>3. ASSUME NEW c \in Calls, Start(c)
      PROVE  ChainOrder'
  <2>1. /\ \A d \in Calls : ~Active(d)
        /\ chain # <<>> /\ chain[1] = c
    BY <1>3, NoneUnderWay
  <2>2. \A i \in 1..Len(chain) : chain[i] = c => i = 1
    BY <2>1
  <2>3. CASE End(c, "failed")
    BY <2>1, <2>2, <2>3, SettleOrder DEF End
  <2>4. CASE chain' = chain /\ Goto(c, "round")
    BY <1>3, <2>1, <2>2, <2>4 DEF Goto
  <2>5. Announced(c, "round")
    BY <1>3, AnnounceDoes DEF Start
  <2>6. QED
    BY <2>3, <2>4, <2>5 DEF Announced
<1>4. ASSUME NEW c \in Calls, EndRound(c)
      PROVE  ChainOrder'
  <2>1. Active(c)
    BY <1>4 DEF EndRound
  <2>2. PICK point \in Busy : Goto(c, point)
    BY <1>4 DEF EndRound
  <2>3. QED
    BY <1>4, <2>1, <2>2, GoOnOrder DEF EndRound
<1>5. ASSUME NEW c \in Calls, CheckDraft(c)
      PROVE  ChainOrder'
  <2>1. Active(c)
    BY <1>5 DEF CheckDraft
  <2>2. PICK point \in Busy : Goto(c, point)
    BY <1>5 DEF CheckDraft
  <2>3. QED
    BY <1>5, <2>1, <2>2, GoOnOrder DEF CheckDraft
<1>6. ASSUME NEW c \in Calls, Archive(c)
      PROVE  ChainOrder'
  <2>1. Active(c)
    BY <1>6 DEF Archive
  <2>2. PICK point \in Busy : Goto(c, point)
    BY <1>6 DEF Archive
  <2>3. QED
    BY <1>6, <2>1, <2>2, GoOnOrder DEF Archive
<1>7. ASSUME NEW c \in Calls, Swap(c)
      PROVE  ChainOrder'
  <2>1. Active(c)
    BY <1>7 DEF Swap
  <2>2. PICK point \in Busy : Goto(c, point)
    BY <1>7 DEF Swap
  <2>3. QED
    BY <1>7, <2>1, <2>2, GoOnOrder DEF Swap
<1>8. ASSUME NEW c \in Calls, Rollback(c)
      PROVE  ChainOrder'
  <2>1. Active(c)
    BY <1>8 DEF Rollback
  <2>2. PICK point \in Busy : Goto(c, point)
    BY <1>8 DEF Rollback
  <2>3. QED
    BY <1>8, <2>1, <2>2, GoOnOrder DEF Rollback
<1>9. ASSUME NEW c \in Calls, Commit(c)
      PROVE  ChainOrder'
  <2>1. /\ Active(c)
        /\ \A d \in Calls : Active(d) => d = c
        /\ \A i \in 1..Len(chain) : chain[i] = c => i = 1
    BY <1>9 DEF Commit
  <2>2. CASE End(c, "done")
    BY <2>1, <2>2, SettleOrder DEF End
  <2>3. CASE Goto(c, "restore") /\ UNCHANGED chain
    BY <2>1, <2>3, GoOnOrder
  <2>4. QED
    BY <1>9, <2>2, <2>3 DEF Commit
<1>10. ASSUME NEW c \in Calls, Restore(c)
       PROVE  ChainOrder'
  <2>1. /\ Active(c)
        /\ \A d \in Calls : Active(d) => d = c
        /\ \A i \in 1..Len(chain) : chain[i] = c => i = 1
    BY <1>10 DEF Restore
  <2>2. CASE End(c, "failed")
    BY <2>1, <2>2, SettleOrder DEF End
  <2>3. QED
    BY <1>10, <2>2 DEF Restore
<1>11. CASE Crash
  BY <1>11 DEF Crash
<1>12. CASE UNCHANGED vars
  BY <1>12 DEF vars
<1>13. QED
  BY <1>1, <1>2, <1>3, <1>4, <1>5, <1>6, <1>7, <1>8, <1>9,
     <1>10, <1>11, <1>12 DEF Next, CallStep

(* Revisions are numbers.                                                  *)
LEMMA RevisionsAreNats ==
  ASSUME TypeOK
  PROVE  revision \in Nat /\ \A c \in Calls : prior[c] \in Nat
BY DEF TypeOK, Revisions

LEMMA DoneIsFinite == Cardinality(Done) \in Nat /\ IsFiniteSet(Done)
<1>1. IsFiniteSet(Calls) /\ Done \subseteq Calls
  BY RelockConstants DEF Done
<1>2. QED
  BY <1>1, FS_Subset, FS_CardinalityType, Zenon

(* Every step keeps the call under way in step with progress.json.        *)
LEMMA InStepStep == IInv /\ [Next]_vars => InStep'
<1> SUFFICES ASSUME IInv, [Next]_vars PROVE InStep'
  OBVIOUS
<1> USE RelockConstants DEF IInv, TypeOK, OneAtATime, ChainOrder, InStep, Active, Busy, Points, Settled
<1>1. ASSUME NEW c \in Calls, Request(c)
      PROVE  InStep'
  <2>1. Done' = Done
    BY <1>1 DEF Done, Request, Goto, files, progress, locals, ghosts
  <2>2. QED
    BY <1>1, <2>1 DEF Request, Goto, files, progress, locals, ghosts
<1>2. ASSUME NEW c \in Calls, StartTool(c)
      PROVE  InStep'
  <2>1. Announced(c, "check")
    BY <1>2, AnnounceDoes DEF StartTool
  <2>2. Done' = Done
    BY <1>2, <2>1 DEF Done, StartTool, Announced, End, Goto
  <2>3. \A d \in Calls : ~Active(d)
    BY <1>2 DEF StartTool, Quiet
  <2>4. PICK read \in Revisions :
          /\ read <= revision /\ prior' = [prior EXCEPT ![c] = read]
          /\ \/ /\ Goto(c, "check") /\ UNCHANGED chain /\ status' = "negotiating"
                /\ "misread" \notin mishaps' => read = revision
             \/ End(c, "failed") /\ UNCHANGED <<progress, mishaps>>
    BY <2>1 DEF Announced
  <2>5. Reread /\ Cardinality(Done) \in Nat /\ revision \in Nat /\ revision' \in Nat /\ read \in Nat
    BY <2>1, RevisionsAreNats, DoneIsFinite DEF Announced, Reread, Revisions
  <2>6. \A d \in Calls : Active(d)' => d = c /\ Goto(c, "check")
    BY <2>3, <2>4 DEF End, Goto
  <2>7. \A d \in Calls : Active(d)' => prior'[d] <= Cardinality(Done) /\ status' = "negotiating"
    BY <2>4, <2>5, <2>6 DEF End, Goto
  <2>8. revision' <= Cardinality(Done)
    BY <2>5 DEF Reread
  <2>9. ASSUME "misread" \notin mishaps'
        PROVE  /\ \A d \in Calls : Active(d)' => prior'[d] = revision'
               /\ \A d \in Calls : pc'[d] = "done" => prior'[d] < revision'
    <3>1. "misread" \notin mishaps /\ revision' = revision
      BY <2>5, <2>9 DEF Reread
    <3>2. \A d \in Calls : Active(d)' => prior'[d] = revision'
      BY <2>4, <2>6, <2>9, <3>1 DEF End, Goto
    <3>3. \A d \in Calls : pc'[d] = "done" => d # c /\ pc[d] = "done"
      BY <2>4 DEF End, Goto
    <3>4. QED
      BY <2>4, <3>1, <3>2, <3>3
  <2>10. QED
    BY <2>2, <2>7, <2>8, <2>9
<1>3. ASSUME NEW c \in Calls, Start(c)
      PROVE  InStep'
  <2>1. Announced(c, "round")
    BY <1>3, AnnounceDoes DEF Start
  <2>2. Done' = Done
    BY <1>3, <2>1 DEF Done, Start, Announced, End, Goto
  <2>3. \A d \in Calls : ~Active(d)
    BY <1>3, NoneUnderWay
  <2>4. PICK read \in Revisions :
          /\ read <= revision /\ prior' = [prior EXCEPT ![c] = read]
          /\ \/ /\ Goto(c, "round") /\ UNCHANGED chain /\ status' = "negotiating"
                /\ "misread" \notin mishaps' => read = revision
             \/ End(c, "failed") /\ UNCHANGED <<progress, mishaps>>
    BY <2>1 DEF Announced
  <2>5. Reread /\ Cardinality(Done) \in Nat /\ revision \in Nat /\ revision' \in Nat /\ read \in Nat
    BY <2>1, RevisionsAreNats, DoneIsFinite DEF Announced, Reread, Revisions
  <2>6. \A d \in Calls : Active(d)' => d = c /\ Goto(c, "round")
    BY <2>3, <2>4 DEF End, Goto
  <2>7. \A d \in Calls : Active(d)' => prior'[d] <= Cardinality(Done) /\ status' = "negotiating"
    BY <2>4, <2>5, <2>6 DEF End, Goto
  <2>8. revision' <= Cardinality(Done)
    BY <2>5 DEF Reread
  <2>9. ASSUME "misread" \notin mishaps'
        PROVE  /\ \A d \in Calls : Active(d)' => prior'[d] = revision'
               /\ \A d \in Calls : pc'[d] = "done" => prior'[d] < revision'
    <3>1. "misread" \notin mishaps /\ revision' = revision
      BY <2>5, <2>9 DEF Reread
    <3>2. \A d \in Calls : Active(d)' => prior'[d] = revision'
      BY <2>4, <2>6, <2>9, <3>1 DEF End, Goto
    <3>3. \A d \in Calls : pc'[d] = "done" => d # c /\ pc[d] = "done"
      BY <2>4 DEF End, Goto
    <3>4. QED
      BY <2>4, <3>1, <3>2, <3>3
  <2>10. QED
    BY <2>2, <2>7, <2>8, <2>9
<1>4. ASSUME NEW c \in Calls, EndRound(c)
      PROVE  InStep'
  <2>1. Done' = Done
    BY <1>4 DEF Done, EndRound, Goto, progress, locals, ghosts
  <2>2. QED
    BY <1>4, <2>1 DEF EndRound, Goto, progress, locals, ghosts
<1>5. ASSUME NEW c \in Calls, CheckDraft(c)
      PROVE  InStep'
  <2>1. Done' = Done
    BY <1>5 DEF Done, CheckDraft, Goto, files, progress, locals, ghosts
  <2>2. QED
    BY <1>5, <2>1 DEF CheckDraft, Goto, files, progress, locals, ghosts
<1>6. ASSUME NEW c \in Calls, Archive(c)
      PROVE  InStep'
  <2>1. Done' = Done
    BY <1>6 DEF Done, Archive, Goto, progress, ghosts
  <2>2. QED
    BY <1>6, <2>1 DEF Archive, Goto, progress, ghosts
<1>7. ASSUME NEW c \in Calls, Swap(c)
      PROVE  InStep'
  <2>1. Done' = Done
    BY <1>7 DEF Done, Swap, Goto, progress, locals
  <2>2. QED
    BY <1>7, <2>1 DEF Swap, Goto, progress, locals
<1>8. ASSUME NEW c \in Calls, Rollback(c)
      PROVE  InStep'
  <2>1. Done' = Done
    BY <1>8 DEF Done, Rollback, Goto, progress
  <2>2. QED
    BY <1>8, <2>1 DEF Rollback, Goto, progress
<1>9. ASSUME NEW c \in Calls, Commit(c)
      PROVE  InStep'
  <2>1. CASE End(c, "done") /\ revision' = prior[c] + 1
    <3>1. Done' = Done \union {c}
      BY <1>9, <2>1 DEF Done, Commit, End, Goto
    <3>2. revision' <= Cardinality(Done')
      BY <1>9, <2>1, <3>1, RevisionsBound DEF Commit
    <3>3. \A d \in Calls : Active(d) => d = c
      BY <1>9 DEF Commit
    <3>4. /\ \A d \in Calls : ~Active(d)'
          /\ prior' = prior /\ prior[c] \in Nat /\ revision \in Nat /\ mishaps \subseteq mishaps'
      BY <1>9, <2>1, <3>3, RevisionsAreNats DEF Commit, End, Goto, locals
    <3>5. ASSUME "misread" \notin mishaps', NEW d \in Calls, pc'[d] = "done"
          PROVE  prior'[d] < revision'
      <4>1. prior[c] = revision /\ \A e \in Calls : pc[e] = "done" => prior[e] < revision
        BY <1>9, <3>4, <3>5 DEF Commit
      <4>2. CASE d = c
        BY <2>1, <3>4, <4>1, <4>2
      <4>3. CASE d # c
        <5>1. pc[d] = "done" /\ prior[d] \in Nat
          BY <2>1, <3>5, <4>3, RevisionsAreNats DEF End, Goto
        <5>2. QED
          BY <2>1, <3>4, <4>1, <5>1
      <4>4. QED
        BY <4>2, <4>3
    <3>6. QED
      BY <3>2, <3>4, <3>5
  <2>2. CASE Goto(c, "restore") /\ UNCHANGED <<progress, chain>>
    <3>1. Done' = Done
      BY <1>9, <2>2 DEF Done, Commit, Goto
    <3>2. QED
      BY <1>9, <2>2, <3>1 DEF Commit, Goto, progress, locals
  <2>3. QED
    BY <1>9, <2>1, <2>2 DEF Commit
<1>10. ASSUME NEW c \in Calls, Restore(c)
       PROVE  InStep'
  <2>1. Done' = Done
    BY <1>10 DEF Done, Restore, End, Goto, files, locals
  <2>2. /\ Reread /\ prior' = prior /\ pc[c] = "restore" /\ End(c, "failed")
        /\ revision \in Nat /\ revision' \in Nat /\ Cardinality(Done) \in Nat
    BY <1>10, RestoreDoes, RevisionsAreNats, DoneIsFinite DEF Restore, Reread, Revisions, locals
  <2>3. \A d \in Calls : ~Active(d)'
    BY <2>2 DEF End, Goto
  <2>4. \A d \in Calls : pc'[d] = "done" => pc[d] = "done"
    BY <2>2 DEF End, Goto
  <2>5. QED
    BY <2>1, <2>2, <2>3, <2>4 DEF Reread
<1>11. CASE Crash
  <2>1. Done' = Done
    BY <1>11 DEF Done, Crash
  <2>2. QED
    BY <1>11, <2>1 DEF Crash, progress, locals
<1>12. CASE UNCHANGED vars
  BY <1>12 DEF vars, Done
<1>13. QED
  BY <1>1, <1>2, <1>3, <1>4, <1>5, <1>6, <1>7, <1>8, <1>9,
     <1>10, <1>11, <1>12 DEF Next, CallStep

(* Every step keeps what the call under way has found out.                *)
LEMMA AtHandStep == IInv /\ [Next]_vars => FilesAtHand'
<1> SUFFICES ASSUME IInv, [Next]_vars PROVE FilesAtHand'
  OBVIOUS
<1> USE RelockConstants DEF IInv, TypeOK, OneAtATime, InStep, FilesAtHand, LatestReigns, Contracts, Active, Busy, Points, Mishaps, Settled
<1>1. ASSUME NEW c \in Calls, Request(c)
      PROVE  FilesAtHand'
  BY <1>1 DEF Request, Goto, files, progress, locals, ghosts
<1>2. ASSUME NEW c \in Calls, StartTool(c)
      PROVE  FilesAtHand'
  <2>1. Announced(c, "check")
    BY <1>2, AnnounceDoes DEF StartTool
  <2>2. QED
    BY <1>2, <2>1 DEF StartTool, Announced, Reread, End, Goto, progress, Quiet
<1>3. ASSUME NEW c \in Calls, Start(c)
      PROVE  FilesAtHand'
  <2>1. Announced(c, "round")
    BY <1>3, AnnounceDoes DEF Start
  <2>2. QED
    BY <1>3, <2>1 DEF Start, Announced, Reread, End, Goto, progress, Quiet
<1>4. ASSUME NEW c \in Calls, EndRound(c)
      PROVE  FilesAtHand'
  BY <1>4 DEF EndRound, Goto, progress, locals, ghosts, Quiet
<1>5. ASSUME NEW c \in Calls, CheckDraft(c)
      PROVE  FilesAtHand'
  BY <1>5 DEF CheckDraft, Goto, files, progress, locals, ghosts
<1>6. ASSUME NEW c \in Calls, Archive(c)
      PROVE  FilesAtHand'
  BY <1>6 DEF Archive, Goto, progress, ghosts
<1>7. ASSUME NEW c \in Calls, Swap(c)
      PROVE  FilesAtHand'
  BY <1>7 DEF Swap, Goto, progress, locals
<1>8. ASSUME NEW c \in Calls, Rollback(c)
      PROVE  FilesAtHand'
  BY <1>8 DEF Rollback, Goto, progress
<1>9. ASSUME NEW c \in Calls, Commit(c)
      PROVE  FilesAtHand'
  BY <1>9 DEF Commit, End, Goto, files, progress, locals
<1>10. ASSUME NEW c \in Calls, Restore(c)
       PROVE  FilesAtHand'
  BY <1>10, RestoreDoes DEF Restore, Reread, End, Goto, files, locals
<1>11. CASE Crash
  BY <1>11 DEF Crash, files, locals
<1>12. CASE UNCHANGED vars
  BY <1>12 DEF vars
<1>13. QED
  BY <1>1, <1>2, <1>3, <1>4, <1>5, <1>6, <1>7, <1>8, <1>9,
     <1>10, <1>11, <1>12 DEF Next, CallStep

(* Every step leaves the latest contract canonical, or its place free.    *)
LEMMA LatestStep == IInv /\ [Next]_vars => LatestReigns'
<1> SUFFICES ASSUME IInv, [Next]_vars PROVE LatestReigns'
  OBVIOUS
<1> USE RelockConstants DEF IInv, TypeOK, OneAtATime, InStep, FilesAtHand, LatestReigns, PriorRecoverable, Contracts, Active, Busy, Points, Mishaps, Settled
<1>1. ASSUME NEW c \in Calls, Request(c)
      PROVE  LatestReigns'
  BY <1>1 DEF Request, Goto, files, progress, locals, ghosts
<1>2. ASSUME NEW c \in Calls, StartTool(c)
      PROVE  LatestReigns'
  <2>1. Announced(c, "check")
    BY <1>2, AnnounceDoes DEF StartTool
  <2>2. QED
    BY <1>2, <2>1 DEF StartTool, Announced, Reread, End, Goto, progress, Quiet
<1>3. ASSUME NEW c \in Calls, Start(c)
      PROVE  LatestReigns'
  <2>1. Announced(c, "round")
    BY <1>3, AnnounceDoes DEF Start
  <2>2. QED
    BY <1>3, <2>1 DEF Start, Announced, Reread, End, Goto, progress, Quiet
<1>4. ASSUME NEW c \in Calls, EndRound(c)
      PROVE  LatestReigns'
  BY <1>4 DEF EndRound, Goto, progress, locals, ghosts, Quiet
<1>5. ASSUME NEW c \in Calls, CheckDraft(c)
      PROVE  LatestReigns'
  BY <1>5 DEF CheckDraft, Goto, files, progress, locals, ghosts
<1>6. ASSUME NEW c \in Calls, Archive(c)
      PROVE  LatestReigns'
  BY <1>6 DEF Archive, Goto, progress, ghosts
<1>7. ASSUME NEW c \in Calls, Swap(c)
      PROVE  LatestReigns'
  BY <1>7 DEF Swap, Goto, progress, locals
<1>8. ASSUME NEW c \in Calls, Rollback(c)
      PROVE  LatestReigns'
  <2>1. canonical = Missing /\ reigned' = reigned /\ pc[c] = "rollback" /\ archived[c]
    BY <1>8 DEF Rollback
  <2>2. canonical' \in {archive[prior[c]], Missing}
    BY <1>8, <2>1 DEF Rollback
  <2>3. archive[prior[c]] = reigned[Len(reigned)]
    BY <2>1
  <2>4. canonical' = Missing => "headless" \in mishaps'
    BY <1>8, <2>1, <2>3 DEF Rollback
  <2>5. QED
    BY <2>1, <2>2, <2>3, <2>4
<1>9. ASSUME NEW c \in Calls, Commit(c)
      PROVE  LatestReigns'
  BY <1>9 DEF Commit, End, Goto, files, progress, locals
<1>10. ASSUME NEW c \in Calls, Restore(c)
       PROVE  LatestReigns'
  BY <1>10, RestoreDoes DEF Restore, Reread, End, Goto, files, locals
<1>11. CASE Crash
  BY <1>11 DEF Crash, files, locals
<1>12. CASE UNCHANGED vars
  BY <1>12 DEF vars
<1>13. QED
  BY <1>1, <1>2, <1>3, <1>4, <1>5, <1>6, <1>7, <1>8, <1>9,
     <1>10, <1>11, <1>12 DEF Next, CallStep

(* While no contract is canonical, the archive has the latest one.        *)
LEMMA RecoverableStep == IInv /\ [Next]_vars => PriorRecoverable'
<1> SUFFICES ASSUME IInv, [Next]_vars PROVE PriorRecoverable'
  OBVIOUS
<1> USE RelockConstants DEF IInv, TypeOK, OneAtATime, InStep, FilesAtHand, LatestReigns, PriorRecoverable, Contracts, Active, Busy, Points, Settled
<1>1. ASSUME NEW c \in Calls, Request(c)
      PROVE  PriorRecoverable'
  BY <1>1 DEF Request, Goto, files, progress, locals, ghosts
<1>2. ASSUME NEW c \in Calls, StartTool(c)
      PROVE  PriorRecoverable'
  <2>1. Announced(c, "check")
    BY <1>2, AnnounceDoes DEF StartTool
  <2>2. QED
    BY <1>2, <2>1 DEF StartTool, Announced, Reread, End, Goto, progress, Quiet
<1>3. ASSUME NEW c \in Calls, Start(c)
      PROVE  PriorRecoverable'
  <2>1. Announced(c, "round")
    BY <1>3, AnnounceDoes DEF Start
  <2>2. QED
    BY <1>3, <2>1 DEF Start, Announced, Reread, End, Goto, progress, Quiet
<1>4. ASSUME NEW c \in Calls, EndRound(c)
      PROVE  PriorRecoverable'
  BY <1>4 DEF EndRound, Goto, progress, locals, ghosts, Quiet
<1>5. ASSUME NEW c \in Calls, CheckDraft(c)
      PROVE  PriorRecoverable'
  BY <1>5 DEF CheckDraft, Goto, files, progress, locals, ghosts
<1>6. ASSUME NEW c \in Calls, Archive(c)
      PROVE  PriorRecoverable'
  BY <1>6 DEF Archive, Goto, progress, ghosts
<1>7. ASSUME NEW c \in Calls, Swap(c)
      PROVE  PriorRecoverable'
  BY <1>7 DEF Swap, Goto, progress, locals
<1>8. ASSUME NEW c \in Calls, Rollback(c)
      PROVE  PriorRecoverable'
  BY <1>8 DEF Rollback, Goto, progress
<1>9. ASSUME NEW c \in Calls, Commit(c)
      PROVE  PriorRecoverable'
  BY <1>9 DEF Commit, End, Goto, files, progress, locals
<1>10. ASSUME NEW c \in Calls, Restore(c)
       PROVE  PriorRecoverable'
  BY <1>10, RestoreDoes DEF Restore, Reread, End, Goto, files, locals
<1>11. CASE Crash
  BY <1>11 DEF Crash, files, progress, locals
<1>12. CASE UNCHANGED vars
  BY <1>12 DEF vars
<1>13. QED
  BY <1>1, <1>2, <1>3, <1>4, <1>5, <1>6, <1>7, <1>8, <1>9,
     <1>10, <1>11, <1>12 DEF Next, CallStep

(* Every step leaves the archives named for the reigns.                   *)
LEMMA ReignsStep == IInv /\ [Next]_vars => ArchivesNameReigns'
<1> SUFFICES ASSUME IInv, [Next]_vars PROVE ArchivesNameReigns'
  OBVIOUS
<1> USE RelockConstants DEF IInv, TypeOK, OneAtATime, InStep, FilesAtHand, LatestReigns, PriorRecoverable, ArchivesNameReigns, Truthful, Contracts, Active, Busy, Points, Settled
<1>1. ASSUME NEW c \in Calls, Request(c)
      PROVE  ArchivesNameReigns'
  BY <1>1 DEF Request, Goto, files, progress, locals, ghosts
<1>2. ASSUME NEW c \in Calls, StartTool(c)
      PROVE  ArchivesNameReigns'
  <2>1. Announced(c, "check")
    BY <1>2, AnnounceDoes DEF StartTool
  <2>2. QED
    BY <1>2, <2>1 DEF StartTool, Announced, Reread, End, Goto, progress, Quiet
<1>3. ASSUME NEW c \in Calls, Start(c)
      PROVE  ArchivesNameReigns'
  <2>1. Announced(c, "round")
    BY <1>3, AnnounceDoes DEF Start
  <2>2. QED
    BY <1>3, <2>1 DEF Start, Announced, Reread, End, Goto, progress, Quiet
<1>4. ASSUME NEW c \in Calls, EndRound(c)
      PROVE  ArchivesNameReigns'
  BY <1>4 DEF EndRound, Goto, progress, locals, ghosts, Quiet
<1>5. ASSUME NEW c \in Calls, CheckDraft(c)
      PROVE  ArchivesNameReigns'
  BY <1>5 DEF CheckDraft, Goto, files, progress, locals, ghosts
<1>6. ASSUME NEW c \in Calls, Archive(c)
      PROVE  ArchivesNameReigns'
  BY <1>6 DEF Archive, Goto, progress, ghosts
<1>7. ASSUME NEW c \in Calls, Swap(c)
      PROVE  ArchivesNameReigns'
  <2>1. CASE Goto(c, "commit") /\ reigned' = Append(reigned, draft[c]) /\ Truthful
    <3>1. \A d \in Calls : pc[d] # "commit" /\ (pc'[d] = "commit" => d = c)
      BY <1>7, <2>1 DEF Swap, Goto
    <3>2. /\ Len(reigned) = revision + 1 /\ revision \in Nat
          /\ archive[revision] = reigned[revision + 1]
      BY <1>7, <2>1, <3>1, RevisionsAreNats DEF Swap
    <3>3. /\ Len(reigned') = revision + 2
          /\ \A k \in 1..(revision + 1) : reigned'[k] = reigned[k]
      BY <1>7, <2>1, <3>2 DEF Swap
    <3>4. \A k \in Revisions : k < revision + 1 => archive[k] = reigned'[k + 1]
      <4>1. \A k \in Revisions : k \in Nat
        BY DEF Revisions
      <4>2. \A k \in Revisions : k < revision => archive[k] = reigned[k + 1]
        BY <2>1, <3>2
      <4>3. \A k \in Revisions : k < revision + 1 => k < revision \/ k = revision
        BY <3>2, <4>1
      <4>4. QED
        BY <3>2, <3>3, <4>1, <4>2, <4>3
    <3>5. pc'[c] = "commit" /\ revision' = revision /\ archive' = archive /\ revision + 2 - 1 = revision + 1
      BY <1>7, <2>1, <3>2 DEF Swap, Goto, progress
    <3>6. /\ ~(\A d \in Calls : pc'[d] # "commit")
          /\ \A d \in Calls : pc'[d] = "commit" => Len(reigned') = revision' + 2
      BY <3>1, <3>3, <3>5
    <3>7. \A k \in Revisions : k < Len(reigned') - 1 => archive'[k] = reigned'[k + 1]
      <4>1. Len(reigned') - 1 = revision + 1
        BY <3>2, <3>3
      <4>2. QED
        BY <3>4, <3>5, <4>1
    <3>8. QED
      BY <3>6, <3>7 DEF ArchivesNameReigns
  <2>2. CASE pc'[c] # "commit" /\ UNCHANGED reigned
    BY <1>7, <2>2 DEF Swap, Goto, progress
  <2>3. CASE ~Truthful
    BY <1>7, <2>3 DEF Swap
  <2>4. QED
    BY <1>7, <2>1, <2>2, <2>3 DEF Swap, Goto
<1>8. ASSUME NEW c \in Calls, Rollback(c)
      PROVE  ArchivesNameReigns'
  <2>1. /\ "misread" \notin mishaps => prior[c] = revision
        /\ reigned' = reigned /\ revision' = revision
        /\ \A d \in Calls : pc[d] # "commit" /\ pc'[d] # "commit"
    BY <1>8 DEF Rollback, Goto, progress
  <2>2. CASE Truthful
    <3>1. Len(reigned) = revision + 1 /\ revision \in Nat
      BY <2>1, <2>2, RevisionsAreNats
    <3>2. \A k \in Revisions : k \in Nat
      BY DEF Revisions
    <3>3. prior[c] = revision
      BY <2>1, <2>2 DEF Truthful
    <3>4. \A k \in Revisions : k # prior[c] => archive'[k] = archive[k]
      BY <1>8 DEF Rollback
    <3>5. \A k \in Revisions : k < revision => archive'[k] = archive[k]
      BY <3>1, <3>2, <3>3, <3>4
    <3>6. \A k \in Revisions : k < Len(reigned) - 1 => archive[k] = reigned[k + 1]
      BY <2>2
    <3>7. QED
      BY <2>1, <3>1, <3>2, <3>5, <3>6
  <2>3. CASE ~Truthful
    BY <1>8, <2>3 DEF Rollback
  <2>4. QED
    BY <2>2, <2>3
<1>9. ASSUME NEW c \in Calls, Commit(c)
      PROVE  ArchivesNameReigns'
  <2>1. CASE ~Truthful'
    BY <2>1
  <2>2. CASE Truthful'
    <3>1. /\ Truthful
          /\ revision' = revision + 1 /\ Goto(c, "done")
          /\ archive' = archive /\ reigned' = reigned
      BY <1>9, <2>2 DEF Commit, End, files
    <3>2. Len(reigned) = revision + 2 /\ revision \in Nat
      BY <1>9, <3>1, RevisionsAreNats DEF Commit
    <3>3. \A d \in Calls : pc'[d] # "commit"
      BY <1>9, <3>1 DEF Commit, Goto
    <3>4. \A k \in Revisions : k < Len(reigned) - 1 => archive[k] = reigned[k + 1]
      BY <3>1
    <3>5. QED
      BY <3>1, <3>2, <3>3, <3>4
  <2>3. QED
    BY <2>1, <2>2
<1>10. ASSUME NEW c \in Calls, Restore(c)
       PROVE  ArchivesNameReigns'
  BY <1>10, RestoreDoes DEF Restore, Reread, End, Goto, files, locals
<1>11. CASE Crash
  BY <1>11 DEF Crash, files, progress, locals
<1>12. CASE UNCHANGED vars
  BY <1>12 DEF vars
<1>13. QED
  BY <1>1, <1>2, <1>3, <1>4, <1>5, <1>6, <1>7, <1>8, <1>9,
     <1>10, <1>11, <1>12 DEF Next, CallStep

(* Every step leaves a status that tells whether a round is in flight.    *)
LEMMA StatusStep == IInv /\ [Next]_vars => StatusTellsRound'
<1> SUFFICES ASSUME IInv, [Next]_vars PROVE StatusTellsRound'
  OBVIOUS
<1> USE RelockConstants DEF IInv, TypeOK, OneAtATime, InStep, StatusTellsRound, Active, Busy, Points, Mishaps, Settled
<1>1. ASSUME NEW c \in Calls, Request(c)
      PROVE  StatusTellsRound'
  BY <1>1 DEF Request, Goto, files, progress, locals, ghosts
<1>2. ASSUME NEW c \in Calls, StartTool(c)
      PROVE  StatusTellsRound'
  <2>1. Announced(c, "check")
    BY <1>2, AnnounceDoes DEF StartTool
  <2>2. QED
    BY <1>2, <2>1 DEF StartTool, Announced, Reread, End, Goto, progress, Quiet
<1>3. ASSUME NEW c \in Calls, Start(c)
      PROVE  StatusTellsRound'
  <2>1. Announced(c, "round")
    BY <1>3, AnnounceDoes DEF Start
  <2>2. QED
    BY <1>3, <2>1 DEF Start, Announced, Reread, End, Goto, progress, Quiet
<1>4. ASSUME NEW c \in Calls, EndRound(c)
      PROVE  StatusTellsRound'
  <2>1. /\ Active(c) /\ pc'[c] \in {"check", "restore"}
        /\ \A d \in Calls : d # c => pc'[d] = pc[d]
        /\ status' = status /\ mishaps' = mishaps
    BY <1>4 DEF EndRound, Goto, progress, ghosts
  <2>2. QED
    BY <2>1
<1>5. ASSUME NEW c \in Calls, CheckDraft(c)
      PROVE  StatusTellsRound'
  BY <1>5 DEF CheckDraft, Goto, files, progress, locals, ghosts
<1>6. ASSUME NEW c \in Calls, Archive(c)
      PROVE  StatusTellsRound'
  BY <1>6 DEF Archive, Goto, progress, ghosts
<1>7. ASSUME NEW c \in Calls, Swap(c)
      PROVE  StatusTellsRound'
  BY <1>7 DEF Swap, Goto, progress, locals
<1>8. ASSUME NEW c \in Calls, Rollback(c)
      PROVE  StatusTellsRound'
  BY <1>8 DEF Rollback, Goto, progress
<1>9. ASSUME NEW c \in Calls, Commit(c)
      PROVE  StatusTellsRound'
  BY <1>9 DEF Commit, End, Goto, files, progress, locals
<1>10. ASSUME NEW c \in Calls, Restore(c)
       PROVE  StatusTellsRound'
  BY <1>10, RestoreDoes DEF Restore, Reread, End, Goto, files, locals
<1>11. CASE Crash
  BY <1>11 DEF Crash, files, progress, locals
<1>12. CASE UNCHANGED vars
  BY <1>12 DEF vars
<1>13. QED
  BY <1>1, <1>2, <1>3, <1>4, <1>5, <1>6, <1>7, <1>8, <1>9,
     <1>10, <1>11, <1>12 DEF Next, CallStep

(* No step gives a revision to a second call.                             *)
LEMMA OwnStep == IInv /\ [Next]_vars => OwnRevision'
<1> SUFFICES ASSUME IInv, [Next]_vars PROVE OwnRevision'
  OBVIOUS
<1> USE RelockConstants DEF IInv, TypeOK, InStep, OwnRevision, Active, Busy, Points, Settled
<1>1. ASSUME NEW c \in Calls, Request(c)
      PROVE  OwnRevision'
  BY <1>1 DEF Request, Goto, files, progress, locals, ghosts
<1>2. ASSUME NEW c \in Calls, StartTool(c)
      PROVE  OwnRevision'
  <2>1. Announced(c, "check")
    BY <1>2, AnnounceDoes DEF StartTool
  <2>2. QED
    BY <1>2, <2>1 DEF StartTool, Announced, Reread, End, Goto, progress, Quiet
<1>3. ASSUME NEW c \in Calls, Start(c)
      PROVE  OwnRevision'
  <2>1. Announced(c, "round")
    BY <1>3, AnnounceDoes DEF Start
  <2>2. QED
    BY <1>3, <2>1 DEF Start, Announced, Reread, End, Goto, progress, Quiet
<1>4. ASSUME NEW c \in Calls, EndRound(c)
      PROVE  OwnRevision'
  <2>1. /\ \A d \in Calls : pc'[d] = "done" => pc[d] = "done"
        /\ prior' = prior /\ mishaps' = mishaps
    BY <1>4 DEF EndRound, Goto, locals, ghosts
  <2>2. QED
    BY <2>1
<1>5. ASSUME NEW c \in Calls, CheckDraft(c)
      PROVE  OwnRevision'
  BY <1>5 DEF CheckDraft, Goto, files, progress, locals, ghosts
<1>6. ASSUME NEW c \in Calls, Archive(c)
      PROVE  OwnRevision'
  BY <1>6 DEF Archive, Goto, progress, ghosts
<1>7. ASSUME NEW c \in Calls, Swap(c)
      PROVE  OwnRevision'
  BY <1>7 DEF Swap, Goto, progress, locals
<1>8. ASSUME NEW c \in Calls, Rollback(c)
      PROVE  OwnRevision'
  BY <1>8 DEF Rollback, Goto, progress
<1>9. ASSUME NEW c \in Calls, Commit(c)
      PROVE  OwnRevision'
  <2>1. prior' = prior /\ mishaps \subseteq mishaps' /\ pc[c] = "commit"
    BY <1>9 DEF Commit, locals
  <2>2. \A d \in Calls : pc'[d] = "done" => d = c \/ pc[d] = "done"
    BY <1>9 DEF Commit, End, Goto
  <2>3. ASSUME "misread" \notin mishaps
        PROVE  \A d \in Calls : pc[d] = "done" => prior[d] # prior[c]
    <3>1. prior[c] = revision
      BY <2>1, <2>3
    <3>2. \A d \in Calls : pc[d] = "done" => prior[d] < revision
      BY <2>3
    <3>3. QED
      BY <3>1, <3>2, RevisionsAreNats
  <2>4. QED
    BY <2>1, <2>2, <2>3
<1>10. ASSUME NEW c \in Calls, Restore(c)
       PROVE  OwnRevision'
  BY <1>10, RestoreDoes DEF Restore, Reread, End, Goto, files, locals
<1>11. CASE Crash
  BY <1>11 DEF Crash, files, progress, locals
<1>12. CASE UNCHANGED vars
  BY <1>12 DEF vars
<1>13. QED
  BY <1>1, <1>2, <1>3, <1>4, <1>5, <1>6, <1>7, <1>8, <1>9,
     <1>10, <1>11, <1>12 DEF Next, CallStep

LEMMA InitIInv == Init => IInv
<1> SUFFICES ASSUME Init PROVE IInv
  OBVIOUS
<1> USE DEF Init, Active, Busy
<1>1. IsFiniteSet(Calls) /\ Cardinality(Calls) \in Nat /\ 0 \in Revisions
  BY RelockConstants, FS_CardinalityType DEF Revisions
<1>2. TypeOK
  BY <1>1, RelockConstants DEF TypeOK, Contracts, Points
<1>3. OneAtATime /\ ChainOrder /\ FilesAtHand /\ StatusTellsRound /\ OwnRevision
  BY DEF OneAtATime, ChainOrder, FilesAtHand, StatusTellsRound, OwnRevision
<1>4. InStep
  <2>1. Done = {}
    BY DEF Done
  <2>2. Cardinality(Done) = 0
    BY <2>1, FS_EmptySet
  <2>3. QED
    BY <2>2 DEF InStep
<1>5. LatestReigns /\ PriorRecoverable /\ ArchivesNameReigns
  BY RelockConstants DEF LatestReigns, PriorRecoverable, ArchivesNameReigns, Contracts, Revisions
<1>6. QED
  BY <1>2, <1>3, <1>4, <1>5 DEF IInv

LEMMA Inductive == Spec => []IInv
<1>1. IInv /\ [Next]_vars => IInv'
  BY TypeStep, OneStep, OrderStep, InStepStep, AtHandStep, LatestStep, RecoverableStep,
     ReignsStep, StatusStep, OwnStep DEF IInv
<1>2. QED
  BY <1>1, InitIInv, PTL DEF Spec

-------------------------------------------------------------------------------
(* Type correctness, for any finite set of calls; in particular, the       *)
(* revision never exceeds the number of calls.                             *)
THEOREM RelockTypeCorrect == Spec => []TypeOK
<1>1. IInv => TypeOK
  BY DEF IInv
<1>2. QED
  BY <1>1, Inductive, PTL

(* Never lost history: whatever calls overlap, fail or are killed, each    *)
(* contract that has been canonical is on disk, unless a swap was left     *)
(* unrecorded or a read failed.                                            *)
THEOREM HistorySafe == Spec => []HistoryKept
<1>1. IInv => HistoryKept
  <2> SUFFICES ASSUME IInv, Truthful, NEW i \in 1..Len(reigned)
               PROVE  reigned[i] \in OnDisk
    BY DEF HistoryKept, Reigned
  <2> USE DEF IInv
  <2>1. /\ reigned[i] \in Contracts /\ reigned[i] # Missing
        /\ Len(reigned) \in Nat /\ revision \in Revisions /\ revision \in Nat
    BY RelockConstants, RevisionsAreNats DEF TypeOK, Contracts
  <2> Cardinality(Calls) \in Nat
    BY RelockConstants, FS_CardinalityType
  <2>2. CASE i = Len(reigned)
    BY <2>1, <2>2 DEF OnDisk, LatestReigns, PriorRecoverable
  <2>3. CASE i < Len(reigned)
    <3>1. Len(reigned) <= revision + 2
      BY <2>1 DEF ArchivesNameReigns
    <3>2. i - 1 \in Revisions /\ i - 1 < Len(reigned) - 1
      BY <2>1, <2>3, <3>1 DEF Revisions
    <3>3. archive[i - 1] = reigned[i - 1 + 1] /\ i - 1 + 1 = i
      BY <3>2 DEF ArchivesNameReigns
    <3>4. QED
      BY <2>1, <3>2, <3>3 DEF OnDisk
  <2>4. QED
    BY <2>1, <2>2, <2>3
<1>2. QED
  BY <1>1, Inductive, PTL

(* What progress.json says of the files is so, whenever no call is between *)
(* its swap and its last write.                                            *)
THEOREM RevisionSafe == Spec => []RevisionNamesReign
<1>1. IInv => RevisionNamesReign
  <2> SUFFICES ASSUME IInv, Truthful, \A c \in Calls : pc[c] # "commit"
               PROVE  /\ Len(reigned) = revision + 1
                      /\ \A k \in Revisions : k < revision => archive[k] = reigned[k + 1]
                      /\ canonical \in {reigned[revision + 1], Missing}
    BY DEF RevisionNamesReign
  <2>1. Len(reigned) = revision + 1 /\ revision \in Nat
    BY RevisionsAreNats DEF IInv, ArchivesNameReigns
  <2>2. \A k \in Revisions : k < revision => archive[k] = reigned[k + 1]
    BY <2>1 DEF IInv, ArchivesNameReigns
  <2>3. QED
    BY <2>1, <2>2 DEF IInv, LatestReigns
<1>2. QED
  BY <1>1, Inductive, PTL

(* When there is no canonical contract, a recovery can find the latest one *)
(* in the archive, under the revision in progress.json unless a read of it *)
(* has failed.                                                             *)
THEOREM RecoverySafe == Spec => []PriorRecoverable
<1>1. IInv => PriorRecoverable
  BY DEF IInv
<1>2. QED
  BY <1>1, Inductive, PTL

(* Between calls a contract is canonical, but for a kill or a failed       *)
(* rollback.                                                               *)
THEOREM CanonicalSafe == Spec => []CanonicalBetweenCalls
<1>1. IInv => CanonicalBetweenCalls
  BY DEF IInv, LatestReigns, CanonicalBetweenCalls, Quiet, Busy
<1>2. QED
  BY <1>1, Inductive, PTL

(* The status tells whether a round is in flight.                          *)
THEOREM StatusSafe == Spec => []StatusTellsRound
<1>1. IInv => StatusTellsRound
  BY DEF IInv
<1>2. QED
  BY <1>1, Inductive, PTL

(* No two calls return the same new revision, unless a read failed.        *)
THEOREM RevisionsOwned == Spec => []OwnRevision
<1>1. IInv => OwnRevision
  BY DEF IInv
<1>2. QED
  BY <1>1, Inductive, PTL

===============================================================================
