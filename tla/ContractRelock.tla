---------------------------- MODULE ContractRelock ----------------------------
(***************************************************************************)
(* The re-lock of a sprint contract at a new revision: relockContract      *)
(* (src/agents/independent-review/relock.ts) and relockContractTool        *)
(* (src/config-server/tools/independent-review.ts) over                    *)
(*   - sprint-{N}-contract.json, the canonical contract,                   *)
(*   - its archived siblings sprint-{N}-contract.r{k}.json, and            *)
(*   - contractRevision and status in progress.json.                       *)
(*                                                                         *)
(* One process re-locks (the run lock keeps the others out).  From the end *)
(* of its round to its own end a call runs without an await, so no other   *)
(* call of the process interleaves with it; but the process may be killed  *)
(* between any two of its system calls, and each of these may fail: a read *)
(* that fails is an answer like any other to this code, an empty document  *)
(* or a file that is not there.                                            *)
(***************************************************************************)
EXTENDS Naturals, Sequences, FiniteSets

CONSTANTS
  Calls,        (* re-locks; each is also the contract that its round drafts *)
  Original,     (* the contract locked first, revision 0                   *)
  Missing       (* no file                                                 *)

ASSUME RelockConstants ==
  /\ IsFiniteSet(Calls)
  /\ Original \notin Calls
  /\ Missing \notin Calls \union {Original}

Contracts == Calls \union {Original}
Revisions == 0..Cardinality(Calls)

VARIABLES
  canonical,    (* the file sprint-{N}-contract.json                       *)
  archive,      (* the files sprint-{N}-contract.r{k}.json, by k           *)
  draft,        (* the draft file of each call                             *)
  revision,     (* progress.json: contractRevision                         *)
  status,       (* progress.json: status                                   *)
  chain,        (* inflightByProgressPath: calls in the order of their turn *)
  pc,           (* how far each call is                                    *)
  prior,        (* priorRevision of each call                              *)
  archived,     (* archivedFromCanonical of each call                      *)
  (* History, read by no guard: *)
  reigned,      (* the contracts that have been canonical, in order        *)
  mishaps       (* what has gone wrong beyond the repair of the call       *)

files    == <<canonical, archive, draft>>
progress == <<revision, status>>
locals   == <<prior, archived>>
ghosts   == <<reigned, mishaps>>
vars     == <<canonical, archive, draft, revision, status, chain, pc, prior,
              archived, reigned, mishaps>>

Points == {"new", "queued", "round", "check", "archive", "swap", "rollback",
           "commit", "restore", "done", "failed", "dead"}

(* Between the end of the round and the end of the call.                   *)
Busy == {"check", "archive", "swap", "rollback", "commit", "restore"}
Settled == {"done", "failed", "dead"}

(* crash: the process was killed in a call; open: status could not be set  *)
(* back; headless: neither swap nor rollback succeeded; unrecorded: a swap *)
(* succeeded and its revision was not recorded; misread: a revision or a   *)
(* contract was there and a read of it failed.                             *)
Mishaps == {"crash", "open", "headless", "unrecorded", "misread"}

TypeOK ==
  /\ canonical \in Contracts \union {Missing}
  /\ archive \in [Revisions -> Contracts \union {Missing}]
  /\ draft \in [Calls -> Calls \union {Missing}]
  /\ revision \in Revisions
  /\ status \in {"building", "negotiating"}
  /\ chain \in Seq(Calls)
  /\ pc \in [Calls -> Points]
  /\ prior \in [Calls -> Revisions]
  /\ archived \in [Calls -> BOOLEAN]
  /\ reigned \in Seq(Contracts)
  /\ mishaps \subseteq Mishaps

Init ==
  /\ canonical = Original
  /\ archive = [k \in Revisions |-> Missing]
  /\ draft = [c \in Calls |-> Missing]
  /\ revision = 0
  /\ status = "building"
  /\ chain = <<>>
  /\ pc = [c \in Calls |-> "new"]
  /\ prior = [c \in Calls |-> 0]
  /\ archived = [c \in Calls |-> FALSE]
  /\ reigned = <<Original>>
  /\ mishaps = {}

-------------------------------------------------------------------------------
(* The calls *)

Goto(c, point) == pc' = [pc EXCEPT ![c] = point]
Quiet == \A c \in Calls : pc[c] \notin Busy

(* relockContract: the call waits for its turn behind the calls on the     *)
(* same progress.json.                                                     *)
Request(c) ==
  /\ Quiet
  /\ pc[c] = "new"
  /\ Goto(c, "queued")
  /\ chain' = Append(chain, c)
  /\ UNCHANGED <<files, progress, locals, ghosts>>

(* The chain without the call whose turn it is; a tool call is not in it.  *)
Behind(c) == IF chain # <<>> /\ Head(chain) = c THEN Tail(chain) ELSE chain

(* Mutant: a call that throws leaves the calls behind it waiting.          *)
EndOnSuccess(c, point) ==
  /\ Goto(c, point)
  /\ chain' = IF point = "done" THEN Behind(c) ELSE chain

(* The call settles, and the next one in the chain may start.              *)
End(c, point) ==
  /\ Goto(c, point)
  /\ chain' = Behind(c)

(* readContractRevision: progress.json that is missing, unreadable or not  *)
(* an object reads as revision 0.                                          *)
Reads == {revision, 0}
Misread(found) == IF found = revision THEN {} ELSE {"misread"}

(* writeProgressFields: the document is read again and the fields named are*)
(* laid over it.  If that read fails the new document has those fields only*)
(* and its revision is gone.                                               *)
WriteStatus(s, found) ==
  /\ status' = s
  /\ revision' = found

(* The call reads the revision and announces the round.  That write is     *)
(* outside the try: if it fails, so does the call, and nothing is undone.  *)
Announce(c, next) ==
  /\ \E read \in Reads :
       /\ prior' = [prior EXCEPT ![c] = read]
       /\ \/ \E found \in Reads :
               /\ WriteStatus("negotiating", found)
               /\ mishaps' = mishaps \union Misread(read) \union Misread(found)
               /\ Goto(c, next)
               /\ UNCHANGED chain
          \/ End(c, "failed") /\ UNCHANGED <<progress, mishaps>>
  /\ archived' = [archived EXCEPT ![c] = FALSE]
  /\ UNCHANGED <<canonical, archive, reigned>>

(* Mutant: no chain, every call starts at once.                            *)
StartUnchained(c) ==
  /\ Quiet
  /\ pc[c] = "queued"
  /\ Announce(c, "round")
  /\ UNCHANGED draft

Start(c) ==
  /\ Quiet
  /\ pc[c] = "queued"
  /\ Head(chain) = c
  /\ Announce(c, "round")
  /\ UNCHANGED draft

(* relockContractTool has no round to await: the orchestrator has written  *)
(* the draft, or has not.  A config server makes no other re-locks.        *)
StartTool(c) ==
  /\ Quiet
  /\ chain = <<>>
  /\ pc[c] = "new"
  /\ Announce(c, "check")
  /\ draft' \in {draft, [draft EXCEPT ![c] = c]}

(* runRound settles: it resolves or rejects, with or without a draft.      *)
EndRound(c) ==
  /\ Quiet
  /\ pc[c] = "round"
  /\ draft' \in {draft, [draft EXCEPT ![c] = c]}
  /\ Goto(c, "check") \/ Goto(c, "restore")
  /\ UNCHANGED <<canonical, archive, progress, chain, locals, ghosts>>

(* A draft that is not seen fails the call before it has touched the       *)
(* canonical file.  existsSync says no when it cannot tell, of the draft   *)
(* and of the canonical contract.                                          *)
CheckDraft(c) ==
  /\ pc[c] = "check"
  /\ \/ Goto(c, "restore") /\ UNCHANGED mishaps
     \/ draft[c] # Missing /\ canonical # Missing /\ Goto(c, "archive") /\ UNCHANGED mishaps
     \/ /\ draft[c] # Missing
        /\ Goto(c, "swap")
        /\ mishaps' = mishaps \union (IF canonical = Missing THEN {} ELSE {"misread"})
  /\ UNCHANGED <<files, progress, chain, locals, reigned>>

(* Mutant: the archive is named for the revision that is to come.          *)
ArchiveAsNext(c) ==
  /\ pc[c] = "archive"
  /\ \/ /\ archive' = [archive EXCEPT ![prior[c] + 1] = canonical]
        /\ canonical' = Missing
        /\ archived' = [archived EXCEPT ![c] = TRUE]
        /\ Goto(c, "swap")
     \/ Goto(c, "restore") /\ UNCHANGED <<canonical, archive, archived>>
  /\ UNCHANGED <<draft, progress, chain, prior, ghosts>>

(* rename(canonical, .r{k}), which replaces a file of that name.           *)
Archive(c) ==
  /\ pc[c] = "archive"
  /\ \/ /\ archive' = [archive EXCEPT ![prior[c]] = canonical]
        /\ canonical' = Missing
        /\ archived' = [archived EXCEPT ![c] = TRUE]
        /\ Goto(c, "swap")
     \/ Goto(c, "restore") /\ UNCHANGED <<canonical, archive, archived>>
  /\ UNCHANGED <<draft, progress, chain, prior, ghosts>>

(* rename(draft, canonical).                                               *)
Swap(c) ==
  /\ pc[c] = "swap"
  /\ \/ /\ canonical' = draft[c]
        /\ draft' = [draft EXCEPT ![c] = Missing]
        /\ reigned' = Append(reigned, draft[c])
        /\ Goto(c, "commit")
     \/ /\ Goto(c, IF archived[c] THEN "rollback" ELSE "restore")
        /\ UNCHANGED <<canonical, draft, reigned>>
  /\ UNCHANGED <<archive, progress, chain, locals, mishaps>>

(* Mutant: a failed swap is not rolled back.                               *)
NoRollback(c) ==
  /\ pc[c] = "rollback"
  /\ Goto(c, "restore")
  /\ UNCHANGED <<files, progress, chain, locals, ghosts>>

(* rename(.r{k}, canonical); if that fails too, the error names both paths.*)
Rollback(c) ==
  /\ pc[c] = "rollback"
  /\ \/ /\ canonical' = archive[prior[c]]
        /\ archive' = [archive EXCEPT ![prior[c]] = Missing]
        /\ archived' = [archived EXCEPT ![c] = FALSE]
        /\ UNCHANGED mishaps
     \/ /\ mishaps' = mishaps \union {"headless"}
        /\ UNCHANGED <<canonical, archive, archived>>
  /\ Goto(c, "restore")
  /\ UNCHANGED <<draft, progress, chain, prior, reigned>>

(* The revision is recorded and the round closed, in one write, which      *)
(* names both fields: a failed read of the old document takes nothing away.*)
Commit(c) ==
  /\ pc[c] = "commit"
  /\ \/ /\ revision' = prior[c] + 1
        /\ status' = "building"
        /\ End(c, "done")
        /\ UNCHANGED mishaps
     \/ /\ Goto(c, "restore")
        /\ mishaps' = mishaps \union {"unrecorded"}
        /\ UNCHANGED <<progress, chain>>
  /\ UNCHANGED <<files, locals, reigned>>

(* Mutant: the catch does not put the status back.                         *)
RestoreNothing(c) ==
  /\ pc[c] = "restore"
  /\ End(c, "failed")
  /\ UNCHANGED <<files, progress, locals, ghosts>>

(* The catch: status goes back, the revision is left alone if it was read. *)
Restore(c) ==
  /\ pc[c] = "restore"
  /\ \/ \E found \in Reads :
          /\ WriteStatus("building", found)
          /\ mishaps' = mishaps \union Misread(found)
     \/ mishaps' = mishaps \union {"open"} /\ UNCHANGED progress
  /\ End(c, "failed")
  /\ UNCHANGED <<files, locals, reigned>>

(* The process is killed in a call.  A recovery ignores partial drafts and *)
(* goes on from the files and progress.json.                               *)
Crash ==
  /\ \E c \in Calls : pc[c] \in Busy \union {"round"}
  /\ pc' = [c \in Calls |-> IF pc[c] \in Settled \union {"new"} THEN pc[c] ELSE "dead"]
  /\ chain' = <<>>
  /\ mishaps' = mishaps \union {"crash"} \union
       (IF \E c \in Calls : pc[c] = "commit" THEN {"unrecorded"} ELSE {})
  /\ UNCHANGED <<files, progress, locals, reigned>>

-------------------------------------------------------------------------------
CallStep(c) ==
  \/ Start(c) \/ EndRound(c) \/ CheckDraft(c) \/ Archive(c) \/ Swap(c)
  \/ Rollback(c) \/ Commit(c) \/ Restore(c)

Next ==
  \/ \E c \in Calls : Request(c) \/ StartTool(c) \/ CallStep(c)
  \/ Crash

Spec == Init /\ [][Next]_vars

(* A call that is under way runs on, and the round it awaits settles.      *)
FairSpec == Spec /\ \A c \in Calls : WF_vars(CallStep(c))

-------------------------------------------------------------------------------
(* Properties *)

OnDisk == ({canonical} \union {archive[k] : k \in Revisions}) \ {Missing}
Reigned == {reigned[i] : i \in 1..Len(reigned)}

(* What the re-lock cannot know of: a revision that was not recorded, and  *)
(* one, or a contract, that was there and could not be read.               *)
Truthful == mishaps \intersect {"unrecorded", "misread"} = {}

(* History: a contract that has been canonical is on disk for ever, at the *)
(* canonical path or as an archive, whatever the number of rounds, queued  *)
(* calls, failures and crashes, unless a swap was left unrecorded or a     *)
(* read failed.                                                            *)
HistoryKept == Truthful => Reigned \subseteq OnDisk

(* And it is found where progress.json says: revision k is the k-th to     *)
(* reign, archived under k, and the current one is canonical but for the   *)
(* moments between the renames.                                            *)
RevisionNamesReign ==
  Truthful /\ (\A c \in Calls : pc[c] # "commit") =>
    /\ Len(reigned) = revision + 1
    /\ \A k \in Revisions : k < revision => archive[k] = reigned[k + 1]
    /\ canonical \in {reigned[revision + 1], Missing}

(* No canonical file is the worst state, and even then the contract it     *)
(* held last is in an archive; unless a read has failed, under the revision*)
(* that progress.json has.                                                 *)
PriorRecoverable ==
  canonical = Missing =>
    /\ \E k \in Revisions : archive[k] = reigned[Len(reigned)]
    /\ "misread" \notin mishaps => archive[revision] = reigned[Len(reigned)]

(* Between calls there is a canonical contract, unless the process was     *)
(* killed or both the swap and its rollback failed.                        *)
CanonicalBetweenCalls ==
  Quiet /\ canonical = Missing => mishaps \intersect {"crash", "headless"} # {}

(* An observer who reads "negotiating" sees a round in flight, and only a  *)
(* kill or a failed write of progress.json leaves the word behind.         *)
StatusTellsRound ==
  /\ status = "negotiating" => \/ \E c \in Calls : pc[c] \in Busy \union {"round"}
                               \/ mishaps \intersect {"crash", "open"} # {}
  /\ (\E c \in Calls : pc[c] \in Busy \union {"round"}) => status = "negotiating"

(* Calls that overlap re-lock one after the other: no two of them return   *)
(* the same new revision, unless one could not read the revision.          *)
OwnRevision ==
  "misread" \notin mishaps =>
    \A c, d \in Calls : pc[c] = "done" /\ pc[d] = "done" /\ prior[c] = prior[d] => c = d

(* Every queued call gets its turn and settles, whatever becomes of the    *)
(* calls before it.                                                        *)
CallsSettle == \A c \in Calls : pc[c] = "queued" ~> pc[c] \in Settled

(* "Never a half-state, never lost history" (relock.ts), of every failure  *)
(* path: the calls that fail may each have met any failed write or rename. *)
NeverLostHistory == mishaps \intersect {"crash", "misread"} = {} => Reigned \subseteq OnDisk
===============================================================================
