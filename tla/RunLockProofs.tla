----------------------------- MODULE RunLockProofs -----------------------------
(***************************************************************************)
(* Proofs about RunLock, for any number of servers, sessions and runs.     *)
(*                                                                         *)
(* The properties are not inductive one by one: that a session's lock file *)
(* is its own rests on what calls in progress know of their sessions, and  *)
(* on the sessions of a dead server having ended.  IInv is their           *)
(* conjunction with those facts; each conjunct has a lemma saying that     *)
(* every step preserves it.                                                *)
(***************************************************************************)
EXTENDS RunLock, TLAPS

AcquirePoints == {"link", "read", "probe", "break", "fail"}
ReleasePoints == {"readOwn", "unlinkOwn"}

(* Phases that a session never leaves.                                     *)
Ended == {"refused", "stranded", "gone", "dead", "over"}

(* A server in a call is alive and serves the session it acts for, which   *)
(* is still waiting for it or has stopped listening.                       *)
CallsHaveCallers ==
  \A p \in Servers :
    pc[p] # "idle" =>
      /\ p \in alive
      /\ cur[p] \in Sessions
      /\ server[cur[p]] = p
      /\ run[cur[p]] \in RunIds
      /\ pc[p] \in AcquirePoints => phase[cur[p]] \in {"asking", "gone"}
      /\ pc[p] \in ReleasePoints => phase[cur[p]] \in {"closing", "lost"}

(* A session that has not ended runs on a live server.                     *)
LiveSessionsAreServed ==
  \A s \in Sessions :
    phase[s] \in {"asking", "active", "closing", "lost", "done"} =>
      server[s] \in alive /\ run[s] \in RunIds

(* What a call read is the lock of a session that had begun, on the server *)
(* it began on; a release goes on to unlink only what carries its run id.  *)
SeenLocksWereTaken ==
  \A p \in Servers :
    /\ seen[p] \in LockFile =>
         /\ server[seen[p].owner] = seen[p].pid
         /\ phase[seen[p].owner] # "new"
    /\ pc[p] = "probe" => seen[p] \in LockFile
    /\ pc[p] = "unlinkOwn" => seen[p].run = run[cur[p]]

(* JudgedStaleIsOver, strengthened to phases that are never left.          *)
JudgedStaleHasEnded ==
  \A p \in Servers :
    pc[p] = "break" /\ seen[p] \in LockFile => phase[seen[p].owner] \in Ended

(* FailsOnlyToARival, with what the second attempt finds on its way there. *)
SecondAttemptMeetsARival ==
  \A p \in Servers :
    p \in rivalled \/ /\ pc[p] # "fail"
                      /\ attempt[p] = 2 => /\ pc[p] \notin {"read", "probe", "break"}
                                           /\ pc[p] = "link" => lock = NoLock

IInv ==
  /\ TypeOK
  /\ CallsHaveCallers
  /\ LiveSessionsAreServed
  /\ LockIsSomeonesBusiness
  /\ SeenLocksWereTaken
  /\ JudgedStaleHasEnded
  /\ HolderOwnsTheLock
  /\ SecondAttemptMeetsARival

(* Every step keeps the types.                                              *)
LEMMA TypeStep == IInv /\ [Next]_vars => TypeOK'
<1> SUFFICES ASSUME IInv, [Next]_vars PROVE TypeOK'
  OBVIOUS
<1> USE DEF IInv, CallsHaveCallers, LiveSessionsAreServed, TypeOK, Content, Points, Phases, LockFile
<1>1. ASSUME NEW p \in Servers, StartServer(p)
      PROVE  TypeOK'
  BY <1>1 DEF StartServer, calls, users, ghosts
<1>2. ASSUME NEW p \in Servers, KillServer(p)
      PROVE  TypeOK'
  BY <1>2 DEF KillServer, ghosts
<1>3. ASSUME NEW p \in Servers, Link(p)
      PROVE  TypeOK'
  BY <1>3 DEF Link, Answer, Return
<1>4. ASSUME NEW p \in Servers, ReadHolder(p)
      PROVE  TypeOK'
  BY <1>4 DEF ReadHolder, onDisk, users, ghosts
<1>5. ASSUME NEW p \in Servers, ProbeHolder(p)
      PROVE  TypeOK'
  BY <1>5 DEF ProbeHolder, Answer, Return, onDisk, ghosts
<1>6. ASSUME NEW p \in Servers, Break(p)
      PROVE  TypeOK'
  BY <1>6 DEF Break, Bystander, users
<1>7. ASSUME NEW p \in Servers, Fail(p)
      PROVE  TypeOK'
  BY <1>7 DEF Fail, Answer, Return, onDisk, ghosts
<1>8. ASSUME NEW p \in Servers, ReadOwn(p)
      PROVE  TypeOK'
  BY <1>8 DEF ReadOwn, Answer, Return, onDisk, ghosts
<1>9. ASSUME NEW p \in Servers, UnlinkOwn(p)
      PROVE  TypeOK'
  BY <1>9 DEF UnlinkOwn, Successor, Answer, Return
<1>10. ASSUME NEW s \in Sessions, NEW p \in Servers, NEW r \in RunIds,
              AskFresh(s, p, r) \/ AskRecover(s, p, r)
       PROVE  TypeOK'
  <2>1. PICK b \in BOOLEAN : Ask(s, p, r, b)
    BY <1>10, Zenon DEF AskFresh, AskRecover
  <2>2. recovering' \in [Sessions -> BOOLEAN]
    BY <2>1, Zenon DEF Ask
  <2>3. QED
    BY <2>1, <2>2 DEF Ask, Call, onDisk
<1>11. ASSUME NEW s \in Sessions, Release(s)
       PROVE  TypeOK'
  BY <1>11 DEF Release, Call, onDisk
<1>12. ASSUME NEW s \in Sessions, Interrupt(s)
       PROVE  TypeOK'
  BY <1>12 DEF Interrupt, Running, onDisk, calls, ghosts
<1>13. CASE RemoveByHand
  BY <1>13 DEF RemoveByHand, Running, calls, users, ghosts
<1>14. CASE UNCHANGED vars
  BY <1>14 DEF vars
<1>15. QED
  BY <1>1, <1>2, <1>3, <1>4, <1>5, <1>6, <1>7, <1>8, <1>9, <1>10, <1>11, <1>12,
     <1>13, <1>14 DEF Next, ServerStep

(* Every step keeps calls and callers together.                            *)
LEMMA CallsStep == IInv /\ [Next]_vars => CallsHaveCallers'
<1> SUFFICES ASSUME IInv, [Next]_vars PROVE CallsHaveCallers'
  OBVIOUS
<1> USE DEF IInv, CallsHaveCallers, LiveSessionsAreServed, AcquirePoints, ReleasePoints, TypeOK, Content, Points, Phases
<1>1. ASSUME NEW p \in Servers, StartServer(p)
      PROVE  CallsHaveCallers'
  BY <1>1 DEF StartServer, calls, users, ghosts
<1>2. ASSUME NEW p \in Servers, KillServer(p)
      PROVE  CallsHaveCallers'
  BY <1>2 DEF KillServer, ghosts
<1>3. ASSUME NEW p \in Servers, Link(p)
      PROVE  CallsHaveCallers'
  BY <1>3 DEF Link, Answer, Return
<1>4. ASSUME NEW p \in Servers, ReadHolder(p)
      PROVE  CallsHaveCallers'
  BY <1>4 DEF ReadHolder, onDisk, users, ghosts
<1>5. ASSUME NEW p \in Servers, ProbeHolder(p)
      PROVE  CallsHaveCallers'
  BY <1>5 DEF ProbeHolder, Answer, Return, onDisk, ghosts
<1>6. ASSUME NEW p \in Servers, Break(p)
      PROVE  CallsHaveCallers'
  BY <1>6 DEF Break, Bystander, users
<1>7. ASSUME NEW p \in Servers, Fail(p)
      PROVE  CallsHaveCallers'
  BY <1>7 DEF Fail, Answer, Return, onDisk, ghosts
<1>8. ASSUME NEW p \in Servers, ReadOwn(p)
      PROVE  CallsHaveCallers'
  BY <1>8 DEF ReadOwn, Answer, Return, onDisk, ghosts
<1>9. ASSUME NEW p \in Servers, UnlinkOwn(p)
      PROVE  CallsHaveCallers'
  BY <1>9 DEF UnlinkOwn, Successor, Answer, Return
<1>10. ASSUME NEW s \in Sessions, NEW p \in Servers, NEW r \in RunIds,
              AskFresh(s, p, r) \/ AskRecover(s, p, r)
       PROVE  CallsHaveCallers'
  BY <1>10 DEF AskFresh, AskRecover, Ask, Call, onDisk
<1>11. ASSUME NEW s \in Sessions, Release(s)
       PROVE  CallsHaveCallers'
  BY <1>11 DEF Release, Call, onDisk
<1>12. ASSUME NEW s \in Sessions, Interrupt(s)
       PROVE  CallsHaveCallers'
  BY <1>12 DEF Interrupt, Running, onDisk, calls, ghosts
<1>13. CASE RemoveByHand
  BY <1>13 DEF RemoveByHand, Running, calls, users, ghosts
<1>14. CASE UNCHANGED vars
  BY <1>14 DEF vars
<1>15. QED
  BY <1>1, <1>2, <1>3, <1>4, <1>5, <1>6, <1>7, <1>8, <1>9, <1>10, <1>11, <1>12,
     <1>13, <1>14 DEF Next, ServerStep

(* Every step leaves sessions that go on with a live server.               *)
LEMMA ServedStep == IInv /\ [Next]_vars => LiveSessionsAreServed'
<1> SUFFICES ASSUME IInv, [Next]_vars PROVE LiveSessionsAreServed'
  OBVIOUS
<1> USE DEF IInv, CallsHaveCallers, LiveSessionsAreServed, AcquirePoints, ReleasePoints, TypeOK, Content, Points, Phases
<1>1. ASSUME NEW p \in Servers, StartServer(p)
      PROVE  LiveSessionsAreServed'
  BY <1>1 DEF StartServer, calls, users, ghosts
<1>2. ASSUME NEW p \in Servers, KillServer(p)
      PROVE  LiveSessionsAreServed'
  BY <1>2 DEF KillServer, ghosts
<1>3. ASSUME NEW p \in Servers, Link(p)
      PROVE  LiveSessionsAreServed'
  BY <1>3 DEF Link, Answer, Return
<1>4. ASSUME NEW p \in Servers, ReadHolder(p)
      PROVE  LiveSessionsAreServed'
  BY <1>4 DEF ReadHolder, onDisk, users, ghosts
<1>5. ASSUME NEW p \in Servers, ProbeHolder(p)
      PROVE  LiveSessionsAreServed'
  BY <1>5 DEF ProbeHolder, Answer, Return, onDisk, ghosts
<1>6. ASSUME NEW p \in Servers, Break(p)
      PROVE  LiveSessionsAreServed'
  BY <1>6 DEF Break, Bystander, users
<1>7. ASSUME NEW p \in Servers, Fail(p)
      PROVE  LiveSessionsAreServed'
  BY <1>7 DEF Fail, Answer, Return, onDisk, ghosts
<1>8. ASSUME NEW p \in Servers, ReadOwn(p)
      PROVE  LiveSessionsAreServed'
  BY <1>8 DEF ReadOwn, Answer, Return, onDisk, ghosts
<1>9. ASSUME NEW p \in Servers, UnlinkOwn(p)
      PROVE  LiveSessionsAreServed'
  BY <1>9 DEF UnlinkOwn, Successor, Answer, Return
<1>10. ASSUME NEW s \in Sessions, NEW p \in Servers, NEW r \in RunIds,
              AskFresh(s, p, r) \/ AskRecover(s, p, r)
       PROVE  LiveSessionsAreServed'
  BY <1>10 DEF AskFresh, AskRecover, Ask, Call, onDisk
<1>11. ASSUME NEW s \in Sessions, Release(s)
       PROVE  LiveSessionsAreServed'
  BY <1>11 DEF Release, Call, onDisk
<1>12. ASSUME NEW s \in Sessions, Interrupt(s)
       PROVE  LiveSessionsAreServed'
  BY <1>12 DEF Interrupt, Running, onDisk, calls, ghosts
<1>13. CASE RemoveByHand
  BY <1>13 DEF RemoveByHand, Running, calls, users, ghosts
<1>14. CASE UNCHANGED vars
  BY <1>14 DEF vars
<1>15. QED
  BY <1>1, <1>2, <1>3, <1>4, <1>5, <1>6, <1>7, <1>8, <1>9, <1>10, <1>11, <1>12,
     <1>13, <1>14 DEF Next, ServerStep

(* Every step leaves on disk only a lock that a session will answer for.   *)
LEMMA LockStep == IInv /\ [Next]_vars => LockIsSomeonesBusiness'
<1> SUFFICES ASSUME IInv, [Next]_vars PROVE LockIsSomeonesBusiness'
  OBVIOUS
<1> USE LockConstants DEF IInv, CallsHaveCallers, LockIsSomeonesBusiness, AcquirePoints, ReleasePoints, LockFile, TypeOK, Content, Points, Phases
<1>1. ASSUME NEW p \in Servers, StartServer(p)
      PROVE  LockIsSomeonesBusiness'
  BY <1>1 DEF StartServer, calls, users, ghosts
<1>2. ASSUME NEW p \in Servers, KillServer(p)
      PROVE  LockIsSomeonesBusiness'
  BY <1>2 DEF KillServer, ghosts
<1>3. ASSUME NEW p \in Servers, Link(p)
      PROVE  LockIsSomeonesBusiness'
  BY <1>3 DEF Link, Answer, Return
<1>4. ASSUME NEW p \in Servers, ReadHolder(p)
      PROVE  LockIsSomeonesBusiness'
  BY <1>4 DEF ReadHolder, onDisk, users, ghosts
<1>5. ASSUME NEW p \in Servers, ProbeHolder(p)
      PROVE  LockIsSomeonesBusiness'
  BY <1>5 DEF ProbeHolder, Answer, Return, onDisk, ghosts
<1>6. ASSUME NEW p \in Servers, Break(p)
      PROVE  LockIsSomeonesBusiness'
  BY <1>6 DEF Break, Bystander, users
<1>7. ASSUME NEW p \in Servers, Fail(p)
      PROVE  LockIsSomeonesBusiness'
  BY <1>7 DEF Fail, Answer, Return, onDisk, ghosts
<1>8. ASSUME NEW p \in Servers, ReadOwn(p)
      PROVE  LockIsSomeonesBusiness'
  BY <1>8 DEF ReadOwn, Answer, Return, onDisk, ghosts
<1>9. ASSUME NEW p \in Servers, UnlinkOwn(p)
      PROVE  LockIsSomeonesBusiness'
  BY <1>9 DEF UnlinkOwn, Successor, Answer, Return
<1>10. ASSUME NEW s \in Sessions, NEW p \in Servers, NEW r \in RunIds,
              AskFresh(s, p, r) \/ AskRecover(s, p, r)
       PROVE  LockIsSomeonesBusiness'
  BY <1>10 DEF AskFresh, AskRecover, Ask, Call, onDisk
<1>11. ASSUME NEW s \in Sessions, Release(s)
       PROVE  LockIsSomeonesBusiness'
  BY <1>11 DEF Release, Call, onDisk
<1>12. ASSUME NEW s \in Sessions, Interrupt(s)
       PROVE  LockIsSomeonesBusiness'
  BY <1>12 DEF Interrupt, Running, onDisk, calls, ghosts
<1>13. CASE RemoveByHand
  BY <1>13 DEF RemoveByHand, Running, calls, users, ghosts
<1>14. CASE UNCHANGED vars
  BY <1>14 DEF vars
<1>15. QED
  BY <1>1, <1>2, <1>3, <1>4, <1>5, <1>6, <1>7, <1>8, <1>9, <1>10, <1>11, <1>12,
     <1>13, <1>14 DEF Next, ServerStep

(* Every step keeps what calls have read about sessions true.              *)
LEMMA SeenStep == IInv /\ [Next]_vars => SeenLocksWereTaken'
<1> SUFFICES ASSUME IInv, [Next]_vars PROVE SeenLocksWereTaken'
  OBVIOUS
<1> USE LockConstants DEF IInv, CallsHaveCallers, SeenLocksWereTaken, LockIsSomeonesBusiness, AcquirePoints, ReleasePoints, LockFile, TypeOK, Content, Points, Phases
<1>1. ASSUME NEW p \in Servers, StartServer(p)
      PROVE  SeenLocksWereTaken'
  BY <1>1 DEF StartServer, calls, users, ghosts
<1>2. ASSUME NEW p \in Servers, KillServer(p)
      PROVE  SeenLocksWereTaken'
  BY <1>2 DEF KillServer, ghosts
<1>3. ASSUME NEW p \in Servers, Link(p)
      PROVE  SeenLocksWereTaken'
  BY <1>3 DEF Link, Answer, Return
<1>4. ASSUME NEW p \in Servers, ReadHolder(p)
      PROVE  SeenLocksWereTaken'
  BY <1>4 DEF ReadHolder, onDisk, users, ghosts
<1>5. ASSUME NEW p \in Servers, ProbeHolder(p)
      PROVE  SeenLocksWereTaken'
  BY <1>5 DEF ProbeHolder, Answer, Return, onDisk, ghosts
<1>6. ASSUME NEW p \in Servers, Break(p)
      PROVE  SeenLocksWereTaken'
  BY <1>6 DEF Break, Bystander, users
<1>7. ASSUME NEW p \in Servers, Fail(p)
      PROVE  SeenLocksWereTaken'
  BY <1>7 DEF Fail, Answer, Return, onDisk, ghosts
<1>8. ASSUME NEW p \in Servers, ReadOwn(p)
      PROVE  SeenLocksWereTaken'
  BY <1>8 DEF ReadOwn, Answer, Return, onDisk, ghosts
<1>9. ASSUME NEW p \in Servers, UnlinkOwn(p)
      PROVE  SeenLocksWereTaken'
  BY <1>9 DEF UnlinkOwn, Successor, Answer, Return
<1>10. ASSUME NEW s \in Sessions, NEW p \in Servers, NEW r \in RunIds,
              AskFresh(s, p, r) \/ AskRecover(s, p, r)
       PROVE  SeenLocksWereTaken'
  BY <1>10 DEF AskFresh, AskRecover, Ask, Call, onDisk
<1>11. ASSUME NEW s \in Sessions, Release(s)
       PROVE  SeenLocksWereTaken'
  BY <1>11 DEF Release, Call, onDisk
<1>12. ASSUME NEW s \in Sessions, Interrupt(s)
       PROVE  SeenLocksWereTaken'
  BY <1>12 DEF Interrupt, Running, onDisk, calls, ghosts
<1>13. CASE RemoveByHand
  BY <1>13 DEF RemoveByHand, Running, calls, users, ghosts
<1>14. CASE UNCHANGED vars
  BY <1>14 DEF vars
<1>15. QED
  BY <1>1, <1>2, <1>3, <1>4, <1>5, <1>6, <1>7, <1>8, <1>9, <1>10, <1>11, <1>12,
     <1>13, <1>14 DEF Next, ServerStep

(* Every step keeps the stale-lock judgement right.                        *)
LEMMA JudgedStep == IInv /\ [Next]_vars => JudgedStaleHasEnded'
<1> SUFFICES ASSUME IInv, [Next]_vars PROVE JudgedStaleHasEnded'
  OBVIOUS
<1> USE LockConstants DEF IInv, CallsHaveCallers, LiveSessionsAreServed, SeenLocksWereTaken, JudgedStaleHasEnded, Ended, AcquirePoints, ReleasePoints, LockFile, TypeOK, Content, Points, Phases
<1>1. ASSUME NEW p \in Servers, StartServer(p)
      PROVE  JudgedStaleHasEnded'
  BY <1>1 DEF StartServer, calls, users, ghosts
<1>2. ASSUME NEW p \in Servers, KillServer(p)
      PROVE  JudgedStaleHasEnded'
  BY <1>2 DEF KillServer, ghosts
<1>3. ASSUME NEW p \in Servers, Link(p)
      PROVE  JudgedStaleHasEnded'
  BY <1>3 DEF Link, Answer, Return
<1>4. ASSUME NEW p \in Servers, ReadHolder(p)
      PROVE  JudgedStaleHasEnded'
  BY <1>4 DEF ReadHolder, onDisk, users, ghosts
<1>5. ASSUME NEW p \in Servers, ProbeHolder(p)
      PROVE  JudgedStaleHasEnded'
  BY <1>5 DEF ProbeHolder, Answer, Return, onDisk, ghosts
<1>6. ASSUME NEW p \in Servers, Break(p)
      PROVE  JudgedStaleHasEnded'
  BY <1>6 DEF Break, Bystander, users
<1>7. ASSUME NEW p \in Servers, Fail(p)
      PROVE  JudgedStaleHasEnded'
  BY <1>7 DEF Fail, Answer, Return, onDisk, ghosts
<1>8. ASSUME NEW p \in Servers, ReadOwn(p)
      PROVE  JudgedStaleHasEnded'
  BY <1>8 DEF ReadOwn, Answer, Return, onDisk, ghosts
<1>9. ASSUME NEW p \in Servers, UnlinkOwn(p)
      PROVE  JudgedStaleHasEnded'
  BY <1>9 DEF UnlinkOwn, Successor, Answer, Return
<1>10. ASSUME NEW s \in Sessions, NEW p \in Servers, NEW r \in RunIds,
              AskFresh(s, p, r) \/ AskRecover(s, p, r)
       PROVE  JudgedStaleHasEnded'
  BY <1>10 DEF AskFresh, AskRecover, Ask, Call, onDisk
<1>11. ASSUME NEW s \in Sessions, Release(s)
       PROVE  JudgedStaleHasEnded'
  BY <1>11 DEF Release, Call, onDisk
<1>12. ASSUME NEW s \in Sessions, Interrupt(s)
       PROVE  JudgedStaleHasEnded'
  BY <1>12 DEF Interrupt, Running, onDisk, calls, ghosts
<1>13. CASE RemoveByHand
  BY <1>13 DEF RemoveByHand, Running, calls, users, ghosts
<1>14. CASE UNCHANGED vars
  BY <1>14 DEF vars
<1>15. QED
  BY <1>1, <1>2, <1>3, <1>4, <1>5, <1>6, <1>7, <1>8, <1>9, <1>10, <1>11, <1>12,
     <1>13, <1>14 DEF Next, ServerStep

(* Every step leaves an undisplaced holder its lock file.                  *)
LEMMA HolderStep == IInv /\ [Next]_vars => HolderOwnsTheLock'
<1> SUFFICES ASSUME IInv, [Next]_vars PROVE HolderOwnsTheLock'
  OBVIOUS
<1> USE LockConstants DEF IInv, CallsHaveCallers, LockIsSomeonesBusiness, SeenLocksWereTaken, JudgedStaleHasEnded, HolderOwnsTheLock, Ended, AcquirePoints, ReleasePoints, LockFile, TypeOK, Content, Points, Phases
<1>1. ASSUME NEW p \in Servers, StartServer(p)
      PROVE  HolderOwnsTheLock'
  BY <1>1 DEF StartServer, calls, users, ghosts
<1>2. ASSUME NEW p \in Servers, KillServer(p)
      PROVE  HolderOwnsTheLock'
  BY <1>2 DEF KillServer, ghosts
<1>3. ASSUME NEW p \in Servers, Link(p)
      PROVE  HolderOwnsTheLock'
  BY <1>3 DEF Link, Answer, Return
<1>4. ASSUME NEW p \in Servers, ReadHolder(p)
      PROVE  HolderOwnsTheLock'
  BY <1>4 DEF ReadHolder, onDisk, users, ghosts
<1>5. ASSUME NEW p \in Servers, ProbeHolder(p)
      PROVE  HolderOwnsTheLock'
  BY <1>5 DEF ProbeHolder, Answer, Return, onDisk, ghosts
<1>6. ASSUME NEW p \in Servers, Break(p)
      PROVE  HolderOwnsTheLock'
  BY <1>6 DEF Break, Bystander, users
<1>7. ASSUME NEW p \in Servers, Fail(p)
      PROVE  HolderOwnsTheLock'
  BY <1>7 DEF Fail, Answer, Return, onDisk, ghosts
<1>8. ASSUME NEW p \in Servers, ReadOwn(p)
      PROVE  HolderOwnsTheLock'
  BY <1>8 DEF ReadOwn, Answer, Return, onDisk, ghosts
<1>9. ASSUME NEW p \in Servers, UnlinkOwn(p)
      PROVE  HolderOwnsTheLock'
  BY <1>9 DEF UnlinkOwn, Successor, Answer, Return
<1>10. ASSUME NEW s \in Sessions, NEW p \in Servers, NEW r \in RunIds,
              AskFresh(s, p, r) \/ AskRecover(s, p, r)
       PROVE  HolderOwnsTheLock'
  BY <1>10 DEF AskFresh, AskRecover, Ask, Call, onDisk
<1>11. ASSUME NEW s \in Sessions, Release(s)
       PROVE  HolderOwnsTheLock'
  BY <1>11 DEF Release, Call, onDisk
<1>12. ASSUME NEW s \in Sessions, Interrupt(s)
       PROVE  HolderOwnsTheLock'
  BY <1>12 DEF Interrupt, Running, onDisk, calls, ghosts
<1>13. CASE RemoveByHand
  BY <1>13 DEF RemoveByHand, Running, calls, users, ghosts
<1>14. CASE UNCHANGED vars
  BY <1>14 DEF vars
<1>15. QED
  BY <1>1, <1>2, <1>3, <1>4, <1>5, <1>6, <1>7, <1>8, <1>9, <1>10, <1>11, <1>12,
     <1>13, <1>14 DEF Next, ServerStep

(* Every step keeps the account of who has met a rival.                    *)
LEMMA RivalStep == IInv /\ [Next]_vars => SecondAttemptMeetsARival'
<1> SUFFICES ASSUME IInv, [Next]_vars PROVE SecondAttemptMeetsARival'
  OBVIOUS
<1> USE LockConstants DEF IInv, CallsHaveCallers, SecondAttemptMeetsARival, TypeOK, Content, Points, Phases
<1>1. ASSUME NEW p \in Servers, StartServer(p)
      PROVE  SecondAttemptMeetsARival'
  BY <1>1 DEF StartServer, calls, users, ghosts
<1>2. ASSUME NEW p \in Servers, KillServer(p)
      PROVE  SecondAttemptMeetsARival'
  BY <1>2 DEF KillServer, ghosts
<1>3. ASSUME NEW p \in Servers, Link(p)
      PROVE  SecondAttemptMeetsARival'
  BY <1>3 DEF Link, Answer, Return
<1>4. ASSUME NEW p \in Servers, ReadHolder(p)
      PROVE  SecondAttemptMeetsARival'
  BY <1>4 DEF ReadHolder, onDisk, users, ghosts
<1>5. ASSUME NEW p \in Servers, ProbeHolder(p)
      PROVE  SecondAttemptMeetsARival'
  BY <1>5 DEF ProbeHolder, Answer, Return, onDisk, ghosts
<1>6. ASSUME NEW p \in Servers, Break(p)
      PROVE  SecondAttemptMeetsARival'
  BY <1>6 DEF Break, Bystander, users
<1>7. ASSUME NEW p \in Servers, Fail(p)
      PROVE  SecondAttemptMeetsARival'
  BY <1>7 DEF Fail, Answer, Return, onDisk, ghosts
<1>8. ASSUME NEW p \in Servers, ReadOwn(p)
      PROVE  SecondAttemptMeetsARival'
  BY <1>8 DEF ReadOwn, Answer, Return, onDisk, ghosts
<1>9. ASSUME NEW p \in Servers, UnlinkOwn(p)
      PROVE  SecondAttemptMeetsARival'
  BY <1>9 DEF UnlinkOwn, Successor, Answer, Return
<1>10. ASSUME NEW s \in Sessions, NEW p \in Servers, NEW r \in RunIds,
              AskFresh(s, p, r) \/ AskRecover(s, p, r)
       PROVE  SecondAttemptMeetsARival'
  BY <1>10 DEF AskFresh, AskRecover, Ask, Call, onDisk
<1>11. ASSUME NEW s \in Sessions, Release(s)
       PROVE  SecondAttemptMeetsARival'
  BY <1>11 DEF Release, Call, onDisk
<1>12. ASSUME NEW s \in Sessions, Interrupt(s)
       PROVE  SecondAttemptMeetsARival'
  BY <1>12 DEF Interrupt, Running, onDisk, calls, ghosts
<1>13. CASE RemoveByHand
  BY <1>13 DEF RemoveByHand, Running, calls, users, ghosts
<1>14. CASE UNCHANGED vars
  BY <1>14 DEF vars
<1>15. QED
  BY <1>1, <1>2, <1>3, <1>4, <1>5, <1>6, <1>7, <1>8, <1>9, <1>10, <1>11, <1>12,
     <1>13, <1>14 DEF Next, ServerStep

(* The initial states satisfy the inductive invariant.                     *)
LEMMA InitIInv == Init => IInv
  BY LockConstants
  DEF Init, IInv, TypeOK, Content, Points, Phases, CallsHaveCallers,
      LiveSessionsAreServed, LockIsSomeonesBusiness, SeenLocksWereTaken,
      JudgedStaleHasEnded, HolderOwnsTheLock, SecondAttemptMeetsARival

(* IInv holds throughout, whatever servers, sessions and users do.         *)
LEMMA Inductive == Spec => []IInv
<1>1. IInv /\ [Next]_vars => IInv'
  BY TypeStep, CallsStep, ServedStep, LockStep, SeenStep, JudgedStep, HolderStep,
     RivalStep
  DEF IInv
<1>2. QED
  BY InitIInv, <1>1, PTL DEF Spec

-------------------------------------------------------------------------------
(* Type correctness of the lock protocol.                                  *)
THEOREM TypeCorrect == Spec => []TypeOK
<1>1. IInv => TypeOK
  BY DEF IInv
<1>2. QED
  BY <1>1, Inductive, PTL

(* A session that holds the repository (acquireRunLock returned to it) has *)
(* its own file at run.lock, unless a call unlinked that file by path      *)
(* while meaning another one.                                              *)
THEOREM HolderSafe == Spec => []HolderOwnsTheLock
<1>1. IInv => HolderOwnsTheLock
  BY DEF IInv
<1>2. QED
  BY <1>1, Inductive, PTL

(* So two runs are never active together but for that race: of two active  *)
(* sessions one has been displaced.                                        *)
THEOREM MutexUnlessDisplaced ==
  Spec => [](\A s, t \in Sessions \ displaced :
               phase[s] = "active" /\ phase[t] = "active" => s = t)
<1>1. HolderOwnsTheLock => \A s, t \in Sessions \ displaced :
                              phase[s] = "active" /\ phase[t] = "active" => s = t
  BY DEF HolderOwnsTheLock
<1>2. QED
  BY <1>1, HolderSafe, PTL

(* The stale-lock judgement of acquireRunLock is right until the break.    *)
THEOREM JudgementSafe == Spec => []JudgedStaleIsOver
<1>1. IInv => JudgedStaleIsOver
  BY DEF IInv, JudgedStaleHasEnded, Ended, JudgedStaleIsOver, Running
<1>2. QED
  BY <1>1, Inductive, PTL

(* No lock file outlives the tear-down of its session.                     *)
THEOREM NoOrphanLock == Spec => []LockIsSomeonesBusiness
<1>1. IInv => LockIsSomeonesBusiness
  BY DEF IInv
<1>2. QED
  BY <1>1, Inductive, PTL

(* An acquisition out of attempts has lost to another one's link.          *)
THEOREM SelfHealing == Spec => []FailsOnlyToARival
<1>1. IInv => FailsOnlyToARival
  BY DEF IInv, SecondAttemptMeetsARival, FailsOnlyToARival
<1>2. QED
  BY <1>1, Inductive, PTL

-------------------------------------------------------------------------------
(* Every step of the protocol is a step of the lock that it promises, or   *)
(* leaves that lock as it is.                                              *)
LEMMA PromiseStep == IInv /\ [Next]_vars => [Promise!Next]_(Promise!vars)
<1> SUFFICES ASSUME IInv, [Next]_vars PROVE [Promise!Next]_(Promise!vars)
  OBVIOUS
<1> DEFINE holder == IF lock \in LockFile THEN lock.owner ELSE None
           active == {s \in Sessions : phase[s] = "active"}
<1> USE LockConstants DEF IInv, TypeOK
<1>a. ASSUME active' \subseteq active, UNCHANGED <<holder, displaced>>
      PROVE  Promise!Leave
  BY <1>a DEF Promise!Leave
<1>b. ASSUME holder \notin active, holder' = None, UNCHANGED <<active, displaced>>
      PROVE  Promise!Free
  BY <1>b DEF Promise!Free
<1>c. ASSUME holder # None, holder' = None, displaced' = displaced \union {holder},
             UNCHANGED active
      PROVE  Promise!Evict
  BY <1>c DEF Promise!Evict
<1>1. ASSUME NEW p \in Servers, StartServer(p)
      PROVE  Promise!Leave
  BY <1>1, <1>a DEF StartServer, calls, users, ghosts
<1>2. ASSUME NEW p \in Servers, KillServer(p)
      PROVE  Promise!Leave
  BY <1>2, <1>a DEF KillServer, ghosts
<1>3. ASSUME NEW p \in Servers, Link(p)
      PROVE  Promise!Leave \/ \E s \in Sessions : Promise!Acquire(s)
  <2>1. PICK s \in Sessions : cur[p] = s /\ phase[s] \in {"asking", "gone"}
    BY <1>3 DEF Link, CallsHaveCallers, AcquirePoints
  <2>2. CASE lock # NoLock
    BY <2>2, <1>3, <1>a DEF Link
  <2>3. CASE lock = NoLock
    <3>1. holder = None /\ holder' = s
      BY <2>3, <2>1, <1>3 DEF Link, LockFile, CallsHaveCallers
    <3>2. active' = active \/ active' = active \union {s}
      BY <2>3, <2>1, <1>3 DEF Link, Answer
    <3>3. Promise!Acquire(s)
      BY <3>1, <3>2, <1>3 DEF Link, Promise!Acquire
    <3>4. QED
      BY <3>3
  <2>4. QED
    BY <2>2, <2>3
<1>4. ASSUME NEW p \in Servers, ReadHolder(p)
      PROVE  Promise!Leave
  BY <1>4, <1>a DEF ReadHolder, onDisk, users, ghosts
<1>5. ASSUME NEW p \in Servers, ProbeHolder(p)
      PROVE  Promise!Leave
  BY <1>5, <1>a DEF ProbeHolder, Answer, Return, onDisk, ghosts
<1>6. ASSUME NEW p \in Servers, Break(p)
      PROVE  Promise!Free \/ Promise!Evict
  <2>1. holder' = None /\ UNCHANGED active
    BY <1>6 DEF Break, users
  <2>2. CASE lock \in LockFile /\ lock # seen[p]
    BY <2>1, <2>2, <1>6, <1>c DEF Break, Bystander, LockFile
  <2>3. CASE lock \in LockFile /\ lock = seen[p]
    <3>1. phase[lock.owner] \in Ended
      BY <2>3, <1>6 DEF Break, JudgedStaleHasEnded
    <3>2. QED
      BY <2>1, <2>3, <3>1, <1>6, <1>b DEF Break, Bystander, Ended
  <2>4. CASE lock \notin LockFile
    BY <2>1, <2>4, <1>6, <1>b DEF Break, Bystander
  <2>5. QED
    BY <2>2, <2>3, <2>4
<1>7. ASSUME NEW p \in Servers, Fail(p)
      PROVE  Promise!Leave
  BY <1>7, <1>a DEF Fail, Answer, Return, onDisk, ghosts
<1>8. ASSUME NEW p \in Servers, ReadOwn(p)
      PROVE  Promise!Leave
  BY <1>8, <1>a DEF ReadOwn, Answer, Return, onDisk, ghosts
<1>9. ASSUME NEW p \in Servers, UnlinkOwn(p)
      PROVE  Promise!Free \/ Promise!Evict
  <2>1. /\ cur[p] \in Sessions
        /\ phase[cur[p]] \in {"closing", "lost"}
    BY <1>9 DEF UnlinkOwn, CallsHaveCallers, ReleasePoints
  <2>2. holder' = None /\ UNCHANGED active
    BY <2>1, <1>9 DEF UnlinkOwn, Answer
  <2>3. CASE lock \in LockFile /\ lock.owner # cur[p]
    <3>1. lock # seen[p] \/ lock.run = run[cur[p]]
      BY <1>9 DEF UnlinkOwn, SeenLocksWereTaken
    <3>2. QED
      BY <2>2, <2>3, <3>1, <1>9, <1>c DEF UnlinkOwn, Successor, LockFile
  <2>4. CASE lock \in LockFile /\ lock.owner = cur[p]
    BY <2>1, <2>2, <2>4, <1>9, <1>b DEF UnlinkOwn, Successor
  <2>5. CASE lock \notin LockFile
    BY <2>2, <2>5, <1>9, <1>b DEF UnlinkOwn, Successor
  <2>6. QED
    BY <2>3, <2>4, <2>5
<1>10. ASSUME NEW s \in Sessions, NEW p \in Servers, NEW r \in RunIds,
              AskFresh(s, p, r) \/ AskRecover(s, p, r)
       PROVE  Promise!Leave
  BY <1>10, <1>a DEF AskFresh, AskRecover, Ask, Call, onDisk
<1>11. ASSUME NEW s \in Sessions, Release(s)
       PROVE  Promise!Leave
  BY <1>11, <1>a DEF Release, Call, onDisk
<1>12. ASSUME NEW s \in Sessions, Interrupt(s)
       PROVE  Promise!Leave
  BY <1>12, <1>a DEF Interrupt, Running, onDisk, calls, ghosts
<1>13. ASSUME RemoveByHand
       PROVE  Promise!Free
  <2>1. lock.owner \in Sessions /\ run[lock.owner] = lock.run
    BY <1>13 DEF RemoveByHand, LockFile, LockIsSomeonesBusiness
  <2>2. phase[lock.owner] # "active"
    BY <2>1, <1>13 DEF RemoveByHand, Running
  <2>3. QED
    BY <2>1, <2>2, <1>13, <1>b DEF RemoveByHand, users, ghosts
<1>14. CASE UNCHANGED vars
  BY <1>14 DEF vars, Promise!vars
<1>15. QED
  BY <1>1, <1>2, <1>3, <1>4, <1>5, <1>6, <1>7, <1>8, <1>9, <1>10, <1>11, <1>12,
     <1>13, <1>14 DEF Next, ServerStep, Promise!Next

(* The files and system calls of run-lock.ts implement one lock that       *)
(* passes from session to session, for any number of servers and sessions. *)
THEOREM LockRefined == Spec => KeepsThePromise
<1>1. Init => Promise!Init
  BY LockConstants DEF Init, Promise!Init, LockFile
<1>2. QED
  BY <1>1, PromiseStep, Inductive, PTL DEF Spec, KeepsThePromise, Promise!Spec
===============================================================================
