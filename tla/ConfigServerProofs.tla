--------------------------- MODULE ConfigServerProofs ---------------------------
(***************************************************************************)
(* ApprovalsKept, CommandsApproved, ServedIsCurrent, EntriesKept and       *)
(* AppendedStays hold for any set of config servers, calls, contents and   *)
(* module states, with all the tools running in the same servers;          *)
(* CascadeByTier and ValidMeansUsable for any overlays and stack files;    *)
(* PlanStable and FingerprintFaithful for any plan inputs and edits.       *)
(***************************************************************************)
EXTENDS ModuleState, Questions, DataLemmas, SequenceTheorems

ServersSpec == ServerInit /\ ModuleInit /\ [][ModuleNext]_<<serverVars, moduleVars>>

Typed ==
  /\ DOMAIN at = Servers /\ DOMAIN cache = Servers /\ DOMAIN seen = Servers
  /\ DOMAIN overlay = Tiers /\ DOMAIN writer = Tiers
  /\ now \in Nat \ {0} /\ exposed \in BOOLEAN
  /\ \A tier \in Tiers : overlay[tier].mtime \in Nat \ {0}
  /\ trustCache = [approvals |-> trustCache.approvals, secure |-> trustCache.secure]

(* No contents stand approved for this project that never were, in the     *)
(* file or in the hands of a call that will write it.                      *)
NoneForged(approvals) ==
  \A a \in approvals : a.projectRoot = Here => a.aggregateHash \in everApproved
ApprovalsTrue ==
  /\ NoneForged(trustCache.approvals)
  /\ \A p \in Servers : at[p] = "replace approvals" => NoneForged(seen[p].approvals)

(* What a composition knows while no file moves under it.                  *)
TrustFits(trust, body) ==
  trust \in {"skipped", "approved"} /\ ProjectDeclaresCommands(body) => body \in everApproved
CompositionFits(p) ==
  /\ at[p] = "look up" => seen[p].hash = overlay["project"].body
  /\ at[p] \in {"cascade", "record"} /\ p \notin Unsafe =>
       TrustFits(seen[p].trust, overlay["project"].body)
  /\ at[p] = "record" =>
       \A tier \in Tiers : seen[p].overlays[tier] = overlay[tier].body

(* What a server has cached it has seen; it has not written since.         *)
EntryFits(p) ==
  cache[p] # NoEntry =>
    /\ DOMAIN cache[p].states = Tiers
    /\ p \notin Unsafe => TrustFits(cache[p].value.trust, cache[p].value.overlays["project"])
    /\ \A tier \in Tiers :
         /\ cache[p].value.overlays[tier] = overlay[tier].body \/ writer[tier] # p
         /\ cache[p].states[tier] = 0 => cache[p].value.overlays[tier] = Absent

AllFit == \A p \in Servers \ disturbed : CompositionFits(p) /\ EntryFits(p)

IInv == Typed /\ ApprovalsTrue /\ AllFit /\ ApprovalsKept

-------------------------------------------------------------------------------
LEMMA InvInit == ServerInit => IInv
<1> SUFFICES ASSUME ServerInit PROVE IInv
    OBVIOUS
<1>1. Typed
  <2>1. \A tier \in Tiers : overlay[tier].mtime = 1
      BY DEF ServerInit
  <2>2. trustCache = [approvals |-> trustCache.approvals, secure |-> trustCache.secure]
      BY DEF ServerInit
  <2>3. DOMAIN overlay = Tiers /\ DOMAIN writer = Tiers /\ now = 1
      BY DEF ServerInit
  <2>4. DOMAIN at = Servers /\ DOMAIN cache = Servers /\ DOMAIN seen = Servers
      BY DEF ServerInit
  <2>5. exposed \in BOOLEAN
      BY DEF ServerInit
  <2> QED BY <2>1, <2>2, <2>3, <2>4, <2>5 DEF Typed
<1>2. ApprovalsTrue
  <2>1. trustCache.approvals = {Approval("another project", Absent)}
      BY DEF ServerInit
  <2>2. NoneForged(trustCache.approvals)
    <3>1. Approval("another project", Absent).projectRoot = "another project"
        BY DEF Approval
    <3> QED BY <2>1, <3>1 DEF NoneForged, Here
  <2> QED BY <2>2 DEF ServerInit, ApprovalsTrue
<1>3. AllFit
    BY DEF ServerInit, AllFit, CompositionFits, EntryFits
<1>4. ApprovalsKept
    BY DEF ServerInit, ApprovalsKept, Refused
<1> QED BY <1>1, <1>2, <1>3, <1>4 DEF IInv

(* A step that leaves all files alone: what the server p does to its own   *)
(* call is all that can matter.                                            *)
Local(p) ==
  /\ UNCHANGED <<overlay, trustCache, now, everApproved, kept, unseen, writer, exposed>>
  /\ DOMAIN at' = Servers /\ DOMAIN seen' = Servers /\ DOMAIN cache' = Servers
  /\ \A q \in Servers \ {p} :
       at'[q] = at[q] /\ seen'[q] = seen[q] /\ cache'[q] = cache[q]
  /\ at[p] # "chmod"

LEMMA LocalStep ==
  ASSUME IInv, NEW p \in Servers, Local(p),
         disturbed' \in {disturbed, disturbed \ {p}},
         at'[p] = "replace approvals" => NoneForged(seen'[p].approvals),
         p \notin disturbed' => CompositionFits(p)' /\ EntryFits(p)'
  PROVE  IInv'
<1>1. Typed'
    BY DEF IInv, Typed, Local
<1>2. \A q \in Servers \ {p} :
        at'[q] = at[q] /\ seen'[q] = seen[q] /\ cache'[q] = cache[q]
    BY DEF IInv, Typed, Local
<1>3. ApprovalsTrue'
  <2>1. NoneForged(trustCache.approvals)'
      BY DEF IInv, ApprovalsTrue, NoneForged, Local
  <2>2. ASSUME NEW q \in Servers, at'[q] = "replace approvals" PROVE NoneForged(seen[q].approvals)'
      BY <1>2, <2>2 DEF IInv, ApprovalsTrue, NoneForged, Local
  <2> QED BY <2>1, <2>2 DEF ApprovalsTrue
<1>4. AllFit'
  <2> SUFFICES ASSUME NEW q \in Servers, q \notin disturbed', q # p
               PROVE  CompositionFits(q)' /\ EntryFits(q)'
      BY DEF AllFit
  <2>1. CompositionFits(q) /\ EntryFits(q)
      BY DEF IInv, AllFit
  <2>2. at'[q] = at[q] /\ seen'[q] = seen[q] /\ cache'[q] = cache[q]
      BY <1>2
  <2>3. UNCHANGED <<overlay, writer, everApproved>>
      BY DEF Local
  <2>4. CompositionFits(q)'
      BY <2>1, <2>2, <2>3 DEF CompositionFits, TrustFits
  <2>5. EntryFits(q)'
      BY <2>1, <2>2, <2>3 DEF EntryFits, TrustFits
  <2> QED BY <2>4, <2>5
<1>5. ApprovalsKept'
    BY <1>2 DEF IInv, ApprovalsKept, Refused, Local
<1> QED BY <1>1, <1>3, <1>4, <1>5 DEF IInv

(* A step after which nothing is known that the properties rest on.        *)
LEMMA NeutralStep ==
  ASSUME IInv, NEW p \in Servers, Local(p),
         at'[p] \notin {"look up", "cascade", "record", "replace approvals"},
         \/ cache'[p] = NoEntry /\ disturbed' \in {disturbed, disturbed \ {p}}
         \/ cache'[p] = cache[p] /\ disturbed' = disturbed
  PROVE  IInv'
<1>1. ASSUME p \notin disturbed' PROVE CompositionFits(p)' /\ EntryFits(p)'
  <2>1. CompositionFits(p)'
      BY DEF CompositionFits
  <2>2. CASE cache'[p] = NoEntry
      BY <2>1, <2>2 DEF EntryFits
  <2>3. CASE cache'[p] = cache[p] /\ disturbed' = disturbed
    <3>1. EntryFits(p)
        BY <1>1, <2>3 DEF IInv, AllFit
    <3>2. EntryFits(p)'
        BY <2>3, <3>1 DEF EntryFits, TrustFits, Local
    <3> QED BY <2>1, <3>2
  <2> QED BY <2>2, <2>3
<1> QED BY <1>1, LocalStep

(* The steps of a composition.                                             *)
LEMMA CompositionStep ==
  ASSUME IInv, NEW p \in Servers,
         Get(p) \/ Validate(p) \/ Hash(p) \/ LookUp(p) \/ LoadOverlays(p) \/ Record(p)
  PROVE  IInv'
<1> USE DEF Local, Goes, Remembers, disk, tallies
<1> DOMAIN at = Servers /\ DOMAIN cache = Servers /\ DOMAIN seen = Servers
    BY DEF IInv, Typed
<1>0. p \notin disturbed => CompositionFits(p) /\ EntryFits(p)
    BY DEF IInv, AllFit
<1>1. CASE Get(p)
  <2>1. CASE Hit(p)
    <3>1. Local(p) /\ at'[p] = "idle" /\ cache' = cache /\ disturbed' = disturbed
        BY <1>1, <2>1 DEF Get, Returns
    <3> QED BY <3>1, NeutralStep
  <2>2. CASE ~Hit(p)
    <3>1. Local(p) /\ at'[p] = "validate" /\ cache'[p] = NoEntry /\ disturbed' = disturbed \ {p}
        BY <1>1, <2>2 DEF Get
    <3> QED BY <3>1, NeutralStep
  <2> QED BY <2>1, <2>2
<1>2. CASE Validate(p)
  <2> DEFINE declares == ProjectDeclaresCommands(overlay["project"].body)
  <2>1. Local(p) /\ cache' = cache /\ UNCHANGED <<disturbed, overlay, everApproved, writer>>
      BY <1>2 DEF Validate
  <2>2. CASE declares /\ p \notin Unsafe
    <3>1. at'[p] = "trust"
        BY <1>2, <2>2 DEF Validate
    <3> QED BY <2>1, <3>1, NeutralStep
  <2>3. CASE ~(declares /\ p \notin Unsafe)
    <3>1. at'[p] = "cascade"
        BY <1>2, <2>3 DEF Validate
    <3>2. CompositionFits(p)'
        BY <2>1, <2>3, <3>1 DEF CompositionFits, TrustFits
    <3>3. p \notin disturbed => EntryFits(p)'
        BY <1>0, <2>1 DEF EntryFits, TrustFits
    <3> QED BY <2>1, <3>1, <3>2, <3>3, LocalStep
  <2> QED BY <2>2, <2>3
<1>3. CASE Hash(p)
  <2>1. Local(p) /\ UNCHANGED <<cache, disturbed, overlay, everApproved, writer>>
      BY <1>3 DEF Hash
  <2>2. CASE at[p] = "trust"
    <3>1. at'[p] = "look up" /\ seen'[p].hash = overlay["project"].body
        BY <1>3, <2>2 DEF Hash, ComputeTrustHash
    <3>2. CompositionFits(p)'
        BY <2>1, <3>1 DEF CompositionFits
    <3>3. p \notin disturbed => EntryFits(p)'
        BY <1>0, <2>1 DEF EntryFits, TrustFits
    <3> QED BY <2>1, <3>1, <3>2, <3>3, LocalStep
  <2>3. CASE at[p] # "trust"
    <3>1. at'[p] = "read approvals"
        BY <1>3, <2>3 DEF Hash
    <3> QED BY <2>1, <3>1, NeutralStep
  <2> QED BY <2>2, <2>3
<1>4. CASE LookUp(p)
  <2>1. Local(p) /\ UNCHANGED <<cache, disturbed, overlay, everApproved, writer>>
      BY <1>4 DEF LookUp
  <2>2. at[p] = "look up" /\ at'[p] = "cascade"
      BY <1>4 DEF LookUp
  <2>3. seen'[p].trust \in {"skipped", "approved"} =>
          Approval(Here, seen[p].hash) \in trustCache.approvals
    <3>1. CASE Refused
      <4>1. seen'[p].trust = "TrustCacheCorrupt"
          BY <1>4, <3>1, Zenon DEF LookUp
      <4> QED BY <4>1
    <3>2. CASE ~Refused /\ Approval(Here, seen[p].hash) \in trustCache.approvals
        BY <3>2
    <3>3. CASE ~Refused /\ Approval(Here, seen[p].hash) \notin trustCache.approvals
      <4>1. seen'[p].trust = "UntrustedOverlay"
          BY <1>4, <3>3 DEF LookUp
      <4> QED BY <4>1
    <3> QED BY <3>1, <3>2, <3>3
  <2>4. Approval(Here, seen[p].hash) \in trustCache.approvals => seen[p].hash \in everApproved
      BY DEF IInv, ApprovalsTrue, NoneForged, Approval
  <2>5. p \notin disturbed => CompositionFits(p)'
      BY <1>0, <2>1, <2>2, <2>3, <2>4 DEF CompositionFits, TrustFits
  <2>6. p \notin disturbed => EntryFits(p)'
      BY <1>0, <2>1 DEF EntryFits, TrustFits
  <2> QED BY <2>1, <2>2, <2>5, <2>6, LocalStep
<1>5. CASE LoadOverlays(p)
  <2>1. Local(p) /\ UNCHANGED <<cache, disturbed, overlay, everApproved, writer>>
      BY <1>5 DEF LoadOverlays, Returns
  <2>2. CASE at'[p] = "idle"
      BY <2>1, <2>2, NeutralStep
  <2>3. CASE at'[p] # "idle"
    <3>1. at[p] = "cascade" /\ at'[p] = "record"
        BY <1>5, <2>3 DEF LoadOverlays, Returns
    <3>2. seen'[p] = [trust |-> seen[p].trust,
                      overlays |-> [tier \in Tiers |-> overlay[tier].body]]
        BY <1>5, <2>3 DEF LoadOverlays, Returns
    <3>3. p \notin disturbed => CompositionFits(p)'
        BY <1>0, <2>1, <3>1, <3>2 DEF CompositionFits, TrustFits
    <3>4. p \notin disturbed => EntryFits(p)'
        BY <1>0, <2>1 DEF EntryFits, TrustFits
    <3> QED BY <2>1, <3>1, <3>3, <3>4, LocalStep
  <2> QED BY <2>2, <2>3
<1>6. CASE Record(p)
  <2>1. Local(p) /\ UNCHANGED <<disturbed, overlay, everApproved, writer>>
      BY <1>6 DEF Record, Returns
  <2>2. at[p] = "record" /\ at'[p] = "idle"
      BY <1>6 DEF Record, Returns
  <2>3. cache'[p] = [value |-> seen[p], states |-> CollectBackingFileStates]
      BY <1>6 DEF Record
  <2>4. CompositionFits(p)'
      BY <2>2 DEF CompositionFits
  <2>5. ASSUME p \notin disturbed PROVE EntryFits(p)'
    <3>1. \A tier \in Tiers : seen[p].overlays[tier] = overlay[tier].body
        BY <1>0, <2>2, <2>5 DEF CompositionFits
    <3>2. p \notin Unsafe => TrustFits(seen[p].trust, seen[p].overlays["project"])
        BY <1>0, <2>2, <2>5, <3>1 DEF CompositionFits, Tiers
    <3>3. /\ DOMAIN CollectBackingFileStates = Tiers
          /\ \A tier \in Tiers : CollectBackingFileStates[tier] = 0 => overlay[tier].body = Absent
        BY DEF IInv, Typed, CollectBackingFileStates
    <3>4. cache'[p].value = seen[p] /\ cache'[p].states = CollectBackingFileStates
        BY <2>3
    <3> QED BY <2>1, <3>1, <3>2, <3>3, <3>4 DEF EntryFits, TrustFits
  <2> QED BY <2>1, <2>2, <2>4, <2>5, LocalStep
<1> QED BY <1>1, <1>2, <1>3, <1>4, <1>5, <1>6

(* The steps of the other tools that write no file of these, and of a kill *)
(* anywhere but between the two system calls of a write.                   *)
LEMMA QuietStep ==
  ASSUME IInv, NEW p \in Servers,
         \/ StartCall(p) \/ ReadOverlay(p) \/ ReadApprovals(p)
         \/ StartModuleCall(p) \/ ReadState(p) \/ WriteState(p)
         \/ Kill(p) /\ at[p] # "chmod"
  PROVE  IInv'
<1> USE DEF Local, Goes, Remembers, Returns, disk, tallies
<1> DOMAIN at = Servers /\ DOMAIN cache = Servers /\ DOMAIN seen = Servers
    BY DEF IInv, Typed
<1>1. CASE StartCall(p)
  <2>1. PICK c \in Calls : at' = [at EXCEPT ![p] = FirstStep(c)]
      BY <1>1 DEF StartCall
  <2>2. c.kind \in Mutations \union {"getResolvedConfig", "trustApprove", "trustRevoke"}
      BY CallsAssumption DEF Calls
  <2>3. FirstStep(c) \in {"read overlay", "get", "hash", "read approvals"}
      BY <2>2, Zenon DEF FirstStep
  <2>4. Local(p) /\ cache' = cache /\ disturbed' = disturbed
      BY <1>1, <2>1 DEF StartCall
  <2> QED BY <2>1, <2>3, <2>4, NeutralStep
<1>2. CASE ReadOverlay(p)
  <2>1. Local(p) /\ at'[p] \in {"idle", "persist"} /\ cache' = cache /\ disturbed' = disturbed
      BY <1>2 DEF ReadOverlay
  <2> QED BY <2>1, NeutralStep
<1>3. CASE ReadApprovals(p)
  <2>1. Local(p) /\ UNCHANGED <<cache, disturbed, overlay, everApproved, writer>>
      BY <1>3 DEF ReadApprovals
  <2>2. CASE Refused
      BY <1>3, <2>1, <2>2, NeutralStep DEF ReadApprovals
  <2>3. CASE ~Refused
    <3>1. at'[p] = "replace approvals" /\ seen'[p].approvals = trustCache.approvals
      <4>1. PICK hash : seen' = [seen EXCEPT ![p] = [approvals |-> trustCache.approvals,
                                                     hash |-> hash]]
          BY <1>3, <2>3, Zenon DEF ReadApprovals
      <4>2. at'[p] = "replace approvals"
          BY <1>3, <2>3 DEF ReadApprovals
      <4> QED BY <4>1, <4>2
    <3>2. NoneForged(seen'[p].approvals)
        BY <3>1 DEF IInv, ApprovalsTrue
    <3>3. p \notin disturbed => EntryFits(p)'
        BY <2>1 DEF IInv, AllFit, EntryFits, TrustFits
    <3>4. CompositionFits(p)'
        BY <3>1 DEF CompositionFits
    <3> QED BY <2>1, <3>2, <3>3, <3>4, LocalStep
  <2> QED BY <2>2, <2>3
<1>4. CASE StartModuleCall(p)
  <2>1. Local(p) /\ cache' = cache /\ disturbed' = disturbed
      BY <1>4 DEF StartModuleCall, filesOfServers
  <2>2. at'[p] \in {"idle", "write state", "read state"}
      BY <1>4 DEF StartModuleCall, filesOfServers
  <2> QED BY <2>1, <2>2, NeutralStep
<1>5. CASE ReadState(p)
  <2>1. Local(p) /\ at'[p] \in {"idle", "write state"} /\ cache' = cache /\ disturbed' = disturbed
      BY <1>5 DEF ReadState, filesOfServers
  <2> QED BY <2>1, NeutralStep
<1>6. CASE WriteState(p)
  <2>1. Local(p) /\ at'[p] = "idle" /\ cache'[p] = NoEntry /\ disturbed' = disturbed
      BY <1>6 DEF WriteState
  <2> QED BY <2>1, NeutralStep
<1>7. CASE Kill(p) /\ at[p] # "chmod"
  <2>1. exposed' = exposed
      BY <1>7 DEF Kill, IInv, Typed
  <2>2. Local(p) /\ at'[p] = "idle" /\ cache'[p] = NoEntry /\ disturbed' = disturbed
      BY <1>7, <2>1 DEF Kill
  <2> QED BY <2>2, NeutralStep
<1> QED BY <1>1, <1>2, <1>3, <1>4, <1>5, <1>6, <1>7

-------------------------------------------------------------------------------
(* Somebody writes an overlay: a composition that is under way is marked,  *)
(* and whoever has cached this overlay is not who has written it.          *)
LEMMA OverlayWritten ==
  ASSUME IInv, NEW tier, NEW body, NEW who,
         WriteOverlay(tier, body, who),
         UNCHANGED <<trustCache, everApproved, kept, unseen, exposed>>,
         DOMAIN at' = Servers, DOMAIN seen' = Servers, DOMAIN cache' = Servers,
         \A q \in Servers \ {who} :
           at'[q] = at[q] /\ seen'[q] = seen[q] /\ cache'[q] = cache[q],
         who \in Servers => at[who] = "persist" /\ at'[who] = "idle" /\ cache'[who] = NoEntry
  PROVE  IInv'
<1>1. Typed'
    BY DEF IInv, Typed, WriteOverlay
<1>2. ApprovalsTrue'
    BY DEF IInv, ApprovalsTrue, NoneForged
<1>3. AllFit'
  <2> SUFFICES ASSUME NEW q \in Servers, q \notin disturbed'
               PROVE  CompositionFits(q)' /\ EntryFits(q)'
      BY DEF AllFit
  <2>1. CASE q = who
      BY <2>1 DEF CompositionFits, EntryFits
  <2>2. CASE q # who
    <3>1. q \notin disturbed /\ at[q] \notin Composing
        BY DEF WriteOverlay
    <3>2. CompositionFits(q)'
        BY <2>2, <3>1 DEF CompositionFits, Composing
    <3>3. EntryFits(q)
        BY <3>1 DEF IInv, AllFit
    <3>4. \A t \in Tiers : \/ overlay'[t] = overlay[t] /\ writer'[t] = writer[t]
                           \/ writer'[t] = who
        BY DEF WriteOverlay, IInv, Typed
    <3>5. EntryFits(q)'
        BY <2>2, <3>3, <3>4 DEF EntryFits, TrustFits
    <3> QED BY <3>2, <3>5
  <2> QED BY <2>1, <2>2
<1>4. ApprovalsKept'
    BY DEF IInv, ApprovalsKept, Refused
<1> QED BY <1>1, <1>2, <1>3, <1>4 DEF IInv

LEMMA OverlayStep ==
  ASSUME IInv, (\E p \in Servers : Persist(p)) \/ Edit
  PROVE  IInv'
<1> DOMAIN at = Servers /\ DOMAIN cache = Servers /\ DOMAIN seen = Servers
    BY DEF IInv, Typed
<1>1. ASSUME NEW p \in Servers, Persist(p) PROVE IInv'
  <2> DEFINE c == call[p]
             data == Mutate(BaseData(seen[p].base), c)
  <2>1. /\ at[p] = "persist" /\ at'[p] = "idle"
        /\ UNCHANGED <<trustCache, everApproved, kept, unseen, exposed>>
        /\ DOMAIN at' = Servers /\ DOMAIN seen' = Servers
        /\ \A q \in Servers \ {p} : at'[q] = at[q] /\ seen'[q] = seen[q]
      BY <1>1 DEF Persist, Returns, Goes, Remembers
  <2>2. CASE ForbiddenAtUserTier(c.tier, data)
    <3>1. UNCHANGED <<overlay, cache, now, disturbed, writer>>
        BY <1>1, <2>2 DEF Persist
    <3>2. Local(p)
        BY <2>1, <3>1 DEF Local
    <3> QED BY <2>1, <3>1, <3>2, NeutralStep
  <2>3. CASE ~ForbiddenAtUserTier(c.tier, data)
    <3>1. WriteOverlay(c.tier, data, p) /\ cache' = [cache EXCEPT ![p] = NoEntry]
        BY <1>1, <2>3 DEF Persist
    <3> HIDE DEF c, data
    <3> QED BY <2>1, <3>1, OverlayWritten
  <2> QED BY <2>2, <2>3
<1>2. ASSUME Edit PROVE IInv'
  <2>1. \E tier \in Tiers, body \in EditedBodies : WriteOverlay(tier, body, "user")
      BY <1>2 DEF Edit
  <2>2. UNCHANGED <<trustCache, cache, at, seen, everApproved, kept, unseen, exposed>>
      BY <1>2 DEF Edit
  <2> QED BY <2>1, <2>2, OverlayWritten, ServersAssumption
<1> QED BY <1>1, <1>2

-------------------------------------------------------------------------------
(* The trust cache is replaced, then closed to others.                     *)
LEMMA Replaced ==
  ASSUME IInv, NEW p \in Servers, ReplaceApprovals(p)
  PROVE  IInv'
<1> DEFINE new == Approval(Here, seen[p].hash)
           approves == call[p].kind = "trustApprove"
           held == seen[p].approvals
<1>1. /\ at[p] = "replace approvals" /\ at' = [at EXCEPT ![p] = "chmod"]
      /\ UNCHANGED <<overlay, cache, call, seen, now, writer, disturbed, exposed>>
      /\ trustCache' = [secure |-> FALSE,
                        approvals |-> IF approves THEN UpsertApproval(held, new)
                                      ELSE RemoveApprovals(held, Here)]
      /\ kept' = IF approves THEN kept \union {new} ELSE RemoveApprovals(kept, Here)
      /\ everApproved' = everApproved \union IF approves THEN {seen[p].hash} ELSE {}
      /\ unseen' = unseen \union (trustCache.approvals \ held)
    BY DEF ReplaceApprovals, Goes
<1>2. Typed'
    BY <1>1 DEF IInv, Typed
<1>3. everApproved \subseteq everApproved'
    BY <1>1
<1>4. ApprovalsTrue'
  <2>1. \A a \in held : a.projectRoot = Here => a.aggregateHash \in everApproved
      BY <1>1 DEF IInv, ApprovalsTrue, NoneForged
  <2>2. NoneForged(trustCache.approvals)'
    <3>1. CASE approves
      <4>1. trustCache'.approvals = UpsertApproval(held, new)
          BY <1>1, <3>1
      <4>2. new.aggregateHash \in everApproved'
          BY <1>1, <3>1 DEF Approval
      <4> HIDE DEF new, held
      <4> QED BY <1>3, <2>1, <4>1, <4>2 DEF NoneForged, UpsertApproval
    <3>2. CASE ~approves
      <4>1. trustCache'.approvals = RemoveApprovals(held, Here)
          BY <1>1, <3>2
      <4> QED BY <1>3, <2>1, <4>1 DEF NoneForged, RemoveApprovals
    <3> QED BY <3>1, <3>2
  <2>3. ASSUME NEW q \in Servers, at'[q] = "replace approvals" PROVE NoneForged(seen[q].approvals)'
    <3>1. at[q] = "replace approvals"
        BY <1>1, <2>3 DEF IInv, Typed
    <3> QED BY <1>1, <1>3, <3>1 DEF IInv, ApprovalsTrue, NoneForged
  <2> QED BY <2>2, <2>3 DEF ApprovalsTrue
<1>5. AllFit'
  <2> SUFFICES ASSUME NEW q \in Servers, q \notin disturbed
               PROVE  CompositionFits(q)' /\ EntryFits(q)'
      BY <1>1 DEF AllFit
  <2>1. CompositionFits(q) /\ EntryFits(q)
      BY DEF IInv, AllFit
  <2>2. at'[q] = at[q] \/ at'[q] = "chmod"
      BY <1>1 DEF IInv, Typed
  <2>3. CompositionFits(q)'
      BY <1>1, <1>3, <2>1, <2>2 DEF CompositionFits, TrustFits
  <2>4. EntryFits(q)'
      BY <1>1, <1>3, <2>1 DEF EntryFits, TrustFits
  <2> QED BY <2>3, <2>4
<1>6. ApprovalsKept'
  <2>1. kept' \subseteq trustCache'.approvals \union unseen'
    <3>1. kept \subseteq trustCache.approvals \union unseen
        BY DEF IInv, ApprovalsKept
    <3>2. CASE approves
      <4>1. trustCache'.approvals = UpsertApproval(held, new) /\ kept' = kept \union {new}
          BY <1>1, <3>2
      <4> HIDE DEF new, held
      <4> QED BY <1>1, <3>1, <4>1 DEF UpsertApproval, held
    <3>3. CASE ~approves
      <4>1. trustCache'.approvals = RemoveApprovals(held, Here) /\ kept' = RemoveApprovals(kept, Here)
          BY <1>1, <3>3
      <4> QED BY <1>1, <3>1, <4>1 DEF RemoveApprovals
    <3> QED BY <3>2, <3>3
  <2>2. at'[p] = "chmod"
      BY <1>1 DEF IInv, Typed
  <2> QED BY <2>1, <2>2 DEF ApprovalsKept
<1> QED BY <1>2, <1>4, <1>5, <1>6 DEF IInv

(* The mode is set, by the writer or by hand; or the writer is killed      *)
(* before it could.                                                        *)
LEMMA ModeStep ==
  ASSUME IInv, \/ \E p \in Servers : Chmod(p)
               \/ \E p \in Servers : Kill(p) /\ at[p] = "chmod"
               \/ RestoreMode
  PROVE  IInv'
<1> USE DEF Goes, Remembers, Returns, disk, tallies
<1>1. /\ UNCHANGED <<overlay, now, everApproved, kept, unseen, writer, disturbed>>
      /\ trustCache'.approvals = trustCache.approvals
      /\ trustCache' = [approvals |-> trustCache'.approvals, secure |-> trustCache'.secure]
    BY DEF IInv, Typed, Chmod, Kill, RestoreMode
<1>2. /\ DOMAIN at' = Servers /\ DOMAIN seen' = Servers /\ DOMAIN cache' = Servers
      /\ \A q \in Servers : \/ at'[q] = at[q] /\ seen'[q] = seen[q]
                            \/ at'[q] = "idle"
      /\ \A q \in Servers : cache'[q] = cache[q] \/ cache'[q] = NoEntry
    BY DEF IInv, Typed, Chmod, Kill, RestoreMode
<1>3. Typed'
  <2>1. exposed' \in BOOLEAN
      BY DEF IInv, Typed, Chmod, Kill, RestoreMode
  <2> QED BY <1>1, <1>2, <2>1 DEF IInv, Typed
<1>4. ApprovalsTrue'
    BY <1>1, <1>2 DEF IInv, ApprovalsTrue, NoneForged
<1>5. AllFit'
  <2> SUFFICES ASSUME NEW q \in Servers, q \notin disturbed
               PROVE  CompositionFits(q)' /\ EntryFits(q)'
      BY <1>1 DEF AllFit
  <2>1. CompositionFits(q) /\ EntryFits(q)
      BY DEF IInv, AllFit
  <2>2. CompositionFits(q)'
      BY <1>1, <1>2, <2>1 DEF CompositionFits, TrustFits
  <2>3. EntryFits(q)'
      BY <1>1, <1>2, <2>1 DEF EntryFits, TrustFits
  <2> QED BY <2>2, <2>3
<1>6. ApprovalsKept'
  <2>1. trustCache'.secure \/ exposed'
      BY DEF IInv, Typed, Chmod, Kill, RestoreMode
  <2> QED BY <1>1, <2>1 DEF IInv, ApprovalsKept, Refused
<1> QED BY <1>3, <1>4, <1>5, <1>6 DEF IInv

LEMMA InvNext == IInv /\ [ModuleNext]_<<serverVars, moduleVars>> => IInv'
<1> SUFFICES ASSUME IInv, [ModuleNext]_<<serverVars, moduleVars>> PROVE IInv'
    OBVIOUS
<1>1. CASE UNCHANGED serverVars
  <2>1. Typed' /\ ApprovalsTrue' /\ ApprovalsKept'
      BY <1>1 DEF IInv, Typed, ApprovalsTrue, NoneForged, ApprovalsKept, Refused, serverVars
  <2>2. AllFit'
    <3> SUFFICES ASSUME NEW q \in Servers, q \notin disturbed
                 PROVE  CompositionFits(q)' /\ EntryFits(q)'
        BY <1>1 DEF AllFit, serverVars
    <3>1. CompositionFits(q) /\ EntryFits(q)
        BY DEF IInv, AllFit
    <3> QED BY <1>1, <3>1 DEF CompositionFits, EntryFits, TrustFits, serverVars
  <2> QED BY <2>1, <2>2 DEF IInv
<1>2. ASSUME NEW p \in Servers, ServerStep(p) PROVE IInv'
  <2>1. CASE \/ Get(p) \/ Validate(p) \/ Hash(p) \/ LookUp(p) \/ LoadOverlays(p) \/ Record(p)
      BY <2>1, CompositionStep
  <2>2. CASE StartCall(p) \/ ReadOverlay(p) \/ ReadApprovals(p)
      BY <2>2, QuietStep
  <2>3. CASE Persist(p)
      BY <2>3, OverlayStep
  <2>4. CASE ReplaceApprovals(p)
      BY <2>4, Replaced
  <2>5. CASE Chmod(p)
      BY <2>5, ModeStep
  <2> QED BY <1>2, <2>1, <2>2, <2>3, <2>4, <2>5 DEF ServerStep
<1>3. ASSUME NEW p \in Servers, StartModuleCall(p) \/ ReadState(p) \/ WriteState(p) \/ Kill(p)
      PROVE IInv'
    BY <1>3, QuietStep, ModeStep
<1>4. CASE UserStep
    BY <1>4, OverlayStep, ModeStep DEF UserStep
<1> QED BY <1>1, <1>2, <1>3, <1>4 DEF ModuleNext, KillModuleServer

LEMMA InvHolds == ServersSpec => []IInv
BY InvInit, InvNext, PTL DEF ServersSpec

-------------------------------------------------------------------------------
(* An approval that was acknowledged is there until it is revoked or a     *)
(* process writes back what it read before, and the cache is refused only  *)
(* within a write or after a kill there (trust/cache-io.ts).               *)
THEOREM NoApprovalLost == ServersSpec => []ApprovalsKept
<1>1. IInv => ApprovalsKept
    BY DEF IInv
<1> QED BY <1>1, InvHolds, PTL

(* No commands come out of a composition as trusted but those of contents  *)
(* that were approved for this project (trust/integration.ts).             *)
THEOREM TrustedOnlyIfApproved == ServersSpec => []CommandsApproved
<1>1. IInv => CommandsApproved
    BY DEF IInv, AllFit, EntryFits, TrustFits, CommandsApproved
<1> QED BY <1>1, InvHolds, PTL

(* What the cache serves is what the files say, but for a write of another *)
(* server within the instant that the entry recorded (resolution/cache.ts).*)
THEOREM ServesWhatIsThere == ServersSpec => []ServedIsCurrent
<1>1. ASSUME IInv PROVE ServedIsCurrent
  <2> SUFFICES ASSUME NEW p \in Servers \ disturbed, Hit(p), NEW tier \in Tiers
               PROVE  \/ cache[p].value.overlays[tier] = overlay[tier].body
                      \/ /\ tier \in DOMAIN cache[p].states
                         /\ cache[p].states[tier] = overlay[tier].mtime
                         /\ writer[tier] # p
      BY DEF ServedIsCurrent
  <2>1. EntryFits(p) /\ cache[p] # NoEntry
      BY <1>1 DEF IInv, AllFit, Hit
  <2>2. BackingFileMtime(tier) = cache[p].states[tier]
      BY <2>1 DEF Hit, BackingFilesHaveChanged, EntryFits
  <2>3. CASE overlay[tier].body = Absent
      BY <2>1, <2>2, <2>3 DEF BackingFileMtime, EntryFits
  <2>4. CASE overlay[tier].body # Absent
      BY <2>1, <2>2, <2>4 DEF BackingFileMtime, EntryFits
  <2> QED BY <2>3, <2>4
<1> QED BY <1>1, InvHolds, PTL

-------------------------------------------------------------------------------
(* Lists, whatever they are lists of.                                      *)
LEMMA ListsAreLists ==
  ASSUME NEW V, NEW list \in Seq(V)
  PROVE  IsList(list)
<1>1. list \in [1..Len(list) -> V] /\ Len(list) \in Nat
  OBVIOUS
<1>2. \A i \in 1..Len(list) : list[i] \in Range(list)
  BY <1>1 DEF Range
<1>3. list \in [1..Len(list) -> Range(list)]
  BY <1>1, <1>2
<1>4. \A S : list \in [1..Len(list) -> S] => list \in Seq(S)
  BY <1>1
<1> QED BY <1>3, <1>4 DEF IsList

LEMMA AppendAdds ==
  ASSUME NEW V, NEW list \in Seq(V), NEW v
  PROVE  Range(Append(list, v)) = Range(list) \union {v}
<1>1. /\ DOMAIN list = 1..Len(list) /\ Len(list) \in Nat
      /\ DOMAIN Append(list, v) = 1..(Len(list) + 1)
      /\ Append(list, v)[Len(list) + 1] = v
      /\ \A i \in 1..Len(list) : Append(list, v)[i] = list[i]
  OBVIOUS
<1>2. 1..(Len(list) + 1) = (1..Len(list)) \union {Len(list) + 1}
  BY <1>1
<1> QED BY <1>1, <1>2 DEF Range

(* Without leaves a list of what is left.                                  *)
LEMMA WithoutLeavesTheRest ==
  ASSUME NEW list, IsList(list), NEW value
  PROVE  IsList(Without(list, value)) /\ Range(Without(list, value)) = Range(list) \ {value}
<1> DEFINE D == DOMAIN list
           V == Seq(Range(list))
           Solves(g) == g = [s \in SUBSET D |-> IF s = {} THEN <<>>
                               ELSE IF list[Max(s)] = value THEN g[s \ {Max(s)}]
                                    ELSE Append(g[s \ {Max(s)}], list[Max(s)])]
           Yes == {TRUE}
           Rest(s) == {list[i] : i \in s} \ {value}
<1>1. /\ list \in [1..Len(list) -> Range(list)] /\ Len(list) \in Nat /\ D = 1..Len(list)
      /\ IsFiniteSet(D) /\ D \subseteq Int
  BY FS_Interval DEF IsList
<1>2. PICK c : c = [s \in SUBSET D |-> Max(s)]
  OBVIOUS
<1>3. Picks(c, D)
  <2> SUFFICES ASSUME NEW s \in SUBSET D, s # {} PROVE Max(s) \in s
    BY <1>2 DEF Picks
  <2>1. \E x \in s : \A y \in s : x >= y
    BY <1>1, FS_Subset, LargestExists
  <2> QED BY <2>1 DEF Max
<1>4. \E g : Solves(g)
  <2>1. PICK step : step = [i \in D |-> [v \in V |-> IF list[i] = value THEN v ELSE Append(v, list[i])]]
    OBVIOUS
  <2>2. step \in [D -> [V -> V]] /\ <<>> \in V
    BY <1>1, <2>1
  <2>3. PICK g \in [SUBSET D -> V] : Computes(g, D, <<>>, c, step)
    BY <1>1, <1>3, <2>2, FiniteRecursion
  <2>4. ASSUME NEW s \in SUBSET D, s # {}
        PROVE  step[c[s]][g[s \ {c[s]}]] = IF list[Max(s)] = value THEN g[s \ {Max(s)}]
                                           ELSE Append(g[s \ {Max(s)}], list[Max(s)])
    <3>1. c[s] = Max(s) /\ c[s] \in D /\ g[s \ {c[s]}] \in V
      BY <1>2, <1>3, <2>4 DEF Picks
    <3> HIDE DEF V, D
    <3> QED BY <2>1, <3>1
  <2>5. \A s \in SUBSET D : g[s] = IF s = {} THEN <<>>
                               ELSE IF list[Max(s)] = value THEN g[s \ {Max(s)}]
                                    ELSE Append(g[s \ {Max(s)}], list[Max(s)])
    <3> HIDE DEF V, D
    <3> QED BY <2>3, <2>4 DEF Computes
  <2>6. Solves(g)
    <3> HIDE DEF V, D
    <3> QED BY <2>5
  <2> QED BY <2>6
<1>5. PICK it : it = CHOOSE g : Solves(g)
  OBVIOUS
<1>6. Solves(it)
  <2> HIDE DEF Solves
  <2> QED BY <1>4, <1>5
<1>7. Without(list, value) = it[D]
  BY <1>5, Zenon DEF Without, FoldLeft, MapThenFoldSet
<1>8. ASSUME NEW s \in SUBSET D, s # {}
      PROVE  /\ c[s] \in s /\ c[s] \in D
             /\ it[s] = IF list[c[s]] = value THEN it[s \ {c[s]}] ELSE Append(it[s \ {c[s]}], list[c[s]])
  BY <1>2, <1>3, <1>6, <1>8 DEF Picks
<1>9. it[{}] = <<>>
  <2>1. {} \in SUBSET D
    OBVIOUS
  <2> HIDE DEF D
  <2> QED BY <1>6, <2>1
<1> HIDE DEF Solves
<1>10. PICK good : good = [s \in SUBSET D |-> it[s] \in V /\ Range(it[s]) = Rest(s)]
  OBVIOUS
<1>11. \A s \in SUBSET D : good[s] \in Yes
  <2>1. good[{}] \in Yes
    <3>1. {} \in SUBSET D /\ Rest({}) = {} /\ <<>> \in V /\ Range(<<>>) = {}
      BY DEF Range
    <3> HIDE DEF D, V, Rest
    <3> QED BY <3>1, <1>9, <1>10
  <2>2. ASSUME NEW s \in SUBSET D, s # {}, good[s \ {c[s]}] \in Yes
        PROVE  good[s] \in Yes
    <3> DEFINE r == s \ {c[s]}
    <3>1. it[r] \in V /\ Range(it[r]) = Rest(r) /\ r \in SUBSET D
      BY <1>10, <2>2
    <3>2. c[s] \in s /\ c[s] \in D /\ list[c[s]] \in Range(list)
      BY <1>8, <2>2, <1>1
    <3>3. CASE list[c[s]] = value
      <4>1. it[s] = it[r]
        BY <1>8, <2>2, <3>3
      <4>2. Rest(s) = Rest(r)
        BY <3>2, <3>3
      <4> QED BY <4>1, <4>2, <3>1, <1>10
    <3>4. CASE list[c[s]] # value
      <4>1. it[s] = Append(it[r], list[c[s]])
        BY <1>8, <2>2, <3>4
      <4>2. Append(it[r], list[c[s]]) \in V
        BY <3>1, <3>2
      <4>3. Range(Append(it[r], list[c[s]])) = Range(it[r]) \union {list[c[s]]}
        BY <3>1, AppendAdds
      <4>4. Rest(s) = Rest(r) \union {list[c[s]]}
        BY <3>2, <3>4
      <4> QED BY <4>1, <4>2, <4>3, <4>4, <3>1, <1>10
    <3> QED BY <3>3, <3>4
  <2> HIDE DEF D, V, Rest, Yes
  <2>3. \A s \in SUBSET D : s # {} /\ good[s \ {c[s]}] \in Yes => good[s] \in Yes
    BY <2>2
  <2> QED BY <1>1, <1>3, <2>1, <2>3, FiniteRecursionType, Zenon
<1>12. it[D] \in V /\ Range(it[D]) = Rest(D)
  BY <1>10, <1>11
<1>13. Rest(D) = Range(list) \ {value}
  BY DEF Range
<1> QED BY <1>7, <1>12, <1>13, ListsAreLists

(* What an overlay call has been given, and what it has read.              *)
CallsFit ==
  \A p \in Servers :
    /\ at[p] \in {"read overlay", "persist"} => call[p] \in OverlayCalls
    /\ at[p] = "persist" => HasLists(seen[p].base)

(* Every overlay declares lists; what is acknowledged names an overlay.    *)
EntriesFit ==
  /\ \A tier \in Tiers : HasLists(overlay[tier].body)
  /\ \A e \in mine : e = <<e[1], e[2]>> /\ e[1] \in Tiers

EntriesInv == Typed /\ DOMAIN call = Servers /\ CallsFit /\ EntriesFit /\ EntriesKept

-------------------------------------------------------------------------------
LEMMA ListsRead ==
  ASSUME NEW body, HasLists(body), NEW field
  PROVE  IsList(ListAt(body, field))
<1>1. IsList(<<>>)
  BY DEF IsList, Range
<1> QED BY <1>1 DEF HasLists, ListAt

LEMMA ListsWritten ==
  ASSUME NEW data, HasLists(data), NEW field, NEW list, IsList(list)
  PROVE  /\ HasLists(With(data, field, list))
         /\ DOMAIN With(data, field, list).fields = DOMAIN data.fields \union {field}
         /\ ListAt(With(data, field, list), field) = list
         /\ \A other : other # field =>
              ListAt(With(data, field, list), other) = ListAt(data, other)
BY DEF HasLists, With, Mapping, ListAt

(* What a mutation leaves in the list of checks.                           *)
LEMMA MutationsKeep ==
  ASSUME NEW c \in OverlayCalls, NEW body, HasLists(body)
  PROVE  LET data == Mutate(BaseData(body), c) IN
         /\ HasLists(data)
         /\ c.field # "checks" => Entries(data) = Entries(body)
         /\ c.field = "checks" =>
              /\ c.kind = "setOverlayField" => Entries(data) = {c.value}
              /\ c.kind = "appendToOverlayField" => Entries(data) = Entries(body) \union {c.value}
              /\ c.kind = "removeFromOverlayField" => Entries(data) = Entries(body) \ {c.value}
<1> DEFINE base == BaseData(body)
           list == ListAt(base, c.field)
           data == Mutate(base, c)
<1> SUFFICES /\ HasLists(data)
             /\ c.field # "checks" => Entries(data) = Entries(body)
             /\ c.field = "checks" =>
                      /\ c.kind = "setOverlayField" => Entries(data) = {c.value}
                      /\ c.kind = "appendToOverlayField" => Entries(data) = Entries(body) \union {c.value}
                      /\ c.kind = "removeFromOverlayField" => Entries(data) = Entries(body) \ {c.value}
    OBVIOUS
<1>0. /\ c.kind \in {"setOverlayField", "appendToOverlayField", "removeFromOverlayField"}
      /\ HasLists(base) /\ Entries(base) = Entries(body) /\ IsList(list)
  <2>1. HasLists(base) /\ Entries(base) = Entries(body)
    BY DEF HasLists, BaseData, Mapping, Entries, ListAt
  <2>2. IsList(list)
    BY <2>1, ListsRead
  <2> QED BY <2>1, <2>2, CallsAssumption DEF Mutations
<1>1. ASSUME NEW new, IsList(new), data = With(base, c.field, new)
      PROVE  /\ HasLists(data)
             /\ c.field # "checks" => Entries(data) = Entries(body)
             /\ c.field = "checks" => Entries(data) = Range(new)
  BY <1>0, <1>1, ListsWritten DEF Entries
<1>2. CASE c.kind = "setOverlayField"
  <2>1. IsList(<<c.value>>) /\ Range(<<c.value>>) = {c.value}
    BY DEF IsList, Range
  <2>2. data = With(base, c.field, <<c.value>>)
    BY <1>2 DEF Mutate, SetAtPath
  <2> HIDE DEF data, base
  <2> QED BY <2>1, <2>2, <1>1, <1>2
<1>3. CASE c.kind = "appendToOverlayField"
  <2>1. list \in Seq(Range(list))
    BY <1>0 DEF IsList
  <2>2. Append(list, c.value) \in Seq(Range(list) \union {c.value})
    <3> HIDE DEF list
    <3> QED BY <2>1
  <2>3. IsList(Append(list, c.value)) /\ Range(Append(list, c.value)) = Range(list) \union {c.value}
    BY <2>1, <2>2, ListsAreLists, AppendAdds
  <2>4. data = With(base, c.field, Append(list, c.value))
    BY <1>3 DEF Mutate, AppendAtPath
  <2>5. c.field = "checks" => Range(list) = Entries(body)
    BY <1>0 DEF Entries
  <2> HIDE DEF data, base, list
  <2> QED BY <2>3, <2>4, <2>5, <1>1, <1>3
<1>4. CASE c.kind = "removeFromOverlayField"
  <2>1. c.field = "checks" => Range(list) = Entries(body)
    BY <1>0 DEF Entries
  <2>2. CASE c.field \in DOMAIN base.fields
    <3>1. IsList(Without(list, c.value)) /\ Range(Without(list, c.value)) = Range(list) \ {c.value}
      BY <1>0, WithoutLeavesTheRest
    <3>2. data = With(base, c.field, Without(list, c.value))
      BY <1>4, <2>2 DEF Mutate, RemoveAtPath
    <3> HIDE DEF data, base, list
    <3> QED BY <3>1, <3>2, <2>1, <1>1, <1>4
  <2>3. CASE c.field \notin DOMAIN base.fields
    <3>1. data = base /\ list = <<>> /\ Range(<<>>) = {}
      BY <1>4, <2>3 DEF Mutate, RemoveAtPath, ListAt, Range
    <3> HIDE DEF data, base, list
    <3> QED BY <3>1, <2>1, <1>0, <1>4
  <2> QED BY <2>2, <2>3
<1> QED BY <1>0, <1>2, <1>3, <1>4

LEMMA EntriesInit == ServerInit => EntriesInv
<1> SUFFICES ASSUME ServerInit PROVE EntriesInv
  OBVIOUS
<1>1. Typed
  BY InvInit DEF IInv
<1>2. DOMAIN call = Servers /\ CallsFit
  BY DEF ServerInit, CallsFit
<1>3. EntriesFit /\ EntriesKept
  <2>1. /\ \A tier \in Tiers : overlay[tier].body = Absent /\ writer[tier] = "user"
        /\ mine = {}
    BY DEF ServerInit
  <2>2. HasLists(Absent)
    BY DEF HasLists, Absent, NoFields
  <2>3. EntriesFit
    BY <2>1, <2>2 DEF EntriesFit
  <2>4. EntriesKept
    BY <2>1 DEF EntriesKept, Tiers
  <2> QED BY <2>3, <2>4
<1> QED BY <1>1, <1>2, <1>3 DEF EntriesInv

(* A step that writes no overlay: what it makes of one call is all that    *)
(* can matter.                                                             *)
LEMMA EntriesAlone ==
  ASSUME EntriesInv, Typed', NEW p \in Servers,
         UNCHANGED <<overlay, writer, mine, clobbered>>,
         DOMAIN call' = Servers,
         \A q \in Servers \ {p} : at'[q] = at[q] /\ call'[q] = call[q] /\ seen'[q] = seen[q],
         at'[p] \in {"read overlay", "persist"} => call'[p] \in OverlayCalls,
         at'[p] = "persist" => HasLists(seen'[p].base)
  PROVE  EntriesInv'
<1>1. CallsFit'
  BY DEF EntriesInv, CallsFit, HasLists, IsList
<1>2. EntriesFit'
  BY DEF EntriesInv, EntriesFit, HasLists, IsList
<1>3. EntriesKept'
  BY DEF EntriesInv, EntriesKept
<1> QED BY <1>1, <1>2, <1>3 DEF EntriesInv

LEMMA EntriesQuiet ==
  ASSUME EntriesInv, Typed', NEW p \in Servers,
         \/ StartCall(p) \/ Get(p) \/ Validate(p) \/ Hash(p) \/ LookUp(p) \/ LoadOverlays(p)
         \/ Record(p) \/ ReadOverlay(p) \/ ReadApprovals(p) \/ ReplaceApprovals(p) \/ Chmod(p)
         \/ StartModuleCall(p) \/ ReadState(p) \/ WriteState(p) \/ Kill(p)
  PROVE  EntriesInv'
<1> USE DEF Goes, Remembers, Returns, disk, tallies
<1>0. DOMAIN at = Servers /\ DOMAIN call = Servers /\ DOMAIN seen = Servers
  BY DEF EntriesInv, Typed
<1> DEFINE Alone ==
             /\ UNCHANGED <<overlay, writer, mine, clobbered>>
             /\ DOMAIN call' = Servers
             /\ \A q \in Servers \ {p} : at'[q] = at[q] /\ call'[q] = call[q] /\ seen'[q] = seen[q]
<1>1. CASE StartCall(p)
  <2>1. PICK c \in Calls : call' = [call EXCEPT ![p] = c] /\ at' = [at EXCEPT ![p] = FirstStep(c)]
    BY <1>1 DEF StartCall
  <2>2. Alone
    BY <1>0, <1>1, <2>1 DEF StartCall
  <2>3. FirstStep(c) # "persist" /\ (FirstStep(c) = "read overlay" => c \in OverlayCalls)
    <3>1. CASE c \in OverlayCalls
      BY <3>1, CallsAssumption DEF FirstStep
    <3>2. CASE c \notin OverlayCalls
      <4>1. c.kind \in {"getResolvedConfig", "trustApprove", "trustRevoke"}
        BY <3>2 DEF Calls
      <4> QED BY <4>1 DEF FirstStep, Mutations
    <3> QED BY <3>1, <3>2
  <2> QED BY <1>0, <2>1, <2>2, <2>3, EntriesAlone
<1>2. CASE StartModuleCall(p)
  <2>1. UNCHANGED <<overlay, writer, mine, clobbered, seen>>
    BY <1>2 DEF StartModuleCall, filesOfServers
  <2>2. CASE UNCHANGED <<at, call>>
    BY <1>0, <2>1, <2>2, EntriesAlone DEF EntriesInv, CallsFit
  <2>3. CASE ~UNCHANGED <<at, call>>
    <3>1. PICK c \in ModuleCalls : /\ call' = [call EXCEPT ![p] = c]
                                   /\ at' = [at EXCEPT ![p] = IF c.kind = "setModuleState"
                                                              THEN "write state" ELSE "read state"]
      BY <1>2, <2>3 DEF StartModuleCall
    <3> QED BY <1>0, <2>1, <3>1, EntriesAlone
  <2> QED BY <2>2, <2>3
<1>3. CASE ReadOverlay(p)
  <2>1. UNCHANGED <<overlay, writer, mine, clobbered>>
    BY <1>3 DEF ReadOverlay
  <2>2. CASE Returns(p)
    BY <1>0, <2>1, <2>2, EntriesAlone
  <2>3. CASE ~Returns(p)
    <3> DEFINE body == overlay[call[p].tier].body
    <3>1. seen' = [seen EXCEPT ![p] = [base |-> body]] /\ at' = [at EXCEPT ![p] = "persist"] /\ call' = call
      BY <1>3, <2>3 DEF ReadOverlay
    <3>2. call[p] \in OverlayCalls /\ HasLists(body)
      BY <1>3, CallsAssumption DEF ReadOverlay, EntriesInv, CallsFit, EntriesFit
    <3> HIDE DEF body
    <3> QED BY <1>0, <2>1, <3>1, <3>2, EntriesAlone
  <2> QED BY <2>2, <2>3
<1>4. CASE \/ Get(p) \/ Validate(p) \/ Hash(p) \/ LookUp(p) \/ LoadOverlays(p)
           \/ Record(p) \/ ReadApprovals(p) \/ ReplaceApprovals(p) \/ Chmod(p)
           \/ ReadState(p) \/ WriteState(p) \/ Kill(p)
  <2>1. UNCHANGED <<overlay, writer, mine, clobbered>>
    BY <1>4 DEF Get, Validate, Hash, LookUp, LoadOverlays, Record, ReadApprovals, ReplaceApprovals,
                Chmod, ReadState, WriteState, Kill, filesOfServers
  <2>2. /\ at'[p] # "read overlay" /\ at'[p] # "persist" /\ DOMAIN call' = Servers
        /\ \A q \in Servers \ {p} : at'[q] = at[q] /\ call'[q] = call[q] /\ seen'[q] = seen[q]
    <3>1. CASE Get(p) \/ Validate(p) \/ Hash(p)
      BY <1>0, <3>1 DEF Get, Validate, Hash
    <3>2. CASE LookUp(p) \/ LoadOverlays(p) \/ Record(p)
      BY <1>0, <3>2 DEF LookUp, LoadOverlays, Record
    <3>3. CASE ReadApprovals(p)
      BY <1>0, <3>3 DEF ReadApprovals
    <3>4. CASE ReplaceApprovals(p) \/ Chmod(p) \/ Kill(p)
      BY <1>0, <3>4 DEF ReplaceApprovals, Chmod, Kill
    <3>5. CASE ReadState(p) \/ WriteState(p)
      BY <1>0, <3>5 DEF ReadState, WriteState, filesOfServers
    <3> QED BY <1>4, <3>1, <3>2, <3>3, <3>4, <3>5
  <2> QED BY <1>0, <2>1, <2>2, EntriesAlone
<1> QED BY <1>1, <1>2, <1>3, <1>4

(* The overlay of a tier is replaced, and what is acknowledged with it.    *)
LEMMA EntriesWritten ==
  ASSUME EntriesInv, Typed', DOMAIN call' = Servers, CallsFit',
         NEW tier \in Tiers, NEW body, NEW who, WriteOverlay(tier, body, who), HasLists(body),
         \A e \in mine' : /\ e = <<e[1], e[2]>> /\ e[1] \in Tiers
                          /\ e[1] # tier => e \in mine
                          /\ e[1] = tier => e \in clobbered' \/ e[2] \in Entries(body),
         clobbered \subseteq clobbered',
         who # "user" => ~ForbiddenAtUserTier(tier, body)
  PROVE  EntriesInv'
<1>1. /\ overlay' = [overlay EXCEPT ![tier] = [body |-> body, mtime |-> now']]
      /\ writer' = [writer EXCEPT ![tier] = who]
      /\ DOMAIN overlay = Tiers /\ DOMAIN writer = Tiers
  BY DEF WriteOverlay, EntriesInv, Typed
<1>2. /\ overlay'[tier].body = body /\ writer'[tier] = who
      /\ \A t \in Tiers \ {tier} : overlay'[t] = overlay[t] /\ writer'[t] = writer[t]
  BY <1>1
<1>3. EntriesFit'
  <2>1. \A t \in Tiers : HasLists(overlay'[t].body)
    BY <1>2 DEF EntriesInv, EntriesFit
  <2> QED BY <2>1 DEF EntriesFit, HasLists, IsList
<1>4. EntriesKept'
  <2>1. ASSUME NEW e \in mine', e \notin clobbered' PROVE e[2] \in Entries(overlay'[e[1]].body)
    BY <1>2, <2>1 DEF EntriesInv, EntriesKept
  <2>2. writer'["user"] # "user" => ~ForbiddenAtUserTier("user", overlay'["user"].body)
    BY <1>2 DEF EntriesInv, EntriesKept, Tiers
  <2> QED BY <2>1, <2>2 DEF EntriesKept
<1> QED BY <1>3, <1>4 DEF EntriesInv

LEMMA EntriesPersist ==
  ASSUME EntriesInv, Typed', NEW p \in Servers, Persist(p)
  PROVE  EntriesInv'
<1> DEFINE c == call[p]
           body == seen[p].base
           data == Mutate(BaseData(body), c)
           Named(values) == {<<c.tier, v>> : v \in values}
<1>1. /\ c \in OverlayCalls /\ HasLists(body) /\ c.tier \in Tiers
      /\ DOMAIN at = Servers /\ DOMAIN call = Servers /\ DOMAIN seen = Servers
  BY CallsAssumption DEF Persist, EntriesInv, CallsFit, Typed
<1>2. at'[p] = "idle" /\ DOMAIN call' = Servers
      /\ \A q \in Servers \ {p} : at'[q] = at[q] /\ call'[q] = call[q] /\ seen'[q] = seen[q]
  BY <1>1 DEF Persist, Returns, Goes, Remembers
<1>3. CallsFit'
  BY <1>2 DEF EntriesInv, CallsFit, HasLists, IsList
<1>4. CASE ForbiddenAtUserTier(c.tier, data)
  <2>1. UNCHANGED <<overlay, writer, mine, clobbered>>
    BY <1>4 DEF Persist
  <2> QED BY <1>2, <2>1, EntriesAlone
<1>5. CASE ~ForbiddenAtUserTier(c.tier, data)
  <2>1. /\ WriteOverlay(c.tier, data, p)
        /\ clobbered' = clobbered \union
                          Named(Entries(overlay[c.tier].body) \ Entries(BaseData(body)))
        /\ mine' = CASE c.field = "checks" /\ c.kind = "setOverlayField" ->
                          {e \in mine : e[1] # c.tier} \union Named({c.value})
                     [] c.field = "checks" /\ c.kind = "appendToOverlayField" ->
                          mine \union Named({c.value})
                     [] c.field = "checks" /\ c.kind = "removeFromOverlayField" ->
                          mine \ Named({c.value})
                     [] OTHER -> mine
    BY <1>5 DEF Persist
  <2>2. HasLists(data) /\ Entries(BaseData(body)) = Entries(body)
    BY <1>1, MutationsKeep DEF BaseData, Mapping, Entries, ListAt
  <2>3. /\ c.field # "checks" => Entries(data) = Entries(body)
        /\ c.field = "checks" =>
             /\ c.kind = "setOverlayField" => Entries(data) = {c.value}
             /\ c.kind = "appendToOverlayField" => Entries(data) = Entries(body) \union {c.value}
             /\ c.kind = "removeFromOverlayField" => Entries(data) = Entries(body) \ {c.value}
    BY <1>1, MutationsKeep
  <2>4. c.kind \in {"setOverlayField", "appendToOverlayField", "removeFromOverlayField"}
    BY <1>1, CallsAssumption DEF Mutations
  <2> HIDE DEF c, body, data
  <2>5. ASSUME NEW e \in mine
        PROVE  /\ e = <<e[1], e[2]>> /\ e[1] \in Tiers
               /\ e[1] = c.tier => e \in clobbered' \/ e[2] \in Entries(body)
    <3>1. /\ e = <<e[1], e[2]>> /\ e[1] \in Tiers
          /\ e \notin clobbered => e[2] \in Entries(overlay[e[1]].body)
      BY DEF EntriesInv, EntriesFit, EntriesKept
    <3>2. e[1] = c.tier /\ e \notin clobbered' => e[2] \in Entries(body)
      BY <2>1, <2>2, <3>1
    <3> QED BY <3>1, <3>2
  <2>6. ASSUME NEW e \in mine'
        PROVE  /\ e = <<e[1], e[2]>> /\ e[1] \in Tiers
               /\ e[1] # c.tier => e \in mine
               /\ e[1] = c.tier => e \in clobbered' \/ e[2] \in Entries(data)
    <3>1. e \in mine \/ (e = <<c.tier, c.value>> /\ c.field = "checks"
                           /\ c.kind \in {"setOverlayField", "appendToOverlayField"})
      BY <2>1, <2>4
    <3>2. CASE e = <<c.tier, c.value>> /\ c.field = "checks"
                 /\ c.kind \in {"setOverlayField", "appendToOverlayField"}
      BY <1>1, <2>3, <3>2
    <3>3. CASE e \in mine /\ c.field # "checks"
      BY <2>3, <2>5, <3>3
    <3>4. CASE e \in mine /\ c.field = "checks" /\ c.kind = "setOverlayField"
      BY <2>1, <2>3, <2>5, <3>4
    <3>5. CASE e \in mine /\ c.field = "checks" /\ c.kind = "appendToOverlayField"
      BY <2>3, <2>5, <3>5
    <3>6. CASE e \in mine /\ c.field = "checks" /\ c.kind = "removeFromOverlayField"
      <4>1. e # <<c.tier, c.value>>
        BY <2>1, <3>6
      <4>2. e[1] = c.tier => e[2] # c.value
        BY <2>5, <3>6, <4>1
      <4> QED BY <2>3, <2>5, <3>6, <4>2
    <3> QED BY <2>4, <3>1, <3>2, <3>3, <3>4, <3>5, <3>6
  <2> QED BY <1>1, <1>2, <1>3, <1>5, <2>1, <2>2, <2>6, EntriesWritten
<1> QED BY <1>4, <1>5

LEMMA EntriesEdit ==
  ASSUME EntriesInv, Typed', Edit
  PROVE  EntriesInv'
<1>1. PICK tier \in Tiers, body \in EditedBodies :
        WriteOverlay(tier, body, "user") /\ mine' = {e \in mine : e[1] # tier}
  BY DEF Edit
<1>2. UNCHANGED <<at, call, seen, clobbered>>
  BY DEF Edit
<1>3. CallsFit' /\ DOMAIN call' = Servers
  BY <1>2 DEF EntriesInv, CallsFit, HasLists, IsList
<1>4. HasLists(body)
  BY BodiesAssumption
<1>5. \A e \in mine' : /\ e = <<e[1], e[2]>> /\ e[1] \in Tiers
                       /\ e[1] # tier => e \in mine
                       /\ e[1] = tier => e \in clobbered' \/ e[2] \in Entries(body)
  BY <1>1 DEF EntriesInv, EntriesFit
<1> QED BY <1>1, <1>2, <1>3, <1>4, <1>5, EntriesWritten

LEMMA EntriesNext ==
  IInv /\ EntriesInv /\ [ModuleNext]_<<serverVars, moduleVars>> => EntriesInv'
<1> SUFFICES ASSUME IInv, EntriesInv, [ModuleNext]_<<serverVars, moduleVars>> PROVE EntriesInv'
  OBVIOUS
<1>0. Typed'
  BY InvNext DEF IInv
<1>1. CASE UNCHANGED serverVars
  BY <1>0, <1>1 DEF EntriesInv, CallsFit, EntriesFit, EntriesKept, serverVars
<1>2. ASSUME NEW p \in Servers, ServerStep(p) \/ StartModuleCall(p) \/ ReadState(p)
                                  \/ WriteState(p) \/ Kill(p)
      PROVE  EntriesInv'
  <2>1. CASE Persist(p)
    BY <1>0, <2>1, EntriesPersist
  <2>2. CASE ~Persist(p)
    BY <1>0, <1>2, <2>2, EntriesQuiet DEF ServerStep
  <2> QED BY <2>1, <2>2
<1>3. CASE UserStep
  <2>1. CASE Edit
    BY <1>0, <2>1, EntriesEdit
  <2>2. CASE RestoreMode
    BY <1>0, <2>2 DEF RestoreMode, tallies, EntriesInv, CallsFit, EntriesFit, EntriesKept
  <2> QED BY <1>3, <2>1, <2>2 DEF UserStep
<1> QED BY <1>1, <1>2, <1>3 DEF ModuleNext, KillModuleServer

(* An entry that an overlay tool appended is in the file until somebody    *)
(* removes or replaces it, edits the file, or writes back what it read     *)
(* before; and no tool gives the user overlay a field of the project's     *)
(* (persistOverlayMutation in tools/writes.ts).                            *)
THEOREM AppendedEntriesStay == ServersSpec => []EntriesKept
<1>1. EntriesInv => EntriesKept
  BY DEF EntriesInv
<1> QED BY <1>1, InvHolds, InvInit, InvNext, EntriesInit, EntriesNext, PTL DEF ServersSpec

-------------------------------------------------------------------------------
(* What a module-state call has been given, and what it has read.          *)
ModuleCallsFit ==
  \A p \in Servers :
    at[p] \in {"read state", "write state"} =>
      /\ call[p] \in ModuleCalls
      /\ at[p] = "write state" /\ call[p].kind # "setModuleState" =>
           /\ Mutated(seen[p].read, call[p]) # Undefined
           /\ ListsAtPaths(seen[p].read)
           /\ ~repeats => NoRepeats(seen[p].read)

StateFits ==
  /\ ListsAtPaths(state)
  /\ \A item \in owed : item = <<item[1], item[2]>> /\ item[1] \in AppendPaths

ModuleInv == DOMAIN call = Servers /\ ModuleCallsFit /\ StateFits /\ AppendedStays

(* What a path leads to, member by member.                                 *)
LEMMA ValueAtPath ==
  ASSUME NEW value, NEW path \in AppendPaths
  PROVE  LET first == IF IsObject(value) THEN Member(value, path[1]) ELSE Undefined IN
         /\ path = <<path[1]>> => ValueAt(value, path) = first
         /\ path = <<path[1], path[2]>> =>
              ValueAt(value, path) = IF IsObject(first) THEN Member(first, path[2]) ELSE Undefined
<1>0. PICK a, b : a = path[1] /\ b = path[2]
  OBVIOUS
<1>1. path = <<a>> => Len(path) = 1 /\ Head(path) = a
  OBVIOUS
<1>2. path = <<a, b>> => Len(path) = 2 /\ Head(path) = a
  OBVIOUS
<1> QED BY <1>0, <1>1, <1>2 DEF ValueAt

LEMMA PutMember ==
  ASSUME NEW object, NEW key, NEW value
  PROVE  /\ IsObject(Put(object, key, value))
         /\ DOMAIN Put(object, key, value).of = DOMAIN object.of \union {key}
         /\ Member(Put(object, key, value), key) = value
         /\ \A other : other # key => Member(Put(object, key, value), other) = Member(object, other)
BY DEF Put, Obj, IsObject, Member

LEMMA UndefinedIs == ~IsObject(Undefined) /\ Undefined.kind = "undefined" /\ EntriesOf(Undefined) = {}
BY DEF Undefined, IsObject, EntriesOf

(* What an append makes of the list or of the map that it finds.           *)
LEMMA AppendedKeeps ==
  ASSUME NEW current, NEW e \in DOMAIN KeyOf, NEW policy,
         current.kind = "array" => IsList(current.items),
         Appended(current, e, policy) # Undefined
  PROVE  LET new == Appended(current, e, policy) IN
         /\ e \in EntriesOf(new)
         /\ \A x \in EntriesOf(current) :
              x \in EntriesOf(new) \/ (policy = "allow" /\ Occupies(current, KeyOf[e], x))
         /\ new.kind = "array" => IsList(new.items)
         /\ policy # "allow" /\ new.kind = "array"
              /\ (current.kind = "array" => IsInjective(current.items)) => IsInjective(new.items)
         /\ ~IsObject(current) => ~IsObject(new)
         /\ IsObject(current) => IsObject(new)
         /\ \A key : key # KeyOf[e] /\ IsObject(current) => Member(new, key) = Member(current, key)
<1> DEFINE new == Appended(current, e, policy)
<1>1. CASE current = Undefined
  <2>1. new = Arr(<<e>>)
    BY <1>1, UndefinedIs DEF Appended
  <2>2. new.kind = "array" /\ new.items = <<e>> /\ EntriesOf(new) = {e}
    BY <2>1 DEF Arr, EntriesOf, Range
  <2>3. IsList(<<e>>) /\ IsInjective(<<e>>)
    BY DEF IsList, Range, IsInjective
  <2>4. EntriesOf(current) = {} /\ ~IsObject(current) /\ ~IsObject(new)
    BY <1>1, <2>2, UndefinedIs DEF IsObject
  <2> QED BY <2>2, <2>3, <2>4
<1>2. CASE current # Undefined /\ current.kind = "array"
  <2>1. new = Arr(Append(current.items, e)) /\ (policy # "allow" => e \notin Range(current.items))
    BY <1>2 DEF Appended
  <2>2. current.items \in Seq(Range(current.items))
    BY <1>2 DEF IsList
  <2>3. /\ Range(Append(current.items, e)) = Range(current.items) \union {e}
        /\ IsList(Append(current.items, e))
    <3>1. Append(current.items, e) \in Seq(Range(current.items) \union {e})
      BY <2>2
    <3> QED BY <2>2, <3>1, AppendAdds, ListsAreLists
  <2>4. /\ new.kind = "array" /\ new.items = Append(current.items, e)
        /\ ~IsObject(current) /\ ~IsObject(new)
    BY <1>2, <2>1 DEF Arr, IsObject
  <2>5. EntriesOf(current) = Range(current.items) /\ EntriesOf(new) = Range(new.items)
    BY <1>2, <2>4 DEF EntriesOf
  <2>6. policy # "allow" /\ IsInjective(current.items) => IsInjective(new.items)
    <3> SUFFICES ASSUME e \notin Range(current.items), IsInjective(current.items)
                 PROVE  IsInjective(Append(current.items, e))
      BY <2>1, <2>4
    <3>1. PICK n \in Nat : n = Len(current.items) /\ DOMAIN current.items = 1..n
      BY <2>2
    <3>2. /\ DOMAIN Append(current.items, e) = 1..(n + 1) /\ Append(current.items, e)[n + 1] = e
          /\ \A i \in 1..n : Append(current.items, e)[i] = current.items[i]
      BY <2>2, <3>1
    <3>3. \A i \in 1..n : current.items[i] # e
      BY <3>1 DEF Range
    <3> QED BY <3>1, <3>2, <3>3 DEF IsInjective
  <2> QED BY <1>2, <2>3, <2>4, <2>5, <2>6
<1>3. CASE current # Undefined /\ current.kind = "object"
  <2>1. /\ new = Put(current, KeyOf[e], EntryValue(e))
        /\ policy # "allow" => KeyOf[e] \notin DOMAIN current.of
    BY <1>3 DEF Appended
  <2>2. /\ IsObject(current) /\ IsObject(new) /\ new.kind = "object" /\ KeyOf[e] \in DOMAIN new.of
        /\ DOMAIN current.of \subseteq DOMAIN new.of
        /\ \A key \in DOMAIN new.of :
             new.of[key] = IF key = KeyOf[e] THEN EntryValue(e) ELSE current.of[key]
        /\ \A key : key # KeyOf[e] => Member(new, key) = Member(current, key)
    <3>1. IsObject(current) /\ IsObject(new) /\ DOMAIN new.of = DOMAIN current.of \union {KeyOf[e]}
      BY <1>3, <2>1, PutMember DEF IsObject
    <3>2. \A key : key # KeyOf[e] => Member(new, key) = Member(current, key)
      BY <2>1, PutMember
    <3>3. new.of = [k \in DOMAIN current.of \union {KeyOf[e]} |->
                      IF k = KeyOf[e] THEN EntryValue(e) ELSE current.of[k]]
      BY <2>1 DEF Put, Obj
    <3> QED BY <3>1, <3>2, <3>3 DEF IsObject
  <2>3. /\ EntriesOf(current) = {current.of[k].entry : k \in {j \in DOMAIN current.of : current.of[j].kind = "entry"}}
        /\ EntriesOf(new) = {new.of[k].entry : k \in {j \in DOMAIN new.of : new.of[j].kind = "entry"}}
    BY <1>3, <2>2 DEF EntriesOf
  <2>4. EntryValue(e).kind = "entry" /\ EntryValue(e).entry = e
    BY DEF EntryValue
  <2>5. e \in EntriesOf(new)
    BY <2>2, <2>3, <2>4
  <2>6. ASSUME NEW x \in EntriesOf(current), x \notin EntriesOf(new)
        PROVE  policy = "allow" /\ Occupies(current, KeyOf[e], x)
    <3>1. PICK k \in DOMAIN current.of : current.of[k].kind = "entry" /\ current.of[k].entry = x
      BY <2>3
    <3>2. k = KeyOf[e]
      BY <2>2, <2>3, <2>6, <3>1
    <3> QED BY <2>1, <2>2, <3>1, <3>2 DEF Occupies
  <2> QED BY <1>3, <2>2, <2>5, <2>6
<1> QED BY <1>1, <1>2, <1>3 DEF Appended

(* An append writes at its own path; of the others only a path on the way  *)
(* to it sees a change, and finds an object with a new member.             *)
LEMMA AppendAtWrites ==
  ASSUME NEW data, IsObject(data), NEW q \in AppendPaths, NEW e \in DOMAIN KeyOf, NEW policy,
         ValueAt(data, q).kind = "array" => IsList(ValueAt(data, q).items),
         AppendAt(data, q, e, policy) # Undefined
  PROVE  LET written == AppendAt(data, q, e, policy)
             new == Appended(ValueAt(data, q), e, policy) IN
         /\ IsObject(written) /\ new # Undefined /\ ValueAt(written, q) = new
         /\ \A p \in AppendPaths \ {q} :
              \/ ValueAt(written, p) = ValueAt(data, p)
              \/ /\ p = <<q[1]>> /\ q = <<q[1], q[2]>>
                 /\ IsObject(ValueAt(written, p))
                 /\ IsObject(ValueAt(data, p)) =>
                      /\ ValueAt(written, p) = Put(ValueAt(data, p), q[2], new)
                      /\ ValueAt(data, q) = Member(ValueAt(data, p), q[2])
<1> DEFINE written == AppendAt(data, q, e, policy)
           current == ValueAt(data, q)
           new == Appended(current, e, policy)
<1>1. PICK a, b : a = q[1] /\ b = q[2]
  OBVIOUS
<1>2. \A p \in AppendPaths : \/ p = <<p[1]>>
                             \/ p = <<p[1], p[2]>> /\ p[2] \notin Range(KeyOf)
  BY ModuleCallsAssumption
<1>3. KeyOf[e] \in Range(KeyOf)
  BY DEF Range
<1> SUFFICES /\ IsObject(written) /\ new # Undefined /\ ValueAt(written, q) = new
             /\ \A p \in AppendPaths \ {q} :
                  \/ ValueAt(written, p) = ValueAt(data, p)
                  \/ /\ p = <<a>> /\ q = <<a, b>>
                     /\ IsObject(ValueAt(written, p))
                     /\ IsObject(ValueAt(data, p)) =>
                          /\ ValueAt(written, p) = Put(ValueAt(data, p), b, new)
                          /\ ValueAt(data, q) = Member(ValueAt(data, p), b)
  BY <1>1, Zenon
<1>4. CASE q = <<a>>
  <2>1. Len(q) = 1 /\ Head(q) = a /\ Last(q) = a /\ current = Member(data, a)
    BY <1>1, <1>4, ValueAtPath DEF Last
  <2>2. written = IF new = Undefined THEN Undefined ELSE Put(data, a, new)
    BY <2>1 DEF AppendAt
  <2>3. new # Undefined /\ written = Put(data, a, new)
    BY <2>2
  <2>4. IsObject(written) /\ ValueAt(written, q) = new
    BY <1>1, <1>4, <2>3, PutMember, ValueAtPath
  <2>5. ASSUME NEW p \in AppendPaths \ {q} PROVE ValueAt(written, p) = ValueAt(data, p)
    <3>1. PICK i, j : i = p[1] /\ j = p[2]
      OBVIOUS
    <3>2. CASE i # a
      BY <1>2, <2>3, <2>4, <3>1, <3>2, PutMember, ValueAtPath
    <3>3. CASE i = a /\ p = <<i, j>>
      <4>1. j # KeyOf[e]
        <5>1. p # <<i>>
          BY <3>3
        <5> QED BY <1>2, <1>3, <3>1, <5>1
      <4>2. /\ ValueAt(data, p) = IF IsObject(current) THEN Member(current, j) ELSE Undefined
            /\ ValueAt(written, p) = IF IsObject(new) THEN Member(new, j) ELSE Undefined
        BY <2>1, <2>3, <2>4, <3>1, <3>3, PutMember, ValueAtPath
      <4>3. /\ ~IsObject(current) => ~IsObject(new)
            /\ IsObject(current) => IsObject(new) /\ Member(new, j) = Member(current, j)
        BY <2>3, <4>1, AppendedKeeps
      <4> QED BY <4>2, <4>3
    <3>4. i = a => p = <<i, j>>
      BY <1>2, <1>4, <3>1
    <3> QED BY <3>2, <3>3, <3>4
  <2> QED BY <2>3, <2>4, <2>5
<1>5. CASE q = <<a, b>>
  <2> DEFINE first == Member(data, a)
             parent == NavigateToParent(data, a)
  <2>1. Len(q) = 2 /\ Head(q) = a /\ Last(q) = b
    BY <1>1, <1>5 DEF Last
  <2>2. IsObject(parent) /\ Member(parent, b) = current
    <3>1. IsObject(Empty) /\ \A key : Member(Empty, key) = Undefined
      BY DEF Empty, Obj, IsObject, Member
    <3>2. current = IF IsObject(first) THEN Member(first, b) ELSE Undefined
      BY <1>1, <1>5, ValueAtPath
    <3> QED BY <3>1, <3>2 DEF NavigateToParent
  <2>3. written = IF new = Undefined THEN Undefined ELSE Put(data, a, Put(parent, b, new))
    BY <2>1, <2>2 DEF AppendAt
  <2>4. new # Undefined /\ written = Put(data, a, Put(parent, b, new))
    BY <2>3
  <2>5. IsObject(written) /\ ValueAt(written, q) = new
    BY <1>1, <1>5, <2>4, PutMember, ValueAtPath
  <2>6. ASSUME NEW p \in AppendPaths \ {q}
        PROVE  \/ ValueAt(written, p) = ValueAt(data, p)
               \/ /\ p = <<a>> /\ q = <<a, b>>
                  /\ IsObject(ValueAt(written, p))
                  /\ IsObject(ValueAt(data, p)) =>
                       /\ ValueAt(written, p) = Put(ValueAt(data, p), b, new)
                       /\ ValueAt(data, q) = Member(ValueAt(data, p), b)
    <3>1. PICK i, j : i = p[1] /\ j = p[2]
      OBVIOUS
    <3>2. CASE i # a
      BY <1>2, <2>4, <2>5, <3>1, <3>2, PutMember, ValueAtPath
    <3>3. CASE p = <<a>>
      <4>1. p[1] = a
        BY <3>3
      <4>2. ValueAt(data, p) = first /\ ValueAt(written, p) = Put(parent, b, new)
        BY <2>4, <2>5, <3>3, <4>1, PutMember, ValueAtPath
      <4>3. IsObject(first) => parent = first
        BY DEF NavigateToParent
      <4> QED BY <1>5, <2>2, <3>3, <4>2, <4>3, PutMember
    <3>4. CASE i = a /\ p = <<i, j>>
      <4>1. j # b
        BY <1>5, <3>4
      <4>2. /\ ValueAt(data, p) = IF IsObject(first) THEN Member(first, j) ELSE Undefined
            /\ ValueAt(written, p) = Member(parent, j)
        BY <2>4, <2>5, <3>1, <3>4, <4>1, PutMember, ValueAtPath
      <4>3. Member(parent, j) = IF IsObject(first) THEN Member(first, j) ELSE Undefined
        BY DEF NavigateToParent, Empty, Obj, Member
      <4> QED BY <4>2, <4>3
    <3> QED BY <1>2, <3>1, <3>2, <3>3, <3>4
  <2> QED BY <2>4, <2>5, <2>6
<1> QED BY <1>1, <1>2, <1>4, <1>5

LEMMA RemoveKeepsOthers ==
  ASSUME NEW read, NEW key, RemoveFrom(read, key) # Undefined, NEW path \in AppendPaths
  PROVE  LET written == RemoveFrom(read, key) IN
         \/ ValueAt(written, path) = Undefined /\ ~(IsObject(read) /\ path[1] # key)
         \/ ValueAt(written, path) = ValueAt(read, path)
<1> DEFINE written == RemoveFrom(read, key)
<1>1. \/ path = <<path[1]>>
      \/ path = <<path[1], path[2]>>
  BY ModuleCallsAssumption
<1>2. CASE read.kind = "array"
  <2>1. PICK items : written = Arr(items)
    BY <1>2 DEF RemoveFrom
  <2>2. ~IsObject(written) /\ ~IsObject(read)
    BY <1>2, <2>1 DEF Arr, IsObject
  <2> QED BY <1>1, <2>2, ValueAtPath, UndefinedIs
<1>3. CASE read.kind = "object"
  <2>1. written = Obj(Restrict(read.of, DOMAIN read.of \ {key}))
    BY <1>3 DEF RemoveFrom
  <2>2. /\ IsObject(written) /\ IsObject(read)
        /\ \A k : Member(written, k) = IF k = key THEN Undefined ELSE Member(read, k)
    BY <1>3, <2>1 DEF Obj, IsObject, Member, Restrict
  <2>3. CASE path[1] = key
    BY <1>1, <2>2, <2>3, ValueAtPath, UndefinedIs
  <2>4. CASE path[1] # key
    BY <1>1, <2>2, <2>4, ValueAtPath
  <2> QED BY <2>3, <2>4
<1> QED BY <1>2, <1>3 DEF RemoveFrom

(* What a call writes for what it has read, at all paths together.         *)
LEMMA MutatedKeeps ==
  ASSUME NEW c \in ModuleCalls, NEW read, Mutated(read, c) # Undefined,
         c.kind # "setModuleState", ListsAtPaths(read)
  PROVE  LET written == Mutated(read, c) IN
         /\ ListsAtPaths(written)
         /\ \A path \in AppendPaths : \A x :
              MayDrop(c, read, <<path, x>>) \/ x \in EntriesAt(written, path)
         /\ c.kind = "appendToModuleState" =>
              c.path \in AppendPaths /\ c.entry \in EntriesAt(written, c.path)
         /\ NoRepeats(read) /\ ~(c.kind = "appendToModuleState" /\ c.policy = "allow")
              => NoRepeats(written)
<1> DEFINE written == Mutated(read, c)
<1>0. c.kind \in {"appendToModuleState", "removeFromModuleState"}
  BY ModuleCallsAssumption DEF ModuleMutations
<1>1. CASE c.kind = "removeFromModuleState"
  <2>1. written = RemoveFrom(read, c.key)
    BY <1>1 DEF Mutated
  <2>2. ASSUME NEW path \in AppendPaths
        PROVE  \/ ValueAt(written, path) = Undefined /\ ~(IsObject(read) /\ path[1] # c.key)
               \/ ValueAt(written, path) = ValueAt(read, path)
    BY <2>1, RemoveKeepsOthers
  <2>3. ListsAtPaths(written) /\ (NoRepeats(read) => NoRepeats(written))
    BY <2>2, UndefinedIs DEF ListsAtPaths, NoRepeats
  <2>4. ASSUME NEW path \in AppendPaths, NEW x, ~MayDrop(c, read, <<path, x>>)
        PROVE  x \in EntriesAt(written, path)
    <3>1. x \in EntriesAt(read, path) /\ Head(path) # c.key
      BY <1>1, <2>4 DEF MayDrop
    <3>2. Head(path) = path[1]
      <4>1. PICK a, b : a = path[1] /\ b = path[2]
        OBVIOUS
      <4>2. path = <<a>> \/ path = <<a, b>>
        BY <4>1, ModuleCallsAssumption
      <4> QED BY <4>1, <4>2
    <3>3. ~IsObject(read) => ValueAt(read, path) = Undefined
      BY ModuleCallsAssumption, ValueAtPath, UndefinedIs
    <3> QED BY <2>2, <3>1, <3>2, <3>3, UndefinedIs DEF EntriesAt
  <2> QED BY <1>1, <2>3, <2>4
<1>2. CASE c.kind = "appendToModuleState"
  <2> DEFINE data == ReadModuleStateOrEmpty(read)
             new == Appended(ValueAt(data, c.path), c.entry, c.policy)
  <2>1. written = AppendAt(data, c.path, c.entry, c.policy)
    BY <1>2 DEF Mutated
  <2>2. c.path \in AppendPaths /\ c.entry \in DOMAIN KeyOf
    BY <1>2, ModuleCallsAssumption DEF AppendPaths
  <2>3. IsObject(data) /\ \A path \in AppendPaths :
          /\ ValueAt(data, path) \in {ValueAt(read, path), Undefined}
          /\ IsObject(read) => data = read
          /\ ~IsObject(read) => ValueAt(read, path) = Undefined
    <3>1. CASE IsObject(read)
      BY <3>1 DEF ReadModuleStateOrEmpty
    <3>2. CASE ~IsObject(read)
      <4>1. data = Empty /\ IsObject(data) /\ \A key : Member(data, key) = Undefined
        BY <3>2 DEF ReadModuleStateOrEmpty, Empty, Obj, IsObject, Member
      <4>2. \A path \in AppendPaths : ValueAt(data, path) = Undefined /\ ValueAt(read, path) = Undefined
        BY <3>2, <4>1, ModuleCallsAssumption, ValueAtPath, UndefinedIs
      <4> QED BY <3>2, <4>1, <4>2
    <3> QED BY <3>1, <3>2
  <2>4. /\ ListsAtPaths(data)
        /\ NoRepeats(read) => NoRepeats(data)
    BY <2>3, UndefinedIs DEF ListsAtPaths, NoRepeats
  <2>5. ValueAt(data, c.path).kind = "array" => IsList(ValueAt(data, c.path).items)
    BY <2>2, <2>4 DEF ListsAtPaths
  <2>6. /\ IsObject(written) /\ new # Undefined /\ ValueAt(written, c.path) = new
        /\ \A p \in AppendPaths \ {c.path} :
             \/ ValueAt(written, p) = ValueAt(data, p)
             \/ /\ p = <<c.path[1]>> /\ c.path = <<c.path[1], c.path[2]>>
                /\ IsObject(ValueAt(written, p))
                /\ IsObject(ValueAt(data, p)) =>
                     /\ ValueAt(written, p) = Put(ValueAt(data, p), c.path[2], new)
                     /\ ValueAt(data, c.path) = Member(ValueAt(data, p), c.path[2])
    BY <2>1, <2>2, <2>3, <2>5, AppendAtWrites
  <2>7. /\ c.entry \in EntriesOf(new)
        /\ \A x \in EntriesOf(ValueAt(data, c.path)) :
             x \in EntriesOf(new) \/ (c.policy = "allow" /\ Occupies(ValueAt(data, c.path), KeyOf[c.entry], x))
        /\ new.kind = "array" => IsList(new.items)
        /\ c.policy # "allow" /\ new.kind = "array"
             /\ (ValueAt(data, c.path).kind = "array" => IsInjective(ValueAt(data, c.path).items))
             => IsInjective(new.items)
    BY <2>2, <2>5, <2>6, AppendedKeeps
  <2> HIDE DEF written, data, new
  <2>8. ListsAtPaths(written)
    <3> SUFFICES ASSUME NEW p \in AppendPaths, ValueAt(written, p).kind = "array"
                 PROVE  IsList(ValueAt(written, p).items)
      BY DEF ListsAtPaths
    <3> QED BY <2>4, <2>6, <2>7 DEF ListsAtPaths, IsObject
  <2>9. ASSUME NoRepeats(read), c.policy # "allow" PROVE NoRepeats(written)
    <3> SUFFICES ASSUME NEW p \in AppendPaths, ValueAt(written, p).kind = "array"
                 PROVE  IsInjective(ValueAt(written, p).items)
      BY DEF NoRepeats
    <3> QED BY <2>2, <2>4, <2>6, <2>7, <2>9 DEF NoRepeats, IsObject
  <2>10. ASSUME NEW p \in AppendPaths, NEW x, ~MayDrop(c, read, <<p, x>>)
         PROVE  x \in EntriesAt(written, p)
    <3>1. /\ ~(IsStrictPrefix(p, c.path) /\ ~IsObject(ValueAt(read, p)))
          /\ ~(c.policy = "allow" /\ p = c.path /\ Occupies(ValueAt(read, c.path), KeyOf[c.entry], x))
          /\ x \in EntriesAt(read, p)
      BY <1>2, <2>10 DEF MayDrop
    <3>2. data = read
      BY <2>3, <3>1, UndefinedIs DEF EntriesAt
    <3>3. CASE p = c.path
      BY <2>6, <2>7, <3>1, <3>2, <3>3 DEF EntriesAt
    <3>4. CASE p # c.path /\ ValueAt(written, p) = ValueAt(data, p)
      BY <3>1, <3>2, <3>4 DEF EntriesAt
    <3>5. CASE p # c.path /\ ValueAt(written, p) # ValueAt(data, p)
      <4> DEFINE V == ValueAt(data, p)
                 b == c.path[2]
      <4>1. p = <<c.path[1]>> /\ c.path = <<c.path[1], b>>
            /\ (IsObject(V) => ValueAt(written, p) = Put(V, b, new) /\ ValueAt(data, c.path) = Member(V, b))
        BY <2>6, <3>5
      <4>2. IsStrictPrefix(p, c.path)
        <5>1. PICK i, j : i = c.path[1] /\ j = b
          OBVIOUS
        <5>2. p = <<i>> /\ c.path = <<i, j>>
          BY <4>1, <5>1
        <5>3. IsStrictPrefix(<<i>>, <<i, j>>)
          BY DEF IsStrictPrefix, IsPrefix
        <5> QED BY <5>2, <5>3
      <4>3. IsObject(V)
        BY <3>1, <3>2, <4>2
      <4>4. PICK k \in DOMAIN V.of : V.of[k].kind = "entry" /\ V.of[k].entry = x
        BY <3>1, <3>2, <4>3 DEF EntriesAt, EntriesOf, IsObject
      <4>5. k # b
        <5> SUFFICES ASSUME ValueAt(data, c.path).kind = "entry" PROVE FALSE
          BY <4>1, <4>3, <4>4 DEF Member
        <5>1. new = Undefined
          BY UndefinedIs DEF new, Appended
        <5> QED BY <5>1, <2>6
      <4>6. ValueAt(written, p) = Obj([j \in DOMAIN V.of \union {b} |-> IF j = b THEN new ELSE V.of[j]])
        BY <4>1, <4>3 DEF Put
      <4>7. x \in EntriesOf(ValueAt(written, p))
        <5>1. PICK of : of = [j \in DOMAIN V.of \union {b} |-> IF j = b THEN new ELSE V.of[j]]
          OBVIOUS
        <5>2. k \in DOMAIN of /\ of[k].kind = "entry" /\ of[k].entry = x
          BY <4>4, <4>5, <5>1
        <5>3. ValueAt(written, p).kind = "object" /\ ValueAt(written, p).of = of
          BY <4>6, <5>1 DEF Obj
        <5> QED BY <5>2, <5>3 DEF EntriesOf
      <4> QED BY <4>7 DEF EntriesAt
    <3> QED BY <3>3, <3>4, <3>5
  <2>11. c.entry \in EntriesAt(written, c.path)
    BY <2>6, <2>7 DEF EntriesAt
  <2>12. /\ ListsAtPaths(written)
         /\ \A path \in AppendPaths : \A x :
              MayDrop(c, read, <<path, x>>) \/ x \in EntriesAt(written, path)
         /\ c.path \in AppendPaths /\ c.entry \in EntriesAt(written, c.path)
         /\ NoRepeats(read) /\ c.policy # "allow" => NoRepeats(written)
    BY <2>2, <2>8, <2>9, <2>10, <2>11
  <2> QED BY <1>2, <2>12 DEF written
<1> QED BY <1>0, <1>1, <1>2

-------------------------------------------------------------------------------
LEMMA ModuleInvInit == ServerInit /\ ModuleInit => ModuleInv
<1> SUFFICES ASSUME ServerInit, ModuleInit PROVE ModuleInv
  OBVIOUS
<1>1. DOMAIN call = Servers /\ ModuleCallsFit
  BY DEF ServerInit, ModuleCallsFit
<1>2. \A path \in AppendPaths : ValueAt(state, path) = Undefined
  <2>1. ~IsObject(state)
    BY DEF ModuleInit, NoFile, IsObject
  <2> QED BY <2>1, ModuleCallsAssumption, ValueAtPath, UndefinedIs
<1>3. StateFits
  BY <1>2, UndefinedIs DEF ModuleInit, StateFits, ListsAtPaths
<1>4. AppendedStays
  BY <1>2, UndefinedIs DEF ModuleInit, AppendedStays, NoRepeats
<1> QED BY <1>1, <1>3, <1>4 DEF ModuleInv

(* A step that leaves the state file alone: what it makes of one call.     *)
LEMMA ModuleAlone ==
  ASSUME ModuleInv, NEW p \in Servers,
         UNCHANGED <<state, owed, repeats>>, DOMAIN call' = Servers,
         \A q \in Servers \ {p} : at'[q] = at[q] /\ call'[q] = call[q] /\ seen'[q] = seen[q],
         at'[p] \in {"read state", "write state"} =>
           /\ call'[p] \in ModuleCalls
           /\ at'[p] = "write state" /\ call'[p].kind # "setModuleState" =>
                /\ Mutated(seen'[p].read, call'[p]) # Undefined
                /\ ListsAtPaths(seen'[p].read)
                /\ ~repeats => NoRepeats(seen'[p].read)
  PROVE  ModuleInv'
<1>1. ModuleCallsFit'
  BY DEF ModuleInv, ModuleCallsFit
<1>2. StateFits' /\ AppendedStays'
  BY DEF ModuleInv, StateFits, AppendedStays
<1> QED BY <1>1, <1>2 DEF ModuleInv

LEMMA ModuleQuiet ==
  ASSUME ModuleInv, Typed, NEW p \in Servers, UNCHANGED <<state, owed, repeats>>,
         ServerStep(p) \/ Kill(p)
  PROVE  ModuleInv'
<1> USE DEF Goes, Remembers, Returns, disk, tallies
<1>0. DOMAIN at = Servers /\ DOMAIN call = Servers /\ DOMAIN seen = Servers
  BY DEF ModuleInv, Typed
<1>1. /\ at'[p] # "read state" /\ at'[p] # "write state" /\ DOMAIN call' = Servers
      /\ \A q \in Servers \ {p} : at'[q] = at[q] /\ call'[q] = call[q] /\ seen'[q] = seen[q]
  <2>1. CASE StartCall(p)
    <3>1. PICK c \in Calls : call' = [call EXCEPT ![p] = c] /\ at' = [at EXCEPT ![p] = FirstStep(c)]
      BY <2>1 DEF StartCall
    <3>2. FirstStep(c) \in {"read overlay", "get", "hash", "read approvals"}
      <4>1. c.kind \in Mutations \union {"getResolvedConfig", "trustApprove", "trustRevoke"}
        BY CallsAssumption DEF Calls
      <4> QED BY <4>1 DEF FirstStep
    <3> QED BY <1>0, <2>1, <3>1, <3>2 DEF StartCall
  <2>2. CASE Get(p) \/ Validate(p) \/ Hash(p)
    BY <1>0, <2>2 DEF Get, Validate, Hash
  <2>3. CASE LookUp(p) \/ LoadOverlays(p) \/ Record(p)
    BY <1>0, <2>3 DEF LookUp, LoadOverlays, Record
  <2>4. CASE ReadOverlay(p) \/ ReadApprovals(p)
    BY <1>0, <2>4 DEF ReadOverlay, ReadApprovals
  <2>5. CASE ReplaceApprovals(p) \/ Chmod(p) \/ Kill(p)
    BY <1>0, <2>5 DEF ReplaceApprovals, Chmod, Kill
  <2>6. CASE Persist(p)
    BY <1>0, <2>6 DEF Persist
  <2> QED BY <2>1, <2>2, <2>3, <2>4, <2>5, <2>6 DEF ServerStep
<1> QED BY <1>1, ModuleAlone

LEMMA ModuleStep ==
  ASSUME ModuleInv, Typed, NEW p \in Servers, StartModuleCall(p) \/ ReadState(p) \/ WriteState(p)
  PROVE  ModuleInv'
<1> USE DEF Goes, Remembers, Returns
<1>0. DOMAIN at = Servers /\ DOMAIN call = Servers /\ DOMAIN seen = Servers
  BY DEF ModuleInv, Typed
<1>1. CASE StartModuleCall(p)
  <2>1. UNCHANGED <<state, owed, repeats, seen>>
    BY <1>1 DEF StartModuleCall
  <2>2. CASE UNCHANGED <<at, call>>
    <3>1. ModuleCallsFit' /\ StateFits' /\ AppendedStays' /\ DOMAIN call' = Servers
      BY <2>1, <2>2 DEF ModuleInv, ModuleCallsFit, StateFits, AppendedStays
    <3> QED BY <3>1 DEF ModuleInv
  <2>3. CASE ~UNCHANGED <<at, call>>
    <3>1. PICK c \in ModuleCalls : /\ call' = [call EXCEPT ![p] = c]
                                   /\ at' = [at EXCEPT ![p] = IF c.kind = "setModuleState"
                                                              THEN "write state" ELSE "read state"]
      BY <1>1, <2>3 DEF StartModuleCall
    <3> QED BY <1>0, <2>1, <3>1, ModuleAlone
  <2> QED BY <2>2, <2>3
<1>2. CASE ReadState(p)
  <2>1. UNCHANGED <<state, owed, repeats>> /\ call[p] \in ModuleCalls
    BY <1>2 DEF ReadState, moduleVars, ModuleInv, ModuleCallsFit
  <2>2. CASE Returns(p)
    BY <1>0, <2>1, <2>2, ModuleAlone
  <2>3. CASE ~Returns(p)
    <3>1. /\ Mutated(state, call[p]) # Undefined
          /\ seen' = [seen EXCEPT ![p] = [read |-> state]]
          /\ at' = [at EXCEPT ![p] = "write state"] /\ call' = call
      BY <1>2, <2>3 DEF ReadState
    <3>2. seen'[p].read = state /\ at'[p] = "write state"
      BY <1>0, <3>1
    <3>3. ListsAtPaths(state) /\ (~repeats => NoRepeats(state))
      BY DEF ModuleInv, StateFits, AppendedStays
    <3> QED BY <1>0, <2>1, <3>1, <3>2, <3>3, ModuleAlone
  <2> QED BY <2>2, <2>3
<1>3. CASE WriteState(p)
  <2> DEFINE c == call[p]
             read == IF c.kind = "setModuleState" THEN NoFile ELSE seen[p].read
  <2>1. /\ c \in ModuleCalls
        /\ c.kind # "setModuleState" =>
             /\ read = seen[p].read
             /\ Mutated(read, c) # Undefined
             /\ ListsAtPaths(read)
             /\ ~repeats => NoRepeats(read)
    BY <1>3 DEF WriteState, ModuleInv, ModuleCallsFit
  <2>2. /\ state' = Mutated(read, c)
        /\ owed' = {item \in owed : ~MayDrop(c, read, item)}
                     \union IF c.kind = "appendToModuleState" THEN {<<c.path, c.entry>>} ELSE {}
        /\ repeats' = \/ repeats
                      \/ c.kind = "appendToModuleState" /\ c.policy = "allow"
                      \/ c.kind = "setModuleState" /\ ~NoRepeats(c.value)
    BY <1>3 DEF WriteState
  <2>3. at'[p] = "idle" /\ DOMAIN call' = Servers
        /\ \A q \in Servers \ {p} : at'[q] = at[q] /\ call'[q] = call[q] /\ seen'[q] = seen[q]
    BY <1>0, <1>3 DEF WriteState
  <2>4. ~repeats' => ~repeats
    BY <2>2
  <2>5. ModuleCallsFit'
    BY <2>3, <2>4 DEF ModuleInv, ModuleCallsFit
  <2>6. CASE c.kind = "setModuleState"
    <3>1. state' = c.value /\ ListsAtPaths(c.value) /\ (~repeats' => NoRepeats(c.value))
      BY <2>1, <2>2, <2>6, ModuleCallsAssumption DEF Mutated
    <3>2. owed' = {}
      BY <2>2, <2>6 DEF MayDrop
    <3> QED BY <2>3, <2>5, <3>1, <3>2 DEF ModuleInv, StateFits, AppendedStays
  <2>7. CASE c.kind # "setModuleState"
    <3>1. /\ ListsAtPaths(Mutated(read, c))
          /\ \A path \in AppendPaths : \A x :
               MayDrop(c, read, <<path, x>>) \/ x \in EntriesAt(Mutated(read, c), path)
          /\ c.kind = "appendToModuleState" =>
               c.path \in AppendPaths /\ c.entry \in EntriesAt(Mutated(read, c), c.path)
          /\ NoRepeats(read) /\ ~(c.kind = "appendToModuleState" /\ c.policy = "allow")
               => NoRepeats(Mutated(read, c))
      BY <2>1, <2>7, MutatedKeeps
    <3> HIDE DEF c, read
    <3>2. ASSUME NEW item \in owed'
          PROVE  /\ item = <<item[1], item[2]>> /\ item[1] \in AppendPaths
                 /\ item[2] \in EntriesAt(state', item[1])
      <4>1. CASE item \in owed /\ ~MayDrop(c, read, item)
        <5>1. item = <<item[1], item[2]>> /\ item[1] \in AppendPaths
          BY <4>1 DEF ModuleInv, StateFits
        <5>2. ~MayDrop(c, read, <<item[1], item[2]>>)
          BY <4>1, <5>1, Zenon
        <5> QED BY <2>2, <3>1, <5>1, <5>2
      <4>2. CASE c.kind = "appendToModuleState" /\ item = <<c.path, c.entry>>
        BY <2>2, <3>1, <4>2
      <4> QED BY <2>2, <4>1, <4>2
    <3>3. ListsAtPaths(state') /\ (~repeats' => NoRepeats(state'))
      BY <2>1, <2>2, <2>7, <3>1
    <3> QED BY <2>3, <2>5, <3>2, <3>3 DEF ModuleInv, StateFits, AppendedStays
  <2> QED BY <2>6, <2>7
<1> QED BY <1>1, <1>2, <1>3

LEMMA ModuleInvNext ==
  IInv /\ ModuleInv /\ [ModuleNext]_<<serverVars, moduleVars>> => ModuleInv'
<1> SUFFICES ASSUME IInv, ModuleInv, [ModuleNext]_<<serverVars, moduleVars>> PROVE ModuleInv'
  OBVIOUS
<1>0. Typed
  BY DEF IInv
<1>1. CASE UNCHANGED <<at, call, seen, moduleVars>>
  BY <1>1 DEF ModuleInv, ModuleCallsFit, StateFits, AppendedStays, moduleVars
<1>2. ASSUME NEW p \in Servers, StartModuleCall(p) \/ ReadState(p) \/ WriteState(p)
      PROVE  ModuleInv'
  BY <1>0, <1>2, ModuleStep
<1>3. ASSUME NEW p \in Servers,
             \/ KillModuleServer(p)
             \/ ServerStep(p) /\ UNCHANGED moduleVars
      PROVE  ModuleInv'
  BY <1>0, <1>3, ModuleQuiet DEF KillModuleServer, moduleVars
<1>4. CASE UserStep /\ UNCHANGED moduleVars
  BY <1>1, <1>4 DEF UserStep, Edit, RestoreMode
<1> QED BY <1>1, <1>2, <1>3, <1>4 DEF ModuleNext, serverVars

(* An entry that appendToModuleState acknowledged is at its path until a   *)
(* call drops it for a reason of MayDrop; and appends that refuse repeats, *)
(* in whatever order, make none (appendToModuleState in tools/writes.ts).  *)
THEOREM AppendedStateStays == ServersSpec => []AppendedStays
<1>1. ModuleInv => AppendedStays
  BY DEF ModuleInv
<1> QED BY <1>1, InvHolds, ModuleInvInit, ModuleInvNext, PTL DEF ServersSpec

-------------------------------------------------------------------------------
(* The cascade: sets of tiers                                              *)

LEMMA MaxIs ==
  ASSUME NEW S \in SUBSET (1..3), NEW x \in S, \A y \in S : x >= y
  PROVE  Max(S) = x
<1> DEFINE m == Max(S)
<1>1. m \in S /\ \A y \in S : m >= y
  BY DEF Max
<1> HIDE DEF m
<1>2. m = x
  BY <1>1
<1> QED BY <1>2 DEF m

LEMMA MaxIn ==
  ASSUME NEW S \in SUBSET (1..3), S # {}
  PROVE  Max(S) \in S /\ \A y \in S : Max(S) >= y
<1>1. \E x \in S : \A y \in S : x >= y
  <2>1. CASE 3 \in S
    BY <2>1
  <2>2. CASE 3 \notin S /\ 2 \in S
    BY <2>2
  <2>3. CASE 3 \notin S /\ 2 \notin S
    <3>1. S = {1}
      <4>1. \A y \in S : y = 1
        BY <2>3
      <4> QED BY <4>1
    <3> QED BY <3>1
  <2> QED BY <2>1, <2>2, <2>3
<1> QED BY <1>1 DEF Max

LEMMA MinIn ==
  ASSUME NEW S \in SUBSET Nat, S # {}
  PROVE  Min(S) \in S /\ \A y \in S : Min(S) <= y
BY LeastExists DEF Min

(* A tier above those that have spoken speaks as well.                     *)
Extended(said, t, value) == [x \in DOMAIN said \union {t} |-> IF x = t THEN value ELSE said[x]]
Below(said, t) == t \in 1..3 /\ DOMAIN said \in SUBSET (1..3) /\ \A x \in DOMAIN said : x < t

(* The tiers that pass a test are those that did, and perhaps the new one. *)
LEMMA ExtendedMax ==
  ASSUME NEW S \in SUBSET (1..3), NEW t \in 1..3, \A x \in S : x < t
  PROVE  Max(S \union {t}) = t
<1>1. S \union {t} \in SUBSET (1..3) /\ t \in S \union {t} /\ \A y \in S \union {t} : t >= y
  OBVIOUS
<1> QED BY <1>1, MaxIs

LEMMA ExtendedMin ==
  ASSUME NEW S \in SUBSET (1..3), NEW t \in 1..3, \A x \in S : x < t
  PROVE  S # {} => Min(S \union {t}) = Min(S) /\ Min(S) \in S
<1> SUFFICES ASSUME S # {} PROVE Min(S \union {t}) = Min(S) /\ Min(S) \in S
  OBVIOUS
<1> DEFINE m == Min(S) n == Min(S \union {t})
<1>1. m \in S /\ \A y \in S : m <= y
  BY MinIn
<1>2. n \in S \union {t} /\ \A y \in S \union {t} : n <= y
  <2>1. S \union {t} \in SUBSET (1..3) /\ S \union {t} # {}
    OBVIOUS
  <2> QED BY <2>1, MinIn
<1> HIDE DEF m, n
<1>3. m = n
  BY <1>1, <1>2
<1> QED BY <1>1, <1>3 DEF m, n

-------------------------------------------------------------------------------
(* The rules for maps                                                      *)

LEMMA RolesExtend ==
  ASSUME NEW said, NEW t, Below(said, t), NEW lower, RolesFit(said, lower), NEW higher
  PROVE  RolesFit(Extended(said, t, higher), MergeRoleMap(lower, higher))
<1> DEFINE new == Extended(said, t, higher)
           with(r) == {x \in DOMAIN said : r \in IntegerRoles(said[x])}
           with2(r) == {x \in DOMAIN new : r \in IntegerRoles(new[x])}
           roles == UNION {IntegerRoles(said[x]) : x \in DOMAIN said}
           roles2 == UNION {IntegerRoles(new[x]) : x \in DOMAIN new}
<1>1. /\ DOMAIN new = DOMAIN said \union {t} /\ new[t] = higher
      /\ \A x \in DOMAIN said : new[x] = said[x] /\ x # t
  BY DEF Extended, Below
<1>2. roles2 = roles \union IntegerRoles(higher)
  BY <1>1
<1>3. \A r : /\ r \in IntegerRoles(higher) => with2(r) = with(r) \union {t}
             /\ r \notin IntegerRoles(higher) => with2(r) = with(r)
  BY <1>1
<1>4. \A r : r \in IntegerRoles(higher) => Max(with2(r)) = t
  <2> SUFFICES ASSUME NEW r, r \in IntegerRoles(higher) PROVE Max(with2(r)) = t
    OBVIOUS
  <2>1. with(r) \in SUBSET (1..3) /\ t \in 1..3 /\ \A x \in with(r) : x < t
    BY DEF Below
  <2>2. with2(r) = with(r) \union {t}
    BY <1>3
  <2> HIDE DEF with, with2
  <2> QED BY <2>1, <2>2, ExtendedMax
<1>5. \A r \in roles : with(r) \in SUBSET (1..3) /\ with(r) # {}
  BY DEF Below
<1>6. \A r \in roles \ IntegerRoles(higher) : Max(with2(r)) = Max(with(r)) /\ Max(with(r)) \in DOMAIN said
  <2> SUFFICES ASSUME NEW r \in roles \ IntegerRoles(higher)
               PROVE  Max(with2(r)) = Max(with(r)) /\ Max(with(r)) \in DOMAIN said
    OBVIOUS
  <2>1. with2(r) = with(r) /\ Max(with(r)) \in with(r)
    <3>1. with(r) \in SUBSET (1..3) /\ with(r) # {} /\ with2(r) = with(r)
      BY <1>3, <1>5
    <3> HIDE DEF with, with2
    <3> QED BY <3>1, MaxIn
  <2> QED BY <2>1
<1>7. lower = [r \in roles |-> said[Max(with(r))][r]]
  BY DEF RolesFit
<1>8. MergeRoleMap(lower, higher)
        = [r \in roles2 |-> IF r \in IntegerRoles(higher) THEN higher[r] ELSE said[Max(with(r))][r]]
  <2> HIDE DEF with, roles, roles2, new
  <2> QED BY <1>7, <1>2 DEF MergeRoleMap, Over
<1>9. \A r \in roles2 :
        (IF r \in IntegerRoles(higher) THEN higher[r] ELSE said[Max(with(r))][r]) = new[Max(with2(r))][r]
  <2> HIDE DEF with, with2, roles, roles2, new
  <2> QED BY <1>1, <1>2, <1>4, <1>6
<1>10. MergeRoleMap(lower, higher) = [r \in roles2 |-> new[Max(with2(r))][r]]
  <2> HIDE DEF with, with2, roles, roles2, new
  <2> QED BY <1>8, <1>9
<1> QED BY <1>10 DEF RolesFit

LEMMA CachesExtend ==
  ASSUME NEW said, NEW t, Below(said, t), NEW lower, CachesFit(said, lower),
         NEW higher, SaysFit("deep-merge-cache-env", higher)
  PROVE  CachesFit(Extended(said, t, higher), DeepMergeCacheEnv(lower, higher))
<1> DEFINE new == Extended(said, t, higher)
           holding(s) == {x \in DOMAIN said : s \in DOMAIN said[x]}
           holding2(s) == {x \in DOMAIN new : s \in DOMAIN new[x]}
           with(s, v) == {x \in holding(s) : v \in DOMAIN said[x][s]}
           with2(s, v) == {x \in holding2(s) : v \in DOMAIN new[x][s]}
           caches == UNION {DOMAIN said[x] : x \in DOMAIN said}
           caches2 == UNION {DOMAIN new[x] : x \in DOMAIN new}
           vars(s) == UNION {DOMAIN said[x][s] : x \in holding(s)}
           vars2(s) == UNION {DOMAIN new[x][s] : x \in holding2(s)}
           Said(s, v) == s \in DOMAIN higher /\ v \in DOMAIN higher[s]
           before(s, v) == said[Max(with(s, v))][s][v]
           after(s, v) == new[Max(with2(s, v))][s][v]
<1>1. /\ DOMAIN new = DOMAIN said \union {t} /\ new[t] = higher
      /\ \A x \in DOMAIN said : new[x] = said[x] /\ x # t
  BY DEF Extended, Below
<1>2. caches2 = caches \union DOMAIN higher
  BY <1>1
<1>3. \A s : /\ s \in DOMAIN higher => holding2(s) = holding(s) \union {t} /\ vars2(s) = vars(s) \union DOMAIN higher[s]
             /\ s \notin DOMAIN higher => holding2(s) = holding(s) /\ vars2(s) = vars(s)
  BY <1>1
<1>4. \A s, v : /\ Said(s, v) => with2(s, v) = with(s, v) \union {t}
                /\ ~Said(s, v) => with2(s, v) = with(s, v)
  BY <1>1
<1>5. \A s, v : with(s, v) \in SUBSET (1..3) /\ t \in 1..3 /\ \A x \in with(s, v) : x < t
  BY DEF Below
<1>6. \A s, v : v \in vars(s) => with(s, v) # {}
  OBVIOUS
<1>7. \A s, v : Said(s, v) => after(s, v) = higher[s][v]
  <2> SUFFICES ASSUME NEW s, NEW v, Said(s, v) PROVE after(s, v) = higher[s][v]
    OBVIOUS
  <2>1. Max(with2(s, v)) = t
    <3>1. with2(s, v) = with(s, v) \union {t}
      BY <1>4
    <3> HIDE DEF with, with2
    <3> QED BY <3>1, <1>5, ExtendedMax
  <2> QED BY <2>1, <1>1
<1>8. \A s, v : v \in vars(s) /\ ~Said(s, v) => after(s, v) = before(s, v)
  <2> SUFFICES ASSUME NEW s, NEW v, v \in vars(s), ~Said(s, v) PROVE after(s, v) = before(s, v)
    OBVIOUS
  <2>1. with2(s, v) = with(s, v) /\ Max(with(s, v)) \in with(s, v)
    <3>1. with2(s, v) = with(s, v) /\ with(s, v) # {}
      BY <1>4, <1>6
    <3> HIDE DEF with, with2
    <3> QED BY <3>1, <1>5, MaxIn
  <2>2. Max(with(s, v)) \in DOMAIN said
    BY <2>1
  <2>3. Max(with2(s, v)) = Max(with(s, v))
    BY <2>1
  <2> QED BY <2>2, <2>3, <1>1
<1>9. lower = [s \in caches |-> [v \in vars(s) |-> before(s, v)]]
  BY DEF CachesFit
<1>10. ASSUME NEW s \in caches2
       PROVE  DeepMergeCacheEnv(lower, higher)[s] = [v \in vars2(s) |-> after(s, v)]
  <2> HIDE DEF caches, caches2, vars, vars2, before, after
  <2>1. DOMAIN lower = caches /\ (s \in caches => lower[s] = [v \in vars(s) |-> before(s, v)])
    BY <1>9
  <2>2. DeepMergeCacheEnv(lower, higher)[s]
          = IF s \in DOMAIN higher
            THEN IF s \in DOMAIN lower THEN Over(higher[s], lower[s]) ELSE higher[s]
            ELSE lower[s]
    BY <1>2, <2>1 DEF DeepMergeCacheEnv, Over
  <2>3. CASE s \notin DOMAIN higher
    <3>1. s \in caches /\ vars2(s) = vars(s) /\ DeepMergeCacheEnv(lower, higher)[s] = lower[s]
      BY <2>2, <2>3, <1>2, <1>3
    <3>2. \A v \in vars(s) : after(s, v) = before(s, v)
      BY <2>3, <1>8
    <3> QED BY <3>1, <3>2, <2>1
  <2>4. CASE s \in DOMAIN higher /\ s \in caches
    <3>1. DeepMergeCacheEnv(lower, higher)[s] = Over(higher[s], lower[s])
      BY <2>1, <2>2, <2>4
    <3>2. Over(higher[s], lower[s])
            = [v \in DOMAIN higher[s] \union vars(s) |->
                 IF v \in DOMAIN higher[s] THEN higher[s][v] ELSE before(s, v)]
      BY <2>1, <2>4 DEF Over
    <3>3. \A v \in DOMAIN higher[s] \union vars(s) :
            (IF v \in DOMAIN higher[s] THEN higher[s][v] ELSE before(s, v)) = after(s, v)
      BY <2>4, <1>7, <1>8
    <3>4. vars2(s) = DOMAIN higher[s] \union vars(s)
      BY <2>4, <1>3
    <3> QED BY <3>1, <3>2, <3>3, <3>4
  <2>5. CASE s \in DOMAIN higher /\ s \notin caches
    <3>1. DeepMergeCacheEnv(lower, higher)[s] = higher[s]
      BY <2>1, <2>2, <2>5
    <3>2. higher[s] = [v \in DOMAIN higher[s] |-> higher[s][v]]
      BY <2>5 DEF SaysFit
    <3>3. vars(s) = {}
      BY <2>5 DEF vars, caches
    <3>4. vars2(s) = DOMAIN higher[s]
      BY <2>5, <1>3, <3>3
    <3>5. \A v \in DOMAIN higher[s] : higher[s][v] = after(s, v)
      BY <2>5, <1>7
    <3> QED BY <3>1, <3>2, <3>4, <3>5
  <2> QED BY <2>3, <2>4, <2>5
<1>11. DeepMergeCacheEnv(lower, higher) = [s \in caches2 |-> [v \in vars2(s) |-> after(s, v)]]
  <2>1. DOMAIN lower = caches
    BY <1>9
  <2> HIDE DEF caches, caches2, vars2, after
  <2>2. DeepMergeCacheEnv(lower, higher)
          = [s \in caches2 |-> DeepMergeCacheEnv(lower, higher)[s]]
    BY <1>2, <2>1 DEF DeepMergeCacheEnv, Over
  <2> QED BY <2>2, <1>10
<1> QED BY <1>11 DEF CachesFit

-------------------------------------------------------------------------------
(* The rules for lists                                                     *)

KeysIn(list, key) == {key[x] : x \in Range(list)}
AddFresh(list, e, key) == IF key[e] \in KeysIn(list, key) THEN list ELSE Append(list, e)

Runs(g, list, more, key) ==
  /\ g[0] = list
  /\ \A n \in 1..Len(more) : g[n] = AddFresh(g[n - 1], more[n], key)
  /\ AppendFresh(list, more, key) = g[Len(more)]

(* AppendFresh takes the entries of more one after the other.              *)
LEMMA AppendFreshRuns ==
  ASSUME NEW E, NEW list \in Seq(E), NEW more \in Seq(E), NEW key
  PROVE  \E g \in [0..Len(more) -> Seq(E)] : Runs(g, list, more, key)
<1> DEFINE D == DOMAIN more
           V == Seq(E)
           Solves(h) == h = [s \in SUBSET D |-> IF s = {} THEN list
                               ELSE IF key[more[Max(s)]] \in {key[x] : x \in Range(h[s \ {Max(s)}])}
                                    THEN h[s \ {Max(s)}]
                                    ELSE Append(h[s \ {Max(s)}], more[Max(s)])]
<1>1. /\ more \in [1..Len(more) -> E] /\ Len(more) \in Nat /\ D = 1..Len(more)
      /\ IsFiniteSet(D) /\ D \subseteq Int
  BY FS_Interval
<1>2. PICK c : c = [s \in SUBSET D |-> Max(s)]
  OBVIOUS
<1>3. Picks(c, D)
  <2> SUFFICES ASSUME NEW s \in SUBSET D, s # {} PROVE Max(s) \in s
    BY <1>2 DEF Picks
  <2>1. \E x \in s : \A y \in s : x >= y
    BY <1>1, FS_Subset, LargestExists
  <2> QED BY <2>1 DEF Max
<1>4. \E h : h \in [SUBSET D -> V] /\ Solves(h)
  <2>1. PICK step : step = [i \in D |-> [v \in V |-> AddFresh(v, more[i], key)]]
    OBVIOUS
  <2>2. step \in [D -> [V -> V]] /\ list \in V
    <3>1. \A i \in D, v \in V : AddFresh(v, more[i], key) \in V
      BY <1>1 DEF AddFresh
    <3> HIDE DEF V, D
    <3> QED BY <2>1, <3>1 DEF V
  <2>3. PICK h \in [SUBSET D -> V] : Computes(h, D, list, c, step)
    BY <1>1, <1>3, <2>2, FiniteRecursion
  <2>4. ASSUME NEW s \in SUBSET D, s # {}
        PROVE  step[c[s]][h[s \ {c[s]}]]
                 = IF key[more[Max(s)]] \in {key[x] : x \in Range(h[s \ {Max(s)}])}
                   THEN h[s \ {Max(s)}] ELSE Append(h[s \ {Max(s)}], more[Max(s)])
    <3>1. c[s] = Max(s) /\ c[s] \in D /\ h[s \ {c[s]}] \in V
      BY <1>2, <1>3, <2>4 DEF Picks
    <3> HIDE DEF V, D
    <3> QED BY <2>1, <3>1 DEF AddFresh, KeysIn
  <2>5. \A s \in SUBSET D : h[s] = IF s = {} THEN list
                               ELSE IF key[more[Max(s)]] \in {key[x] : x \in Range(h[s \ {Max(s)}])}
                                    THEN h[s \ {Max(s)}]
                                    ELSE Append(h[s \ {Max(s)}], more[Max(s)])
    <3> HIDE DEF V, D
    <3> QED BY <2>3, <2>4 DEF Computes
  <2>6. Solves(h)
    <3> HIDE DEF V, D
    <3> QED BY <2>5
  <2> QED BY <2>3, <2>6
<1>5. PICK it : it = CHOOSE h : Solves(h)
  OBVIOUS
<1>6. Solves(it)
  <2> HIDE DEF Solves
  <2> QED BY <1>4, <1>5
<1>7. AppendFresh(list, more, key) = it[D]
  BY <1>5, Zenon DEF AppendFresh, FoldLeft, MapThenFoldSet
<1>8. ASSUME NEW n \in 1..Len(more)
      PROVE  it[1..n] = AddFresh(it[1..(n - 1)], more[n], key)
  <2>1. 1..n \in SUBSET D /\ 1..n # {} /\ n \in 1..n
    BY <1>1
  <2>2. Max(1..n) = n
    <3> DEFINE m == Max(1..n)
    <3>1. m \in 1..n /\ \A y \in 1..n : m >= y
      <4>1. n \in 1..n /\ \A y \in 1..n : n >= y
        BY <1>1
      <4> QED BY <4>1 DEF Max
    <3> HIDE DEF m
    <3>2. m = n
      BY <3>1, <2>1, <1>1
    <3> QED BY <3>2 DEF m
  <2>3. (1..n) \ {n} = 1..(n - 1)
    BY <1>1
  <2> HIDE DEF D
  <2> QED BY <1>6, <2>1, <2>2, <2>3 DEF AddFresh, KeysIn
<1>9. it[1..0] = list
  <2>1. 1..0 = {} /\ {} \in SUBSET D
    OBVIOUS
  <2> HIDE DEF D
  <2> QED BY <1>6, <2>1
<1>10. PICK g : g = [n \in 0..Len(more) |-> it[1..n]]
  OBVIOUS
<1> HIDE DEF Solves
<1>11. /\ g[0] = list
       /\ \A n \in 1..Len(more) : g[n] = AddFresh(g[n - 1], more[n], key)
       /\ AppendFresh(list, more, key) = g[Len(more)]
  BY <1>1, <1>7, <1>8, <1>9, <1>10
<1>12. \A n \in 0..Len(more) : g[n] \in V
  <2> DEFINE T == {n \in Nat : n \in 0..Len(more) => g[n] \in V}
  <2>1. 0 \in T
    BY <1>11
  <2>2. ASSUME NEW n \in T PROVE n + 1 \in T
    <3>1. n \in Nat /\ (n \in 0..Len(more) => g[n] \in V)
      OBVIOUS
    <3> SUFFICES ASSUME n + 1 \in 0..Len(more) PROVE g[n + 1] \in V
      BY <3>1
    <3>2. n \in 0..Len(more) /\ n + 1 \in 1..Len(more) /\ (n + 1) - 1 = n
      BY <1>1, <3>1
    <3>3. g[n + 1] = AddFresh(g[n], more[n + 1], key)
      BY <1>11, <3>2
    <3>4. more[n + 1] \in E /\ g[n] \in V
      BY <1>1, <3>1, <3>2
    <3> QED BY <3>3, <3>4 DEF AddFresh
  <2>3. T = Nat
    <3> HIDE DEF T
    <3>1. T \subseteq Nat
      BY DEF T
    <3> QED BY <2>1, <2>2, <3>1, SetInduction
  <2> QED BY <1>1, <2>3
<1>13. g \in [0..Len(more) -> V]
  BY <1>10, <1>12
<1> QED BY <1>11, <1>13 DEF Runs

Distinct(list, key) == \A i, j \in DOMAIN list : i < j => key[list[i]] # key[list[j]]

(* out is list with entries of given behind it, one for each further key.  *)
Enlarges(out, list, given, key) ==
  /\ IsList(out) /\ Distinct(out, key)
  /\ Len(list) <= Len(out)
  /\ \A i \in 1..Len(list) : out[i] = list[i]
  /\ \A i \in 1..Len(out) : i > Len(list) => out[i] \in given /\ key[out[i]] \notin KeysIn(list, key)
  /\ KeysIn(out, key) = KeysIn(list, key) \union {key[x] : x \in given}

LEMMA AddFreshEnlarges ==
  ASSUME NEW list, IsList(list), NEW out, NEW given, NEW key, Enlarges(out, list, given, key), NEW e
  PROVE  Enlarges(AddFresh(out, e, key), list, given \union {e}, key)
<1>1. /\ DOMAIN out = 1..Len(out) /\ Len(out) \in Nat /\ Len(list) \in Nat /\ out \in Seq(Range(out))
  BY DEF Enlarges, IsList
<1>2. CASE key[e] \in KeysIn(out, key)
  <2>1. AddFresh(out, e, key) = out
    BY <1>2 DEF AddFresh
  <2>2. {key[x] : x \in given \union {e}} = {key[x] : x \in given} \union {key[e]}
    OBVIOUS
  <2>3. KeysIn(out, key) = KeysIn(list, key) \union {key[x] : x \in given \union {e}}
    BY <1>2, <2>2 DEF Enlarges
  <2> QED BY <2>1, <2>3 DEF Enlarges
<1>3. CASE key[e] \notin KeysIn(out, key)
  <2> DEFINE new == AddFresh(out, e, key)
  <2>1. new = Append(out, e)
    BY <1>3 DEF AddFresh
  <2>2. /\ Len(new) = Len(out) + 1 /\ DOMAIN new = 1..(Len(out) + 1)
        /\ new[Len(out) + 1] = e /\ \A i \in 1..Len(out) : new[i] = out[i]
    BY <1>1, <2>1
  <2>3. IsList(new) /\ Range(new) = Range(out) \union {e}
    <3>1. new \in Seq(Range(out) \union {e})
      <4>1. out \in Seq(Range(out) \union {e})
        <5>1. out \in [1..Len(out) -> Range(out) \union {e}]
          BY <1>1
        <5> QED BY <5>1, <1>1
      <4> QED BY <4>1, <2>1
    <3> QED BY <3>1, <1>1, <2>1, ListsAreLists, AppendAdds
  <2>4. KeysIn(new, key) = KeysIn(out, key) \union {key[e]}
    BY <2>3 DEF KeysIn
  <2>5. \A i \in 1..Len(out) : key[out[i]] \in KeysIn(out, key)
    BY <1>1 DEF KeysIn, Range
  <2>6. Distinct(new, key)
    <3> SUFFICES ASSUME NEW i \in 1..(Len(out) + 1), NEW j \in 1..(Len(out) + 1), i < j
                 PROVE  key[new[i]] # key[new[j]]
      BY <2>2 DEF Distinct
    <3>1. i \in 1..Len(out) /\ new[i] = out[i]
      BY <1>1, <2>2
    <3>2. CASE j = Len(out) + 1
      BY <3>1, <3>2, <2>2, <2>5, <1>3
    <3>3. CASE j # Len(out) + 1
      <4>1. j \in 1..Len(out) /\ new[j] = out[j]
        BY <3>3, <1>1, <2>2
      <4>2. Distinct(out, key)
        BY DEF Enlarges
      <4> QED BY <3>1, <4>1, <4>2, <1>1 DEF Distinct
    <3> QED BY <3>2, <3>3
  <2>7. KeysIn(list, key) \subseteq KeysIn(out, key)
    BY DEF Enlarges
  <2>8. ASSUME NEW i \in 1..Len(new), i > Len(list)
        PROVE  new[i] \in given \union {e} /\ key[new[i]] \notin KeysIn(list, key)
    <3>1. CASE i = Len(out) + 1
      BY <3>1, <2>2, <2>7, <1>3
    <3>2. CASE i # Len(out) + 1
      <4>1. i \in 1..Len(out) /\ new[i] = out[i]
        BY <3>2, <2>2, <1>1
      <4> QED BY <4>1, <2>8 DEF Enlarges
    <3> QED BY <3>1, <3>2
  <2>9. KeysIn(new, key) = KeysIn(list, key) \union {key[x] : x \in given \union {e}}
    BY <2>4 DEF Enlarges
  <2>10. Len(list) <= Len(new) /\ \A i \in 1..Len(list) : new[i] = list[i]
    BY <1>1, <2>2 DEF Enlarges
  <2> HIDE DEF new
  <2>11. Enlarges(new, list, given \union {e}, key)
    BY <2>3, <2>6, <2>8, <2>9, <2>10 DEF Enlarges
  <2> QED BY <2>11 DEF new
<1> QED BY <1>2, <1>3

LEMMA AppendFreshEnlarges ==
  ASSUME NEW list, IsList(list), NEW more, IsList(more), NEW key, Distinct(list, key)
  PROVE  Enlarges(AppendFresh(list, more, key), list, Range(more), key)
<1> DEFINE E == Range(list) \union Range(more)
           taken(n) == {more[i] : i \in 1..n}
<1>1. /\ list \in Seq(E) /\ more \in Seq(E) /\ Len(more) \in Nat /\ Len(list) \in Nat
      /\ DOMAIN more = 1..Len(more)
  <2>1. list \in [1..Len(list) -> E] /\ more \in [1..Len(more) -> E]
    BY DEF IsList
  <2>2. Len(list) \in Nat /\ Len(more) \in Nat
    BY DEF IsList
  <2> QED BY <2>1, <2>2
<1>2. PICK g \in [0..Len(more) -> Seq(E)] :
        /\ g[0] = list
        /\ \A n \in 1..Len(more) : g[n] = AddFresh(g[n - 1], more[n], key)
        /\ AppendFresh(list, more, key) = g[Len(more)]
  <2> HIDE DEF E
  <2>1. \E g \in [0..Len(more) -> Seq(E)] : Runs(g, list, more, key)
    BY <1>1, AppendFreshRuns
  <2> QED BY <2>1 DEF Runs
<1> DEFINE T == {n \in Nat : n \in 0..Len(more) => Enlarges(g[n], list, taken(n), key)}
<1>3. 0 \in T
  <2>1. taken(0) = {}
    OBVIOUS
  <2>2. Enlarges(list, list, {}, key)
    BY <1>1 DEF Enlarges, IsList
  <2> QED BY <1>2, <2>1, <2>2
<1>4. ASSUME NEW n \in T PROVE n + 1 \in T
  <2>1. n \in Nat /\ (n \in 0..Len(more) => Enlarges(g[n], list, taken(n), key))
    OBVIOUS
  <2> SUFFICES ASSUME n + 1 \in 0..Len(more) PROVE Enlarges(g[n + 1], list, taken(n + 1), key)
    BY <2>1
  <2>2. n \in 0..Len(more) /\ n + 1 \in 1..Len(more) /\ (n + 1) - 1 = n
    BY <1>1, <2>1
  <2>3. g[n + 1] = AddFresh(g[n], more[n + 1], key)
    BY <1>2, <2>2
  <2>4. taken(n + 1) = taken(n) \union {more[n + 1]}
    <3>1. 1..(n + 1) = (1..n) \union {n + 1}
      BY <2>1
    <3> QED BY <3>1
  <2> HIDE DEF T, E, taken
  <2> QED BY <2>1, <2>2, <2>3, <2>4, AddFreshEnlarges
<1>5. T = Nat
  <2> HIDE DEF T
  <2>1. T \subseteq Nat
    BY DEF T
  <2> QED BY <1>3, <1>4, <2>1, SetInduction
<1>6. taken(Len(more)) = Range(more)
  BY <1>1 DEF Range
<1>7. Enlarges(g[Len(more)], list, taken(Len(more)), key)
  <2>1. Len(more) \in T /\ Len(more) \in 0..Len(more)
    <3> HIDE DEF T
    <3> QED BY <1>1, <1>5
  <2> QED BY <2>1
<1> QED BY <1>2, <1>6, <1>7

(* A list that holds each key once comes out as it went in.                *)
LEMMA AppendFreshCopies ==
  ASSUME NEW more, IsList(more), NEW key, Distinct(more, key)
  PROVE  AppendFresh(<<>>, more, key) = more
<1> DEFINE E == Range(more)
<1>1. more \in Seq(E) /\ <<>> \in Seq(E) /\ Len(more) \in Nat /\ DOMAIN more = 1..Len(more)
  BY DEF IsList
<1>2. PICK g \in [0..Len(more) -> Seq(E)] :
        /\ g[0] = <<>>
        /\ \A n \in 1..Len(more) : g[n] = AddFresh(g[n - 1], more[n], key)
        /\ AppendFresh(<<>>, more, key) = g[Len(more)]
  <2> HIDE DEF E
  <2>1. \E g \in [0..Len(more) -> Seq(E)] : Runs(g, <<>>, more, key)
    BY <1>1, AppendFreshRuns
  <2> QED BY <2>1 DEF Runs
<1> DEFINE Copied(n) == Len(g[n]) = n /\ \A i \in 1..n : g[n][i] = more[i]
           T == {n \in Nat : n \in 0..Len(more) => Copied(n)}
<1>3. 0 \in T
  BY <1>2
<1>4. ASSUME NEW n \in T PROVE n + 1 \in T
  <2>1. n \in Nat /\ (n \in 0..Len(more) => Copied(n))
    OBVIOUS
  <2> SUFFICES ASSUME n + 1 \in 0..Len(more) PROVE Copied(n + 1)
    BY <2>1
  <2>2. n \in 0..Len(more) /\ n + 1 \in 1..Len(more) /\ (n + 1) - 1 = n
    BY <1>1, <2>1
  <2>3. g[n + 1] = AddFresh(g[n], more[n + 1], key) /\ g[n] \in Seq(E)
    BY <1>2, <2>2
  <2>4. Len(g[n]) = n /\ \A i \in 1..n : g[n][i] = more[i]
    BY <2>1, <2>2
  <2>5. key[more[n + 1]] \notin KeysIn(g[n], key)
    <3>1. \A x \in Range(g[n]) : \E i \in 1..n : x = more[i]
      BY <2>3, <2>4 DEF Range
    <3>2. \A i \in 1..n : key[more[i]] # key[more[n + 1]]
      <4>1. \A i \in 1..n : i \in DOMAIN more /\ i < n + 1
        BY <1>1, <2>1, <2>2
      <4>2. n + 1 \in DOMAIN more
        BY <1>1, <2>2
      <4> QED BY <4>1, <4>2 DEF Distinct
    <3>3. KeysIn(g[n], key) = {key[x] : x \in Range(g[n])}
      BY DEF KeysIn
    <3> HIDE DEF T, E
    <3>4. \A x \in Range(g[n]) : key[x] # key[more[n + 1]]
      BY <3>1, <3>2
    <3> QED BY <3>3, <3>4
  <2>6. g[n + 1] = Append(g[n], more[n + 1])
    BY <2>3, <2>5 DEF AddFresh
  <2> QED BY <2>1, <2>3, <2>4, <2>6
<1>5. T = Nat
  <2> HIDE DEF T
  <2>1. T \subseteq Nat
    BY DEF T
  <2> QED BY <1>3, <1>4, <2>1, SetInduction
<1>6. Copied(Len(more))
  <2>1. Len(more) \in T /\ Len(more) \in 0..Len(more)
    <3> HIDE DEF T
    <3> QED BY <1>1, <1>5
  <2> QED BY <2>1
<1>7. g[Len(more)] \in Seq(E)
  BY <1>1, <1>2
<1>8. g[Len(more)] = more
  BY <1>1, <1>6, <1>7
<1> QED BY <1>2, <1>8

(* Who was first to name a thing stays first; a new thing is the new       *)
(* tier's.                                                                 *)
LEMMA FirstStays ==
  ASSUME NEW A \in SUBSET (1..3), NEW t \in 1..3, \A x \in A : x < t,
         NEW B, B = A \/ B = A \union {t}
  PROVE  /\ A # {} => Min(B) = Min(A) /\ Min(B) < t /\ Min(B) \in 1..3
         /\ A = {} /\ t \in B => Min(B) = t
<1>1. ASSUME A # {} PROVE Min(B) = Min(A) /\ Min(B) < t /\ Min(B) \in 1..3
  <2>1. Min(A) \in A /\ Min(A \union {t}) = Min(A)
    BY <1>1, MinIn, ExtendedMin
  <2>2. Min(B) = Min(A)
    BY <2>1
  <2>3. Min(A) < t /\ Min(A) \in 1..3
    BY <2>1
  <2> QED BY <2>2, <2>3
<1>2. ASSUME A = {}, t \in B PROVE Min(B) = t
  <2>1. B = {t} /\ B \in SUBSET (1..3) /\ B # {}
    BY <1>2
  <2>2. Min(B) \in B
    BY <2>1, MinIn
  <2> QED BY <2>1, <2>2
<1> QED BY <1>1, <1>2

LEMMA StringsExtend ==
  ASSUME NEW said, NEW t, Below(said, t), NEW lower, IsList(lower), StringsFit(said, lower),
         NEW higher, IsList(higher)
  PROVE  /\ IsList(MergeStringList(lower, higher))
         /\ StringsFit(Extended(said, t, higher), MergeStringList(lower, higher))
<1> DEFINE new == Extended(said, t, higher)
           with(s) == {x \in DOMAIN said : s \in Range(said[x])}
           with2(s) == {x \in DOMAIN new : s \in Range(new[x])}
           key == [s \in Range(lower) \union Range(higher) |-> s]
           r == AppendFresh(lower, higher, key)
<1>1. /\ DOMAIN new = DOMAIN said \union {t} /\ new[t] = higher
      /\ \A x \in DOMAIN said : new[x] = said[x] /\ x # t
  BY DEF Extended, Below
<1>2. /\ DOMAIN lower = 1..Len(lower) /\ Len(lower) \in Nat
      /\ Range(lower) = {lower[i] : i \in 1..Len(lower)}
      /\ \A i \in 1..Len(lower) : lower[i] \in Range(lower)
  BY DEF IsList, Range
<1>3. Distinct(lower, key)
  <2> SUFFICES ASSUME NEW i \in 1..Len(lower), NEW j \in 1..Len(lower), i < j
               PROVE  key[lower[i]] # key[lower[j]]
    BY <1>2 DEF Distinct
  <2>1. key[lower[i]] = lower[i] /\ key[lower[j]] = lower[j]
    BY <1>2
  <2>2. lower[i] # lower[j]
    BY <1>2 DEF StringsFit, IsInjective
  <2> HIDE DEF key
  <2> QED BY <2>1, <2>2
<1>4. MergeStringList(lower, higher) = r
  <2>1. MergeStringList(lower, higher) = AppendFresh(AppendFresh(<<>>, lower, key), higher, key)
    BY DEF MergeStringList
  <2> HIDE DEF key
  <2> QED BY <1>3, <2>1, AppendFreshCopies
<1>5. Enlarges(r, lower, Range(higher), key)
  <2> HIDE DEF key
  <2> QED BY <1>3, AppendFreshEnlarges
<1>6. \A s \in Range(lower) \union Range(higher) : key[s] = s
  OBVIOUS
<1>7. KeysIn(lower, key) = Range(lower) /\ {key[x] : x \in Range(higher)} = Range(higher)
  <2> HIDE DEF key
  <2> QED BY <1>6 DEF KeysIn
<1> HIDE DEF key, r
<1>8. /\ IsList(r) /\ DOMAIN r = 1..Len(r) /\ Len(r) \in Nat /\ Len(lower) <= Len(r)
      /\ Range(r) = {r[i] : i \in 1..Len(r)}
  BY <1>5 DEF Enlarges, IsList, Range
<1>9. \A i \in 1..Len(r) :
        /\ i <= Len(lower) => r[i] = lower[i] /\ r[i] \in Range(lower)
        /\ i > Len(lower) => r[i] \in Range(higher) /\ r[i] \notin Range(lower)
        /\ key[r[i]] = r[i]
  <2> SUFFICES ASSUME NEW i \in 1..Len(r)
               PROVE  /\ i <= Len(lower) => r[i] = lower[i] /\ r[i] \in Range(lower)
                      /\ i > Len(lower) => r[i] \in Range(higher) /\ r[i] \notin Range(lower)
                      /\ key[r[i]] = r[i]
    OBVIOUS
  <2>1. CASE i <= Len(lower)
    <3>1. i \in 1..Len(lower)
      BY <2>1, <1>2, <1>8
    <3>2. r[i] = lower[i] /\ lower[i] \in Range(lower)
      BY <3>1, <1>2, <1>5 DEF Enlarges
    <3>3. key[r[i]] = r[i]
      BY <3>2, <1>6
    <3>4. ~ i > Len(lower)
      BY <2>1, <1>2, <1>8
    <3> QED BY <3>2, <3>3, <3>4
  <2>2. CASE ~(i <= Len(lower))
    <3>1. i > Len(lower)
      BY <2>2, <1>2, <1>8
    <3>2. r[i] \in Range(higher) /\ key[r[i]] \notin KeysIn(lower, key)
      BY <3>1, <1>5 DEF Enlarges
    <3> QED BY <2>2, <3>1, <3>2, <1>6, <1>7
  <2> QED BY <2>1, <2>2
<1>10. Range(r) = Range(lower) \union Range(higher)
  <2>1. KeysIn(r, key) = Range(lower) \union Range(higher)
    BY <1>5, <1>7 DEF Enlarges
  <2>2. KeysIn(r, key) = Range(r)
    BY <1>8, <1>9 DEF KeysIn
  <2> QED BY <2>1, <2>2
<1>11. IsInjective(r)
  <2> SUFFICES ASSUME NEW i \in 1..Len(r), NEW j \in 1..Len(r), r[i] = r[j] PROVE i = j
    BY <1>8 DEF IsInjective
  <2>1. \A a, b \in 1..Len(r) : a < b => r[a] # r[b]
    <3>1. \A a, b \in 1..Len(r) : a < b => key[r[a]] # key[r[b]]
      BY <1>5, <1>8 DEF Enlarges, Distinct
    <3> QED BY <3>1, <1>9
  <2>2. ~(i < j) /\ ~(j < i)
    BY <2>1
  <2> QED BY <2>2, <1>8
<1>12. Range(lower) = UNION {Range(said[x]) : x \in DOMAIN said}
  BY DEF StringsFit
<1>13. Range(r) = UNION {Range(new[x]) : x \in DOMAIN new}
  BY <1>1, <1>10, <1>12
<1>14. \A s : with(s) \in SUBSET (1..3) /\ t \in 1..3 /\ (\A x \in with(s) : x < t)
             /\ (with2(s) = with(s) \/ with2(s) = with(s) \union {t})
             /\ (s \in Range(lower) => with(s) # {})
             /\ (s \notin Range(lower) => with(s) = {})
             /\ (s \in Range(higher) => t \in with2(s))
  BY <1>1, <1>12 DEF Below
<1>15. \A s : /\ s \in Range(lower) => Min(with2(s)) = Min(with(s)) /\ Min(with2(s)) < t /\ Min(with2(s)) \in 1..3
              /\ s \notin Range(lower) /\ s \in Range(higher) => Min(with2(s)) = t
  <2> HIDE DEF with, with2
  <2> QED BY <1>14, FirstStays
<1>16. \A i, j \in 1..Len(lower) : i < j => Min(with(lower[i])) <= Min(with(lower[j]))
  BY <1>2 DEF StringsFit
<1>17. \A i, j \in 1..Len(r) : i < j => Min(with2(r[i])) <= Min(with2(r[j]))
  <2> HIDE DEF with, with2
  <2> SUFFICES ASSUME NEW i \in 1..Len(r), NEW j \in 1..Len(r), i < j
               PROVE  Min(with2(r[i])) <= Min(with2(r[j]))
    OBVIOUS
  <2>0. t \in 1..3
    BY <1>14
  <2>1. CASE j <= Len(lower)
    <3>1. i \in 1..Len(lower) /\ j \in 1..Len(lower) /\ i <= Len(lower)
      BY <2>1, <1>2, <1>8
    <3>2. /\ r[i] = lower[i] /\ r[j] = lower[j] /\ r[i] \in Range(lower) /\ r[j] \in Range(lower)
      BY <2>1, <3>1, <1>9
    <3>3. Min(with2(r[i])) = Min(with(lower[i])) /\ Min(with2(r[j])) = Min(with(lower[j]))
      BY <3>2, <1>15
    <3>4. Min(with(lower[i])) <= Min(with(lower[j]))
      BY <3>1, <1>16
    <3> QED BY <3>3, <3>4
  <2>2. CASE i <= Len(lower) /\ ~(j <= Len(lower))
    <3>1. j > Len(lower)
      BY <2>2, <1>2, <1>8
    <3>2. r[i] \in Range(lower) /\ r[j] \in Range(higher) /\ r[j] \notin Range(lower)
      BY <2>2, <3>1, <1>9
    <3>3. Min(with2(r[i])) < t /\ Min(with2(r[i])) \in 1..3 /\ Min(with2(r[j])) = t
      BY <3>2, <1>15
    <3> QED BY <3>3, <2>0
  <2>3. CASE ~(i <= Len(lower))
    <3>1. i > Len(lower) /\ j > Len(lower)
      BY <2>3, <1>2, <1>8
    <3>2. /\ r[i] \in Range(higher) /\ r[i] \notin Range(lower)
          /\ r[j] \in Range(higher) /\ r[j] \notin Range(lower)
      BY <3>1, <1>9
    <3>3. Min(with2(r[i])) = t /\ Min(with2(r[j])) = t
      BY <3>2, <1>15
    <3> QED BY <3>3, <2>0
  <2> QED BY <2>1, <2>2, <2>3, <1>2, <1>8
<1>18. StringsFit(new, r)
  <2> HIDE DEF new
  <2> QED BY <1>8, <1>11, <1>13, <1>17 DEF StringsFit
<1> QED BY <1>4, <1>8, <1>18

LEMMA LastIsThere ==
  ASSUME NEW list, IsList(list), NEW key \in KeysOf(list)
  PROVE  LastOfKey(list, key) \in Range(list) /\ LastOfKey(list, key).key = key
<1> DEFINE U == {i \in DOMAIN list : list[i].key = key}
<1>1. DOMAIN list = 1..Len(list) /\ Len(list) \in Nat /\ IsFiniteSet(DOMAIN list)
  BY FS_Interval DEF IsList
<1>2. U # {} /\ U \in SUBSET (DOMAIN list) /\ U \in SUBSET Int
  BY <1>1 DEF KeysOf
<1>3. PICK x \in U : \A y \in U : x >= y
  <2> HIDE DEF U
  <2>1. IsFiniteSet(U)
    BY <1>1, <1>2, FS_Subset
  <2> QED BY <1>2, <2>1, LargestExists
<1>4. \E i \in DOMAIN list :
        /\ list[i].key = key
        /\ \A j \in DOMAIN list : list[j].key = key => j <= i
  BY <1>1, <1>3
<1>5. PICK i : i = CHOOSE k \in DOMAIN list :
                     /\ list[k].key = key
                     /\ \A j \in DOMAIN list : list[j].key = key => j <= k
  OBVIOUS
<1>6. i \in DOMAIN list /\ list[i].key = key
  BY <1>4, <1>5
<1>7. LastOfKey(list, key) = list[i]
  BY <1>5 DEF LastOfKey
<1> QED BY <1>6, <1>7 DEF Range

LEMMA KeyedExtend ==
  ASSUME NEW said, NEW t, Below(said, t), NEW lower, IsList(lower), KeyedFit(said, lower),
         NEW higher, IsList(higher)
  PROVE  /\ IsList(MergeKeyedList(lower, higher))
         /\ KeyedFit(Extended(said, t, higher), MergeKeyedList(lower, higher))
<1> DEFINE new == Extended(said, t, higher)
           with(k) == {x \in DOMAIN said : k \in KeysOf(said[x])}
           with2(k) == {x \in DOMAIN new : k \in KeysOf(new[x])}
           inherited == [i \in DOMAIN lower |-> IF lower[i].key \in KeysOf(higher)
                                           THEN LastOfKey(higher, lower[i].key) ELSE lower[i]]
           key == [e \in Range(inherited) \union Range(higher) |-> e.key]
           r == AppendFresh(inherited, higher, key)
<1>1. /\ DOMAIN new = DOMAIN said \union {t} /\ new[t] = higher
      /\ \A x \in DOMAIN said : new[x] = said[x] /\ x # t
  BY DEF Extended, Below
<1>2. /\ DOMAIN lower = 1..Len(lower) /\ Len(lower) \in Nat
      /\ DOMAIN higher = 1..Len(higher) /\ Len(higher) \in Nat
  BY DEF IsList
<1>3. MergeKeyedList(lower, higher) = r
  BY DEF MergeKeyedList
<1>4. /\ DOMAIN inherited = 1..Len(lower)
      /\ \A i \in 1..Len(lower) :
           /\ inherited[i].key = lower[i].key
           /\ lower[i].key \in KeysOf(higher) => inherited[i] \in Range(higher)
           /\ lower[i].key \notin KeysOf(higher) => inherited[i] = lower[i]
  BY <1>2, LastIsThere
<1>5. IsList(inherited) /\ Len(inherited) = Len(lower)
  <2>1. inherited \in [1..Len(lower) -> Range(inherited)]
    <3>1. inherited = [i \in 1..Len(lower) |-> inherited[i]] /\ \A i \in 1..Len(lower) : inherited[i] \in Range(inherited)
      BY <1>2 DEF Range
    <3> QED BY <3>1
  <2> HIDE DEF inherited
  <2>2. inherited \in Seq(Range(inherited))
    BY <1>2, <2>1
  <2>3. Len(inherited) = Len(lower)
    BY <1>2, <1>4, <2>2
  <2> QED BY <2>2, <2>3 DEF IsList
<1> HIDE DEF inherited
<1>6. \A e \in Range(inherited) \union Range(higher) : key[e] = e.key
  OBVIOUS
<1> HIDE DEF key, r
<1>7. KeysIn(inherited, key) = KeysOf(lower) /\ {key[x] : x \in Range(higher)} = KeysOf(higher)
  <2>1. Range(inherited) = {inherited[i] : i \in 1..Len(lower)} /\ Range(higher) = {higher[i] : i \in DOMAIN higher}
    BY <1>4 DEF Range
  <2>2. KeysIn(inherited, key) = {inherited[i].key : i \in 1..Len(lower)}
    BY <1>6, <2>1 DEF KeysIn
  <2>3. KeysIn(inherited, key) = {lower[i].key : i \in 1..Len(lower)}
    BY <2>2, <1>4
  <2>4. {key[x] : x \in Range(higher)} = {higher[i].key : i \in DOMAIN higher}
    BY <1>6, <2>1
  <2> QED BY <1>2, <2>3, <2>4 DEF KeysOf
<1>8. Distinct(inherited, key)
  <2> SUFFICES ASSUME NEW i \in 1..Len(lower), NEW j \in 1..Len(lower), i < j
               PROVE  key[inherited[i]] # key[inherited[j]]
    BY <1>4 DEF Distinct
  <2>1. inherited[i] \in Range(inherited) /\ inherited[j] \in Range(inherited)
    BY <1>4 DEF Range
  <2>2. key[inherited[i]] = lower[i].key /\ key[inherited[j]] = lower[j].key
    BY <2>1, <1>4, <1>6
  <2>3. lower[i].key # lower[j].key
    BY <1>2 DEF KeyedFit
  <2> QED BY <2>2, <2>3
<1>9. Enlarges(r, inherited, Range(higher), key)
  BY <1>5, <1>8, AppendFreshEnlarges DEF r
<1>10. /\ IsList(r) /\ DOMAIN r = 1..Len(r) /\ Len(r) \in Nat /\ Len(lower) <= Len(r)
       /\ Range(r) = {r[i] : i \in 1..Len(r)}
  BY <1>5, <1>9 DEF Enlarges, IsList, Range
<1>11. \A i \in 1..Len(r) :
         /\ i <= Len(lower) => i \in 1..Len(lower) /\ r[i] = inherited[i] /\ r[i].key = lower[i].key
                                /\ r[i].key \in KeysOf(lower)
         /\ ~(i <= Len(lower)) => r[i] \in Range(higher) /\ r[i].key \in KeysOf(higher)
                                   /\ r[i].key \notin KeysOf(lower)
         /\ key[r[i]] = r[i].key
  <2> SUFFICES ASSUME NEW i \in 1..Len(r)
               PROVE  /\ i <= Len(lower) => i \in 1..Len(lower) /\ r[i] = inherited[i] /\ r[i].key = lower[i].key
                                             /\ r[i].key \in KeysOf(lower)
                      /\ ~(i <= Len(lower)) => r[i] \in Range(higher) /\ r[i].key \in KeysOf(higher)
                                                /\ r[i].key \notin KeysOf(lower)
                      /\ key[r[i]] = r[i].key
    OBVIOUS
  <2>1. CASE i <= Len(lower)
    <3>1. i \in 1..Len(lower)
      BY <2>1, <1>2, <1>10
    <3>2. r[i] = inherited[i] /\ inherited[i] \in Range(inherited)
      BY <3>1, <1>4, <1>5, <1>9 DEF Enlarges, Range
    <3>3. lower[i].key \in KeysOf(lower) /\ inherited[i].key = lower[i].key
      BY <3>1, <1>2, <1>4 DEF KeysOf
    <3> QED BY <2>1, <3>1, <3>2, <3>3, <1>6
  <2>2. CASE ~(i <= Len(lower))
    <3>1. i > Len(inherited)
      BY <2>2, <1>2, <1>5, <1>10
    <3>2. r[i] \in Range(higher) /\ key[r[i]] \notin KeysIn(inherited, key)
      BY <3>1, <1>9 DEF Enlarges
    <3>3. r[i].key \in KeysOf(higher)
      BY <3>2 DEF KeysOf, Range
    <3> QED BY <2>2, <3>2, <3>3, <1>6, <1>7
  <2> QED BY <2>1, <2>2
<1>12. KeysOf(r) = KeysOf(lower) \union KeysOf(higher)
  <2>1. KeysIn(r, key) = KeysOf(lower) \union KeysOf(higher)
    BY <1>7, <1>9 DEF Enlarges
  <2>2. KeysIn(r, key) = {r[i].key : i \in 1..Len(r)}
    BY <1>10, <1>11 DEF KeysIn
  <2> QED BY <2>1, <2>2, <1>10 DEF KeysOf
<1>13. \A i, j \in 1..Len(r) : i < j => r[i].key # r[j].key
  <2>1. \A i, j \in 1..Len(r) : i < j => key[r[i]] # key[r[j]]
    BY <1>9, <1>10 DEF Enlarges, Distinct
  <2> QED BY <2>1, <1>11
<1>14. KeysOf(lower) = UNION {KeysOf(said[x]) : x \in DOMAIN said}
  BY DEF KeyedFit
<1>15. KeysOf(r) = UNION {KeysOf(new[x]) : x \in DOMAIN new}
  BY <1>1, <1>12, <1>14
<1>16. \A k : /\ with(k) \in SUBSET (1..3) /\ t \in 1..3 /\ (\A x \in with(k) : x < t)
              /\ (k \in KeysOf(higher) => with2(k) = with(k) \union {t} /\ t \in with2(k))
              /\ (k \notin KeysOf(higher) => with2(k) = with(k))
              /\ (k \in KeysOf(lower) => with(k) # {})
              /\ (k \notin KeysOf(lower) => with(k) = {})
  BY <1>1, <1>14 DEF Below
<1>17. \A k : /\ k \in KeysOf(lower) => Min(with2(k)) = Min(with(k)) /\ Min(with2(k)) < t /\ Min(with2(k)) \in 1..3
              /\ k \notin KeysOf(lower) /\ k \in KeysOf(higher) => Min(with2(k)) = t
  <2> HIDE DEF with, with2
  <2> QED BY <1>16, FirstStays
<1>18. \A k : /\ k \in KeysOf(higher) => Max(with2(k)) = t
              /\ k \in KeysOf(lower) /\ k \notin KeysOf(higher) =>
                   Max(with2(k)) = Max(with(k)) /\ Max(with(k)) \in DOMAIN said
  <2>1. \A k : with(k) \subseteq DOMAIN said
    OBVIOUS
  <2> HIDE DEF with, with2
  <2>2. \A k : k \in KeysOf(higher) => Max(with2(k)) = t
    BY <1>16, ExtendedMax
  <2>3. \A k : k \in KeysOf(lower) => Max(with(k)) \in with(k)
    BY <1>16, MaxIn
  <2> QED BY <2>1, <2>2, <2>3, <1>16
<1>19. \A i, j \in 1..Len(lower) : i < j => Min(with(lower[i].key)) <= Min(with(lower[j].key))
  BY <1>2 DEF KeyedFit
<1>20. \A i, j \in 1..Len(r) : i < j => Min(with2(r[i].key)) <= Min(with2(r[j].key))
  <2> HIDE DEF with, with2
  <2> SUFFICES ASSUME NEW i \in 1..Len(r), NEW j \in 1..Len(r), i < j
               PROVE  Min(with2(r[i].key)) <= Min(with2(r[j].key))
    OBVIOUS
  <2>0. t \in 1..3
    BY <1>16
  <2>1. CASE j <= Len(lower)
    <3>1. i <= Len(lower)
      BY <2>1, <1>2, <1>10
    <3>2. /\ i \in 1..Len(lower) /\ j \in 1..Len(lower)
          /\ r[i].key = lower[i].key /\ r[j].key = lower[j].key
          /\ r[i].key \in KeysOf(lower) /\ r[j].key \in KeysOf(lower)
      BY <2>1, <3>1, <1>11
    <3>3. Min(with2(r[i].key)) = Min(with(lower[i].key)) /\ Min(with2(r[j].key)) = Min(with(lower[j].key))
      BY <3>2, <1>17
    <3>4. Min(with(lower[i].key)) <= Min(with(lower[j].key))
      BY <3>2, <1>19
    <3> QED BY <3>3, <3>4
  <2>2. CASE i <= Len(lower) /\ ~(j <= Len(lower))
    <3>1. r[i].key \in KeysOf(lower) /\ r[j].key \in KeysOf(higher) /\ r[j].key \notin KeysOf(lower)
      BY <2>2, <1>11
    <3>2. Min(with2(r[i].key)) < t /\ Min(with2(r[i].key)) \in 1..3 /\ Min(with2(r[j].key)) = t
      BY <3>1, <1>17
    <3> QED BY <3>2, <2>0
  <2>3. CASE ~(i <= Len(lower)) /\ ~(j <= Len(lower))
    <3>1. /\ r[i].key \in KeysOf(higher) /\ r[i].key \notin KeysOf(lower)
          /\ r[j].key \in KeysOf(higher) /\ r[j].key \notin KeysOf(lower)
      BY <2>3, <1>11
    <3>2. Min(with2(r[i].key)) = t /\ Min(with2(r[j].key)) = t
      BY <3>1, <1>17
    <3> QED BY <3>2, <2>0
  <2>4. i <= Len(lower) \/ ~(j <= Len(lower))
    BY <1>2, <1>10
  <2> QED BY <2>1, <2>2, <2>3, <2>4
<1>21. ASSUME NEW e \in Range(r) PROVE e \in Range(new[Max(with2(e.key))])
  <2> HIDE DEF with, with2, new
  <2>1. PICK i \in 1..Len(r) : e = r[i]
    BY <1>10
  <2>2. CASE e.key \in KeysOf(higher)
    <3>1. Max(with2(e.key)) = t
      BY <2>2, <1>18
    <3>2. e \in Range(higher)
      BY <2>1, <2>2, <1>4, <1>11
    <3> QED BY <3>1, <3>2, <1>1
  <2>3. CASE e.key \notin KeysOf(higher)
    <3>1. i <= Len(lower)
      BY <2>1, <2>3, <1>11
    <3>2. i \in 1..Len(lower) /\ e = lower[i] /\ e.key \in KeysOf(lower)
      BY <2>1, <2>3, <3>1, <1>4, <1>11
    <3>3. Max(with2(e.key)) = Max(with(e.key)) /\ Max(with(e.key)) \in DOMAIN said
      BY <2>3, <3>2, <1>18
    <3>4. e \in Range(lower)
      BY <3>2, <1>2 DEF Range
    <3>5. e \in Range(said[Max(with(e.key))])
      BY <3>4 DEF KeyedFit, with
    <3> QED BY <3>3, <3>5, <1>1
  <2> QED BY <2>2, <2>3
<1>22. KeyedFit(new, r)
  <2> HIDE DEF new
  <2> QED BY <1>10, <1>13, <1>15, <1>20, <1>21 DEF KeyedFit
<1> QED BY <1>3, <1>10, <1>22

-------------------------------------------------------------------------------
(* From tier to tier                                                       *)

ListRules == {"list-union-by-string", "list-union-by-key-name", "list-union-by-key-command"}
Rules == ListRules \union {"scalar-override", "deep-merge-cache-env", "merge-role-map"}

(* value is what said has come to; of a scalar nobody set nothing is known.*)
Fits(rule, said, value) ==
  /\ rule # "scalar-override" \/ DOMAIN said # {} => RuleFits(rule, said, value)
  /\ rule \in ListRules => IsList(value)

LEMMA NothingFits ==
  ASSUME NEW rule \in Rules, NEW said, DOMAIN said = {}
  PROVE  Fits(rule, said, <<>>)
<1>1. DOMAIN <<>> = {} /\ Range(<<>>) = {} /\ KeysOf(<<>>) = {} /\ IsList(<<>>)
  BY DEF Range, KeysOf, IsList
<1>2. StringsFit(said, <<>>)
  BY <1>1 DEF StringsFit, IsInjective
<1>3. KeyedFit(said, <<>>)
  BY <1>1 DEF KeyedFit
<1>4. \A S, f : S = {} /\ f = [x \in S |-> f[x]] => f = <<>>
  OBVIOUS
<1>5. RolesFit(said, <<>>)
  <2> DEFINE value == [r \in UNION {IntegerRoles(said[t]) : t \in DOMAIN said} |->
                         said[Max({t \in DOMAIN said : r \in IntegerRoles(said[t])})][r]]
  <2>1. DOMAIN value = {} /\ value = [x \in DOMAIN value |-> value[x]]
    OBVIOUS
  <2>2. value = <<>>
    <3> HIDE DEF value
    <3> QED BY <2>1, <1>4
  <2> QED BY <2>2 DEF RolesFit
<1>6. CachesFit(said, <<>>)
  <2> DEFINE holding(s) == {t \in DOMAIN said : s \in DOMAIN said[t]}
             value == [s \in UNION {DOMAIN said[t] : t \in DOMAIN said} |->
                         [v \in UNION {DOMAIN said[t][s] : t \in holding(s)} |->
                            said[Max({t \in holding(s) : v \in DOMAIN said[t][s]})][s][v]]]
  <2>1. DOMAIN value = {} /\ value = [x \in DOMAIN value |-> value[x]]
    OBVIOUS
  <2>2. value = <<>>
    <3> HIDE DEF value
    <3> QED BY <2>1, <1>4
  <2> QED BY <2>2 DEF CachesFit
<1> QED BY <1>1, <1>2, <1>3, <1>5, <1>6 DEF Fits, RuleFits, Rules, ListRules

LEMMA RuleExtends ==
  ASSUME NEW rule \in Rules, NEW said, NEW t, Below(said, t), NEW lower, Fits(rule, said, lower),
         NEW higher, SaysFit(rule, higher)
  PROVE  Fits(rule, Extended(said, t, higher), ApplyMerge(rule, lower, higher))
<1> DEFINE new == Extended(said, t, higher)
           value == ApplyMerge(rule, lower, higher)
<1>1. CASE rule = "scalar-override"
  <2>1. DOMAIN new = DOMAIN said \union {t} /\ new[t] = higher
    BY DEF Extended
  <2>2. Max(DOMAIN new) = t
    <3>1. DOMAIN said \in SUBSET (1..3) /\ t \in 1..3 /\ \A x \in DOMAIN said : x < t
      BY DEF Below
    <3> HIDE DEF new
    <3> QED BY <2>1, <3>1, ExtendedMax
  <2>3. value = higher
    BY <1>1 DEF ApplyMerge
  <2>4. value = new[Max(DOMAIN new)]
    BY <2>1, <2>2, <2>3
  <2> HIDE DEF new, value
  <2>5. Fits(rule, new, value)
    BY <1>1, <2>4 DEF Fits, RuleFits, ListRules
  <2> QED BY <2>5 DEF new, value
<1>2. CASE rule = "list-union-by-string"
  <2>1. StringsFit(said, lower) /\ IsList(lower) /\ IsList(higher)
    BY <1>2 DEF Fits, RuleFits, ListRules, SaysFit, IsList
  <2>2. value = MergeStringList(lower, higher)
    BY <1>2 DEF ApplyMerge
  <2>3. IsList(value) /\ StringsFit(new, value)
    BY <2>1, <2>2, StringsExtend
  <2> HIDE DEF new, value
  <2>4. Fits(rule, new, value)
    BY <1>2, <2>3 DEF Fits, RuleFits, ListRules
  <2> QED BY <2>4 DEF new, value
<1>3. CASE rule \in {"list-union-by-key-name", "list-union-by-key-command"}
  <2>1. KeyedFit(said, lower) /\ IsList(lower) /\ IsList(higher)
    BY <1>3 DEF Fits, RuleFits, ListRules, SaysFit, IsList
  <2>2. value = MergeKeyedList(lower, higher)
    BY <1>3 DEF ApplyMerge
  <2>3. IsList(value) /\ KeyedFit(new, value)
    BY <2>1, <2>2, KeyedExtend
  <2> HIDE DEF new, value
  <2>4. Fits(rule, new, value)
    BY <1>3, <2>3 DEF Fits, RuleFits, ListRules
  <2> QED BY <2>4 DEF new, value
<1>4. CASE rule = "merge-role-map"
  <2>1. RolesFit(said, lower)
    BY <1>4 DEF Fits, RuleFits
  <2>2. value = MergeRoleMap(lower, higher)
    BY <1>4 DEF ApplyMerge
  <2>3. RolesFit(new, value)
    BY <2>1, <2>2, RolesExtend
  <2> HIDE DEF new, value
  <2>4. Fits(rule, new, value)
    BY <1>4, <2>3 DEF Fits, RuleFits, ListRules
  <2> QED BY <2>4 DEF new, value
<1>5. CASE rule = "deep-merge-cache-env"
  <2>1. CachesFit(said, lower) /\ SaysFit("deep-merge-cache-env", higher)
    BY <1>5 DEF Fits, RuleFits
  <2>2. value = DeepMergeCacheEnv(lower, higher)
    BY <1>5 DEF ApplyMerge
  <2>3. CachesFit(new, value)
    BY <2>1, <2>2, CachesExtend
  <2> HIDE DEF new, value
  <2>4. Fits(rule, new, value)
    BY <1>5, <2>3 DEF Fits, RuleFits, ListRules
  <2> QED BY <2>4 DEF new, value
<1> QED BY <1>1, <1>2, <1>3, <1>4, <1>5 DEF Rules, ListRules

(* The tiers up to t that discard, those that count, and what these say.   *)
CutsTo(overlays, point, t) == {x \in 1..t : DropUpstream(overlays[OverlayTiers[x]], point)}
VotersTo(overlays, point, t) ==
  {x \in 1..t : /\ ReadField(overlays[OverlayTiers[x]], point).says # <<>>
               /\ \A c \in CutsTo(overlays, point, t) : c <= x}
SaidTo(overlays, point, t) ==
  [x \in VotersTo(overlays, point, t) |-> ReadField(overlays[OverlayTiers[x]], point).says[1]]

ValueOf(acc) == IF acc = <<>> THEN <<>> ELSE acc[1]

(* outcome is what the tiers up to t have come to.                           *)
Reached(outcome, overlays, point, t) ==
  LET rule == SPLICE_POINTS[point]
      voters == VotersTo(overlays, point, t)
  IN
  /\ outcome.discarded \in BOOLEAN /\ outcome.defined \in BOOLEAN
  /\ outcome.discarded <=> CutsTo(overlays, point, t) # {}
  /\ outcome.defined <=> voters # {}
  /\ outcome.acc = <<>> <=> voters = {} /\ rule = "scalar-override"
  /\ Fits(rule, SaidTo(overlays, point, t), ValueOf(outcome.acc))

LEMMA RulesAreRules ==
  ASSUME NEW point \in DOMAIN SPLICE_POINTS
  PROVE  SPLICE_POINTS[point] \in Rules
BY DEF SPLICE_POINTS, Rules, ListRules, StringLists, KeyedLists, Scalars, CacheEnvs, RoleMaps

LEMMA BareIsNothing ==
  ASSUME NEW rule
  PROVE  /\ ValueOf(BareDefault(rule)) = <<>>
         /\ BareDefault(rule) = <<>> <=> rule = "scalar-override"
BY DEF ValueOf, BareDefault

LEMMA ContributeReaches ==
  ASSUME NEW overlays, NEW point \in DOMAIN SPLICE_POINTS, NEW t \in 1..3, NEW below,
         FieldsFit(overlays[OverlayTiers[t]]), Reached(below, overlays, point, t - 1)
  PROVE  Reached(Contribute(below, overlays[OverlayTiers[t]], point), overlays, point, t)
<1> DEFINE rule == SPLICE_POINTS[point]
           own == overlays[OverlayTiers[t]]
           says == ReadField(own, point).says
           dropped == [acc |-> BareDefault(rule), defined |-> FALSE, discarded |-> TRUE]
           base == IF DropUpstream(own, point) THEN dropped ELSE below
           cuts(n) == CutsTo(overlays, point, n)
           voters(n) == VotersTo(overlays, point, n)
           said(n) == SaidTo(overlays, point, n)
           counted == IF DropUpstream(own, point) THEN {} ELSE voters(t - 1)
           countedSaid == [x \in counted |-> ReadField(overlays[OverlayTiers[x]], point).says[1]]
<1>1. rule \in Rules
  BY RulesAreRules
<1>2. 1..t = (1..(t - 1)) \union {t} /\ t - 1 \in 0..2 /\ \A x \in 1..(t - 1) : x < t /\ x \in 1..3
  OBVIOUS
<1>3. cuts(t) = cuts(t - 1) \union (IF DropUpstream(own, point) THEN {t} ELSE {})
  BY <1>2 DEF CutsTo
<1>4. cuts(t - 1) \subseteq 1..(t - 1) /\ voters(t - 1) \subseteq 1..(t - 1)
  BY DEF CutsTo, VotersTo
<1>5. voters(t) = counted \union (IF says # <<>> THEN {t} ELSE {})
  <2>1. \A x \in 1..(t - 1) : x \in voters(t) <=> x \in counted
    <3>1. CASE DropUpstream(own, point)
      <4>1. t \in cuts(t) /\ \A x \in 1..(t - 1) : ~(t <= x)
        BY <1>2, <1>3, <3>1
      <4>2. \A x \in 1..(t - 1) : x \notin voters(t)
        BY <4>1 DEF VotersTo
      <4> QED BY <4>2, <3>1
    <3>2. CASE ~DropUpstream(own, point)
      <4>1. cuts(t) = cuts(t - 1)
        BY <1>3, <3>2
      <4> QED BY <4>1, <3>2, <1>2 DEF VotersTo
    <3> QED BY <3>1, <3>2
  <2>2. t \in voters(t) <=> says # <<>>
    <3>1. \A c \in cuts(t) : c <= t
      BY <1>2, <1>3, <1>4
    <3> QED BY <3>1, <1>2 DEF VotersTo
  <2>3. voters(t) \subseteq 1..t /\ counted \subseteq 1..(t - 1)
    BY <1>4 DEF VotersTo
  <2> HIDE DEF voters, counted, says
  <2> QED BY <1>2, <2>1, <2>2, <2>3
<1>6. /\ base.discarded \in BOOLEAN /\ base.defined \in BOOLEAN
      /\ base.discarded <=> cuts(t) # {}
      /\ base.defined <=> counted # {}
      /\ base.acc = <<>> <=> counted = {} /\ rule = "scalar-override"
      /\ Fits(rule, countedSaid, ValueOf(base.acc))
  <2>1. CASE DropUpstream(own, point)
    <3>1. base = dropped /\ counted = {} /\ t \in cuts(t)
      BY <2>1, <1>3
    <3>2. ValueOf(base.acc) = <<>> /\ (base.acc = <<>> <=> rule = "scalar-override")
      BY <3>1, BareIsNothing
    <3>3. DOMAIN countedSaid = {}
      BY <3>1
    <3>4. base.discarded = TRUE /\ base.defined = FALSE
      BY <3>1
    <3> HIDE DEF countedSaid, rule, base, counted, cuts
    <3>5. Fits(rule, countedSaid, <<>>)
      BY <1>1, <3>3, NothingFits
    <3>6. Fits(rule, countedSaid, ValueOf(base.acc))
      BY <3>2, <3>5
    <3> QED BY <3>1, <3>2, <3>4, <3>6
  <2>2. CASE ~DropUpstream(own, point)
    <3>1. base = below /\ counted = voters(t - 1) /\ cuts(t) = cuts(t - 1)
      BY <2>2, <1>3
    <3>2. countedSaid = said(t - 1)
      BY <3>1 DEF SaidTo
    <3> HIDE DEF base, counted, countedSaid
    <3> QED BY <3>1, <3>2 DEF Reached
  <2> QED BY <2>1, <2>2
<1>7. DOMAIN countedSaid = counted /\ Below(countedSaid, t)
  <2>1. counted \subseteq 1..(t - 1)
    BY <1>4
  <2> QED BY <2>1, <1>2 DEF Below
<1> DEFINE next == Contribute(below, own, point)
<1>8. next = IF says = <<>> THEN base
             ELSE [acc |-> <<ApplyMerge(rule, ValueOf(base.acc), says[1])>>,
                   defined |-> TRUE, discarded |-> base.discarded]
  BY DEF Contribute, ValueOf
<1>9. CASE says = <<>>
  <2>1. voters(t) = counted /\ next = base
    BY <1>5, <1>8, <1>9
  <2>2. said(t) = countedSaid
    BY <2>1 DEF SaidTo
  <2> HIDE DEF next, base, counted, countedSaid, voters, cuts, said
  <2>3. Reached(next, overlays, point, t)
    BY <1>6, <2>1, <2>2 DEF Reached, voters, cuts, said
  <2> QED BY <2>3 DEF next
<1>10. CASE says # <<>>
  <2>1. voters(t) = counted \union {t}
    BY <1>5, <1>10
  <2>2. said(t) = Extended(countedSaid, t, says[1])
    <3>1. t \notin counted
      BY <1>2, <1>4
    <3> QED BY <2>1, <3>1, <1>7 DEF SaidTo, Extended
  <2>3. SaysFit(rule, says[1])
    BY <1>10 DEF FieldsFit
  <2> DEFINE value == ApplyMerge(rule, ValueOf(base.acc), says[1])
  <2>4. Fits(rule, said(t), value)
    <3> HIDE DEF rule, countedSaid, base, says, said
    <3> QED BY <1>1, <1>6, <1>7, <2>2, <2>3, RuleExtends
  <2> HIDE DEF value
  <2>5. next = [acc |-> <<value>>, defined |-> TRUE, discarded |-> base.discarded]
    BY <1>8, <1>10 DEF value
  <2>6. next.acc = <<value>> /\ next.acc # <<>> /\ ValueOf(next.acc) = value
    BY <2>5 DEF ValueOf
  <2>7. next.defined = TRUE /\ next.discarded = base.discarded
    BY <2>5
  <2> HIDE DEF next, base, counted, countedSaid, voters, cuts, said
  <2>8. Reached(next, overlays, point, t)
    BY <1>6, <2>1, <2>4, <2>6, <2>7 DEF Reached, voters, cuts, said
  <2> QED BY <2>8 DEF next
<1> QED BY <1>9, <1>10

LEMMA PointReached ==
  ASSUME NEW overlays, \A tier \in Range(OverlayTiers) : FieldsFit(overlays[tier]),
         NEW point \in DOMAIN SPLICE_POINTS
  PROVE  Reached(ResolveSplicePoint(overlays, point), overlays, point, 3)
<1> DEFINE start == [acc |-> BareDefault(SPLICE_POINTS[point]), defined |-> FALSE, discarded |-> FALSE]
           tier(t, below) == Contribute(below, overlays[OverlayTiers[t]], point)
<1>1. \A t \in 1..3 : FieldsFit(overlays[OverlayTiers[t]])
  <2>1. \A t \in 1..3 : OverlayTiers[t] \in Range(OverlayTiers)
    BY DEF OverlayTiers, Range
  <2> QED BY <2>1
<1>2. Reached(start, overlays, point, 0)
  <2>1. CutsTo(overlays, point, 0) = {} /\ VotersTo(overlays, point, 0) = {}
    BY DEF CutsTo, VotersTo
  <2>2. DOMAIN SaidTo(overlays, point, 0) = {}
    BY <2>1 DEF SaidTo
  <2>3. Fits(SPLICE_POINTS[point], SaidTo(overlays, point, 0), <<>>)
    BY <2>2, RulesAreRules, NothingFits
  <2>4. /\ ValueOf(start.acc) = <<>> /\ (start.acc = <<>> <=> SPLICE_POINTS[point] = "scalar-override")
        /\ start.defined = FALSE /\ start.discarded = FALSE
    BY BareIsNothing
  <2> HIDE DEF start
  <2> QED BY <2>1, <2>3, <2>4 DEF Reached
<1>3. \A t \in 1..3 : \A below :
        Reached(below, overlays, point, t - 1) => Reached(tier(t, below), overlays, point, t)
  BY <1>1, ContributeReaches
<1>4. Reached(tier(1, start), overlays, point, 1)
  <2>1. 1 - 1 = 0 /\ 1 \in 1..3
    OBVIOUS
  <2> HIDE DEF tier, start
  <2> QED BY <1>2, <1>3, <2>1
<1>5. Reached(tier(2, tier(1, start)), overlays, point, 2)
  <2>1. 2 - 1 = 1 /\ 2 \in 1..3
    OBVIOUS
  <2> HIDE DEF tier, start
  <2> QED BY <1>3, <1>4, <2>1
<1>6. Reached(tier(3, tier(2, tier(1, start))), overlays, point, 3)
  <2>1. 3 - 1 = 2 /\ 3 \in 1..3
    OBVIOUS
  <2> HIDE DEF tier, start
  <2> QED BY <1>3, <1>5, <2>1
<1>7. ResolveSplicePoint(overlays, point) = tier(3, tier(2, tier(1, start)))
  BY DEF ResolveSplicePoint
<1> QED BY <1>6, <1>7

LEMMA CascadeMadeByTier ==
  ASSUME NEW overlays, \A tier \in Range(OverlayTiers) : FieldsFit(overlays[tier]),
         NEW point \in DOMAIN SPLICE_POINTS
  PROVE  MadeByTier(overlays, point)
<1> DEFINE unknown == \E t \in 1..3, p \in DOMAIN SPLICE_POINTS :
                        ReadField(overlays[OverlayTiers[t]], p).form = "unknown"
           resolved == [p \in DOMAIN SPLICE_POINTS |-> ResolveSplicePoint(overlays, p)]
           said == SaidTo(overlays, point, 3)
           cut == CutsTo(overlays, point, 3) # {}
           result == CascadeOverlays(overlays)
           rule == SPLICE_POINTS[point]
<1>1. unknown <=> UnknownWrappers(overlays)
  <2>1. Range(OverlayTiers) = {OverlayTiers[t] : t \in 1..3}
    BY DEF OverlayTiers, Range
  <2> QED BY <2>1 DEF UnknownWrappers
<1>2. CASE unknown
  <2>1. result.issues = TRUE /\ result.merged = << >>
    BY <1>1, <1>2 DEF CascadeOverlays
  <2> QED BY <1>2, <2>1 DEF MadeByTier
<1>3. CASE ~unknown
  <2>1. result = MergedFrom(resolved)
    BY <1>1, <1>3 DEF CascadeOverlays
  <2>2. Reached(resolved[point], overlays, point, 3)
    BY PointReached
  <2>3. DOMAIN said = VotersTo(overlays, point, 3)
    BY DEF SaidTo
  <2>4. /\ resolved[point].discarded <=> cut
        /\ resolved[point].defined <=> DOMAIN said # {}
        /\ resolved[point].acc = <<>> <=> DOMAIN said = {} /\ rule = "scalar-override"
        /\ Fits(rule, said, ValueOf(resolved[point].acc))
    <3> HIDE DEF resolved
    <3> QED BY <2>2, <2>3 DEF Reached
  <2>5. /\ point \in DOMAIN resolved
        /\ point \in result.discarded <=> resolved[point].discarded
        /\ point \in DOMAIN result.merged <=>
             resolved[point].acc # <<>> /\ (resolved[point].defined \/ resolved[point].discarded)
        /\ point \in DOMAIN result.merged => result.merged[point] = resolved[point].acc[1]
    <3>1. point \in DOMAIN resolved
      OBVIOUS
    <3> HIDE DEF resolved, result
    <3> QED BY <3>1, <2>1 DEF MergedFrom
  <2>6. point \in result.discarded <=> cut
    BY <2>4, <2>5
  <2>7. point \in DOMAIN result.merged <=> DOMAIN said # {} \/ (rule # "scalar-override" /\ cut)
    BY <2>4, <2>5
  <2>8. point \in DOMAIN result.merged => RuleFits(rule, said, result.merged[point])
    <3> SUFFICES ASSUME point \in DOMAIN result.merged PROVE RuleFits(rule, said, result.merged[point])
      OBVIOUS
    <3>1. result.merged[point] = ValueOf(resolved[point].acc)
      BY <2>5 DEF ValueOf
    <3>2. rule # "scalar-override" \/ DOMAIN said # {}
      BY <2>7
    <3> HIDE DEF result, resolved, said
    <3> QED BY <2>4, <3>1, <3>2 DEF Fits
  <2>9. MergeFits(point, said, cut, result)
    <3>1. cut \in BOOLEAN
      OBVIOUS
    <3> HIDE DEF result, resolved, said, cut
    <3>2. (point \in result.discarded) = cut
      BY <2>6, <3>1
    <3>3. (point \in DOMAIN result.merged) = (DOMAIN said # {} \/ (rule # "scalar-override" /\ cut))
      BY <2>7, <3>1
    <3> QED BY <2>8, <3>2, <3>3 DEF MergeFits
  <2> QED BY <1>3, <2>9 DEF MadeByTier, SaidTo, VotersTo, CutsTo, DropUpstream, BlockDiscards
<1> QED BY <1>2, <1>3

-------------------------------------------------------------------------------
(* Configurations composed without an error                                *)

(* What is loaded of an overlay has the shape of its schema.               *)
LEMMA LoadedFits ==
  ASSUME NEW world, WorldFits(world), NEW tier \in Range(OverlayTiers)
  PROVE  FieldsFit(Loaded(world)[tier])
<1>1. CASE world.overlays[tier].broken
  <2> DEFINE nothing == << >>
  <2>1. Loaded(world)[tier] = nothing
    BY <1>1 DEF Loaded
  <2>2. DOMAIN nothing = {}
    OBVIOUS
  <2> HIDE DEF nothing
  <2>3. \A point \in DOMAIN SPLICE_POINTS :
          ReadField(nothing, point) = NoField /\ BlockDiscards(nothing, point[1]) = FALSE
    BY <2>2 DEF ReadField, BlockDiscards
  <2>4. NoField.discards = FALSE /\ NoField.says = <<>>
    BY DEF NoField
  <2> QED BY <2>1, <2>3, <2>4 DEF FieldsFit
<1>2. CASE ~world.overlays[tier].broken
  BY <1>2 DEF Loaded, WorldFits
<1> QED BY <1>1, <1>2

(* What the merged overlay lists at a point of strings some tier lists.    *)
LEMMA MergedIsSaid ==
  ASSUME NEW overlays, \A tier \in Range(OverlayTiers) : FieldsFit(overlays[tier]),
         NEW point \in StringLists
  PROVE  \A x \in Range(MergedList(CascadeOverlays(overlays).merged, point)) :
           \E tier \in Range(OverlayTiers) : x \in ExtractNames(overlays[tier], point)
<1> DEFINE merged == CascadeOverlays(overlays).merged
           field(t) == ReadField(overlays[OverlayTiers[t]], point)
<1>1. point \in DOMAIN SPLICE_POINTS /\ SPLICE_POINTS[point] = "list-union-by-string"
  BY DEF SPLICE_POINTS, StringLists, KeyedLists, Scalars, CacheEnvs, RoleMaps
<1>2. Range(<<>>) = {} /\ DOMAIN << >> = {}
  BY DEF Range
<1>3. CASE point \notin DOMAIN merged
  BY <1>2, <1>3 DEF MergedList
<1>4. CASE point \in DOMAIN merged
  <2>1. MadeByTier(overlays, point)
    BY <1>1, CascadeMadeByTier
  <2>2. \A t \in 1..3 : OverlayTiers[t] \in Range(OverlayTiers)
    BY DEF OverlayTiers, Range
  <2>3. PICK voters \in SUBSET (1..3) :
          /\ \A t \in voters : field(t).says # <<>>
          /\ StringsFit([t \in voters |-> field(t).says[1]], merged[point])
    <3>1. ~ \E t \in 1..3, p \in DOMAIN SPLICE_POINTS :
              ReadField(overlays[OverlayTiers[t]], p).form = "unknown"
      BY <2>1, <1>2, <1>4 DEF MadeByTier
    <3>2. PICK voters \in SUBSET (1..3) : \E cut \in BOOLEAN :
            /\ \A t \in voters : field(t).says # <<>>
            /\ MergeFits(point, [t \in voters |-> field(t).says[1]], cut, CascadeOverlays(overlays))
      BY <2>1, <3>1 DEF MadeByTier
    <3>3. RuleFits("list-union-by-string", [t \in voters |-> field(t).says[1]], merged[point])
      BY <1>1, <1>4, <3>2 DEF MergeFits
    <3> QED BY <3>2, <3>3 DEF RuleFits
  <2> DEFINE said == [t \in voters |-> field(t).says[1]]
  <2>5. Range(merged[point]) = UNION {Range(said[t]) : t \in DOMAIN said}
    BY <2>3 DEF StringsFit
  <2>6. \A t \in voters : Range(said[t]) = ExtractNames(overlays[OverlayTiers[t]], point)
    BY <2>3 DEF ExtractNames
  <2>7. MergedList(merged, point) = merged[point]
    BY <1>4 DEF MergedList
  <2>8. DOMAIN said = voters
    OBVIOUS
  <2>9. Range(MergedList(CascadeOverlays(overlays).merged, point)) = UNION {Range(said[t]) : t \in voters}
    BY <2>5, <2>7, <2>8
  <2> HIDE DEF merged, said
  <2>10. \A x \in UNION {Range(said[t]) : t \in voters} :
          \E tier \in Range(OverlayTiers) : x \in ExtractNames(overlays[tier], point)
    BY <2>2, <2>6
  <2> HIDE DEF field
  <2> QED BY <2>9, <2>10
<1> QED BY <1>3, <1>4
(* Of the files with a name one is resolved, whatever its place.           *)
LEMMA NamedIsResolved ==
  ASSUME NEW files, \A f \in files : f.place \in Range(Places), NEW name \in Names(files)
  PROVE  ResolveStackFile(files, name) # {}
<1> DEFINE has == {i \in DOMAIN Places : FileAt(files, Places[i], name) # {}}
<1>1. DOMAIN Places = 1..4 /\ Range(Places) = {Places[i] : i \in 1..4}
  BY DEF Places, Range
<1>2. PICK f \in files : f.name = name
  BY DEF Names
<1>3. PICK i \in 1..4 : f.place = Places[i]
  BY <1>1
<1>4. f \in FileAt(files, Places[i], name)
  BY <1>2, <1>3 DEF FileAt
<1>5. has \in SUBSET Nat /\ has # {}
  BY <1>1, <1>4
<1>6. Min(has) \in has
  <2> HIDE DEF has
  <2> QED BY <1>5, MinIn
<1>7. FileAt(files, Places[Min(has)], name) # {}
  BY <1>6
<1>8. ResolveStackFile(files, name) = FileAt(files, Places[Min(has)], name)
  BY <1>5 DEF ResolveStackFile
<1> QED BY <1>7, <1>8

LEMMA ResolvedIsThere ==
  ASSUME NEW files, NEW name
  PROVE  ResolveStackFile(files, name) \subseteq files
<1>1. \A place : FileAt(files, place, name) \subseteq files
  BY DEF FileAt
<1> QED BY <1>1 DEF ResolveStackFile

(* Only a stack that has a file is active; an override that is not reported*)
(* is in force, and one that names nothing makes no difference.            *)
LEMMA DetectionFits ==
  ASSUME NEW files, NEW fixtureFirst, NEW override
  PROVE  LET detection == DetectActiveStacks(files, fixtureFirst, override) IN
         /\ detection.active \subseteq Names(files)
         /\ Range(override) # {} /\ detection.issues = {} => detection.active = Range(override)
         /\ Range(override) = {} => detection = DetectActiveStacks(files, fixtureFirst, <<>>)
         /\ Range(override) = {} /\ detection.active = {} => ~StackExists(files, Generic)
<1> DEFINE detection == DetectActiveStacks(files, fixtureFirst, override)
           found == {name \in Names(files) : \E f \in IndexBuiltin(files, fixtureFirst, name) :
                                                DetectionOf(f) = "matched"}
<1>1. \A name : StackExists(files, name) => name \in Names(files)
  BY DEF StackExists, Names
<1>2. CASE Range(override) # {}
  <2>1. /\ detection.active = {name \in Range(override) : StackExists(files, name)}
        /\ detection.issues =
             {<<"MissingFile", name>> : name \in {n \in Range(override) : ~StackExists(files, n)}}
    BY <1>2 DEF DetectActiveStacks
  <2> HIDE DEF detection
  <2> QED BY <1>1, <1>2, <2>1 DEF detection
<1>3. CASE Range(override) = {}
  <2>1. Range(<<>>) = {}
    BY DEF Range
  <2>2. detection = DetectActiveStacks(files, fixtureFirst, <<>>)
    BY <1>3, <2>1 DEF DetectActiveStacks
  <2>3. detection.active = IF found = {} /\ StackExists(files, Generic) THEN {Generic} ELSE found
    BY <1>3 DEF DetectActiveStacks
  <2>4. found \subseteq Names(files)
    OBVIOUS
  <2>5. detection.active \subseteq Names(files)
    <3> HIDE DEF found, detection
    <3> QED BY <1>1, <2>3, <2>4
  <2>6. detection.active = {} => ~StackExists(files, Generic)
    <3> HIDE DEF found, detection
    <3> QED BY <2>3
  <2> HIDE DEF detection
  <2> QED BY <1>3, <2>2, <2>5, <2>6 DEF detection
<1> QED BY <1>2, <1>3

(* A set that is overridden by a smaller one leaves something to report.   *)
LEMMA ShrinkageReported ==
  ASSUME NEW active, NEW detected, IsFiniteSet(active), active # {},
         Cardinality(active) < Cardinality(detected)
  PROVE  ShrinkageWarning(active, detected) # {}
<1>1. ~ detected \subseteq active
  <2> SUFFICES ASSUME detected \subseteq active PROVE FALSE
    OBVIOUS
  <2>1. Cardinality(detected) <= Cardinality(active) /\ IsFiniteSet(detected)
    BY FS_Subset
  <2>2. Cardinality(detected) \in Nat /\ Cardinality(active) \in Nat
    BY <2>1, FS_CardinalityType
  <2> QED BY <2>1, <2>2
<1>2. detected \ active # {}
  BY <1>1
<1> QED BY <1>2 DEF ShrinkageWarning

(* What a world is like of which no check reports an error.                *)
Checked(world) ==
  /\ \A f \in world.files : f.parses /\ f.versioned /\ ~f.banner
  /\ \A f, g \in world.files :
       \A v \in DOMAIN f.cacheEnv \intersect DOMAIN g.cacheEnv : f.cacheEnv[v] = g.cacheEnv[v]
  /\ \A point \in ForbiddenAtUserTierPoints : ReadField(Loaded(world)["user"], point) = NoField
  /\ OverlayNames(world, ContextPoints) \subseteq world.inside

LEMMA NoErrorChecked ==
  ASSUME NEW world, ValidateAll(world).errors = {}
  PROVE  Checked(world)
<1>1. /\ CheckUserOverlayForbiddenFields(world) = {} /\ CheckStackParses(world) = {}
      /\ CheckStackVersion(world) = {} /\ CheckCacheEnvNoConflict(world) = {}
      /\ CheckPathEscape(world) = {} /\ CheckStackNoDraftBanner(world) = {}
  BY DEF ValidateAll
<1>2. \A kind, S : ReportOn(kind, S) = {} => S = {}
  BY DEF ReportOn
<1>3. \A f \in world.files : f.parses
  <2>1. world.files \ Parsed(world) = {}
    BY <1>1, <1>2 DEF CheckStackParses
  <2> QED BY <2>1 DEF Parsed
<1>4. Parsed(world) = world.files
  BY <1>3 DEF Parsed
<1>5. \A f \in world.files : f.versioned
  <2>1. {f \in Parsed(world) : ~f.versioned} = {}
    BY <1>1, <1>2 DEF CheckStackVersion
  <2> QED BY <1>4, <2>1
<1>6. \A f \in world.files : ~f.banner
  <2>1. {f \in Parsed(world) : f.banner} = {}
    BY <1>1, <1>2 DEF CheckStackNoDraftBanner
  <2> QED BY <1>4, <2>1
<1>7. ASSUME NEW f \in world.files, NEW g \in world.files,
             NEW v \in DOMAIN f.cacheEnv \intersect DOMAIN g.cacheEnv
      PROVE  f.cacheEnv[v] = g.cacheEnv[v]
  <2> DEFINE declares == {h \in world.files : h.parses /\ v \in DOMAIN h.cacheEnv}
  <2>1. f \in declares /\ g \in declares
    BY <1>3, <1>7
  <2>2. v \in UNION {DOMAIN h.cacheEnv : h \in world.files}
    BY <1>7
  <2>3. ~ \E h, k \in declares : h.cacheEnv[v] # k.cacheEnv[v]
    <3> DEFINE differs(w) == \E h, k \in {e \in world.files : e.parses /\ w \in DOMAIN e.cacheEnv} :
                               h.cacheEnv[w] # k.cacheEnv[w]
               variables == UNION {DOMAIN h.cacheEnv : h \in world.files}
    <3>1. CheckCacheEnvNoConflict(world) =
            {<<"InvariantViolation", w>> : w \in {w \in variables : differs(w)}}
      BY DEF CheckCacheEnvNoConflict
    <3>2. ~ differs(v)
      <4> HIDE DEF differs, variables
      <4>1. v \in variables
        BY <2>2 DEF variables
      <4> QED BY <1>1, <3>1, <4>1
    <3> QED BY <3>2
  <2> QED BY <2>1, <2>3
<1>8. ASSUME NEW point \in ForbiddenAtUserTierPoints
      PROVE  ReadField(Loaded(world)["user"], point) = NoField
  <2> DEFINE user == Loaded(world)["user"]
  <2>1. ~ (point[1] \in DOMAIN user /\ point[2] \in DOMAIN user[point[1]].fields)
    BY <1>1, <1>8 DEF CheckUserOverlayForbiddenFields
  <2> QED BY <2>1 DEF ReadField
<1>9. OverlayNames(world, ContextPoints) \subseteq world.inside
  BY <1>1 DEF CheckPathEscape
<1> QED BY <1>3, <1>5, <1>6, <1>7, <1>8, <1>9 DEF Checked

(* Overlays and stack files in any number that compose without an error    *)
(* make a configuration that can be worked with.                           *)
LEMMA ComposedIsUsable ==
  ASSUME NEW world, WorldFits(world), ComposeResolvedConfig(world).errors = {}
  PROVE  Usable(world, ComposeResolvedConfig(world))
<1> DEFINE cascade == CascadeOverlays(Loaded(world))
           named == MergedList(cascade.merged, Override)
           run(names) == DetectActiveStacks(world.files, world.fixtureFirst, names)
           validation == ValidateAll(world)
           config == ComposeResolvedConfig(world)
           override == Range(named)
           detected == run(<<>>).active
<1>1. /\ config.overlay = cascade.merged /\ config.active = run(named).active
      /\ config.byName = [name \in {n \in config.active : ResolveStackFile(world.files, n) # {}} |->
                            CHOOSE f \in ResolveStackFile(world.files, name) : TRUE]
      /\ config.context = {<<path, path \in world.existing>> : path \in
                             UNION {Range(MergedList(cascade.merged, point)) : point \in ContextPoints}}
      /\ config.warnings = validation.warnings /\ config.suppressed = validation.suppressed
      /\ validation.errors = {} /\ run(named).issues = {}
  BY DEF ComposeResolvedConfig, Composed
<1>2. Checked(world)
  BY <1>1, NoErrorChecked
<1>3. \A tier \in Range(OverlayTiers) : FieldsFit(Loaded(world)[tier])
  BY LoadedFits
<1>4. \A point \in ForbiddenAtUserTierPoints \intersect StringLists :
        \A x \in Range(MergedList(cascade.merged, point)) :
          \E tier \in {"default", "project"} : x \in ExtractNames(Loaded(world)[tier], point)
  <2> SUFFICES ASSUME NEW point \in ForbiddenAtUserTierPoints, point \in StringLists,
                      NEW x \in Range(MergedList(cascade.merged, point))
               PROVE  \E tier \in {"default", "project"} : x \in ExtractNames(Loaded(world)[tier], point)
    OBVIOUS
  <2>1. PICK tier \in Range(OverlayTiers) : x \in ExtractNames(Loaded(world)[tier], point)
    BY <1>3, MergedIsSaid
  <2>2. ExtractNames(Loaded(world)["user"], point) = {}
    BY <1>2 DEF Checked, ExtractNames, NoField
  <2>3. tier \in {"default", "user", "project"}
    BY DEF OverlayTiers, Range
  <2> QED BY <2>1, <2>2, <2>3
<1>5. /\ Override \in ForbiddenAtUserTierPoints \intersect StringLists
      /\ ContextPoints \subseteq ForbiddenAtUserTierPoints \intersect StringLists
  BY DEF Override, ContextPoints, ForbiddenAtUserTierPoints, StringLists
<1>6. override # {} => config.active = override
  BY <1>1, DetectionFits
<1>7. override \subseteq ExtractNames(Loaded(world)["default"], Override)
                            \union ExtractNames(Loaded(world)["project"], Override)
  <2> HIDE DEF cascade
  <2> QED BY <1>4, <1>5
<1>8. ASSUME NEW name \in config.active
      PROVE  name \in DOMAIN config.byName /\ config.byName[name] \in world.files
  <2>1. name \in Names(world.files)
    BY <1>1, <1>8, DetectionFits
  <2>2. ResolveStackFile(world.files, name) # {} /\ ResolveStackFile(world.files, name) \subseteq world.files
    BY <2>1, NamedIsResolved, ResolvedIsThere DEF WorldFits
  <2> HIDE DEF config
  <2> QED BY <1>1, <1>8, <2>2
<1>9. ASSUME NEW row \in config.context
      PROVE  row[1] \in world.inside /\ (row[2] \/ <<"InvariantViolation", row[1]>> \in config.warnings)
  <2>0. PICK path \in UNION {Range(MergedList(cascade.merged, point)) : point \in ContextPoints} :
          row = <<path, path \in world.existing>>
    <3> HIDE DEF config, cascade
    <3> QED BY <1>1, <1>9
  <2>1. PICK point \in ContextPoints : path \in Range(MergedList(cascade.merged, point))
    <3> HIDE DEF cascade
    <3> QED BY <2>0
  <2>2. path \in OverlayNames(world, ContextPoints)
    <3>1. PICK tier \in {"default", "project"} : path \in ExtractNames(Loaded(world)[tier], point)
      BY <1>4, <1>5, <2>1
    <3>2. tier \in Range(OverlayTiers)
      BY DEF OverlayTiers, Range
    <3> QED BY <2>1, <3>1, <3>2 DEF OverlayNames
  <2>3. path \in world.inside
    BY <1>2, <2>2 DEF Checked
  <2>4. path \notin world.existing => <<"InvariantViolation", path>> \in config.warnings
    <3>1. config.warnings = CheckAdditionalContextPathResolves(world)
      BY <1>1 DEF ValidateAll
    <3> HIDE DEF config
    <3> QED BY <2>2, <2>3, <3>1 DEF CheckAdditionalContextPathResolves
  <2> HIDE DEF config
  <2> QED BY <2>0, <2>3, <2>4
<1>10. Cardinality(config.active) < Cardinality(detected) => config.suppressed # {}
  <2> SUFFICES ASSUME Cardinality(config.active) < Cardinality(detected) PROVE config.suppressed # {}
    OBVIOUS
  <2>1. IsFiniteSet(config.active) /\ IsFiniteSet(detected)
    <3>1. IsFiniteSet(Names(world.files))
      <4> DEFINE nameOf == [f \in world.files |-> f.name]
      <4>1. nameOf \in [world.files -> Names(world.files)]
        BY DEF Names
      <4>2. nameOf \in Surjection(world.files, Names(world.files))
        BY <4>1 DEF Surjection, Names
      <4> HIDE DEF nameOf
      <4> QED BY <4>2, FS_Surjection DEF WorldFits
    <3>2. config.active \subseteq Names(world.files) /\ detected \subseteq Names(world.files)
      BY <1>1, DetectionFits
    <3> QED BY <3>1, <3>2, FS_Subset
  <2>2. override # {}
    <3> SUFFICES ASSUME override = {} PROVE FALSE
      OBVIOUS
    <3>1. config.active = detected
      BY <1>1, DetectionFits
    <3>2. Cardinality(detected) \in Nat
      BY <2>1, FS_CardinalityType
    <3> QED BY <3>1, <3>2
  <2>3. config.active # {}
    BY <1>6, <2>2
  <2>4. named # <<>>
    BY <2>2 DEF Range
  <2>5. config.suppressed = ShrinkageWarning(config.active, detected)
    BY <1>1, <2>4 DEF ValidateAll, SuppressedBy
  <2> QED BY <2>1, <2>3, <2>5, ShrinkageReported
<1>11. config.active = {} => ~StackExists(world.files, Generic)
  <2> SUFFICES ASSUME config.active = {} PROVE ~StackExists(world.files, Generic)
    OBVIOUS
  <2>1. override = {} /\ run(named).active = {}
    BY <1>1, <1>6
  <2> QED BY <2>1, DetectionFits
<1>12. \A name \in config.active :
         /\ name \in DOMAIN config.byName
         /\ config.byName[name].parses /\ config.byName[name].versioned /\ ~config.byName[name].banner
         /\ \A other \in config.active :
              \A v \in DOMAIN config.byName[name].cacheEnv \intersect DOMAIN config.byName[other].cacheEnv :
                config.byName[name].cacheEnv[v] = config.byName[other].cacheEnv[v]
  <2> HIDE DEF config
  <2> QED BY <1>2, <1>8 DEF Checked
<1>13. MergedList(config.overlay, Override) = named
  BY <1>1
<1> HIDE DEF config, cascade, named
<1> QED BY <1>6, <1>7, <1>9, <1>10, <1>11, <1>12, <1>13 DEF Usable, config

-------------------------------------------------------------------------------
(* The plan of the evaluator core *)

(* One list has the entries of the other, in another order.                *)
Rearranged(s, t) == \E f : Rearranges(f, DOMAIN s, s, DOMAIN t, t)

LEMMA RearrangedHolds ==
  ASSUME NEW s, NEW t, Rearranged(s, t)
  PROVE  ToSet(s) = ToSet(t)
BY DEF Rearranged, Rearranges, ToSet

LEMMA ReverseRearranges ==
  ASSUME NEW S, NEW s \in Seq(S)
  PROVE  Rearranged(s, Reverse(s)) /\ Reverse(s) \in Seq(S)
<1> DEFINE n == Len(s)
           t == [i \in 1..n |-> s[(n - i) + 1]]
           f == [i \in 1..n |-> (n - i) + 1]
<1>1. n \in Nat /\ DOMAIN s = 1..n /\ DOMAIN t = 1..n /\ t \in Seq(S)
  OBVIOUS
<1>2. \A i \in 1..n : f[i] \in 1..n /\ f[f[i]] = i /\ t[f[i]] = s[i]
  BY <1>1
<1>3. f \in [1..n -> 1..n]
  BY <1>1
<1> HIDE DEF f, t, n
<1>4. \A i, j \in 1..n : f[i] = f[j] => i = j
  BY <1>2
<1>5. \A i \in 1..n : \E j \in 1..n : f[j] = i
  BY <1>2
<1>6. Rearranges(f, DOMAIN s, s, DOMAIN t, t)
  BY <1>1, <1>2, <1>3, <1>4, <1>5 DEF Rearranges
<1>7. Reverse(s) = t
  BY DEF Reverse, t, n
<1> QED BY <1>1, <1>6, <1>7 DEF Rearranged

-----------------------------------------------------------------------------
(* localeSort *)

LEMMA LocaleSortHolds ==
  ASSUME NEW items \in Seq(Nat), NEW taken \in SUBSET Nat
  PROVE  /\ LocaleSort(items, taken) \in Seq(Nat)
         /\ ToSet(LocaleSort(items, taken)) = ToSet(items) \intersect taken
<1> DEFINE places == {i \in DOMAIN items : items[i] \in taken}
           R == {p \in taken \X taken : p[1] < p[2]}
           s == StableSort(items, places, R)
<1>1. DOMAIN items = 1..Len(items) /\ Len(items) \in Nat
  OBVIOUS
<1>2. places \in SUBSET Nat /\ IsFiniteSet(places)
  <2>1. IsFiniteSet(1..Len(items)) /\ places \subseteq 1..Len(items)
    BY <1>1, FS_Interval
  <2> QED BY <1>1, <2>1, FS_Subset
<1>3. StrictOrder(taken, R)
  BY NumbersOrdered
<1>4. \A p \in places : items[p] \in taken
  OBVIOUS
<1>4a. \A p \in places : p \in DOMAIN items
  OBVIOUS
<1>4b. \A p \in DOMAIN items : items[p] \in taken => p \in places
  OBVIOUS
<1> HIDE DEF places, R, s
<1>4c. Cardinality(places) \in Nat /\ HasEntries(s, items, places)
  BY <1>2, <1>3, <1>4, SortKeepsEntries DEF s
<1>5. /\ DOMAIN s = 1..Cardinality(places) /\ Cardinality(places) \in Nat
      /\ \A i \in DOMAIN s : \E p \in places : s[i] = items[p]
      /\ \A p \in places : \E i \in DOMAIN s : s[i] = items[p]
  BY <1>4c DEF HasEntries
<1>6. s = [i \in 1..Cardinality(places) |-> s[i]]
  BY <1>4c DEF HasEntries
<1>7. \A i \in DOMAIN s : s[i] \in Nat
  BY <1>4, <1>5
<1>8. s \in Seq(Nat)
  BY <1>5, <1>6, <1>7
<1>9. ToSet(s) = ToSet(items) \intersect taken
  <2>1. ASSUME NEW x \in ToSet(s) PROVE x \in ToSet(items) \intersect taken
    BY <1>4, <1>4a, <1>5 DEF ToSet
  <2>2. ASSUME NEW x \in ToSet(items) \intersect taken PROVE x \in ToSet(s)
    <3>1. PICK p \in DOMAIN items : x = items[p]
      BY DEF ToSet
    <3> QED BY <1>4b, <1>5, <3>1 DEF ToSet
  <2> QED BY <2>1, <2>2
<1> QED BY <1>8, <1>9 DEF LocaleSort, s, places, R

LEMMA LocaleSortForgetsOrder ==
  ASSUME NEW items \in Seq(Nat), NEW others, Rearranged(items, others), NEW taken \in SUBSET Nat,
         others \in Seq(Nat)
  PROVE  LocaleSort(items, taken) = LocaleSort(others, taken)
<1> DEFINE A == {i \in DOMAIN items : items[i] \in taken}
           B == {i \in DOMAIN others : others[i] \in taken}
           R == {p \in taken \X taken : p[1] < p[2]}
<1>1. PICK f : Rearranges(f, DOMAIN items, items, DOMAIN others, others)
  BY DEF Rearranged
<1> DEFINE g == [i \in A |-> f[i]]
<1>2. Rearranges(g, A, items, B, others)
  <2>1. g \in [A -> B] /\ \A x \in A : others[g[x]] = items[x]
    BY <1>1 DEF Rearranges
  <2>2. \A x, y \in A : g[x] = g[y] => x = y
    BY <1>1 DEF Rearranges
  <2>3. ASSUME NEW z \in B PROVE \E x \in A : g[x] = z
    <3>1. PICK x \in DOMAIN items : f[x] = z /\ others[z] = items[x]
      BY <1>1 DEF Rearranges
    <3>2. x \in A /\ g[x] = z
      BY <3>1
    <3> QED BY <3>2
  <2> HIDE DEF g, A, B
  <2> QED BY <2>1, <2>2, <2>3 DEF Rearranges
<1>3. A \in SUBSET Nat /\ B \in SUBSET Nat /\ IsFiniteSet(A)
  <2>1. DOMAIN items = 1..Len(items) /\ Len(items) \in Nat /\ DOMAIN others \subseteq Nat
    OBVIOUS
  <2>2. IsFiniteSet(1..Len(items)) /\ A \subseteq 1..Len(items)
    BY <2>1, FS_Interval
  <2> QED BY <2>1, <2>2, FS_Subset
<1>4. StrictOrder(taken, R) /\ \A x \in A : items[x] \in taken
  BY NumbersOrdered
<1> HIDE DEF A, B, R, g
<1>5. StableSort(others, B, R) = StableSort(items, A, R)
  BY <1>2, <1>3, <1>4, SortForgetsOrder
<1> QED BY <1>5 DEF LocaleSort, A, B, R

LEMMA FilterHolds ==
  ASSUME NEW candidates \in Seq(Nat), NEW patterns
  PROVE  /\ FilterByGlobs(candidates, patterns) \in Seq(Nat)
         /\ ToSet(FilterByGlobs(candidates, patterns)) = ToSet(candidates) \intersect UNION patterns
<1>1. ToSet(candidates) \subseteq Nat
  BY DEF ToSet
<1>2. ToSet(candidates) \intersect UNION patterns \in SUBSET Nat
  BY <1>1
<1> QED BY <1>2, LocaleSortHolds DEF FilterByGlobs

LEMMA FilterForgetsOrder ==
  ASSUME NEW candidates \in Seq(Nat), NEW others \in Seq(Nat), Rearranged(candidates, others),
         NEW patterns
  PROVE  FilterByGlobs(candidates, patterns) = FilterByGlobs(others, patterns)
<1>0. ToSet(candidates) = ToSet(others)
  BY RearrangedHolds
<1>1. ToSet(candidates) \subseteq Nat
  BY DEF ToSet
<1>2. ToSet(candidates) \intersect UNION patterns \in SUBSET Nat
  BY <1>1
<1> QED BY <1>0, <1>2, LocaleSortForgetsOrder DEF FilterByGlobs

-----------------------------------------------------------------------------
(* The plan of the same stacks and files in another order is the same one. *)
PlanInputRearranged(a, b) ==
  /\ Rearranged(a.stacks, b.stacks) /\ Rearranged(a.affected, b.affected)
  /\ Rearranged(a.files, b.files)
  /\ a.extensionOf = b.extensionOf /\ a.contents = b.contents

(* buildEvaluatorPlan forgets the order of what it is given: the same      *)
(* stacks, touched files and files of the worktree, rearranged in any way, *)
(* give one plan.                                                          *)
THEOREM PlanForgetsOrder ==
  ASSUME NEW a, NEW b, PlanInputRearranged(a, b),
         a.affected \in Seq(Nat), b.affected \in Seq(Nat), a.files \in Seq(Nat), b.files \in Seq(Nat)
  PROVE  PlanOf(a) = PlanOf(b)
<1>1. ToSet(a.stacks) = ToSet(b.stacks) /\ a.extensionOf = b.extensionOf /\ a.contents = b.contents
  BY RearrangedHolds DEF PlanInputRearranged
<1>2. \A patterns : FilterByGlobs(a.affected, patterns) = FilterByGlobs(b.affected, patterns)
  BY FilterForgetsOrder DEF PlanInputRearranged
<1>3. \A patterns : FilterByGlobs(a.files, patterns) = FilterByGlobs(b.files, patterns)
  BY FilterForgetsOrder DEF PlanInputRearranged
<1>4. \A stack, kind : RowsOfStack(stack, kind, a.affected, a.contents)
                         = RowsOfStack(stack, kind, b.affected, b.contents)
  BY <1>1, <1>2 DEF RowsOfStack
<1>5. \A stack : SecretsRows(stack, a.files, a.extensionOf) = SecretsRows(stack, b.files, b.extensionOf)
  BY <1>1, <1>3 DEF SecretsRows
<1>6. \A kind : InstantiateSurfaces(a.stacks, kind, a.affected, a.contents)
                  = InstantiateSurfaces(b.stacks, kind, b.affected, b.contents)
  BY <1>1, <1>4 DEF InstantiateSurfaces
<1>7. BuildSecretsScans(a.stacks, a.files, a.extensionOf)
        = BuildSecretsScans(b.stacks, b.files, b.extensionOf)
  BY <1>1, <1>5 DEF BuildSecretsScans
<1>8. \A kind : Declaring(a.stacks, kind) = Declaring(b.stacks, kind)
  BY <1>1 DEF Declaring
<1>9. BuildBuildTestLint(a.stacks) = BuildBuildTestLint(b.stacks)
  BY <1>8 DEF BuildBuildTestLint, FirstOf
<1> QED BY <1>1, <1>6, <1>7, <1>8, <1>9
        DEF PlanOf, BuildEvaluatorPlan, SecuritySurfacesInstantiated, DocumentationSurfacesInstantiated

-----------------------------------------------------------------------------
(* Rows *)

LEMMA FiniteImage ==
  ASSUME NEW S, IsFiniteSet(S), NEW f
  PROVE  IsFiniteSet({f[x] : x \in S})
<1> DEFINE T == {f[x] : x \in S}
           g == [x \in S |-> f[x]]
<1>1. g \in Surjection(S, T)
  BY DEF Surjection
<1> HIDE DEF g, T
<1>2. IsFiniteSet(T)
  BY <1>1, FS_Surjection
<1> QED BY <1>2 DEF T

LEMMA FiniteToSet ==
  ASSUME NEW S, NEW s \in Seq(S)
  PROVE  IsFiniteSet(ToSet(s)) /\ ToSet(s) \subseteq S /\ (ToSet(s) = {} <=> s = <<>>)
<1>1. DOMAIN s = 1..Len(s) /\ Len(s) \in Nat
  OBVIOUS
<1>2. IsFiniteSet(DOMAIN s)
  BY <1>1, FS_Interval
<1>3. IsFiniteSet({s[i] : i \in DOMAIN s})
  BY <1>2, FiniteImage
<1>4. ToSet(s) = {s[i] : i \in DOMAIN s}
  BY DEF ToSet
<1>5. ToSet(s) \subseteq S
  BY <1>4
<1>6. ToSet(s) = {} <=> s = <<>>
  <2>1. CASE Len(s) = 0
    <3>1. s = <<>> /\ DOMAIN s = {}
      BY <1>1, <2>1
    <3> QED BY <1>4, <3>1
  <2>2. CASE Len(s) > 0
    <3>1. s # <<>> /\ 1 \in DOMAIN s
      BY <1>1, <2>2
    <3> QED BY <1>4, <3>1
  <2> QED BY <1>1, <2>1, <2>2
<1> QED BY <1>3, <1>4, <1>5, <1>6

LEMMA AscendingHolds ==
  ASSUME NEW S \in SUBSET Nat, IsFiniteSet(S)
  PROVE  ToSet(Ascending(S)) = S /\ (S # {} <=> Ascending(S) # <<>>)
<1> DEFINE e == Ascending(S)
<1>1. Cardinality(S) \in Nat /\ IsAscending(e, S)
  BY AscendingInOrder
<1> HIDE DEF e
<1>2. ToSet(e) = S
  BY <1>1 DEF IsAscending, ToSet
<1>3. ToSet(<<>>) = {}
  BY DEF ToSet
<1>4. ASSUME S = {} PROVE e = <<>>
  BY <1>1, <1>4, FS_EmptySet DEF IsAscending
<1> QED BY <1>2, <1>3, <1>4 DEF e

Candidates(surface, touched) ==
  IF surface.scope = {} THEN touched ELSE FilterByGlobs(touched, surface.scope)
Hits(surface, touched, contents) ==
  KeywordHits(surface, ToSet(Candidates(surface, touched)), contents)
Matched(surface, touched, contents) ==
  IF surface.keywords = {} THEN Candidates(surface, touched)
  ELSE Ascending({h[1] : h \in Hits(surface, touched, contents)})

LEMMA InstantiateSurfaceIs ==
  ASSUME NEW stack, NEW nth, NEW surface, NEW touched, NEW contents
  PROVE  InstantiateSurface(stack, nth, surface, touched, contents) =
           IF Matched(surface, touched, contents) = <<>> THEN {}
           ELSE {[stack |-> stack.name, id |-> surface.id, nth |-> nth,
                  files |-> Matched(surface, touched, contents),
                  keywords |-> {h[2] : h \in Hits(surface, touched, contents)}]}
BY DEF InstantiateSurface, Matched, Hits, Candidates

LEMMA CandidatesHold ==
  ASSUME NEW surface, NEW touched \in Seq(Nat)
  PROVE  /\ Candidates(surface, touched) \in Seq(Nat)
         /\ ToSet(Candidates(surface, touched)) =
              {f \in ToSet(touched) : surface.scope = {} \/ f \in UNION surface.scope}
<1>1. CASE surface.scope = {}
  BY <1>1 DEF Candidates
<1>2. CASE surface.scope # {}
  <2>1. Candidates(surface, touched) = FilterByGlobs(touched, surface.scope)
    BY <1>2 DEF Candidates
  <2> QED BY <1>2, <2>1, FilterHolds
<1> QED BY <1>1, <1>2

MatchedFits(m, surface, touched, contents) ==
  /\ ToSet(m) = IF surface.keywords = {} THEN ToSet(Candidates(surface, touched))
                ELSE {h[1] : h \in Hits(surface, touched, contents)}
  /\ ToSet(m) \subseteq ToSet(Candidates(surface, touched))
  /\ (ToSet(m) # {}) <=> (m # <<>>)

LEMMA MatchedHolds ==
  ASSUME NEW surface, NEW touched \in Seq(Nat), NEW contents
  PROVE  MatchedFits(Matched(surface, touched, contents), surface, touched, contents)
<1> DEFINE c == Candidates(surface, touched)
           m == Matched(surface, touched, contents)
           hit == {h[1] : h \in Hits(surface, touched, contents)}
<1>1. c \in Seq(Nat) /\ IsFiniteSet(ToSet(c)) /\ ToSet(c) \subseteq Nat /\ (ToSet(c) = {} <=> c = <<>>)
  <2>1. c \in Seq(Nat)
    BY CandidatesHold
  <2> HIDE DEF c
  <2> QED BY <2>1, FiniteToSet
<1>2. hit \subseteq ToSet(c)
  BY DEF Hits, KeywordHits
<1>3. hit \in SUBSET Nat /\ IsFiniteSet(hit)
  <2> HIDE DEF hit, c
  <2> QED BY <1>1, <1>2, FS_Subset
<1>4. ToSet(Ascending(hit)) = hit /\ (hit # {} <=> Ascending(hit) # <<>>)
  <2> HIDE DEF hit
  <2> QED BY <1>3, AscendingHolds
<1>5. m = IF surface.keywords = {} THEN c ELSE Ascending(hit)
  BY DEF Matched
<1>6. ToSet(<<>>) = {}
  BY DEF ToSet
<1> HIDE DEF c, m, hit
<1>7. /\ ToSet(m) = IF surface.keywords = {} THEN ToSet(c) ELSE hit
      /\ ToSet(m) \subseteq ToSet(c)
      /\ ToSet(m) # {} <=> m # <<>>
  BY <1>1, <1>2, <1>4, <1>5, <1>6
<1> QED BY <1>7 DEF c, m, hit, MatchedFits

(* A row is of its stack and surface, and of files that were touched.      *)
IsRow(row, stack, nth, surface, touched) ==
  /\ row.stack = stack.name /\ row.id = surface.id /\ row.nth = nth
  /\ row.files # <<>> /\ ToSet(row.files) \subseteq ToSet(touched)

LEMMA InstantiateSurfaceHolds ==
  ASSUME NEW stack, NEW nth, NEW surface, NEW touched \in Seq(Nat), NEW contents,
         NEW row \in InstantiateSurface(stack, nth, surface, touched, contents)
  PROVE  /\ IsRow(row, stack, nth, surface, touched)
         /\ InstantiateSurface(stack, nth, surface, touched, contents) = {row}
<1> DEFINE m == Matched(surface, touched, contents)
<1>1. /\ m # <<>>
      /\ row = [stack |-> stack.name, id |-> surface.id, nth |-> nth, files |-> m,
                keywords |-> {h[2] : h \in Hits(surface, touched, contents)}]
      /\ InstantiateSurface(stack, nth, surface, touched, contents) = {row}
  BY InstantiateSurfaceIs
<1>2. ToSet(m) \subseteq ToSet(touched)
  <2>1. MatchedFits(m, surface, touched, contents)
    BY MatchedHolds
  <2>2. ToSet(Candidates(surface, touched)) \subseteq ToSet(touched)
    BY CandidatesHold
  <2> QED BY <2>1, <2>2 DEF MatchedFits
<1> QED BY <1>1, <1>2 DEF IsRow

(* What grows with more files: the row and its evidence.                   *)
GrownRow(row, grown) ==
  /\ grown.stack = row.stack /\ grown.id = row.id
  /\ ToSet(row.files) \subseteq ToSet(grown.files) /\ row.keywords \subseteq grown.keywords

LEMMA InstantiateSurfaceGrows ==
  ASSUME NEW stack, NEW nth, NEW surface, NEW touched \in Seq(Nat), NEW larger \in Seq(Nat),
         ToSet(touched) \subseteq ToSet(larger), NEW contents,
         NEW row \in InstantiateSurface(stack, nth, surface, touched, contents)
  PROVE  \E grown \in InstantiateSurface(stack, nth, surface, larger, contents) : GrownRow(row, grown)
<1> DEFINE m == Matched(surface, touched, contents)
           l == Matched(surface, larger, contents)
           mHits == Hits(surface, touched, contents)
           lHits == Hits(surface, larger, contents)
           grown == [stack |-> stack.name, id |-> surface.id, nth |-> nth, files |-> l,
                     keywords |-> {h[2] : h \in lHits}]
<1>1. /\ m # <<>>
      /\ row = [stack |-> stack.name, id |-> surface.id, nth |-> nth, files |-> m,
                keywords |-> {h[2] : h \in mHits}]
  BY InstantiateSurfaceIs
<1>2. ToSet(Candidates(surface, touched)) \subseteq ToSet(Candidates(surface, larger))
  <2>1. /\ ToSet(Candidates(surface, touched)) =
             {f \in ToSet(touched) : surface.scope = {} \/ f \in UNION surface.scope}
        /\ ToSet(Candidates(surface, larger)) =
             {f \in ToSet(larger) : surface.scope = {} \/ f \in UNION surface.scope}
    BY CandidatesHold
  <2> QED BY <2>1
<1>3. mHits \subseteq lHits
  BY <1>2 DEF Hits, KeywordHits
<1>4. ToSet(m) \subseteq ToSet(l) /\ l # <<>>
  <2>1. /\ ToSet(m) = IF surface.keywords = {} THEN ToSet(Candidates(surface, touched)) ELSE {h[1] : h \in mHits}
        /\ (ToSet(m) # {} <=> m # <<>>)
    BY MatchedHolds DEF MatchedFits
  <2>2. /\ ToSet(l) = IF surface.keywords = {} THEN ToSet(Candidates(surface, larger)) ELSE {h[1] : h \in lHits}
        /\ (ToSet(l) # {} <=> l # <<>>)
    BY MatchedHolds DEF MatchedFits
  <2> HIDE DEF m, l, mHits, lHits
  <2>3. {h[1] : h \in mHits} \subseteq {h[1] : h \in lHits}
    BY <1>3
  <2> QED BY <1>1, <1>2, <2>1, <2>2, <2>3
<1>5. grown \in InstantiateSurface(stack, nth, surface, larger, contents)
  BY <1>4, InstantiateSurfaceIs
<1>6. GrownRow(row, grown)
  <2>1. {h[2] : h \in mHits} \subseteq {h[2] : h \in lHits}
    <3> HIDE DEF mHits, lHits
    <3> QED BY <1>3
  <2> HIDE DEF m, l, mHits, lHits
  <2> QED BY <1>1, <1>4, <2>1 DEF GrownRow
<1> QED BY <1>5, <1>6

(* Rows that no two of share all three fields that they are sorted by.     *)
Keyed(rows, field) ==
  /\ IsFiniteSet(rows)
  /\ \A r \in rows : r["stack"] \in Nat /\ r[field] \in Nat /\ r["nth"] \in Nat
  /\ \A r, s \in rows : /\ r["stack"] = s["stack"] /\ r[field] = s[field] /\ r["nth"] = s["nth"]
                        => r = s

LEMMA SortedHolds ==
  ASSUME NEW rows, NEW field, Keyed(rows, field)
  PROVE  ToSet(Sorted(rows, <<"stack", field, "nth">>)) = rows
<1> DEFINE fields == <<"stack", field, "nth">>
           R == {p \in rows \X rows : Before(p[1], p[2], fields)}
           e == Enumerate(rows, R)
<1>1. ASSUME NEW r \in rows, NEW s \in rows
      PROVE  (<<r, s>> \in R) <=>
               \/ r["stack"] < s["stack"]
               \/ r["stack"] = s["stack"] /\ r[field] < s[field]
               \/ r["stack"] = s["stack"] /\ r[field] = s[field] /\ r["nth"] < s["nth"]
  <2> DEFINE B(i) == /\ r[fields[i]] < s[fields[i]]
                     /\ \A j \in 1..(i-1) : r[fields[j]] = s[fields[j]]
  <2>1. (<<r, s>> \in R) <=> \E i \in DOMAIN fields : B(i)
    BY DEF Before
  <2>2. DOMAIN fields = {1, 2, 3} /\ fields[1] = "stack" /\ fields[2] = field /\ fields[3] = "nth"
    OBVIOUS
  <2>3. 1..(1 - 1) = {} /\ 1..(2 - 1) = {1} /\ 1..(3 - 1) = {1, 2}
    OBVIOUS
  <2> HIDE DEF fields
  <2>4. /\ B(1) <=> r["stack"] < s["stack"]
        /\ B(2) <=> r["stack"] = s["stack"] /\ r[field] < s[field]
        /\ B(3) <=> r["stack"] = s["stack"] /\ r[field] = s[field] /\ r["nth"] < s["nth"]
    BY <2>2, <2>3
  <2> HIDE DEF B, R
  <2>5. (\E i \in DOMAIN fields : B(i)) <=> (B(1) \/ B(2) \/ B(3))
    BY <2>2
  <2> QED BY <2>1, <2>4, <2>5
<1>2. /\ IsFiniteSet(rows)
      /\ \A r \in rows : r["stack"] \in Nat /\ r[field] \in Nat /\ r["nth"] \in Nat
      /\ \A r, s \in rows : /\ r["stack"] = s["stack"] /\ r[field] = s[field] /\ r["nth"] = s["nth"]
                            => r = s
  BY DEF Keyed
<1> HIDE DEF R
<1>3. StrictOrder(rows, R)
  <2>1. \A r \in rows : <<r, r>> \notin R
    BY <1>1, <1>2
  <2>2. ASSUME NEW r \in rows, NEW s \in rows, NEW t \in rows, <<r, s>> \in R, <<s, t>> \in R
        PROVE  <<r, t>> \in R
    <3>1. \/ r["stack"] < s["stack"]
          \/ r["stack"] = s["stack"] /\ r[field] < s[field]
          \/ r["stack"] = s["stack"] /\ r[field] = s[field] /\ r["nth"] < s["nth"]
      BY <1>1, <2>2
    <3>2. \/ s["stack"] < t["stack"]
          \/ s["stack"] = t["stack"] /\ s[field] < t[field]
          \/ s["stack"] = t["stack"] /\ s[field] = t[field] /\ s["nth"] < t["nth"]
      BY <1>1, <2>2
    <3>3. /\ r["stack"] \in Nat /\ r[field] \in Nat /\ r["nth"] \in Nat
          /\ s["stack"] \in Nat /\ s[field] \in Nat /\ s["nth"] \in Nat
          /\ t["stack"] \in Nat /\ t[field] \in Nat /\ t["nth"] \in Nat
      BY <1>2
    <3>4. \/ r["stack"] < t["stack"]
          \/ r["stack"] = t["stack"] /\ r[field] < t[field]
          \/ r["stack"] = t["stack"] /\ r[field] = t[field] /\ r["nth"] < t["nth"]
      BY <3>1, <3>2, <3>3
    <3> QED BY <1>1, <3>4
  <2>3. ASSUME NEW r \in rows, NEW s \in rows PROVE r = s \/ <<r, s>> \in R \/ <<s, r>> \in R
    BY <1>1, <1>2
  <2> QED BY <2>1, <2>2, <2>3 DEF StrictOrder
<1>4. IsEnumeration(e, rows, R)
  BY <1>2, <1>3, Enumerates
<1> HIDE DEF e
<1>5. ToSet(e) = rows
  BY <1>4 DEF IsEnumeration, ToSet
<1> QED BY <1>5 DEF Sorted, e, R

-----------------------------------------------------------------------------
SurfaceSet(stacks, kind, affected, contents) ==
  UNION {RowsOfStack(stack, kind, affected, contents) : stack \in ToSet(stacks)}

Rows(stack, kind, i, affected, contents) ==
  InstantiateSurface(stack, i, stack[kind][i], FilterByGlobs(affected, stack.scope), contents)

LEMMA InSurfaceSet ==
  ASSUME NEW stacks, NEW kind, NEW affected, NEW contents, NEW row
  PROVE  row \in SurfaceSet(stacks, kind, affected, contents)
           <=> \E stack \in ToSet(stacks) :
                 \E i \in DOMAIN stack[kind] : row \in Rows(stack, kind, i, affected, contents)
BY DEF SurfaceSet, RowsOfStack, Rows

LEMMA StackOfName ==
  ASSUME NEW stacks, StacksFit(stacks), NEW s \in ToSet(stacks), NEW t \in ToSet(stacks),
         s.name = t.name
  PROVE  s = t
BY DEF StacksFit, ToSet

LEMMA SurfacesFit ==
  ASSUME NEW stacks, StacksFit(stacks), NEW stack \in ToSet(stacks),
         NEW kind \in {"security", "documentation"}
  PROVE  /\ stack.name \in Nat
         /\ DOMAIN stack[kind] \subseteq Nat /\ IsFiniteSet(DOMAIN stack[kind])
         /\ \A i \in DOMAIN stack[kind] : /\ stack[kind][i].id \in Nat
                                          /\ stack[kind][i] \in ToSet(stack[kind])
<1>1. /\ stack.name \in Nat /\ stack[kind] \in Seq(ToSet(stack[kind]))
      /\ \A surface \in ToSet(stack[kind]) : surface.id \in Nat
  BY DEF StacksFit, IsSequence
<1>2. DOMAIN stack[kind] = 1..Len(stack[kind]) /\ Len(stack[kind]) \in Nat
  BY <1>1
<1>3. \A i \in DOMAIN stack[kind] : stack[kind][i] \in ToSet(stack[kind])
  BY DEF ToSet
<1>4. IsFiniteSet(DOMAIN stack[kind])
  BY <1>2, FS_Interval
<1> QED BY <1>1, <1>2, <1>3, <1>4

(* A row of a plan belongs to one surface of one stack.                    *)
Belongs(row, stack, i, kind, affected, contents) ==
  /\ Rows(stack, kind, i, affected, contents) = {row}
  /\ IsRow(row, stack, i, stack[kind][i], FilterByGlobs(affected, stack.scope))

LEMMA SurfaceRowHolds ==
  ASSUME NEW stacks, StacksFit(stacks), NEW kind \in {"security", "documentation"},
         NEW affected \in Seq(Nat), NEW contents,
         NEW row \in SurfaceSet(stacks, kind, affected, contents)
  PROVE  \E stack \in ToSet(stacks) : \E i \in DOMAIN stack[kind] :
           Belongs(row, stack, i, kind, affected, contents)
<1>1. PICK stack \in ToSet(stacks) : \E i \in DOMAIN stack[kind] :
        row \in Rows(stack, kind, i, affected, contents)
  BY InSurfaceSet
<1>2. PICK i \in DOMAIN stack[kind] : row \in Rows(stack, kind, i, affected, contents)
  BY <1>1
<1>3. FilterByGlobs(affected, stack.scope) \in Seq(Nat)
  BY FilterHolds
<1>4. /\ IsRow(row, stack, i, stack[kind][i], FilterByGlobs(affected, stack.scope))
      /\ Rows(stack, kind, i, affected, contents) = {row}
  BY <1>2, <1>3, InstantiateSurfaceHolds DEF Rows
<1> QED BY <1>4 DEF Belongs

LEMMA SurfaceSetFinite ==
  ASSUME NEW stacks, StacksFit(stacks), NEW kind \in {"security", "documentation"},
         NEW affected \in Seq(Nat), NEW contents
  PROVE  IsFiniteSet(SurfaceSet(stacks, kind, affected, contents))
<1> DEFINE all == ToSet(stacks)
           of == [stack \in all |-> RowsOfStack(stack, kind, affected, contents)]
<1>1. IsFiniteSet(all)
  BY FiniteToSet DEF StacksFit, IsSequence
<1>2. ASSUME NEW stack \in all PROVE IsFiniteSet(of[stack])
  <2> DEFINE in == DOMAIN stack[kind]
             row == [i \in in |-> Rows(stack, kind, i, affected, contents)]
  <2>1. IsFiniteSet(in)
    BY SurfacesFit
  <2>2. ASSUME NEW i \in in PROVE IsFiniteSet(row[i])
    <3> DEFINE one == Rows(stack, kind, i, affected, contents)
    <3>1. one = {} \/ \E r : one = {r}
      BY InstantiateSurfaceIs DEF Rows
    <3> HIDE DEF one
    <3>2. CASE one = {}
      BY <3>2, FS_EmptySet DEF one
    <3>3. CASE \E r : one = {r}
      <4>1. PICK r : one = {r}
        BY <3>3
      <4>2. IsFiniteSet({r})
        BY FS_Singleton
      <4> QED BY <4>1, <4>2 DEF one
    <3> QED BY <3>1, <3>2, <3>3
  <2> HIDE DEF in, row
  <2>3. IsFiniteSet({row[i] : i \in in})
    BY <2>1, FiniteImage
  <2>4. IsFiniteSet(UNION {row[i] : i \in in})
    BY <2>2, <2>3, FS_UNION
  <2>5. of[stack] = UNION {row[i] : i \in in}
    BY DEF RowsOfStack, Rows, row, in
  <2> QED BY <2>4, <2>5
<1> HIDE DEF all, of
<1>3. IsFiniteSet({of[stack] : stack \in all})
  BY <1>1, FiniteImage
<1>4. IsFiniteSet(UNION {of[stack] : stack \in all})
  BY <1>2, <1>3, FS_UNION
<1>5. SurfaceSet(stacks, kind, affected, contents) = UNION {of[stack] : stack \in all}
  BY DEF SurfaceSet, of, all
<1> QED BY <1>4, <1>5

LEMMA SurfacesListed ==
  ASSUME NEW stacks, StacksFit(stacks), NEW kind \in {"security", "documentation"},
         NEW affected \in Seq(Nat), NEW contents
  PROVE  ToSet(InstantiateSurfaces(stacks, kind, affected, contents))
           = SurfaceSet(stacks, kind, affected, contents)
<1> DEFINE rows == SurfaceSet(stacks, kind, affected, contents)
<1>0. \A r \in rows : \E stack \in ToSet(stacks) : \E i \in DOMAIN stack[kind] :
        Belongs(r, stack, i, kind, affected, contents)
  BY SurfaceRowHolds
<1>1. ASSUME NEW r \in rows PROVE r["stack"] \in Nat /\ r["id"] \in Nat /\ r["nth"] \in Nat
  <2>1. PICK stack \in ToSet(stacks) : \E i \in DOMAIN stack[kind] :
          Belongs(r, stack, i, kind, affected, contents)
    BY <1>0
  <2>2. PICK i \in DOMAIN stack[kind] : Belongs(r, stack, i, kind, affected, contents)
    BY <2>1
  <2>3. stack.name \in Nat /\ i \in Nat /\ stack[kind][i].id \in Nat
    BY <2>2, SurfacesFit
  <2> QED BY <2>2, <2>3 DEF Belongs, IsRow
<1>2. ASSUME NEW r \in rows, NEW s \in rows, r["stack"] = s["stack"], r["nth"] = s["nth"]
      PROVE  r = s
  <2>1. PICK stack \in ToSet(stacks) : \E i \in DOMAIN stack[kind] :
          Belongs(r, stack, i, kind, affected, contents)
    BY <1>0
  <2>2. PICK i \in DOMAIN stack[kind] : Belongs(r, stack, i, kind, affected, contents)
    BY <2>1
  <2>3. PICK stack2 \in ToSet(stacks) : \E j \in DOMAIN stack2[kind] :
          Belongs(s, stack2, j, kind, affected, contents)
    BY <1>0
  <2>4. PICK j \in DOMAIN stack2[kind] : Belongs(s, stack2, j, kind, affected, contents)
    BY <2>3
  <2>5. stack.name = stack2.name /\ i = j
    BY <1>2, <2>2, <2>4 DEF Belongs, IsRow
  <2>6. stack = stack2
    BY <2>5, StackOfName
  <2> QED BY <2>2, <2>4, <2>5, <2>6 DEF Belongs
<1>3. IsFiniteSet(rows)
  BY SurfaceSetFinite
<1> HIDE DEF rows
<1>4. Keyed(rows, "id")
  BY <1>1, <1>2, <1>3 DEF Keyed
<1>5. ToSet(Sorted(rows, <<"stack", "id", "nth">>)) = rows
  BY <1>4, SortedHolds
<1> QED BY <1>5 DEF rows, InstantiateSurfaces, SurfaceSet

SecretsSet(stacks, files, extensionOf) ==
  UNION {SecretsRows(stack, files, extensionOf) : stack \in ToSet(stacks)}
SecretsRow(stack, i, files, extensionOf) ==
  LET inScope == FilterByGlobs(files, stack.scope) IN
  [stack |-> stack.name, extension |-> stack.secretsGlob[i], nth |-> i,
   files |-> LocaleSort(inScope, {f \in ToSet(inScope) : extensionOf[f] = stack.secretsGlob[i]})]

LEMMA InSecretsSet ==
  ASSUME NEW stacks, NEW files, NEW extensionOf, NEW row
  PROVE  row \in SecretsSet(stacks, files, extensionOf)
           <=> \E stack \in ToSet(stacks) :
                 /\ FilterByGlobs(files, stack.scope) # <<>>
                 /\ \E i \in DOMAIN stack.secretsGlob : row = SecretsRow(stack, i, files, extensionOf)
<1>1. \A stack : SecretsRows(stack, files, extensionOf) =
        IF FilterByGlobs(files, stack.scope) = <<>> THEN {}
        ELSE {SecretsRow(stack, i, files, extensionOf) : i \in DOMAIN stack.secretsGlob}
  BY DEF SecretsRows, SecretsRow
<1> QED BY <1>1 DEF SecretsSet

LEMMA ExtensionsFit ==
  ASSUME NEW stacks, StacksFit(stacks), NEW stack \in ToSet(stacks)
  PROVE  /\ stack.name \in Nat
         /\ DOMAIN stack.secretsGlob \subseteq Nat /\ IsFiniteSet(DOMAIN stack.secretsGlob)
         /\ \A i \in DOMAIN stack.secretsGlob : stack.secretsGlob[i] \in Nat
<1>1. stack.name \in Nat /\ stack.secretsGlob \in Seq(Nat)
  BY DEF StacksFit
<1> DEFINE glob == stack.secretsGlob
<1>2. glob \in Seq(Nat)
  BY <1>1
<1> HIDE DEF glob
<1>3. DOMAIN glob = 1..Len(glob) /\ Len(glob) \in Nat /\ \A i \in DOMAIN glob : glob[i] \in Nat
  BY <1>2
<1>4. IsFiniteSet(DOMAIN glob)
  BY <1>3, FS_Interval
<1> QED BY <1>1, <1>3, <1>4 DEF glob

LEMMA SecretsListed ==
  ASSUME NEW stacks, StacksFit(stacks), NEW files, NEW extensionOf
  PROVE  ToSet(BuildSecretsScans(stacks, files, extensionOf)) = SecretsSet(stacks, files, extensionOf)
<1> DEFINE rows == SecretsSet(stacks, files, extensionOf)
           all == ToSet(stacks)
           of == [stack \in all |-> SecretsRows(stack, files, extensionOf)]
<1>1. ASSUME NEW stack \in all PROVE IsFiniteSet(of[stack])
  <2> DEFINE row == [i \in DOMAIN stack.secretsGlob |-> SecretsRow(stack, i, files, extensionOf)]
  <2>1. IsFiniteSet(DOMAIN stack.secretsGlob)
    BY ExtensionsFit
  <2>2. IsFiniteSet({row[i] : i \in DOMAIN stack.secretsGlob})
    <3> HIDE DEF row
    <3> QED BY <2>1, FiniteImage
  <2>3. of[stack] = {} \/ of[stack] = {row[i] : i \in DOMAIN stack.secretsGlob}
    BY DEF SecretsRows, SecretsRow
  <2> HIDE DEF row, of
  <2> QED BY <2>2, <2>3, FS_EmptySet
<1>2. IsFiniteSet(all)
  BY FiniteToSet DEF StacksFit, IsSequence
<1>3. IsFiniteSet(rows)
  <2>1. rows = UNION {of[stack] : stack \in all}
    BY DEF SecretsSet
  <2> HIDE DEF rows, of, all
  <2>2. IsFiniteSet({of[stack] : stack \in all})
    BY <1>2, FiniteImage
  <2> QED BY <1>1, <2>1, <2>2, FS_UNION
<1>4. \A r \in rows : \E stack \in all : \E i \in DOMAIN stack.secretsGlob :
        r = SecretsRow(stack, i, files, extensionOf)
  BY InSecretsSet
<1>5. \A stack, i : LET r == SecretsRow(stack, i, files, extensionOf) IN
        r["stack"] = stack.name /\ r["extension"] = stack.secretsGlob[i] /\ r["nth"] = i
  BY DEF SecretsRow
<1> HIDE DEF rows
<1>6. ASSUME NEW r \in rows PROVE r["stack"] \in Nat /\ r["extension"] \in Nat /\ r["nth"] \in Nat
  BY <1>4, <1>5, ExtensionsFit
<1>7. ASSUME NEW r \in rows, NEW s \in rows, r["stack"] = s["stack"], r["nth"] = s["nth"]
      PROVE  r = s
  <2>1. PICK stack \in all : \E i \in DOMAIN stack.secretsGlob : r = SecretsRow(stack, i, files, extensionOf)
    BY <1>4
  <2>2. PICK i \in DOMAIN stack.secretsGlob : r = SecretsRow(stack, i, files, extensionOf)
    BY <2>1
  <2>3. PICK stack2 \in all : \E j \in DOMAIN stack2.secretsGlob : s = SecretsRow(stack2, j, files, extensionOf)
    BY <1>4
  <2>4. PICK j \in DOMAIN stack2.secretsGlob : s = SecretsRow(stack2, j, files, extensionOf)
    BY <2>3
  <2>5. stack.name = stack2.name /\ i = j
    BY <1>5, <1>7, <2>2, <2>4
  <2>6. stack = stack2
    BY <2>5, StackOfName
  <2> QED BY <2>2, <2>4, <2>5, <2>6
<1>8. Keyed(rows, "extension")
  BY <1>3, <1>6, <1>7 DEF Keyed
<1>9. ToSet(Sorted(rows, <<"stack", "extension", "nth">>)) = rows
  BY <1>8, SortedHolds
<1> QED BY <1>9 DEF rows, BuildSecretsScans, SecretsSet

(* No file that a stack has scanned escapes.                               *)
LEMMA EveryFileScanned ==
  ASSUME NEW stacks, StacksFit(stacks), NEW files \in Seq(Nat), NEW extensionOf,
         NEW stack \in ToSet(stacks), NEW f \in ToSet(files), f \in UNION stack.scope,
         extensionOf[f] \in ToSet(stack.secretsGlob)
  PROVE  Scanned(f, stack, extensionOf[f], BuildSecretsScans(stacks, files, extensionOf))
<1> DEFINE inScope == FilterByGlobs(files, stack.scope)
<1>1. inScope \in Seq(Nat) /\ ToSet(inScope) = ToSet(files) \intersect UNION stack.scope
  BY FilterHolds
<1> HIDE DEF inScope
<1>2. f \in ToSet(inScope) /\ inScope # <<>> /\ ToSet(inScope) \subseteq Nat
  BY <1>1, FiniteToSet
<1>3. PICK i \in DOMAIN stack.secretsGlob : stack.secretsGlob[i] = extensionOf[f]
  BY DEF ToSet
<1> DEFINE with == {g \in ToSet(inScope) : extensionOf[g] = stack.secretsGlob[i]}
<1>4. with \in SUBSET Nat /\ f \in with
  BY <1>2, <1>3
<1>5. f \in ToSet(LocaleSort(inScope, with))
  <2> HIDE DEF with
  <2> QED BY <1>1, <1>2, <1>4, LocaleSortHolds
<1> DEFINE row == SecretsRow(stack, i, files, extensionOf)
<1>6. row.stack = stack.name /\ row.extension = extensionOf[f] /\ f \in ToSet(row.files)
  BY <1>3, <1>5 DEF SecretsRow, inScope
<1>7. row \in SecretsSet(stacks, files, extensionOf)
  BY <1>2, InSecretsSet DEF inScope
<1> HIDE DEF row
<1> QED BY <1>6, <1>7, SecretsListed DEF Scanned

-----------------------------------------------------------------------------
(* Split at its first dot, a qualified id gives back a name without a dot. *)
LEMMA SplitAtFirstDot ==
  ASSUME NEW name \in Seq(Nat), WithoutDot(name), NEW id \in Seq(Nat), id # <<>>
  PROVE  /\ Len(QualifiedId(name, id)) > 1
         /\ <<Head(QualifiedId(name, id))>> = name
         /\ Tail(QualifiedId(name, id)) = id
<1> DEFINE q == name \o id
<1>1. Len(name) = 1 /\ Len(id) \in Nat \ {0}
  BY DEF WithoutDot
<1>2. /\ q \in Seq(Nat) /\ Len(q) = 1 + Len(id) /\ q[1] = name[1]
      /\ \A i \in 1..Len(id) : q[1 + i] = id[i]
  <2>1. q \in Seq(Nat) /\ Len(q) = Len(name) + Len(id)
    OBVIOUS
  <2>2. \A i \in 1..Len(q) : q[i] = IF i <= Len(name) THEN name[i] ELSE id[i - Len(name)]
    OBVIOUS
  <2> HIDE DEF q
  <2>3. q[1] = name[1]
    BY <1>1, <2>1, <2>2
  <2>4. ASSUME NEW i \in 1..Len(id) PROVE q[1 + i] = id[i]
    <3>1. 1 + i \in 1..Len(q) /\ ~(1 + i <= Len(name)) /\ (1 + i) - Len(name) = i
      BY <1>1, <2>1
    <3> QED BY <2>2, <3>1
  <2> QED BY <1>1, <2>1, <2>3, <2>4
<1> HIDE DEF q
<1>3. Head(q) = name[1]
  BY <1>2
<1>4. <<name[1]>> = name
  BY <1>1
<1>5. Tail(q) \in Seq(Nat) /\ Len(Tail(q)) = Len(id)
  BY <1>1, <1>2
<1>6. \A i \in 1..Len(id) : Tail(q)[i] = id[i]
  BY <1>1, <1>2
<1>7. Tail(q) = id
  BY <1>5, <1>6, SeqEqual
<1>8. Len(q) > 1
  BY <1>1, <1>2
<1> QED BY <1>3, <1>4, <1>7, <1>8 DEF q, QualifiedId

LEMMA RowOfItsStack ==
  ASSUME NEW input, PlanInputFits(input), NEW kind \in {"security", "documentation"},
         NEW row \in SurfaceSet(input.stacks, kind, input.affected, input.contents)
  PROVE  OfItsStack(row, input)
<1>1. input.affected \in Seq(Nat) /\ StacksFit(input.stacks)
  BY DEF PlanInputFits
<1>2. PICK stack \in ToSet(input.stacks) : \E i \in DOMAIN stack[kind] :
        Belongs(row, stack, i, kind, input.affected, input.contents)
  BY <1>1, SurfaceRowHolds
<1>3. PICK i \in DOMAIN stack[kind] :
        IsRow(row, stack, i, stack[kind][i], FilterByGlobs(input.affected, stack.scope))
  BY <1>2 DEF Belongs
<1>4. stack = CHOOSE s \in ToSet(input.stacks) : s.name = row.stack
  <2>1. stack.name = row.stack
    BY <1>3 DEF IsRow
  <2>2. \A s \in ToSet(input.stacks) : s.name = row.stack => s = stack
    BY <1>1, <2>1, StackOfName
  <2> QED BY <2>1, <2>2
<1>5. ToSet(FilterByGlobs(input.affected, stack.scope)) = ToSet(input.affected) \intersect UNION stack.scope
  BY <1>1, FilterHolds
<1>6. stack[kind][i] \in ToSet(stack.security) \union ToSet(stack.documentation)
  BY <1>1, SurfacesFit
<1>7. ASSUME WithoutDot(input.spelled[row.stack]) PROVE Known(row, input)
  <2> DEFINE name == input.spelled[row.stack]
             id == input.spelled[row.id]
  <2>1. row.stack = stack.name /\ row.id = stack[kind][i].id
    BY <1>3 DEF IsRow
  <2>2. name \in Seq(Nat) /\ id \in Seq(Nat) /\ id \notin {<<>>, EmptyText}
    BY <1>6, <2>1 DEF PlanInputFits
  <2>3. WithoutDot(name)
    BY <1>7
  <2> HIDE DEF name, id
  <2>4. /\ Len(QualifiedId(name, id)) > 1 /\ <<Head(QualifiedId(name, id))>> = name
        /\ Tail(QualifiedId(name, id)) = id
    BY <2>2, <2>3, SplitAtFirstDot
  <2>5. name # EmptyText
    BY <2>3 DEF WithoutDot
  <2>6. input.spelled[stack.name] = name /\ input.spelled[stack[kind][i].id] = id
    BY <2>1 DEF name, id
  <2>7. IsKnownSurfaceId(input.stacks, input.spelled, QualifiedId(name, id))
    BY <1>6, <2>2, <2>4, <2>5, <2>6 DEF IsKnownSurfaceId
  <2> QED BY <2>7 DEF Known, name, id
<1>8. row.files # <<>> /\ ToSet(row.files) \subseteq ToSet(input.affected) \intersect UNION stack.scope
  BY <1>3, <1>5 DEF IsRow
<1> QED BY <1>4, <1>7, <1>8 DEF OfItsStack

LEMMA RowGrows ==
  ASSUME NEW input, PlanInputFits(input), NEW kind \in {"security", "documentation"},
         NEW row \in SurfaceSet(input.stacks, kind, input.affected, input.contents)
  PROVE  \E grown \in SurfaceSet(input.stacks, kind, input.affected \o input.more, input.contents) :
           GrownRow(row, grown)
<1> DEFINE larger == input.affected \o input.more
<1>1. input.affected \in Seq(Nat) /\ larger \in Seq(Nat)
      /\ ToSet(input.affected) \subseteq ToSet(larger)
  <2>1. input.affected \in Seq(Nat) /\ input.more \in Seq(Nat)
    BY DEF PlanInputFits
  <2> DEFINE s == input.affected
             t == input.more
  <2>1a. s \in Seq(Nat) /\ t \in Seq(Nat)
    BY <2>1
  <2> HIDE DEF s, t
  <2>2a. s \o t \in Seq(Nat)
    BY <2>1a
  <2>3a. \A i \in DOMAIN s : i \in DOMAIN (s \o t) /\ (s \o t)[i] = s[i]
    BY <2>1a
  <2>2. larger \in Seq(Nat)
    BY <2>2a DEF s, t
  <2>3. \A i \in DOMAIN input.affected : i \in DOMAIN larger /\ larger[i] = input.affected[i]
    BY <2>3a DEF s, t
  <2> QED BY <2>1, <2>2, <2>3 DEF ToSet
<1>2. PICK stack \in ToSet(input.stacks) : \E i \in DOMAIN stack[kind] :
        row \in Rows(stack, kind, i, input.affected, input.contents)
  BY InSurfaceSet
<1>3. PICK i \in DOMAIN stack[kind] : row \in Rows(stack, kind, i, input.affected, input.contents)
  BY <1>2
<1> HIDE DEF larger
<1> DEFINE narrow == FilterByGlobs(input.affected, stack.scope)
           wide == FilterByGlobs(larger, stack.scope)
<1>4. narrow \in Seq(Nat) /\ wide \in Seq(Nat) /\ ToSet(narrow) \subseteq ToSet(wide)
  <2>1. narrow \in Seq(Nat) /\ ToSet(narrow) = ToSet(input.affected) \intersect UNION stack.scope
    BY <1>1, FilterHolds
  <2>2. wide \in Seq(Nat) /\ ToSet(wide) = ToSet(larger) \intersect UNION stack.scope
    BY <1>1, FilterHolds
  <2> HIDE DEF narrow, wide
  <2> QED BY <1>1, <2>1, <2>2
<1>5. \E grown \in Rows(stack, kind, i, larger, input.contents) : GrownRow(row, grown)
  <2>1. row \in InstantiateSurface(stack, i, stack[kind][i], narrow, input.contents)
    BY <1>3 DEF Rows
  <2> HIDE DEF narrow, wide
  <2>2. \E grown \in InstantiateSurface(stack, i, stack[kind][i], wide, input.contents) : GrownRow(row, grown)
    BY <1>4, <2>1, InstantiateSurfaceGrows
  <2> QED BY <2>2 DEF Rows, wide
<1>6. PICK grown \in Rows(stack, kind, i, larger, input.contents) : GrownRow(row, grown)
  BY <1>5
<1>7. grown \in SurfaceSet(input.stacks, kind, larger, input.contents)
  BY <1>6, InSurfaceSet
<1> QED BY <1>6, <1>7 DEF larger

LEMMA ReversedPlan ==
  ASSUME NEW input, PlanInputFits(input)
  PROVE  PlanOf(input) = PlanOf(Reversed(input))
<1>1. /\ input.affected \in Seq(Nat) /\ input.files \in Seq(Nat)
      /\ input.stacks \in Seq(ToSet(input.stacks))
  BY DEF PlanInputFits, StacksFit, IsSequence
<1>2. /\ Rearranged(input.affected, Reverse(input.affected)) /\ Reverse(input.affected) \in Seq(Nat)
      /\ Rearranged(input.files, Reverse(input.files)) /\ Reverse(input.files) \in Seq(Nat)
      /\ Rearranged(input.stacks, Reverse(input.stacks))
  BY <1>1, ReverseRearranges
<1>3. PlanInputRearranged(input, Reversed(input))
  BY <1>2 DEF PlanInputRearranged, Reversed
<1>4. Reversed(input).affected \in Seq(Nat) /\ Reversed(input).files \in Seq(Nat)
  BY <1>2 DEF Reversed
<1> QED BY <1>1, <1>3, <1>4, PlanForgetsOrder

LEMMA EveryPlanFits ==
  ASSUME NEW input, PlanInputFits(input)
  PROVE  PlanFits(input)
<1> DEFINE plan == PlanOf(input)
           larger == PlanOf(Enlarged(input))
           both(affected) == SurfaceSet(input.stacks, "security", affected, input.contents)
                               \union SurfaceSet(input.stacks, "documentation", affected, input.contents)
<1>1. /\ input.affected \in Seq(Nat) /\ input.more \in Seq(Nat) /\ input.files \in Seq(Nat)
      /\ StacksFit(input.stacks)
  BY DEF PlanInputFits
<1>2. input.affected \o input.more \in Seq(Nat)
  BY <1>1
<1>3. SurfaceRows(plan) = both(input.affected)
  <2>1. /\ plan.security = InstantiateSurfaces(input.stacks, "security", input.affected, input.contents)
        /\ plan.documentation = InstantiateSurfaces(input.stacks, "documentation", input.affected, input.contents)
    BY DEF PlanOf, BuildEvaluatorPlan, SecuritySurfacesInstantiated, DocumentationSurfacesInstantiated
  <2> HIDE DEF plan
  <2> QED BY <1>1, <2>1, SurfacesListed DEF SurfaceRows
<1>4. SurfaceRows(larger) = both(input.affected \o input.more)
  <2> DEFINE wide == input.affected \o input.more
  <2>1. /\ larger.security = InstantiateSurfaces(input.stacks, "security", wide, input.contents)
        /\ larger.documentation = InstantiateSurfaces(input.stacks, "documentation", wide, input.contents)
    BY DEF PlanOf, Enlarged, BuildEvaluatorPlan, SecuritySurfacesInstantiated, DocumentationSurfacesInstantiated
  <2>2. wide \in Seq(Nat)
    BY <1>2
  <2> HIDE DEF larger, wide
  <2>3. SurfaceRows(larger) = both(wide)
    BY <1>1, <2>1, <2>2, SurfacesListed DEF SurfaceRows
  <2> QED BY <2>3 DEF wide
<1>5. plan.secretsScans = BuildSecretsScans(input.stacks, input.files, input.extensionOf)
  BY DEF PlanOf, BuildEvaluatorPlan
<1> HIDE DEF plan, larger
<1>6. ASSUME NEW row \in SurfaceRows(plan)
      PROVE  Grown(row, SurfaceRows(larger)) /\ OfItsStack(row, input)
  <2>1. PICK kind \in {"security", "documentation"} :
          row \in SurfaceSet(input.stacks, kind, input.affected, input.contents)
    BY <1>3
  <2>2. OfItsStack(row, input)
    BY <2>1, RowOfItsStack
  <2>3. PICK grown \in SurfaceSet(input.stacks, kind, input.affected \o input.more, input.contents) :
          GrownRow(row, grown)
    BY <2>1, RowGrows
  <2>4. grown \in SurfaceRows(larger)
    BY <1>4, <2>3
  <2> QED BY <2>2, <2>3, <2>4 DEF Grown, GrownRow
<1>7. plan = PlanOf(Reversed(input))
  BY ReversedPlan DEF plan
<1>8. \A stack \in ToSet(input.stacks), f \in ToSet(input.files) :
        f \in UNION stack.scope /\ input.extensionOf[f] \in ToSet(stack.secretsGlob) =>
          Scanned(f, stack, input.extensionOf[f], plan.secretsScans)
  BY <1>1, <1>5, EveryFileScanned
<1> QED BY <1>6, <1>7, <1>8 DEF PlanFits, plan, larger

-------------------------------------------------------------------------------
(* Fingerprints *)

CleanLine == [text : Nat, comment : BOOLEAN, spaced : {FALSE}]

LEMMA CollapsedClean ==
  ASSUME NEW file, IsFile(file), NEW declared \in BOOLEAN
  PROVE  /\ Collapsed(file, declared) \in Seq(CleanLine)
         /\ DOMAIN Collapsed(file, declared) = DOMAIN file
         /\ \A i \in DOMAIN file :
              Collapsed(file, declared)[i] =
                [text |-> file[i].text, comment |-> file[i].comment /\ ~declared, spaced |-> FALSE]
<1>1. file \in Seq(Line) /\ DOMAIN file = 1..Len(file) /\ Len(file) \in Nat
  BY DEF IsFile
<1> DEFINE of(i) == [text |-> file[i].text, comment |-> file[i].comment /\ ~declared, spaced |-> FALSE]
           g == [i \in 1..Len(file) |-> of(i)]
<1>2. \A i \in DOMAIN file : file[i] \in Line
  BY <1>1
<1>3. ASSUME NEW i \in DOMAIN file PROVE of(i) \in CleanLine
  <2>1. file[i].text \in Nat /\ file[i].comment \in BOOLEAN
    BY <1>2 DEF Line
  <2>2. (file[i].comment /\ ~declared) \in BOOLEAN
    OBVIOUS
  <2> QED BY <2>1, <2>2 DEF CleanLine
<1>4. Collapsed(file, declared) = g
  BY <1>1 DEF Collapsed, CollapseSpace, StripComments
<1> HIDE DEF of
<1>5. g \in Seq(CleanLine) /\ DOMAIN g = DOMAIN file /\ \A i \in DOMAIN file : g[i] = of(i)
  BY <1>1, <1>3
<1> QED BY <1>4, <1>5 DEF of

LEMMA LinesOrdered ==
  ASSUME NEW g \in Seq(CleanLine), NEW places \in SUBSET DOMAIN g
  PROVE  StrictOrder({g[i] : i \in places}, InLineOrder(g, places))
<1> DEFINE V == {g[i] : i \in places}
           R == InLineOrder(g, places)
<1>1. V \subseteq CleanLine
  OBVIOUS
<1>2. \A l, m \in V : (<<l, m>> \in R) <=> Precedes(l, m)
  BY DEF InLineOrder
<1> HIDE DEF V, R
<1>3. \A l \in V : l.text \in Nat /\ l.comment \in BOOLEAN /\ l.spaced = FALSE
        /\ l = [text |-> l.text, comment |-> l.comment, spaced |-> l.spaced]
  <2> SUFFICES ASSUME NEW l \in CleanLine
               PROVE  /\ l.text \in Nat /\ l.comment \in BOOLEAN /\ l.spaced = FALSE
                      /\ l = [text |-> l.text, comment |-> l.comment, spaced |-> l.spaced]
    BY <1>1
  <2> QED BY DEF CleanLine
<1>4. \A l \in V : <<l, l>> \notin R
  BY <1>2, <1>3 DEF Precedes
<1>5. ASSUME NEW l \in V, NEW m \in V, NEW n \in V, <<l, m>> \in R, <<m, n>> \in R
      PROVE  <<l, n>> \in R
  <2>1. Precedes(l, m) /\ Precedes(m, n)
    BY <1>2, <1>5
  <2>2. l.text \in Nat /\ m.text \in Nat /\ n.text \in Nat
    BY <1>3
  <2>3. Precedes(l, n)
    BY <2>1, <2>2 DEF Precedes
  <2> QED BY <1>2, <2>3
<1>6. ASSUME NEW l \in V, NEW m \in V PROVE l = m \/ <<l, m>> \in R \/ <<m, l>> \in R
  <2>1. l.text \in Nat /\ m.text \in Nat /\ l.comment \in BOOLEAN /\ m.comment \in BOOLEAN
    BY <1>3
  <2>2. CASE l.text = m.text /\ l.comment = m.comment
    BY <1>3, <2>2
  <2>3. CASE ~(l.text = m.text /\ l.comment = m.comment)
    <3>1. Precedes(l, m) \/ Precedes(m, l)
      BY <2>1, <2>3 DEF Precedes
    <3> QED BY <1>2, <3>1
  <2> QED BY <2>2, <2>3
<1>7. StrictOrder(V, R)
  BY <1>4, <1>5, <1>6 DEF StrictOrder
<1> QED BY <1>7 DEF V, R

-----------------------------------------------------------------------------
(* Runs *)

LEMMA RunHolds ==
  ASSUME NEW g \in Seq(CleanLine), NEW matched, NEW i \in DOMAIN g, g[i].text \in matched
  PROVE  /\ i \in RunOf(g, i, matched)
         /\ RunOf(g, i, matched) \in SUBSET DOMAIN g
         /\ RunOf(g, i, matched) \in SUBSET Nat
         /\ IsFiniteSet(RunOf(g, i, matched))
         /\ \A j \in RunOf(g, i, matched) : /\ g[j].text \in matched
                                            /\ RunOf(g, j, matched) = RunOf(g, i, matched)
         /\ \A j \in RunOf(g, i, matched), k \in DOMAIN g :
              g[k].text \notin matched => ((k < i) <=> (k < j))
<1> DEFINE run(j) == RunOf(g, j, matched)
<1>1. DOMAIN g = 1..Len(g) /\ Len(g) \in Nat
  OBVIOUS
<1>2. \A l, j \in DOMAIN g : j \in run(l) <=> \A k \in DOMAIN g : (l <= k /\ k <= j) \/ (j <= k /\ k <= l)
                                                               => g[k].text \in matched
  BY <1>1 DEF RunOf
<1>3. run(i) \subseteq DOMAIN g
  BY DEF RunOf
<1>4. i \in run(i)
  BY <1>1, <1>2
<1>5. IsFiniteSet(run(i)) /\ run(i) \in SUBSET Nat
  <2>1. IsFiniteSet(1..Len(g))
    BY <1>1, FS_Interval
  <2> QED BY <1>1, <1>3, <2>1, FS_Subset
<1>6. \A l \in DOMAIN g : run(l) \subseteq DOMAIN g
  BY DEF RunOf
<1> HIDE DEF run
<1>7. \A l, j \in DOMAIN g : j \in run(l) => l \in run(j)
  BY <1>1, <1>2
<1>8. ASSUME NEW l \in DOMAIN g, NEW j \in run(l), NEW k \in run(j) PROVE k \in run(l)
  <2>1. j \in DOMAIN g /\ k \in DOMAIN g
    BY <1>6
  <2> SUFFICES ASSUME NEW x \in DOMAIN g, (l <= x /\ x <= k) \/ (k <= x /\ x <= l)
               PROVE  g[x].text \in matched
    BY <1>2, <2>1
  <2>1a. l \in Nat /\ j \in Nat /\ k \in Nat /\ x \in Nat
    BY <1>1, <2>1
  <2>2. \/ (l <= x /\ x <= j) \/ (j <= x /\ x <= l)
        \/ (j <= x /\ x <= k) \/ (k <= x /\ x <= j)
    BY <2>1a
  <2> QED BY <1>2, <2>1, <2>2
<1>9. ASSUME NEW j \in run(i) PROVE g[j].text \in matched /\ run(j) = run(i)
  <2>1. j \in DOMAIN g /\ i \in run(j)
    BY <1>3, <1>7
  <2>2. g[j].text \in matched
    BY <1>1, <1>2, <2>1
  <2>3. run(j) \subseteq run(i)
    BY <1>8
  <2>4. run(i) \subseteq run(j)
    BY <1>8, <2>1
  <2> QED BY <2>2, <2>3, <2>4
<1>10. ASSUME NEW j \in run(i), NEW k \in DOMAIN g, g[k].text \notin matched
       PROVE  (k < i) <=> (k < j)
  BY <1>1, <1>2, <1>3, <1>10
<1> QED BY <1>3, <1>4, <1>5, <1>9, <1>10 DEF run

(* The place that a matching line has in its run.                          *)
PlaceIn(run, i) == Cardinality({j \in run : j <= i})

LEMMA PlacesInRun ==
  ASSUME NEW run \in SUBSET Nat, IsFiniteSet(run)
  PROVE  /\ \A i \in run : PlaceIn(run, i) \in 1..Cardinality(run)
         /\ \A i, j \in run : PlaceIn(run, i) = PlaceIn(run, j) => i = j
<1> DEFINE R == {p \in run \X run : p[1] < p[2]}
<1>1. StrictOrder(run, R)
  BY NumbersOrdered
<1>2. ASSUME NEW i \in run
      PROVE  PlaceIn(run, i) = Cardinality(Lower(i, run, R)) + 1
  <2>1. Lower(i, run, R) = {j \in run : j < i}
    BY DEF Lower
  <2>1a. \A j \in run : j \in Nat /\ i \in Nat
    OBVIOUS
  <2>1b. {j \in run : j <= i} = {j \in run : j < i} \union {i} /\ i \notin {j \in run : j < i}
    <3>1. \A j \in run : (j <= i <=> (j < i \/ j = i)) /\ ~(i < i)
      BY <2>1a
    <3> QED BY <3>1
  <2>2. {j \in run : j <= i} = Lower(i, run, R) \union {i} /\ i \notin Lower(i, run, R)
    BY <2>1, <2>1b
  <2>3. IsFiniteSet(Lower(i, run, R))
    BY <2>1, FS_Subset
  <2> HIDE DEF R
  <2> QED BY <2>2, <2>3, FS_AddElement DEF PlaceIn
<1> HIDE DEF R
<1>3. /\ \A x \in run : Cardinality(Lower(x, run, R)) \in 0..(Cardinality(run) - 1)
      /\ \A x, y \in run : Cardinality(Lower(x, run, R)) = Cardinality(Lower(y, run, R)) => x = y
  BY <1>1, OnePlaceEach
<1>4. Cardinality(run) \in Nat
  BY FS_CardinalityType
<1> QED BY <1>2, <1>3, <1>4

-----------------------------------------------------------------------------
(* Sorting the runs moves every line to one place, in its own run.         *)
Moved(g, matched) ==
  [i \in DOMAIN g |->
     LET run == RunOf(g, i, matched) IN
     IF g[i].text \in matched
     THEN Enumerate(run, StableOrder(g, run, InLineOrder(g, run)))[PlaceIn(run, i)]
     ELSE i]

LEMMA RunSorted ==
  ASSUME NEW g \in Seq(CleanLine), NEW run \in SUBSET DOMAIN g, run \in SUBSET Nat, IsFiniteSet(run)
  PROVE  IsEnumeration(Enumerate(run, StableOrder(g, run, InLineOrder(g, run))), run,
                       StableOrder(g, run, InLineOrder(g, run)))
<1> DEFINE V == {g[i] : i \in run}
           R == InLineOrder(g, run)
<1>1. StrictOrder(V, R) /\ \A p \in run : g[p] \in V
  BY LinesOrdered
<1> HIDE DEF V, R
<1>2. StrictOrder(run, StableOrder(g, run, R))
  BY <1>1, StableOrdered
<1> DEFINE T == StableOrder(g, run, R)
<1> HIDE DEF T
<1>3. IsEnumeration(Enumerate(run, T), run, T)
  BY <1>2, Enumerates DEF T
<1> QED BY <1>3 DEF T, R

MovesLines(m, g, h, matched) ==
  /\ m \in [DOMAIN g -> DOMAIN g] /\ DOMAIN h = DOMAIN g
  /\ \A i, j \in DOMAIN g : m[i] = m[j] => i = j
  /\ \A j \in DOMAIN g : \E i \in DOMAIN g : m[i] = j
  /\ \A i \in DOMAIN g : /\ h[i] = g[m[i]]
                         /\ (h[i].text \in matched) <=> (g[i].text \in matched)
                         /\ g[i].text \notin matched => m[i] = i
                         /\ g[i].text \in matched => m[i] \in RunOf(g, i, matched)

LEMMA RunsMoved ==
  ASSUME NEW g \in Seq(CleanLine), NEW matched
  PROVE  MovesLines(Moved(g, matched), g, SortMatchingRuns(g, matched), matched)
<1> DEFINE m == Moved(g, matched)
           h == SortMatchingRuns(g, matched)
           run(i) == RunOf(g, i, matched)
           order(i) == Enumerate(run(i), StableOrder(g, run(i), InLineOrder(g, run(i))))
           T(i) == StableOrder(g, run(i), InLineOrder(g, run(i)))
           is(i) == g[i].text \in matched
<1>1. \A i \in DOMAIN g : m[i] = IF is(i) THEN order(i)[PlaceIn(run(i), i)] ELSE i
  BY DEF Moved
<1>2. ASSUME NEW i \in DOMAIN g, is(i) PROVE h[i] = g[m[i]]
  <2>1. h[i] = StableSort(g, run(i), InLineOrder(g, run(i)))[PlaceIn(run(i), i)]
    BY <1>2 DEF SortMatchingRuns, PlaceIn
  <2>2. PlaceIn(run(i), i) \in 1..Cardinality(run(i))
    BY <1>2, RunHolds, PlacesInRun
  <2>3. \A n \in 1..Cardinality(run(i)) :
          StableSort(g, run(i), InLineOrder(g, run(i)))[n] = g[order(i)[n]]
    BY DEF StableSort
  <2> HIDE DEF m, h, run, order
  <2> QED BY <1>1, <1>2, <2>1, <2>2, <2>3 DEF order, run
<1>3. \A i \in DOMAIN g : ~is(i) => h[i] = g[i]
  BY DEF SortMatchingRuns
<1>4. \A i \in DOMAIN g : is(i) => IsEnumeration(order(i), run(i), T(i))
  BY RunHolds, RunSorted
<1>5. \A i \in DOMAIN g : is(i) =>
        /\ i \in run(i) /\ run(i) \in SUBSET DOMAIN g /\ run(i) \in SUBSET Nat /\ IsFiniteSet(run(i))
        /\ \A j \in run(i) : is(j) /\ run(j) = run(i)
  BY RunHolds
<1>6. \A i \in DOMAIN g : is(i) =>
        /\ \A j \in run(i) : PlaceIn(run(i), j) \in 1..Cardinality(run(i))
        /\ \A j, k \in run(i) : PlaceIn(run(i), j) = PlaceIn(run(i), k) => j = k
  <2> HIDE DEF run, is
  <2> QED BY <1>5, PlacesInRun
<1>7. \A i, j \in DOMAIN g : run(i) = run(j) => order(i) = order(j)
  OBVIOUS
<1>8. DOMAIN h = DOMAIN g /\ DOMAIN m = DOMAIN g /\ m = [i \in DOMAIN g |-> m[i]]
  BY DEF SortMatchingRuns, Moved
<1> HIDE DEF m, h, run, order, T
<1>9. ASSUME NEW i \in DOMAIN g, is(i) PROVE m[i] \in run(i)
  <2>1. PlaceIn(run(i), i) \in 1..Cardinality(run(i))
    BY <1>5, <1>6, <1>9
  <2>2. order(i) \in [1..Cardinality(run(i)) -> run(i)]
    BY <1>4, <1>9 DEF IsEnumeration
  <2> QED BY <1>1, <1>9, <2>1, <2>2
<1>10. \A i \in DOMAIN g : m[i] \in DOMAIN g /\ (is(m[i]) <=> is(i))
  BY <1>1, <1>5, <1>9
<1>11. ASSUME NEW i \in DOMAIN g, NEW j \in DOMAIN g, m[i] = m[j] PROVE i = j
  <2>1. CASE ~is(i)
    BY <1>1, <1>10, <1>11, <2>1
  <2>2. CASE is(i)
    <3>1. is(j)
      BY <1>10, <1>11, <2>2
    <3>2. run(i) = run(j)
      BY <1>5, <1>9, <1>11, <2>2, <3>1
    <3>3. order(i) = order(j)
      BY <1>7, <3>2
    <3> DEFINE a == PlaceIn(run(i), i)
               b == PlaceIn(run(j), j)
    <3>4. order(i)[a] = order(i)[b]
      BY <1>1, <1>11, <2>2, <3>1, <3>3
    <3>5. a \in 1..Cardinality(run(i)) /\ b \in 1..Cardinality(run(i))
      BY <1>5, <1>6, <2>2, <3>1, <3>2
    <3> HIDE DEF a, b
    <3>6. a - 1 = b - 1
      BY <1>4, <2>2, <3>4, <3>5 DEF IsEnumeration
    <3>7. a = b
      BY <3>5, <3>6
    <3> QED BY <1>5, <1>6, <2>2, <3>1, <3>2, <3>7 DEF a, b
  <2> QED BY <2>1, <2>2
<1>12. m \in Injection(DOMAIN g, DOMAIN g)
  <2>1. m \in [DOMAIN g -> DOMAIN g]
    BY <1>8, <1>10
  <2> QED BY <1>11, <2>1 DEF Injection, IsInjective
<1>13. m \in Surjection(DOMAIN g, DOMAIN g)
  <2>1. DOMAIN g = 1..Len(g) /\ Len(g) \in Nat
    OBVIOUS
  <2>2. IsFiniteSet(DOMAIN g)
    BY <2>1, FS_Interval
  <2> QED BY <1>12, <2>2, FS_Injection
<1>14. \A i \in DOMAIN g : h[i] = g[m[i]] /\ ((h[i].text \in matched) <=> is(i))
  BY <1>1, <1>2, <1>3, <1>10
<1>15. MovesLines(m, g, h, matched)
  <2>1. m \in [DOMAIN g -> DOMAIN g] /\ \A j \in DOMAIN g : \E i \in DOMAIN g : m[i] = j
    BY <1>13 DEF Surjection
  <2> QED BY <1>1, <1>8, <1>9, <1>11, <1>14, <2>1 DEF MovesLines, run
<1> QED BY <1>15 DEF m, h

(* Two files of which one has the runs of the other, rearranged.           *)
RunRearranged(f, places, g, c, i, matched) ==
  /\ i \in DOMAIN g /\ g[i].text \in matched /\ places = RunOf(g, i, matched)
  /\ i \in DOMAIN c /\ c[i].text \in matched /\ places = RunOf(c, i, matched)
  /\ Rearranges(f, places, g, places, c)

LEMMA SortedAlike ==
  ASSUME NEW g \in Seq(CleanLine), NEW c, NEW matched, NEW i, NEW places, NEW f,
         RunRearranged(f, places, g, c, i, matched)
  PROVE  SortMatchingRuns(c, matched)[i] = SortMatchingRuns(g, matched)[i]
<1>0. /\ i \in DOMAIN g /\ g[i].text \in matched /\ places = RunOf(g, i, matched)
      /\ i \in DOMAIN c /\ c[i].text \in matched /\ places = RunOf(c, i, matched)
      /\ Rearranges(f, places, g, places, c)
  BY DEF RunRearranged
<1> DEFINE V == {g[j] : j \in places}
           R == InLineOrder(g, places)
<1>1. places \in SUBSET DOMAIN g /\ places \in SUBSET Nat /\ IsFiniteSet(places)
  <2>1. LET run == RunOf(g, i, matched)
        IN run \in SUBSET DOMAIN g /\ run \in SUBSET Nat /\ IsFiniteSet(run)
    BY <1>0, RunHolds
  <2> QED BY <1>0, <2>1
<1>2. StrictOrder(V, R) /\ \A p \in places : g[p] \in V
  BY <1>1, LinesOrdered
<1>3. {c[j] : j \in places} = V
  BY <1>0 DEF Rearranges
<1>4. InLineOrder(c, places) = R
  BY <1>3 DEF InLineOrder
<1>5. StableSort(c, places, R) = StableSort(g, places, R)
  <2> HIDE DEF V, R
  <2> QED BY <1>0, <1>1, <1>2, SortForgetsOrder
<1>6. SortMatchingRuns(c, matched)[i] = StableSort(c, places, R)[PlaceIn(places, i)]
  BY <1>0, <1>4 DEF SortMatchingRuns, PlaceIn
<1>7. SortMatchingRuns(g, matched)[i] = StableSort(g, places, R)[PlaceIn(places, i)]
  BY <1>0 DEF SortMatchingRuns, PlaceIn
<1> QED BY <1>5, <1>6, <1>7

(* Two neighbours of a sortable list swapped.                              *)
LEMMA SwapSortedAway ==
  ASSUME NEW g \in Seq(CleanLine), NEW matched, NEW n \in DOMAIN g, n + 1 \in DOMAIN g,
         g[n].text \in matched, g[n + 1].text \in matched
  PROVE  SortMatchingRuns(Swapped(g, n), matched) = SortMatchingRuns(g, matched)
<1> DEFINE c == Swapped(g, n)
<1>1. DOMAIN g = 1..Len(g) /\ Len(g) \in Nat
  OBVIOUS
<1>2. /\ DOMAIN c = DOMAIN g /\ c[n] = g[n + 1] /\ c[n + 1] = g[n]
      /\ \A i \in DOMAIN g : i # n /\ i # n + 1 => c[i] = g[i]
  BY <1>1 DEF Swapped
<1>3. c \in Seq(CleanLine)
  <2>1. c = [i \in 1..Len(g) |-> IF i = n THEN g[n + 1] ELSE IF i = n + 1 THEN g[n] ELSE g[i]]
    BY <1>1 DEF Swapped
  <2> HIDE DEF c
  <2> QED BY <1>1, <2>1
<1> HIDE DEF c
<1>4. \A i \in DOMAIN g : (c[i].text \in matched) <=> (g[i].text \in matched)
  BY <1>2
<1>5. \A i \in DOMAIN g : RunOf(c, i, matched) = RunOf(g, i, matched)
  BY <1>1, <1>2, <1>4 DEF RunOf
<1>6. ASSUME NEW i \in DOMAIN g PROVE SortMatchingRuns(c, matched)[i] = SortMatchingRuns(g, matched)[i]
  <2>1. CASE g[i].text \notin matched
    <3>1. SortMatchingRuns(c, matched)[i] = c[i] /\ SortMatchingRuns(g, matched)[i] = g[i]
      BY <1>2, <1>4, <2>1 DEF SortMatchingRuns
    <3> QED BY <1>2, <2>1, <3>1
  <2>2. CASE g[i].text \in matched
    <3> DEFINE run == RunOf(g, i, matched)
               f == [j \in run |-> IF n \notin run THEN j
                                   ELSE IF j = n THEN n + 1 ELSE IF j = n + 1 THEN n ELSE j]
    <3>1. run \in SUBSET DOMAIN g
      BY <2>2, RunHolds
    <3>2. n \in run <=> n + 1 \in run
      <4>1. n \in RunOf(g, n + 1, matched) /\ n + 1 \in RunOf(g, n, matched)
        BY <1>1 DEF RunOf
      <4>2. n \in run => RunOf(g, n, matched) = run
        BY <2>2, RunHolds
      <4>3. n + 1 \in run => RunOf(g, n + 1, matched) = run
        BY <2>2, RunHolds
      <4> QED BY <4>1, <4>2, <4>3
    <3> HIDE DEF run
    <3>3. \A j \in run : f[j] \in run /\ f[f[j]] = j /\ c[f[j]] = g[j]
      <4> SUFFICES ASSUME NEW j \in run PROVE f[j] \in run /\ f[f[j]] = j /\ c[f[j]] = g[j]
        OBVIOUS
      <4>0. j \in DOMAIN g /\ n # n + 1
        BY <1>1, <3>1
      <4>1. CASE n \notin run
        BY <1>2, <3>2, <4>0, <4>1
      <4>2. CASE n \in run
        BY <1>2, <3>2, <4>0, <4>2
      <4> QED BY <4>1, <4>2
    <3>4. f \in [run -> run]
      BY <3>3
    <3> HIDE DEF f
    <3>5. Rearranges(f, run, g, run, c)
      BY <3>3, <3>4 DEF Rearranges
    <3>6. RunOf(c, i, matched) = run /\ c[i].text \in matched /\ i \in DOMAIN c
      BY <1>2, <1>4, <1>5, <2>2 DEF run
    <3>7. RunRearranged(f, run, g, c, i, matched)
      BY <2>2, <3>5, <3>6 DEF run, RunRearranged
    <3> QED BY <3>7, SortedAlike
  <2> QED BY <2>1, <2>2
<1>7. SortMatchingRuns(c, matched) = SortMatchingRuns(g, matched)
  <2> DEFINE h == SortMatchingRuns(g, matched)
             d == SortMatchingRuns(c, matched)
  <2>1. /\ DOMAIN h = DOMAIN g /\ h = [i \in DOMAIN g |-> h[i]]
        /\ DOMAIN d = DOMAIN g /\ d = [i \in DOMAIN g |-> d[i]]
    BY <1>2 DEF SortMatchingRuns
  <2> HIDE DEF h, d
  <2> QED BY <1>6, <2>1 DEF h, d
<1> QED BY <1>7 DEF c

(* The element below all others comes first, and then the others.          *)
Leads(least, S, R, T, Q) ==
  /\ IsFiniteSet(T) /\ StrictOrder(T, Q) /\ StrictOrder(S, R)
  /\ least \notin T /\ S = T \union {least}
  /\ \A y \in T : <<least, y>> \in R
  /\ \A x, y \in T : (<<x, y>> \in R) <=> (<<x, y>> \in Q)

LEMMA LeastFirst ==
  ASSUME NEW T, NEW Q, NEW least, NEW S, NEW R, Leads(least, S, R, T, Q)
  PROVE  /\ Cardinality(T) \in Nat /\ Cardinality(S) = Cardinality(T) + 1
         /\ Enumerate(S, R)[1] = least
         /\ \A j \in 1..Cardinality(T) : Enumerate(S, R)[j + 1] = Enumerate(T, Q)[j]
<1> DEFINE e == Enumerate(S, R)
           d == Enumerate(T, Q)
<1>0. /\ IsFiniteSet(T) /\ StrictOrder(T, Q) /\ StrictOrder(S, R)
      /\ least \notin T /\ S = T \union {least}
      /\ \A y \in T : <<least, y>> \in R
      /\ \A x, y \in T : (<<x, y>> \in R) <=> (<<x, y>> \in Q)
  BY DEF Leads
<1>1. Cardinality(T) \in Nat
  BY <1>0, FS_CardinalityType
<1>2. IsFiniteSet(S) /\ Cardinality(S) = Cardinality(T) + 1
  BY <1>0, FS_AddElement
<1>3. IsEnumeration(e, S, R) /\ IsEnumeration(d, T, Q)
  BY <1>0, <1>2, Enumerates
<1>4. \A x, y \in S : Cardinality(Lower(x, S, R)) = Cardinality(Lower(y, S, R)) => x = y
  BY <1>0, <1>2, OnePlaceEach
<1>5. Cardinality(Lower(least, S, R)) = 0
  <2>1. Lower(least, S, R) = {}
    BY <1>0 DEF Lower, StrictOrder
  <2> QED BY <1>0, <2>1, FS_EmptySet
<1>6. ASSUME NEW y \in T PROVE Cardinality(Lower(y, S, R)) = Cardinality(Lower(y, T, Q)) + 1
  <2>1. Lower(y, S, R) = Lower(y, T, Q) \union {least} /\ least \notin Lower(y, T, Q)
    BY <1>0 DEF Lower
  <2>2. IsFiniteSet(Lower(y, T, Q))
    BY <1>0, FS_Subset DEF Lower
  <2> QED BY <1>0, <2>1, <2>2, FS_AddElement
<1> HIDE DEF e, d
<1>7. e[1] = least
  <2>1. 1 \in 1..Cardinality(S)
    BY <1>0, <1>1, <1>2
  <2>2. e[1] \in S /\ Cardinality(Lower(e[1], S, R)) = 1 - 1
    BY <1>0, <1>3, <2>1 DEF IsEnumeration, Lower
  <2>3. least \in S
    BY <1>0
  <2> QED BY <1>0, <1>4, <1>5, <2>2, <2>3
<1>8. ASSUME NEW j \in 1..Cardinality(T) PROVE e[j + 1] = d[j]
  <2>1. j + 1 \in 1..Cardinality(S) /\ (j + 1) - 1 = j /\ (j - 1) + 1 = j
    BY <1>0, <1>1, <1>2
  <2>2. e[j + 1] \in S /\ Cardinality(Lower(e[j + 1], S, R)) = (j + 1) - 1
    BY <1>0, <1>3, <2>1 DEF IsEnumeration, Lower
  <2>3. d[j] \in T /\ Cardinality(Lower(d[j], T, Q)) = j - 1
    BY <1>0, <1>3 DEF IsEnumeration, Lower
  <2>4. d[j] \in S /\ Cardinality(Lower(d[j], S, R)) = j
    BY <1>0, <1>6, <2>1, <2>3
  <2> QED BY <1>0, <1>4, <2>1, <2>2, <2>4
<1> QED BY <1>0, <1>1, <1>2, <1>7, <1>8 DEF e, d

(* A blank line is sorted before all other lines of its run.               *)
BlankEnds(a, last, whole, run) ==
  /\ last \in DOMAIN a /\ a[last] = Blank
  /\ run \in SUBSET DOMAIN a /\ last \notin run /\ whole = run \union {last}

BlankLeads(s, whole, r, run) ==
  /\ Cardinality(run) \in Nat /\ Cardinality(whole) = Cardinality(run) + 1
  /\ s[1] = Blank
  /\ \A j \in 1..Cardinality(run) : s[j + 1] = r[j]

LEMMA BlankSortedFirst ==
  ASSUME NEW a \in Seq(CleanLine), NEW last, NEW run, NEW whole, BlankEnds(a, last, whole, run)
  PROVE  BlankLeads(StableSort(a, whole, InLineOrder(a, whole)), whole,
                    StableSort(a, run, InLineOrder(a, run)), run)
<1> DEFINE shifted == run \union {0}
           b == [i \in shifted |-> IF i = 0 THEN Blank ELSE a[i]]
           V == {a[i] : i \in whole}
           R == InLineOrder(a, whole)
           Q == InLineOrder(a, run)
           f == [i \in shifted |-> IF i = 0 THEN last ELSE i]
           T == StableOrder(b, shifted, R)
           U == StableOrder(a, run, Q)
<1>0. /\ last \in DOMAIN a /\ a[last] = Blank
      /\ run \in SUBSET DOMAIN a /\ last \notin run /\ whole = run \union {last}
  BY DEF BlankEnds
<1>1. DOMAIN a = 1..Len(a) /\ Len(a) \in Nat
  BY <1>0
<1>2. whole \in SUBSET DOMAIN a /\ whole \in SUBSET Nat /\ run \in SUBSET Nat
      /\ shifted \in SUBSET Nat /\ 0 \notin run
  BY <1>0, <1>1
<1>3. IsFiniteSet(run) /\ IsFiniteSet(shifted)
  <2>1. IsFiniteSet(1..Len(a))
    BY <1>0, <1>1, FS_Interval
  <2>2. IsFiniteSet(run)
    BY <1>0, <1>1, <2>1, FS_Subset
  <2> QED BY <1>0, <2>2, FS_AddElement
<1>4. Cardinality(run) \in Nat /\ Cardinality(whole) = Cardinality(run) + 1
  BY <1>0, <1>3, FS_CardinalityType, FS_AddElement
<1>5. StrictOrder(V, R) /\ StrictOrder({a[i] : i \in run}, Q)
  BY <1>0, <1>2, LinesOrdered
<1>6. /\ b[0] = Blank /\ \A i \in run : b[i] = a[i]
      /\ f[0] = last /\ \A i \in run : f[i] = i
  BY <1>0, <1>2
<1>7. \A i \in shifted : b[i] \in V
  BY <1>0, <1>6
<1>8. Rearranges(f, shifted, b, whole, a)
  <2>1. f \in [shifted -> whole]
    BY <1>0
  <2>2. \A x, y \in shifted : f[x] = f[y] => x = y
    BY <1>0, <1>6
  <2>3. \A z \in whole : \E x \in shifted : f[x] = z
    BY <1>0, <1>6
  <2>4. \A x \in shifted : a[f[x]] = b[x]
    BY <1>0, <1>6
  <2> HIDE DEF f, shifted, b
  <2> QED BY <1>0, <2>1, <2>2, <2>3, <2>4 DEF Rearranges
<1>9. \A i, j \in whole : (<<a[i], a[j]>> \in R) <=> Precedes(a[i], a[j])
  BY <1>0 DEF InLineOrder
<1>10. \A i, j \in run : (<<a[i], a[j]>> \in Q) <=> Precedes(a[i], a[j])
  BY <1>0 DEF InLineOrder
<1> HIDE DEF f, b, V, R, Q
<1>11. StableSort(a, whole, R) = StableSort(b, shifted, R)
  BY <1>2, <1>3, <1>5, <1>7, <1>8, SortForgetsOrder
<1>12. StrictOrder(shifted, T)
  BY <1>0, <1>2, <1>5, <1>7, StableOrdered
<1>13. StrictOrder(run, U)
  <2> DEFINE W == {a[i] : i \in run}
  <2>1. \A i \in run : a[i] \in W
    BY <1>0
  <2>2. StrictOrder(W, Q)
    BY <1>0, <1>5
  <2> HIDE DEF W
  <2> QED BY <1>0, <1>2, <2>1, <2>2, StableOrdered
<1>14. ASSUME NEW y \in run PROVE <<0, y>> \in T
  <2>1. a[y] \in CleanLine /\ y \in Nat /\ 0 < y
    BY <1>0, <1>1
  <2>2. Precedes(Blank, a[y]) \/ Blank = a[y]
    <3> DEFINE l == a[y]
    <3>1. l.text \in Nat /\ l.comment \in BOOLEAN /\ l = [text |-> l.text, comment |-> l.comment, spaced |-> FALSE]
      <4>1. /\ l.text \in Nat /\ l.comment \in BOOLEAN /\ l.spaced = FALSE
            /\ l = [text |-> l.text, comment |-> l.comment, spaced |-> l.spaced]
        BY <1>0, <2>1 DEF CleanLine
      <4> QED BY <1>0, <4>1
    <3> HIDE DEF l
    <3>2. CASE l.text = 0 /\ l.comment = FALSE
      BY <1>0, <3>1, <3>2 DEF Blank, l
    <3>3. CASE ~(l.text = 0 /\ l.comment = FALSE)
      <4>1. 0 < l.text \/ (0 = l.text /\ l.comment)
        BY <1>0, <3>1, <3>3
      <4>2. Blank.text = 0 /\ Blank.comment = FALSE
        BY <1>0 DEF Blank
      <4>3. Precedes(Blank, l)
        BY <1>0, <4>1, <4>2 DEF Precedes
      <4> QED BY <1>0, <4>3 DEF l
    <3> QED BY <1>0, <3>2, <3>3
  <2>3. <<b[0], b[y]>> \in R \/ b[0] = b[y]
    BY <1>0, <1>6, <1>9, <2>2
  <2> QED BY <1>0, <2>1, <2>3 DEF StableOrder
<1>15. ASSUME NEW x \in run, NEW y \in run PROVE (<<x, y>> \in T) <=> (<<x, y>> \in U)
  <2>1. (<<b[x], b[y]>> \in R) <=> (<<a[x], a[y]>> \in Q)
    BY <1>0, <1>6, <1>9, <1>10
  <2>2. b[x] = a[x] /\ b[y] = a[y] /\ x \in shifted /\ y \in shifted
    BY <1>0, <1>6
  <2> QED BY <1>0, <2>1, <2>2 DEF StableOrder
<1> HIDE DEF T, U
<1>16. /\ Enumerate(shifted, T)[1] = 0
       /\ \A j \in 1..Cardinality(run) : Enumerate(shifted, T)[j + 1] = Enumerate(run, U)[j]
       /\ Cardinality(shifted) = Cardinality(run) + 1
  <2> DEFINE zero == 0
  <2>1. shifted = run \union {zero} /\ zero \notin run
    BY <1>0, <1>2
  <2>2. \A y \in run : <<zero, y>> \in T
    BY <1>0, <1>14
  <2>3. \A x, y \in run : (<<x, y>> \in T) <=> (<<x, y>> \in U)
    BY <1>0, <1>15
  <2> HIDE DEF shifted, zero
  <2>4. /\ Cardinality(shifted) = Cardinality(run) + 1
        /\ Enumerate(shifted, T)[1] = zero
        /\ \A j \in 1..Cardinality(run) : Enumerate(shifted, T)[j + 1] = Enumerate(run, U)[j]
    <3>1. Leads(zero, shifted, T, run, U)
      BY <1>3, <1>12, <1>13, <2>1, <2>2, <2>3 DEF Leads
    <3> QED BY <3>1, LeastFirst
  <2> QED BY <1>0, <2>4 DEF zero
<1>17. \A j \in 1..Cardinality(shifted) : StableSort(b, shifted, R)[j] = b[Enumerate(shifted, T)[j]]
  BY <1>0 DEF StableSort, T
<1>18. \A j \in 1..Cardinality(run) :
         /\ StableSort(a, run, Q)[j] = a[Enumerate(run, U)[j]]
         /\ Enumerate(run, U)[j] \in run
  <2>1. IsEnumeration(Enumerate(run, U), run, U)
    BY <1>0, <1>3, <1>13, Enumerates
  <2>2. \A j \in 1..Cardinality(run) : Enumerate(run, U)[j] \in run
    BY <1>0, <2>1 DEF IsEnumeration
  <2> QED BY <1>0, <2>2 DEF StableSort, U
<1>19. StableSort(b, shifted, R)[1] = Blank
  <2>1. 1 \in 1..Cardinality(shifted)
    BY <1>0, <1>4, <1>16
  <2> QED BY <1>0, <1>6, <1>16, <1>17, <2>1
<1>20. ASSUME NEW j \in 1..Cardinality(run)
       PROVE  StableSort(b, shifted, R)[j + 1] = StableSort(a, run, Q)[j]
  <2>1. j + 1 \in 1..Cardinality(shifted)
    BY <1>0, <1>4, <1>16
  <2>2. StableSort(b, shifted, R)[j + 1] = b[Enumerate(run, U)[j]]
    BY <1>0, <1>16, <1>17, <2>1
  <2>3. StableSort(a, run, Q)[j] = a[Enumerate(run, U)[j]] /\ Enumerate(run, U)[j] \in run
    BY <1>0, <1>18
  <2> QED BY <1>0, <1>6, <2>2, <2>3
<1>21. BlankLeads(StableSort(a, whole, R), whole, StableSort(a, run, Q), run)
  BY <1>4, <1>11, <1>19, <1>20 DEF BlankLeads
<1> QED BY <1>21 DEF R, Q

(* What stands at the places of a file once a blank line more is sorted in:*)
(* in the run that ends the file, the lines move up by one.                *)
MovedUp(g, a, end, h, c) ==
  /\ end \subseteq DOMAIN g
  /\ \A i \in end, k \in DOMAIN g : i <= k => k \in end
  /\ \A i \in DOMAIN g \ end : c[i] = h[i]
  /\ \A i \in end : c[i + 1] = h[i]
  /\ \A i \in DOMAIN a : i \in end \union {Len(a)} => i - 1 \in end \/ c[i] = Blank

LEMMA BlankSortedIn ==
  ASSUME NEW g \in Seq(CleanLine), NEW matched, Blank.text \in matched,
         NEW a, a = Append(g, Blank), NEW end, end = RunOf(a, Len(a), matched) \ {Len(a)},
         NEW h, h = SortMatchingRuns(g, matched), NEW c, c = SortMatchingRuns(a, matched)
  PROVE  MovedUp(g, a, end, h, c)
<1> DEFINE n == Len(g)
           whole == RunOf(a, n + 1, matched)
<1>1. /\ DOMAIN g = 1..n /\ n \in Nat /\ a \in Seq(CleanLine)
      /\ DOMAIN a = 1..(n + 1) /\ Len(a) = n + 1 /\ a[n + 1] = Blank
      /\ \A i \in DOMAIN g : a[i] = g[i]
  BY DEF CleanLine, Blank
<1> HIDE DEF n
<1>2. n + 1 \in DOMAIN a /\ a[n + 1].text \in matched
  BY <1>1
<1>3. /\ n + 1 \in whole /\ whole \in SUBSET DOMAIN a /\ whole \in SUBSET Nat /\ IsFiniteSet(whole)
      /\ \A j \in whole : a[j].text \in matched /\ RunOf(a, j, matched) = whole
  BY <1>1, <1>2, RunHolds
<1>4. whole = end \union {n + 1} /\ n + 1 \notin end /\ end \subseteq DOMAIN g /\ end \in SUBSET Nat
  <2>1. end = whole \ {n + 1}
    BY <1>1
  <2> HIDE DEF whole
  <2> QED BY <1>1, <1>3, <2>1
<1>5. \A i \in DOMAIN a : i \in whole <=> \A k \in DOMAIN a : i <= k => a[k].text \in matched
  BY <1>1 DEF RunOf
<1> HIDE DEF whole
<1>6. \A i \in end, k \in DOMAIN g : i <= k => k \in end
  <2> SUFFICES ASSUME NEW i \in end, NEW k \in DOMAIN g, i <= k PROVE k \in end
    OBVIOUS
  <2>1. i \in whole /\ i \in DOMAIN a /\ k \in DOMAIN a /\ k # n + 1 /\ i \in Nat /\ k \in Nat
    BY <1>1, <1>3, <1>4
  <2>2. ASSUME NEW l \in DOMAIN a, k <= l PROVE a[l].text \in matched
    <3>1. i <= l
      BY <1>1, <2>1, <2>2
    <3> QED BY <1>5, <2>1, <3>1
  <2> QED BY <1>4, <1>5, <2>1, <2>2
<1>7. ASSUME NEW i \in DOMAIN g, NEW j \in DOMAIN g
      PROVE  j \in RunOf(a, i, matched) <=> j \in RunOf(g, i, matched)
  <2>1. \A k \in (i..j) \union (j..i) : k \in DOMAIN g /\ a[k] = g[k]
    BY <1>1
  <2>2. j \in DOMAIN a
    BY <1>1
  <2> QED BY <2>1, <2>2 DEF RunOf
<1>8. \A i \in end : RunOf(g, i, matched) = end /\ g[i].text \in matched /\ RunOf(a, i, matched) = whole
  <2> SUFFICES ASSUME NEW i \in end
               PROVE  RunOf(g, i, matched) = end /\ g[i].text \in matched /\ RunOf(a, i, matched) = whole
    OBVIOUS
  <2>1. i \in whole /\ i \in DOMAIN g
    BY <1>4
  <2>2. RunOf(a, i, matched) = whole /\ a[i].text \in matched
    BY <1>3, <2>1
  <2>3. RunOf(g, i, matched) \subseteq DOMAIN g
    BY DEF RunOf
  <2>4. \A j \in DOMAIN g : j \in RunOf(g, i, matched) <=> j \in end
    BY <1>1, <1>4, <1>7, <2>1, <2>2
  <2> QED BY <1>1, <1>4, <2>1, <2>2, <2>3, <2>4
<1>9. ASSUME NEW i \in DOMAIN g \ end PROVE c[i] = h[i]
  <2>1. i \in DOMAIN a /\ i \in DOMAIN g
    BY <1>1
  <2>2. CASE g[i].text \notin matched
    BY <1>1, <2>1, <2>2 DEF SortMatchingRuns
  <2>3. CASE g[i].text \in matched
    <3> DEFINE run == RunOf(g, i, matched)
               f == [j \in run |-> j]
    <3>1. run \subseteq DOMAIN g
      BY DEF RunOf
    <3>2. n + 1 \notin RunOf(a, i, matched)
      <4> SUFFICES ASSUME n + 1 \in RunOf(a, i, matched) PROVE FALSE
        OBVIOUS
      <4>1. RunOf(a, n + 1, matched) = RunOf(a, i, matched) /\ i \in RunOf(a, i, matched)
        BY <1>1, <2>1, <2>3, RunHolds
      <4> QED BY <1>1, <1>4, <2>1, <4>1 DEF whole
    <3>3. RunOf(a, i, matched) \subseteq DOMAIN a
      BY DEF RunOf
    <3>4. \A j \in RunOf(a, i, matched) : j \in DOMAIN g
      BY <1>1, <3>2, <3>3
    <3>5. RunOf(a, i, matched) = run
      BY <1>7, <2>1, <3>1, <3>4
    <3> HIDE DEF run
    <3>6. Rearranges(f, run, g, run, a)
      BY <1>1, <3>1 DEF Rearranges
    <3> HIDE DEF f
    <3>7. a[i].text \in matched
      BY <1>1, <2>1, <2>3
    <3>8. i \in DOMAIN a /\ RunOf(g, i, matched) = run
      BY <2>1 DEF run
    <3>9. SortMatchingRuns(a, matched)[i] = SortMatchingRuns(g, matched)[i]
      <4>1. RunRearranged(f, run, g, a, i, matched)
        BY <2>1, <2>3, <3>5, <3>6, <3>7, <3>8 DEF RunRearranged
      <4> QED BY <4>1, SortedAlike
    <3> QED BY <3>9
  <2> QED BY <2>2, <2>3
<1> DEFINE s == StableSort(a, whole, InLineOrder(a, whole))
           r == StableSort(a, end, InLineOrder(a, end))
<1>10. /\ Cardinality(end) \in Nat /\ Cardinality(whole) = Cardinality(end) + 1
       /\ s[1] = Blank
       /\ \A j \in 1..Cardinality(end) : s[j + 1] = r[j]
  <2>1. end \in SUBSET DOMAIN a
    BY <1>1, <1>4
  <2> DEFINE last == n + 1
  <2>3. last \in DOMAIN a /\ a[last] = Blank /\ last \notin end /\ whole = end \union {last}
    BY <1>1, <1>2, <1>4
  <2> HIDE DEF last
  <2>4. BlankEnds(a, last, whole, end)
    BY <2>1, <2>3 DEF BlankEnds
  <2>5. BlankLeads(s, whole, r, end)
    BY <1>1, <2>4, BlankSortedFirst
  <2> HIDE DEF s, r
  <2> QED BY <2>5 DEF BlankLeads
<1>11. \A i \in whole : c[i] = s[PlaceIn(whole, i)]
  <2> SUFFICES ASSUME NEW i \in whole PROVE c[i] = s[PlaceIn(whole, i)]
    OBVIOUS
  <2>1. i \in DOMAIN a /\ a[i].text \in matched /\ RunOf(a, i, matched) = whole
    BY <1>3
  <2> QED BY <2>1 DEF SortMatchingRuns, PlaceIn
<1>12. r = StableSort(g, end, InLineOrder(g, end))
  <2> DEFINE f == [j \in end |-> j]
             V == {g[j] : j \in end}
             R == InLineOrder(g, end)
  <2>1. Rearranges(f, end, g, end, a)
    BY <1>1, <1>4 DEF Rearranges
  <2>2. StrictOrder(V, R) /\ \A j \in end : g[j] \in V
    BY <1>4, LinesOrdered
  <2>3. InLineOrder(a, end) = R
    <3>1. {a[j] : j \in end} = V
      BY <1>1, <1>4
    <3> QED BY <3>1 DEF InLineOrder
  <2>4. IsFiniteSet(end)
    BY <1>3, <1>4, FS_Subset
  <2> HIDE DEF f, V, R
  <2>5. StableSort(a, end, R) = StableSort(g, end, R)
    BY <1>4, <2>1, <2>2, <2>4, SortForgetsOrder
  <2> QED BY <2>3, <2>5 DEF R
<1>13. \A i \in end : h[i] = r[PlaceIn(end, i)]
  <2> SUFFICES ASSUME NEW i \in end PROVE h[i] = r[PlaceIn(end, i)]
    OBVIOUS
  <2>1. i \in DOMAIN g /\ g[i].text \in matched /\ RunOf(g, i, matched) = end
    BY <1>4, <1>8
  <2>2. h[i] = StableSort(g, end, InLineOrder(g, end))[PlaceIn(end, i)]
    BY <2>1 DEF SortMatchingRuns, PlaceIn
  <2> QED BY <1>12, <2>2
<1> HIDE DEF s, r
<1>14. IsFiniteSet(end)
  BY <1>3, <1>4, FS_Subset
<1>15. ASSUME NEW i \in end PROVE c[i + 1] = h[i]
  <2>1. i + 1 \in whole
    <3>1. i \in 1..n
      BY <1>1, <1>4
    <3>2. i = n \/ i + 1 \in end
      BY <1>1, <1>6, <3>1
    <3> QED BY <1>4, <3>2
  <2> DEFINE up == {j \in end : j <= i}
  <2>2. {j \in whole : j <= i + 1} = up \union {i + 1} /\ i + 1 \notin up
    <3>1. \A j \in whole : j \in Nat /\ i \in Nat /\ (j <= i + 1 <=> (j <= i \/ j = i + 1))
      BY <1>3, <1>4
    <3>2. \A j \in whole : j <= i => j \in end
      BY <1>1, <1>4, <3>1
    <3> QED BY <1>4, <2>1, <3>1, <3>2
  <2>3. IsFiniteSet(up)
    BY <1>14, FS_Subset
  <2>4. PlaceIn(whole, i + 1) = PlaceIn(end, i) + 1
    <3> HIDE DEF up
    <3>1. Cardinality(up \union {i + 1}) = Cardinality(up) + 1
      BY <2>2, <2>3, FS_AddElement
    <3> QED BY <2>2, <3>1 DEF PlaceIn, up
  <2>5. PlaceIn(end, i) \in 1..Cardinality(end)
    BY <1>4, <1>14, PlacesInRun
  <2> DEFINE p == PlaceIn(end, i)
  <2>6. s[p + 1] = r[p] /\ h[i] = r[p]
    BY <1>10, <1>13, <2>5
  <2> QED BY <1>11, <2>1, <2>4, <2>6
<1>16. ASSUME NEW i \in DOMAIN a, i \in end \union {Len(a)}, i - 1 \notin end PROVE c[i] = Blank
  <2>1. i \in whole /\ i \in 1..(n + 1)
    BY <1>1, <1>4, <1>16
  <2>2. \A j \in whole : j <= i => j = i
    <3> SUFFICES ASSUME NEW j \in whole, j <= i, j # i PROVE FALSE
      OBVIOUS
    <3>1. j \in 1..(n + 1) /\ j <= i - 1 /\ i - 1 \in 1..n
      BY <1>1, <1>3, <2>1
    <3>2. j \in end
      BY <1>1, <1>4, <3>1
    <3> QED BY <1>1, <1>6, <1>16, <3>1, <3>2
  <2>3. {j \in whole : j <= i} = {i}
    BY <2>1, <2>2
  <2>4. PlaceIn(whole, i) = 1
    BY <2>3, FS_Singleton DEF PlaceIn
  <2> QED BY <1>10, <1>11, <2>1, <2>4
<1> QED BY <1>4, <1>6, <1>9, <1>15, <1>16 DEF MovedUp

(* Of a blank line at the end nothing is left.                             *)
LEMMA BlankDroppedBetween ==
  ASSUME NEW g \in Seq(CleanLine), NEW matched, Blank.text \notin matched
  PROVE  LET h == SortMatchingRuns(g, matched)
             c == SortMatchingRuns(Append(g, Blank), matched)
         IN Keep(c, {i \in DOMAIN c : c[i] # Blank}) = Keep(h, {i \in DOMAIN h : h[i] # Blank})
<1> DEFINE a == Append(g, Blank)
           h == SortMatchingRuns(g, matched)
           c == SortMatchingRuns(a, matched)
<1>1. /\ DOMAIN g = 1..Len(g) /\ Len(g) \in Nat /\ a \in Seq(CleanLine)
      /\ DOMAIN a = 1..(Len(g) + 1) /\ a[Len(g) + 1] = Blank
      /\ \A i \in DOMAIN g : a[i] = g[i]
  BY DEF CleanLine, Blank
<1>2. Blank.text \notin matched
  OBVIOUS
<1> HIDE DEF a
<1>3. c[Len(g) + 1] = Blank
  BY <1>1, <1>2 DEF SortMatchingRuns
<1>4. \A i \in DOMAIN g : i \in DOMAIN a /\ (i..(Len(g) + 1)) \union ((Len(g) + 1)..i) = i..(Len(g) + 1)
  BY <1>1
<1>5. ASSUME NEW i \in DOMAIN g PROVE RunOf(a, i, matched) = RunOf(g, i, matched)
  <2>1. ASSUME NEW j \in RunOf(a, i, matched) PROVE j \in RunOf(g, i, matched)
    <3>1. j \in 1..(Len(g) + 1) /\ \A k \in (i..j) \union (j..i) : a[k].text \in matched
      BY <1>1 DEF RunOf
    <3>2. j # Len(g) + 1
      <4> SUFFICES ASSUME j = Len(g) + 1 PROVE FALSE
        OBVIOUS
      <4>1. j \in (i..j) \union (j..i)
        BY <1>1, <3>1
      <4> QED BY <1>1, <1>2, <3>1, <4>1
    <3>3. j \in DOMAIN g
      BY <1>1, <3>1, <3>2
    <3>4. \A k \in (i..j) \union (j..i) : k \in DOMAIN g
      BY <1>1, <3>3
    <3> QED BY <1>1, <3>1, <3>3, <3>4 DEF RunOf
  <2>2. ASSUME NEW j \in RunOf(g, i, matched) PROVE j \in RunOf(a, i, matched)
    <3>1. j \in DOMAIN g /\ \A k \in (i..j) \union (j..i) : g[k].text \in matched
      BY DEF RunOf
    <3>2. \A k \in (i..j) \union (j..i) : k \in DOMAIN g
      BY <1>1, <3>1
    <3> QED BY <1>1, <3>1, <3>2 DEF RunOf
  <2> QED BY <2>1, <2>2
<1>6. ASSUME NEW i \in DOMAIN g PROVE c[i] = h[i]
  <2>1. i \in DOMAIN a
    BY <1>1
  <2>2. CASE g[i].text \notin matched
    BY <1>1, <2>1, <2>2 DEF SortMatchingRuns
  <2>3. CASE g[i].text \in matched
    <3> DEFINE run == RunOf(g, i, matched)
               f == [j \in run |-> j]
    <3>1. \A j \in run : j \in DOMAIN g
      BY DEF RunOf
    <3> HIDE DEF run
    <3>2. Rearranges(f, run, g, run, a)
      BY <1>1, <3>1 DEF Rearranges
    <3> HIDE DEF f
    <3>3. RunOf(a, i, matched) = run /\ a[i].text \in matched
      BY <1>1, <1>5, <2>3 DEF run
    <3>4. RunRearranged(f, run, g, a, i, matched)
      BY <2>1, <2>3, <3>2, <3>3 DEF run, RunRearranged
    <3> QED BY <3>4, SortedAlike
  <2> QED BY <2>2, <2>3
<1>7. DOMAIN c = DOMAIN a /\ DOMAIN h = DOMAIN g
  BY DEF SortMatchingRuns
<1> HIDE DEF c, h
<1> DEFINE A == {i \in DOMAIN h : h[i] # Blank}
           B == {i \in DOMAIN c : c[i] # Blank}
<1>8. A = B
  BY <1>1, <1>3, <1>6, <1>7
<1>9. A \in SUBSET Nat /\ IsFiniteSet(A)
  <2>1. IsFiniteSet(1..Len(g)) /\ A \subseteq 1..Len(g)
    <3>1. IsFiniteSet(1..Len(g))
      BY <1>1, FS_Interval
    <3> QED BY <1>1, <1>7, <3>1
  <2> QED BY <1>1, <2>1, FS_Subset
<1>10. \A i \in A : c[i] = h[i]
  BY <1>6, <1>7
<1>11. Keep(c, A) = Keep(h, A)
  <2> DEFINE f == [i \in A |-> i]
  <2> HIDE DEF A
  <2>1. Follows(f, A, h, A, c)
    BY <1>10 DEF Follows
  <2> HIDE DEF f
  <2> QED BY <1>9, <2>1, KeepThrough
<1>12. Keep(c, B) = Keep(h, A)
  BY <1>8, <1>11
<1> QED BY <1>12 DEF c, h, a

LEMMA BlankDropped ==
  ASSUME NEW g \in Seq(CleanLine), NEW matched
  PROVE  LET h == SortMatchingRuns(g, matched)
             c == SortMatchingRuns(Append(g, Blank), matched)
         IN Keep(c, {i \in DOMAIN c : c[i] # Blank}) = Keep(h, {i \in DOMAIN h : h[i] # Blank})
<1>1. CASE Blank.text \notin matched
  BY <1>1, BlankDroppedBetween
<1>2. CASE Blank.text \in matched
  <2> DEFINE a == Append(g, Blank)
             h == SortMatchingRuns(g, matched)
             c == SortMatchingRuns(a, matched)
             end == RunOf(a, Len(a), matched) \ {Len(a)}
             A == {i \in DOMAIN h : h[i] # Blank}
             B == {i \in DOMAIN c : c[i] # Blank}
             f == [i \in A |-> IF i \in end THEN i + 1 ELSE i]
  <2>1. /\ DOMAIN g = 1..Len(g) /\ Len(g) \in Nat /\ Len(a) = Len(g) + 1 /\ DOMAIN a = 1..(Len(g) + 1)
    OBVIOUS
  <2>2. DOMAIN h = DOMAIN g /\ DOMAIN c = DOMAIN a
    BY DEF SortMatchingRuns
  <2> HIDE DEF a, h, c, end
  <2>3. /\ end \subseteq DOMAIN g
        /\ \A i \in end, k \in DOMAIN g : i <= k => k \in end
        /\ \A i \in DOMAIN g \ end : c[i] = h[i]
        /\ \A i \in end : c[i + 1] = h[i]
        /\ \A i \in DOMAIN a : i \in end \union {Len(a)} => i - 1 \in end \/ c[i] = Blank
    <3>1. MovedUp(g, a, end, h, c)
      BY <1>2, BlankSortedIn DEF a, h, c, end
    <3> QED BY <3>1 DEF MovedUp
  <2>4. A \in SUBSET Nat /\ B \in SUBSET Nat /\ A \subseteq DOMAIN g /\ IsFiniteSet(A)
    <3>1. IsFiniteSet(1..Len(g))
      BY <2>1, FS_Interval
    <3> QED BY <2>1, <2>2, <3>1, FS_Subset
  <2>5. \A i \in A : f[i] = (IF i \in end THEN i + 1 ELSE i) /\ f[i] \in DOMAIN c /\ c[f[i]] = h[i]
    BY <2>1, <2>2, <2>3
  <2>6. f \in [A -> B]
    BY <2>5
  <2>7. \A x, y \in A : (f[x] < f[y]) <=> (x < y)
    <3> SUFFICES ASSUME NEW x \in A, NEW y \in A PROVE (f[x] < f[y]) <=> (x < y)
      OBVIOUS
    <3>1. x \in Nat /\ y \in Nat /\ x \in DOMAIN g /\ y \in DOMAIN g
      BY <2>4
    <3>2. x \in end /\ x <= y => y \in end
      BY <2>3, <3>1
    <3>3. y \in end /\ y <= x => x \in end
      BY <2>3, <3>1
    <3> HIDE DEF A, f
    <3> QED BY <2>5, <3>1, <3>2, <3>3
  <2>8. ASSUME NEW x \in B PROVE \E i \in A : f[i] = x
    <3>1. x \in 1..(Len(g) + 1) /\ c[x] # Blank /\ x \in DOMAIN a
      BY <2>1, <2>2
    <3>2. CASE x \in end \union {Len(a)}
      <4>1. x - 1 \in end
        BY <2>3, <3>1, <3>2
      <4>2. c[(x - 1) + 1] = h[x - 1] /\ (x - 1) + 1 = x
        BY <2>3, <3>1, <4>1
      <4>3. x - 1 \in A
        BY <2>2, <2>3, <3>1, <4>1, <4>2
      <4> QED BY <2>5, <4>1, <4>2, <4>3
    <3>3. CASE x \notin end \union {Len(a)}
      <4>1. x \in DOMAIN g \ end
        BY <2>1, <3>1, <3>3
      <4>2. x \in A
        BY <2>2, <2>3, <3>1, <4>1
      <4> QED BY <2>5, <4>1, <4>2
    <3> QED BY <3>2, <3>3
  <2>9. \A i \in A : c[f[i]] = h[i]
    BY <2>5
  <2> HIDE DEF A, B, f
  <2>10. Follows(f, A, h, B, c)
    BY <2>6, <2>7, <2>8, <2>9 DEF Follows
  <2>11. Keep(c, B) = Keep(h, A)
    BY <2>4, <2>10, KeepThrough
  <2> QED BY <2>11 DEF A, B, a, h, c
<1> QED BY <1>1, <1>2

(* Sorting and dropping keep the essence.                                  *)
LEMMA EssenceKept ==
  ASSUME NEW g \in Seq(CleanLine), NEW matched,
         NEW h, h = SortMatchingRuns(g, matched),
         NEW B, B = {i \in DOMAIN h : h[i] # Blank}, NEW k, k = Keep(h, B)
  PROVE  Essence(k, matched) = Essence(g, matched)
<1> DEFINE a == Ascending(B)
           n == Cardinality(B)
           FG == FixedLines(g, matched)
           FK == FixedLines(k, matched)
<1>1. PICK m : MovesLines(m, g, h, matched)
  BY RunsMoved
<1>2. /\ m \in [DOMAIN g -> DOMAIN g] /\ DOMAIN h = DOMAIN g
      /\ \A i, j \in DOMAIN g : m[i] = m[j] => i = j
      /\ \A j \in DOMAIN g : \E i \in DOMAIN g : m[i] = j
      /\ \A i \in DOMAIN g : /\ h[i] = g[m[i]]
                             /\ (h[i].text \in matched) <=> (g[i].text \in matched)
                             /\ g[i].text \notin matched => m[i] = i
                             /\ g[i].text \in matched => m[i] \in RunOf(g, i, matched)
  BY <1>1 DEF MovesLines
<1>3. DOMAIN g = 1..Len(g) /\ Len(g) \in Nat
  OBVIOUS
<1>4. B \in SUBSET Nat /\ B \subseteq DOMAIN g /\ IsFiniteSet(B)
  <2>1. IsFiniteSet(1..Len(g))
    BY <1>3, FS_Interval
  <2> QED BY <1>2, <1>3, <2>1, FS_Subset
<1>5. n \in Nat /\ IsAscending(a, B)
  BY <1>4, AscendingInOrder
<1>6. DOMAIN k = 1..n /\ \A j \in 1..n : k[j] = h[a[j]]
  BY DEF Keep
<1>7. \A i \in DOMAIN g : i \in B <=> h[i] # Blank
  BY <1>2
<1> HIDE DEF a, n
<1>9. /\ \A j \in 1..n : a[j] \in B /\ a[j] \in DOMAIN g
      /\ \A i \in B : \E j \in 1..n : a[j] = i
      /\ \A i, j \in 1..n : (a[i] < a[j]) <=> (i < j)
  BY <1>4, <1>5 DEF IsAscending, n
<1>10. \A i \in DOMAIN g : i \in FG <=> (h[i] # Blank /\ h[i].text \notin matched)
  BY <1>2 DEF FixedLines
<1>11. FG \subseteq B /\ FG \subseteq DOMAIN g
  BY <1>7, <1>10 DEF FixedLines
<1>12. FK \subseteq 1..n /\ \A j \in 1..n : j \in FK <=> a[j] \in FG
  BY <1>6, <1>7, <1>9, <1>10 DEF FixedLines
<1>13. \A i \in FG : h[i] = g[i]
  BY <1>2, <1>10, <1>11
<1>14. FG \in SUBSET Nat /\ FK \in SUBSET Nat /\ IsFiniteSet(FG) /\ IsFiniteSet(FK)
  <2>1. IsFiniteSet(FG)
    BY <1>4, <1>11, FS_Subset
  <2>2. IsFiniteSet(1..n)
    BY <1>5, FS_Interval
  <2>3. IsFiniteSet(FK)
    BY <1>12, <2>2, FS_Subset
  <2> QED BY <1>4, <1>5, <1>11, <1>12, <2>1, <2>3
<1> HIDE DEF FG, FK
<1>15. Keep(g, FG) = Keep(k, FK) /\ Cardinality(FG) = Cardinality(FK)
  <2> DEFINE f == [j \in FK |-> a[j]]
  <2>1. f \in [FK -> FG] /\ \A i, j \in FK : (f[i] < f[j]) <=> (i < j)
    BY <1>9, <1>12
  <2>2. \A i \in FG : \E j \in FK : f[j] = i
    BY <1>9, <1>11, <1>12
  <2>3. \A j \in FK : g[f[j]] = k[j]
    BY <1>6, <1>12, <1>13
  <2> HIDE DEF f
  <2>4. Follows(f, FK, k, FG, g)
    BY <2>1, <2>2, <2>3 DEF Follows
  <2> QED BY <1>14, <2>4, KeepThrough
<1>16. ASSUME NEW j \in 1..n PROVE GapOf(k, j, matched) = GapOf(g, a[j], matched)
  <2> DEFINE low == {l \in FK : l < j}
             up == {i \in FG : i < a[j]}
             f == [l \in low |-> a[l]]
  <2>1. f \in [low -> up] /\ \A x, y \in low : f[x] = f[y] => x = y
    <3>1. \A l \in low : a[l] \in up
      BY <1>9, <1>12
    <3>2. \A x, y \in low : a[x] = a[y] => x = y
      <4> SUFFICES ASSUME NEW x \in low, NEW y \in low, a[x] = a[y] PROVE x = y
        OBVIOUS
      <4>1. x \in 1..n /\ y \in 1..n /\ a[x] \in Nat /\ a[y] \in Nat
        BY <1>4, <1>9, <1>12
      <4>2. ~(x < y) /\ ~(y < x)
        BY <1>9, <4>1
      <4> QED BY <4>1, <4>2
    <3> QED BY <3>1, <3>2
  <2>2. \A i \in up : \E l \in low : f[l] = i
    <3> SUFFICES ASSUME NEW i \in up PROVE \E l \in low : f[l] = i
      OBVIOUS
    <3>1. PICK l \in 1..n : a[l] = i
      BY <1>9, <1>11
    <3>2. l \in low
      BY <1>9, <1>12, <3>1
    <3> QED BY <3>1, <3>2
  <2>3. IsFiniteSet(low)
    BY <1>14, FS_Subset
  <2>4. Cardinality(up) = Cardinality(low)
    <3> HIDE DEF low, up, f
    <3> QED BY <2>1, <2>2, <2>3, SameCount
  <2> QED BY <2>4 DEF GapOf, FG, FK
<1>17. ASSUME NEW i \in DOMAIN g PROVE GapOf(g, m[i], matched) = GapOf(g, i, matched)
  <2>1. CASE g[i].text \notin matched
    BY <1>2, <2>1
  <2>2. CASE g[i].text \in matched
    <3>1. \A j \in FG : (j < i) <=> (j < m[i])
      <4>1. \A j \in FG : j \in DOMAIN g /\ g[j].text \notin matched
        BY <1>11 DEF FG, FixedLines
      <4>2. m[i] \in RunOf(g, i, matched)
        BY <1>2, <2>2
      <4>3. \A j \in RunOf(g, i, matched), l \in DOMAIN g : g[l].text \notin matched => ((l < i) <=> (l < j))
        BY <2>2, RunHolds
      <4> QED BY <4>1, <4>2, <4>3
    <3>2. {j \in FG : j < i} = {j \in FG : j < m[i]}
      BY <3>1
    <3> QED BY <3>2 DEF GapOf, FG
  <2> QED BY <2>1, <2>2
<1>18. ASSUME NEW gap, NEW text \in matched, NEW comment
       PROVE  Cardinality(LinesInGap(k, gap, text, comment, matched))
                = Cardinality(LinesInGap(g, gap, text, comment, matched))
  <2> DEFINE LK == LinesInGap(k, gap, text, comment, matched)
             LG == LinesInGap(g, gap, text, comment, matched)
             f == [j \in LK |-> m[a[j]]]
  <2>1. LK \subseteq 1..n /\ LG \subseteq DOMAIN g
    BY <1>6 DEF LinesInGap
  <2>2. \A j \in 1..n : /\ m[a[j]] \in DOMAIN g /\ k[j] = g[m[a[j]]]
                        /\ GapOf(g, m[a[j]], matched) = GapOf(k, j, matched)
    <3> SUFFICES ASSUME NEW j \in 1..n
                 PROVE  /\ m[a[j]] \in DOMAIN g /\ k[j] = g[m[a[j]]]
                        /\ GapOf(g, m[a[j]], matched) = GapOf(k, j, matched)
      OBVIOUS
    <3>1. a[j] \in DOMAIN g
      BY <1>9
    <3>2. m[a[j]] \in DOMAIN g /\ h[a[j]] = g[m[a[j]]]
      BY <1>2, <3>1
    <3>3. k[j] = h[a[j]]
      BY <1>6
    <3>4. GapOf(g, m[a[j]], matched) = GapOf(g, a[j], matched)
      BY <1>17, <3>1
    <3>5. GapOf(k, j, matched) = GapOf(g, a[j], matched)
      BY <1>16
    <3> QED BY <3>2, <3>3, <3>4, <3>5
  <2>3. \A j \in LK : m[a[j]] \in LG
    BY <1>6, <2>1, <2>2 DEF LinesInGap
  <2>4. \A x, y \in 1..n : m[a[x]] = m[a[y]] => x = y
    <3> SUFFICES ASSUME NEW x \in 1..n, NEW y \in 1..n, m[a[x]] = m[a[y]] PROVE x = y
      OBVIOUS
    <3>1. a[x] = a[y] /\ a[x] \in Nat /\ a[y] \in Nat
      BY <1>2, <1>4, <1>9
    <3>2. ~(x < y) /\ ~(y < x)
      BY <1>9, <3>1
    <3> QED BY <1>5, <3>2
  <2>5. ASSUME NEW i \in LG PROVE \E j \in LK : m[a[j]] = i
    <3>1. i \in DOMAIN g /\ g[i] # Blank /\ g[i].text = text /\ GapOf(g, i, matched) = gap /\ g[i].comment = comment
      BY DEF LinesInGap
    <3>2. PICK l \in DOMAIN g : m[l] = i
      BY <1>2, <3>1
    <3>3. h[l] = g[i]
      BY <1>2, <3>2
    <3>4. h[l] # Blank
      BY <3>1, <3>3
    <3>5. PICK j \in 1..n : a[j] = l
      BY <1>7, <1>9, <3>4
    <3>6. j \in LK
      BY <1>6, <2>2, <3>1, <3>2, <3>5 DEF LinesInGap
    <3> QED BY <3>2, <3>5, <3>6
  <2>6. IsFiniteSet(LK)
    <3>1. IsFiniteSet(1..n)
      BY <1>5, FS_Interval
    <3> QED BY <2>1, <3>1, FS_Subset
  <2> HIDE DEF LK, LG
  <2>7. f \in [LK -> LG] /\ \A x, y \in LK : f[x] = f[y] => x = y
    BY <2>1, <2>3, <2>4
  <2>8. \A i \in LG : \E j \in LK : f[j] = i
    BY <2>5
  <2> HIDE DEF f
  <2>9. Cardinality(LG) = Cardinality(LK)
    BY <2>6, <2>7, <2>8, SameCount
  <2> QED BY <2>9 DEF LK, LG
<1>19. ASSUME NEW D
       PROVE  [key \in D \X matched \X BOOLEAN |-> Cardinality(LinesInGap(k, key[1], key[2], key[3], matched))]
                = [key \in D \X matched \X BOOLEAN |-> Cardinality(LinesInGap(g, key[1], key[2], key[3], matched))]
  <2>1. \A key \in D \X matched \X BOOLEAN :
          Cardinality(LinesInGap(k, key[1], key[2], key[3], matched))
            = Cardinality(LinesInGap(g, key[1], key[2], key[3], matched))
    BY <1>18
  <2> QED BY <2>1
<1> QED BY <1>15, <1>19 DEF Essence, FG, FK

(* Of what a file normalizes to, only its collapsed lines count.           *)
LEMMA NormalOfCollapsed ==
  ASSUME NEW f, NEW file, NEW declared, NEW matched,
         Collapsed(f, declared) = Collapsed(file, declared)
  PROVE  NormalizeFileContent(f, declared, matched) = NormalizeFileContent(file, declared, matched)
BY DEF NormalizeFileContent

LEMMA CollapsedIs ==
  ASSUME NEW file, IsFile(file), NEW declared \in BOOLEAN, NEW g \in Seq(CleanLine),
         DOMAIN g = DOMAIN file,
         \A i \in DOMAIN file :
           g[i] = [text |-> file[i].text, comment |-> file[i].comment /\ ~declared, spaced |-> FALSE]
  PROVE  Collapsed(file, declared) = g
<1> DEFINE c == Collapsed(file, declared)
<1>1. /\ c \in Seq(CleanLine) /\ DOMAIN c = DOMAIN file
      /\ \A i \in DOMAIN file :
           c[i] = [text |-> file[i].text, comment |-> file[i].comment /\ ~declared, spaced |-> FALSE]
  BY CollapsedClean
<1> HIDE DEF c
<1>2. Len(c) = Len(g) /\ \A i \in 1..Len(c) : c[i] = g[i]
  <2>1. DOMAIN c = 1..Len(c) /\ DOMAIN g = 1..Len(g) /\ Len(c) \in Nat /\ Len(g) \in Nat
    BY <1>1
  <2>2. Len(c) = Len(g)
    BY <1>1, <2>1
  <2> QED BY <1>1, <2>1, <2>2
<1>3. c = g
  BY <1>1, <1>2
<1> QED BY <1>3 DEF c

(* One line of a file respelled.                                           *)
LEMMA RespellCollapsesAway ==
  ASSUME NEW file, IsFile(file), NEW declared \in BOOLEAN, NEW n \in DOMAIN file,
         NEW l \in Line, l.text = file[n].text, declared \/ l.comment = file[n].comment
  PROVE  Collapsed([file EXCEPT ![n] = l], declared) = Collapsed(file, declared)
<1> DEFINE f == [file EXCEPT ![n] = l]
           c == Collapsed(file, declared)
<1>1. IsFile(f) /\ DOMAIN f = DOMAIN file /\ f[n] = l /\ \A i \in DOMAIN file : i # n => f[i] = file[i]
  BY DEF IsFile
<1>2. /\ c \in Seq(CleanLine) /\ DOMAIN c = DOMAIN file
      /\ \A i \in DOMAIN file :
           c[i] = [text |-> file[i].text, comment |-> file[i].comment /\ ~declared, spaced |-> FALSE]
  BY CollapsedClean
<1> HIDE DEF f, c
<1>3. ASSUME NEW i \in DOMAIN f
      PROVE  c[i] = [text |-> f[i].text, comment |-> f[i].comment /\ ~declared, spaced |-> FALSE]
  <2>1. CASE i # n
    BY <1>1, <1>2, <2>1
  <2>2. CASE i = n
    <3>1. f[i].text = file[i].text /\ (f[i].comment /\ ~declared) = (file[i].comment /\ ~declared)
      BY <1>1, <2>2
    <3> QED BY <1>1, <1>2, <3>1
  <2> QED BY <2>1, <2>2
<1>4. Collapsed(f, declared) = c
  BY <1>1, <1>2, <1>3, CollapsedIs
<1> QED BY <1>4 DEF f, c

LEMMA SwapCollapsed ==
  ASSUME NEW file, IsFile(file), NEW declared \in BOOLEAN, NEW n \in DOMAIN file, n + 1 \in DOMAIN file
  PROVE  Collapsed(Swapped(file, n), declared) = Swapped(Collapsed(file, declared), n)
<1> DEFINE f == Swapped(file, n)
           c == Collapsed(file, declared)
           g == Swapped(c, n)
<1>1. DOMAIN file = 1..Len(file) /\ Len(file) \in Nat /\ file \in Seq(Line)
  BY DEF IsFile
<1>2. /\ c \in Seq(CleanLine) /\ DOMAIN c = DOMAIN file
      /\ \A i \in DOMAIN file :
           c[i] = [text |-> file[i].text, comment |-> file[i].comment /\ ~declared, spaced |-> FALSE]
  BY CollapsedClean
<1> HIDE DEF c
<1>3. /\ IsFile(f) /\ DOMAIN f = DOMAIN file
      /\ \A i \in DOMAIN file : f[i] = IF i = n THEN file[n + 1] ELSE IF i = n + 1 THEN file[n] ELSE file[i]
  <2>1. f = [i \in 1..Len(file) |-> IF i = n THEN file[n + 1] ELSE IF i = n + 1 THEN file[n] ELSE file[i]]
    BY <1>1 DEF Swapped
  <2> HIDE DEF f
  <2> QED BY <1>1, <2>1 DEF IsFile
<1>4. /\ g \in Seq(CleanLine) /\ DOMAIN g = DOMAIN file
      /\ \A i \in DOMAIN file : g[i] = IF i = n THEN c[n + 1] ELSE IF i = n + 1 THEN c[n] ELSE c[i]
  <2>1. g = [i \in 1..Len(file) |-> IF i = n THEN c[n + 1] ELSE IF i = n + 1 THEN c[n] ELSE c[i]]
    BY <1>1, <1>2 DEF Swapped
  <2>2. \A i \in 1..Len(file) : c[i] \in CleanLine
    BY <1>1, <1>2
  <2> HIDE DEF g
  <2> QED BY <1>1, <2>1, <2>2
<1> HIDE DEF f, g
<1>5. \A i \in DOMAIN f :
        g[i] = [text |-> f[i].text, comment |-> f[i].comment /\ ~declared, spaced |-> FALSE]
  BY <1>2, <1>3, <1>4
<1>6. Collapsed(f, declared) = g
  BY <1>3, <1>4, <1>5, CollapsedIs
<1> QED BY <1>6 DEF f, g, c

LEMMA AppendCollapsed ==
  ASSUME NEW file, IsFile(file), NEW declared \in BOOLEAN
  PROVE  Collapsed(Append(file, Blank), declared) = Append(Collapsed(file, declared), Blank)
<1> DEFINE f == Append(file, Blank)
           c == Collapsed(file, declared)
           g == Append(c, Blank)
<1>1. DOMAIN file = 1..Len(file) /\ Len(file) \in Nat /\ file \in Seq(Line) /\ Blank \in Line /\ Blank \in CleanLine
  BY DEF IsFile, Blank, Line, CleanLine
<1>2. /\ c \in Seq(CleanLine) /\ DOMAIN c = DOMAIN file
      /\ \A i \in DOMAIN file :
           c[i] = [text |-> file[i].text, comment |-> file[i].comment /\ ~declared, spaced |-> FALSE]
  BY CollapsedClean
<1> HIDE DEF c
<1>3. /\ IsFile(f) /\ DOMAIN f = 1..(Len(file) + 1) /\ f[Len(file) + 1] = Blank
      /\ \A i \in DOMAIN file : f[i] = file[i]
  BY <1>1 DEF IsFile
<1>4. Len(c) = Len(file)
  BY <1>1, <1>2
<1>5. /\ g \in Seq(CleanLine) /\ DOMAIN g = 1..(Len(file) + 1) /\ g[Len(file) + 1] = Blank
      /\ \A i \in DOMAIN file : g[i] = c[i]
  BY <1>1, <1>2, <1>4
<1> HIDE DEF f, g
<1>6. ASSUME NEW i \in DOMAIN f
      PROVE  g[i] = [text |-> f[i].text, comment |-> f[i].comment /\ ~declared, spaced |-> FALSE]
  <2>1. CASE i \in DOMAIN file
    BY <1>2, <1>3, <1>5, <2>1
  <2>2. CASE i = Len(file) + 1
    <3>1. g[i] = Blank /\ f[i] = Blank
      BY <1>3, <1>5, <2>2
    <3>2. f[i].text = 0 /\ (f[i].comment /\ ~declared) = FALSE
      BY <3>1 DEF Blank
    <3> QED BY <3>1, <3>2 DEF Blank
  <2> QED BY <1>1, <1>3, <2>1, <2>2
<1>7. Collapsed(f, declared) = g
  BY <1>3, <1>5, <1>6, CollapsedIs
<1> QED BY <1>7 DEF f, g, c

(* The fingerprint of a repeated edit.                                     *)
LEMMA ChurnNormalized ==
  ASSUME NEW file, IsFile(file), NEW declared \in BOOLEAN, NEW matched,
         NEW f \in Respelled(file, declared, matched)
  PROVE  NormalizeFileContent(f, declared, matched) = NormalizeFileContent(file, declared, matched)
<1> DEFINE c == Collapsed(file, declared)
<1>1. /\ c \in Seq(CleanLine) /\ DOMAIN c = DOMAIN file
      /\ \A i \in DOMAIN file :
           c[i] = [text |-> file[i].text, comment |-> file[i].comment /\ ~declared, spaced |-> FALSE]
  BY CollapsedClean
<1>2. \A i \in DOMAIN file : file[i] \in Line
  BY DEF IsFile
<1>3. CASE \E i \in DOMAIN file : f = [file EXCEPT ![i] = Spaced(file[i])]
  <2>1. PICK i \in DOMAIN file : f = [file EXCEPT ![i] = Spaced(file[i])]
    BY <1>3
  <2> DEFINE l == Spaced(file[i])
  <2>2. l \in Line /\ l.text = file[i].text /\ l.comment = file[i].comment
    <3>1. file[i] \in Line
      BY <1>2
    <3> QED BY <3>1 DEF Spaced, Line
  <2> HIDE DEF l
  <2>3. Collapsed([file EXCEPT ![i] = l], declared) = Collapsed(file, declared)
    BY <2>2, RespellCollapsesAway
  <2>4. Collapsed(f, declared) = Collapsed(file, declared)
    BY <2>1, <2>3 DEF l
  <2> QED BY <2>4, NormalOfCollapsed
<1>4. CASE declared /\ \E i \in DOMAIN file : f = [file EXCEPT ![i] = Commented(file[i])]
  <2>1. PICK i \in DOMAIN file : f = [file EXCEPT ![i] = Commented(file[i])]
    BY <1>4
  <2> DEFINE l == Commented(file[i])
  <2>2. l \in Line /\ l.text = file[i].text
    <3>1. file[i] \in Line
      BY <1>2
    <3> QED BY <3>1 DEF Commented, Line
  <2> HIDE DEF l
  <2>3. Collapsed([file EXCEPT ![i] = l], declared) = Collapsed(file, declared)
    <3>1. declared \/ l.comment = file[i].comment
      BY <1>4
    <3> QED BY <2>2, <3>1, RespellCollapsesAway
  <2>4. Collapsed(f, declared) = Collapsed(file, declared)
    BY <2>1, <2>3 DEF l
  <2> QED BY <2>4, NormalOfCollapsed
<1>5. CASE \E i \in DOMAIN file : /\ i + 1 \in DOMAIN file /\ f = Swapped(file, i)
                                  /\ file[i].text \in matched /\ file[i + 1].text \in matched
  <2>1. PICK i \in DOMAIN file : /\ i + 1 \in DOMAIN file /\ f = Swapped(file, i)
                                 /\ file[i].text \in matched /\ file[i + 1].text \in matched
    BY <1>5
  <2>2. Collapsed(f, declared) = Swapped(c, i)
    BY <2>1, SwapCollapsed
  <2>3. c[i].text \in matched /\ c[i + 1].text \in matched
    BY <1>1, <2>1
  <2> HIDE DEF c
  <2>4. SortMatchingRuns(Swapped(c, i), matched) = SortMatchingRuns(c, matched)
    BY <1>1, <2>1, <2>3, SwapSortedAway
  <2> QED BY <2>2, <2>4 DEF NormalizeFileContent, c
<1>6. CASE f = Append(file, Blank)
  <2>1. Collapsed(f, declared) = Append(c, Blank)
    BY <1>6, AppendCollapsed
  <2> HIDE DEF c
  <2>2. LET h == SortMatchingRuns(c, matched)
            d == SortMatchingRuns(Append(c, Blank), matched)
        IN Keep(d, {i \in DOMAIN d : d[i] # Blank}) = Keep(h, {i \in DOMAIN h : h[i] # Blank})
    BY <1>1, BlankDropped
  <2> QED BY <2>1, <2>2 DEF NormalizeFileContent, c
<1>7. \/ \E i \in DOMAIN file : f = [file EXCEPT ![i] = Spaced(file[i])]
      \/ declared /\ \E i \in DOMAIN file : f = [file EXCEPT ![i] = Commented(file[i])]
      \/ \E i \in DOMAIN file : /\ i + 1 \in DOMAIN file /\ f = Swapped(file, i)
                                /\ file[i].text \in matched /\ file[i + 1].text \in matched
      \/ f = Append(file, Blank)
  BY DEF Respelled
<1> QED BY <1>3, <1>4, <1>5, <1>6, <1>7

(* Equal normal forms have one essence.                                    *)
LEMMA NormalTellsEssence ==
  ASSUME NEW f, IsFile(f), NEW file, IsFile(file), NEW declared \in BOOLEAN,
         NEW matched,
         NormalizeFileContent(f, declared, matched) = NormalizeFileContent(file, declared, matched)
  PROVE  Essence(Collapsed(f, declared), matched) = Essence(Collapsed(file, declared), matched)
<1>1. ASSUME NEW e, IsFile(e)
      PROVE  Essence(NormalizeFileContent(e, declared, matched), matched) = Essence(Collapsed(e, declared), matched)
  <2> DEFINE c == Collapsed(e, declared)
             h == SortMatchingRuns(c, matched)
             B == {i \in DOMAIN h : h[i] # Blank}
             k == Keep(h, B)
  <2>1. c \in Seq(CleanLine)
    BY <1>1, CollapsedClean
  <2>2. k = NormalizeFileContent(e, declared, matched)
    BY DEF NormalizeFileContent
  <2> HIDE DEF c
  <2>3. Essence(k, matched) = Essence(c, matched)
    BY <2>1, EssenceKept
  <2> HIDE DEF k
  <2> QED BY <2>2, <2>3 DEF c
<1> QED BY <1>1

(* The fingerprint of an edit set that leaves f on one path.               *)
PrintOf(f, p, declared, matched) ==
  [files |-> [path \in {p} |-> NormalizeFileContent(f, declared, matched)],
   forbiddenKeyedFiles |-> [path \in {} |-> <<>>]]

LEMMA OneWrite ==
  ASSUME NEW f, NEW p, NEW forbidden, p \notin forbidden, NEW declared, NEW matched,
         NEW w, w = <<[path |-> p, content |-> f]>>
  PROVE  FingerprintEditSet(w, forbidden, declared, matched) = PrintOf(f, p, declared, matched)
<1> DEFINE normal == [i \in DOMAIN w |-> NormalizeFileContent(w[i].content, declared, matched)]
           of(path) == {i \in DOMAIN w : w[i].path = path}
           last(path) == CHOOSE i \in of(path) : \A j \in of(path) : j <= i
           paths == {w[i].path : i \in DOMAIN w}
<1>1. DOMAIN w = {1} /\ w[1].path = p /\ w[1].content = f
  OBVIOUS
<1>2. FingerprintEditSet(w, forbidden, declared, matched)
        = [files |-> [path \in paths \ forbidden |-> normal[last(path)]],
           forbiddenKeyedFiles |-> [path \in paths \intersect forbidden |-> Keep(normal, of(path))]]
  BY DEF FingerprintEditSet
<1>3. paths = {p} /\ of(p) = {1} /\ normal[1] = NormalizeFileContent(f, declared, matched)
  BY <1>1
<1>4. last(p) = 1
  <2> HIDE DEF of
  <2> QED BY <1>3
<1> HIDE DEF normal, of, last, paths
<1>5. paths \ forbidden = {p} /\ paths \intersect forbidden = {}
  BY <1>3
<1>6. [path \in paths \ forbidden |-> normal[last(path)]]
        = [path \in {p} |-> NormalizeFileContent(f, declared, matched)]
  BY <1>3, <1>4, <1>5
<1>7. [path \in paths \intersect forbidden |-> Keep(normal, of(path))] = [path \in {} |-> <<>>]
  BY <1>5
<1> QED BY <1>2, <1>6, <1>7 DEF PrintOf

LEMMA LaterWrite ==
  ASSUME NEW f, NEW g, NEW p, NEW forbidden, p \notin forbidden, NEW declared, NEW matched,
         NEW w, w = <<[path |-> p, content |-> f], [path |-> p, content |-> g]>>
  PROVE  FingerprintEditSet(w, forbidden, declared, matched) = PrintOf(g, p, declared, matched)
<1> DEFINE normal == [i \in DOMAIN w |-> NormalizeFileContent(w[i].content, declared, matched)]
           of(path) == {i \in DOMAIN w : w[i].path = path}
           last(path) == CHOOSE i \in of(path) : \A j \in of(path) : j <= i
           paths == {w[i].path : i \in DOMAIN w}
<1>1. DOMAIN w = {1, 2} /\ w[1].path = p /\ w[2].path = p /\ w[2].content = g
  OBVIOUS
<1>2. FingerprintEditSet(w, forbidden, declared, matched)
        = [files |-> [path \in paths \ forbidden |-> normal[last(path)]],
           forbiddenKeyedFiles |-> [path \in paths \intersect forbidden |-> Keep(normal, of(path))]]
  BY DEF FingerprintEditSet
<1>3. paths = {p} /\ of(p) = {1, 2} /\ normal[2] = NormalizeFileContent(g, declared, matched)
  BY <1>1
<1>4. last(p) = 2
  <2> HIDE DEF of
  <2> QED BY <1>3
<1> HIDE DEF normal, of, last, paths
<1>5. paths \ forbidden = {p} /\ paths \intersect forbidden = {}
  BY <1>3
<1>6. [path \in paths \ forbidden |-> normal[last(path)]]
        = [path \in {p} |-> NormalizeFileContent(g, declared, matched)]
  BY <1>3, <1>4, <1>5
<1>7. [path \in paths \intersect forbidden |-> Keep(normal, of(path))] = [path \in {} |-> <<>>]
  BY <1>5
<1> QED BY <1>2, <1>6, <1>7 DEF PrintOf

LEMMA EveryFilePrintsFaithfully ==
  ASSUME NEW file, IsFile(file), NEW others, \A f \in others : IsFile(f),
         NEW declared \in BOOLEAN, NEW matched
  PROVE  SameForChurn(file, others, declared, matched)
<1> DEFINE forbidden == {"__proto__"}
           p == "src"
           write(f) == [path |-> "src", content |-> f]
           print(writes) == FingerprintEditSet(writes, forbidden, declared, matched)
           of(f) == PrintOf(f, p, declared, matched)
           normal(f) == NormalizeFileContent(f, declared, matched)
<1>1. p \notin forbidden
  OBVIOUS
<1>2. ASSUME NEW f PROVE print(<<write(f)>>) = of(f)
  <2> DEFINE w == <<[path |-> p, content |-> f]>>
  <2> HIDE DEF w, p, forbidden
  <2>1. FingerprintEditSet(w, forbidden, declared, matched) = PrintOf(f, p, declared, matched)
    BY <1>1, OneWrite DEF w
  <2> QED BY <2>1 DEF w, p
<1>3. ASSUME NEW f, NEW g PROVE print(<<write(f), write(g)>>) = of(g)
  <2> DEFINE w == <<[path |-> p, content |-> f], [path |-> p, content |-> g]>>
  <2> HIDE DEF w, p, forbidden
  <2>1. FingerprintEditSet(w, forbidden, declared, matched) = PrintOf(g, p, declared, matched)
    BY <1>1, LaterWrite DEF w
  <2> QED BY <2>1 DEF w, p
<1>4. ASSUME NEW f \in Respelled(file, declared, matched) PROVE of(f) = of(file)
  <2>1. normal(f) = normal(file)
    BY ChurnNormalized
  <2> QED BY <2>1 DEF PrintOf
<1>5. ASSUME NEW f, NEW g, of(f) = of(g) PROVE normal(f) = normal(g)
  <2> HIDE DEF normal
  <2>1. of(f).files[p] = normal(f) /\ of(g).files[p] = normal(g)
    BY DEF PrintOf, normal
  <2> QED BY <1>5, <2>1
<1>6. ASSUME NEW f \in others, of(f) = of(file)
      PROVE  Essence(Collapsed(f, declared), matched) = Essence(Collapsed(file, declared), matched)
  <2>1. normal(f) = normal(file)
    BY <1>5, <1>6
  <2> QED BY <2>1, NormalTellsEssence
<1> HIDE DEF of
<1> QED BY <1>2, <1>3, <1>4, <1>6 DEF SameForChurn

-------------------------------------------------------------------------------
(* What has been asked is what the assumption allows.                      *)
QuestionsFit ==
  /\ question.about = "cascade" =>
       /\ question.asked.point \in DOMAIN SPLICE_POINTS
       /\ \A tier \in Range(OverlayTiers) : FieldsFit(question.asked.overlays[tier])
  /\ question.about = "configuration" => WorldFits(question.asked)
  /\ question.about = "plan" => PlanInputFits(question.asked)
  /\ question.about = "fingerprint" => /\ IsFile(question.asked.file)
                                      /\ question.asked.declared \in BOOLEAN

LEMMA QuestionsFitNext == QuestionsFit /\ [Ask]_question => QuestionsFit'
<1> SUFFICES ASSUME QuestionsFit, [Ask]_question PROVE QuestionsFit'
  OBVIOUS
<1>1. CASE AskCascade
  <2>1. PICK point \in DOMAIN OverlaysAt :
          \E lowest \in OverlaysAt[point]["default"], middle \in OverlaysAt[point]["user"],
             highest \in OverlaysAt[point]["project"] :
            question' = [about |-> "cascade", asked |->
                           [point |-> point,
                            overlays |-> [default |-> lowest, user |-> middle, project |-> highest]]]
    BY <1>1 DEF AskCascade
  <2>2. PICK lowest \in OverlaysAt[point]["default"], middle \in OverlaysAt[point]["user"],
             highest \in OverlaysAt[point]["project"] :
          question' = [about |-> "cascade", asked |->
                         [point |-> point,
                          overlays |-> [default |-> lowest, user |-> middle, project |-> highest]]]
    BY <2>1
  <2>3. Range(OverlayTiers) = {"default", "user", "project"}
    BY DEF OverlayTiers, Range
  <2>4. point \in DOMAIN SPLICE_POINTS
    BY QuestionsAssumption
  <2>5. FieldsFit(lowest) /\ FieldsFit(middle) /\ FieldsFit(highest)
    BY <2>3, QuestionsAssumption
  <2>6. /\ question'.about = "cascade" /\ question'.asked.point = point
        /\ question'.asked.overlays["default"] = lowest /\ question'.asked.overlays["user"] = middle
        /\ question'.asked.overlays["project"] = highest
    BY <2>2
  <2> QED BY <2>3, <2>4, <2>5, <2>6 DEF QuestionsFit
<1>2. CASE AskConfiguration
  BY <1>2, QuestionsAssumption DEF AskConfiguration, QuestionsFit
<1>3. CASE AskPlan
  BY <1>3, QuestionsAssumption DEF AskPlan, QuestionsFit
<1>4. CASE AskFingerprint
  <2>1. PICK file \in EditedFiles, declared \in BOOLEAN, matched \in SortableLists :
          question' = [about |-> "fingerprint",
                       asked |-> [file |-> file, declared |-> declared, matched |-> matched]]
    BY <1>4 DEF AskFingerprint
  <2>2. IsFile(file)
    BY QuestionsAssumption
  <2>3. /\ question'.about = "fingerprint"
        /\ question'.asked.file = file /\ question'.asked.declared = declared
    BY <2>1
  <2> QED BY <2>2, <2>3 DEF QuestionsFit
<1>5. CASE UNCHANGED question
  BY <1>5 DEF QuestionsFit
<1> QED BY <1>1, <1>2, <1>3, <1>4, <1>5 DEF Ask

LEMMA QuestionsFitAlways == QuestionsSpec => []QuestionsFit
<1>1. QuestionInit => QuestionsFit
  BY DEF QuestionInit, NoQuestion, QuestionsFit
<1> QED BY <1>1, QuestionsFitNext, PTL DEF QuestionsSpec

(* CascadeByTier, for all overlays that pass their schemas, whatever they  *)
(* say and however long their lists are: cascadeOverlays leaves at each    *)
(* splice point what the tiers that count have said, by the point's rule.  *)
THEOREM CascadeFollowsTiers == QuestionsSpec => []CascadeByTier
<1>1. QuestionsFit => CascadeByTier
  BY CascadeMadeByTier DEF QuestionsFit, CascadeByTier
<1> QED BY <1>1, QuestionsFitAlways, PTL

(* ValidMeansUsable, for any number of stack files in any places, whatever *)
(* they detect, and any overlays: what composeResolvedConfig returns with  *)
(* no error can be worked with.                                            *)
THEOREM ValidIsUsable == QuestionsSpec => []ValidMeansUsable
<1>1. QuestionsFit => ValidMeansUsable
  BY ComposedIsUsable DEF QuestionsFit, ValidMeansUsable, UsableIfValid
<1> QED BY <1>1, QuestionsFitAlways, PTL

(* PlanStable, for any stacks, files, surfaces, commands and affected files*)
(* that buildEvaluatorPlan can be given: the plan does not depend on the   *)
(* order of its inputs, an affected file more takes no surface away, every *)
(* surface listed has its template and only what matches it, no file whose *)
(* extension is scanned for secrets escapes.                               *)
THEOREM PlansAreStable == QuestionsSpec => []PlanStable
<1>1. QuestionsFit => PlanStable
  BY EveryPlanFits DEF QuestionsFit, PlanStable
<1> QED BY <1>1, QuestionsFitAlways, PTL

(* FingerprintFaithful, for any files, of any length and with any texts,   *)
(* and whatever texts a sortable list matches: fingerprintEditSet gives    *)
(* one fingerprint to two edits that differ by churn, and never takes for  *)
(* one two edits that differ in more than the order inside their lists.    *)
THEOREM FingerprintsAreFaithful == QuestionsSpec => []FingerprintFaithful
<1>1. QuestionsFit => FingerprintFaithful
  <2> SUFFICES ASSUME QuestionsFit, question.about = "fingerprint"
               PROVE  SameForChurn(question.asked.file, EditedFiles, question.asked.declared,
                                   question.asked.matched)
    BY DEF FingerprintFaithful
  <2>1. IsFile(question.asked.file) /\ question.asked.declared \in BOOLEAN
    BY DEF QuestionsFit
  <2>2. \A f \in EditedFiles : IsFile(f)
    BY QuestionsAssumption
  <2> QED BY <2>1, <2>2, EveryFilePrintsFaithfully
<1> QED BY <1>1, QuestionsFitAlways, PTL
===============================================================================
