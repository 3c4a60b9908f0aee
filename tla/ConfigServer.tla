------------------------------ MODULE ConfigServer -----------------------------
(***************************************************************************)
(* Config-server processes that share overlay files and the trust cache:   *)
(* the resolved-config cache of each, the overlay write tools, the trust   *)
(* check and the trust approve and revoke tools (resolution/cache.ts,      *)
(* resolution/resolved-config.ts, tools/writes.ts and trust).               *)
(*                                                                         *)
(* The calls of one process are synchronous; steps of different processes, *)
(* and of a user with an editor, come between any two accesses of a file.  *)
(* A process started for one gan command is a server that is then killed.  *)
(***************************************************************************)
EXTENDS Naturals, Sequences, FiniteSets, Functions, SequencesExt

CONSTANTS
  Servers,          (* config-server processes                             *)
  Unsafe,           (* those started with GAN_TRUST=unsafe-trust-all       *)
  OverlayCalls,     (* overlay mutations [kind, tier, field, value]        *)
  EditedBodies,     (* bodies that a user gives an overlay in an editor    *)
  MaxCalls,         (* bound: calls of the tools                           *)
  MaxEdits,         (* bound: edits by the user                            *)
  MaxTime           (* bound: instants that a modification time tells apart*)

ASSUME ServersAssumption == Unsafe \subseteq Servers /\ "user" \notin Servers

VARIABLES
  overlay,          (* tier -> [body, mtime]                               *)
  trustCache,       (* trust-cache.json: [approvals, secure]               *)
  cache,            (* server -> its resolved-config cache entry, or none  *)
  at,               (* server -> the step its call is at                   *)
  call,             (* server -> the call                                  *)
  seen,             (* server -> what the call has read so far             *)
  now, calls, edits,
  (* History, read by no guard: *)
  everApproved,     (* hashes that were ever approved for the project      *)
  kept,             (* approvals acknowledged and not revoked since        *)
  unseen,           (* approvals that a write dropped without having read  *)
  writer,           (* tier -> the server, or the user, that wrote it last *)
  mine,             (* entries <<tier, value>> appended and acknowledged   *)
  clobbered,        (* entries that a write dropped without having read    *)
  disturbed,        (* servers during whose composition a file was written *)
  exposed           (* a process was killed before it could set the mode   *)

serverVars == <<overlay, trustCache, cache, at, call, seen, now, calls, edits,
                everApproved, kept, unseen, writer, mine, clobbered, disturbed, exposed>>
disk == <<overlay, trustCache>>
tallies == <<everApproved, kept, unseen, writer, mine, clobbered>>

Tiers == {"user", "project"}

(* An overlay: no file, one that does not parse, or a mapping of the lists *)
(* it declares: checks is evaluator.additionalChecks, override is          *)
(* stack.override, a field of the project tier only.                       *)
Fields == {"checks", "override"}
NoFields == << >>
Absent == [shape |-> "absent", fields |-> NoFields]
Broken == [shape |-> "broken", fields |-> NoFields]
Mapping(fields) == [shape |-> "mapping", fields |-> fields]
ListAt(body, field) == IF field \in DOMAIN body.fields THEN body.fields[field] ELSE <<>>

Nothing == [kind |-> "none"]
NoEntry == [value |-> Nothing]

-------------------------------------------------------------------------------
(* Overlay mutations: tools/writes.ts                                      *)

(* What a mutation starts from: the mapping, or one of schemaVersion 1     *)
(* where no file is.                                                       *)
BaseData(body) == Mapping(body.fields)

With(data, field, list) ==
  Mapping([f \in DOMAIN data.fields \union {field} |->
             IF f = field THEN list ELSE data.fields[f]])

SetAtPath(data, field, value) == With(data, field, <<value>>)

(* Mutant: the new list replaces the one in the file.                      *)
AppendAtPathReplacing(data, field, value) == With(data, field, <<value>>)

AppendAtPath(data, field, value) == With(data, field, Append(ListAt(data, field), value))

Without(list, value) ==
  FoldLeft(LAMBDA rest, v : IF v = value THEN rest ELSE Append(rest, v), <<>>, list)

(* Where the file declares no list nothing changes, but is written.        *)
RemoveAtPath(data, field, value) ==
  IF field \in DOMAIN data.fields
  THEN With(data, field, Without(ListAt(data, field), value))
  ELSE data

Mutate(data, c) ==
  CASE c.kind = "setOverlayField"        -> SetAtPath(data, c.field, c.value)
    [] c.kind = "appendToOverlayField"   -> AppendAtPath(data, c.field, c.value)
    [] c.kind = "removeFromOverlayField" -> RemoveAtPath(data, c.field, c.value)

(* validateOverlayBodyAgainstSchema and checkUserOverlayForbiddenFields on *)
(* what would be written.  A list of commands satisfies the schema.        *)
ForbiddenAtUserTier(tier, data) == tier = "user" /\ "override" \in DOMAIN data.fields

Mutations == {"setOverlayField", "appendToOverlayField", "removeFromOverlayField"}
ASSUME CallsAssumption ==
  \A c \in OverlayCalls : c.kind \in Mutations /\ c.tier \in Tiers /\ c.field \in Fields

(* What an overlay declares is a list in every field.                      *)
IsList(list) == list \in Seq(Range(list))
HasLists(body) == \A field \in DOMAIN body.fields : IsList(body.fields[field])
ASSUME BodiesAssumption == \A body \in EditedBodies : HasLists(body)

Entries(body) == Range(ListAt(body, "checks"))

-------------------------------------------------------------------------------
(* Trust: trust/cache-io.ts, trust/hash.ts, trust/integration.ts           *)

Here == "this project"
Approval(root, hash) == [projectRoot |-> root, aggregateHash |-> hash]

(* The hash of the project's files; of those, the project overlay moves.   *)
ComputeTrustHash == overlay["project"].body

(* A cache that other users could read or write is refused.                *)
Refused == ~trustCache.secure

(* Mutant: one approval per project.                                       *)
UpsertApprovalByRoot(approvals, new) ==
  {a \in approvals : a.projectRoot # new.projectRoot} \union {new}

(* The same root and hash once; approvals of other contents stay.          *)
UpsertApproval(approvals, new) == (approvals \ {new}) \union {new}

RemoveApprovals(approvals, root) == {a \in approvals : a.projectRoot # root}

ProjectDeclaresCommands(body) == Entries(body) # {}

-------------------------------------------------------------------------------
(* The resolved-config cache                                               *)

(* Mutant: only the files that are there are recorded.                     *)
CollectBackingFileStatesPresent ==
  [tier \in {t \in Tiers : overlay[t].body # Absent} |-> overlay[tier].mtime]

(* The modification time of every overlay, 0 for one that is not there.    *)
CollectBackingFileStates ==
  [tier \in Tiers |-> IF overlay[tier].body = Absent THEN 0 ELSE overlay[tier].mtime]

BackingFileMtime(tier) == IF overlay[tier].body = Absent THEN 0 ELSE overlay[tier].mtime

BackingFilesHaveChanged(states) ==
  \E tier \in DOMAIN states : BackingFileMtime(tier) # states[tier]

Hit(p) == cache[p] # NoEntry /\ ~BackingFilesHaveChanged(cache[p].states)

-------------------------------------------------------------------------------
ServerInit ==
  /\ overlay = [tier \in Tiers |-> [body |-> Absent, mtime |-> 1]]
  /\ trustCache = [approvals |-> {Approval("another project", Absent)}, secure |-> TRUE]
  /\ cache = [p \in Servers |-> NoEntry]
  /\ at = [p \in Servers |-> "idle"]
  /\ call = [p \in Servers |-> Nothing]
  /\ seen = [p \in Servers |-> Nothing]
  /\ now = 1
  /\ calls = 0
  /\ edits = 0
  /\ everApproved = {}
  /\ kept = trustCache.approvals
  /\ unseen = {}
  /\ writer = [tier \in Tiers |-> "user"]
  /\ mine = {}
  /\ clobbered = {}
  /\ disturbed = {}
  /\ exposed = FALSE

Goes(p, step) == at' = [at EXCEPT ![p] = step]
Remembers(p, what) == seen' = [seen EXCEPT ![p] = what]
Returns(p) ==
  /\ Goes(p, "idle")
  /\ call' = [call EXCEPT ![p] = Nothing]
  /\ Remembers(p, Nothing)

Composing == {"validate", "trust", "look up", "cascade", "record"}

(* A file is replaced at the present instant or at a later one.            *)
WriteOverlay(tier, body, who) ==
  /\ writer' = [writer EXCEPT ![tier] = who]
  /\ now' \in {now, now + 1} /\ now' <= MaxTime
  /\ overlay' = [overlay EXCEPT ![tier] = [body |-> body, mtime |-> now']]
  /\ disturbed' = disturbed \union {p \in Servers : at[p] \in Composing}

Calls == OverlayCalls
           \union {[kind |-> kind] : kind \in {"getResolvedConfig", "trustApprove", "trustRevoke"}}

FirstStep(c) ==
  CASE c.kind \in Mutations          -> "read overlay"
    [] c.kind = "getResolvedConfig"  -> "get"
    [] c.kind = "trustApprove"       -> "hash"
    [] c.kind = "trustRevoke"        -> "read approvals"

StartCall(p) ==
  /\ at[p] = "idle"
  /\ calls < MaxCalls
  /\ calls' = calls + 1
  /\ \E c \in Calls : call' = [call EXCEPT ![p] = c] /\ Goes(p, FirstStep(c))
  /\ UNCHANGED <<disk, cache, seen, now, edits, tallies, disturbed, exposed>>

(* composeResolvedConfigSync: the cache first; an entry that has changed   *)
(* underneath is evicted.                                                  *)
Get(p) ==
  /\ at[p] = "get"
  /\ \/ Hit(p) /\ Returns(p) /\ UNCHANGED <<cache, disturbed>>
     \/ /\ ~Hit(p)
        /\ cache' = [cache EXCEPT ![p] = NoEntry]
        /\ Goes(p, "validate")
        /\ disturbed' = disturbed \ {p}
        /\ UNCHANGED <<call, seen>>
  /\ UNCHANGED <<disk, now, calls, edits, tallies, exposed>>

(* validateAll, phases 1 to 3, on one snapshot of the overlays; phase 4    *)
(* hashes the files again, unless nothing is there to be trusted.          *)
Validate(p) ==
  /\ at[p] = "validate"
  /\ LET declares == ProjectDeclaresCommands(overlay["project"].body) IN
     /\ Remembers(p, [trust |-> CASE ~declares                 -> "skipped"
                                  [] declares /\ p \in Unsafe  -> "bypassed"
                                  [] OTHER                     -> "asked"])
     /\ Goes(p, IF declares /\ p \notin Unsafe THEN "trust" ELSE "cascade")
  /\ UNCHANGED <<disk, cache, call, now, calls, edits, tallies, disturbed, exposed>>

(* runTrustCheck; the hash is taken before the trust cache is read.        *)
Hash(p) ==
  /\ at[p] \in {"trust", "hash"}
  /\ Remembers(p, [hash |-> ComputeTrustHash])
  /\ Goes(p, IF at[p] = "trust" THEN "look up" ELSE "read approvals")
  /\ UNCHANGED <<disk, cache, call, now, calls, edits, tallies, disturbed, exposed>>

(* Mutant: a project that was approved once stays approved.                *)
LookUpRoot(p) ==
  /\ at[p] = "look up"
  /\ Remembers(p, [trust |-> CASE Refused -> "TrustCacheCorrupt"
                               [] ~Refused /\ Here \in {a.projectRoot : a \in trustCache.approvals}
                                       -> "approved"
                               [] OTHER -> "UntrustedOverlay"])
  /\ Goes(p, "cascade")
  /\ UNCHANGED <<disk, cache, call, now, calls, edits, tallies, disturbed, exposed>>

LookUp(p) ==
  /\ at[p] = "look up"
  /\ Remembers(p, [trust |-> CASE Refused -> "TrustCacheCorrupt"
                               [] ~Refused /\ Approval(Here, seen[p].hash) \in trustCache.approvals
                                       -> "approved"
                               [] OTHER -> "UntrustedOverlay"])
  /\ Goes(p, "cascade")
  /\ UNCHANGED <<disk, cache, call, now, calls, edits, tallies, disturbed, exposed>>

(* The overlays are read a second time for the cascade; one that does not  *)
(* parse by now makes the call throw, and nothing is cached.               *)
LoadOverlays(p) ==
  /\ at[p] = "cascade"
  /\ \/ /\ \E tier \in Tiers : overlay[tier].body = Broken
        /\ Returns(p)
     \/ /\ \A tier \in Tiers : overlay[tier].body # Broken
        /\ Remembers(p, [trust |-> seen[p].trust,
                         overlays |-> [tier \in Tiers |-> overlay[tier].body]])
        /\ Goes(p, "record")
        /\ UNCHANGED call
  /\ UNCHANGED <<disk, cache, now, calls, edits, tallies, disturbed, exposed>>

Record(p) ==
  /\ at[p] = "record"
  /\ cache' = [cache EXCEPT ![p] = [value |-> seen[p], states |-> CollectBackingFileStates]]
  /\ Returns(p)
  /\ UNCHANGED <<disk, now, calls, edits, tallies, disturbed, exposed>>

(* persistOverlayMutation: read and parse; an overlay that does not parse  *)
(* is left alone.                                                          *)
ReadOverlay(p) ==
  /\ at[p] = "read overlay"
  /\ LET body == overlay[call[p].tier].body IN
     \/ body = Broken /\ Returns(p)
     \/ body # Broken /\ Remembers(p, [base |-> body]) /\ Goes(p, "persist") /\ UNCHANGED call
  /\ UNCHANGED <<disk, cache, now, calls, edits, tallies, disturbed, exposed>>

(* Mutate, validate, replace the file, drop this server's own cache entry. *)
Persist(p) ==
  /\ at[p] = "persist"
  /\ LET c == call[p]
         base == BaseData(seen[p].base)
         data == Mutate(base, c)
         entries(values) == {<<c.tier, v>> : v \in values}
     IN
     \/ /\ ForbiddenAtUserTier(c.tier, data)
        /\ UNCHANGED <<overlay, cache, now, disturbed, writer, mine, clobbered>>
     \/ /\ ~ForbiddenAtUserTier(c.tier, data)
        /\ WriteOverlay(c.tier, data, p)
        /\ cache' = [cache EXCEPT ![p] = NoEntry]
        /\ clobbered' = clobbered \union entries(Entries(overlay[c.tier].body) \ Entries(base))
        /\ mine' = CASE c.field = "checks" /\ c.kind = "setOverlayField" ->
                          {e \in mine : e[1] # c.tier} \union entries({c.value})
                     [] c.field = "checks" /\ c.kind = "appendToOverlayField" ->
                          mine \union entries({c.value})
                     [] c.field = "checks" /\ c.kind = "removeFromOverlayField" ->
                          mine \ entries({c.value})
                     [] OTHER -> mine
  /\ Returns(p)
  /\ UNCHANGED <<trustCache, calls, edits, everApproved, kept, unseen, exposed>>

(* trustApprove and trustRevoke: a refused cache makes both throw.         *)
ReadApprovals(p) ==
  /\ at[p] = "read approvals"
  /\ \/ Refused /\ Returns(p)
     \/ /\ ~Refused
        /\ Remembers(p, [approvals |-> trustCache.approvals,
                         hash |-> IF call[p].kind = "trustApprove" THEN seen[p].hash ELSE Absent])
        /\ Goes(p, "replace approvals")
        /\ UNCHANGED call
  /\ UNCHANGED <<disk, cache, now, calls, edits, tallies, disturbed, exposed>>

(* writeCache: a file of the process's default mode takes the place, and   *)
(* is closed to other users by a second system call.                       *)
ReplaceApprovals(p) ==
  /\ at[p] = "replace approvals"
  /\ LET new == Approval(Here, seen[p].hash)
         approves == call[p].kind = "trustApprove"
     IN
     /\ trustCache' = [secure |-> FALSE,
                       approvals |-> IF approves THEN UpsertApproval(seen[p].approvals, new)
                                     ELSE RemoveApprovals(seen[p].approvals, Here)]
     /\ kept' = IF approves THEN kept \union {new} ELSE RemoveApprovals(kept, Here)
     /\ everApproved' = everApproved \union IF approves THEN {seen[p].hash} ELSE {}
     /\ unseen' = unseen \union (trustCache.approvals \ seen[p].approvals)
  /\ Goes(p, "chmod")
  /\ UNCHANGED <<overlay, cache, call, seen, now, calls, edits, writer, mine, clobbered,
                 disturbed, exposed>>

Chmod(p) ==
  /\ at[p] = "chmod"
  /\ trustCache' = [trustCache EXCEPT !.secure = TRUE]
  /\ cache' = [cache EXCEPT ![p] =
                 IF call[p].kind = "trustApprove"
                      \/ RemoveApprovals(seen[p].approvals, Here) # seen[p].approvals
                 THEN NoEntry ELSE @]
  /\ Returns(p)
  /\ UNCHANGED <<overlay, now, calls, edits, tallies, disturbed, exposed>>

Kill(p) ==
  /\ at[p] # "idle"
  /\ Returns(p)
  /\ cache' = [cache EXCEPT ![p] = NoEntry]
  /\ exposed' = (exposed \/ at[p] = "chmod")
  /\ UNCHANGED <<disk, now, calls, edits, tallies, disturbed>>

(* The user edits an overlay, or follows the remediation of a refused      *)
(* trust cache.                                                            *)
Edit ==
  /\ edits < MaxEdits
  /\ edits' = edits + 1
  /\ \E tier \in Tiers, body \in EditedBodies :
       /\ WriteOverlay(tier, body, "user")
       /\ mine' = {e \in mine : e[1] # tier}
  /\ UNCHANGED <<trustCache, cache, at, call, seen, calls, everApproved, kept, unseen,
                 clobbered, exposed>>

RestoreMode ==
  /\ Refused
  /\ trustCache' = [trustCache EXCEPT !.secure = TRUE]
  /\ exposed' = FALSE
  /\ UNCHANGED <<overlay, cache, at, call, seen, now, calls, edits, tallies, disturbed>>

(* A step of a call of server p.                                          *)
ServerStep(p) ==
  \/ StartCall(p) \/ Get(p) \/ Validate(p) \/ Hash(p) \/ LookUp(p)
  \/ LoadOverlays(p) \/ Record(p) \/ ReadOverlay(p) \/ Persist(p)
  \/ ReadApprovals(p) \/ ReplaceApprovals(p) \/ Chmod(p)

UserStep == Edit \/ RestoreMode

-------------------------------------------------------------------------------
(* Properties *)

(* What the resolved-config cache serves is what the overlays say: unless  *)
(* a file moved under the composition itself, a served overlay differs     *)
(* from its file only where somebody else has replaced it within the very  *)
(* instant that the entry recorded.  A file that appears or disappears is  *)
(* noticed, and a server never serves what its own write has replaced.     *)
ServedIsCurrent ==
  \A p \in Servers \ disturbed :
    Hit(p) =>
      \A tier \in Tiers :
        \/ cache[p].value.overlays[tier] = overlay[tier].body
        \/ /\ tier \in DOMAIN cache[p].states
           /\ cache[p].states[tier] = overlay[tier].mtime
           /\ writer[tier] # p

(* Commands of a project overlay come out of a composition without a trust *)
(* issue only if exactly these contents were approved for this project,    *)
(* however approvals, revocations, kills and other compositions interleave.*)
(* (A file that moves under a composition is checked and read apart.)      *)
CommandsApproved ==
  \A p \in Servers \ (Unsafe \union disturbed) :
    cache[p] # NoEntry /\ cache[p].value.trust \in {"skipped", "approved"} =>
      LET body == cache[p].value.overlays["project"] IN
      ProjectDeclaresCommands(body) => body \in everApproved

(* An acknowledged approval, of this project or another, is there until it *)
(* is revoked or a process writes back approvals it read before; and only  *)
(* between the two system calls of a write, or after a kill there, does    *)
(* everybody find the cache refused.                                       *)
ApprovalsKept ==
  /\ kept \subseteq trustCache.approvals \union unseen
  /\ Refused => exposed \/ \E p \in Servers : at[p] = "chmod"

(* A mutation changes the field it names and nothing else: an entry that a *)
(* tool has appended is in the file until it is removed or replaced, the   *)
(* file is edited by hand, or a process writes back what it read before;   *)
(* and no tool leaves a user overlay with a field of the project tier.     *)
EntriesKept ==
  /\ \A e \in mine \ clobbered : e[2] \in Entries(overlay[e[1]].body)
  /\ writer["user"] # "user" => ~ForbiddenAtUserTier("user", overlay["user"].body)
===============================================================================
