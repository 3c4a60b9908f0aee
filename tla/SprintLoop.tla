------------------------------- MODULE SprintLoop ------------------------------
(***************************************************************************)
(* The loop of a /gan run (skills/gan/SKILL.md): clarifier, planner, then  *)
(* for every sprint proposer, contract reviewer, generator, independent    *)
(* reviewer with its renegotiation round, evaluator, again and again until *)
(* the evaluator is satisfied.  Before every attempt the checks of Safety  *)
(* are asked; they see the attempts that reached the trace and nothing     *)
(* else.  Sessions stop anywhere and are recovered.                        *)
(***************************************************************************)
EXTENDS Safety, Review

CONSTANTS
  Edits,            (* fingerprints of the generator's edit sets           *)
  Overlays,         (* merged safety blocks the user may have or change to *)
  Bundles,          (* what independent reviewers hand in                  *)
  LastSprint,       (* sprints of the plan                                 *)
  MaxRounds,        (* clarification rounds a user asks for, at most 3     *)
  Losable,          (* bound: roles whose attempts may miss the trace ...  *)
  MaxLost,          (* bound: ... and how many of them do                  *)
  MaxRecoveries     (* bound: --recover sessions                           *)

ASSUME LoopAssumption ==
  /\ \A overlay \in Overlays :
       /\ overlay.attemptCeilings \in [DOMAIN overlay.attemptCeilings -> Nat]
       /\ overlay.sprintBudget \in Nat
       /\ overlay.renegotiationCap \in Nat
  /\ \A bundle \in Bundles : bundle.findings \in Seq(Finding)

VARIABLES
  session,          (* "up" while an orchestrator works on the run         *)
  next,             (* the role at the next attempt-start boundary         *)
  running,          (* the role whose attempt is in flight                 *)
  progress,         (* progress.json                                       *)
  contract,         (* the sprint's canonical contract exists              *)
  review,           (* the current attempt's findings, validated           *)
  config,           (* the session's effective safety config               *)
  attempts,         (* the agentAttempt events of the trace                *)
  history,          (* the generator's fingerprints among them             *)
  rejected,         (* the last recorded verdict was a rejection           *)
  started,          (* the counters the session started from               *)
  before,           (* the attempts that the trace held by then            *)
  made,             (* attempts spawned, per role: currentAttempt          *)
  recoveries,
  (* History, read by no guard: *)
  lost,             (* attempts that never reached the trace               *)
  pardoned,         (* made and lost when the counters were last reset     *)
  limits,           (* the configs in force since                          *)
  halts,            (* the loop halts a reset has not pardoned             *)
  rejection         (* the circumstances of the last rejection of the run  *)

loop   == <<session, next, running>>
disk   == <<progress, contract, review>>
trace  == <<attempts, history, rejected>>
basis  == <<config, started, before, recoveries>>
ghosts == <<lost, pardoned, limits, halts, rejection>>
sprintVars == <<loop, disk, trace, basis, made, ghosts>>

None == "none"

Configs == {ResolveEffectiveSafetyConfig(o, 0) : o \in Overlays}
NoReview == [findings |-> <<>>, dropped |-> 0]

NoneYet == [role \in Roles |-> 0]
NoRejection == [relocks |-> 0, cap |-> 0, findings |-> <<>>, recoveries |-> 0]

SprintInit ==
  /\ session = "up"
  /\ next = "gan-clarifier"
  /\ running = None
  /\ progress = [status |-> "clarifying", terminal |-> FALSE, reason |-> None,
                 sprint |-> 1, revision |-> 0]
  /\ contract = FALSE
  /\ review = NoReview
  /\ config \in Configs
  /\ attempts = {}
  /\ history = <<>>
  /\ rejected = FALSE
  /\ started = << >>
  /\ before = {}
  /\ made = NoneYet
  /\ recoveries = 0
  /\ lost = NoneYet
  /\ pardoned = [made |-> NoneYet, lost |-> NoneYet]
  /\ limits = {config}
  /\ halts = {}
  /\ rejection = NoRejection

-------------------------------------------------------------------------------
(* The attempt-start boundary                                              *)

(* What the session started from and what the trace has counted since.     *)
Counts ==
  LET since == ReconstructRecoveryState(attempts \ before) IN
  [role \in DOMAIN started \union DOMAIN since |->
     AttemptsOf(started, role) + CountOf(since, role)]

StatusOf(role) ==
  CASE role = "gan-clarifier"                               -> "clarifying"
    [] role = "gan-planner"                                 -> "planning"
    [] role \in {Proposer, "gan-contract-reviewer"}         -> "negotiating"
    [] role \in {Generator, "gan-reviewer-independent"}     -> "building"
    [] role = Evaluator                                     -> "evaluating"

Spawn ==
  /\ session = "up"
  /\ running = None
  /\ next # None
  /\ Boundary(next, Counts, history, config) = {}
  /\ running' = next
  /\ made' = [made EXCEPT ![next] = @ + 1]
  /\ progress' = [progress EXCEPT !.status = StatusOf(next)]
  /\ UNCHANGED <<session, next, contract, review, trace, basis, ghosts>>

(* A halt: buildLoopHaltTerminalRecord goes to progress, the session exits.*)
HaltSprint ==
  LET fired == Boundary(next, Counts, history, config) IN
  /\ session = "up"
  /\ running = None
  /\ next # None
  /\ fired # {}
  /\ session' = "down"
  /\ progress' = [progress EXCEPT !.terminal = TRUE, !.reason = FAILED_LOOP_DETECTED]
  /\ halts' = halts \union {[role |-> next, reason |-> h.reason, config |-> config] : h \in fired}
  /\ UNCHANGED <<next, running, contract, review, trace, basis, made, lost, pardoned, limits, rejection>>

-------------------------------------------------------------------------------
(* The attempts.  Each returns with its agentAttempt event appended, or    *)
(* dropped: emitTraceEvent never throws, a failed append is counted and    *)
(* the run goes on.                                                        *)

LostTotal == TotalAttempts(lost)

Recorded(role) ==
  /\ session = "up"
  /\ running = role
  /\ running' = None
  /\ attempts' = attempts \union {[role |-> role, attemptNumber |-> made[role],
                                   contractRevision |-> progress.revision]}
  /\ UNCHANGED <<lost>>

Dropped(role) ==
  /\ session = "up"
  /\ running = role
  /\ running' = None
  /\ role \in Losable /\ LostTotal < MaxLost
  /\ lost' = [lost EXCEPT ![role] = @ + 1]
  /\ UNCHANGED <<attempts>>

Returns(role) == Recorded(role) \/ Dropped(role)

steady == <<session, basis, made, pardoned, limits, halts, rejection>>

(* The orchestrator moves on, and records in which phase the run is now.   *)
MoveOn(role) ==
  /\ next' = role
  /\ progress' = [progress EXCEPT !.status = StatusOf(role)]

EndRun(reason) ==
  /\ session' = "down"
  /\ progress' = [progress EXCEPT !.terminal = TRUE, !.reason = reason]

(* The user approves, asks for another round (three at most) or cancels.   *)
Clarified ==
  /\ Returns("gan-clarifier")
  /\ \/ MoveOn("gan-planner")
     \/ made["gan-clarifier"] < MaxRounds /\ MoveOn("gan-clarifier")
  /\ UNCHANGED <<steady, contract, review, history, rejected>>

Cancel ==
  /\ Recorded("gan-clarifier")
  /\ EndRun("aborted-by-user")
  /\ UNCHANGED <<next, contract, review, history, rejected, basis, made, pardoned, limits,
                 halts, rejection>>

Planned ==
  /\ Returns("gan-planner")
  /\ MoveOn(Proposer)
  /\ UNCHANGED <<steady, contract, review, history, rejected>>

Proposed ==
  /\ Returns(Proposer)
  /\ MoveOn("gan-contract-reviewer")
  /\ UNCHANGED <<steady, contract, review, history, rejected>>

(* The draft goes back, is locked as the sprint's contract, or ends a round*)
(* of renegotiation: relockContract, on to the evaluator.                  *)
ContractReviewed ==
  /\ Returns("gan-contract-reviewer")
  /\ \/ MoveOn(Proposer) /\ UNCHANGED contract
     \/ ~contract /\ contract' = TRUE /\ MoveOn(Generator)
     \/ /\ contract
        /\ progress' = [progress EXCEPT !.revision = @ + 1, !.status = "building"]
        /\ next' = Evaluator
        /\ UNCHANGED contract
  /\ UNCHANGED <<steady, review, history, rejected>>

Generated ==
  /\ \/ /\ Recorded(Generator)
        /\ \E edit \in Edits :
             history' = Append(history, [fingerprint |-> edit, followedRejection |-> rejected])
     \/ Dropped(Generator) /\ UNCHANGED history
  /\ MoveOn("gan-reviewer-independent")
  /\ UNCHANGED <<steady, contract, review, rejected>>

(* The cap counts the successful re-locks of the sprint.                   *)
CapFired == progress.revision >= config.renegotiationCap

(* The findings are validated; a surviving blocker or warning that no      *)
(* criterion covers starts a round, and at the cap an unresolved blocker   *)
(* ends the run (writeFailedEvaluationRejectedTool).                       *)
Reviewed ==
  /\ Returns("gan-reviewer-independent")
  /\ \E bundle \in Bundles, covered \in BOOLEAN :
       LET valid == ValidateFindings(bundle)
           summary == Summary(valid)
           uncovered == ~covered /\ summary["blocker"] + summary["warning"] > 0
           rejects == uncovered /\ RejectsRun(CapFired, summary["blocker"])
       IN
       /\ review' = valid
       /\ \/ /\ uncovered /\ ~CapFired
             /\ MoveOn(Proposer)
             /\ UNCHANGED <<session, rejection>>
          \/ /\ rejects
             /\ EndRun(FAILED_EVALUATION_REJECTED)
             /\ next' = None
             /\ rejection' = [relocks |-> progress.revision, cap |-> config.renegotiationCap,
                              findings |-> valid.findings, recoveries |-> recoveries]
          \/ /\ ~uncovered \/ CapFired
             /\ ~rejects
             /\ MoveOn(Evaluator)
             /\ UNCHANGED <<session, rejection>>
  /\ UNCHANGED <<contract, history, rejected, basis, made, pardoned, limits, halts>>

MoreSprints == progress.sprint < LastSprint

NextSprint ==
  IF MoreSprints
  THEN /\ progress' = [progress EXCEPT !.sprint = @ + 1, !.revision = 0,
                                       !.status = "negotiating"]
       /\ next' = Proposer
       /\ contract' = FALSE
       /\ UNCHANGED session
  ELSE /\ progress' = [progress EXCEPT !.terminal = TRUE, !.reason = "complete",
                                       !.status = "complete"]
       /\ next' = None
       /\ session' = "down"
       /\ UNCHANGED contract

Evaluated ==
  /\ \E pass \in BOOLEAN :
       /\ \/ Recorded(Evaluator) /\ rejected' = ~pass
          \/ Dropped(Evaluator) /\ UNCHANGED rejected
       /\ \/ pass /\ NextSprint
          \/ ~pass /\ MoveOn(Generator) /\ UNCHANGED <<session, contract>>
  /\ review' = NoReview
  /\ UNCHANGED <<history, basis, made, pardoned, limits, halts, rejection>>

-------------------------------------------------------------------------------
(* Stops and recoveries                                                    *)

(* The session is killed; an attempt in flight leaves no event.            *)
Stop ==
  /\ session = "up"
  /\ running # None => running \in Losable /\ LostTotal < MaxLost
  /\ session' = "down"
  /\ running' = None
  /\ lost' = IF running = None THEN lost ELSE [lost EXCEPT ![running] = @ + 1]
  /\ UNCHANGED <<next, disk, trace, basis, made, pardoned, limits, halts, rejection>>

(* The re-entry branches, by recorded status.                              *)
ReEntry ==
  [clarifying |-> "gan-clarifier", planning |-> "gan-planner", negotiating |-> Proposer,
   building |-> Generator, evaluating |-> Evaluator]

(* A terminal status has no branch: the dispatch does nothing, or matches  *)
(* the word to any of the five.                                            *)
ReEntries ==
  IF progress.status \in DOMAIN ReEntry
  THEN {ReEntry[progress.status]}
  ELSE Range(ReEntry) \union {None}

(* --recover --run-id, under the overlay of that time.  It may name a run  *)
(* that is over: nothing refuses it yet.                                   *)
(* Bound: a user resets the counters of a run that a limit has halted.     *)
Recover ==
  /\ session = "down"
  /\ recoveries < MaxRecoveries
  /\ recoveries' = recoveries + 1
  /\ session' = "up"
  /\ next' \in ReEntries
  /\ config' \in Configs
  /\ before' = attempts
  /\ \E reset \in BOOLEAN :
       /\ ValidateResetAttemptsUsage(TRUE, reset)
       /\ reset => progress.reason = FAILED_LOOP_DETECTED
       /\ started' = EffectiveStartingCounters(ReconstructRecoveryState(attempts), reset)
       /\ pardoned' = IF reset THEN [made |-> made, lost |-> lost] ELSE pardoned
       /\ limits' = (IF reset THEN {} ELSE limits) \union {config'}
       /\ halts' = IF reset THEN {h \in halts : h.reason = "editOscillation"} ELSE halts
  /\ UNCHANGED <<running, disk, trace, made, lost, rejection>>

-------------------------------------------------------------------------------
SprintNext ==
  \/ Spawn \/ HaltSprint \/ Clarified \/ Cancel \/ Planned \/ Proposed
  \/ ContractReviewed \/ Generated \/ Reviewed \/ Evaluated
  \/ Stop \/ Recover

SprintSpec == SprintInit /\ [][SprintNext]_sprintVars

-------------------------------------------------------------------------------
(* Properties *)

HighestCeiling(role) == Max({c.attemptCeilings[role] : c \in limits})

(* The trace being the only counter, the attempts a run really makes stay  *)
(* within the limits in force, but for the attempts that left no event:    *)
(* each of those is one more, and nothing else is, however the sessions    *)
(* stop and recover.  The budget is one for all sprints of the run.        *)
AttemptsBounded ==
  LET since(f, g, role) == f[role] - g[role]
      spent(role) == since(made, pardoned.made, role) - since(lost, pardoned.lost, role)
  IN
  /\ \A role \in DOMAIN DEFAULT_ATTEMPT_CEILINGS : spent(role) <= HighestCeiling(role)
  /\ TotalAttempts([role \in Roles |-> spent(role)]) <= Max({c.sprintBudget : c \in limits})

(* "A recovered sprint already at its ceiling halts again on the very next *)
(* attempt-start check" (SKILL.md:355): under the config that halted it no *)
(* attempt of the halted step starts again, and after an oscillation halt  *)
(* none of the generator's does while detection is on, not even after      *)
(* --reset-attempts, since the history is read from the trace.             *)
HaltsStick ==
  \A h \in halts :
    running = None \/ ~ \/ h.reason = "roleCeilingExceeded" /\ running = h.role /\ config = h.config
                        \/ h.reason = "sprintBudgetExceeded" /\ config = h.config
                        \/ h.reason = "editOscillation" /\ running = Generator
                             /\ config.oscillationDetection

(* No thrash under detection: whatever the generator does, it is sent back *)
(* to work only while every edit has come after a rejection twice at most. *)
NoThirdTry ==
  running = Generator /\ config.oscillationDetection =>
    \A edit \in Edits :
      Cardinality({i \in DOMAIN history : history[i].fingerprint = edit
                                            /\ history[i].followedRejection}) <= 2

(* A run is rejected for a blocker that stood up to validation, after as   *)
(* many re-locks as the cap of that time allows, and rests until a user    *)
(* recovers it by name.                                                    *)
RejectedForCause ==
  progress.reason = FAILED_EVALUATION_REJECTED =>
    /\ rejection.relocks >= rejection.cap
    /\ \E f \in Range(rejection.findings) :
         /\ f.severity = "blocker"
         /\ f.kind = "inspection" \/ f.command = "reproduces"
    /\ session = "up" => recoveries > rejection.recoveries
===============================================================================
