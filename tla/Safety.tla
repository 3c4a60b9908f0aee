--------------------------------- MODULE Safety --------------------------------
(***************************************************************************)
(* The loop-safety decisions of src/safety: three pure checks asked at     *)
(* every attempt-start boundary, the resolver of the limits they compare   *)
(* with, and the counters they are fed, folded from the agentAttempt       *)
(* events of the trace.  No check keeps a counter of its own.              *)
(***************************************************************************)
EXTENDS Integers, Sequences, FiniteSets, FiniteSetsExt, Functions

CONSTANT
  SeedSprintBudget    (* DEFAULT_SPRINT_BUDGET, or the defaults the caller *)
                      (* of the resolver injects                           *)

ASSUME SeedBudgetAssumption == SeedSprintBudget \in Nat \ {0}

Proposer  == "gan-contract-proposer"
Generator == "gan-generator"
Evaluator == "gan-evaluator"
Roles == {"gan-clarifier", "gan-planner", Proposer, "gan-contract-reviewer",
          Generator, "gan-reviewer-independent", Evaluator}

(* Keys that no tally is ever indexed with.                                *)
FORBIDDEN_ROLE_KEYS == {"__proto__", "constructor", "prototype"}

DEFAULT_ATTEMPT_CEILINGS == [role \in {Proposer, Generator} |-> 3]
MAX_ATTEMPTS_BUDGET_HEADROOM == 4
DEFAULT_RENEGOTIATION_CAP == 2
FAILED_LOOP_DETECTED == "failed-loop-detected"

-------------------------------------------------------------------------------
(* Counters.  attempts: the agentAttempt events of a trace, each a record  *)
(* [role, attemptNumber, contractRevision]; an event without a             *)
(* contractRevision reads as one of revision 0.                            *)

Tally(attempts) ==
  [role \in {a.role : a \in attempts} \ FORBIDDEN_ROLE_KEYS |->
     LET own == {a \in attempts : a.role = role} IN
     [attemptCount |-> Cardinality(own),
      highestAttemptNumber |-> Max({a.attemptNumber : a \in own})]]

(* reconstructRecoveryState counts the whole trace, every sprint of it.    *)
ReconstructRecoveryState(attempts) == Tally(attempts)

(* reconstructRevisionState counts one contract revision, of every sprint. *)
ReconstructRevisionState(attempts, revision) ==
  Tally({a \in attempts : a.contractRevision = revision})

CountOf(state, role) == IF role \in DOMAIN state THEN state[role].attemptCount ELSE 0

(* Mutant: a plain recovery starts from zero as well.                      *)
StartingCountersAlwaysZero(state, reset) ==
  [role \in DOMAIN state \ FORBIDDEN_ROLE_KEYS |-> 0]

(* --recover keeps the counters, --reset-attempts zeroes every one.        *)
EffectiveStartingCounters(state, reset) ==
  [role \in DOMAIN state \ FORBIDDEN_ROLE_KEYS |->
     IF reset THEN 0 ELSE CountOf(state, role)]

ValidateResetAttemptsUsage(recover, reset) == reset => recover

-------------------------------------------------------------------------------
(* The effective limits: flags, then the overlay, then the seeds.          *)

(* A limit that is not an integer of at least 1 is no limit: the next      *)
(* source is asked.  0 stands for every such value, an absent one included.*)
Usable(n) == n >= 1
FirstUsable(n, otherwise) == IF Usable(n) THEN n ELSE otherwise

FoldRoleCeilings(target, source) ==
  LET usable == {role \in DOMAIN source \ FORBIDDEN_ROLE_KEYS : Usable(source[role])} IN
  [role \in DOMAIN target \union usable |->
     IF role \in usable THEN source[role] ELSE target[role]]

(* overlay: the merged safety block; maxAttempts: --max-attempts.  The     *)
(* budget it derives counts the seed roles, not those an overlay adds.     *)
ResolveEffectiveSafetyConfig(overlay, maxAttempts) ==
  LET folded == FoldRoleCeilings(DEFAULT_ATTEMPT_CEILINGS, overlay.attemptCeilings)
      seedRoles == Cardinality(DOMAIN DEFAULT_ATTEMPT_CEILINGS)
  IN
  [attemptCeilings |->
     [role \in DOMAIN folded |-> FirstUsable(maxAttempts, folded[role])],
   sprintBudget |->
     IF Usable(maxAttempts) THEN maxAttempts * seedRoles + MAX_ATTEMPTS_BUDGET_HEADROOM
     ELSE FirstUsable(overlay.sprintBudget, SeedSprintBudget),
   oscillationDetection |-> overlay.oscillationDetection # "false",
   renegotiationCap |-> FirstUsable(overlay.renegotiationCap, DEFAULT_RENEGOTIATION_CAP)]

-------------------------------------------------------------------------------
(* The three checks.  counts: role -> attempts so far.                     *)

NoHalt == [halt |-> FALSE]
Halt(reason, role, attempts, ceiling) ==
  [halt |-> TRUE, reason |-> reason, role |-> role, attempts |-> attempts,
   ceiling |-> ceiling, pattern |-> "none"]

AttemptsOf(counts, role) == IF role \in DOMAIN counts THEN counts[role] ELSE 0

(* Mutant: one attempt past the ceiling.                                   *)
CheckRoleCeilingLate(role, counts, ceilings) ==
  LET n == AttemptsOf(counts, role) IN
  IF role \in DOMAIN ceilings \ FORBIDDEN_ROLE_KEYS /\ n > ceilings[role]
  THEN Halt("roleCeilingExceeded", role, n, ceilings[role])
  ELSE NoHalt

(* A role without a ceiling never halts here.                              *)
CheckRoleCeiling(role, counts, ceilings) ==
  LET n == AttemptsOf(counts, role) IN
  IF role \in DOMAIN ceilings \ FORBIDDEN_ROLE_KEYS /\ n >= ceilings[role]
  THEN Halt("roleCeilingExceeded", role, n, ceilings[role])
  ELSE NoHalt

TotalAttempts(counts) ==
  FoldFunctionOnSet(LAMBDA n, total : n + total, 0, counts,
                    DOMAIN counts \ FORBIDDEN_ROLE_KEYS)

(* The combined work of all roles, on behalf of the pseudo-role "sprint".  *)
CheckSprintBudget(counts, budget) ==
  LET total == TotalAttempts(counts) IN
  IF total >= budget
  THEN Halt("sprintBudgetExceeded", "sprint", total, budget)
  ELSE NoHalt

(* The pattern that attempt i of the generator's history completes.  Only  *)
(* an attempt that followed a rejection can complete one; every attempt    *)
(* counts as an earlier occurrence.                                        *)
Pattern(history, i) ==
  LET edit(j) == history[j].fingerprint
      earlier == {j \in 1..(i - 1) : edit(j) = edit(i)}
  IN
  CASE ~history[i].followedRejection -> "none"
    [] history[i].followedRejection /\ Cardinality(earlier) >= 2 -> "directRepeat"
    [] OTHER -> IF i > 2 /\ edit(i) = edit(i - 2) /\ edit(i) # edit(i - 1)
                THEN "3cycle" ELSE "none"

(* Mutant: compares adjacent attempts and those two apart only.            *)
DetectEditOscillationNearby(history) ==
  IF \E i \in 3..Len(history) :
       /\ history[i].followedRejection
       /\ history[i].fingerprint = history[i - 2].fingerprint
       /\ history[i].fingerprint # history[i - 1].fingerprint
  THEN Halt("editOscillation", Generator, Len(history), Len(history))
  ELSE NoHalt

(* The whole history is scanned, oldest first; the earliest pattern halts. *)
DetectEditOscillation(history) ==
  LET completed == {i \in DOMAIN history : Pattern(history, i) # "none"} IN
  IF completed = {} THEN NoHalt
  ELSE [Halt("editOscillation", Generator, Len(history), Len(history))
          EXCEPT !.pattern = Pattern(history, Min(completed))]

(* Everything that applies at the boundary before an attempt of role, the  *)
(* oscillation check on the generator's boundary and if it is not disabled.*)
Boundary(role, counts, history, config) ==
  {CheckRoleCeiling(role, counts, config.attemptCeilings),
   CheckSprintBudget(counts, config.sprintBudget),
   IF role = Generator /\ config.oscillationDetection
   THEN DetectEditOscillation(history) ELSE NoHalt} \ {NoHalt}
===============================================================================
