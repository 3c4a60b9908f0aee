---------------------------- MODULE SprintLoopProofs ----------------------------
(***************************************************************************)
(* The invariants of the sprint loop, for every overlay, every bundle of   *)
(* the reviewers and any number of sprints, losses and recoveries.         *)
(***************************************************************************)
EXTENDS SprintLoop, DataLemmas

(* The roles are seven, and none of them is a key that tallies leave out.  *)
LEMMA RolesFinite == IsFiniteSet(Roles) /\ Roles \intersect FORBIDDEN_ROLE_KEYS = {}
<1>1. IsFiniteSet({"gan-clarifier"})
  BY FS_Singleton
<1>2. IsFiniteSet({"gan-clarifier"} \union {"gan-planner"} \union {Proposer}
                    \union {"gan-contract-reviewer"} \union {Generator}
                    \union {"gan-reviewer-independent"} \union {Evaluator})
  BY <1>1, FS_AddElement
<1>3. Roles = {"gan-clarifier"} \union {"gan-planner"} \union {Proposer}
                \union {"gan-contract-reviewer"} \union {Generator}
                \union {"gan-reviewer-independent"} \union {Evaluator}
  BY DEF Roles
<1> QED BY <1>2, <1>3 DEF Roles, FORBIDDEN_ROLE_KEYS, Proposer, Generator, Evaluator

(* What TotalAttempts adds up, written out.                                *)
SumOf(counts) ==
  AttemptsOf(counts, "gan-clarifier") + AttemptsOf(counts, "gan-planner")
    + AttemptsOf(counts, Proposer) + AttemptsOf(counts, "gan-contract-reviewer")
    + AttemptsOf(counts, Generator) + AttemptsOf(counts, "gan-reviewer-independent")
    + AttemptsOf(counts, Evaluator)

LEMMA TotalIsSum ==
  ASSUME NEW D \in SUBSET Roles, NEW f \in [D -> Int]
  PROVE  TotalAttempts(f) = SumOf(f)
<1> DEFINE Picked == [s \in SUBSET D |-> CHOOSE x \in s : TRUE]
           Stepped == [x \in D |-> [v \in Int |-> f[x] + v]]
           Solves(g) == g = [s \in SUBSET D |-> IF s = {} THEN 0
                             ELSE f[CHOOSE x \in s : TRUE] + g[s \ {CHOOSE x \in s : TRUE}]]
<1>1. IsFiniteSet(D) /\ DOMAIN f \ FORBIDDEN_ROLE_KEYS = D
  BY RolesFinite, FS_Subset
<1>2. PICK c : c = Picked
  OBVIOUS
<1>3. Picks(c, D)
  BY <1>2 DEF Picks
<1>4. \E g : Solves(g)
  <2>1. PICK step : step = Stepped
    OBVIOUS
  <2>2. step \in [D -> [Int -> Int]] /\ 0 \in Int
    BY <2>1
  <2>3. \E g \in [SUBSET D -> Int] : Computes(g, D, 0, c, step)
    BY <1>1, <1>3, <2>2, FiniteRecursion
  <2>4. PICK g \in [SUBSET D -> Int] : Computes(g, D, 0, c, step)
    BY <2>3
  <2>5. ASSUME NEW s \in SUBSET D, s # {}
        PROVE  step[c[s]][g[s \ {c[s]}]] = f[c[s]] + g[s \ {c[s]}]
    <3>1. c[s] \in D /\ g[s \ {c[s]}] \in Int
      BY <1>3, <2>5 DEF Picks
    <3> QED BY <2>1, <3>1
  <2>6. \A s \in SUBSET D : g[s] = IF s = {} THEN 0 ELSE f[c[s]] + g[s \ {c[s]}]
    BY <2>4, <2>5 DEF Computes
  <2>7. Solves(g)
    BY <1>2, <2>6
  <2> QED BY <2>7
<1>5. PICK it : it = CHOOSE g : Solves(g)
  OBVIOUS
<1>6. Solves(it)
  <2> HIDE DEF Sums
  <2> QED BY <1>4, <1>5
<1>7. TotalAttempts(f) = it[D]
  BY <1>1, <1>5, Zenon DEF TotalAttempts, FoldFunctionOnSet, MapThenFoldSet
<1>8. \A s \in SUBSET D : it[s] = IF s = {} THEN 0 ELSE f[c[s]] + it[s \ {c[s]}]
  BY <1>2, <1>6
<1>9. it \in [SUBSET D -> Int]
  <2>0. {} \in SUBSET D /\ 0 \in Int
    OBVIOUS
  <2>1. it[{}] \in Int
    BY <1>8, <2>0, Zenon
  <2>2. \A s \in SUBSET D : s # {} /\ it[s \ {c[s]}] \in Int => it[s] \in Int
    <3> SUFFICES ASSUME NEW s \in SUBSET D, s # {}, it[s \ {c[s]}] \in Int
                 PROVE  it[s] \in Int
      OBVIOUS
    <3>1. it[s] = f[c[s]] + it[s \ {c[s]}]
      BY <1>8, Zenon
    <3>2. f[c[s]] \in Int
      BY <1>3 DEF Picks
    <3> QED BY <3>1, <3>2
  <2>3. \A s \in SUBSET D : it[s] \in Int
    BY <1>1, <1>3, <2>1, <2>2, FiniteRecursionType, Zenon
  <2>4. it = [s \in SUBSET D |-> it[s]]
    BY <1>6
  <2> QED BY <2>3, <2>4
<1>10. Sums(it, f, D)
  BY <1>1, <1>3, <1>8, <1>9, SumTakesAny
<1>11. \A s \in SUBSET D, x \in Roles :
        it[s] = (IF x \in s THEN f[x] ELSE 0) + it[s \ {x}] /\ it[s] \in Int /\ s \ {x} \in SUBSET D
  <2> TAKE s \in SUBSET D, x \in Roles
  <2>0. it[s] \in Int
    BY <1>9
  <2>1. CASE x \in s
    BY <2>0, <1>10, <2>1 DEF Sums
  <2>2. CASE x \notin s
    <3>1. s \ {x} = s
      BY <2>2
    <3> QED BY <2>0, <2>2, <3>1
  <2> QED BY <2>1, <2>2
<1> DEFINE D1 == D \ {"gan-clarifier"}
           D2 == D1 \ {"gan-planner"}
           D3 == D2 \ {Proposer}
           D4 == D3 \ {"gan-contract-reviewer"}
           D5 == D4 \ {Generator}
           D6 == D5 \ {"gan-reviewer-independent"}
           D7 == D6 \ {Evaluator}
<1>12. D7 = {}
  BY DEF Roles
<1>13. it[{}] = 0
  BY <1>8
<1>14. {"gan-clarifier", "gan-planner", Proposer, "gan-contract-reviewer",
         Generator, "gan-reviewer-independent", Evaluator} = Roles
  BY DEF Roles
<1>15. /\ it[D] = AttemptsOf(f, "gan-clarifier") + it[D1]
       /\ it[D1] \in Int /\ D1 \in SUBSET D
  BY <1>11, <1>14 DEF AttemptsOf
<1>16. it[D1] = AttemptsOf(f, "gan-planner") + it[D2] /\ it[D2] \in Int /\ D2 \in SUBSET D
  BY <1>11, <1>14 DEF AttemptsOf
<1>17. it[D2] = AttemptsOf(f, Proposer) + it[D3] /\ it[D3] \in Int /\ D3 \in SUBSET D
  BY <1>11, <1>14 DEF AttemptsOf, Proposer
<1>18. it[D3] = AttemptsOf(f, "gan-contract-reviewer") + it[D4] /\ it[D4] \in Int /\ D4 \in SUBSET D
  BY <1>11, <1>14 DEF AttemptsOf, Proposer
<1>19. it[D4] = AttemptsOf(f, Generator) + it[D5] /\ it[D5] \in Int /\ D5 \in SUBSET D
  <2>1. Generator \in Roles /\ (Generator \in D => Generator \in D4)
    BY <1>14 DEF Proposer, Generator
  <2> HIDE DEF D4, D5, D6
  <2>2. D4 \in SUBSET D
    BY <1>18
  <2>3. D5 = D4 \ {Generator}
    BY DEF D5
  <2> HIDE DEF D7
  <2> QED BY <1>11, <2>1, <2>2, <2>3 DEF AttemptsOf
<1>20. it[D5] = AttemptsOf(f, "gan-reviewer-independent") + it[D6] /\ it[D6] \in Int /\ D6 \in SUBSET D
  <2>1. "gan-reviewer-independent" \in Roles /\ ("gan-reviewer-independent" \in D => "gan-reviewer-independent" \in D5)
    BY <1>14 DEF Proposer, Generator
  <2> HIDE DEF D4, D5, D6
  <2>2. D5 \in SUBSET D
    BY <1>19
  <2>3. D6 = D5 \ {"gan-reviewer-independent"}
    BY DEF D6
  <2> HIDE DEF D7
  <2> QED BY <1>11, <2>1, <2>2, <2>3 DEF AttemptsOf
<1>21. it[D6] = AttemptsOf(f, Evaluator) + it[D7] /\ it[D7] \in Int /\ D7 \in SUBSET D
  <2>1. Evaluator \in Roles /\ (Evaluator \in D => Evaluator \in D6)
    BY <1>14 DEF Proposer, Generator, Evaluator
  <2> HIDE DEF D4, D5, D6
  <2>2. D6 \in SUBSET D
    BY <1>20
  <2>3. D7 = D6 \ {Evaluator}
    BY DEF D7
  <2> HIDE DEF D7
  <2> QED BY <1>11, <2>1, <2>2, <2>3 DEF AttemptsOf
<1>22. \A role \in Roles : AttemptsOf(f, role) \in Int
  BY DEF AttemptsOf
<1> HIDE DEF D1, D2, D3, D4, D5, D6, D7
<1> QED BY <1>7, <1>12, <1>13, <1>14, <1>15, <1>16, <1>17, <1>18, <1>19, <1>20, <1>21, <1>22 DEF SumOf

LEMMA SumGrows ==
  ASSUME NEW f, NEW g,
         \A role \in Roles : /\ AttemptsOf(f, role) \in Int /\ AttemptsOf(g, role) \in Int
                             /\ AttemptsOf(f, role) <= AttemptsOf(g, role)
  PROVE  SumOf(f) <= SumOf(g) /\ SumOf(f) \in Int /\ SumOf(g) \in Int
BY DEF SumOf, Roles

-------------------------------------------------------------------------------
(* Counting attempts                                                       *)

NumberOf(as, role) == Cardinality({a \in as : a.role = role})

LEMMA NumberIsNat ==
  ASSUME NEW as, IsFiniteSet(as), NEW role
  PROVE  NumberOf(as, role) \in Nat
<1>1. IsFiniteSet({a \in as : a.role = role})
  BY FS_Subset
<1> QED BY <1>1, FS_CardinalityType DEF NumberOf

LEMMA NumberGrows ==
  ASSUME NEW as, IsFiniteSet(as), NEW bs \in SUBSET as, NEW role
  PROVE  NumberOf(bs, role) <= NumberOf(as, role)
<1>1. IsFiniteSet({a \in as : a.role = role})
  BY FS_Subset
<1>2. {a \in bs : a.role = role} \in SUBSET {a \in as : a.role = role}
  OBVIOUS
<1> QED BY <1>1, <1>2, FS_Subset DEF NumberOf

LEMMA NumberSplits ==
  ASSUME NEW as, IsFiniteSet(as), NEW bs \in SUBSET as, NEW role
  PROVE  NumberOf(as, role) = NumberOf(bs, role) + NumberOf(as \ bs, role)
<1> DEFINE One == {a \in bs : a.role = role}
           Two == {a \in as \ bs : a.role = role}
<1>1. IsFiniteSet(bs) /\ IsFiniteSet(as \ bs)
  BY FS_Subset
<1>2. IsFiniteSet(One) /\ IsFiniteSet(Two)
  BY <1>1, FS_Subset
<1>3. One \intersect Two = {} /\ {a \in as : a.role = role} = One \union Two
  OBVIOUS
<1>4. Cardinality(One) \in Nat /\ Cardinality(Two) \in Nat
  BY <1>2, FS_CardinalityType
<1>5. Cardinality(One \union Two) = Cardinality(One) + Cardinality(Two)
  <2> HIDE DEF One, Two
  <2>1. Cardinality(One \union Two)
          = Cardinality(One) + Cardinality(Two) - Cardinality(One \intersect Two)
    BY <1>2, FS_Union
  <2> QED BY <2>1, <1>3, <1>4, FS_EmptySet
<1> QED BY <1>3, <1>5 DEF NumberOf

LEMMA NumberAdds ==
  ASSUME NEW as, IsFiniteSet(as), NEW a, a \notin as, NEW role
  PROVE  NumberOf(as \union {a}, role) = NumberOf(as, role) + IF a.role = role THEN 1 ELSE 0
<1> DEFINE Own == {b \in as : b.role = role}
<1>1. IsFiniteSet(Own) /\ Cardinality(Own) \in Nat
  <2>1. IsFiniteSet(Own)
    BY FS_Subset
  <2> QED BY <2>1, FS_CardinalityType
<1>2. CASE a.role = role
  <2>1. {b \in as \union {a} : b.role = role} = Own \union {a} /\ a \notin Own
    BY <1>2
  <2>2. Cardinality(Own \union {a}) = Cardinality(Own) + 1
    <3> HIDE DEF Own
    <3> QED BY <1>1, <2>1, FS_AddElement
  <2> QED BY <2>1, <2>2, <1>2 DEF NumberOf
<1>3. CASE a.role # role
  <2>1. {b \in as \union {a} : b.role = role} = Own
    BY <1>3
  <2>2. NumberOf(as \union {a}, role) = Cardinality(Own) /\ NumberOf(as, role) = Cardinality(Own)
    BY <2>1 DEF NumberOf
  <2> HIDE DEF Own
  <2> QED BY <1>1, <2>2, <1>3
<1> QED BY <1>2, <1>3

(* What the recovery state says of a role is how often it was attempted.   *)
LEMMA CountIsNumber ==
  ASSUME NEW as, IsFiniteSet(as), NEW role \in Roles
  PROVE  CountOf(ReconstructRecoveryState(as), role) = NumberOf(as, role)
<1>1. role \notin FORBIDDEN_ROLE_KEYS
  BY RolesFinite
<1>2. CASE role \in {a.role : a \in as}
  BY <1>1, <1>2 DEF CountOf, ReconstructRecoveryState, Tally, NumberOf
<1>3. CASE role \notin {a.role : a \in as}
  <2>1. {a \in as : a.role = role} = {}
    BY <1>3
  <2> QED BY <1>3, <2>1, FS_EmptySet DEF CountOf, ReconstructRecoveryState, Tally, NumberOf
<1> QED BY <1>2, <1>3

(* Counts, of any starting counters and of any attempts since.             *)
CountsFrom(start, as) ==
  [role \in DOMAIN start \union DOMAIN ReconstructRecoveryState(as) |->
     AttemptsOf(start, role) + CountOf(ReconstructRecoveryState(as), role)]

LEMMA CountsAdd ==
  ASSUME NEW start, DOMAIN start \subseteq Roles, start \in [DOMAIN start -> Nat],
         NEW as, IsFiniteSet(as), \A a \in as : a.role \in Roles
  PROVE  /\ \A role \in Roles :
              /\ AttemptsOf(CountsFrom(start, as), role)
                   = AttemptsOf(start, role) + NumberOf(as, role)
              /\ AttemptsOf(start, role) \in Nat
              /\ NumberOf(as, role) \in Nat
         /\ DOMAIN CountsFrom(start, as) \in SUBSET Roles
         /\ CountsFrom(start, as) \in [DOMAIN CountsFrom(start, as) -> Int]
<1> DEFINE State == ReconstructRecoveryState(as)
<1>1. DOMAIN State = {a.role : a \in as} \ FORBIDDEN_ROLE_KEYS
  BY DEF ReconstructRecoveryState, Tally
<1>2. DOMAIN CountsFrom(start, as) \in SUBSET Roles
  BY <1>1 DEF CountsFrom
<1>3. \A role \in Roles : /\ AttemptsOf(start, role) \in Nat
                          /\ NumberOf(as, role) \in Nat
                          /\ CountOf(State, role) = NumberOf(as, role)
  BY NumberIsNat, CountIsNumber DEF AttemptsOf
<1>4. ASSUME NEW role \in Roles
      PROVE  AttemptsOf(CountsFrom(start, as), role) = AttemptsOf(start, role) + NumberOf(as, role)
  <2>1. CASE role \in DOMAIN CountsFrom(start, as)
    <3>1. AttemptsOf(CountsFrom(start, as), role) = CountsFrom(start, as)[role]
      BY <2>1 DEF AttemptsOf
    <3>2. CountsFrom(start, as)[role] = AttemptsOf(start, role) + CountOf(State, role)
      BY <2>1 DEF CountsFrom
    <3> QED BY <3>1, <3>2, <1>3
  <2>2. CASE role \notin DOMAIN CountsFrom(start, as)
    <3>1. AttemptsOf(CountsFrom(start, as), role) = 0
      BY <2>2 DEF AttemptsOf
    <3>2. role \notin DOMAIN start /\ role \notin DOMAIN State
      BY <2>2 DEF CountsFrom
    <3>3. AttemptsOf(start, role) = 0 /\ CountOf(State, role) = 0
      BY <3>2 DEF AttemptsOf, CountOf
    <3>4. NumberOf(as, role) = 0
      BY <3>3, <1>3
    <3> QED BY <3>1, <3>3, <3>4
  <2> QED BY <2>1, <2>2
<1>5. ASSUME NEW role \in DOMAIN CountsFrom(start, as) PROVE CountsFrom(start, as)[role] \in Int
  <2>1. role \in Roles
    BY <1>2
  <2>2. CountsFrom(start, as)[role] = AttemptsOf(CountsFrom(start, as), role)
    BY DEF AttemptsOf
  <2>3. AttemptsOf(CountsFrom(start, as), role) \in Int
    <3>1. AttemptsOf(CountsFrom(start, as), role) = AttemptsOf(start, role) + NumberOf(as, role)
      BY <2>1, <1>4
    <3>2. AttemptsOf(start, role) \in Nat /\ NumberOf(as, role) \in Nat
      BY <2>1, <1>3
    <3>3. \A m, n \in Nat : m + n \in Int
      OBVIOUS
    <3> QED BY <3>1, <3>2, <3>3, Zenon
  <2> QED BY <2>2, <2>3
<1>6. CountsFrom(start, as) = [role \in DOMAIN CountsFrom(start, as) |-> CountsFrom(start, as)[role]]
  BY DEF CountsFrom
<1>7. CountsFrom(start, as) \in [DOMAIN CountsFrom(start, as) -> Int]
  BY <1>5, <1>6
<1> QED BY <1>2, <1>3, <1>4, <1>7

-------------------------------------------------------------------------------
(* The limits and the checks                                               *)

(* Every effective config limits the proposer and the generator.           *)
LEMMA ConfigsLimit ==
  ASSUME NEW c \in Configs
  PROVE  /\ \A role \in {Proposer, Generator} : role \in DOMAIN c.attemptCeilings \ FORBIDDEN_ROLE_KEYS
         /\ \A role \in DOMAIN c.attemptCeilings : c.attemptCeilings[role] \in Nat
         /\ c.sprintBudget \in Nat
<1>1. PICK o \in Overlays : c = ResolveEffectiveSafetyConfig(o, 0)
  BY DEF Configs
<1> DEFINE folded == FoldRoleCeilings(DEFAULT_ATTEMPT_CEILINGS, o.attemptCeilings)
<1>2. /\ o.attemptCeilings \in [DOMAIN o.attemptCeilings -> Nat] /\ o.sprintBudget \in Nat
  BY LoopAssumption
<1>3. /\ \A role \in {Proposer, Generator} : role \in DOMAIN folded
      /\ \A role \in DOMAIN folded : folded[role] \in Nat
  BY <1>2 DEF FoldRoleCeilings, DEFAULT_ATTEMPT_CEILINGS
<1>4. c.attemptCeilings = [role \in DOMAIN folded |-> FirstUsable(0, folded[role])]
  BY <1>1 DEF ResolveEffectiveSafetyConfig
<1>5. c.sprintBudget = FirstUsable(o.sprintBudget, SeedSprintBudget)
  BY <1>1 DEF ResolveEffectiveSafetyConfig, Usable
<1>6. Proposer \notin FORBIDDEN_ROLE_KEYS /\ Generator \notin FORBIDDEN_ROLE_KEYS
  BY DEF Proposer, Generator, FORBIDDEN_ROLE_KEYS
<1>7. c.sprintBudget \in Nat
  BY <1>2, <1>5, SeedBudgetAssumption DEF FirstUsable, Usable
<1> HIDE DEF folded
<1>8. /\ \A role \in {Proposer, Generator} : role \in DOMAIN c.attemptCeilings \ FORBIDDEN_ROLE_KEYS
      /\ \A role \in DOMAIN c.attemptCeilings : c.attemptCeilings[role] \in Nat
  BY <1>3, <1>4, <1>6 DEF FirstUsable, Usable
<1> QED BY <1>7, <1>8

LEMMA HaltIsHalt ==
  ASSUME NEW reason, NEW role, NEW n, NEW ceiling
  PROVE  Halt(reason, role, n, ceiling) # NoHalt
BY DEF Halt, NoHalt

LEMMA OscillationHalts ==
  ASSUME NEW h
  PROVE  DetectEditOscillation(h) = NoHalt <=> \A i \in DOMAIN h : Pattern(h, i) = "none"
<1> DEFINE completed == {i \in DOMAIN h : Pattern(h, i) # "none"}
<1>1. CASE completed = {}
  BY <1>1 DEF DetectEditOscillation
<1>2. CASE completed # {}
  <2>1. DetectEditOscillation(h).halt = TRUE
    BY <1>2 DEF DetectEditOscillation, Halt
  <2>2. NoHalt.halt = FALSE
    BY DEF NoHalt
  <2> QED BY <1>2, <2>1, <2>2
<1> QED BY <1>1, <1>2

(* At a boundary where nothing halts every count is below its limit.       *)
LEMMA BoundaryClear ==
  ASSUME NEW role, NEW counts, NEW h, NEW c
  PROVE  Boundary(role, counts, h, c) = {} <=>
           /\ ~ (/\ role \in DOMAIN c.attemptCeilings \ FORBIDDEN_ROLE_KEYS
                 /\ AttemptsOf(counts, role) >= c.attemptCeilings[role])
           /\ ~ (TotalAttempts(counts) >= c.sprintBudget)
           /\ role = Generator /\ c.oscillationDetection =>
                \A i \in DOMAIN h : Pattern(h, i) = "none"
<1> DEFINE ceiling == CheckRoleCeiling(role, counts, c.attemptCeilings)
           budget == CheckSprintBudget(counts, c.sprintBudget)
           edits == IF role = Generator /\ c.oscillationDetection
                    THEN DetectEditOscillation(h) ELSE NoHalt
<1>1. ceiling = NoHalt <=> ~ (/\ role \in DOMAIN c.attemptCeilings \ FORBIDDEN_ROLE_KEYS
                              /\ AttemptsOf(counts, role) >= c.attemptCeilings[role])
  BY HaltIsHalt DEF CheckRoleCeiling
<1>2. budget = NoHalt <=> ~ (TotalAttempts(counts) >= c.sprintBudget)
  BY HaltIsHalt DEF CheckSprintBudget
<1>3. edits = NoHalt <=> (role = Generator /\ c.oscillationDetection =>
                            \A i \in DOMAIN h : Pattern(h, i) = "none")
  BY OscillationHalts
<1>4. Boundary(role, counts, h, c) = {ceiling, budget, edits} \ {NoHalt}
  BY DEF Boundary
<1>5. {ceiling, budget, edits} \ {NoHalt} = {} <=> ceiling = NoHalt /\ budget = NoHalt /\ edits = NoHalt
  OBVIOUS
<1> HIDE DEF ceiling, budget, edits
<1> QED BY <1>1, <1>2, <1>3, <1>4, <1>5

(* A halt names the limit that has been reached.                           *)
LEMMA BoundaryFires ==
  ASSUME NEW role, NEW counts, NEW h, NEW c, NEW fired \in Boundary(role, counts, h, c)
  PROVE  \/ /\ fired.reason = "roleCeilingExceeded"
            /\ role \in DOMAIN c.attemptCeilings \ FORBIDDEN_ROLE_KEYS
            /\ AttemptsOf(counts, role) >= c.attemptCeilings[role]
         \/ /\ fired.reason = "sprintBudgetExceeded"
            /\ TotalAttempts(counts) >= c.sprintBudget
         \/ /\ fired.reason = "editOscillation"
            /\ \E i \in DOMAIN h : Pattern(h, i) # "none"
<1>1. CASE fired = CheckRoleCeiling(role, counts, c.attemptCeilings) /\ fired # NoHalt
  BY <1>1 DEF CheckRoleCeiling, Halt
<1>2. CASE fired = CheckSprintBudget(counts, c.sprintBudget) /\ fired # NoHalt
  BY <1>2 DEF CheckSprintBudget, Halt
<1>3. CASE fired = DetectEditOscillation(h) /\ fired # NoHalt
  <2>1. \E i \in DOMAIN h : Pattern(h, i) # "none"
    BY <1>3, OscillationHalts
  <2>2. fired.reason = "editOscillation"
    BY <1>3, <2>1 DEF DetectEditOscillation, Halt
  <2> QED BY <2>1, <2>2
<1>4. /\ fired # NoHalt
      /\ \/ fired = CheckRoleCeiling(role, counts, c.attemptCeilings)
         \/ fired = CheckSprintBudget(counts, c.sprintBudget)
         \/ fired = DetectEditOscillation(h)
  BY DEF Boundary
<1> QED BY <1>1, <1>2, <1>3, <1>4

-------------------------------------------------------------------------------
(* The generator's history                                                 *)

Tries == [fingerprint : Edits, followedRejection : BOOLEAN]

(* An attempt completes the same pattern whatever comes after it.          *)
LEMMA PatternStays ==
  ASSUME NEW h \in Seq(Tries), NEW e, NEW i \in DOMAIN h
  PROVE  i \in DOMAIN Append(h, e) /\ Pattern(Append(h, e), i) = Pattern(h, i)
<1> DEFINE k == Append(h, e)
<1>1. i \in DOMAIN k /\ \A j \in 1..i : k[j] = h[j]
  OBVIOUS
<1>2. i \in 1..i /\ i \in Nat
  OBVIOUS
<1>3. k[i] = h[i] /\ (i > 2 => k[i - 1] = h[i - 1] /\ k[i - 2] = h[i - 2])
  BY <1>1, <1>2
<1>4. {j \in 1..(i - 1) : k[j].fingerprint = k[i].fingerprint}
        = {j \in 1..(i - 1) : h[j].fingerprint = h[i].fingerprint}
  BY <1>1, <1>2
<1>5. (IF i > 2 /\ k[i].fingerprint = k[i - 2].fingerprint /\ k[i].fingerprint # k[i - 1].fingerprint
       THEN "3cycle" ELSE "none")
      = (IF i > 2 /\ h[i].fingerprint = h[i - 2].fingerprint /\ h[i].fingerprint # h[i - 1].fingerprint
         THEN "3cycle" ELSE "none")
  BY <1>3
<1> HIDE DEF k
<1>6. Pattern(k, i) = Pattern(h, i)
  BY <1>3, <1>4, <1>5, Zenon DEF Pattern
<1> QED BY <1>1, <1>6 DEF k

(* An edit that came after a rejection three times is found.               *)
LEMMA ThirdTryFound ==
  ASSUME NEW h \in Seq(Tries), \A i \in DOMAIN h : Pattern(h, i) = "none", NEW edit \in Edits
  PROVE  Cardinality({i \in DOMAIN h : h[i].fingerprint = edit /\ h[i].followedRejection}) <= 2
<1> DEFINE K == {i \in DOMAIN h : h[i].fingerprint = edit /\ h[i].followedRejection}
<1>1. IsFiniteSet(K) /\ Cardinality(K) \in Nat
  <2>1. DOMAIN h = 1..Len(h) /\ Len(h) \in Int /\ 1 \in Int
    OBVIOUS
  <2>2. IsFiniteSet(DOMAIN h)
    BY <2>1, FS_Interval
  <2>3. IsFiniteSet(K)
    BY <2>2, FS_Subset
  <2> QED BY <2>3, FS_CardinalityType
<1>2. SUFFICES ASSUME ~(Cardinality(K) <= 2) PROVE FALSE
  OBVIOUS
<1>3. K # {} /\ K \in SUBSET Int
  <2>1. Cardinality({}) <= 2
    BY FS_EmptySet
  <2>2. K # {}
    <3> HIDE DEF K
    <3> QED BY <1>2, <2>1
  <2> QED BY <2>2
<1>4. PICK m \in K : \A j \in K : m >= j
  <2> HIDE DEF K
  <2> QED BY <1>1, <1>3, LargestExists
<1> DEFINE earlier == {j \in 1..(m - 1) : h[j].fingerprint = h[m].fingerprint}
<1>5. Cardinality(K \ {m}) = Cardinality(K) - 1
  <2> HIDE DEF K
  <2> QED BY <1>1, <1>4, FS_RemoveElement
<1>6. K \ {m} \in SUBSET earlier
  BY <1>4
<1>7. IsFiniteSet(earlier) /\ Cardinality(earlier) \in Nat
  <2>1. m - 1 \in Int /\ 1 \in Int
    BY <1>4
  <2>2. IsFiniteSet(1..(m - 1))
    BY <2>1, FS_Interval
  <2>3. IsFiniteSet(earlier)
    BY <2>2, FS_Subset
  <2> QED BY <2>3, FS_CardinalityType
<1>8. Cardinality(K \ {m}) <= Cardinality(earlier)
  <2> HIDE DEF K, earlier
  <2> QED BY <1>6, <1>7, FS_Subset
<1>9. Cardinality(earlier) >= 2
  <2> HIDE DEF K, earlier
  <2> QED BY <1>1, <1>2, <1>5, <1>7, <1>8
<1>10. h[m].followedRejection /\ m \in DOMAIN h
  BY <1>4
<1>11. Pattern(h, m) = "directRepeat"
  BY <1>9, <1>10, Zenon DEF Pattern
<1> QED BY <1>10, <1>11

-------------------------------------------------------------------------------
(* Sums of counters                                                        *)

Countable(start, as) ==
  /\ DOMAIN start \subseteq Roles /\ start \in [DOMAIN start -> Nat]
  /\ IsFiniteSet(as) /\ \A a \in as : a.role \in Roles

LEMMA CountsTotal ==
  ASSUME NEW start, NEW as, Countable(start, as)
  PROVE  /\ TotalAttempts(CountsFrom(start, as)) = SumOf(CountsFrom(start, as))
         /\ \A role \in Roles : AttemptsOf(CountsFrom(start, as), role) \in Int
<1>1. /\ DOMAIN CountsFrom(start, as) \in SUBSET Roles
      /\ CountsFrom(start, as) \in [DOMAIN CountsFrom(start, as) -> Int]
  BY CountsAdd DEF Countable
<1>2. TotalAttempts(CountsFrom(start, as)) = SumOf(CountsFrom(start, as))
  BY <1>1, TotalIsSum
<1>3. ASSUME NEW role \in Roles PROVE AttemptsOf(CountsFrom(start, as), role) \in Int
  <2>1. PICK all : all = CountsFrom(start, as)
    OBVIOUS
  <2>2. all \in [DOMAIN all -> Int]
    BY <1>1, <2>1
  <2>3. AttemptsOf(all, role) \in Int
    BY <2>2 DEF AttemptsOf
  <2> QED BY <2>1, <2>3
<1> QED BY <1>2, <1>3

LEMMA TotalGrows ==
  ASSUME NEW s1, NEW a1, Countable(s1, a1), NEW s2, NEW a2, Countable(s2, a2),
         \A role \in Roles : AttemptsOf(CountsFrom(s1, a1), role) <= AttemptsOf(CountsFrom(s2, a2), role)
  PROVE  /\ TotalAttempts(CountsFrom(s1, a1)) <= TotalAttempts(CountsFrom(s2, a2))
         /\ TotalAttempts(CountsFrom(s1, a1)) \in Int
         /\ TotalAttempts(CountsFrom(s2, a2)) \in Int
BY CountsTotal, SumGrows

(* A plain recovery starts from what the trace holds, a reset from zero.   *)
LEMMA StartingCounters ==
  ASSUME NEW as, IsFiniteSet(as), \A a \in as : a.role \in Roles, NEW reset \in BOOLEAN, NEW start,
         start = EffectiveStartingCounters(ReconstructRecoveryState(as), reset)
  PROVE  /\ DOMAIN start \subseteq Roles /\ start \in [DOMAIN start -> Nat]
         /\ \A role \in Roles : AttemptsOf(start, role) = IF reset THEN 0 ELSE NumberOf(as, role)
<1> DEFINE state == ReconstructRecoveryState(as)
<1>1. DOMAIN state = {a.role : a \in as} \ FORBIDDEN_ROLE_KEYS
  BY DEF ReconstructRecoveryState, Tally
<1>2. \A role \in Roles : CountOf(state, role) = NumberOf(as, role) /\ NumberOf(as, role) \in Nat
  BY CountIsNumber, NumberIsNat
<1>3. start = [role \in DOMAIN state \ FORBIDDEN_ROLE_KEYS |->
                 IF reset THEN 0 ELSE CountOf(state, role)]
  BY DEF EffectiveStartingCounters
<1>4. DOMAIN start \subseteq Roles /\ DOMAIN start = DOMAIN state
  BY <1>1, <1>3
<1>5. \A role \in DOMAIN start : start[role] = IF reset THEN 0 ELSE NumberOf(as, role)
  BY <1>2, <1>3, <1>4
<1>6. \A role \in Roles \ DOMAIN start : NumberOf(as, role) = 0
  BY <1>2, <1>4 DEF CountOf
<1> HIDE DEF state
<1>7. start \in [DOMAIN start -> Nat]
  <2>1. ASSUME NEW role \in DOMAIN start PROVE start[role] \in Nat
    <3>1. role \in Roles /\ NumberOf(as, role) \in Nat
      BY <1>2, <1>4
    <3>2. start[role] = IF reset THEN 0 ELSE NumberOf(as, role)
      BY <1>5
    <3>3. 0 \in Nat
      OBVIOUS
    <3> QED BY <3>1, <3>2, <3>3, Zenon
  <2>2. start = [role \in DOMAIN start |-> start[role]]
    BY <1>3
  <2> QED BY <2>1, <2>2
<1>8. \A role \in Roles : AttemptsOf(start, role) = IF reset THEN 0 ELSE NumberOf(as, role)
  BY <1>5, <1>6 DEF AttemptsOf
<1> QED BY <1>4, <1>7, <1>8

LEMMA SumStep ==
  ASSUME NEW f \in [Roles -> Int], NEW g \in [Roles -> Int], NEW r \in Roles,
         \A role \in Roles : g[role] = f[role] + IF role = r THEN 1 ELSE 0
  PROVE  SumOf(g) = SumOf(f) + 1 /\ SumOf(f) \in Int
BY DEF SumOf, AttemptsOf, Roles, Proposer, Generator, Evaluator

-------------------------------------------------------------------------------
(* The inductive invariant                                                 *)

ProgressFields == {"status", "terminal", "reason", "sprint", "revision"}

(* Every variable has its type, and nothing runs when no session is up.    *)
Typed ==
  /\ session \in {"up", "down"}
  /\ next \in Roles \union {None}
  /\ running \in Roles \union {None}
  /\ running # None => session = "up"
  /\ progress = [f \in ProgressFields |-> progress[f]]
  /\ config \in limits
  /\ limits \subseteq Configs /\ IsFiniteSet(limits)
  /\ IsFiniteSet(attempts)
  /\ \A a \in attempts : a.role \in Roles /\ a.attemptNumber \in Nat
  /\ history \in Seq(Tries)
  /\ rejected \in BOOLEAN
  /\ DOMAIN started \subseteq Roles /\ started \in [DOMAIN started -> Nat]
  /\ before \subseteq attempts
  /\ made \in [Roles -> Nat]
  /\ lost \in [Roles -> Nat]
  /\ pardoned = [made |-> pardoned.made, lost |-> pardoned.lost]
  /\ pardoned.made \in [Roles -> Nat] /\ pardoned.lost \in [Roles -> Nat]

Now == CountsFrom(started, attempts \ before)
InFlight(role) == IF running = role THEN 1 ELSE 0
Base(role) == pardoned.made[role] - pardoned.lost[role]
Spent(role) == (made[role] - pardoned.made[role]) - (lost[role] - pardoned.lost[role])
AllSpent == [role \in Roles |-> Spent(role)]

(* While an attempt runs, its boundary is as clear as when it started.     *)
Clear == running # None => Boundary(running, Now, history, config) = {}

(* What a halt was about is still the case.                                *)
Held ==
  \A h \in halts :
    /\ h.config \in Configs
    /\ \/ /\ h.reason = "roleCeilingExceeded"
          /\ h.role \in Roles
          /\ h.role \in DOMAIN h.config.attemptCeilings \ FORBIDDEN_ROLE_KEYS
          /\ AttemptsOf(Now, h.role) >= h.config.attemptCeilings[h.role]
       \/ /\ h.reason = "sprintBudgetExceeded"
          /\ TotalAttempts(Now) >= h.config.sprintBudget
       \/ /\ h.reason = "editOscillation"
          /\ \E i \in DOMAIN history : Pattern(history, i) # "none"

(* The attempts made are those recorded, lost and in flight; the counters  *)
(* that a session starts from hide no attempt since the last reset.        *)
Balanced ==
  \A role \in Roles :
    /\ made[role] - lost[role] = NumberOf(attempts, role) + InFlight(role)
    /\ Base(role) >= 0
    /\ AttemptsOf(started, role) <= NumberOf(before, role)
    /\ AttemptsOf(started, role) + Base(role) >= NumberOf(before, role)

(* No two recorded attempts of a role have one number.                     *)
Numbered == \A a \in attempts : a.attemptNumber + InFlight(a.role) <= made[a.role]

Within ==
  /\ \A role \in {Proposer, Generator} : \E c \in limits : Spent(role) <= c.attemptCeilings[role]
  /\ \E c \in limits : SumOf(AllSpent) <= c.sprintBudget

IInv == Typed /\ Clear /\ Held /\ Balanced /\ Numbered /\ Within

-------------------------------------------------------------------------------
(* The steps, as the invariant sees them                                   *)

Recording ==
  [role |-> running, attemptNumber |-> made[running], contractRevision |-> progress.revision]

(* An attempt ends: it is recorded or lost, and so is its fingerprint.     *)
Ended ==
  /\ session = "up"
  /\ running \in Roles
  /\ running' = None
  /\ session' \in {"up", "down"}
  /\ next' \in Roles \union {None}
  /\ progress' = [f \in ProgressFields |-> progress'[f]]
  /\ rejected' \in BOOLEAN
  /\ UNCHANGED <<basis, made, pardoned, limits, halts>>
  /\ \/ attempts' = attempts \union {Recording} /\ UNCHANGED lost
     \/ lost' = [lost EXCEPT ![running] = @ + 1] /\ UNCHANGED attempts
  /\ UNCHANGED history \/ \E t \in Tries : history' = Append(history, t)

Returned(role) ==
  /\ session = "up"
  /\ running = role
  /\ running' = None
  /\ \/ attempts' = attempts \union {Recording} /\ UNCHANGED lost
     \/ lost' = [lost EXCEPT ![running] = @ + 1] /\ UNCHANGED attempts

LEMMA RoleNames ==
  /\ "gan-clarifier" \in Roles /\ "gan-planner" \in Roles /\ Proposer \in Roles
  /\ "gan-contract-reviewer" \in Roles /\ Generator \in Roles
  /\ "gan-reviewer-independent" \in Roles /\ Evaluator \in Roles
  /\ None \notin Roles
BY DEF Roles, None, Proposer, Generator, Evaluator

LEMMA ReturnsReturn ==
  ASSUME NEW role, role \in Roles, Recorded(role) \/ Dropped(role)
  PROVE  Returned(role)
BY DEF Recorded, Dropped, Returned, Recording

LEMMA MoveOnTyped ==
  ASSUME Typed, NEW role, role \in Roles, MoveOn(role)
  PROVE  /\ next' \in Roles \union {None}
         /\ progress' = [f \in ProgressFields |-> progress'[f]]
         /\ progress'.reason = progress.reason
BY DEF MoveOn, Typed, ProgressFields

LEMMA EndRunTyped ==
  ASSUME Typed, NEW reason, EndRun(reason)
  PROVE  /\ session' \in {"up", "down"}
         /\ progress' = [f \in ProgressFields |-> progress'[f]]
         /\ progress'.reason = reason
         /\ progress'.revision = progress.revision
BY DEF EndRun, Typed, ProgressFields

(* Every reason but that of a rejection, and no rejection on record.       *)
OtherReason ==
  /\ progress'.reason \in {progress.reason, "aborted-by-user", "complete"}
  /\ UNCHANGED rejection

LEMMA EndedIf ==
  ASSUME NEW role, role \in Roles, Returned(role),
         session' \in {"up", "down"}, next' \in Roles \union {None},
         progress' = [f \in ProgressFields |-> progress'[f]],
         rejected' \in BOOLEAN,
         UNCHANGED <<basis, made, pardoned, limits, halts>>,
         UNCHANGED history \/ \E t \in Tries : history' = Append(history, t)
  PROVE  Ended
BY DEF Ended, Returned

LEMMA SteadyIs ==
  steady' = steady => UNCHANGED <<session, basis, made, pardoned, limits, halts, rejection>>
BY DEF steady

LEMMA ClarifiedEnds == Typed /\ Clarified => Ended /\ OtherReason
<1> SUFFICES ASSUME Typed, Clarified PROVE Ended /\ OtherReason
  OBVIOUS
<1>1. Returned("gan-clarifier")
  BY RoleNames, ReturnsReturn DEF Clarified, Returns
<1>2. PICK role \in Roles : MoveOn(role)
  BY RoleNames DEF Clarified
<1>3. UNCHANGED <<session, basis, made, pardoned, limits, halts, rejection, history>>
  BY SteadyIs DEF Clarified
<1>4. session' \in {"up", "down"}
  BY <1>3 DEF Typed
<1>9. rejected' \in BOOLEAN
  BY DEF Typed, Clarified
<1> QED BY <1>1, <1>2, <1>3, <1>4, MoveOnTyped, <1>9, EndedIf, RoleNames DEF OtherReason

LEMMA CancelEnds == Typed /\ Cancel => Ended /\ OtherReason
<1> SUFFICES ASSUME Typed, Cancel PROVE Ended /\ OtherReason
  OBVIOUS
<1>1. Returned("gan-clarifier")
  BY RoleNames, ReturnsReturn DEF Cancel
<1>2. EndRun("aborted-by-user")
  BY DEF Cancel
<1>3. UNCHANGED <<next, basis, made, pardoned, limits, halts, rejection, history>>
  BY DEF Cancel
<1>4. next' \in Roles \union {None}
  BY <1>3 DEF Typed
<1>9. rejected' \in BOOLEAN
  BY DEF Typed, Cancel
<1> QED BY <1>1, <1>2, <1>3, <1>4, EndRunTyped, <1>9, EndedIf, RoleNames DEF OtherReason

LEMMA PlannedEnds == Typed /\ Planned => Ended /\ OtherReason
<1> SUFFICES ASSUME Typed, Planned PROVE Ended /\ OtherReason
  OBVIOUS
<1>1. Returned("gan-planner")
  BY RoleNames, ReturnsReturn DEF Planned, Returns
<1>2. MoveOn(Proposer)
  BY DEF Planned
<1>3. UNCHANGED <<session, basis, made, pardoned, limits, halts, rejection, history>>
  BY SteadyIs DEF Planned
<1>4. session' \in {"up", "down"}
  BY <1>3 DEF Typed
<1>9. rejected' \in BOOLEAN
  BY DEF Typed, Planned
<1> QED BY <1>1, <1>2, <1>3, <1>4, MoveOnTyped, <1>9, EndedIf, RoleNames DEF OtherReason

LEMMA ProposedEnds == Typed /\ Proposed => Ended /\ OtherReason
<1> SUFFICES ASSUME Typed, Proposed PROVE Ended /\ OtherReason
  OBVIOUS
<1>1. Returned(Proposer)
  BY RoleNames, ReturnsReturn DEF Proposed, Returns
<1>2. MoveOn("gan-contract-reviewer")
  BY DEF Proposed
<1>3. UNCHANGED <<session, basis, made, pardoned, limits, halts, rejection, history>>
  BY SteadyIs DEF Proposed
<1>4. session' \in {"up", "down"}
  BY <1>3 DEF Typed
<1>9. rejected' \in BOOLEAN
  BY DEF Typed, Proposed
<1> QED BY <1>1, <1>2, <1>3, <1>4, MoveOnTyped, <1>9, EndedIf, RoleNames DEF OtherReason

LEMMA ContractReviewedEnds == Typed /\ ContractReviewed => Ended /\ OtherReason
<1> SUFFICES ASSUME Typed, ContractReviewed PROVE Ended /\ OtherReason
  OBVIOUS
<1>1. Returned("gan-contract-reviewer")
  BY RoleNames, ReturnsReturn DEF ContractReviewed, Returns
<1>2. /\ next' \in Roles \union {None}
      /\ progress' = [f \in ProgressFields |-> progress'[f]]
      /\ progress'.reason = progress.reason
  <2>1. CASE MoveOn(Proposer) \/ MoveOn(Generator)
    BY <2>1, RoleNames, MoveOnTyped
  <2>2. CASE /\ progress' = [progress EXCEPT !.revision = @ + 1, !.status = "building"]
             /\ next' = Evaluator
    BY <2>2, RoleNames DEF Typed, ProgressFields
  <2> QED BY <2>1, <2>2 DEF ContractReviewed
<1>3. UNCHANGED <<session, basis, made, pardoned, limits, halts, rejection, history>>
  BY SteadyIs DEF ContractReviewed
<1>4. session' \in {"up", "down"}
  BY <1>3 DEF Typed
<1>9. rejected' \in BOOLEAN
  BY DEF Typed, ContractReviewed
<1> QED BY <1>1, <1>2, <1>3, <1>4, <1>9, EndedIf, RoleNames DEF OtherReason

LEMMA GeneratedEnds == Typed /\ Generated => Ended /\ OtherReason
<1> SUFFICES ASSUME Typed, Generated PROVE Ended /\ OtherReason
  OBVIOUS
<1>0. rejected \in BOOLEAN
  BY DEF Typed
<1>1. Returned(Generator)
  BY RoleNames, ReturnsReturn DEF Generated
<1>2. MoveOn("gan-reviewer-independent")
  BY DEF Generated
<1>3. UNCHANGED <<session, basis, made, pardoned, limits, halts, rejection>>
  BY SteadyIs DEF Generated
<1>4. session' \in {"up", "down"}
  BY <1>3 DEF Typed
<1>5. UNCHANGED history \/ \E t \in Tries : history' = Append(history, t)
  BY <1>0 DEF Generated, Tries
<1>9. rejected' \in BOOLEAN
  BY DEF Typed, Generated
<1> QED BY <1>1, <1>2, <1>3, <1>4, <1>5, MoveOnTyped, <1>9, EndedIf, RoleNames DEF OtherReason

LEMMA ReviewedEnds == Typed /\ Reviewed => Ended
<1> SUFFICES ASSUME Typed, Reviewed PROVE Ended
  OBVIOUS
<1>1. Returned("gan-reviewer-independent")
  BY RoleNames, ReturnsReturn DEF Reviewed, Returns
<1>2. /\ session' \in {"up", "down"}
      /\ next' \in Roles \union {None}
      /\ progress' = [f \in ProgressFields |-> progress'[f]]
  <2>1. CASE (MoveOn(Proposer) \/ MoveOn(Evaluator)) /\ UNCHANGED session
    BY <2>1, RoleNames, MoveOnTyped DEF Typed
  <2>2. CASE EndRun(FAILED_EVALUATION_REJECTED) /\ next' = None
    BY <2>2, EndRunTyped
  <2> QED BY <2>1, <2>2 DEF Reviewed
<1>3. UNCHANGED <<basis, made, pardoned, limits, halts, history>>
  BY DEF Reviewed
<1>9. rejected' \in BOOLEAN
  BY DEF Typed, Reviewed
<1> QED BY <1>1, <1>2, <1>3, <1>9, EndedIf, RoleNames

LEMMA EvaluatedEnds == Typed /\ Evaluated => Ended /\ OtherReason
<1> SUFFICES ASSUME Typed, Evaluated PROVE Ended /\ OtherReason
  OBVIOUS
<1>1. Returned(Evaluator)
  BY RoleNames, ReturnsReturn DEF Evaluated
<1>2. /\ session' \in {"up", "down"}
      /\ next' \in Roles \union {None}
      /\ progress' = [f \in ProgressFields |-> progress'[f]]
      /\ OtherReason
  <2>0. UNCHANGED rejection
    BY DEF Evaluated
  <2>1. CASE MoveOn(Generator) /\ UNCHANGED session
    BY <2>0, <2>1, RoleNames, MoveOnTyped DEF Typed, OtherReason
  <2>2. CASE NextSprint
    BY <2>0, <2>2, RoleNames DEF NextSprint, Typed, ProgressFields, OtherReason
  <2> QED BY <2>1, <2>2 DEF Evaluated
<1>3. UNCHANGED <<basis, made, pardoned, limits, halts, history>>
  BY DEF Evaluated
<1>9. rejected' \in BOOLEAN
  BY DEF Typed, Evaluated
<1> QED BY <1>1, <1>2, <1>3, <1>9, EndedIf, RoleNames

-------------------------------------------------------------------------------
(* Counters that only grow keep what every halt was about.                 *)

Since == attempts \ before

LEMMA TypedCounts == Typed => Countable(started, Since)
<1> SUFFICES ASSUME Typed PROVE Countable(started, Since)
  OBVIOUS
<1>1. IsFiniteSet(Since)
  BY FS_Subset DEF Typed, Since
<1> QED BY <1>1 DEF Typed, Countable, Since

LEMMA HeldGrows ==
  ASSUME Held, Countable(started, Since), Countable(started, Since)', halts' \subseteq halts,
         \A role \in Roles : AttemptsOf(Now, role) <= AttemptsOf(Now', role),
         \A i \in DOMAIN history : i \in DOMAIN history' /\ Pattern(history', i) = Pattern(history, i)
  PROVE  Held'
<1>1. Now = CountsFrom(started, Since) /\ Now' = CountsFrom(started', Since')
  BY DEF Now, Since
<1>2. /\ TotalAttempts(Now) <= TotalAttempts(Now')
      /\ TotalAttempts(Now) \in Int /\ TotalAttempts(Now') \in Int
  BY <1>1, TotalGrows
<1>3. \A role \in Roles : AttemptsOf(Now, role) \in Int /\ AttemptsOf(Now', role) \in Int
  BY <1>1, CountsTotal
<1>4. SUFFICES ASSUME NEW h \in halts
      PROVE
        /\ h.config \in Configs
        /\ \/ /\ h.reason = "roleCeilingExceeded"
              /\ h.role \in Roles
              /\ h.role \in DOMAIN h.config.attemptCeilings \ FORBIDDEN_ROLE_KEYS
              /\ AttemptsOf(Now', h.role) >= h.config.attemptCeilings[h.role]
           \/ /\ h.reason = "sprintBudgetExceeded"
              /\ TotalAttempts(Now') >= h.config.sprintBudget
           \/ /\ h.reason = "editOscillation"
              /\ \E i \in DOMAIN history' : Pattern(history', i) # "none"
  BY DEF Held
<1>5. h.config \in Configs
  BY DEF Held
<1>6. /\ \A role \in DOMAIN h.config.attemptCeilings : h.config.attemptCeilings[role] \in Nat
      /\ h.config.sprintBudget \in Nat
  BY <1>5, ConfigsLimit
<1>7. CASE /\ h.reason = "roleCeilingExceeded"
           /\ h.role \in Roles
           /\ h.role \in DOMAIN h.config.attemptCeilings \ FORBIDDEN_ROLE_KEYS
           /\ AttemptsOf(Now, h.role) >= h.config.attemptCeilings[h.role]
  <2>1. h.config.attemptCeilings[h.role] \in Nat
    BY <1>6, <1>7
  <2>2. /\ AttemptsOf(Now, h.role) \in Int /\ AttemptsOf(Now', h.role) \in Int
        /\ AttemptsOf(Now, h.role) <= AttemptsOf(Now', h.role)
    BY <1>3, <1>7
  <2>3. AttemptsOf(Now', h.role) >= h.config.attemptCeilings[h.role]
    BY <2>1, <2>2, <1>7
  <2> QED BY <1>5, <1>7, <2>3
<1>8. CASE /\ h.reason = "sprintBudgetExceeded"
           /\ TotalAttempts(Now) >= h.config.sprintBudget
  <2>1. TotalAttempts(Now') >= h.config.sprintBudget
    BY <1>2, <1>6, <1>8
  <2> QED BY <1>5, <1>8, <2>1
<1>9. CASE /\ h.reason = "editOscillation"
           /\ \E i \in DOMAIN history : Pattern(history, i) # "none"
  BY <1>5, <1>9
<1> QED BY <1>7, <1>8, <1>9 DEF Held

LEMMA NowIs ==
  ASSUME Typed
  PROVE  \A role \in Roles :
           /\ AttemptsOf(Now, role) = AttemptsOf(started, role) + NumberOf(Since, role)
           /\ AttemptsOf(started, role) \in Nat /\ NumberOf(Since, role) \in Nat
           /\ NumberOf(attempts, role) = NumberOf(before, role) + NumberOf(Since, role)
           /\ NumberOf(before, role) \in Nat /\ NumberOf(attempts, role) \in Nat
           /\ made[role] \in Nat /\ lost[role] \in Nat
           /\ pardoned.made[role] \in Nat /\ pardoned.lost[role] \in Nat
<1> TAKE role \in Roles
<1>1. Countable(started, Since)
  BY TypedCounts
<1>2. Now = CountsFrom(started, Since)
  BY DEF Now, Since
<1>3. /\ AttemptsOf(Now, role) = AttemptsOf(started, role) + NumberOf(Since, role)
      /\ AttemptsOf(started, role) \in Nat /\ NumberOf(Since, role) \in Nat
  BY <1>1, <1>2, CountsAdd DEF Countable
<1>4. IsFiniteSet(attempts) /\ before \in SUBSET attempts /\ IsFiniteSet(before)
  BY FS_Subset DEF Typed
<1>5. NumberOf(attempts, role) = NumberOf(before, role) + NumberOf(Since, role)
  BY <1>4, NumberSplits DEF Since
<1>6. NumberOf(before, role) \in Nat /\ NumberOf(attempts, role) \in Nat
  BY <1>4, NumberIsNat
<1> QED BY <1>3, <1>5, <1>6 DEF Typed

-------------------------------------------------------------------------------
(* Every step preserves the invariant.                                     *)

LEMMA SpentIs ==
  ASSUME Typed, Balanced, running = None
  PROVE  \A role \in Roles :
           /\ Spent(role) = NumberOf(attempts, role) - Base(role)
           /\ Spent(role) \in Int /\ AttemptsOf(Now, role) \in Int
           /\ Spent(role) <= AttemptsOf(Now, role)
<1> TAKE role \in Roles
<1>1. /\ AttemptsOf(Now, role) = AttemptsOf(started, role) + NumberOf(Since, role)
      /\ AttemptsOf(started, role) \in Nat /\ NumberOf(Since, role) \in Nat
      /\ NumberOf(attempts, role) = NumberOf(before, role) + NumberOf(Since, role)
      /\ NumberOf(before, role) \in Nat /\ NumberOf(attempts, role) \in Nat
      /\ made[role] \in Nat /\ lost[role] \in Nat
      /\ pardoned.made[role] \in Nat /\ pardoned.lost[role] \in Nat
  BY NowIs
<1>2. /\ made[role] - lost[role] = NumberOf(attempts, role) + InFlight(role)
      /\ AttemptsOf(started, role) + Base(role) >= NumberOf(before, role)
  BY DEF Balanced
<1>3. InFlight(role) = 0
  BY RoleNames DEF InFlight
<1> QED BY <1>1, <1>2, <1>3 DEF Spent, Base

LEMMA SpawnKeeps == IInv /\ Spawn => IInv'
<1> SUFFICES ASSUME IInv, Spawn PROVE IInv'
  OBVIOUS
<1>0. Typed /\ Clear /\ Held /\ Balanced /\ Numbered /\ Within
  BY DEF IInv
<1>1. /\ UNCHANGED <<session, next, attempts, history, rejected, config, started, before, lost,
                     pardoned, limits, halts>>
      /\ session = "up" /\ running = None /\ next \in Roles /\ running' = next
      /\ made' = [made EXCEPT ![next] = @ + 1]
      /\ Boundary(next, Now, history, config) = {}
      /\ progress' = [progress EXCEPT !.status = StatusOf(next)]
  <2>1. Counts = Now
    BY DEF Counts, Now, CountsFrom
  <2> QED BY <1>0, <2>1 DEF Spawn, Typed, trace, basis, ghosts
<1>2. Now' = Now /\ Since' = Since
  BY <1>1 DEF Now, Since
<1>3. Typed'
  <2>1. progress' = [f \in ProgressFields |-> progress'[f]]
    BY <1>0, <1>1 DEF Typed, ProgressFields
  <2>2. made' \in [Roles -> Nat]
    BY <1>0, <1>1 DEF Typed
  <2>3. running' \in Roles \union {None} /\ session' = "up"
    BY <1>1
  <2> QED BY <1>0, <1>1, <2>1, <2>2, <2>3 DEF Typed
<1>4. Clear'
  BY <1>1, <1>2 DEF Clear
<1>5. Held'
  BY <1>0, <1>1, <1>2 DEF Held
<1>6. \A role \in Roles : /\ made'[role] = made[role] + IF role = next THEN 1 ELSE 0
                          /\ InFlight(role)' = IF role = next THEN 1 ELSE 0
                          /\ InFlight(role) = 0
                          /\ Base(role)' = Base(role)
                          /\ made[role] \in Nat /\ lost[role] \in Nat
                          /\ pardoned.made[role] \in Nat /\ pardoned.lost[role] \in Nat
  <2> TAKE role \in Roles
  <2>1. made \in [Roles -> Nat] /\ lost[role] \in Nat
        /\ pardoned.made[role] \in Nat /\ pardoned.lost[role] \in Nat
    BY <1>0 DEF Typed
  <2>2. made'[role] = made[role] + IF role = next THEN 1 ELSE 0
    BY <1>1, <2>1
  <2>3. InFlight(role)' = IF role = next THEN 1 ELSE 0
    BY <1>1 DEF InFlight
  <2>4. InFlight(role) = 0
    BY <1>1, RoleNames DEF InFlight
  <2>5. Base(role)' = Base(role)
    BY <1>1 DEF Base
  <2> QED BY <2>1, <2>2, <2>3, <2>4, <2>5
<1>7. Balanced'
  <2> SUFFICES ASSUME NEW role \in Roles
               PROVE  /\ made'[role] - lost[role] = NumberOf(attempts, role) + InFlight(role)'
                      /\ Base(role)' >= 0
                      /\ AttemptsOf(started, role) <= NumberOf(before, role)
                      /\ AttemptsOf(started, role) + Base(role)' >= NumberOf(before, role)
    BY <1>1 DEF Balanced
  <2>1. /\ made[role] - lost[role] = NumberOf(attempts, role) + InFlight(role)
        /\ Base(role) >= 0
        /\ AttemptsOf(started, role) <= NumberOf(before, role)
        /\ AttemptsOf(started, role) + Base(role) >= NumberOf(before, role)
    BY <1>0 DEF Balanced
  <2>2. NumberOf(attempts, role) \in Nat
    BY <1>0, NowIs
  <2> QED BY <1>6, <2>1, <2>2
<1>8. Numbered'
  <2> SUFFICES ASSUME NEW a \in attempts
               PROVE  a.attemptNumber + InFlight(a.role)' <= made'[a.role]
    BY <1>1 DEF Numbered
  <2>1. a.attemptNumber + InFlight(a.role) <= made[a.role] /\ a.role \in Roles /\ a.attemptNumber \in Nat
    BY <1>0 DEF Numbered, Typed
  <2> QED BY <2>1, <1>6
<1>9. \A role \in Roles :
        /\ Spent(role)' = Spent(role) + IF role = next THEN 1 ELSE 0
        /\ Spent(role) \in Int /\ AttemptsOf(Now, role) \in Int
        /\ Spent(role) <= AttemptsOf(Now, role)
  <2> TAKE role \in Roles
  <2>1. Spent(role)' = Spent(role) + IF role = next THEN 1 ELSE 0
    BY <1>1, <1>6 DEF Spent
  <2> QED BY <2>1, <1>0, <1>1, SpentIs
<1>10. config \in Configs /\ config \in limits /\ limits' = limits
  BY <1>0, <1>1 DEF Typed
<1>11. ASSUME NEW role \in {Proposer, Generator}
       PROVE  \E c \in limits' : Spent(role)' <= c.attemptCeilings[role]
  <2>1. role \in Roles
    BY RoleNames
  <2>2. CASE role # next
    <3>1. Spent(role)' = Spent(role)
      BY <1>9, <2>1, <2>2
    <3> QED BY <1>0, <1>10, <3>1 DEF Within
  <2>3. CASE role = next
    <3>1. role \in DOMAIN config.attemptCeilings \ FORBIDDEN_ROLE_KEYS /\ config.attemptCeilings[role] \in Nat
      BY <1>10, ConfigsLimit
    <3>2. ~ (AttemptsOf(Now, role) >= config.attemptCeilings[role])
      BY <1>1, <2>3, <3>1, BoundaryClear
    <3>3. Spent(role)' = Spent(role) + 1
      BY <1>9, <2>1, <2>3
    <3>4. Spent(role)' <= config.attemptCeilings[role]
      BY <1>9, <2>1, <3>1, <3>2, <3>3
    <3> QED BY <1>10, <3>4
  <2> QED BY <2>2, <2>3
<1>12. \E c \in limits' : SumOf(AllSpent') <= c.sprintBudget
  <2>1. AllSpent \in [Roles -> Int] /\ AllSpent' \in [Roles -> Int]
    BY <1>9 DEF AllSpent
  <2>2. SumOf(AllSpent') = SumOf(AllSpent) + 1 /\ SumOf(AllSpent) \in Int
    <3>1. \A role \in Roles : AllSpent'[role] = AllSpent[role] + IF role = next THEN 1 ELSE 0
      BY <1>9 DEF AllSpent
    <3> QED BY <1>1, <2>1, <3>1, SumStep
  <2>3. SumOf(AllSpent) <= SumOf(Now) /\ SumOf(Now) \in Int
    <3>1. \A role \in Roles : AttemptsOf(AllSpent, role) = Spent(role)
      BY <2>1 DEF AttemptsOf, AllSpent
    <3> QED BY <1>9, <3>1, SumGrows
  <2>4. TotalAttempts(Now) = SumOf(Now)
    BY <1>0, TypedCounts, CountsTotal DEF Now, Since
  <2>5. ~ (TotalAttempts(Now) >= config.sprintBudget) /\ config.sprintBudget \in Nat
    BY <1>1, <1>10, BoundaryClear, ConfigsLimit
  <2>6. SumOf(AllSpent') <= config.sprintBudget
    BY <2>2, <2>3, <2>4, <2>5
  <2> QED BY <1>10, <2>6
<1>13. Within'
  BY <1>11, <1>12 DEF Within
<1> QED BY <1>3, <1>4, <1>5, <1>7, <1>8, <1>13 DEF IInv

LEMMA FrameKeeps ==
  ASSUME Balanced, Numbered, Within,
         UNCHANGED <<running, attempts, started, before, made, lost, pardoned, limits>>
  PROVE  Balanced' /\ Numbered' /\ Within'
<1>1. \A role : InFlight(role)' = InFlight(role) /\ Base(role)' = Base(role) /\ Spent(role)' = Spent(role)
  BY DEF InFlight, Base, Spent
<1>2. AllSpent' = AllSpent
  BY <1>1 DEF AllSpent
<1>3. Balanced'
  BY <1>1 DEF Balanced
<1>4. Numbered'
  BY <1>1 DEF Numbered
<1>5. Within'
  BY <1>1, <1>2 DEF Within
<1> QED BY <1>3, <1>4, <1>5

(* A halt records a limit that the counters have reached.                  *)
LEMMA HaltKeeps == IInv /\ HaltSprint => IInv'
<1> SUFFICES ASSUME IInv, HaltSprint PROVE IInv'
  OBVIOUS
<1>0. Typed /\ Clear /\ Held /\ Balanced /\ Numbered /\ Within
  BY DEF IInv
<1>1. /\ UNCHANGED <<next, running, attempts, history, rejected, config, started, before, made, lost,
                     pardoned, limits>>
      /\ session' = "down" /\ running = None /\ next \in Roles
      /\ halts' = halts \union {[role |-> next, reason |-> h.reason, config |-> config] :
                                  h \in Boundary(next, Now, history, config)}
      /\ progress' = [progress EXCEPT !.terminal = TRUE, !.reason = FAILED_LOOP_DETECTED]
  <2>1. Counts = Now
    BY DEF Counts, Now, CountsFrom
  <2> QED BY <1>0, <2>1 DEF HaltSprint, Typed, trace, basis
<1>2. Now' = Now
  BY <1>1 DEF Now
<1>3. Typed'
  <2>1. progress' = [f \in ProgressFields |-> progress'[f]]
    BY <1>0, <1>1 DEF Typed, ProgressFields
  <2> QED BY <1>0, <1>1, <2>1 DEF Typed
<1>4. Clear'
  BY <1>1 DEF Clear
<1>5. Held'
  <2> SUFFICES ASSUME NEW h \in halts'
               PROVE
                 /\ h.config \in Configs
                 /\ \/ /\ h.reason = "roleCeilingExceeded"
                       /\ h.role \in Roles
                       /\ h.role \in DOMAIN h.config.attemptCeilings \ FORBIDDEN_ROLE_KEYS
                       /\ AttemptsOf(Now, h.role) >= h.config.attemptCeilings[h.role]
                    \/ /\ h.reason = "sprintBudgetExceeded"
                       /\ TotalAttempts(Now) >= h.config.sprintBudget
                    \/ /\ h.reason = "editOscillation"
                       /\ \E i \in DOMAIN history : Pattern(history, i) # "none"
    BY <1>1, <1>2 DEF Held
  <2>1. CASE h \in halts
    BY <1>0, <2>1 DEF Held
  <2>2. CASE h \notin halts
    <3>1. PICK fired \in Boundary(next, Now, history, config) :
            h = [role |-> next, reason |-> fired.reason, config |-> config]
      BY <1>1, <2>2
    <3>2. h.role = next /\ h.reason = fired.reason /\ h.config = config /\ config \in Configs
      BY <1>0, <3>1 DEF Typed
    <3> QED BY <1>1, <3>2, BoundaryFires
  <2> QED BY <2>1, <2>2
<1> QED BY <1>0, <1>1, <1>3, <1>4, <1>5, FrameKeeps DEF IInv

(* An attempt that ends is counted by the trace, or it is one of those lost.*)
LEMMA EndedKeeps == IInv /\ Ended => IInv'
<1> SUFFICES ASSUME IInv, Ended PROVE IInv'
  OBVIOUS
<1>0. Typed /\ Clear /\ Held /\ Balanced /\ Numbered /\ Within
  BY DEF IInv
<1>1. /\ UNCHANGED <<config, started, before, made, pardoned, limits, halts>>
      /\ running \in Roles /\ running' = None /\ None \notin Roles
  BY RoleNames DEF Ended, basis
<1>2. Recording.role = running /\ Recording.attemptNumber = made[running]
  BY DEF Recording
<1>3. Recording \notin attempts
  <2> SUFFICES ASSUME Recording \in attempts PROVE FALSE
    OBVIOUS
  <2>1. Recording.attemptNumber + InFlight(Recording.role) <= made[Recording.role]
    BY <1>0 DEF Numbered
  <2>2. InFlight(running) = 1 /\ made[running] \in Nat
    BY <1>0, <1>1 DEF InFlight, Typed
  <2> QED BY <1>2, <2>1, <2>2
<1>4. /\ IsFiniteSet(attempts) /\ IsFiniteSet(attempts')
      /\ before \subseteq attempts /\ attempts \subseteq attempts'
      /\ \A a \in attempts' : a \in attempts \/ a = Recording
  <2>1. IsFiniteSet(attempts) /\ before \subseteq attempts
    BY <1>0 DEF Typed
  <2>2. IsFiniteSet(attempts \union {Recording})
    BY <2>1, FS_AddElement
  <2> QED BY <2>1, <2>2 DEF Ended
<1>5. Typed'
  <2>1. \A a \in attempts' : a.role \in Roles /\ a.attemptNumber \in Nat
    BY <1>0, <1>1, <1>2, <1>4 DEF Typed
  <2>2. lost' \in [Roles -> Nat]
    <3>1. lost \in [Roles -> Nat]
      BY <1>0 DEF Typed
    <3>2. CASE lost' = [lost EXCEPT ![running] = @ + 1]
      BY <1>1, <3>1, <3>2
    <3> QED BY <3>1, <3>2 DEF Ended
  <2>3. history' \in Seq(Tries)
    <3>1. history \in Seq(Tries)
      BY <1>0 DEF Typed
    <3>2. \A t \in Tries : Append(history, t) \in Seq(Tries)
      BY <3>1
    <3> QED BY <3>1, <3>2 DEF Ended
  <2>4. /\ session' \in {"up", "down"} /\ next' \in Roles \union {None}
        /\ progress' = [f \in ProgressFields |-> progress'[f]] /\ rejected' \in BOOLEAN
    BY DEF Ended
  <2> QED BY <1>0, <1>1, <1>4, <2>1, <2>2, <2>3, <2>4 DEF Typed
<1>6. \A role \in Roles :
        LET one == IF role = running THEN 1 ELSE 0 IN
        \/ NumberOf(attempts', role) = NumberOf(attempts, role) + one /\ lost'[role] = lost[role]
        \/ NumberOf(attempts', role) = NumberOf(attempts, role) /\ lost'[role] = lost[role] + one
  <2> TAKE role \in Roles
  <2>1. CASE attempts' = attempts \union {Recording} /\ UNCHANGED lost
    <3>1. NumberOf(attempts \union {Recording}, role)
            = NumberOf(attempts, role) + IF Recording.role = role THEN 1 ELSE 0
      BY <1>3, <1>4, NumberAdds
    <3> QED BY <1>2, <2>1, <3>1
  <2>2. CASE lost' = [lost EXCEPT ![running] = @ + 1] /\ UNCHANGED attempts
    <3>1. lost \in [Roles -> Nat]
      BY <1>0 DEF Typed
    <3> QED BY <2>2, <3>1
  <2> QED BY <2>1, <2>2 DEF Ended
<1>7. \A role \in Roles : /\ NumberOf(attempts, role) \in Nat /\ NumberOf(attempts', role) \in Nat
                          /\ made[role] \in Nat /\ lost[role] \in Nat /\ lost'[role] \in Nat
                          /\ pardoned.made[role] \in Nat /\ pardoned.lost[role] \in Nat
                          /\ InFlight(role) = IF role = running THEN 1 ELSE 0
                          /\ InFlight(role)' = 0
                          /\ Base(role)' = Base(role)
  <2> TAKE role \in Roles
  <2>1. NumberOf(attempts, role) \in Nat /\ NumberOf(attempts', role) \in Nat
    BY <1>4, NumberIsNat
  <2>2. /\ made[role] \in Nat /\ lost[role] \in Nat /\ lost'[role] \in Nat
        /\ pardoned.made[role] \in Nat /\ pardoned.lost[role] \in Nat
    BY <1>0, <1>5 DEF Typed
  <2>3. InFlight(role) = IF role = running THEN 1 ELSE 0
    BY DEF InFlight
  <2>4. InFlight(role)' = 0
    BY <1>1 DEF InFlight
  <2>5. Base(role)' = Base(role)
    BY <1>1 DEF Base
  <2> QED BY <2>1, <2>2, <2>3, <2>4, <2>5
<1>8. Balanced'
  <2> SUFFICES ASSUME NEW role \in Roles
               PROVE  /\ made[role] - lost'[role] = NumberOf(attempts', role) + InFlight(role)'
                      /\ Base(role)' >= 0
                      /\ AttemptsOf(started, role) <= NumberOf(before, role)
                      /\ AttemptsOf(started, role) + Base(role)' >= NumberOf(before, role)
    BY <1>1 DEF Balanced
  <2>1. /\ made[role] - lost[role] = NumberOf(attempts, role) + InFlight(role)
        /\ Base(role) >= 0
        /\ AttemptsOf(started, role) <= NumberOf(before, role)
        /\ AttemptsOf(started, role) + Base(role) >= NumberOf(before, role)
    BY <1>0 DEF Balanced
  <2>2. made[role] - lost'[role] = NumberOf(attempts', role) + InFlight(role)'
    BY <1>6, <1>7, <2>1
  <2> QED BY <1>7, <2>1, <2>2
<1>9. Numbered'
  <2> SUFFICES ASSUME NEW a \in attempts'
               PROVE  a.attemptNumber + InFlight(a.role)' <= made[a.role]
    BY <1>1 DEF Numbered
  <2>1. a.role \in Roles /\ a.attemptNumber \in Nat
    BY <1>5 DEF Typed
  <2>2. CASE a \in attempts
    <3>1. a.attemptNumber + InFlight(a.role) <= made[a.role]
      BY <1>0, <2>2 DEF Numbered
    <3> QED BY <1>7, <2>1, <3>1
  <2>3. CASE a = Recording
    BY <1>2, <1>7, <2>1, <2>3
  <2> QED BY <1>4, <2>2, <2>3
<1>10. \A role \in Roles : Spent(role)' <= Spent(role) /\ Spent(role) \in Int /\ Spent(role)' \in Int
  <2> TAKE role \in Roles
  <2>1. Spent(role)' = (made[role] - pardoned.made[role]) - (lost'[role] - pardoned.lost[role])
    BY <1>1 DEF Spent
  <2>2. lost'[role] = lost[role] \/ lost'[role] = lost[role] + 1
    BY <1>6, <1>7
  <2> QED BY <1>7, <2>1, <2>2 DEF Spent
<1>11. \A c \in limits : /\ c.sprintBudget \in Nat
                         /\ \A role \in {Proposer, Generator} : c.attemptCeilings[role] \in Nat
  BY <1>0, ConfigsLimit DEF Typed
<1>12. ASSUME NEW role \in {Proposer, Generator}
       PROVE  \E c \in limits' : Spent(role)' <= c.attemptCeilings[role]
  <2>1. PICK c \in limits : Spent(role) <= c.attemptCeilings[role]
    BY <1>0 DEF Within
  <2>2. role \in Roles /\ c.attemptCeilings[role] \in Nat
    BY <1>11, RoleNames
  <2>3. Spent(role)' <= c.attemptCeilings[role]
    BY <1>10, <2>1, <2>2
  <2> QED BY <1>1, <2>3
<1>13. \E c \in limits' : SumOf(AllSpent') <= c.sprintBudget
  <2>1. PICK c \in limits : SumOf(AllSpent) <= c.sprintBudget
    BY <1>0 DEF Within
  <2>2. \A role \in Roles : AttemptsOf(AllSpent, role) = Spent(role) /\ AttemptsOf(AllSpent', role) = Spent(role)'
    BY DEF AttemptsOf, AllSpent
  <2>3. SumOf(AllSpent') <= SumOf(AllSpent) /\ SumOf(AllSpent') \in Int /\ SumOf(AllSpent) \in Int
    BY <1>10, <2>2, SumGrows
  <2>4. SumOf(AllSpent') <= c.sprintBudget
    BY <1>11, <2>1, <2>3
  <2> QED BY <1>1, <2>4
<1>14. Within'
  BY <1>12, <1>13 DEF Within
<1>15. Countable(started, Since) /\ Countable(started, Since)'
  BY <1>0, <1>5, TypedCounts, PTL
<1>16. \A role \in Roles : AttemptsOf(Now, role) <= AttemptsOf(Now', role)
  <2> TAKE role \in Roles
  <2>1. Countable(started, Since')
    BY <1>1, <1>15
  <2>2. /\ AttemptsOf(Now, role) = AttemptsOf(started, role) + NumberOf(Since, role)
        /\ AttemptsOf(started, role) \in Nat /\ NumberOf(Since, role) \in Nat
    BY <1>15, CountsAdd DEF Countable, Now, Since
  <2>3. /\ AttemptsOf(CountsFrom(started, Since'), role) = AttemptsOf(started, role) + NumberOf(Since', role)
        /\ NumberOf(Since', role) \in Nat
    BY <2>1, CountsAdd DEF Countable
  <2>4. Now' = CountsFrom(started, Since')
    BY <1>1 DEF Now, Since
  <2>5. Since \subseteq Since' /\ IsFiniteSet(Since')
    BY <1>1, <1>4, <2>1 DEF Since, Countable
  <2>6. NumberOf(Since, role) <= NumberOf(Since', role)
    BY <2>5, NumberGrows
  <2> QED BY <2>2, <2>3, <2>4, <2>6
<1>17. \A i \in DOMAIN history : i \in DOMAIN history' /\ Pattern(history', i) = Pattern(history, i)
  <2>1. history \in Seq(Tries)
    BY <1>0 DEF Typed
  <2>2. CASE UNCHANGED history
    BY <2>2
  <2>3. CASE \E t \in Tries : history' = Append(history, t)
    BY <2>1, <2>3, PatternStays
  <2> QED BY <2>2, <2>3 DEF Ended
<1>18. Held'
  BY <1>0, <1>1, <1>15, <1>16, <1>17, HeldGrows
<1>19. Clear'
  BY <1>1 DEF Clear
<1> QED BY <1>5, <1>8, <1>9, <1>14, <1>18, <1>19 DEF IInv

LEMMA EmptyCounts == \A role : NumberOf({}, role) = 0
<1>1. \A role : {a \in {} : a.role = role} = {}
  OBVIOUS
<1> QED BY <1>1, FS_EmptySet DEF NumberOf

(* A session that is killed loses the attempt in flight, or none.          *)
LEMMA StopKeeps == IInv /\ Stop => IInv'
<1> SUFFICES ASSUME IInv, Stop PROVE IInv'
  OBVIOUS
<1>0. Typed /\ Clear /\ Held /\ Balanced /\ Numbered /\ Within
  BY DEF IInv
<1>1. /\ UNCHANGED <<next, progress, attempts, history, rejected, config, started, before, made,
                     pardoned, limits, halts>>
      /\ session = "up" /\ session' = "down" /\ running' = None
      /\ lost' = IF running = None THEN lost ELSE [lost EXCEPT ![running] = @ + 1]
  BY DEF Stop, disk, trace, basis
<1>2. CASE running = None
  <2>1. Typed'
    BY <1>0, <1>1, <1>2 DEF Typed
  <2>2. Clear'
    BY <1>1 DEF Clear
  <2>3. Held'
    BY <1>0, <1>1 DEF Held, Now
  <2> QED BY <1>0, <1>1, <1>2, <2>1, <2>2, <2>3, FrameKeeps DEF IInv
<1>3. CASE running # None
  <2>1. running \in Roles
    BY <1>0, <1>3 DEF Typed
  <2>2. progress' = [f \in ProgressFields |-> progress'[f]] /\ next' \in Roles \union {None}
        /\ rejected' \in BOOLEAN
    BY <1>0, <1>1 DEF Typed
  <2>3. UNCHANGED basis
    BY DEF Stop
  <2>4. Ended
    BY <1>1, <1>3, <2>1, <2>2, <2>3 DEF Ended
  <2> QED BY <2>4, EndedKeeps
<1> QED BY <1>2, <1>3

(* A recovery counts every attempt that the trace holds, or starts anew.   *)
LEMMA RecoverKeeps == IInv /\ Recover => IInv'
<1> SUFFICES ASSUME IInv, Recover PROVE IInv'
  OBVIOUS
<1>0. Typed /\ Clear /\ Held /\ Balanced /\ Numbered /\ Within
  BY DEF IInv
<1>1. PICK reset \in BOOLEAN :
        /\ started' = EffectiveStartingCounters(ReconstructRecoveryState(attempts), reset)
        /\ pardoned' = IF reset THEN [made |-> made, lost |-> lost] ELSE pardoned
        /\ limits' = (IF reset THEN {} ELSE limits) \union {config'}
        /\ halts' = IF reset THEN {h \in halts : h.reason = "editOscillation"} ELSE halts
  BY DEF Recover
<1>2. /\ UNCHANGED <<running, progress, attempts, history, rejected, made, lost>>
      /\ session = "down" /\ session' = "up" /\ next' \in ReEntries
      /\ config' \in Configs /\ before' = attempts
  BY DEF Recover, disk, trace
<1>3. running = None /\ IsFiniteSet(attempts) /\ \A a \in attempts : a.role \in Roles
  BY <1>0, <1>2 DEF Typed
<1>4. /\ DOMAIN started' \subseteq Roles /\ started' \in [DOMAIN started' -> Nat]
      /\ \A role \in Roles : AttemptsOf(started', role) = IF reset THEN 0 ELSE NumberOf(attempts, role)
  BY <1>1, <1>3, StartingCounters
<1>5. next' \in Roles \union {None}
  <2>1. ReEntries \subseteq Roles \union {None}
    BY RoleNames DEF ReEntries, ReEntry, Range
  <2> QED BY <1>2, <2>1
<1>6. config' \in limits' /\ limits' \subseteq Configs /\ IsFiniteSet(limits')
  <2>1. limits \subseteq Configs /\ IsFiniteSet(limits)
    BY <1>0 DEF Typed
  <2>2. IsFiniteSet({} \union {config'}) /\ IsFiniteSet(limits \union {config'})
    BY <2>1, FS_EmptySet, FS_AddElement
  <2> QED BY <1>1, <1>2, <2>1, <2>2
<1>7. /\ pardoned' = [made |-> pardoned'.made, lost |-> pardoned'.lost]
      /\ pardoned'.made \in [Roles -> Nat] /\ pardoned'.lost \in [Roles -> Nat]
  <2>1. /\ made \in [Roles -> Nat] /\ lost \in [Roles -> Nat]
        /\ pardoned = [made |-> pardoned.made, lost |-> pardoned.lost]
        /\ pardoned.made \in [Roles -> Nat] /\ pardoned.lost \in [Roles -> Nat]
    BY <1>0 DEF Typed
  <2>2. CASE reset
    BY <1>1, <2>1, <2>2
  <2>3. CASE ~reset
    BY <1>1, <2>1, <2>3
  <2> QED BY <2>2, <2>3
<1>8. Typed'
  BY <1>0, <1>2, <1>4, <1>5, <1>6, <1>7 DEF Typed
<1>9. Clear'
  BY <1>2, <1>3 DEF Clear
<1>10. \A role \in Roles :
         /\ NumberOf(attempts, role) \in Nat /\ made[role] \in Nat /\ lost[role] \in Nat
         /\ pardoned.made[role] \in Nat /\ pardoned.lost[role] \in Nat
         /\ InFlight(role) = 0 /\ InFlight(role)' = 0
         /\ Base(role)' = IF reset THEN made[role] - lost[role] ELSE Base(role)
         /\ Spent(role)' = IF reset THEN 0 ELSE Spent(role)
  <2> TAKE role \in Roles
  <2>1. /\ NumberOf(attempts, role) \in Nat /\ made[role] \in Nat /\ lost[role] \in Nat
        /\ pardoned.made[role] \in Nat /\ pardoned.lost[role] \in Nat
    BY <1>0, NowIs
  <2>2. InFlight(role) = 0 /\ InFlight(role)' = 0
    BY <1>2, <1>3, RoleNames DEF InFlight
  <2>3. CASE reset
    <3>1. pardoned'.made = made /\ pardoned'.lost = lost
      BY <1>1, <2>3
    <3>2. Base(role)' = made[role] - lost[role]
      BY <3>1 DEF Base
    <3>3. Spent(role)' = 0
      BY <1>2, <2>1, <3>1 DEF Spent
    <3> QED BY <2>1, <2>2, <2>3, <3>2, <3>3
  <2>4. CASE ~reset
    <3>1. pardoned' = pardoned
      BY <1>1, <2>4
    <3>2. Base(role)' = Base(role)
      BY <3>1 DEF Base
    <3>3. Spent(role)' = Spent(role)
      BY <1>2, <3>1 DEF Spent
    <3> QED BY <2>1, <2>2, <2>4, <3>2, <3>3
  <2> QED BY <2>3, <2>4
<1>11. Balanced'
  <2> SUFFICES ASSUME NEW role \in Roles
               PROVE  /\ made[role] - lost[role] = NumberOf(attempts, role) + InFlight(role)'
                      /\ Base(role)' >= 0
                      /\ AttemptsOf(started', role) <= NumberOf(attempts, role)
                      /\ AttemptsOf(started', role) + Base(role)' >= NumberOf(attempts, role)
    BY <1>2 DEF Balanced
  <2>1. /\ made[role] - lost[role] = NumberOf(attempts, role) + InFlight(role)
        /\ Base(role) >= 0
    BY <1>0 DEF Balanced
  <2>2. Base(role) \in Int
    BY <1>10 DEF Base
  <2>3. AttemptsOf(started', role) = IF reset THEN 0 ELSE NumberOf(attempts, role)
    BY <1>4
  <2> QED BY <1>10, <2>1, <2>2, <2>3
<1>12. Numbered'
  <2> SUFFICES ASSUME NEW a \in attempts
               PROVE  a.attemptNumber + InFlight(a.role)' <= made[a.role]
    BY <1>2 DEF Numbered
  <2> QED BY <1>0, <1>3, <1>10 DEF Numbered
<1>13. Within'
  <2>1. CASE ~reset
    <3>1. limits \subseteq limits' /\ \A role \in Roles : Spent(role)' = Spent(role)
      BY <1>1, <1>10, <2>1
    <3>2. AllSpent' = AllSpent
      BY <3>1 DEF AllSpent
    <3> QED BY <1>0, <3>1, <3>2, RoleNames DEF Within
  <2>2. CASE reset
    <3>1. \A role \in Roles : Spent(role)' = 0
      BY <1>10, <2>2
    <3>2. \A role \in Roles : AttemptsOf(AllSpent', role) = 0
      BY <3>1 DEF AllSpent, AttemptsOf
    <3>3. SumOf(AllSpent') = 0
      BY <3>2, RoleNames DEF SumOf
    <3>4. config' \in limits' /\ config'.sprintBudget >= 0
          /\ \A role \in {Proposer, Generator} : config'.attemptCeilings[role] >= 0
      BY <1>2, <1>6, ConfigsLimit
    <3> QED BY <3>1, <3>3, <3>4, RoleNames DEF Within
  <2> QED BY <2>1, <2>2
<1>14. Held'
  <2>1. CASE ~reset
    <3>1. Countable(started, Since) /\ Countable(started, Since)'
      BY <1>0, <1>8, TypedCounts, PTL
    <3>2. \A role \in Roles : AttemptsOf(Now, role) <= AttemptsOf(Now', role)
      <4> TAKE role \in Roles
      <4>1. /\ AttemptsOf(Now, role) = AttemptsOf(started, role) + NumberOf(Since, role)
            /\ AttemptsOf(started, role) \in Nat /\ NumberOf(Since, role) \in Nat
            /\ NumberOf(attempts, role) = NumberOf(before, role) + NumberOf(Since, role)
            /\ NumberOf(before, role) \in Nat
        BY <1>0, NowIs
      <4>2. AttemptsOf(started, role) <= NumberOf(before, role)
        BY <1>0 DEF Balanced
      <4>3. Countable(started', Since')
        BY <3>1
      <4>4. AttemptsOf(CountsFrom(started', Since'), role) = AttemptsOf(started', role) + NumberOf(Since', role)
        BY <4>3, CountsAdd DEF Countable
      <4>5. Since' = {} /\ Now' = CountsFrom(started', Since')
        BY <1>2 DEF Since, Now
      <4>6. AttemptsOf(Now', role) = NumberOf(attempts, role)
        BY <1>4, <1>10, <2>1, <4>4, <4>5, EmptyCounts
      <4> QED BY <4>1, <4>2, <4>6
    <3>3. \A i \in DOMAIN history : i \in DOMAIN history' /\ Pattern(history', i) = Pattern(history, i)
      BY <1>2
    <3>4. halts' \subseteq halts
      BY <1>1, <2>1
    <3> QED BY <1>0, <3>1, <3>2, <3>3, <3>4, HeldGrows
  <2>2. CASE reset
    <3>1. \A h \in halts' : h \in halts /\ h.reason = "editOscillation"
      BY <1>1, <2>2
    <3> QED BY <1>0, <1>2, <3>1 DEF Held
  <2> QED BY <2>1, <2>2
<1> QED BY <1>8, <1>9, <1>11, <1>12, <1>13, <1>14 DEF IInv

(* Before the first attempt nothing has been counted, spent or halted.     *)
LEMMA InitIInv == SprintInit => IInv
<1> SUFFICES ASSUME SprintInit PROVE IInv
  OBVIOUS
<1>1. /\ session = "up" /\ next = "gan-clarifier" /\ running = None
      /\ progress = [status |-> "clarifying", terminal |-> FALSE, reason |-> None,
                     sprint |-> 1, revision |-> 0]
      /\ config \in Configs /\ attempts = {} /\ history = <<>> /\ rejected = FALSE
      /\ started = << >> /\ before = {} /\ made = NoneYet /\ lost = NoneYet
      /\ pardoned = [made |-> NoneYet, lost |-> NoneYet] /\ limits = {config} /\ halts = {}
  BY DEF SprintInit
<1>2. NoneYet \in [Roles -> Nat]
  BY DEF NoneYet
<1>3. IsFiniteSet(attempts) /\ IsFiniteSet(limits)
  BY <1>1, FS_EmptySet, FS_Singleton
<1>4. progress = [f \in ProgressFields |-> progress[f]]
  BY <1>1 DEF ProgressFields
<1>5. Typed
  <2>1. started \in [DOMAIN started -> Nat] /\ DOMAIN started \subseteq Roles
    BY <1>1
  <2>2. pardoned = [made |-> pardoned.made, lost |-> pardoned.lost]
        /\ pardoned.made \in [Roles -> Nat] /\ pardoned.lost \in [Roles -> Nat]
    BY <1>1, <1>2
  <2>3. history \in Seq(Tries)
    BY <1>1
  <2> QED BY <1>1, <1>2, <1>3, <1>4, <2>1, <2>2, <2>3, RoleNames DEF Typed
<1>6. Clear /\ Held /\ Numbered
  BY <1>1 DEF Clear, Held, Numbered
<1>7. \A role \in Roles : /\ NumberOf(attempts, role) = 0 /\ NumberOf(before, role) = 0
                          /\ AttemptsOf(started, role) = 0 /\ InFlight(role) = 0
                          /\ made[role] = 0 /\ lost[role] = 0
                          /\ Base(role) = 0 /\ Spent(role) = 0
  <2> TAKE role \in Roles
  <2>1. NumberOf(attempts, role) = 0 /\ NumberOf(before, role) = 0
    BY <1>1, EmptyCounts
  <2>2. AttemptsOf(started, role) = 0
    BY <1>1 DEF AttemptsOf
  <2>3. InFlight(role) = 0
    BY <1>1, RoleNames DEF InFlight
  <2>4. made[role] = 0 /\ lost[role] = 0 /\ pardoned.made[role] = 0 /\ pardoned.lost[role] = 0
    BY <1>1 DEF NoneYet
  <2> QED BY <2>1, <2>2, <2>3, <2>4 DEF Base, Spent
<1>8. Balanced
  BY <1>7 DEF Balanced
<1>9. Within
  <2>1. SumOf(AllSpent) = 0
    BY <1>7, RoleNames DEF SumOf, AllSpent, AttemptsOf
  <2>2. config \in limits /\ config.sprintBudget >= 0
        /\ \A role \in {Proposer, Generator} : config.attemptCeilings[role] >= 0
    BY <1>1, ConfigsLimit
  <2> QED BY <1>7, <2>1, <2>2, RoleNames DEF Within
<1> QED BY <1>5, <1>6, <1>8, <1>9 DEF IInv

(* The invariant of the loop.                                              *)
THEOREM LoopInvariant == SprintSpec => []IInv
<1>1. IInv /\ [SprintNext]_sprintVars => IInv'
  <2> SUFFICES ASSUME IInv, [SprintNext]_sprintVars PROVE IInv'
    OBVIOUS
  <2>0. Typed
    BY DEF IInv
  <2>1. CASE Spawn
    BY <2>1, SpawnKeeps
  <2>2. CASE HaltSprint
    BY <2>2, HaltKeeps
  <2>3. CASE Clarified \/ Cancel \/ Planned \/ Proposed \/ ContractReviewed
    BY <2>0, <2>3, EndedKeeps, ClarifiedEnds, CancelEnds, PlannedEnds, ProposedEnds, ContractReviewedEnds
  <2>4. CASE Generated \/ Reviewed \/ Evaluated
    BY <2>0, <2>4, EndedKeeps, GeneratedEnds, ReviewedEnds, EvaluatedEnds
  <2>5. CASE Stop
    BY <2>5, StopKeeps
  <2>6. CASE Recover
    BY <2>6, RecoverKeeps
  <2>7. CASE UNCHANGED sprintVars
    <3>1. UNCHANGED <<session, next, running, progress, attempts, history, rejected, config, started,
                      before, made, lost, pardoned, limits, halts>>
      BY <2>7 DEF sprintVars, loop, disk, trace, basis, ghosts
    <3>2. Typed' /\ Clear' /\ Held'
      <4>1. Typed'
        BY <2>0, <3>1 DEF Typed
      <4>2. Now' = Now
        BY <3>1 DEF Now
      <4>3. Clear' /\ Held'
        BY <3>1, <4>2 DEF IInv, Clear, Held
      <4> QED BY <4>1, <4>3
    <3> QED BY <3>1, <3>2, FrameKeeps DEF IInv
  <2> QED BY <2>1, <2>2, <2>3, <2>4, <2>5, <2>6, <2>7 DEF SprintNext
<1> QED BY <1>1, InitIInv, PTL DEF SprintSpec

-------------------------------------------------------------------------------
(* What the invariant means for the runs                                   *)

(* The largest of the values that the limits in force give to anything.    *)
LEMMA LimitBounds ==
  ASSUME NEW cs, IsFiniteSet(cs), NEW f \in [cs -> Nat], NEW c \in cs
  PROVE  f[c] <= Max({f[d] : d \in cs}) /\ Max({f[d] : d \in cs}) \in Int
<1> DEFINE S == {f[d] : d \in cs}
<1>1. IsFiniteSet(S)
  <2>1. f \in Surjection(cs, S)
    BY DEF Surjection
  <2> HIDE DEF S
  <2> QED BY <2>1, FS_Surjection
<1>2. S \in SUBSET Int /\ S # {}
  OBVIOUS
<1>3. \E x \in S : \A y \in S : x >= y
  <2> HIDE DEF S
  <2> QED BY <1>1, <1>2, LargestExists
<1>4. Max(S) \in S /\ \A y \in S : Max(S) >= y
  <2> HIDE DEF S
  <2> QED BY <1>3 DEF Max
<1> QED BY <1>2, <1>4

LEMMA ProvesBounded == IInv => AttemptsBounded
<1> SUFFICES ASSUME IInv PROVE AttemptsBounded
  OBVIOUS
<1>0. Typed /\ Balanced /\ Within
  BY DEF IInv
<1> DEFINE since(f, g, role) == f[role] - g[role]
           spent(role) == since(made, pardoned.made, role) - since(lost, pardoned.lost, role)
<1>1. \A role : spent(role) = Spent(role)
  BY DEF Spent
<1>2. IsFiniteSet(limits) /\ limits \subseteq Configs
  BY <1>0 DEF Typed
<1>3. \A c \in limits : /\ c.sprintBudget \in Nat
                        /\ \A role \in {Proposer, Generator} : c.attemptCeilings[role] \in Nat
  BY <1>2, ConfigsLimit
<1>4. \A role \in Roles : Spent(role) \in Int
  BY <1>0 DEF Typed, Spent
<1>5. ASSUME NEW role \in {Proposer, Generator} PROVE Spent(role) <= HighestCeiling(role)
  <2>1. PICK c \in limits : Spent(role) <= c.attemptCeilings[role]
    BY <1>0 DEF Within
  <2>2. PICK f : f = [d \in limits |-> d.attemptCeilings[role]]
    OBVIOUS
  <2>3. f \in [limits -> Nat]
    BY <1>3, <2>2
  <2>4. f[c] <= Max({f[d] : d \in limits}) /\ Max({f[d] : d \in limits}) \in Int
    BY <1>2, <2>3, LimitBounds
  <2>5. {f[d] : d \in limits} = {d.attemptCeilings[role] : d \in limits} /\ f[c] = c.attemptCeilings[role]
    BY <2>2
  <2>6. c.attemptCeilings[role] <= HighestCeiling(role) /\ HighestCeiling(role) \in Int
    BY <2>4, <2>5 DEF HighestCeiling
  <2>7. c.attemptCeilings[role] \in Int /\ Spent(role) \in Int
    BY <1>3, <1>4, RoleNames
  <2> QED BY <2>1, <2>6, <2>7
<1>6. TotalAttempts([role \in Roles |-> Spent(role)]) <= Max({c.sprintBudget : c \in limits})
  <2>1. PICK c \in limits : SumOf(AllSpent) <= c.sprintBudget
    BY <1>0 DEF Within
  <2>2. PICK f : f = [d \in limits |-> d.sprintBudget]
    OBVIOUS
  <2>3. f \in [limits -> Nat]
    BY <1>3, <2>2
  <2>4. f[c] <= Max({f[d] : d \in limits}) /\ Max({f[d] : d \in limits}) \in Int
    BY <1>2, <2>3, LimitBounds
  <2>5. {f[d] : d \in limits} = {d.sprintBudget : d \in limits} /\ f[c] = c.sprintBudget
    BY <2>2
  <2>6. AllSpent \in [Roles -> Int]
    BY <1>4 DEF AllSpent
  <2>7. TotalAttempts(AllSpent) = SumOf(AllSpent)
    BY <2>6, TotalIsSum
  <2>8. SumOf(AllSpent) \in Int
    BY <2>6, RoleNames DEF SumOf, AttemptsOf
  <2>9. c.sprintBudget \in Int
    BY <1>3
  <2>10. TotalAttempts(AllSpent) <= Max({d.sprintBudget : d \in limits})
    <3>1. PICK most : most = Max({f[d] : d \in limits})
      OBVIOUS
    <3>2. most = Max({d.sprintBudget : d \in limits})
      BY <2>5, <3>1, Zenon
    <3>3. PICK total : total = SumOf(AllSpent)
      OBVIOUS
    <3>4. total <= c.sprintBudget /\ c.sprintBudget <= most /\ most \in Int /\ total \in Int
      BY <2>1, <2>4, <2>5, <2>8, <3>1, <3>3
    <3>5. total <= most
      BY <2>9, <3>4
    <3> QED BY <2>7, <3>2, <3>3, <3>5, Zenon
  <2> QED BY <2>10 DEF AllSpent
<1>7. [role \in Roles |-> spent(role)] = [role \in Roles |-> Spent(role)]
  BY <1>1
<1>8. DOMAIN DEFAULT_ATTEMPT_CEILINGS = {Proposer, Generator}
  BY DEF DEFAULT_ATTEMPT_CEILINGS
<1> QED BY <1>1, <1>5, <1>6, <1>7, <1>8 DEF AttemptsBounded

(* Whatever the limits of the sessions and wherever they stop, a run makes *)
(* no more attempts than the limits in force allow, and those the trace    *)
(* lost: checkRoleCeiling and checkSprintBudget over the counters that     *)
(* reconstructRecoveryState reads back.                                    *)
THEOREM AttemptsAreBounded == SprintSpec => []AttemptsBounded
BY LoopInvariant, ProvesBounded, PTL

LEMMA ProvesStick == IInv => HaltsStick
<1> SUFFICES ASSUME IInv, NEW h \in halts, running # None
             PROVE  ~ \/ h.reason = "roleCeilingExceeded" /\ running = h.role /\ config = h.config
                      \/ h.reason = "sprintBudgetExceeded" /\ config = h.config
                      \/ h.reason = "editOscillation" /\ running = Generator
                           /\ config.oscillationDetection
  BY DEF HaltsStick
<1>1. Boundary(running, Now, history, config) = {}
  BY DEF IInv, Clear
<1>2. /\ ~ (/\ running \in DOMAIN config.attemptCeilings \ FORBIDDEN_ROLE_KEYS
            /\ AttemptsOf(Now, running) >= config.attemptCeilings[running])
      /\ ~ (TotalAttempts(Now) >= config.sprintBudget)
      /\ running = Generator /\ config.oscillationDetection =>
           \A i \in DOMAIN history : Pattern(history, i) = "none"
  BY <1>1, BoundaryClear
<1>3. \/ /\ h.reason = "roleCeilingExceeded"
         /\ h.role \in DOMAIN h.config.attemptCeilings \ FORBIDDEN_ROLE_KEYS
         /\ AttemptsOf(Now, h.role) >= h.config.attemptCeilings[h.role]
      \/ /\ h.reason = "sprintBudgetExceeded"
         /\ TotalAttempts(Now) >= h.config.sprintBudget
      \/ /\ h.reason = "editOscillation"
         /\ \E i \in DOMAIN history : Pattern(history, i) # "none"
  BY DEF IInv, Held
<1> QED BY <1>2, <1>3

(* A halt of checkRoleCeiling, checkSprintBudget or detectEditOscillation  *)
(* is final: no session that recovers the run under that config runs the   *)
(* step it halted, until a reset pardons it.                               *)
THEOREM HaltsAreFinal == SprintSpec => []HaltsStick
BY LoopInvariant, ProvesStick, PTL

LEMMA ProvesNoThirdTry == IInv => NoThirdTry
<1> SUFFICES ASSUME IInv, running = Generator, config.oscillationDetection, NEW edit \in Edits
             PROVE  Cardinality({i \in DOMAIN history : history[i].fingerprint = edit
                                                          /\ history[i].followedRejection}) <= 2
  BY DEF NoThirdTry
<1>1. Boundary(running, Now, history, config) = {}
  BY RoleNames DEF IInv, Clear
<1>2. \A i \in DOMAIN history : Pattern(history, i) = "none"
  BY <1>1, BoundaryClear
<1>3. history \in Seq(Tries)
  BY DEF IInv, Typed
<1> QED BY <1>2, <1>3, ThirdTryFound

(* With detectEditOscillation on, the generator is never at work when one  *)
(* of its edits has come after a rejection three times.                    *)
THEOREM ThirdTriesHalt == SprintSpec => []NoThirdTry
BY LoopInvariant, ProvesNoThirdTry, PTL

-------------------------------------------------------------------------------
(* Rejected runs                                                           *)

(* A surviving blocker is one that validation keeps.                       *)
LEMMA BlockerStands ==
  ASSUME NEW bundle \in Bundles, NEW valid, valid = ValidateFindings(bundle),
         Summary(valid)["blocker"] > 0
  PROVE  \E f \in Range(valid.findings) :
           /\ f.severity = "blocker"
           /\ f.kind = "inspection" \/ f.command = "reproduces"
<1> DEFINE kept == {i \in DOMAIN bundle.findings : DropReason(bundle.findings[i]) = "kept"}
<1>1. valid.findings = Restrict(bundle.findings, kept)
  BY DEF ValidateFindings
<1>2. BySeverity(valid, "blocker") # {}
  <2>1. Summary(valid)["blocker"] = Cardinality(BySeverity(valid, "blocker"))
    BY DEF Summary, Severities
  <2>2. Cardinality({}) = 0
    BY FS_EmptySet
  <2> QED BY <2>1, <2>2
<1>3. PICK i \in DOMAIN valid.findings : valid.findings[i].severity = "blocker"
  BY <1>2 DEF BySeverity
<1>4. i \in kept /\ valid.findings[i] = bundle.findings[i]
  BY <1>1, <1>3 DEF Restrict
<1>5. bundle.findings[i] \in Finding /\ DropReason(bundle.findings[i]) = "kept"
  BY <1>4, LoopAssumption
<1>6. valid.findings[i] \in Range(valid.findings)
  BY <1>3 DEF Range
<1>7. ASSUME NEW f \in Finding, DropReason(f) = "kept"
      PROVE  f.kind = "inspection" \/ f.command = "reproduces"
  BY <1>7 DEF DropReason, Finding, Commands
<1> QED BY <1>3, <1>4, <1>5, <1>6, <1>7

(* A step that rejects puts the circumstances on record.                   *)
LEMMA ReviewedRejects ==
  ASSUME Typed, RejectedForCause, Reviewed
  PROVE  RejectedForCause'
<1>1. PICK bundle \in Bundles, covered \in BOOLEAN :
       LET valid == ValidateFindings(bundle)
           summary == Summary(valid)
           uncovered == ~covered /\ summary["blocker"] + summary["warning"] > 0
           rejects == uncovered /\ RejectsRun(CapFired, summary["blocker"])
       IN
       /\ review' = valid
       /\ \/ /\ uncovered /\ ~CapFired
             /\ MoveOn(Proposer)
             /\ UNCHANGED <<session, rejection>>
          \/ /\ rejects
             /\ EndRun(FAILED_EVALUATION_REJECTED)
             /\ next' = None
             /\ rejection' = [relocks |-> progress.revision, cap |-> config.renegotiationCap,
                              findings |-> valid.findings, recoveries |-> recoveries]
          \/ /\ ~uncovered \/ CapFired
             /\ ~rejects
             /\ MoveOn(Evaluator)
             /\ UNCHANGED <<session, rejection>>
  BY DEF Reviewed
<1>2. UNCHANGED recoveries
  BY DEF Reviewed, basis
<1>3. CASE (MoveOn(Proposer) \/ MoveOn(Evaluator)) /\ UNCHANGED <<session, rejection>>
  <2>1. progress'.reason = progress.reason
    BY <1>3, RoleNames, MoveOnTyped
  <2> QED BY <1>2, <1>3, <2>1 DEF RejectedForCause
<1>4. CASE /\ RejectsRun(CapFired, Summary(ValidateFindings(bundle))["blocker"])
           /\ EndRun(FAILED_EVALUATION_REJECTED)
           /\ rejection' = [relocks |-> progress.revision, cap |-> config.renegotiationCap,
                            findings |-> ValidateFindings(bundle).findings,
                            recoveries |-> recoveries]
  <2>1. CapFired /\ Summary(ValidateFindings(bundle))["blocker"] > 0
    BY <1>4 DEF RejectsRun
  <2>2. \E f \in Range(ValidateFindings(bundle).findings) :
          /\ f.severity = "blocker"
          /\ f.kind = "inspection" \/ f.command = "reproduces"
    BY <2>1, BlockerStands
  <2>3. session' = "down" /\ rejection'.relocks >= rejection'.cap
    BY <1>4, <2>1 DEF EndRun, CapFired
  <2> QED BY <1>4, <2>2, <2>3 DEF RejectedForCause
<1> QED BY <1>1, <1>3, <1>4

(* A rejection is on record under a number of recoveries not yet passed.   *)
OnRecord == recoveries \in Nat /\ rejection.recoveries \in Nat /\ rejection.recoveries <= recoveries

(* Every other step leaves the record alone, and the reason or another one.*)
LEMMA RecordStays ==
  ASSUME RejectedForCause, OnRecord, UNCHANGED <<recoveries, rejection>>,
         progress'.reason = FAILED_EVALUATION_REJECTED => progress.reason = FAILED_EVALUATION_REJECTED,
         session' = "up" => session = "up"
  PROVE  RejectedForCause' /\ OnRecord'
BY DEF RejectedForCause, OnRecord

(* Only Reviewed rejects a run, and only Recover takes a rejected one up.  *)
LEMMA RejectedKeeps ==
  IInv /\ RejectedForCause /\ OnRecord /\ [SprintNext]_sprintVars => RejectedForCause' /\ OnRecord'
<1> SUFFICES ASSUME IInv, RejectedForCause, OnRecord, [SprintNext]_sprintVars
             PROVE  RejectedForCause' /\ OnRecord'
  OBVIOUS
<1>0. Typed
  BY DEF IInv
<1>1. CASE Ended /\ OtherReason
  <2>1. UNCHANGED <<recoveries, rejection>> /\ session = "up"
    BY <1>1 DEF Ended, OtherReason, basis
  <2>2. progress'.reason = FAILED_EVALUATION_REJECTED => progress.reason = FAILED_EVALUATION_REJECTED
    BY <1>1 DEF OtherReason, FAILED_EVALUATION_REJECTED
  <2> QED BY <2>1, <2>2, RecordStays
<1>2. CASE Reviewed
  <2>1. rejection' = rejection \/ rejection'.recoveries = recoveries
    BY <1>2 DEF Reviewed
  <2>2. recoveries' = recoveries
    BY <1>2 DEF Reviewed, basis
  <2> QED BY <1>0, <1>2, <2>1, <2>2, ReviewedRejects DEF OnRecord
<1>3. CASE Spawn
  <2>1. UNCHANGED <<recoveries, rejection, session>> /\ progress'.reason = progress.reason
    BY <1>0, <1>3 DEF Spawn, Typed, ProgressFields, basis, ghosts
  <2> QED BY <2>1, RecordStays
<1>4. CASE HaltSprint
  <2>1. /\ UNCHANGED <<recoveries, rejection>> /\ session' = "down"
        /\ progress'.reason = FAILED_LOOP_DETECTED
    BY <1>0, <1>4 DEF HaltSprint, Typed, ProgressFields, basis
  <2>2. progress'.reason # FAILED_EVALUATION_REJECTED
    BY <2>1 DEF FAILED_EVALUATION_REJECTED, FAILED_LOOP_DETECTED
  <2> QED BY <2>1, <2>2, RecordStays
<1>5. CASE Stop
  <2>1. UNCHANGED <<recoveries, rejection, progress>> /\ session' = "down"
    BY <1>5 DEF Stop, disk, basis
  <2> QED BY <2>1, RecordStays
<1>6. CASE Recover
  BY <1>6 DEF Recover, disk, RejectedForCause, OnRecord
<1>7. CASE UNCHANGED sprintVars
  <2>1. UNCHANGED <<recoveries, rejection, progress, session>>
    BY <1>7 DEF sprintVars, loop, disk, basis, ghosts
  <2> QED BY <2>1, RecordStays
<1> QED BY <1>0, <1>1, <1>2, <1>3, <1>4, <1>5, <1>6, <1>7, ClarifiedEnds, CancelEnds, PlannedEnds,
           ProposedEnds, ContractReviewedEnds, GeneratedEnds, EvaluatedEnds DEF SprintNext

(* A run is rejected by writeFailedEvaluationRejectedTool only, over a     *)
(* blocker that validateFindings kept and with the renegotiations used up, *)
(* and no session works on it before a user has recovered it.              *)
THEOREM RejectionsAreForCause == SprintSpec => []RejectedForCause
<1>1. SprintInit => RejectedForCause /\ OnRecord
  BY DEF SprintInit, RejectedForCause, OnRecord, NoRejection, None, FAILED_EVALUATION_REJECTED
<1> QED BY <1>1, LoopInvariant, RejectedKeeps, PTL DEF SprintSpec
===============================================================================
