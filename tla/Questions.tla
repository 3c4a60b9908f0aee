-------------------------------- MODULE Questions ------------------------------
(***************************************************************************)
(* The parts of the system that read their inputs once and keep no state:  *)
(* a question is a call with what it finds, and the state that the question*)
(* leaves is all that its answer depends on.                               *)
(***************************************************************************)
EXTENDS Validation, EvaluatorPlan, Fingerprint

CONSTANTS
  OverlaysAt,         \* the overlays of a tier that cascadeOverlays is asked about
                      \* at a splice point: OverlaysAt[point][tier]
  Worlds,             \* what composeResolvedConfig finds
  EvaluatorInputs,    \* what buildEvaluatorPlan is given
  EditedFiles,        \* the contents of an edited file
  SortableLists       \* for each pattern of a sortable list, the texts it matches

(* What a question finds has passed, or is the kind of thing that an       *)
(* overlay's schema is asked about.                                        *)
ASSUME QuestionsAssumption ==
  /\ DOMAIN OverlaysAt \subseteq DOMAIN SPLICE_POINTS
  /\ \A point \in DOMAIN OverlaysAt, tier \in Range(OverlayTiers) :
       \A o \in OverlaysAt[point][tier] : FieldsFit(o)
  /\ \A world \in Worlds : WorldFits(world)
  /\ \A input \in EvaluatorInputs : PlanInputFits(input)
  /\ \A file \in EditedFiles : IsFile(file)

VARIABLE question

NoQuestion == [about |-> "nothing", asked |-> <<>>]
QuestionInit == question = NoQuestion

AskCascade ==
  \E point \in DOMAIN OverlaysAt :
    \E lowest \in OverlaysAt[point]["default"], middle \in OverlaysAt[point]["user"],
       highest \in OverlaysAt[point]["project"] :
      LET of == [default |-> lowest, user |-> middle, project |-> highest] IN
      question' = [about |-> "cascade", asked |-> [point |-> point, overlays |-> of]]
AskConfiguration == \E world \in Worlds : question' = [about |-> "configuration", asked |-> world]
AskPlan == \E input \in EvaluatorInputs : question' = [about |-> "plan", asked |-> input]
AskFingerprint ==
  \E file \in EditedFiles, declared \in BOOLEAN, matched \in SortableLists :
    question' = [about |-> "fingerprint",
                 asked |-> [file |-> file, declared |-> declared, matched |-> matched]]

Ask ==
  /\ question = NoQuestion
  /\ AskCascade \/ AskConfiguration \/ AskPlan \/ AskFingerprint
QuestionsSpec == QuestionInit /\ [][Ask]_question

-------------------------------------------------------------------------------
(* The overlay merged from three tiers is what the tiers that may speak    *)
(* have said, whatever the rule of the splice point.                       *)
CascadeByTier ==
  question.about = "cascade" => MadeByTier(question.asked.overlays, question.asked.point)

(* A configuration composed without an error can be worked with.           *)
ValidMeansUsable == question.about = "configuration" => UsableIfValid(question.asked)

(* The evaluator's plan follows from what it is given, and from no order.  *)
PlanStable == question.about = "plan" => PlanFits(question.asked)

(* Fingerprints tell edits apart, and churn not.                           *)
FingerprintFaithful ==
  question.about = "fingerprint" =>
    SameForChurn(question.asked.file, EditedFiles, question.asked.declared, question.asked.matched)
===============================================================================
