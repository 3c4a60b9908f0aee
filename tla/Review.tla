--------------------------------- MODULE Review --------------------------------
(***************************************************************************)
(* The two guards between an independent review and its consequences:      *)
(* validateFindings, which re-runs what can be re-run, and the record that *)
(* ends a run rejected (src/agents/independent-review).                    *)
(*                                                                         *)
(* A finding is [kind, severity, command]; command tells what becomes of   *)
(* its reproduction: "unsafe" has a banned character, "throws" cannot be   *)
(* spawned, "fails" exits non-zero, "reproduces" exits 0.                  *)
(***************************************************************************)
EXTENDS Naturals, Sequences, FiniteSets, Functions

Severities == {"blocker", "warning", "advisory"}
Commands == {"unsafe", "throws", "fails", "reproduces"}
Finding == [kind : {"inspection", "command"}, severity : Severities, command : Commands]

FAILED_EVALUATION_REJECTED == "failed-evaluation-rejected"

(* Mutant: a command that could not be run leaves its finding standing.    *)
DropReasonUnlessThrown(finding) ==
  CASE finding.kind = "inspection"                                   -> "kept"
    [] finding.kind = "command" /\ finding.command = "unsafe"        -> "reproduction-unsafe"
    [] finding.kind = "command" /\ finding.command = "fails"         -> "reproduction-failed"
    [] OTHER                                                         -> "kept"

(* What the pass over the findings decides of each.  The runner is asked   *)
(* about commands free of banned characters only.                          *)
DropReason(finding) ==
  CASE finding.kind = "inspection"                                   -> "kept"
    [] finding.kind = "command" /\ finding.command = "unsafe"        -> "reproduction-unsafe"
    [] finding.kind = "command" /\ finding.command = "throws"        -> "reproduction-errored"
    [] finding.kind = "command" /\ finding.command = "fails"         -> "reproduction-failed"
    [] finding.kind = "command" /\ finding.command = "reproduces"    -> "kept"

(* bundle: [findings, dropped], dropped being what earlier passes dropped. *)
(* The findings that stand keep the places they were handed in with.       *)
ValidateFindings(bundle) ==
  LET kept == {i \in DOMAIN bundle.findings : DropReason(bundle.findings[i]) = "kept"} IN
  [findings |-> Restrict(bundle.findings, kept),
   dropped |-> bundle.dropped + Len(bundle.findings) - Cardinality(kept)]

BySeverity(bundle, severity) ==
  {i \in DOMAIN bundle.findings : bundle.findings[i].severity = severity}

Summary(bundle) ==
  [severity \in Severities |-> Cardinality(BySeverity(bundle, severity))]

(* buildFailedEvaluationRejectedRecord: both guards, or nothing is written.*)
RejectsRun(capFired, unresolvedBlockers) == capFired /\ unresolvedBlockers > 0
===============================================================================
