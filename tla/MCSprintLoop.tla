------------------------------ MODULE MCSprintLoop -----------------------------
(* Small runs of the sprint loop for TLC.                                  *)
EXTENDS SprintLoop, TLC

Overlay(proposer, generator, budget, oscillation, cap) ==
  [attemptCeilings |-> (Proposer :> proposer @@ Generator :> generator),
   sprintBudget |-> budget, oscillationDetection |-> oscillation,
   renegotiationCap |-> cap]

(* A tight configuration, and one whose ceilings leave the oscillation     *)
(* check and the budget to fire first.                                     *)
SomeOverlays == {Overlay(2, 1, 8, "false", 0), Overlay(2, 4, 13, "absent", 0)}

SomeLosable == {Generator}

F(kind, severity, command) == [kind |-> kind, severity |-> severity, command |-> command]
Bundle(findings) == [findings |-> findings, dropped |-> 0]

SomeBundles ==
  {Bundle(<<F("command", "blocker", "throws")>>),
   Bundle(<<F("inspection", "blocker", "fails"), F("command", "warning", "unsafe")>>)}
===============================================================================
