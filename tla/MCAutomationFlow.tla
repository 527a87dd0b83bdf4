-------------------------- MODULE MCAutomationFlow --------------------------
(* A small instance of the automation flow for TLC: a run, and two later calls. *)
EXTENDS AutomationFlow, TLC

CONSTANTS c1, c2, c3, run1, run2

Interchangeable == Permutations(Calls)
=============================================================================
