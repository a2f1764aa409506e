--------------------------- MODULE MCOrchestrator ---------------------------
(***************************************************************************)
(* Small instances of Orchestrator.tla for TLC: every runner has one slot  *)
(* and can run every task.  Task 1 comes first; what depends on it differs *)
(* between the configurations.                                             *)
(***************************************************************************)
EXTENDS OrchestratorProperties

OneSlot == [r \in Runner |-> 1]
AllTasks == [r \in Runner |-> Task]
NoPins == [t \in Task |-> NoRunner]
NoDeps == [t \in Task |-> {}]
NoSteps == [t \in Task |-> <<>>]

\* A chain 1 <- 2 <- 3 ...; each task waits for the one before it.
Chain == [t \in Task |-> {t - 1} \ {0}]

\* Task 1 is a plan for 2 and 3; 3 depends on 2.
PlanSteps == [t \in Task |-> IF t = 1 THEN <<2, 3>> ELSE <<>>]
PlanDeps == [t \in Task |-> IF t = 3 THEN {2} ELSE {}]

AfterApproval == [t \in Task |-> "approved"]
AfterCompletion == [t \in Task |-> "completed"]
AfterMerge == [t \in Task |-> "merged"]

=============================================================================
