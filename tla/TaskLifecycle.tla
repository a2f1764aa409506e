---------------------------- MODULE TaskLifecycle ----------------------------
(***************************************************************************)
(* What the orchestrator promises about tasks, without saying how: which   *)
(* status may follow which across one handler, and that no runner is       *)
(* handed a task before its dependencies are met.  Orchestrator.tla        *)
(* implements it; one step here is one handler, which may move many tasks  *)
(* (a cascade of failures, a plan approved, a restart).                    *)
(*                                                                         *)
(*   status  the status of each task, "absent" before it is created        *)
(*   handed  the tasks some runner has ever been told to run               *)
(***************************************************************************)
EXTENDS TaskRules

VARIABLES status, handed

vars == <<status, handed>>

Init ==
  /\ status = [t \in Task |-> "absent"]
  /\ handed = {}

\* The statuses one handler may leave a task in.  A live task may go anywhere but
\* straight to merged; a bad ending is left for the queue; an approval only for
\* the merge; a rejection and a merge never.
After(st) ==
  CASE st = "absent"     -> {"absent", "queued"}
    [] st = "approved"   -> {"approved", "merged"}
    [] st = "merged"     -> {"merged"}
    [] st = "rejected"   -> {"rejected"}
    [] st \in Retryable  -> {st, "queued"}
    [] OTHER             -> Status \ {"merged"}

Move ==
  /\ status' \in [Task -> Status \union {"absent"}]
  /\ \A t \in Task : status'[t] \in After(status[t])

\* A handler that loses several runs may free a slot for a task and then lose what
\* that task waited for, so a dependency may be met before the step or after it.
HandOut ==
  /\ handed' \in SUBSET Task
  /\ handed \subseteq handed'
  /\ \A t \in handed' \ handed : \A d \in Deps[t] :
       Met(Needs[t], status[d]) \/ Met(Needs[t], status'[d])

Next == Move /\ HandOut

Spec == Init /\ [][Next]_vars

-----------------------------------------------------------------------------

TypeOK ==
  /\ status \in [Task -> Status \union {"absent"}]
  /\ handed \subseteq Task

\* A task some runner was told to run has only dependencies whose approval (or
\* merge, when it waits for that) still stands.  A dependency that only had to
\* complete may have been rejected since.
DependenciesStand ==
  \A t \in handed : \A d \in Deps[t] :
    Needs[t] # "completed" => Met(Needs[t], status[d])

=============================================================================
