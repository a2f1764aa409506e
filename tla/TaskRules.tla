----------------------------- MODULE TaskRules -----------------------------
(***************************************************************************)
(* What every part of LGTM agrees on about a task: the statuses it can be  *)
(* in, which of them end it, what a dependency must have reached, and what *)
(* an event does to the status.  Pure definitions, no state.               *)
(*                                                                         *)
(* An event stands for its TaskEvent variant; the payload (result, error   *)
(* text, diff) is left out.  Variants that are only for the reader         *)
(* (Output, Progress, PolicyDecision, ...) move nothing and are left out.  *)
(***************************************************************************)

CONSTANTS
  Task,    \* task ids
  Deps,    \* Deps[t]: TaskSpec.depends_on
  Needs    \* Needs[t]: TaskSpec.depends_on_condition

\* TaskStatus.
Status == {"queued", "running", "awaiting_review", "changes_requested",
           "conflicted", "approved", "merged", "rejected", "failed",
           "timed_out", "runner_lost", "cancelled"}

\* TaskStatus::is_terminal.
Terminal == {"approved", "merged", "rejected", "failed", "timed_out",
             "runner_lost", "cancelled"}

IsTerminal(st) == st \in Terminal

\* The endings `retry` accepts.
Retryable == {"failed", "timed_out", "runner_lost", "cancelled"}

\* The endings that `apply_event` passes on to dependents.
Dead == {"failed", "timed_out", "runner_lost", "cancelled", "rejected"}

\* DependsOn, and DependsOn::met.
Condition == {"approved", "completed", "merged"}

Met(condition, st) ==
  CASE condition = "approved"  -> st \in {"approved", "merged"}
    [] condition = "completed" -> st \in {"awaiting_review", "changes_requested",
                                          "conflicted", "approved", "merged"}
    [] condition = "merged"    -> st = "merged"

ASSUME SpecsAreTyped ==
  /\ Deps \in [Task -> SUBSET Task]
  /\ Needs \in [Task -> Condition]

\* deps_met, given the status of every task.
DepsMetIn(t, st) == \A d \in Deps[t] : Met(Needs[t], st[d])

-----------------------------------------------------------------------------

\* The TaskEvent variants that say something about the run or the branch.
Event == {"started", "completed", "failed", "timed_out", "runner_lost",
          "cancelled", "pushed", "conflicted", "discarded", "message",
          "requeued"}

\* The status `transition` derives from an event; "requeued" gives none.
Target(e) ==
  CASE e = "started"    -> "running"
    [] e = "completed"  -> "awaiting_review"
    [] e = "pushed"     -> "approved"
    [] e = "discarded"  -> "rejected"
    [] e = "message"    -> "changes_requested"
    [] OTHER            -> e

\* Mutant of Transition: a late event moves a terminal status too.
TransitionAnyway(st, e) == IF e = "requeued" THEN st ELSE Target(e)

\* `transition`: a terminal status is left alone, whatever arrives.
Transition(st, e) ==
  IF IsTerminal(st) \/ e = "requeued" THEN st ELSE Target(e)

\* What `transition` returns: the run is over.  It does not look at the status,
\* so a late end of run still says so.
Finished(e) == e \in {"completed", "failed", "timed_out", "runner_lost", "cancelled"}

=============================================================================
