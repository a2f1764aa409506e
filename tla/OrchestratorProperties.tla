----------------------- MODULE OrchestratorProperties -----------------------
(***************************************************************************)
(* What the handlers of Orchestrator.tla keep true between them.           *)
(***************************************************************************)
EXTENDS Orchestrator

Record == [status : Status \union {"absent"}, runner : Runner \union {NoRunner},
           pin : Runner \union {NoRunner}, result : BOOLEAN, requeued : Nat]

TablesTyped ==
  /\ created \in Seq(Task)
  /\ status \in [Task -> Status \union {"absent"}]
  /\ runner \in [Task -> Runner \union {NoRunner}]
  /\ pin \in [Task -> Runner \union {NoRunner}]
  /\ result \in [Task -> BOOLEAN]
  /\ requeued \in [Task -> Nat]
  /\ link \in [Runner -> {"absent", "grace", "connected"}]
  /\ running \in [Runner -> SUBSET Task]
  /\ asked \subseteq {"run", "push", "discard"} \X Runner \X Task
  /\ disk \in [Task -> Record]
  /\ \A r \in Runner : link[r] = "absent" => running[r] = {}

\* The tables hold what their types say, and a runner that is gone has nothing.
TypeOK == TablesTyped /\ heard \subseteq Runner

\* A task that is assigned but has not started is in its runner's running set, so
\* losing the runner loses the task: the scheduler itself only looks at tasks
\* without a runner, and would never pick it up again.
AssignedIsHeld ==
  \A t \in Task :
    status[t] = "queued" /\ runner[t] # NoRunner =>
      /\ link[runner[t]] # "absent"
      /\ t \in running[runner[t]]

\* A task is only ever on a runner its spec allows: a retry that pins it elsewhere
\* also takes it off the one it was on.
AssignedWherePinned ==
  \A t \in Task : runner[t] # NoRunner => pin[t] \in {NoRunner, runner[t]}

\* No runner is ever handed a task before what the task depends on is approved
\* (or merged, when it waits for the merge), and that cannot be undone later:
\* not by a retry, a lost runner, a late event or a restart.
DependenciesFirst ==
  \A t \in Task, r \in Runner :
    <<"run", r, t>> \in asked =>
      \A d \in Deps[t] : Needs[t] # "completed" => Met(Needs[t], status[d])

\* Between two handlers there is never a task that could start and a runner that
\* could take it: every handler that frees a slot, meets a dependency, queues a
\* task or registers a runner has called `schedule`.  One gap is left out: a push
\* that conflicts after the run was sent back completes the dependency (Met holds
\* of "conflicted", and of the follow-up it then gets) and calls nothing; the end
\* of the follow-up does.
NothingLeftWaiting ==
  \A t \in Task :
    /\ IsReady(Now, t)
    /\ ~OverDailyBudget(Now)
    /\ \A d \in Deps[t] : status[d] \notin {"conflicted", "changes_requested"}
    => Candidate(Now, t) = NoRunner

\* Nothing but follow-ups and reported runs can fill a runner past its slots: a
\* handler that newly assigns a task leaves its runner within them.
AssignmentsFitSlots ==
  [][\A t \in Task, r \in Runner :
       /\ runner'[t] = r /\ runner[t] # r
       => Cardinality(running'[r]) <= Slots[r]]_vars

\* A task that dies takes every task queued behind it along, in the same handler
\* and however long the chain, unless a policy puts that task back in the queue;
\* a restart does not look at dependents at all.
DeathEndsDependents ==
  [][Restart \/ \A d, t \in Task :
       /\ d \in Deps[t]
       /\ status[d] \notin Dead /\ status'[d] \in Dead
       /\ status[t] = "queued" /\ status'[t] = "queued"
       => requeued'[t] > requeued[t]]_vars

\* The handlers implement the task lifecycle: cascades, retries, late events and
\* restarts included, no step moves a task in a way the lifecycle forbids or hands
\* one out before its dependencies are met.
Lifecycle == INSTANCE TaskLifecycle WITH
  handed <- {t \in Task : \E r \in Runner : <<"run", r, t>> \in asked}

ImplementsLifecycle == Lifecycle!Spec

-----------------------------------------------------------------------------
\* What the code's comments say of it, and the code does not keep.

\* "Returns the ids to persist" (apply_event, state.rs:1265): what a handler
\* changed is what it persists, so a stop right after it loses nothing.
DiskIsCurrent == \A t \in Task : disk[t] = Stored(Now, t)

=============================================================================
