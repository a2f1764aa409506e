------------------------------- MODULE State -------------------------------
(***************************************************************************)
(* The orchestrator's `State` (crates/orchestrator/src/state.rs, with the  *)
(* parts of it kept in commands.rs, plan.rs and runner.rs): the task table *)
(* and the runner table, and what each method does to them.                *)
(*                                                                         *)
(* Everything sits behind one mutex, so a method runs to its end before    *)
(* anything else happens.  Each method is an operator from a state record  *)
(* to a state record; Orchestrator.tla makes one step of each handler.     *)
(*                                                                         *)
(*   created   the tasks in order of creation (created_at)                 *)
(*   status    Task.status, "absent" before the task is created            *)
(*   runner    Task.runner, the runner it is assigned to                   *)
(*   pin       TaskSpec.runner, the only runner it may be assigned to      *)
(*   result    whether Task.result is present                              *)
(*   requeued  how many Requeued events the task's log holds               *)
(*   link      a runner is "connected", in its "grace" period, or "absent" *)
(*   running   RunnerConn.running                                          *)
(*   asked     <<what, runner, task>>: what runners were ever sent         *)
(*   changed   the ids a method returns, for its caller to persist         *)
(*                                                                         *)
(* Left out: prompts, logs, models, memories and skills; the Prefer::      *)
(* Fastest tie break; more than one repository; a task leaving the budget's *)
(* 24 h window; the executor a retry may ask for, as Able has one set of   *)
(* tasks per runner.  Every completed run costs 1, and a runner has the    *)
(* same slots, executors and capabilities in every hello it makes.         *)
(***************************************************************************)
EXTENDS TaskRules, Integers, FiniteSets, Sequences

CONSTANTS
  Runner,     \* runner names: numbers, in the order of the names
  NoRunner,   \* None
  Slots,      \* Slots[r]: RunnerInfo.slots
  Able,       \* Able[r]: the tasks whose executor and requirements r has
  PinnedTo,   \* PinnedTo[t]: TaskSpec.runner as created
  Steps,      \* Steps[t]: the tasks the plan t produces, in step order; <<>> for a run
  Reassign,   \* the [policy] reassign that a completed run reports
  Budget,     \* the [policy] budget_daily_usd that a completed run reports
  QueueWithoutRunners  \* State.queue_without_runners: provisioning is on

\* Task ids are numbers too, in the order of the id strings.
Last == Cardinality(Task)
ASSUME TasksAreNumbers == IsFiniteSet(Task) /\ Task = 1..Last
ASSUME RunnersAreNumbers ==
  Runner \subseteq Nat /\ IsFiniteSet(Runner) /\ NoRunner \notin Runner
ASSUME ParametersAreTyped ==
  /\ Slots \in [Runner -> Nat]
  /\ Able \in [Runner -> SUBSET Task]
  /\ PinnedTo \in [Task -> Runner \union {NoRunner}]
  /\ Steps \in [Task -> Seq(Task)]
  /\ Reassign \in Nat
  /\ Budget \in Nat
  /\ QueueWithoutRunners \in BOOLEAN

\* A task can only depend on tasks that existed before it.  Ids are drawn at
\* random, so that order is not the order of the ids.
ASSUME DepsAreOlder ==
  \E age \in [Task -> Task] : \A t \in Task : \A d \in Deps[t] : age[d] < age[t]

\* What a plan creates: runs of its own, each depending on its other steps alone.
StepsOf(p) == {Steps[p][i] : i \in 1..Len(Steps[p])}
ASSUME StepsAreOwn ==
  \A p \in Task : \A t \in StepsOf(p) :
    /\ Steps[t] = <<>>
    /\ Deps[t] \subseteq StepsOf(p)
    /\ \A q \in Task \ {p} : t \notin StepsOf(q)

\* Tasks that only a plan creates.
Children == UNION {StepsOf(p) : p \in Task}

\* What the record of all tables may hold.
Tables ==
  [created  : Seq(Task),
   status   : [Task -> Status \union {"absent"}],
   runner   : [Task -> Runner \union {NoRunner}],
   pin      : [Task -> Runner \union {NoRunner}],
   result   : [Task -> BOOLEAN],
   requeued : [Task -> Nat],
   link     : [Runner -> {"absent", "grace", "connected"}],
   running  : [Runner -> SUBSET Task],
   asked    : SUBSET ({"run", "push", "discard"} \X Runner \X Task),
   changed  : SUBSET Task]

-----------------------------------------------------------------------------
\* Who may run what.

IsConnected(s, r) == s.link[r] = "connected"

FreeSlots(s, r) ==
  LET taken == Cardinality(s.running[r])
  IN  IF taken < Slots[r] THEN Slots[r] - taken ELSE 0

\* Mutant of CanRun: one task too many.
CanRunOneOver(s, r, t) ==
  IsConnected(s, r) /\ Cardinality(s.running[r]) <= Slots[r] /\ t \in Able[r]

CanRun(s, r, t) == IsConnected(s, r) /\ FreeSlots(s, r) > 0 /\ t \in Able[r]

\* Mutant of IsReady: dependencies are not looked at.
IsReadyEarly(s, t) == s.status[t] = "queued" /\ s.runner[t] = NoRunner

IsReady(s, t) == s.status[t] = "queued" /\ s.runner[t] = NoRunner /\ DepsMetIn(t, s.status)

\* The most free slots, ties by the lowest name; NoRunner when none can.
CandidateExcluding(s, t, exclude) ==
  LET fit == {r \in Runner : /\ CanRun(s, r, t)
                             /\ s.pin[t] \in {NoRunner, r}
                             /\ r # exclude}
      Before(a, b) == \/ FreeSlots(s, a) > FreeSlots(s, b)
                      \/ FreeSlots(s, a) = FreeSlots(s, b) /\ a < b
  IN  IF fit = {} THEN NoRunner
      ELSE CHOOSE r \in fit : \A other \in fit \ {r} : Before(r, other)

Candidate(s, t) == CandidateExcluding(s, t, NoRunner)

\* Whether a task pinned to `pin` could ever run.
CheckEligible(s, t, pin) ==
  /\ \A d \in Deps[t] : s.status[d] # "absent"
  /\ IF pin # NoRunner
     THEN IsConnected(s, pin) /\ t \in Able[pin]
     ELSE QueueWithoutRunners \/ \E r \in Runner : IsConnected(s, r) /\ t \in Able[r]

OverDailyBudget(s) ==
  LET spent == {t \in Task : s.result[t]}
  IN  spent # {} /\ Cardinality(spent) > Budget

-----------------------------------------------------------------------------
\* `schedule`: every ready task, oldest first, to its candidate if it has one.
\* Assigning one task does not make another ready or unready, so each is looked at
\* when its turn comes.

AssignNext(s, t) ==
  LET r == Candidate(s, t)
  IN  IF OverDailyBudget(s) \/ r = NoRunner THEN s
      ELSE [s EXCEPT !.runner[t]  = r,
                     !.running[r] = @ \union {t},
                     !.asked      = @ \union {<<"run", r, t>>},
                     !.changed    = @ \union {t}]

Offer(s, t) == IF IsReady(s, t) THEN AssignNext(s, t) ELSE s

\* The tables after each of the tasks has been offered.
Offered(s) ==
  LET after[k \in 0..Len(s.created)] ==
        IF k = 0 THEN s ELSE Offer(after[k - 1], s.created[k])
  IN  after

Schedule(s) == Offered(s)[Len(s.created)]

-----------------------------------------------------------------------------
\* `apply_event`, in the parts the code has: it records the event, which moves the
\* status and may free a slot, then tells the tasks that wait on this one.

\* The event is in the log and the status has moved.
Noted(s, t, e) ==
  [s EXCEPT !.status[t]   = Transition(@, e),
            !.result[t]   = @ \/ (e = "completed" /\ ~IsTerminal(s.status[t])),
            !.requeued[t] = IF e = "requeued" THEN @ + 1 ELSE @,
            !.changed     = @ \union {t}]

\* The run is over and its runner still counted it.
FreesSlot(s, t, e) ==
  /\ Finished(e)
  /\ s.runner[t] # NoRunner
  /\ t \in s.running[s.runner[t]]

Freed(s, t) == [s EXCEPT !.running[s.runner[t]] = @ \ {t}]

\* Mutant of Recorded: a freed slot is not offered to waiting tasks.
RecordedNoOffer(s, t, e) ==
  IF FreesSlot(s, t, e) THEN Freed(Noted(s, t, e), t) ELSE Noted(s, t, e)

Recorded(s, t, e) ==
  IF FreesSlot(s, t, e) THEN Schedule(Freed(Noted(s, t, e), t)) ELSE Noted(s, t, e)

\* A fresh attempt for a task that ended badly, pinned to `into` when one is given.
\* Refused (s unchanged) when the task could not run again.
RetrySpecOk(s, t, into) ==
  /\ s.status[t] \in Retryable
  /\ CheckEligible(s, t, IF into # NoRunner THEN into ELSE s.pin[t])

\* Mutant of Requeue: the assignment of the old attempt is kept.
RequeueInPlace(s, t, into) ==
  [Noted(s, t, "requeued") EXCEPT !.pin[t]    = IF into # NoRunner THEN into ELSE @,
                                  !.status[t] = "queued"]

\* Recording Requeued on an ended task moves and frees nothing.
Requeue(s, t, into) ==
  [Noted(s, t, "requeued") EXCEPT !.pin[t]    = IF into # NoRunner THEN into ELSE @,
                                  !.status[t] = "queued",
                                  !.runner[t] = NoRunner]

Retry(s, t, into) == Schedule(Requeue(s, t, into))

\* A lost run always gets one more try with no policy on record; a failed or
\* timed-out one only what a completed run declared.
MaybeReassign(s, t, ended) ==
  LET allowed == IF s.result[t] THEN Reassign
                 ELSE IF ended = "runner_lost" THEN 1 ELSE 0
      other   == CandidateExcluding(s, t, s.runner[t])
  IN  IF s.requeued[t] < allowed /\ RetrySpecOk(s, t, other)
      THEN Retry(s, t, other)
      ELSE s

\* Only the move itself, not a late event repeating it, reaches other tasks.
\* fails[<<x, d>>] are the tables x after the dependents of d have failed.
ApplyEventWith(s, t, e, fails) ==
  LET now  == Transition(s.status[t], e)
      next == Recorded(s, t, e)
  IN  IF IsTerminal(s.status[t]) THEN next
      ELSE CASE now \in {"failed", "timed_out", "runner_lost"} ->
                  MaybeReassign(fails[<<next, t>>], t, now)
             [] now \in {"cancelled", "rejected"} -> fails[<<next, t>>]
             [] now \in {"approved", "awaiting_review"} -> Schedule(next)
             [] OTHER -> next

\* Mutant of FailDependents: one level of dependents, not theirs.
FailDependentsOnce(s, d, fails) ==
  [s EXCEPT !.status = [t \in Task |-> IF @[t] = "queued" /\ d \in Deps[t]
                                       THEN "failed" ELSE @[t]]]

\* Every queued task waiting on d fails, in id order; each fails its own
\* dependents by `fails`.
Failing(s, d, fails) ==
  LET blocked == {t \in Task : s.status[t] = "queued" /\ d \in Deps[t]}
      after[k \in 0..Last] ==
        IF k = 0 THEN s
        ELSE IF k \in blocked THEN ApplyEventWith(after[k - 1], k, "failed", fails)
        ELSE after[k - 1]
  IN  after

FailDependents(s, d, fails) == Failing(s, d, fails)[Last]

\* fail_dependents and apply_event call each other; Cascade[n] goes n levels of
\* dependents deep, and no chain of dependents is longer than there are tasks.
Cascade[n \in Nat] ==
  [x \in Tables \X Task |->
     IF n = 0 THEN x[1] ELSE FailDependents(x[1], x[2], Cascade[n - 1])]

ApplyEvent(s, t, e) == ApplyEventWith(s, t, e, Cascade[Last])

-----------------------------------------------------------------------------
\* Runners coming and going.

LoseUnfinished(s, t) == IF IsTerminal(s.status[t]) THEN s ELSE ApplyEvent(s, t, "runner_lost")

\* The code walks a HashSet: `order` is any order of its elements.
Losing(s, order) ==
  LET after[k \in 0..Len(order)] ==
        IF k = 0 THEN s ELSE LoseUnfinished(after[k - 1], order[k])
  IN  after

LoseAll(s, order) == Losing(s, order)[Len(order)]

\* Whether a task a reconnecting runner reports is still its to run.
StillRunning(s, t, r) ==
  \/ s.status[t] = "running"
  \/ s.status[t] = "queued" /\ s.runner[t] = r

Restored(s, r, reported) == {t \in reported : StillRunning(s, t, r)}

\* Mutant of RunnerHello: what the runner no longer has is forgotten.
RunnerHelloForgets(s, r, reported, order) ==
  Schedule([s EXCEPT !.link[r] = "connected",
                     !.running[r] = Restored(s, r, reported)])

\* Registers r with the tasks it reports; `order` is over what it no longer has.
RunnerHello(s, r, reported, order) ==
  Schedule(LoseAll([s EXCEPT !.link[r] = "connected",
                             !.running[r] = Restored(s, r, reported)], order))

\* Mutant of RemoveRunner: the runner's set of tasks stays.
RemoveRunnerKeepsTasks(s, r, order) == LoseAll([s EXCEPT !.link[r] = "absent"], order)

\* Forgets r first and loses what it had afterwards.
RemoveRunner(s, r, order) ==
  LoseAll([s EXCEPT !.link[r] = "absent", !.running[r] = {}], order)

-----------------------------------------------------------------------------
\* Plans.

\* One queued task per step, in step order.
CreateChildren(s, p) ==
  [s EXCEPT !.created = @ \o Steps[p],
            !.status  = [t \in Task |-> IF t \in StepsOf(p) THEN "queued" ELSE @[t]],
            !.pin     = [t \in Task |-> IF t \in StepsOf(p) THEN s.pin[p] ELSE @[t]],
            !.changed = @ \union StepsOf(p)]

\* The plan is approved directly: there is no branch to push.
ApprovePlan(s, p) ==
  Schedule([CreateChildren(s, p) EXCEPT !.status[p] = "approved",
                                        !.changed   = @ \union {p}])

=============================================================================
