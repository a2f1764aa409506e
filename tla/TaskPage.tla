------------------------------- MODULE TaskPage -------------------------------
(***************************************************************************)
(* The page of one task: the copy of the task it shows, the box for a      *)
(* follow-up with the two review decisions, and the panel that retries a   *)
(* task that ended badly.  Transcript draws the copy's events.             *)
(*                                                                         *)
(* The page shows a copy of the task.  It is loaded on arrival, after the  *)
(* page's own calls, and every POLL_MS while the copy is queued or         *)
(* running.  A task seen before is shown as it was until the load is done. *)
(*                                                                         *)
(* The router is a library.  `router.invalidate()` is over before the data *)
(* is there: the task on screen is loaded in the background, and while its *)
(* loader runs another invalidate may join it or have it asked again, so   *)
(* what is `coming` is read any number of times before it lands.  A loader *)
(* that fails has an error in place of the page: the interval is gone, and *)
(* nothing on the error asks again; another action's invalidate does, or a *)
(* navigation.  A first visit waits for its load; when that fails, the     *)
(* person is on an error, which is like having left.                       *)
(*                                                                         *)
(* The composer is one component whatever task it shows, so a follow-up    *)
(* half written and an armed Reject go along from one task to another; the *)
(* retry panel belongs to its task.                                        *)
(*                                                                         *)
(* The statuses and what events do to them are those of TaskRules.         *)
(***************************************************************************)
EXTENDS TaskRules, Naturals, Sequences

CONSTANTS
  Runner,
  Executor,
  SpecRunner,   \* TaskSpec.runner as the tasks were created, or Unset
  SpecExecutor, \* TaskSpec.executor likewise
  Lists,        \* lists of runners the panel may load: name -> executors
  Unset,
  Nowhere,      \* no task page is open
  Talk,         \* the kinds of events that say nothing of the status
  MaxEvents,    \* bound: stored events, of all tasks together
  MaxCalls,     \* bound: calls the page makes
  MaxFaults     \* bound: calls refused, cut off or whose answer is lost, failed loads

ASSUME PagesAreTyped ==
  /\ SpecRunner \in [Task -> Runner \cup {Unset}]
  /\ SpecExecutor \in [Task -> Executor]
  /\ \A l \in Lists : DOMAIN l \subseteq Runner /\ \A r \in DOMAIN l : l[r] \subseteq Executor
  /\ Talk \subseteq {"progress", "command", "file_changed", "output"}
  /\ Nowhere \notin Task /\ Unset \notin Runner \cup Executor
  /\ MaxEvents \in Nat /\ MaxCalls \in Nat /\ MaxFaults \in Nat

VARIABLES
  task,       \* the orchestrator's record of each task
  ordered,    \* what each task's runner was told to do with its branch
  shown,      \* the router's copy of each task, <<>> when it has none
  coming,     \* what the loader of a task has read, <<>> when none runs
  page,       \* the task on screen
  text,       \* something is written in the box
  armed,      \* Reject was pressed once
  pending,    \* the action under way
  calls,      \* calls of the page
  panel,      \* RetryPanel's state, or Unset
  said, made, faults

vars == <<task, ordered, shown, coming, page, text, armed, pending, calls, panel,
          said, made, faults>>

server == <<task, ordered, said>>
copies == <<shown, coming>>
counts == <<made, faults>>
composer == <<text, armed, pending>>

TaskRecord == [status : Status, events : Seq(Event \cup Talk),
               runner : Runner \cup {Unset}, executor : Executor]
Panel == [runners : Lists \cup {<<>>}, runnerName : Runner \cup {Unset},
          executor : Executor \cup {Unset}, pending : BOOLEAN]
Call == [task : Task, kind : {"follow-up", "approve", "reject", "retry"},
         runner : Runner \cup {Unset}, executor : Executor \cup {Unset},
         phase : {"sent", "stored", "refused"}]

Init ==
  /\ task = [t \in Task |-> [status |-> "queued", events |-> <<>>,
                             runner |-> SpecRunner[t], executor |-> SpecExecutor[t]]]
  /\ ordered = [t \in Task |-> {}]
  /\ shown = [t \in Task |-> <<>>] /\ coming = [t \in Task |-> <<>>]
  /\ page = Nowhere /\ text = FALSE /\ armed = FALSE /\ pending = Unset
  /\ calls = {} /\ panel = Unset
  /\ said = 0 /\ made = 0 /\ faults = 0

-----------------------------------------------------------------------------
(* The orchestrator and the runner, as far as a task's page tells.         *)

Becomes(t, status, e) ==
  task' = [task EXCEPT ![t].status = status, ![t].events = Append(@, e)]

\* Something is stored for a task.
Stores(n) == said + n <= MaxEvents /\ said' = said + n

Expected(st) ==
  CASE st = "queued"                        -> {"started", "cancelled"}
    [] st = "changes_requested"             -> {"started", "runner_lost"}
    [] st = "running"                       -> {"completed", "failed", "runner_lost"}
    [] OTHER                                -> {}

Report(t) ==
  /\ Stores(1)
  /\ \E e \in Expected(task[t].status) : Becomes(t, Transition(task[t].status, e), e)
  /\ UNCHANGED <<ordered, copies, page, composer, calls, panel, counts>>

Says(t) ==
  /\ Stores(1) /\ task[t].status = "running"
  /\ \E e \in Talk : Becomes(t, "running", e)
  /\ UNCHANGED <<ordered, copies, page, composer, calls, panel, counts>>

\* The runner did with the branch what it was told.
Obeys(t) ==
  /\ Stores(1)
  /\ \E o \in ordered[t] :
       /\ ordered' = [ordered EXCEPT ![t] = @ \ {o}]
       /\ \E e \in IF o = "push" THEN {"pushed", "conflicted"} ELSE {"discarded"} :
            Becomes(t, Transition(task[t].status, e), e)
  /\ UNCHANGED <<copies, page, composer, calls, panel, counts>>

-----------------------------------------------------------------------------
(* Loading.                                                                *)

Retriable(t) == shown[t] # <<>> /\ shown[t].status \in Retryable

Fresh == [runners |-> <<>>, runnerName |-> Unset, executor |-> Unset, pending |-> FALSE]

\* RetryPanel is there while the task on screen can be retried, `keyed` by it.
Panels(p, same) ==
  IF p = Nowhere THEN Unset
  ELSE IF shown'[p] = <<>> \/ shown'[p].status \notin Retryable THEN Unset
  ELSE IF same /\ panel # Unset THEN panel ELSE Fresh

\* A loader of the task begins, unless one runs.
Fetches(t) ==
  coming' = IF coming[t] = <<>> THEN [coming EXCEPT ![t] = task[t]] ELSE coming

\* `invalidate`: the task on screen, its error included, is loaded again.
Invalidate == IF page = Nowhere THEN UNCHANGED coming ELSE Fetches(page)

\* A navigation, a link under the pointer, another action's invalidate.
Reload(t) ==
  /\ coming[t] = <<>>
  /\ Fetches(t)
  /\ UNCHANGED <<server, shown, page, composer, calls, panel, counts>>

\* The loader reads the task later than it was asked, or is asked again.
Read(t) ==
  /\ coming[t] \notin {<<>>, task[t]}
  /\ coming' = [coming EXCEPT ![t] = task[t]]
  /\ UNCHANGED <<server, shown, page, composer, calls, panel, counts>>

Land(t) ==
  /\ coming[t] # <<>>
  /\ shown' = [shown EXCEPT ![t] = coming[t]]
  /\ coming' = [coming EXCEPT ![t] = <<>>]
  /\ panel' = Panels(page, TRUE)
  /\ UNCHANGED <<server, page, composer, calls, counts>>

\* On screen, the page gives way to an error.
LoadFails(t) ==
  /\ coming[t] # <<>> /\ faults < MaxFaults /\ faults' = faults + 1
  /\ shown' = [shown EXCEPT ![t] = <<>>]
  /\ coming' = [coming EXCEPT ![t] = <<>>]
  /\ panel' = Panels(page, TRUE)
  /\ IF page = t THEN text' = FALSE /\ armed' = FALSE /\ pending' = Unset
     ELSE UNCHANGED composer
  /\ UNCHANGED <<server, page, calls, made>>

Live(t) == shown[t] # <<>> /\ shown[t].status \in {"queued", "running"}

\* Mutant of Polling: a queued task is not waited for.
PollingRunning == page # Nowhere /\ Live(page) /\ shown[page].status = "running"

\* The interval is set while the copy is queued or running.
Polling == page # Nowhere /\ Live(page)

Poll ==
  /\ Polling /\ coming[page] = <<>>
  /\ Invalidate
  /\ UNCHANGED <<server, shown, page, composer, calls, panel, counts>>

\* With the copy a navigation waited for, or one from before.  From another task the
\* composer stays mounted.
Open(t) ==
  /\ page # t /\ shown[t] # <<>>
  /\ page' = t
  /\ UNCHANGED copies
  /\ panel' = Panels(t, FALSE)
  /\ IF page = Nowhere THEN text' = FALSE /\ armed' = FALSE /\ pending' = Unset
     ELSE UNCHANGED composer
  /\ UNCHANGED <<server, calls, counts>>

Leave ==
  /\ page # Nowhere /\ page' = Nowhere
  /\ text' = FALSE /\ armed' = FALSE /\ pending' = Unset /\ panel' = Unset
  /\ UNCHANGED <<server, copies, calls, counts>>

-----------------------------------------------------------------------------
(* TaskComposer.                                                           *)

\* The page, and not an error in its place.
OnPage == page # Nowhere /\ shown[page] # <<>>

Reviewable == OnPage /\ shown[page].status \in {"awaiting_review", "conflicted"}
Respondable == Reviewable \/ (OnPage /\ shown[page].status = "changes_requested")

NewCall(kind, r, e) ==
  /\ made < MaxCalls /\ made' = made + 1
  /\ calls' = calls \cup {[task |-> page, kind |-> kind, runner |-> r, executor |-> e,
                           phase |-> "sent"]}

Type ==
  /\ Respondable /\ pending = Unset /\ text' = ~text
  /\ armed' = FALSE
  /\ UNCHANGED <<server, copies, page, pending, calls, panel, counts>>

\* `run`: one action at a time, and starting one disarms Reject.
Run(kind) ==
  /\ pending = Unset /\ pending' = kind /\ armed' = FALSE
  /\ NewCall(kind, Unset, Unset)
  /\ UNCHANGED <<server, copies, page, text, panel, faults>>

SendFollowUp == Respondable /\ text /\ Run("follow-up")
Approve == Reviewable /\ Run("approve")

\* `reject`: the first press arms.
Reject ==
  /\ Reviewable /\ pending = Unset
  /\ IF armed THEN Run("reject")
     ELSE /\ armed' = TRUE
          /\ UNCHANGED <<server, copies, page, text, pending, calls, panel, counts>>

\* A pointer elsewhere, Escape or the timeout.
Disarm ==
  /\ armed /\ armed' = FALSE
  /\ UNCHANGED <<server, copies, page, text, pending, calls, panel, counts>>

-----------------------------------------------------------------------------
(* RetryPanel.                                                             *)

InPanel ==
  /\ panel # Unset /\ ~panel.pending
  /\ UNCHANGED <<server, copies, page, composer, faults>>

RunnersOf(p) == DOMAIN p.runners

\* `getRunners`, or nothing when it fails.
LoadRunners ==
  /\ InPanel /\ panel.runners = <<>>
  /\ \E l \in Lists : panel' = [panel EXCEPT !.runners = l]
  /\ UNCHANGED <<calls, made>>

\* `routedRunner`: the one picked, else the one the task is pinned to.
Routed(p, t) == IF p.runnerName # Unset THEN p.runnerName ELSE t.runner
EffectiveExecutor(p, t) == IF p.executor # Unset THEN p.executor ELSE t.executor

\* `compatibleExecutors`.
Compatible(p, t) ==
  IF Routed(p, t) \in RunnersOf(p) THEN p.runners[Routed(p, t)]
  ELSE UNION {p.runners[r] : r \in RunnersOf(p)}

\* `retryCompatible`.
RetryCompatible(p, t) ==
  Routed(p, t) \in RunnersOf(p) => EffectiveExecutor(p, t) \in p.runners[Routed(p, t)]

RunnerChoices(p, t) == {r \in RunnersOf(p) : r # t.runner /\ p.runners[r] # {}}

\* Mutant of ChangeRunner: the executor stays.
ChangeRunnerOnly(r) ==
  /\ InPanel /\ r \in RunnerChoices(panel, shown[page]) \cup {Unset}
  /\ RunnerChoices(panel, shown[page]) # {}
  /\ panel' = [panel EXCEPT !.runnerName = r]
  /\ UNCHANGED <<calls, made>>

\* `changeRunner`: an executor the machine lacks gives way to its first.
ChangeRunner(r) ==
  /\ InPanel /\ r \in RunnerChoices(panel, shown[page]) \cup {Unset}
  /\ RunnerChoices(panel, shown[page]) # {}
  /\ LET picked   == [panel EXCEPT !.runnerName = r]
         selected == Routed(picked, shown[page])
     IN  IF RetryCompatible(picked, shown[page]) THEN panel' = picked
         ELSE IF panel.runners[selected] = {}
         THEN panel' = [picked EXCEPT !.executor = Unset]
         ELSE \E e \in panel.runners[selected] : panel' = [picked EXCEPT !.executor = e]
  /\ UNCHANGED <<calls, made>>

\* `changeExecutor`: "same" only where the machine has it.
ChangeExecutor(e) ==
  /\ InPanel
  /\ Compatible(panel, shown[page]) \ {shown[page].executor} # {}
  /\ IF e = Unset THEN shown[page].executor \in Compatible(panel, shown[page])
     ELSE e \in Compatible(panel, shown[page]) \ {shown[page].executor}
  /\ panel' = [panel EXCEPT !.executor = e]
  /\ UNCHANGED <<calls, made>>

Retry ==
  /\ InPanel /\ RetryCompatible(panel, shown[page])
  /\ panel' = [panel EXCEPT !.pending = TRUE]
  /\ NewCall("retry", panel.runnerName, panel.executor)

-----------------------------------------------------------------------------
(* The orchestrator takes the calls.                                       *)

Accepts(k) ==
  IF k.kind = "retry" THEN task[k.task].status \in Retryable
  ELSE task[k.task].status \in {"awaiting_review", "conflicted"}

Or(a, b) == IF a = Unset THEN b ELSE a

\* The handlers behind the four calls.
Handle(k) ==
  CASE k.kind = "follow-up" ->
         Stores(1) /\ Becomes(k.task, "changes_requested", "message") /\ UNCHANGED ordered
    [] k.kind = "retry" ->
         /\ Stores(1) /\ UNCHANGED ordered
         /\ task' = [task EXCEPT ![k.task] =
              [status |-> "queued", events |-> Append(@.events, "requeued"),
               runner |-> Or(k.runner, @.runner), executor |-> Or(k.executor, @.executor)]]
    [] OTHER ->
         /\ ordered' = [ordered EXCEPT ![k.task] =
                          @ \cup {IF k.kind = "approve" THEN "push" ELSE "discard"}]
         /\ UNCHANGED <<task, said>>

Advance(k, phase) == calls' = (calls \ {k}) \cup {[k EXCEPT !.phase = phase]}

\* `heard`: the page gets the answer.
Serve(k, heard) ==
  /\ k.phase = "sent" /\ Accepts(k) /\ Handle(k)
  /\ Advance(k, IF heard THEN "stored" ELSE "refused")
  /\ ~heard => faults < MaxFaults
  /\ faults' = IF heard THEN faults ELSE faults + 1
  /\ UNCHANGED <<copies, page, composer, panel, made>>

\* Refused for the status, or (a fault) for the runner or the connection.
Refuse(k) ==
  /\ k.phase = "sent"
  /\ Accepts(k) => faults < MaxFaults
  /\ faults' = IF Accepts(k) THEN faults + 1 ELSE faults
  /\ Advance(k, "refused")
  /\ UNCHANGED <<server, copies, page, composer, panel, made>>

\* The answer: what is on screen is to be loaded again, the action is released
\* meanwhile, and the follow-up's words go.
Return(k) ==
  /\ k.phase \in {"stored", "refused"}
  /\ calls' = calls \ {k}
  /\ IF k.phase = "stored" THEN Invalidate ELSE UNCHANGED coming
  /\ IF k.kind = "retry"
     THEN UNCHANGED composer
     ELSE /\ pending' = IF pending = k.kind THEN Unset ELSE pending
          /\ text' = IF k.kind = "follow-up" /\ k.phase = "stored" /\ pending = k.kind
                     THEN FALSE ELSE text
          /\ UNCHANGED armed
  /\ panel' = IF panel # Unset /\ k.kind = "retry" /\ k.task = page
              THEN [panel EXCEPT !.pending = FALSE] ELSE panel
  /\ UNCHANGED <<server, shown, page, counts>>

Next ==
  \/ \E t \in Task : Report(t) \/ Says(t) \/ Obeys(t) \/ Reload(t) \/ Open(t)
                   \/ Read(t) \/ Land(t) \/ LoadFails(t)
  \/ Poll \/ Leave
  \/ Type \/ SendFollowUp \/ Approve \/ Reject \/ Disarm
  \/ LoadRunners \/ Retry
  \/ \E r \in Runner \cup {Unset} : ChangeRunner(r)
  \/ \E e \in Executor \cup {Unset} : ChangeExecutor(e)
  \/ \E k \in calls : \/ \E heard \in BOOLEAN : Serve(k, heard)
                      \/ Refuse(k) \/ Return(k)

\* The interval fires for as long as the page is there, a loader comes back, or
\* fails, and calls are answered.
Fairness ==
  /\ WF_vars(Poll)
  /\ \A t \in Task : WF_vars(Land(t))
  /\ WF_vars(\E k \in calls : Serve(k, TRUE) \/ Refuse(k) \/ Return(k))

Spec == Init /\ [][Next]_vars /\ Fairness

-----------------------------------------------------------------------------

TypeOK ==
  /\ task \in [Task -> TaskRecord]
  /\ ordered \in [Task -> SUBSET {"push", "discard"}]
  /\ shown \in [Task -> TaskRecord \cup {<<>>}]
  /\ coming \in [Task -> TaskRecord \cup {<<>>}]
  /\ page \in Task \cup {Nowhere}
  /\ {text, armed} \subseteq BOOLEAN
  /\ pending \in {"follow-up", "approve", "reject", Unset}
  /\ calls \subseteq Call
  /\ panel \in Panel \cup {Unset}
  /\ panel # Unset => page # Nowhere /\ Retriable(page)
  /\ said \in 0 .. MaxEvents /\ made \in 0 .. MaxCalls /\ faults \in 0 .. MaxFaults

\* A page that shows a task at work comes to show that the work has ended, unless a
\* load fails meanwhile: then it is an error that stands there, and stays.
PollingSeesTheEnd ==
  \A t \in Task :
    page = t /\ Live(t) /\ task[t].status \notin {"queued", "running"} ~>
      \/ page # t \/ shown[t] = <<>>
      \/ ~Live(t) \/ task[t].status \in {"queued", "running"}

\* As far as the panel's list tells, the machine picked can run the task.
PickFits(p, t) == p = Unset \/ p.runnerName = Unset \/ RetryCompatible(p, t)

\* Whatever is picked, in whatever order, a machine that is picked can run the task.
\* Only a newer copy of the task, with another executor, can undo that under the
\* panel: a retry that was believed lost was taken.
PickedMachineCanRun ==
  [][page = page' /\ page # Nowhere /\ PickFits(panel, shown[page]) =>
       PickFits(panel, shown[page])' \/ shown[page].executor # shown'[page].executor]_vars

=============================================================================
