# LGTM in TLA+

LGTM queues coding tasks on an orchestrator, runs each with an agent on a
runner, shows a person the result, and on approval pushes the branch and opens
a pull request. People work with it through a web application. This directory
models the orchestrator's task handling and its chats, the runner's process, and
the pages of the web application that keep state; it checks them with TLC, and
proves most of their safety with TLAPS.

Names in `TaskRules`, `TaskLifecycle`, `State`, `Orchestrator`, `RunnerRegistry`
and `AgentRun` are of the Rust code under `src/crates`, mostly `orchestrator/src`;
those in the other modules are of the TypeScript under `src/apps/web/src`, and of
`orchestrator/src/api` where a page's calls arrive. The line each definition
models is in `PROJECT.json`, `map`.

## The system

| Part | State it keeps | Operations | Talks to |
|---|---|---|---|
| Task table (`state.rs`, `commands.rs`, `plan.rs`) | tasks with status, runner, spec, result, event log | create, approve, reject, message, cancel, retry, merge, `apply_event`, `schedule` | runner table, writer |
| Runner table (`runner.rs`) | per name: `running` set, socket, generation | hello, disconnect, expire, goodbye | task table |
| Runner sockets (`runner_ws.rs`) | a read loop and a writer per socket, sleeping grace timers | first frame, frames, end of socket, timer | both tables, under one mutex |
| Persistence (`persist.rs`, `lib.rs`) | a queue to one writer thread, files per task, event log | `persist_ids`, load and repair at start | disk |
| Policy (`policy.rs`) | none | decide on approval and merge | task table |
| Pull requests (`github.rs`) | pull request, CI, review of a task | open, poll, merge | GitHub, task table |
| Agent (`agent/src`) | map of runs to cancel senders, events not yet sent, worktrees | start, follow up, cancel, push, discard | its socket, the executor process |
| Inference (`infer.rs`) | outstanding calls | ask, answer, time out | agents |
| Goals (`orchestrate.rs`) | goals, the set with a loop running | wake on the end of a run, ask a model | task table through the API |
| Chats (`api/chats.rs`) | threads, permits, a spawned task per question | ask, answer, restart | agents, the chat page |
| Todos, projects, batches | records | edit, hand over to tasks | task table, their pages |
| Provisioning (`provision.rs`) | none of its own | ask for a machine | cloud |
| Document pages (`routes/scratchpads_.$id`, `skills_.$id`, `todos_.$id`, `markdown-editor`) | the text in the editor, per mounted page the refs of `save` | type, pause, blur, unmount, PATCH, delete | the orchestrator, the router's cache |
| Rows and their actions (`use-action`, `use-armed-confirm` and the rows that use them) | drafts, menus, the armed Delete, the pending action | edit, approve, move, rename, tag, archive, delete | the orchestrator, which agents write too |
| Chat page (`routes/chats.$id`, `workspace-chat`) | box, busy flag, the copy of a thread | ask, brief, poll, switch chat | chats |
| New-task page (`routes/index`, `model-selector`) | model, efforts, runner, branch, project, box | choose, type, ask, enhance, submit | the orchestrator, local storage |
| Task page (`routes/tasks.$id`, `task-composer`, `task-transcript`) | the copy of a task, box, armed Reject, retry panel | poll, approve, reject, follow up, retry | task table |
| Task list and sidebar (`task-triage`, `app-sidebar`, `time-ago`) | copies of the lists, folds, one shared interval | load, fold, expand, add | the orchestrator, local storage |

What is hard in it. Every method of `State` runs under one mutex, so it is
atomic; what is not is everything between two of them. A runner reports late,
twice, from a second socket, or on a task that was moved to another runner.
Timers are never cancelled. `apply_event` calls `schedule`, `fail_dependents`
and `maybe_reassign`, which call it again. The process stops with its memory and
starts from what the handlers passed to the writer. A person, the policy, a
batch and the orchestration loop may all act on one task.

In the web application every handler runs to its first `await` undisturbed, and
everything it read before may be old after: a component may be unmounted, show
another record, or have been pressed again; a call may have been stored although
its answer was lost; a copy may be of any earlier moment. Refs survive the page
they belong to in the promises that hold them. `PROJECT.json`, `hazards` lists
each of these at its line.

What makes the parts correct:

* task table: nothing runs before its dependencies; an ending stands; work never
  waits next to a runner that could take it; a dead task ends what waits on it;
* runner table: an assigned task is held by its runner, so losing one loses the
  other; slots are respected; a socket and a timer only act for the registration
  they belong to;
* persistence: what is on disk is what the handlers left;
* agent: every run ends in one event, whatever its way out; one that nobody can
  reach any more is stopping; the orchestrator never waits for what cannot come;
* chats: questions and answers alternate; every question is answered;
* document pages: nothing typed is lost in silence, nothing overtakes;
* rows: a row shows what it wrote, a draft survives a failure, a deletion was
  meant;
* new-task page: what is sent is what is shown, once; choices come back;
* task page: it comes to show how the task ended, and its feed only grows;
* lists: nothing that was loaded is out of reach, and folds stay;
* inference, goals, pull requests: see the plan.

## Modules

| Module | What it is |
|---|---|
| `TaskRules` | statuses, endings, dependency conditions, `transition` |
| `TaskLifecycle` | abstract specification: which status may follow which over one handler, and tasks handed out in dependency order |
| `State` | the methods of `State` as operators from state record to state record: scheduling, the event cascade, reassignment, hello and removal of runners, plans |
| `Orchestrator` | the state as variables; one action per API handler, runner frame, end of socket, timer and restart |
| `OrchestratorProperties` | what is checked of it, and `ImplementsLifecycle` |
| `MCOrchestrator` | constants for its configurations |
| `OrchestratorProofs` | its invariants, its step properties and the refinement, and the invariants of `TaskLifecycle`, proved |
| `RunnerRegistry` | runner sockets, conn ids, generations and grace timers, one step per critical section |
| `AgentRun` | one runner process: frames, runs, the event channel, its socket and its exit |
| `RunnerProofs` | the invariants of both and the registry's action property, proved |
| `Conversation` | chats: threads, the tasks that answer them, permits, restarts, and the page |
| `ConversationProofs` | its two invariants and its action property, proved |
| `DocumentPage` | the three pages that save a document while it is written |
| `DocumentPageProofs` | its two invariants and its action property, proved |
| `RowActions` | rows and pages that act on one record each; `MCRowActions` has the screens |
| `RowActionsProofs` | its invariant and its two action properties, proved |
| `NewTask` | the new-task page, its storage and its three calls; `MCNewTask` has the models |
| `NewTaskProofs` | its two invariants and its action property, proved |
| `TaskPage` | the page of a task over the task's own lifecycle |
| `Transcript` | the feed that page draws; `MCTaskPage` has the machines |
| `TaskPageProofs` | types, the retry panel and the feed, proved |
| `Listing` | which rows lists draw, and under which heading: pure operators |
| `Overview` | the lists and the sidebar that use them; `MCOverview` has the first lists |
| `OverviewProofs` | its two invariants and its action property, and what the operators of `Listing` do, proved |

`State` follows the code's loops as walks (`Offered`, `Failing` and `Losing` are the
tables after each round) and the recursion between `apply_event` and
`fail_dependents` by depth: `Cascade[n]` fails dependents down to the n-th level,
and `ApplyEvent` uses as many levels as there are tasks. That is deep enough
because a task is created only once what it depends on exists (`check_eligible`,
and `create_children` for the steps of a plan), so dependencies have no cycle:
assumption `DepsAreOlder`. `StepsAreOwn` says that the steps of a plan belong to it
alone, are runs, and depend on each other only, as `child_spec` makes them.

`Orchestrator` extends `State`, which extends `TaskRules`; `TaskLifecycle` also
extends `TaskRules`, and is instantiated with `handed` as the tasks any runner
was ever sent. `RunnerRegistry` looks into what `Orchestrator` takes as one
field, `link` (absent, in grace, connected). `AgentRun` stands by itself: what the
orchestrator knows of a task is one variable there, `desk`.
`TaskPage` extends `TaskRules`, so the statuses its page waits for and offers
actions on are those of `State`; `Transcript` extends it, and `Overview` extends
`Listing`. Each web module holds both sides of its calls: the record at the
orchestrator and the page's copy of it.

How state corresponds to the code: `status`, `runner`, `pin`, `result` are fields
of `Task` (`pin` is `spec.runner`, `result` only whether it is there); `requeued`
counts the `Requeued` events in the log; `created` is the order of `created_at`;
`running` and `link` are `RunnerConn.running` and `conn`; `disk` is what
`persist_ids` was last given of each task. `asked` is not in the code: it records
which frames were sent to whom, and so bounds what a runner may report. A state
record also carries `changed`, the ids a method returns for its caller to persist.

An agent is modelled as anything that may, once it has said hello to this process
and connected or not (`apply` does not look), report on a task it was once sent
any ending or start, any number of times, and list any such task in a hello.
`heard` has the runners that said hello since the start. This is more than an
agent does; what is checked holds of every agent, and each violation below was
compared with what the agent's code can send.

In `AgentRun`, `run` is one record per spawned `run_task`, `follow_up`, `push_task`
and `discard_task`. A sender in `Ctx.running` or `Ctx.interrupt` is the number of
the run that holds its receiver. `told` and `nudged` say that a sender was sent to
or dropped, which `wait_or_kill` cannot tell apart; `asked` is not in the code and
remembers which it was. `endings` counts the events that end a run. Git, the
checks, the executor and the policy's conditions are choices: each may succeed or
fail. A run chooses whether it is a plan, although that is fixed per task, and
so does more than the code. A task the runner does not hold is only `"none"` or
waiting for a person; an event on a task that moved to another runner is `State`'s
matter. Left out are terminals and inference, a refused hello, and a restart, from
which a process begins with empty maps. `Connect` assumes that a run gets from its
ending to `finished` within the 3 seconds of `RETRY`: otherwise a hello can list a
run whose ending was lost, and its slot stays taken until the next disconnect.

Left out of the orchestrator, and why it changes nothing checked here: prompts,
models, memories and diffs; more than one repository (the budget is per
repository); `Prefer::Fastest` (another tie break); frames that change no state
here (a cancel of a running task, interrupt, terminal). A completed run costs 1,
and every run reports the same policy, with `Reassign` and `Budget`; a task does
not age out of the budget's 24 hours. Two things are simplified: a retry that asks
for another executor (`RetryInto.executor`) keeps the task's own, so which runners
can take a task is fixed; and a runner has the slots, executors and capabilities
of its first hello in every later one.

The web modules share a shape. A call is a record with the visit or row it came
from and a phase: sent, served (with an answer that may be lost) or refused, and
answered. One action serves it, one lets the page go on after the `await`; what the
handler read before is in the record, what it reads afterwards is read from the
variables of that moment. `page` and `visit` say which component is mounted; an answer
to a page that is gone changes what the promise holds and nothing on screen.

Data comes to a page through the router, a library, modelled from how it is used.
`router.invalidate()` is awaited in many handlers, but resolves before the loaders of
routes already on screen have run again: these reload in the background. So in
`RowActions`, `Conversation` and `TaskPage` a handler only begins a load (`Invalidate`),
of what is on screen when it does, and goes on. The loader reads the record when it
begins; while it runs a second invalidate may join it or have it asked again, so
it may `Read` newer data any number of times; what it read last is put on screen by
`Land`. A load may also fail (`LoadFails`). The route's `errorComponent` then takes the
page's place, with its boxes, drafts and interval; it has no retry, so only a
navigation or an invalidate that somebody else asks for brings the page back. Only
the root's loader, which the sidebar is drawn from, has empty lists instead. In
`Overview` loads are apart from the presses too, and fail.

Where React keeps one component for several records (`todos_.$id`, `chats.$id`,
`task-composer`) the model keeps its state, and where the code gives a `key` it
starts anew. Texts are what tells them apart: a number for a text that replaces
another (`Conversation`, `NewTask`), the set of edits it holds for one that grows
(`DocumentPage`), a value of a small set in a row. Variables a comment calls
history are not in the code: they record what was typed, written, chosen or
touched, for a property to refer to.

In `DocumentPage`, `savers[v]` has the refs of the `save` of visit `v` (the text
parked, whether a call is under way) and the label it shows; `cached` is the
router's copy a page is drawn from before its load ends. In `RowActions` the rows
differ by four sets: memories confirm a delete with `useArmedConfirm`, todos and
documents in a menu, sidebar rows do not use `useAction` and have no Delete. In
`NewTask`, `listed` is the list of runners last loaded and `fleet` what there is
now. In `TaskPage`, `Report`, `Says` and `Obeys` are everything the orchestrator may
do to a task meanwhile. In `Overview`, `intervals` counts the intervals that run, and
`seen` what the clock said when each row last read it.

Definitions that a comment calls a mutant (`CanRunOneOver`, ...) are the plausible
mistakes each property was tried against. None is used by a specification.

## Runs

| Run | Configuration | Shows |
|---|---|---|
| `plan` | `MCPlan.cfg` | a plan with two dependent steps, one runner, one slot, one retry by a person; approval by person, policy or batch; 275 958 states |
| `chain` | `MCChain.cfg` | three tasks, each after the one before completed, one runner, a budget of one run, no reassignment but that of a lost run; 160 942 states |
| `handover` | `MCHandover.cfg` | one task, two runners, two retries, every run over budget; 42 043 states |
| `registry` | `MCRunnerRegistry.cfg` | two names, four sockets; 26 233 states |
| `agent` | `MCAgentRun.cfg` | one task, two runs, a retry, a fix and a review, one broken socket, an ephemeral runner of two tasks; 226 776 states |
| `cancel_persists` | `MCCancelPersists.cfg` | violates `DiskIsCurrent` |
| `document` | `MCDocumentPage.cfg` | a scratchpad and two todos, two edits, two visits, one fault; 182 976 states |
| `rows` | `MCRowActions.cfg` | a memory, a chat, a todo and a document, each by itself and written twice, a memory beside a todo, one fault; 142 439 states |
| `conversation` | `MCConversation.cfg` | two chats, one permit, two texts, a fault, a restart; 142 186 states |
| `newtask` | `MCNewTask.cfg` | two models, one runner, two visits, choices and presses, a change of the runner, a fault; 2 834 286 states |
| `taskpage` | `MCTaskPage.cfg` | one task, three machines, five events of three kinds, one call, one fault; 259 579 states |
| `overview` | `MCOverview.cfg` | two repositories, three tasks, two documents, a preview of one row, a window of one moment; 148 134 states |

Bounds. Two steps behind a plan, or a chain of three, are the least where a
cascade has a cascade of its own and where a freed slot has two takers. One slot
makes every second task wait; follow-ups and reported runs still fill it past
one. Two runners are the least where a task can move. `MaxRequeues` bounds only
retries by a person; automatic ones are bounded by the code. Restarts,
reconnects and late events are not bounded. Four sockets let one name connect,
leave, return, say goodbye and come back, or two names do half of that each.
Two runs of a task are the least where one replaces another in the map, and one
retry, fix and review the least where each loop is entered and left. One broken
socket loses any frame or event.
Two tasks on two runners exceed five minutes and are planned with the agents.

In the web modules a fault is a call that is refused, cut off, or stored with its
answer lost, or a load that fails; one is enough for a retry of what was already
done, and two add only repetition. `document`: two edits are the least where one
overtakes another or is parked behind it, two visits the least where one is left
with work under way; one keyed page and two todos have all three ways from page to
page. `rows`: the bound on writes is per row and leaves the case out where two
rows of the data differ in nothing but their names: a memory, a chat, a todo and a
document each by itself are written twice, the second an agent's write between a
row's write and its load; a memory that is written once stands beside a todo that
is only pressed, as rows meet only in what a press disarms. `conversation`: with
one permit two chats compete, and the second of two texts is asked while the first
is answered or waits for its permit. `newtask`: a second press and a second visit
are what must not queue twice or forget. `taskpage`: five events are a tool, its
output, something between, the end and one after it; with two machines, or with
one list, no copy of the task can contradict the panel, so there are three
machines and two lists, and the one call may be the retry that is believed lost.
`overview`: a preview of one row leaves the second to a button, three moves fold,
add and return, and with a clock of two moments and a window of none an outcome of
the earlier moment is out of view. Larger instances of the present models were
searched once and violated nothing: `chain` with a policy that reassigns (346 926
states), `rows` with a todo written beside a todo that is pressed (170 869),
`conversation` with three texts and a restart (2 956 224), and `taskpage` with
two calls and no follow-up (411 459). A larger `TaskPage` once did:
`PickedMachineCanRun` was then an
invariant, and is false when a retry believed lost was taken and gives the task on
screen another executor; it is now stated of the steps of the page.

Deadlock is not checked: with every task merged and all sockets used the models
stop, as the system may.

The properties, and what could break them:

* `DependenciesFirst`: a runner is never sent a task before what it depends on is
  approved (or merged), and that stands: not undone by a retry, a late event, or
  a restart. With the looser condition "completed" it need not stand, as a
  completed task may still be rejected, so it is exempt. Within one handler a
  task may even be started just before its dependency is lost: `remove_runner`
  loses run after run, and each frees a slot. So `TaskLifecycle` only asks that the
  dependency was met before the handler or is met after it.
* `NothingLeftWaiting`: no task that could start waits while a runner could take
  it. The code calls `schedule` in each place that frees a slot or meets a
  dependency; forgetting one is this property's mutant. TLC found one gap, which
  the property leaves out: a push that conflicts while a follow-up is running
  makes the task `conflicted`, which counts as completed, and no `schedule` is
  called until the follow-up ends.
* `AssignedIsHeld`: an assigned task that has not started is in its runner's
  running set and that runner is registered. If not, it would be queued for ever,
  since `schedule` skips assigned tasks.
* `AssignedWherePinned`: reassignment pins a task to the new runner; a task is
  never on a runner its pin excludes.
* `AssignmentsFitSlots`: assigning never exceeds slots, although follow-ups may.
* `DeathEndsDependents`: in the handler in which a task dies, what is queued
  behind it ends too, transitively, unless policy requeues it. Restart is exempt:
  it fails running tasks without looking at dependents.
* `ImplementsLifecycle`: every handler, with all its cascades, is one step of
  `TaskLifecycle`.
* `GraceHasTimer`, `TimerHitsItsOwn`, `OnlyItsOwnEnd`: no
  runner is connected by, or kept for, something that no longer exists, and
  nothing late acts on a newer registration.
* `GraceEnds`: a runner that stays away is removed.
* `DiskIsCurrent` is the property of the finding below.
* `OneEndingEach`: a run, push or discard reports one ending. A timeout reports
  from inside the wait, a cancel from the caller, an error from the outermost
  function.
* `UnlistedIsStopping`: a run that `Ctx.running` does not list has been told to
  stop. Otherwise neither a cancel nor a hello could name it, while the next run
  of the task works in the same worktree.
* `HeldIsAlive`: while connected, a task the orchestrator holds for the runner
  has a run that will report, or a report in the channel. The hello makes good
  the frames and events a dead socket lost.
* `SlotsComeBack`: a held task does not stay held, through retries, fixes, lost
  frames, outages and the exit of the process.

* `UnsavedIsKnown`, `EditsLand`: what was typed is in the editor, on its way,
  landed, or a toast said it was not saved; and it does not stay on its way.
  Leaving within the pause, a failed call with newer text parked behind it, and an
  unmount with a call under way are where it could go. Visits that went straight
  from one todo to another are exempt (see the hazards): there text is lost.
* `SavedIsSaved`: the label tells the truth, also after a failure between two
  calls, and after the text parked was sent.
* `InOrder`: calls of one visit do not overtake each other. The exemption is one
  the page cannot see: a call it saw fail, stored all the same and late.
* `ReadsItsWrites`: a row comes to show what it wrote. A row is freed before the page
  is loaded again, and until then may show less than it wrote: use-action.ts
  promises no more. Once its calls and the loaders are done it shows at least what its
  last success wrote, over loads that are joined, asked again, or fail, and agents
  writing between. A success that joined a load begun before it is exempt (`missed`) until
  the next load reads the record. `RowsAreReleased`: no row stays busy, whatever fails.
* `DeletedOnPurpose`: between the two presses of a Delete nothing else was
  pressed. A menu that closes, a page that changes and a reload each must disarm.
* `DraftKept`: a draft closes when it was saved or given up, or its row left the
  screen, not when saving it fails, and not because another row's action came to
  its end.
* `TurnsAlternate`, `WaitingIsWorkedOn`: several windows may ask in one thread at
  once; the check under the lock must admit one. A question that finds no permit
  must not leave the thread waiting. A restart does leave it (`stranded`).
* `EveryQuestionIsAnswered`, `PageCatchesUp`: the answer comes, and the page comes to
  show it, whatever copy it has. The second leaves one case out, as the code does not
  provide for it: a load that fails while the answer is awaited puts an error in place
  of the page, with its interval (see Findings).
* `QuestionKept`: a question taken from the box is in the thread at the orchestrator, on
  its way, or back in the box, unless the person went to another chat meanwhile. A call
  whose answer was lost has stored it although the page says it failed.
* `NoTaskTwice`: `pending` must hold from the press until the page is left, over
  navigations that supersede each other, or two agents do the work.
* `SentAsShown`, `ChoicesSurvive`: the runner is looked up again when a task is
  sent, the effort depends on the model, and each is stored apart from the other.
* `PickedMachineCanRun`: machine and executor are picked in any order, over copies
  of the task that change; no order leaves a machine that was picked with an
  executor it lacks. Only a copy that arrives with another executor may.
* `TranscriptGrows`: two folds (output into a tool, tools into an activity) over a
  growing list; only the last item may change, and no event may be drawn twice.
* `PollingSeesTheEnd`: a page that shows a task at work comes to show that it is
  not. A follow-up is exempt, as its status is not polled, and so is a load that
  fails: the error in place of the page has no interval and no retry.
* `NothingHidden`: status, age, archive flag and preview together leave each loaded
  row drawn or behind a button that is there.
* `FoldsStay`: a group folded or unfolded by hand stays so, while a project's
  creation sets folds of its own.
* `OneInterval`, `AgesAdvance`: rows that come and go, with their list or with the
  group or section they are folded into, share one interval, it runs
  while one of them is drawn, and every row drawn reads the clock again.

Fairness. `GraceEnds` and the liveness properties below it need it. A socket task
past its loop runs its cleanup, and a timer that sleeps wakes and takes the mutex:
both are spawned tasks that nothing aborts. In the agent, a run goes on (its
process exits or `timeout_secs` passes; git and the checks are taken to end), the
session loop empties the channel, `READ_TIMEOUT` notices a dead socket, `run`
tries again for ever, and the exit follows a signal by a sleep. In the web modules
a call that was made is served and answered (`fetch` settles), the editor's pause
ends (a `setTimeout`), an interval fires for as long as its page is mounted and
its condition holds, a load that began lands or fails, and the task spawned to
answer a question gets its permit and ends (one bounded pass). Per row in
`RowActions`, as the calls of two rows do not wait for each other. No fairness is
assumed of people, of the orchestrator's frames, of other windows or of the
network's failures; none is assumed of a load after one that failed, as nothing in
the code asks for it.

## Findings

`cancel_persists`: cancelling a queued task fails its dependents in memory, but
only the cancelled task is persisted. `apply_event` "Returns the ids to persist"
(`state.rs:1265`); `cancel` drops that result, and its handler persists the cancelled
id alone. After a restart the dependents are queued again, behind a task that is
cancelled.

The models also show behaviour that no line of the code promises otherwise, or
promises only in passing. It is in `hazards` without a property, or named there
as what a property leaves out:

* `check_eligible` means to refuse a task that could never run, but accepts one
  whose dependency was rejected.
* `still_running` does not compare the runner: one that is back from longer than
  its grace period is given a running task that now belongs to another.
* Generations restart at 1 after a goodbye, so an older timer of the same name
  can match. It takes two disconnects and a goodbye within 30 seconds.
* A dropped cancel sender acts as a cancel: a run that is replaced by another of
  the same task ends `Cancelled`, and its `finished` removes the other's entry.
* An ephemeral runner queues its goodbye once; if the socket has just broken, the
  goodbye is lost and the runner stays.
* From one todo straight to another with a call under way, the text of the second
  is sent under the id of the first.
* A page opened again is edited from the router's older copy, and the next edit
  writes it over what landed since.
* "While the last word is the person's the loader is re-run on a short interval, the
  way the task page streams" (`chats.$id.tsx:47`) lasts while every run of the loader
  succeeds. One that fails replaces `ChatPage` by `ChatError` (line 36), the interval
  is cleared with it, nothing offers a retry, and a person who stays does not see the
  answer. The task page is built the same way (`tasks.$id.tsx:12,25`).
* After a follow-up the task page does not poll.
* A restart leaves a thread waiting for an answer nobody works on, and every later
  question in it is refused.

## Proofs

In most proof modules the invariants named in the runs are conjuncts of an `Inv`
(or follow from it), one lemma per action or kind of action shows that a step
preserves it, `InvHolds` gives `Spec => []Inv`, and the theorems at the end draw
the property from it. Where it is done otherwise is said below. The assumptions
are the constants' (named in each module); nothing bounds their size.

`RunnerProofs` is about both ends of a runner's socket, one module each; the names of
`RunnerRegistry` are its own (`RegistrySpec`, `registryVars`, `RegistryTyped`) so that one
module can extend both. Of `RunnerRegistry`
it proves `RegistryTyped`, `ConnectedHasSocket`, `GraceHasTimer`,
`TimerHitsItsOwn` and `OnlyItsOwnEnd` for any set of names and any bound on
sockets; the only assumption is that the bound is a natural number. The
inductive invariant adds to them that socket ids handed out are at most
`conns` (so a new one is new), that no socket is both open and ending (so one
that runs its cleanup is not in its loop), and `TimersAreOld`: a timer started in
the present life of a name carries a generation no newer than the entry's, and
if equal while disconnected, is the timer of that disconnect. Without the last,
`TimerHitsItsOwn` says nothing of timers that do not match yet and is not
inductive. There is one lemma per action.

`OrchestratorProofs` proves, for any tasks, dependencies without a cycle, plans,
runners, slots and policy, the invariants `TypeOK`, `AssignedWherePinned`,
`AssignedIsHeld`, `NothingLeftWaiting` and `DependenciesFirst`, the step
properties `AssignmentsFitSlots` and `DeathEndsDependents`, and
`ImplementsLifecycle`. It assumes what `TaskRules`, `State` and `Orchestrator`
assume of their constants. The inductive invariant is `IInv`, each part of which
TLC checked on the three instances first:

* `TablesTyped`, the part of `TypeOK` about the tables (`HeardIsTyped` adds that only
  runners are heard).
* `Good(Now)`: the tables are `Sound`, no task is assigned and unheld
  (`Unheld(Now) = {}`), and the steps of a plan do not exist before its approval
  (`StepsWait`, else approving would create a task twice). `Sound` holds inside
  handlers too: an absent runner holds nothing, what was asked of a runner or is
  held by one exists, a task's runner agrees with its pin and was told to run it,
  and every task that exists is in `created` (else `schedule` would not find it).
* `Served(Now)`: the budget is spent, or no runner fits a task that is ready. A
  task whose dependency is `conflicted` or sent back is left out.
* `DiskFollows`: what is on disk is what is in memory, or a queued task that has
  failed in memory (the finding above). Without it a restart would not be a step
  of the lifecycle.

A handler is a loop or a cascade of unknown length, so no step of it is looked at
by itself. A relation between the tables before and after is shown of the parts
(an assignment, a noted event, a freed slot, a retry) and is reflexive and
transitive; `Carries` says what such a relation needs, and `CascadeCarries` takes it
over every loop and every level. Two relations are carried. `Follows` keeps `Sound`,
adds nobody to `Unheld`, hands out only on dependencies that are met, fills slots
to their number, and lets statuses go only from queued to failed. `Serves` adds
that `Served` is kept; it is apart because it needs `Sound`. From these, `Leads` says
what one event leaves and `Loses` what losing any tasks in any order leaves,
`Handles` what a handler must, and `Committed` what follows for the variables once
its result is stored. There is a lemma ending in `Keeps` for each action.

Deaths take an argument of their own. `Buries(fails, D)` says that `fails` reaches
all that is queued behind any task of D. By `BadEndBuries` and
`FailDependentsBury`, one more level buries the tasks whose dependents the level
below buries. In `CascadeBuries` the ages that `DepsAreOlder` provides order the
tasks, so that level n buries all but the oldest so many, and the last level all.

`DependenciesFirst` comes from the refinement: approved and merged are left only for
merged in `TaskLifecycle`, so a condition that was met stays met
(`HandedOutInOrder`), and `Implementation` carries it over. Loops and levels are
functions on numbers; `Counting` and `Walks` give induction over them as
a fact about sets of numbers.

Of `AgentRun`, `RunnerProofs` proves `TypeOK`, `OneEndingEach` and
`UnlistedIsStopping` for any set of tasks, policy and bounds, from
`AgentParametersAreTyped`. The three together are inductive. Ending once follows
from the phases: only an active run may end, and only into `closing`. For the
third, `ToldChanges` states what taking a sender from the map does to its run, and
`KeepsInv` what a step must keep of the runs it leaves active; `Begin`, the one
step that adds to the map, has a lemma of its own.

It also proves `HeldIsAlive`, with a second invariant on top of the first. What is held
now says nothing of what a delivery or a hello will make held, so `Working` says
that behind every "started" in the channel, too, a run goes on or an ending
follows (`WorkIsReported`), that every entry of the map lists a run of that task
which is not done (`ListedGoesOn`, what a hello relies on), and that a run is never
used twice (`UnusedAhead`). `WorkGoesOn` is the step that adds to the channel, `SendWork`
the one that takes from it.

`ConversationProofs` proves `TypeOK`, `TurnsAlternate`, `WaitingIsWorkedOn` and
`QuestionKept`, from `ChatsAreTyped`. `WaitingIsWorkedOn` counts; the inductive
form says instead that a waiting thread has a task (`WaitingHasAnswer`) and that
two tasks of a chat are the same (`OneAnswerEach`). `AnswersFit`, that a task's
thread waits and its text is the thread's last question, gives the alternation, as
only such a task appends an answer. `CallsCarryText` says that a question that is
stored has a text. `QuestionKept` follows from a second invariant,
`StoredIsThere`: a call that was answered well has its question in the thread, as
threads only grow. Copies and loads have no part in it.

`RowActionsProofs` proves `TypeOK`, `BusyWhileCalling` (an invariant that is
proved and in no run), `ReadsItsWrites`, `DeletedOnPurpose` and `DraftKept`, from
`RowsAreTyped`. All but the first rest on a row that acts through `useAction`
having at most one call, which the busy mark sees to; the sidebar's rows may have
several. `ReadsItsWrites` needs where a write that is not on screen yet is
(`WritesComeBack`): in the answer of a loader that runs, with a call that returned
and has still to ask for a load, or nowhere, as its success joined a load or its
row is gone. `DeletedOnPurpose` needs what an armed button says of the last press
and of the menu (`ArmedLast`). The steps are sorted into presses that make no
call, presses that make one, and what calls and loaders do; each sort has its
lemma.

`DocumentPageProofs` proves `TypeOK`, `UnsavedIsKnown`, `SavedIsSaved` and
`InOrder`, from `DocumentsAreTyped`. None of the last three is inductive.
`OneCall` and `SaversParkLatest` say what a page's refs hold beside its one call;
`SaversInOrder`, that of a page that stayed with its document that call is newer
than all before it and no newer than `latest`; `OnePage` ties the last visit to
the screen; `TextsAuthored` says whose edits a text may hold, where a todo that
was switched differs from everything else; `DoneLanded` is why a call that
returned needs no successor. Text only grows, so order is a chain of subsets.

`NewTaskProofs` proves `TypeOK`, `ChoicesSurvive`, `NoTaskTwice` and `SentAsShown`, from
`ChoicesAreTyped`. A press needs `pending` to be none; that it is not while a call or
a queued task of the visit is there (`Released`) rests on one call per visit
(`OneCall`), and on the only call beside a queued task being its own
(`SubmitStands`). `PickedCanRun` says that a runner picked could run the model when
the list was loaded, so what is sent differs from it only after a reload.

`TaskPageProofs` proves `TypeOK`, `PickedMachineCanRun` and `TranscriptGrows`, from
`PagesAreTyped` and `SpecsAreTyped`. A picked machine is in the list the panel has
(`PickListed`), so a list that loads later cannot change what it can run; every step
keeps the pick (`SamePick`) or makes one that fits.
For the feed, `ShownIsPast` says that a copy on screen is of an earlier moment, so its
log is a first part of the one that replaces it. `BuiltAgain` and `GroupedAgain` say that
the loops over the longer log begin with the rounds of the shorter; from there each
round leaves all items but the last where they are (`Stays`), and the last item its kind
(`KeepsKind`), which is all that the second loop looks at (`SameKindStays`). Once each and
in order comes from what a round adds to the flattened list (`FlattenedAdds`,
`FlattenedSwaps`). The loops are functions on numbers; `Walks` says that such a function
exists, and `CountingTo` is induction over its rounds.

`OverviewProofs` proves `OneInterval`, `FoldsStay` and `NothingHidden`, from
`ListsAreTyped` and `PreviewIsPositive`. `OneInterval` is inductive as it stands:
rows change only by `Redraw`, which is what `TickerFor` answers for
(`RedrawKeepsOne`), and every other step is `Quiet`. `FoldsStay` is shown per
step. `NothingHidden` is about what pure operators make of any list: `OrderLists`
says that the rows at some places, each put where as many come before it as do in
the order, are those rows, once each; `SectionHidesNone`, `ProjectHidesNone` and
`DocumentDrawnOnce` follow for one list, and the invariant `Listed`, that every
copy drawn is a list, carries them to every state. `Listing` puts rows in order by
counting those before, not with `SelectSeq` and `SortSeq`, of which the prover
knows nothing.

Every safety property of the passing runs is proved. The liveness properties
(`GraceEnds`, `SlotsComeBack`, `EditsLand`, `RowsAreReleased`,
`EveryQuestionIsAnswered`, `PageCatchesUp`, `PollingSeesTheEnd`, `AgesAdvance`)
are model-checked only: the prover has no fairness.

## Plan

Done: `TaskRules`, `State`, `Orchestrator`, `TaskLifecycle`, `RunnerRegistry`,
`AgentRun`; of the web application `DocumentPage`, `RowActions`, `Conversation`,
`NewTask`, `TaskPage`, `Overview`; the proofs of their safety. Next, the most
important first:

1. `AgentRun`: an ephemeral runner that is handed a task
   between its last `finished` and its goodbye, or whose cleanup deletes worktrees
   that await review.
2. `Fleet`: `Orchestrator`'s runner side composed with agents and channels that
   are cut and resumed, two tasks on two runners; what is stuck after late
   starts, lost follow-ups and restarts; liveness of a task whose runner answers.
3. `Persistence`: the writer behind the handlers, stops between two writes, load
   and repair. Proof: what is read back is a state some handler left.
4. `PullRequest`: push, opening, polling, CI, review and merging, against stops
   and the task's own handlers. Proof: a task is merged at most once.
5. `Inference`, `Goals`: small protocols with a timeout and a set of running
   loops; each with its safety proved.
6. Step keys and child specs of plans, and todo numbering, as operators checked
   against reference definitions.

## Not modelled

Of the web application: what only draws what it is given (icons, the runner and
activity pages, the outline of a document, the account menu, the summary panel,
and the vendored widgets under `components/ui` and `components/aicss`); a tab
that is closed before the editor's pause ends, as the browser then runs nothing;
a retry of the task on screen by the policy, and one by another person except as
a call believed lost; preferences changed in a second tab; the keyboard on an armed
button; comments and activity of a todo, and how its page groups todos; the
sidebar's order of projects, its chats and its drawer on a phone. `Overview` opens
the same page again only when nothing of it is under way.

Of the rest: command line and client (presentation), GitHub and Linear clients
(external services), sandbox, proxy, git and validation (processes and files),
notifications, stats, provenance, users and credentials (they move no task).
What the plan names is not modelled yet.
