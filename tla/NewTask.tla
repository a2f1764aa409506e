------------------------------- MODULE NewTask -------------------------------
(***************************************************************************)
(* The new-task page: one box that asks the workspace or queues a task.    *)
(*                                                                         *)
(* The page keeps the model, the effort of each model, the runner, the     *)
(* branch and the words; the project is in its address, and the model and  *)
(* the efforts are also in the browser's storage.  One call runs at a      *)
(* time, `pending`, but only some controls are disabled meanwhile: the     *)
(* box, the project, the runner and the branch can all still be changed.   *)
(* The list of runners is the one the page loaded last; runners come, go   *)
(* and come back with other executors.                                     *)
(*                                                                         *)
(* A text is a number: what was typed or written, in that order.           *)
(***************************************************************************)
EXTENDS Naturals, FiniteSets

CONSTANTS
  Model,        \* MODELS
  Executor,
  ExecutorOf,   \* the executor of each model
  DefaultModel, \* MODELS[0]
  Retired,      \* a stored model that MODELS no longer lists
  Effort,       \* ReasoningEffort
  Runner,
  Repository,   \* projects with a repository
  Branch,
  Unset,        \* no effort chosen, no preferences, no project, Auto
  MaxTexts,     \* bound: texts
  MaxVisits,    \* bound: times the page is mounted
  MaxChoices,   \* bound: choices the person makes
  MaxPresses,   \* bound: presses of send or enhance
  MaxChanges,   \* bound: changes of the runners
  MaxFaults     \* bound: calls cut off or whose answer is lost

Configurations == [Model -> Effort \cup {Unset}]
StoredPreferences == [model : Model \cup {Retired}, conf : Configurations]

ASSUME ChoicesAreTyped ==
  /\ ExecutorOf \in [Model -> Executor] /\ DefaultModel \in Model
  /\ Retired \notin Model /\ "medium" \in Effort /\ "main" \in Branch
  /\ Unset \notin Effort \cup Runner \cup Repository \cup StoredPreferences
  /\ {MaxTexts, MaxVisits, MaxChoices, MaxPresses, MaxChanges, MaxFaults}
       \subseteq Nat

Text == 1 .. MaxTexts
Empty == 0
AutoRunner == Unset
Preferences == [model : Model, conf : Configurations]
NewTaskSpec == [base_branch : Branch, model : Model, prompt : Text,
                reasoning_effort : Effort, repository : Repository,
                runner : Runner \cup {AutoRunner}]

VARIABLES
  fleet,      \* the executors each runner offers; {}: it is not connected
  storage,    \* the browser lets the page keep preferences
  stored,     \* what it keeps
  chosen,     \* history: the last choice of a model and of each effort
  page,       \* "home" or "elsewhere"
  visit,      \* how many times the page was mounted
  listed,     \* the runners as loaded
  reloaded,   \* history: loaded again since the runner was picked
  prefs,      \* model and modelConfigurations
  runner, project, branch, branches, mode, draft, pending,
  calls,      \* calls of the page
  tasks, chats, \* what the orchestrator stored for them
  written,    \* the last text written
  presses, choices, changes, faults

vars == <<fleet, storage, stored, chosen, page, visit, listed, reloaded, prefs,
          runner, project, branch, branches, mode, draft, pending, calls,
          tasks, chats, written, presses, choices, changes, faults>>

server == <<fleet, tasks, chats, changes>>
browser == <<storage, stored, chosen>>
form == <<prefs, runner, branch, branches>>
counts == <<presses, choices, faults>>

Call == [press : 1 .. MaxPresses, visit : 1 .. MaxVisits, text : Text,
         kind : {"ask", "enhance", "submit"}, spec : NewTaskSpec \cup {Unset},
         phase : {"sent", "stored", "refused", "leaving"}]

\* `heard`: the page was not told that the call had failed.
Task == [press : 1 .. MaxPresses, visit : 1 .. MaxVisits, heard : BOOLEAN]

Defaults == [model |-> DefaultModel, conf |-> [m \in Model |-> Unset]]

Init ==
  /\ fleet = [r \in Runner |-> Executor]
  /\ storage \in BOOLEAN
  /\ stored \in {Unset, [model |-> Retired, conf |-> [m \in Model |-> "medium"]]}
  /\ chosen = Defaults
  /\ page = "elsewhere" /\ visit = 0
  /\ listed = fleet /\ reloaded = FALSE
  /\ prefs = Defaults /\ runner = AutoRunner /\ project = Unset
  /\ branch = "main" /\ branches = {"main"}
  /\ mode = "chat" /\ draft = Empty /\ pending = "none"
  /\ calls = {} /\ tasks = {} /\ chats = {}
  /\ written = 0 /\ presses = 0 /\ choices = 0 /\ changes = 0 /\ faults = 0

-----------------------------------------------------------------------------
(* Runners connect, leave and come back, as the page's list does not know. *)

RunnerChanges(r) ==
  /\ changes < MaxChanges /\ changes' = changes + 1
  /\ \E es \in SUBSET Executor : es # fleet[r] /\ fleet' = [fleet EXCEPT ![r] = es]
  /\ UNCHANGED <<browser, page, visit, listed, reloaded, form, project, mode, draft,
                 pending, calls, tasks, chats, written, counts>>

-----------------------------------------------------------------------------
(* Arriving and leaving.                                                   *)

\* A later navigation takes the place of one whose page still loads.
Superseded == {k \in calls : k.phase = "leaving"}

\* `readModelPreferences`: nothing, unless the stored model is still listed.
ReadPreferences ==
  IF storage /\ stored # Unset /\ stored.model \in Model THEN stored ELSE Defaults

\* The page mounts, from a link to a project or with the brief a chat wrote.
Mount(repo, brief) ==
  /\ page = "elsewhere" /\ visit < MaxVisits /\ visit' = visit + 1
  /\ brief => written < MaxTexts
  /\ page' = "home" /\ project' = repo
  /\ written' = IF brief THEN written + 1 ELSE written
  /\ draft' = IF brief THEN written' ELSE Empty
  /\ mode' = IF brief THEN "task" ELSE "chat"
  /\ prefs' = ReadPreferences
  /\ chosen' = IF storage THEN chosen ELSE Defaults
  /\ listed' = fleet
  /\ calls' = calls \ Superseded
  /\ UNCHANGED <<server, storage, stored, runner, branch, branches, reloaded, pending, counts>>

Unmount ==
  /\ page' = "elsewhere"
  /\ prefs' = Defaults /\ runner' = AutoRunner /\ project' = Unset
  /\ branch' = "main" /\ branches' = {"main"} /\ mode' = "chat"
  /\ draft' = Empty /\ pending' = "none" /\ reloaded' = FALSE
  /\ UNCHANGED <<server, browser, visit, listed, written, counts>>

Leave ==
  /\ page = "home" /\ Unmount
  /\ calls' = calls \ Superseded

\* The loader runs again: another action's invalidate, or the address changed.
Reload ==
  /\ page = "home" /\ listed # fleet
  /\ listed' = fleet /\ reloaded' = TRUE
  /\ UNCHANGED <<server, browser, page, visit, form, project, mode, draft, pending, calls, written, counts>>

-----------------------------------------------------------------------------
(* Choosing.                                                               *)

Choose(m) ==
  /\ page = "home" /\ mode = m /\ choices < MaxChoices /\ choices' = choices + 1
  /\ UNCHANGED <<server, storage, page, visit, listed, mode, draft, pending,
                 written, presses, faults>>

\* saveModelPreferences: storage that refuses is ignored.
SavePreferences(p) == stored' = IF storage THEN p ELSE stored

CanRun(r, model) == ExecutorOf[model] \in listed[r]

\* Mutant of ChangeModel: the runner stays.
ChangeModelOnly(model) ==
  /\ Choose("task")
  /\ prefs' = [prefs EXCEPT !.model = model]
  /\ chosen' = [chosen EXCEPT !.model = model]
  /\ SavePreferences(prefs')
  /\ UNCHANGED <<runner, reloaded, project, branch, branches, calls>>

\* `changeModel`, during a call too: what is disabled then is the button that opens
\* the list, and an open list stays.  A runner that cannot run the new model is let go.
ChangeModel(model) ==
  /\ Choose("task")
  /\ prefs' = [prefs EXCEPT !.model = model]
  /\ chosen' = [chosen EXCEPT !.model = model]
  /\ SavePreferences(prefs')
  /\ runner' = IF runner # AutoRunner /\ ~CanRun(runner, model) THEN AutoRunner ELSE runner
  /\ UNCHANGED <<reloaded, project, branch, branches, calls>>

\* Mutant of ChangeModelConfiguration: what is saved is a step behind.
SaveCurrent(model, effort) ==
  /\ Choose("task")
  /\ prefs' = [prefs EXCEPT !.conf[model] = effort]
  /\ chosen' = [chosen EXCEPT !.conf[model] = effort]
  /\ SavePreferences(prefs)
  /\ UNCHANGED <<runner, reloaded, project, branch, branches, calls>>

\* `changeModelConfiguration`, of any model on the list.
ChangeModelConfiguration(model, effort) ==
  /\ Choose("task")
  /\ prefs' = [prefs EXCEPT !.conf[model] = effort]
  /\ chosen' = [chosen EXCEPT !.conf[model] = effort]
  /\ SavePreferences(prefs')
  /\ UNCHANGED <<runner, reloaded, project, branch, branches, calls>>

\* `changeRunner`: Auto, or one the list says can run the model.
ChangeRunner(r) ==
  /\ Choose("task")
  /\ r # AutoRunner => CanRun(r, prefs.model)
  /\ runner' = r /\ reloaded' = FALSE
  /\ UNCHANGED <<stored, chosen, prefs, project, branch, branches, calls>>

\* `changeBranch`: one of the list, or a new one that joins it.
ChangeBranch(b) ==
  /\ Choose("task")
  /\ branch' = b /\ branches' = branches \cup {b}
  /\ UNCHANGED <<stored, chosen, prefs, runner, reloaded, project, calls>>

\* `pick`: the address is rewritten, whatever navigation is under way.
Pick(repo) ==
  /\ \E m \in {"chat", "task"} : Choose(m)
  /\ project' = repo /\ calls' = calls \ Superseded
  /\ UNCHANGED <<stored, chosen, prefs, runner, reloaded, branch, branches>>

\* `createTask` and `backToChat` of useWorkspaceChat.
ToggleMode ==
  /\ page = "home" /\ pending = "none"
  /\ mode' = IF mode = "chat" THEN "task" ELSE "chat"
  /\ UNCHANGED <<server, browser, page, visit, listed, reloaded, form, project,
                 draft, pending, calls, written, counts>>

\* `changeDraft`.
Type ==
  /\ page = "home" /\ written < MaxTexts
  /\ written' = written + 1 /\ draft' = written + 1
  /\ UNCHANGED <<server, browser, page, visit, listed, reloaded, form, project,
                 mode, pending, calls, counts>>

-----------------------------------------------------------------------------
(* Sending.                                                                *)

Press(kind, spec) ==
  /\ page = "home" /\ draft # Empty /\ pending = "none"
  /\ presses < MaxPresses /\ presses' = presses + 1
  /\ pending' = kind
  /\ calls' = calls \cup {[press |-> presses + 1, visit |-> visit, text |-> draft,
                           kind |-> kind, spec |-> spec, phase |-> "sent"]}
  /\ UNCHANGED <<server, browser, page, visit, listed, reloaded,
                 form, project, mode, written, choices, faults>>

\* `ask`: the box is emptied before the call.
Ask ==
  /\ mode = "chat" /\ Press("ask", Unset)
  /\ draft' = Empty

Enhance ==
  /\ mode = "task" /\ project # Unset /\ Press("enhance", Unset)
  /\ UNCHANGED draft

\* `compatibleRunner`: the list is looked at again.
CompatibleRunner ==
  IF runner # AutoRunner /\ CanRun(runner, prefs.model) THEN runner ELSE AutoRunner

SelectedEffort ==
  IF prefs.conf[prefs.model] = Unset THEN "medium" ELSE prefs.conf[prefs.model]

\* What `submit` sends.
Specification ==
  [base_branch |-> branch, model |-> prefs.model, prompt |-> draft,
   reasoning_effort |-> SelectedEffort, repository |-> project,
   runner |-> CompatibleRunner]

Submit ==
  /\ mode = "task" /\ project # Unset /\ Press("submit", Specification)
  /\ UNCHANGED draft

\* The orchestrator takes the call.  `lost`: the page hears of a failure.
Serve(k, lost) ==
  /\ k.phase = "sent"
  /\ calls' = (calls \ {k}) \cup {[k EXCEPT !.phase = IF lost THEN "refused" ELSE "stored",
                                           !.spec = Unset]}
  /\ lost => faults < MaxFaults
  /\ faults' = IF lost THEN faults + 1 ELSE faults
  /\ tasks' = IF k.kind = "submit"
              THEN tasks \cup {[press |-> k.press, visit |-> k.visit, heard |-> ~lost]}
              ELSE tasks
  /\ chats' = IF k.kind = "ask" THEN chats \cup {k.text} ELSE chats
  /\ UNCHANGED <<fleet, changes, browser, page, visit, listed, reloaded, form,
                 project, mode, draft, pending, written, presses, choices>>

\* It refuses, or the call is cut off.
Refuse(k) ==
  /\ k.phase = "sent" /\ faults < MaxFaults /\ faults' = faults + 1
  /\ calls' = (calls \ {k}) \cup {[k EXCEPT !.phase = "refused", !.spec = Unset]}
  /\ UNCHANGED <<server, browser, page, visit, listed, reloaded, form,
                 project, mode, draft, pending, written, presses, choices>>

\* The page that made the call is still mounted.
Here(k) == page = "home" /\ k.visit = visit

-----------------------------------------------------------------------------
(* What the page does with the answers.                                    *)

quiet == <<server, browser, page, visit, listed, reloaded, form, project, mode,
           counts>>

\* The question goes back in the box, over whatever was typed since.
AskFails(k) ==
  /\ k.kind = "ask" /\ k.phase = "refused"
  /\ calls' = calls \ {k}
  /\ draft' = IF Here(k) THEN k.text ELSE draft
  /\ pending' = IF Here(k) THEN "none" ELSE pending
  /\ UNCHANGED <<quiet, written>>

\* The chat page is on its way; the controls are released already.
AskOpens(k) ==
  /\ k.kind = "ask" /\ k.phase = "stored"
  /\ calls' = (calls \ (Superseded \cup {k})) \cup {[k EXCEPT !.phase = "leaving"]}
  /\ pending' = IF Here(k) THEN "none" ELSE pending
  /\ UNCHANGED <<quiet, draft, written>>

\* A prompt takes the place of whatever is in the box by now.
EnhanceReturns(k) ==
  /\ k.kind = "enhance" /\ k.phase = "stored" /\ (Here(k) => written < MaxTexts)
  /\ calls' = calls \ {k}
  /\ written' = IF Here(k) THEN written + 1 ELSE written
  /\ draft' = IF Here(k) THEN written' ELSE draft
  /\ pending' = IF Here(k) THEN "none" ELSE pending
  /\ UNCHANGED quiet

\* The failure of `enhance` and of `submit`: the box is left alone.
FormFails(k) ==
  /\ k.kind \in {"enhance", "submit"} /\ k.phase = "refused"
  /\ calls' = calls \ {k}
  /\ pending' = IF Here(k) THEN "none" ELSE pending
  /\ UNCHANGED <<quiet, draft, written>>

\* Mutant of SubmitOpens: a `finally` that releases the controls.
SubmitReleases(k) ==
  /\ k.kind = "submit" /\ k.phase = "stored"
  /\ calls' = (calls \ (Superseded \cup {k})) \cup {[k EXCEPT !.phase = "leaving"]}
  /\ pending' = IF Here(k) THEN "none" ELSE pending
  /\ UNCHANGED <<quiet, draft, written>>

\* The task page is on its way; the controls stay disabled.
SubmitOpens(k) ==
  /\ k.kind = "submit" /\ k.phase = "stored"
  /\ calls' = (calls \ (Superseded \cup {k})) \cup {[k EXCEPT !.phase = "leaving"]}
  /\ UNCHANGED <<quiet, draft, pending, written>>

\* The page the navigation was for is loaded, wherever the person was.
Arrive(k) ==
  /\ k.phase = "leaving"
  /\ calls' = calls \ {k}
  /\ Unmount

Next ==
  \/ \E r \in Runner : RunnerChanges(r)
  \/ \E repo \in Repository \cup {Unset}, brief \in BOOLEAN : Mount(repo, brief)
  \/ Leave \/ Reload
  \/ \E model \in Model : ChangeModel(model)
  \/ \E model \in Model, effort \in Effort : ChangeModelConfiguration(model, effort)
  \/ \E r \in Runner \cup {AutoRunner} : ChangeRunner(r)
  \/ \E b \in Branch : ChangeBranch(b)
  \/ \E repo \in Repository : Pick(repo)
  \/ ToggleMode \/ Type \/ Ask \/ Enhance \/ Submit
  \/ \E k \in calls :
       \/ \E lost \in BOOLEAN : Serve(k, lost)
       \/ Refuse(k) \/ AskFails(k) \/ AskOpens(k) \/ EnhanceReturns(k)
       \/ FormFails(k) \/ SubmitOpens(k) \/ Arrive(k)

Spec == Init /\ [][Next]_vars

-----------------------------------------------------------------------------

FormTyped ==
  /\ fleet \in [Runner -> SUBSET Executor] /\ listed \in [Runner -> SUBSET Executor]
  /\ storage \in BOOLEAN /\ reloaded \in BOOLEAN
  /\ stored \in StoredPreferences \cup {Unset}
  /\ prefs \in Preferences /\ chosen \in Preferences
  /\ runner \in Runner \cup {AutoRunner} /\ project \in Repository \cup {Unset}
  /\ branch \in branches /\ branches \subseteq Branch
  /\ mode \in {"chat", "task"}
  /\ choices \in 0 .. MaxChoices /\ changes \in 0 .. MaxChanges

CallsTyped ==
  /\ page \in {"home", "elsewhere"} /\ visit \in 0 .. MaxVisits
  /\ page = "home" => visit # 0
  /\ pending \in {"none", "ask", "enhance", "submit"}
  /\ draft \in Text \cup {Empty}
  /\ calls \in SUBSET Call /\ tasks \in SUBSET Task /\ chats \subseteq Text
  /\ written \in 0 .. MaxTexts /\ presses \in 0 .. MaxPresses
  /\ faults \in 0 .. MaxFaults

TypeOK == FormTyped /\ CallsTyped

\* The model and the efforts a person chose are the ones every later visit
\* shows, as long as the browser keeps anything.
ChoicesSurvive == page = "home" => prefs = chosen

\* A visit queues one task, however often and whatever the person presses,
\* unless the page was told that an earlier one had failed.
NoTaskTwice ==
  \A v \in 1 .. MaxVisits :
    Cardinality({t \in tasks : t.visit = v /\ t.heard}) <= 1

\* A task is queued on the runner the screen shows.  It goes to any runner
\* instead only if the list of runners changed after the person picked.
SentAsShown ==
  [][\A k \in calls' \ calls :
       k.spec # Unset => \/ k.spec.runner = runner
                         \/ k.spec.runner = AutoRunner /\ reloaded]_vars

=============================================================================
