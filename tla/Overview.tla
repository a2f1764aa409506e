------------------------------ MODULE Overview ------------------------------
(***************************************************************************)
(* The lists of the web application and the sidebar beside them.           *)
(*                                                                         *)
(* The sidebar and the page load apart: each draws its own copy of the     *)
(* tasks, of another moment, and the sidebar draws nothing where the page  *)
(* draws an error.  Which groups are folded is the window's state, kept in *)
(* local storage; what a section or a project shows in full is the         *)
(* component's and goes with it.  The rows of a list share one interval    *)
(* that tells them to read the clock again.                                *)
(***************************************************************************)
EXTENDS Listing, FiniteSetsExt

CONSTANTS
  Repository,
  Error,       \* a page that could not be loaded
  Status,      \* the statuses tasks are seen in
  Window,      \* how far the outcomes in view reach back
  FirstTasks, FirstDocuments, \* what the orchestrator starts with
  MaxTasks, MaxDocuments,     \* bounds: tasks and documents
  MaxClock,    \* bound: the clock
  MaxChanges,  \* bound: changes made by anybody else
  MaxMoves     \* bound: what the person does, and calls that fail

TaskRecord ==
  [id : Nat, repository : Repository, status : Status, created : Nat, archived : BOOLEAN]
Document == [id : Nat, repository : Repository \cup {Unset}, archived : BOOLEAN]

ASSUME ListsAreTyped ==
  /\ Status \subseteq DOMAIN Tone
  /\ Unset \notin Repository
  /\ FirstTasks \in Seq(TaskRecord) /\ FirstDocuments \in Seq(Document)
  /\ {Window, MaxTasks, MaxDocuments, MaxClock, MaxChanges, MaxMoves} \subseteq Nat
  /\ Len(FirstTasks) <= MaxTasks /\ Len(FirstDocuments) <= MaxDocuments

VARIABLES
  tasks, documents, projects, \* the orchestrator's
  clock,
  shell,       \* the sidebar's copy: [tasks, projects]
  page,        \* "tasks", "documents" or "document", the page of one document
  triage,      \* the task page's copy: [tasks, since], or Unset, or Error
  listed,      \* the document list's copy, or Unset, or Error
  reloading,   \* which of "shell" and "page" are being loaded again
  open,        \* the groups folded or unfolded by hand
  stored,      \* the same in local storage
  expanded,    \* projects drawn in full
  folded, all, \* sections of the task list folded, and drawn in full
  shut,        \* groups of the document list folded
  adding,      \* the form for a repository is shown
  creating,    \* the project being added: [repository, phase], or Unset
  opening,     \* the document list is waiting for a new document
  sent,        \* calls for a new document, of this visit and of earlier ones
  seen,        \* what time each row that says one has read
  intervals,   \* intervals running
  changes, moves

server == <<tasks, documents, projects, changes>>
copies == <<shell, triage, listed>>
sidebar == <<open, stored, expanded, adding, creating>>
sections == <<folded, all, shut>>
fresh == <<opening, sent>>
ticker == <<seen, intervals>>
vars == <<server, clock, copies, page, reloading, sidebar, sections, fresh, ticker, moves>>

Move == moves < MaxMoves /\ moves' = moves + 1

\* What the window folds: projects, the heading above them and the panel to the
\* right of a page that has one.
Group == Repository \cup {":projects", ":panel"}
HasPanel == page = "document"

\* Whether a group is unfolded: nothing said of it means that it is.
Unfolded(map, g) == g \in DOMAIN map => map[g]
Put(map, g, value) ==
  [x \in DOMAIN map \cup {g} |-> IF x = g THEN value ELSE map[x]]

Loaded(copy) == copy # Unset /\ copy # Error

\* The rows on screen that say how long ago something was.
TaskRows(copy, fold, full) ==
  IF ~Loaded(copy) THEN {}
  ELSE {<<"task", t.id>> : t \in UNION {ToSet(SectionOf(copy.tasks, b, copy.since,
                                                        b \in full).shown) :
                                          b \in Buckets \ fold}}

\* The group of the list a document is in.
Heading(d) == IF d.archived THEN ":archived" ELSE d.repository
Headings(list) == {Heading(d) : d \in ToSet(list)}
DocumentRows(list, closed) ==
  IF ~Loaded(list) THEN {}
  ELSE {<<"document", d.id>> : d \in {e \in ToSet(list) : Heading(e) \notin closed}}

Ages(p, copy, list, fold, full, closed) ==
  CASE p = "tasks" -> TaskRows(copy, fold, full)
    [] p = "documents" -> DocumentRows(list, closed)
    [] OTHER -> {}
Drawn == Ages(page, triage, listed, folded, all, shut)

\* A plausible slip: every row starts an interval.
TickerEach(before, after) ==
  LET left == IF before \ after # {} /\ before \cap after = {} /\ intervals > 0
              THEN intervals - 1 ELSE intervals
  IN  left + Cardinality(after \ before)

\* A plausible slip: whoever goes stops it.
TickerStopped(before, after) ==
  LET left == IF before \ after # {} THEN 0 ELSE intervals
  IN  IF after \ before # {} /\ left = 0 THEN 1 ELSE left

\* subscribe, and what it returns: rows that go are unsubscribed first.
TickerFor(before, after) ==
  LET left == IF before \ after # {} /\ before \cap after = {} THEN 0 ELSE intervals
  IN  IF after \ before # {} /\ left = 0 THEN 1 ELSE left

\* A row reads the clock when it is first drawn; the others are left alone.
Redraw ==
  LET before == Drawn
      after == Drawn'
  IN  /\ intervals' = TickerFor(before, after)
      /\ seen' = [row \in after |-> IF row \in before THEN seen[row] ELSE clock]

Init ==
  /\ tasks = FirstTasks /\ documents = FirstDocuments /\ projects = {} /\ clock = 0
  /\ shell = [tasks |-> FirstTasks, projects |-> {}]
  /\ page = "document" /\ triage = Unset /\ listed = Unset /\ reloading = {}
  /\ open = <<>> /\ stored = <<>> /\ expanded = {}
  /\ folded = {"did_not_land"} /\ all = {} /\ shut = {}
  /\ adding = FALSE /\ creating = Unset /\ opening = FALSE /\ sent = 0
  /\ seen = <<>> /\ intervals = 0
  /\ changes = 0 /\ moves = 0

-----------------------------------------------------------------------------
(* What happens elsewhere.                                                 *)

Elsewhere ==
  /\ changes < MaxChanges /\ changes' = changes + 1
  /\ UNCHANGED <<projects, clock, copies, page, reloading, sidebar, sections, fresh, ticker,
                 moves>>

TaskCreated(r, s) ==
  /\ Elsewhere /\ Len(tasks) < MaxTasks
  /\ tasks' = <<[id |-> Len(tasks) + 1, repository |-> r, status |-> s,
                 created |-> clock, archived |-> FALSE]>> \o tasks
  /\ UNCHANGED documents

\* The last touched comes first.
TaskMoves(i, s) ==
  /\ Elsewhere /\ tasks[i].status # s
  /\ tasks' = <<[tasks[i] EXCEPT !.status = s]>> \o RemoveAt(tasks, i)
  /\ UNCHANGED documents

TaskArchived(i) ==
  /\ Elsewhere /\ ~tasks[i].archived
  /\ tasks' = [tasks EXCEPT ![i].archived = TRUE]
  /\ UNCHANGED documents

DocumentChanged(i, r, archived) ==
  /\ Elsewhere
  /\ documents' = <<[documents[i] EXCEPT !.repository = r, !.archived = archived]>>
                    \o RemoveAt(documents, i)
  /\ UNCHANGED tasks

TimePasses ==
  /\ clock < MaxClock /\ clock' = clock + 1
  /\ UNCHANGED <<server, copies, page, reloading, sidebar, sections, fresh, ticker,
                 moves>>

\* The interval fires and every row reads the clock.
Tick ==
  /\ intervals > 0
  /\ seen' = [row \in DOMAIN seen |-> clock]
  /\ UNCHANGED <<server, clock, copies, page, reloading, sidebar, sections, fresh,
                 intervals, moves>>

-----------------------------------------------------------------------------
(* Loading.                                                                *)

\* The root loader: a list that cannot be had is empty.  A project that is no
\* longer listed takes its own state along.
LoadShell(tasksHad, projectsHad) ==
  /\ "shell" \in reloading /\ reloading' = reloading \ {"shell"}
  /\ shell' = [tasks |-> IF tasksHad THEN tasks ELSE <<>>,
               projects |-> IF projectsHad THEN projects ELSE {}]
  /\ expanded' = expanded \cap DOMAIN groupByProject(Live(shell'.tasks), shell'.projects)
  /\ IF tasksHad /\ projectsHad THEN UNCHANGED moves ELSE Move
  /\ UNCHANGED <<server, clock, page, triage, listed, open, stored, adding, creating,
                 sections, fresh, ticker>>

\* What a page's loader answers now.
TriageNow == [tasks |-> Live(tasks), since |-> IF clock < Window THEN 0 ELSE clock - Window]

\* The page's loader.  The sections are there as long as there is a task, and a
\* group as long as it has a document.
LoadPage(had) ==
  /\ "page" \in reloading /\ reloading' = reloading \ {"page"}
  /\ IF had THEN UNCHANGED moves ELSE Move
  /\ CASE page = "tasks" -> /\ triage' = IF had THEN TriageNow ELSE Error
                            /\ UNCHANGED listed
       [] page = "documents" -> /\ listed' = IF had THEN documents ELSE Error
                                /\ UNCHANGED triage
       [] OTHER -> UNCHANGED <<triage, listed>>
  /\ IF page = "tasks" /\ (~had \/ triage'.tasks = <<>>)
     THEN folded' = {"did_not_land"} /\ all' = {} ELSE UNCHANGED <<folded, all>>
  /\ shut' = IF page = "documents" /\ had THEN shut \cap Headings(listed') ELSE {}
  /\ opening' = (opening /\ (page = "documents" => had))
  /\ UNCHANGED <<server, clock, shell, page, sidebar, sent>>
  /\ Redraw

\* A page is shown once it has something to show: what it had last, which is
\* then loaded again, or what it loads for the purpose.
Visit(p) ==
  /\ page' = p
  /\ triage' = IF p = "tasks" /\ ~Loaded(triage) THEN TriageNow ELSE triage
  /\ listed' = IF p = "documents" /\ ~Loaded(listed) THEN documents ELSE listed
  /\ reloading' = {"shell", "page"}
  /\ folded' = {"did_not_land"} /\ all' = {} /\ shut' = {} /\ opening' = FALSE
  /\ Redraw

Go(p) ==
  /\ p # page /\ Move
  /\ Visit(p)
  /\ UNCHANGED <<server, clock, shell, sidebar, sent>>

\* The window is loaded again, when it waits for nothing, and the folds with it.
Reopen ==
  /\ Move
  /\ creating = Unset /\ sent = 0
  /\ shell' = [tasks |-> tasks, projects |-> projects]
  /\ triage' = IF page = "tasks" THEN TriageNow ELSE Unset
  /\ listed' = IF page = "documents" THEN documents ELSE Unset
  /\ reloading' = {} /\ open' = stored /\ expanded' = {} /\ adding' = FALSE
  /\ folded' = {"did_not_land"} /\ all' = {} /\ shut' = {}
  /\ UNCHANGED <<server, clock, page, stored, creating, fresh>>
  /\ seen' = [row \in Drawn' |-> clock]
  /\ intervals' = IF Drawn' = {} THEN 0 ELSE 1

-----------------------------------------------------------------------------
(* The sidebar.                                                            *)

Projects == groupByProject(Live(shell.tasks), shell.projects)

Press ==
  /\ Move
  /\ UNCHANGED <<server, clock, copies, page, reloading, creating, fresh>>

\* A fold is kept at once.  The heading's takes the projects off the screen.
setProjectOpen(g) ==
  /\ Press
  /\ g \in Repository => g \in DOMAIN Projects /\ Unfolded(open, ":projects")
  /\ open' = Put(open, g, ~Unfolded(open, g)) /\ stored' = open'
  /\ expanded' = IF g = ":projects" THEN {} ELSE expanded
  /\ UNCHANGED <<adding, sections, ticker>>

\* The panel keeps to itself, under a key of its own.
updateOpen(next) ==
  open' = Put(open, ":panel", next) /\ stored' = open'

\* The button in the header, on a page that has a panel.
TogglePanel ==
  /\ Press /\ HasPanel
  /\ updateOpen(~Unfolded(open, ":panel"))
  /\ UNCHANGED <<expanded, adding, sections, ticker>>

ToggleExpanded(r) ==
  /\ Press
  /\ Unfolded(open, ":projects") /\ Unfolded(open, r)
  /\ r \in DOMAIN Projects /\ ProjectRows(Projects[r], r \in expanded).hidden > 0
  /\ expanded' = SymDiff(expanded, {r})
  /\ UNCHANGED <<open, stored, adding, sections, ticker>>

ShowAddProject ==
  /\ Press /\ ~adding /\ adding' = TRUE
  /\ UNCHANGED <<open, stored, expanded, sections, ticker>>

HideAddProject ==
  /\ Press /\ adding /\ creating = Unset /\ adding' = FALSE
  /\ UNCHANGED <<open, stored, expanded, sections, ticker>>

\* The form is there only while its group is unfolded.
addProject(r) ==
  /\ adding /\ creating = Unset /\ Unfolded(open, ":projects")
  /\ Move
  /\ creating' = [repository |-> r, phase |-> "sent"]
  /\ UNCHANGED <<server, clock, copies, page, reloading, open, stored, expanded, adding,
                 sections, fresh, ticker>>

\* create_project: a repository that is registered already is simply answered.
ProjectCreated ==
  /\ creating # Unset /\ creating.phase = "sent"
  /\ projects' = projects \cup {creating.repository}
  /\ creating' = [creating EXCEPT !.phase = "stored"]
  /\ UNCHANGED <<tasks, documents, changes, clock, copies, page, reloading, open, stored,
                 expanded, adding, sections, fresh, ticker, moves>>

\* A plausible slip: the folds are those of when the form was sent, none yet.
AddReturnsAlone ==
  /\ creating # Unset /\ creating.phase = "stored"
  /\ open' = Put(<<>>, creating.repository, TRUE)
  /\ adding' = FALSE
  /\ creating' = [creating EXCEPT !.phase = "loading"]
  /\ reloading' = {"shell", "page"}
  /\ UNCHANGED <<server, clock, copies, page, stored, expanded, sections, fresh,
                 ticker, moves>>

\* The new project is unfolded, in this window alone, and everything begins to be
\* loaded again.  Another can be added before any of it is there.
AddReturns ==
  /\ creating # Unset /\ creating.phase = "stored"
  /\ open' = Put(open, creating.repository, TRUE)
  /\ adding' = FALSE
  /\ creating' = [creating EXCEPT !.phase = "loading"]
  /\ reloading' = {"shell", "page"}
  /\ UNCHANGED <<server, clock, copies, page, stored, expanded, sections, fresh,
                 ticker, moves>>

AddFails ==
  /\ creating # Unset /\ creating.phase \in {"sent", "stored"} /\ Move
  /\ creating' = Unset
  /\ UNCHANGED <<server, clock, copies, page, reloading, open, stored, expanded, adding,
                 sections, fresh, ticker>>

AddEnds ==
  /\ creating # Unset /\ creating.phase = "loading"
  /\ creating' = Unset
  /\ UNCHANGED <<server, clock, copies, page, reloading, open, stored, expanded, adding,
                 sections, fresh, ticker, moves>>

-----------------------------------------------------------------------------
(* The pages.                                                              *)

SectionDrawn(b) == SectionOf(triage.tasks, b, triage.since, b \in all)

ToggleFolded(b) ==
  /\ Press /\ page = "tasks" /\ Loaded(triage) /\ triage.tasks # <<>>
  /\ folded' = SymDiff(folded, {b})
  /\ UNCHANGED <<open, stored, expanded, adding, all, shut>>
  /\ Redraw

ToggleAll(b) ==
  /\ Press /\ page = "tasks" /\ Loaded(triage) /\ triage.tasks # <<>> /\ b \notin folded
  /\ SectionDrawn(b).hidden > 0 \/ b \in all
  /\ all' = SymDiff(all, {b})
  /\ UNCHANGED <<open, stored, expanded, adding, folded, shut>>
  /\ Redraw

ToggleGroup(h) ==
  /\ Press /\ page = "documents" /\ Loaded(listed) /\ h \in Headings(listed)
  /\ shut' = SymDiff(shut, {h})
  /\ UNCHANGED <<open, stored, expanded, adding, folded, all>>
  /\ Redraw

\* New scratchpad, New skill: one at a time for as long as the page is there.
create ==
  /\ Move /\ page = "documents" /\ Loaded(listed) /\ ~opening
  /\ opening' = TRUE /\ sent' = sent + 1
  /\ UNCHANGED <<server, clock, copies, page, reloading, sidebar, sections, ticker>>

\* The blank document is opened, wherever the person has gone meanwhile.
Created ==
  /\ sent > 0 /\ Len(documents) < MaxDocuments
  /\ sent' = sent - 1
  /\ documents' = <<[id |-> Len(documents) + 1, repository |-> Unset,
                     archived |-> FALSE]>> \o documents
  /\ Visit("document")
  /\ UNCHANGED <<tasks, projects, changes, clock, shell, sidebar, moves>>

\* A refusal releases the button it came from, if that is still there.
CreateFails(own) ==
  /\ Move /\ sent > 0 /\ sent' = sent - 1
  /\ IF own THEN opening ELSE sent > 1 \/ ~opening
  /\ opening' = (opening /\ ~own)
  /\ UNCHANGED <<server, clock, copies, page, reloading, sidebar, sections, ticker>>

Next ==
  \/ \E r \in Repository, s \in Status : TaskCreated(r, s)
  \/ \E i \in DOMAIN tasks : TaskArchived(i) \/ \E s \in Status : TaskMoves(i, s)
  \/ \E i \in DOMAIN documents, r \in Repository \cup {Unset}, archived \in BOOLEAN :
        DocumentChanged(i, r, archived)
  \/ TimePasses \/ Tick
  \/ \E a, b \in BOOLEAN : LoadShell(a, b)
  \/ \E had \in BOOLEAN : LoadPage(had) \/ CreateFails(had)
  \/ \E p \in {"tasks", "documents", "document"} : Go(p)
  \/ Reopen
  \/ \E g \in Repository \cup {":projects"} : setProjectOpen(g)
  \/ TogglePanel
  \/ \E r \in Repository : ToggleExpanded(r) \/ addProject(r)
  \/ ShowAddProject \/ HideAddProject \/ ProjectCreated \/ AddReturns \/ AddFails \/ AddEnds
  \/ \E b \in Buckets : ToggleFolded(b) \/ ToggleAll(b)
  \/ \E h \in Repository \cup {Unset, ":archived"} : ToggleGroup(h)
  \/ create \/ Created

\* An interval fires as long as it runs.
Fairness == WF_vars(Tick)

Spec == Init /\ [][Next]_vars /\ Fairness

-----------------------------------------------------------------------------

\* Every task the page loaded is drawn in its section or behind the button of
\* that section, and every task of the sidebar in its project or behind the
\* project's button; a document is drawn once.
NothingHidden ==
  /\ Loaded(triage) =>
       \A t \in ToSet(triage.tasks) :
         LET section == SectionDrawn(bucketOf(t.status))
         IN  section.hidden > 0 \/ t \in ToSet(section.shown)
  /\ \A t \in ToSet(Live(shell.tasks)) :
       LET rows == ProjectRows(Projects[t.repository], t.repository \in expanded)
       IN  rows.hidden > 0 \/ t \in ToSet(rows.shown)
  /\ Loaded(listed) =>
       LET groups == DocumentGroups(listed)
       IN  \A d \in ToSet(listed) :
             Quantify(DOMAIN groups.live, LAMBDA r : d \in ToSet(groups.live[r]))
               + (IF d \in ToSet(groups.archived) THEN 1 ELSE 0) = 1

\* A group folds or unfolds because the person presses it, which is kept, or
\* because it is the project being added: the answer to a call that took a
\* while leaves alone what was folded meanwhile.
FoldsStay ==
  [][\A g \in Group :
       Unfolded(open', g) # Unfolded(open, g) =>
         \/ Unfolded(stored', g) = Unfolded(open', g)
         \/ creating # Unset /\ creating.repository = g]_vars

\* The rows share one interval, and no interval outlives them.
OneInterval == intervals = IF Drawn = {} THEN 0 ELSE 1

\* A row that stays on screen comes to say the present time.
AgesAdvance ==
  \A row \in {"task"} \X (1 .. MaxTasks) \cup {"document"} \X (1 .. MaxDocuments) :
    row \in DOMAIN seen /\ seen[row] < clock ~>
      row \notin DOMAIN seen \/ seen[row] = clock

=============================================================================
