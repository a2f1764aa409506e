------------------------------- MODULE Listing -------------------------------
(***************************************************************************)
(* What the task list, the sidebar and the lists of documents make of what *)
(* they loaded: which rows they draw, under which heading, and what they   *)
(* leave to a button.  Lists keep the order in which they were loaded, the *)
(* last touched first.  A task is [id, repository, status, created,        *)
(* archived] and a document [id, repository, archived].                    *)
(***************************************************************************)
EXTENDS Integers, Sequences, FiniteSets, SequencesExt

CONSTANTS
  Preview, \* rows drawn before the rest is left to a button
  Unset

ASSUME PreviewIsPositive == Preview \in Nat \ {0}

Tone == [approved |-> "done", awaiting_review |-> "attention", cancelled |-> "idle",
         changes_requested |-> "attention", conflicted |-> "attention",
         failed |-> "broken", merged |-> "done", queued |-> "idle", rejected |-> "idle",
         runner_lost |-> "broken", running |-> "live", timed_out |-> "broken"]

Buckets == {"needs_you", "in_flight", "done", "did_not_land"}
Windowed == {"done", "did_not_land"}

\* What is queued is on its way, and whatever else is idle came to nothing.
bucketOf(status) ==
  CASE Tone[status] = "attention"                   -> "needs_you"
    [] Tone[status] = "live" \/ status = "queued"   -> "in_flight"
    [] Tone[status] = "done"                        -> "done"
    [] OTHER                                        -> "did_not_land"

\* The rows at some places of a list, each after those that come before it.
InOrder(rows, places, before) ==
  [k \in 1 .. Cardinality(places) |->
     rows[CHOOSE i \in places : Cardinality({j \in places : <<j, i>> \in before}) = k - 1]]

\* In the order of the list.
Kept(rows, places) == InOrder(rows, places, {p \in places \X places : p[1] < p[2]})

\* The newest first, and those of one moment in the order of the list.
Newer(tasks, i, j) ==
  \/ tasks[i].created > tasks[j].created
  \/ tasks[i].created = tasks[j].created /\ i < j
NewestFirst(tasks, places) ==
  InOrder(tasks, places, {p \in places \X places : Newer(tasks, p[1], p[2])})

Live(rows) == Kept(rows, {i \in DOMAIN rows : ~rows[i].archived})
FirstRows(rows) == SubSeq(rows, 1, IF Len(rows) < Preview THEN Len(rows) ELSE Preview)

\* A plausible slip: the button counts what the heading counts.
SectionOfRecent(tasks, bucket, since, all) ==
  LET mine   == {i \in DOMAIN tasks : bucketOf(tasks[i].status) = bucket}
      recent == {i \in mine : bucket \in Windowed => tasks[i].created >= since}
      shown  == IF all THEN Kept(tasks, mine) ELSE FirstRows(Kept(tasks, recent))
  IN  [count |-> Cardinality(recent), shown |-> shown,
       hidden |-> Cardinality(recent) - Len(shown)]

\* One section of the task list: an outcome older than the window is not
\* counted in the heading, and is drawn only when all are asked for.
SectionOf(tasks, bucket, since, all) ==
  LET mine   == {i \in DOMAIN tasks : bucketOf(tasks[i].status) = bucket}
      recent == {i \in mine : bucket \in Windowed => tasks[i].created >= since}
      shown  == IF all THEN Kept(tasks, mine) ELSE FirstRows(Kept(tasks, recent))
  IN  [count |-> Cardinality(recent), shown |-> shown,
       hidden |-> Cardinality(mine) - Len(shown)]

Repositories(rows) == {row.repository : row \in ToSet(rows)}

\* The sidebar's projects: every repository that is registered or has a task,
\* with its tasks, the newest first.
groupByProject(tasks, records) ==
  [r \in records \cup Repositories(tasks) |->
     NewestFirst(tasks, {i \in DOMAIN tasks : tasks[i].repository = r})]

\* What a project draws of its tasks.
ProjectRows(rows, expanded) ==
  [shown |-> IF expanded THEN rows ELSE FirstRows(rows), hidden |-> Len(rows) - Preview]

\* A list of documents: one group per repository, a group for those that apply
\* everywhere (repository Unset), and the archived ones apart.
groupByRepository(rows) ==
  [r \in Repositories(rows) |-> Kept(rows, {i \in DOMAIN rows : rows[i].repository = r})]

DocumentGroups(documents) ==
  [live |-> groupByRepository(Live(documents)),
   archived |-> Kept(documents, {i \in DOMAIN documents : documents[i].archived})]

=============================================================================
