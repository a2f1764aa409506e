----------------------------- MODULE RowActions -----------------------------
(***************************************************************************)
(* The rows and pages of the web application that act on one record each:  *)
(* memories, todos, the fields of a scratchpad or a skill, and the rows of *)
(* the sidebar (chats, tasks).  Each draws the copy its page loaded.  All  *)
(* but the sidebar's act through useAction, which marks the row busy,      *)
(* makes the call, says how it went, has the page loaded again and frees   *)
(* the row; the sidebar's rows make the call themselves.  Delete takes two *)
(* presses: useArmedConfirm on a memory, a flag that goes with its menu on *)
(* a todo or a document.  Agents change the same records at any time.      *)
(*                                                                         *)
(* The router is a library.  `router.invalidate()` is over before the data *)
(* is there: what is on screen is loaded in the background, and a row is   *)
(* freed with the copy it had.  While a loader runs, another invalidate    *)
(* may join it or have it asked again: an answer is `read` any number of   *)
(* times before it lands, and what was read last lands.  A loader that     *)
(* fails takes its page off the screen, with no way back but navigation;   *)
(* the root's loader has empty lists instead.  The module follows a page   *)
(* from its arrival to the end of its visit.                               *)
(*                                                                         *)
(* A record's editable field (the text of a memory; the status, priority,  *)
(* title or tags of a todo; the title of a document, a chat or a task) is  *)
(* one value; a document's repository and tags are not told apart.         *)
(* Every editor of it, whatever it looks like, does nothing when the new   *)
(* value is empty or the one shown, and otherwise sends the whole value.   *)
(***************************************************************************)
EXTENDS Naturals, FiniteSets

CONSTANTS
  Memory,      \* memory rows
  Todo,        \* todo rows
  Document,    \* pages of a scratchpad or a skill
  Side,        \* chat and task rows of the sidebar
  Value,       \* values of the field; Blank is what trims to nothing
  Blank,
  Closed,      \* no draft is open
  Pages,       \* the sets of rows a page draws together
  MaxWrites,   \* bound: writes to each record
  MaxFaults    \* bound: calls and loads that fail

Row == Memory \cup Todo \cup Document \cup Side
Busier == Memory \cup Todo \cup Document   \* the rows that act through useAction
Menued == Todo \cup Document               \* Delete is in a menu

ASSUME RowsAreTyped ==
  /\ Memory \cap Todo = {} /\ Document \cap (Memory \cup Todo) = {}
  /\ Side \cap Busier = {}
  /\ Value # {} /\ Blank \notin Value /\ Closed \notin Value \cup {Blank}
  /\ Pages \subseteq SUBSET Row
  /\ MaxWrites \in [Row -> Nat] /\ MaxFaults \in Nat

Op == {"save", "patch", "move", "tags", "approve", "delete", "archive", "restore"}
Item == [value : Value, approved : BOOLEAN, archived : BOOLEAN, writes : Nat]
Call == [row : Row, op : Op, value : Value,
         phase : {"sent", "done", "refused", "loading"}]

VARIABLES
  items,       \* the records at the orchestrator
  deleted,     \* records it no longer has
  shown,       \* the page's copy of each record
  gone,        \* rows the page does not draw
  loading,     \* rows whose loader runs
  answer,      \* what the loader read of each record
  absent,      \* rows the loader did not find
  draft,       \* the text being edited in a row, or Closed
  menu,        \* the row whose menu is open: at most one
  armed,       \* rows whose Delete was pressed once
  pending,     \* useAction's pending action of a row, or "none"
  calls,       \* calls on their way, up to the page loaded after them
  touched,     \* history: the row whose Delete the last press was on, if it was
  own,         \* history: per row, the record's writes after its last success
  missed,      \* history: rows whose success joined a load that had begun
  page,        \* the rows on the page, of those that exist
  faults

vars == <<items, deleted, shown, gone, loading, answer, absent, draft, menu, armed,
          pending, calls, touched, own, missed, page, faults>>

records == <<items, deleted, own>>
screen == <<shown, gone, loading, answer, absent, missed>>

\* A memory and a skill start as an agent's proposal.
FirstItem(r) ==
  [value |-> CHOOSE v \in Value : TRUE, approved |-> r \notin Memory \cup Document,
   archived |-> FALSE, writes |-> 0]

Init ==
  /\ items = [r \in Row |-> FirstItem(r)]
  /\ deleted = {}
  /\ shown = items /\ gone = {}
  /\ loading = {} /\ answer = items /\ absent = {} /\ missed = {}
  /\ draft = [r \in Row |-> Closed] /\ menu = {} /\ armed = {}
  /\ pending = [r \in Row |-> "none"]
  /\ calls = {}
  /\ touched = {}
  /\ own = [r \in Row |-> 0]
  /\ page \in Pages
  /\ faults = 0

-----------------------------------------------------------------------------
(* useAction.                                                              *)

Drawn(r) == r \in page \ gone
Busy(r) == pending[r] # "none"
NewCall(r, op, v) == [row |-> r, op |-> op, value |-> v, phase |-> "sent"]

\* The row whose Delete was pressed last, while nothing else was.
Touch(r, what) == touched' = IF what = "delete" THEN {r} ELSE {}

\* Mutant of ArmedElsewhere: a pointer elsewhere is not listened for.
ArmedForever == armed

\* What stays armed when a pointer lands elsewhere: a memory does not; the flag of
\* the others goes when their menu closes.
ArmedElsewhere == armed \cap Menued

\* Room for one more write to the record.
Room(r) ==
  items[r].writes + Cardinality({c \in calls : c.row = r}) < MaxWrites[r]

\* `run`, up to its await; onStart is the row's disarm, and the press that
\* started it disarmed every other row.
Run(r, op, v) ==
  /\ Room(r)
  /\ pending' = [pending EXCEPT ![r] = op]
  /\ armed' = ArmedElsewhere \ {r}
  /\ calls' = calls \cup {NewCall(r, op, v)}

\* `update` in the sidebar: the call alone, beside others of the row.  The same
\* change is not asked for twice at once: a bound.
Update(r, op, v) ==
  /\ Room(r) /\ NewCall(r, op, v) \notin calls
  /\ calls' = calls \cup {NewCall(r, op, v)}
  /\ armed' = ArmedElsewhere
  /\ UNCHANGED pending

-----------------------------------------------------------------------------
(* What a person does.  A pointer that lands outside the armed button, and *)
(* Escape, disarm a memory; closing its menu disarms any other row.        *)

\* MemoryRow opens its editor on the text shown; so does EditableTitle, and the
\* title of a document is such a field itself.
Edit(r) ==
  /\ r \in Busier /\ Drawn(r) /\ ~Busy(r) /\ draft[r] = Closed /\ menu = {}
  /\ draft' = [draft EXCEPT ![r] = shown[r].value]
  /\ Touch(r, "edit")
  /\ armed' = ArmedElsewhere
  /\ UNCHANGED <<records, screen, menu, pending, calls, page, faults>>

TypeDraft(r, v) ==
  /\ draft[r] # Closed /\ ~Busy(r) /\ draft[r] # v /\ Drawn(r) /\ menu = {}
  /\ draft' = [draft EXCEPT ![r] = v]
  /\ Touch(r, "type")
  /\ armed' = ArmedElsewhere
  /\ UNCHANGED <<records, screen, menu, pending, calls, page, faults>>

\* Cancel, or Escape in the field.  A todo's title can be cancelled while it is
\* saved.  A document's field, left as it was or blank, shows the title again.
CancelDraft(r) ==
  /\ draft[r] # Closed /\ Drawn(r) /\ menu = {}
  /\ r \notin Todo => ~Busy(r)
  /\ draft' = [draft EXCEPT ![r] = Closed]
  /\ Touch(r, "cancel")
  /\ armed' = ArmedElsewhere
  /\ UNCHANGED <<records, screen, menu, pending, calls, page, faults>>

Saves(r) ==
  /\ draft[r] \notin {Closed, Blank} /\ ~Busy(r) /\ Drawn(r) /\ menu = {}
  /\ Run(r, "save", draft[r])
  /\ Touch(r, "save")
  /\ UNCHANGED <<records, screen, draft, menu, page, faults>>

\* `save` of a memory: not when nothing changed.
SaveDraft(r) == r \in Memory /\ draft[r] # shown[r].value /\ Saves(r)

\* `submit` of EditableTitle.
SubmitTitle(r) == r \in Todo /\ Saves(r)

\* `rename` and `describe`: leaving the field saves it.
BlurTitle(r) == r \in Document /\ draft[r] # shown[r].value /\ Saves(r)

\* "Approve memory", and Approve in the menu of a skill: on a proposal only.
Approve(r) ==
  /\ r \in Memory \cup Document /\ Drawn(r) /\ ~Busy(r) /\ ~shown[r].approved
  /\ IF r \in Memory THEN draft[r] = Closed /\ menu = {} ELSE menu = {r}
  /\ Run(r, "approve", shown[r].value)
  /\ menu' = {}
  /\ Touch(r, "approve")
  /\ UNCHANGED <<records, screen, draft, page, faults>>

\* The menu of a todo or a document opens; any other menu closes.
OpenMenu(r) ==
  /\ r \in Menued /\ Drawn(r) /\ menu # {r}
  /\ r \in Document => ~Busy(r)
  /\ menu' = {r}
  /\ armed' = {}
  /\ Touch(r, "menu")
  /\ UNCHANGED <<records, screen, draft, pending, calls, page, faults>>

\* A click elsewhere, Escape, or Copy closes it: onOpenChange disarms.
CloseMenu(r) ==
  /\ menu = {r} /\ menu' = {}
  /\ armed' = armed \ {r}
  /\ Touch(r, "close")
  /\ UNCHANGED <<records, screen, draft, pending, calls, page, faults>>

Picks(r, op, v) ==
  /\ Drawn(r) /\ ~Busy(r)
  /\ Run(r, op, v)
  /\ menu' = {}
  /\ Touch(r, "pick")
  /\ UNCHANGED <<records, screen, draft, page, faults>>

\* Status and Priority in the menu of a todo.
PickInMenu(r, v) == menu = {r} /\ r \in Todo /\ Picks(r, "patch", v)

\* The chips of the todo page: not the value they show.
PickChip(r, v) ==
  menu = {} /\ r \in Todo /\ v # shown[r].value /\ Picks(r, "patch", v)

\* The repository of a document, chosen beside it; not the one it is in.
setRepository(r) == menu = {} /\ r \in Document /\ Picks(r, "move", shown[r].value)

\* The tags of a document: the whole list goes, as the page has it.
ChangeTags(r) == menu = {} /\ r \in Document /\ Picks(r, "tags", shown[r].value)

\* `archive`: the menu says which way.
ToggleArchive(r) ==
  /\ menu = {r} /\ r \in Document
  /\ Picks(r, IF shown[r].archived THEN "restore" ELSE "archive", shown[r].value)

Presses(r) ==
  /\ Drawn(r) /\ ~Busy(r)
  /\ Touch(r, "delete")
  /\ IF r \in armed
     THEN Run(r, "delete", shown[r].value) /\ menu' = {}
     ELSE /\ armed' = ArmedElsewhere \cup {r}
          /\ UNCHANGED <<menu, pending, calls>>
  /\ UNCHANGED <<records, screen, draft, page, faults>>

\* Delete of a memory: the first press arms, the second deletes.
PressDelete(r) == r \in Memory /\ draft[r] = Closed /\ menu = {} /\ Presses(r)

\* Delete in a menu, which the first press leaves open.
PressInMenu(r) == menu = {r} /\ Presses(r)

\* DISARM_MS is over, or Escape.
Disarm(r) ==
  /\ r \in armed \cap Memory
  /\ armed' = armed \ {r}
  /\ UNCHANGED <<records, screen, draft, menu, pending, calls, touched, page,
                 faults>>

\* Rename and Archive in the menu of a sidebar row; nothing is marked busy.
Rename(r, v) ==
  /\ r \in Side /\ Drawn(r) /\ menu = {} /\ v # shown[r].value
  /\ Update(r, "patch", v)
  /\ Touch(r, "rename")
  /\ UNCHANGED <<records, screen, draft, menu, page, faults>>

Archive(r) ==
  /\ r \in Side /\ Drawn(r) /\ menu = {}
  /\ Update(r, "archive", shown[r].value)
  /\ Touch(r, "archive")
  /\ UNCHANGED <<records, screen, draft, menu, page, faults>>

-----------------------------------------------------------------------------
(* The orchestrator.                                                       *)

\* What a call makes of the record; editing a memory is signing it off.
After(i, c) ==
  [value    |-> IF c.op \in {"save", "patch"} THEN c.value ELSE i.value,
   approved |-> i.approved \/ c.op = "approve"
                  \/ (c.op = "save" /\ c.row \in Memory),
   archived |-> IF c.op = "restore" THEN FALSE ELSE i.archived \/ c.op = "archive",
   writes   |-> i.writes + 1]

Advance(c, phase) == calls' = (calls \ {c}) \cup {[c EXCEPT !.phase = phase]}

\* A record that is gone is not found.  `lost` says the answer gets lost.
Serve(c, lost) ==
  /\ c.phase = "sent" /\ items[c.row].writes < MaxWrites[c.row]
  /\ IF c.row \in deleted THEN UNCHANGED records
     ELSE /\ items' = [items EXCEPT ![c.row] = After(items[c.row], c)]
          /\ deleted' = IF c.op = "delete" THEN deleted \cup {c.row} ELSE deleted
          /\ own' = IF lost THEN own
                    ELSE [own EXCEPT ![c.row] = items'[c.row].writes]
  /\ Advance(c, IF lost \/ c.row \in deleted THEN "refused" ELSE "done")
  /\ lost => faults < MaxFaults
  /\ faults' = IF lost THEN faults + 1 ELSE faults
  /\ UNCHANGED <<screen, draft, menu, armed, pending, touched, page>>

Refuse(c) ==
  /\ c.phase = "sent" /\ faults < MaxFaults /\ faults' = faults + 1
  /\ Advance(c, "refused")
  /\ UNCHANGED <<records, screen, draft, menu, armed, pending, touched, own, page>>

\* An agent or another window writes the record.
ElsewhereWrites(r, v) ==
  /\ r \in page \ deleted /\ Room(r)
  /\ v # items[r].value
  /\ items' = [items EXCEPT ![r] =
       [items[r] EXCEPT !.value = v, !.writes = items[r].writes + 1]]
  /\ UNCHANGED <<deleted, own, screen, draft, menu, armed, pending, calls, touched,
                 page, faults>>

ElsewhereDeletes(r) ==
  /\ r \in page \ deleted
  /\ deleted' = deleted \cup {r}
  /\ UNCHANGED <<items, own, screen, draft, menu, armed, pending, calls, touched,
                 page, faults>>

-----------------------------------------------------------------------------
(* The router.                                                             *)

\* The lists of the sidebar leave out what is archived.
Missing(r) == r \in deleted \/ (r \in Side /\ items[r].archived)

\* What has a loader: not a page that is gone.
Loadable == page \ (gone \cap Busier)

Reads(rows) ==
  /\ answer' = [r \in Row |-> IF r \in rows THEN items[r] ELSE answer[r]]
  /\ absent' = (absent \ rows) \cup {r \in rows : Missing(r)}

\* `invalidate`: a loader begins, or one that runs is joined, for `row`'s sake.
Invalidate(row) ==
  /\ Reads(Loadable \ loading)
  /\ loading' = loading \cup Loadable
  /\ missed' = (missed \ (Loadable \ loading)) \cup (row \cap loading)

\* Any other invalidate, a row of the sidebar under the pointer, a link.
Reload ==
  /\ Loadable \ loading # {}
  /\ Invalidate({})
  /\ UNCHANGED <<records, shown, gone, draft, menu, armed, pending, calls, touched,
                 page, faults>>

\* The loader reads the record later than it was asked, or is asked again.
Read(r) ==
  /\ r \in loading
  /\ Reads({r}) /\ missed' = missed \ {r}
  /\ UNCHANGED <<records, shown, gone, loading, draft, menu, armed, pending, calls,
                 touched, page, faults>>

\* Rows that go take along what is open in them.
Unmount(rows) ==
  /\ gone' = gone \cup rows
  /\ draft' = [r \in Row |-> IF r \in rows THEN Closed ELSE draft[r]]
  /\ menu' = menu \ rows /\ armed' = armed \ rows

\* The data is there.  The title of a document is mounted anew when it is another
\* (key={pad.title}), and what was typed in it is gone.
Land(r) ==
  /\ r \in loading /\ loading' = loading \ {r}
  /\ IF r \in absent
     THEN /\ Unmount({r})
          /\ answer' = [answer EXCEPT ![r] = shown[r]] /\ absent' = absent \ {r}
          /\ UNCHANGED shown
     ELSE /\ shown' = [shown EXCEPT ![r] = answer[r]] /\ gone' = gone \ {r}
          /\ draft' = IF r \in Document /\ answer[r].value # shown[r].value
                      THEN [draft EXCEPT ![r] = Closed] ELSE draft
          /\ UNCHANGED <<answer, absent, menu, armed>>
  /\ UNCHANGED <<records, missed, pending, calls, touched, page, faults>>

\* A list of the sidebar is empty then; a page shows an error in its place.
LoadFails(r) ==
  /\ r \in loading /\ faults < MaxFaults /\ faults' = faults + 1
  /\ LET rows == IF r \in Side THEN {r} ELSE page \ Side
     IN  /\ Unmount(rows)
         /\ loading' = loading \ rows /\ absent' = absent \ rows
         /\ answer' = [q \in Row |-> IF q \in rows THEN shown[q] ELSE answer[q]]
  /\ UNCHANGED <<records, shown, missed, pending, calls, touched, page>>

-----------------------------------------------------------------------------
(* The rest of `run`, and of `update`.                                     *)

\* Mutant of Succeed: the page is not loaded again.
SucceedStale(c) ==
  /\ c.phase = "done"
  /\ Advance(c, "loading")
  /\ UNCHANGED <<records, screen, draft, menu, armed, pending, touched, page, faults>>

\* The call returned: the toast, and the page is to be loaded again.
Succeed(c) ==
  /\ c.phase = "done"
  /\ Advance(c, "loading")
  /\ Invalidate({c.row})
  /\ UNCHANGED <<records, shown, gone, draft, menu, armed, pending, touched, page,
                 faults>>

\* The load is under way, or over: the row is released, the draft that was saved
\* closes.
Settle(c) ==
  /\ c.phase = "loading"
  /\ pending' = [pending EXCEPT ![c.row] = "none"]
  /\ draft' = IF c.op = "save" /\ c.row \notin Document
              THEN [draft EXCEPT ![c.row] = Closed] ELSE draft
  /\ calls' = calls \ {c}
  /\ UNCHANGED <<records, screen, menu, armed, touched, page, faults>>

\* Mutant of Fail: the draft closes whether or not it was saved.
FailClosing(c) ==
  /\ c.phase = "refused"
  /\ pending' = [pending EXCEPT ![c.row] = "none"]
  /\ draft' = [draft EXCEPT ![c.row] = Closed]
  /\ calls' = calls \ {c}
  /\ UNCHANGED <<records, screen, menu, armed, touched, page, faults>>

\* Mutant of Fail: `finally` is forgotten.
FailStuck(c) ==
  /\ c.phase = "refused"
  /\ calls' = calls \ {c}
  /\ UNCHANGED <<records, screen, draft, menu, armed, pending, touched, page,
                 faults>>

\* The call threw: the reason is the toast, the draft stays open.
Fail(c) ==
  /\ c.phase = "refused"
  /\ pending' = [pending EXCEPT ![c.row] = "none"]
  /\ calls' = calls \ {c}
  /\ UNCHANGED <<records, screen, draft, menu, armed, touched, page,
                 faults>>

Next ==
  \/ \E r \in Row :
       \/ Edit(r) \/ CancelDraft(r) \/ SaveDraft(r) \/ SubmitTitle(r) \/ BlurTitle(r)
       \/ Approve(r) \/ OpenMenu(r) \/ CloseMenu(r) \/ ToggleArchive(r)
       \/ ChangeTags(r) \/ setRepository(r)
       \/ PressDelete(r) \/ PressInMenu(r) \/ Disarm(r)
       \/ Archive(r) \/ ElsewhereDeletes(r)
       \/ Read(r) \/ Land(r) \/ LoadFails(r)
       \/ \E v \in Value :
            \/ TypeDraft(r, v) \/ PickInMenu(r, v) \/ PickChip(r, v) \/ Rename(r, v)
            \/ ElsewhereWrites(r, v)
       \/ TypeDraft(r, Blank)
  \/ \E c \in calls :
       \/ \E lost \in BOOLEAN : Serve(c, lost)
       \/ Refuse(c) \/ Succeed(c) \/ Settle(c) \/ Fail(c)
  \/ Reload

\* Calls are served and answered; nobody is made to press anything.
Fairness ==
  \A r \in Row :
    WF_vars(\E c \in calls : c.row = r /\ (Serve(c, FALSE) \/ Succeed(c)
                                         \/ Settle(c) \/ Fail(c)))

Spec == Init /\ [][Next]_vars /\ Fairness

-----------------------------------------------------------------------------

TypeOK ==
  /\ items \in [Row -> Item] /\ deleted \subseteq Row
  /\ shown \in [Row -> Item] /\ gone \subseteq Row
  /\ answer \in [Row -> Item] /\ missed \subseteq Row
  /\ absent \subseteq loading /\ loading \subseteq Loadable
  /\ draft \in [Row -> Value \cup {Blank, Closed}]
  /\ menu = {} \/ \E r \in Menued : menu = {r}
  /\ armed \subseteq Busier
  /\ pending \in [Row -> Op \cup {"none"}]
  /\ calls \in SUBSET Call
  /\ own \in [Row -> Nat] /\ page \in Pages
  /\ touched \subseteq Busier /\ faults \in 0 .. MaxFaults

\* A row that acts through useAction takes no press while a call of its own is
\* on its way, so its calls never overtake each other; and once free it is not
\* left marked.
BusyWhileCalling ==
  \A r \in Busier :
    /\ Cardinality({c \in calls : c.row = r}) <= 1
    /\ Busy(r) <=> \E c \in calls : c.row = r

\* Two presses on the same Delete, and no pointer anywhere else in between,
\* stand behind every deletion the page asks for.
DeletedOnPurpose ==
  [][\A r \in Row :
       (\E c \in calls' \ calls : c.row = r /\ c.op = "delete")
         /\ (~\E c \in calls : c.row = r /\ c.op = "delete")
       => touched = {r}]_vars

\* "Callers clear local state on success only": the draft of a memory or of a
\* todo's title disappears when the person cancels it, when it was saved, or with
\* its row.
DraftKept ==
  [][\A r \in Memory \cup Todo : draft[r] # Closed /\ draft'[r] = Closed =>
       \/ UNCHANGED <<calls, screen>>
       \/ r \in gone'
       \/ \E c \in calls : /\ c.row = r /\ c.op = "save" /\ c.phase = "loading"
                          /\ c.value = draft[r]]_vars

\* A row is freed before the page is loaded again and can show for a while less
\* than it wrote.  Once its calls and the loaders are done it shows at least what
\* its last success wrote, unless that success joined a load from before.
ReadsItsWrites ==
  \A r \in Row \ (gone \cup loading \cup missed) :
    (~\E c \in calls : c.row = r) => shown[r].writes >= own[r]

\* Every action comes to an end and releases its row.
RowsAreReleased == \A r \in Row : Busy(r) ~> ~Busy(r)

=============================================================================
