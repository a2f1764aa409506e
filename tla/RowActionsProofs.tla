-------------------------- MODULE RowActionsProofs --------------------------
(***************************************************************************)
(* Proofs about RowActions, for any rows, pages, values and bounds: a row  *)
(* comes to show what it wrote, a deletion is two presses in a row, a      *)
(* draft goes only when it was saved or cancelled, or with its row.        *)
(*                                                                         *)
(* The last two rest on a row that acts through useAction having at most   *)
(* one call on its way, which the busy mark sees to.  DeletedOnPurpose     *)
(* needs what an armed button says of the last press and of the menu       *)
(* (ArmedLast); ReadsItsWrites needs that a success which was not read yet *)
(* still has its call, joined a load, or lost its row (WritesComeBack).    *)
(***************************************************************************)
EXTENDS RowActions, FiniteSetTheorems, TLAPS

OneCall == \A c, d \in calls : c.row = d.row /\ c.row \in Busier => c = d

MarkedWhileCalling ==
  \A r \in Row : Busy(r) <=> r \in Busier /\ \E c \in calls : c.row = r

CallsOnPage == \A c \in calls : c.row \in page

\* What is read is shown in the end, or was told not to be.
Comes(r) ==
  \/ own[r] <= answer[r].writes
  \/ r \in missed \/ r \in absent \/ (r \in gone /\ r \notin loading)

Returned(r) == \E c \in calls : c.row = r /\ c.phase = "done"

WritesComeBack ==
  \A r \in Row :
    /\ own[r] <= items[r].writes
    /\ r \notin loading => answer[r] = shown[r]
    /\ Comes(r) \/ Returned(r)

SavesTheDraft ==
  \A c \in calls : c.op = "save" /\ c.row \in Memory \cup Todo =>
    draft[c.row] \in {c.value, Closed}

ArmedLast ==
  \A r \in armed : touched = {r} /\ menu = IF r \in Menued THEN {r} ELSE {}

CallsFit ==
  OneCall /\ MarkedWhileCalling /\ CallsOnPage /\ WritesComeBack /\ SavesTheDraft

Inv == TypeOK /\ CallsFit /\ ArmedLast

-----------------------------------------------------------------------------
(* What every step does to the calls is one of these.                      *)

\* A press that makes no call.  A draft changes only on a row that is free, or
\* closes.
NoCall ==
  /\ UNCHANGED <<records, screen, pending, calls, page, faults>>
  /\ \A r \in Row : draft'[r] = draft[r] \/ ~Busy(r) \/ draft'[r] = Closed

\* A press that makes one.
Starts(r, op, v) ==
  /\ r \in page /\ (r \in Busier => ~\E c \in calls : c.row = r)
  /\ calls' = calls \cup {NewCall(r, op, v)}
  /\ pending' = IF r \in Busier THEN [pending EXCEPT ![r] = op] ELSE pending
  /\ op = "save" => draft[r] = v
  /\ op = "delete" => r \in armed
  /\ UNCHANGED <<records, screen, draft, page, faults>>

MakesCall == \E r \in Row, op \in Op, v \in Value : Starts(r, op, v)

\* What the calls do leaves the presses alone; a row that goes is disarmed.
Untouched == UNCHANGED <<menu, armed, touched, page>>

-----------------------------------------------------------------------------
(* The presses.                                                            *)

LEMMA RowsApart ==
  /\ Busier \subseteq Row /\ Menued \subseteq Busier
  /\ Row = Busier \cup Side /\ Busier \cap Side = {}
  /\ Memory \cap Menued = {} /\ Busier = Memory \cup Menued
BY RowsAreTyped DEF Row, Busier, Menued

LEMMA FreeRowHasNoCall ==
  ASSUME Inv, NEW r \in Busier, ~Busy(r)
  PROVE  ~\E c \in calls : c.row = r
BY RowsApart DEF Inv, CallsFit, MarkedWhileCalling

LEMMA RunStarts ==
  ASSUME Inv, NEW r \in Busier, NEW op \in Op, NEW STATE v, v \in Value,
         ~Busy(r), Drawn(r), Run(r, op, v), op = "save" => draft[r] = v,
         op = "delete" => r \in armed,
         UNCHANGED <<records, screen, draft, page, faults>>
  PROVE  MakesCall
<1>1. Starts(r, op, v)
  BY FreeRowHasNoCall DEF Run, Starts, Drawn
<1>2. QED
  BY <1>1, RowsApart DEF MakesCall

PressTyped ==
  /\ draft \in [Row -> Value \cup {Blank, Closed}]
  /\ menu = {} \/ \E r \in Menued : menu = {r}
  /\ armed \subseteq Busier /\ touched \subseteq Busier

Press == (NoCall \/ MakesCall) /\ ArmedLast' /\ PressTyped'

\* A press elsewhere than on Delete, with every menu closed, disarms all rows.
LEMMA ElsewhereDisarms ==
  ASSUME Inv, menu = {}, armed' = ArmedElsewhere
  PROVE  armed' = {}
BY RowsApart DEF Inv, ArmedLast, ArmedElsewhere

LEMMA Drafting ==
  ASSUME Inv, NEW r \in Row, NEW STATE v, v \in Value \cup {Blank, Closed},
         draft' = [draft EXCEPT ![r] = v], ~Busy(r) \/ v = Closed,
         menu = {}, armed' = ArmedElsewhere, touched' = {},
         UNCHANGED <<records, screen, menu, pending, calls, page, faults>>
  PROVE  Press
<1>1. PressTyped
  BY DEF Inv, TypeOK, PressTyped
<1>2. armed' = {}
  BY ElsewhereDisarms
<1>3. \A q \in Row : draft'[q] = IF q = r THEN v ELSE draft[q]
  BY <1>1 DEF PressTyped
<1>4. draft' \in [Row -> Value \cup {Blank, Closed}]
  BY <1>1 DEF PressTyped
<1>5. menu' = {} \/ \E q \in Menued : menu' = {q}
  BY <1>1 DEF PressTyped
<1>6. NoCall
  BY <1>3 DEF NoCall
<1>7. QED
  BY <1>2, <1>4, <1>5, <1>6 DEF Press, PressTyped, ArmedLast

LEMMA Running ==
  ASSUME Inv, NEW r \in Busier, NEW op \in Op, NEW STATE v, v \in Value,
         ~Busy(r), Drawn(r), Run(r, op, v), op = "save" => draft[r] = v,
         op = "delete" => r \in armed, touched' = {} \/ touched' = {r},
         IF r \in Menued THEN menu \in {{}, {r}} ELSE menu = {},
         menu' \in {{}, menu},
         UNCHANGED <<records, screen, draft, page, faults>>
  PROVE  Press
<1>1. PressTyped
  BY DEF Inv, TypeOK, PressTyped
<1>2. MakesCall
  BY RunStarts
<1>3. armed' = {}
  BY RowsApart DEF Run, Inv, ArmedLast, ArmedElsewhere
<1>4. menu' = {} \/ \E q \in Menued : menu' = {q}
  BY <1>1 DEF PressTyped
<1>5. draft' \in [Row -> Value \cup {Blank, Closed}] /\ touched' \subseteq Busier
  BY <1>1 DEF PressTyped
<1>6. QED
  BY <1>2, <1>3, <1>4, <1>5 DEF Press, PressTyped, ArmedLast

LEMMA RowValue ==
  ASSUME Inv, NEW r \in Row
  PROVE  shown[r].value \in Value /\ Closed \notin Value /\ Blank \notin Value
BY RowsAreTyped DEF Inv, TypeOK, Item

LEMMA EditPress == ASSUME Inv, NEW r \in Row, Edit(r) PROVE Press
BY RowValue, Drafting DEF Edit, Touch

LEMMA TypeDraftPress ==
  ASSUME Inv, NEW r \in Row, NEW v \in Value \cup {Blank}, TypeDraft(r, v)
  PROVE  Press
BY Drafting DEF TypeDraft, Touch

LEMMA CancelDraftPress == ASSUME Inv, NEW r \in Row, CancelDraft(r) PROVE Press
BY Drafting DEF CancelDraft, Touch

LEMMA SavesPress == ASSUME Inv, NEW r \in Busier, Saves(r) PROVE Press
<1>1. draft[r] \in Value
  BY RowsApart DEF Saves, Inv, TypeOK
<1>2. Run(r, "save", draft[r]) /\ ~Busy(r) /\ Drawn(r) /\ menu = {} /\ menu' = menu /\ touched' = {}
  BY DEF Saves, Touch
<1>3. UNCHANGED <<records, screen, draft, page, faults>>
  BY DEF Saves
<1>4. "save" \in Op
  BY DEF Op
<1> QED
  BY <1>1, <1>2, <1>3, <1>4, Running

LEMMA ApprovePress == ASSUME Inv, NEW r \in Row, Approve(r) PROVE Press
<1>1. r \in Busier /\ (r \in Memory => r \notin Menued) /\ (r \notin Memory => r \in Menued)
  BY RowsApart DEF Approve, Busier, Menued
<1>2. /\ Run(r, "approve", shown[r].value) /\ ~Busy(r) /\ Drawn(r)
      /\ menu' = {} /\ touched' = {}
      /\ UNCHANGED <<records, screen, draft, page, faults>>
      /\ IF r \in Memory THEN menu = {} ELSE menu = {r}
  BY DEF Approve, Touch
<1>3. "approve" \in Op
  BY DEF Op
<1> QED
  BY <1>1, <1>2, <1>3, RowValue, Running

LEMMA PicksPress ==
  ASSUME Inv, NEW r \in Menued, NEW op \in Op \ {"save", "delete"},
         NEW STATE v, v \in Value, menu \in {{}, {r}}, Picks(r, op, v)
  PROVE  Press
BY Running, RowsApart DEF Picks, Touch

LEMMA PickInMenuPress ==
  ASSUME Inv, NEW r \in Row, NEW v \in Value, PickInMenu(r, v) PROVE Press
BY PicksPress DEF PickInMenu, Op, Menued

LEMMA PickChipPress ==
  ASSUME Inv, NEW r \in Row, NEW v \in Value, PickChip(r, v) PROVE Press
BY PicksPress DEF PickChip, Op, Menued

LEMMA setRepositoryPress == ASSUME Inv, NEW r \in Row, setRepository(r) PROVE Press
BY PicksPress, RowValue DEF setRepository, Op, Menued

LEMMA ChangeTagsPress == ASSUME Inv, NEW r \in Row, ChangeTags(r) PROVE Press
BY PicksPress, RowValue DEF ChangeTags, Op, Menued

LEMMA ToggleArchivePress == ASSUME Inv, NEW r \in Row, ToggleArchive(r) PROVE Press
<1>1. r \in Menued /\ menu = {r} /\ {"archive", "restore"} \subseteq Op \ {"save", "delete"}
  BY DEF ToggleArchive, Menued, Op
<1>2. CASE shown[r].archived
  BY <1>1, <1>2, PicksPress, RowValue DEF ToggleArchive
<1>3. CASE ~shown[r].archived
  BY <1>1, <1>3, PicksPress, RowValue DEF ToggleArchive
<1>4. QED
  BY <1>2, <1>3

LEMMA Deleting ==
  ASSUME Inv, NEW r \in Busier, Presses(r), menu = IF r \in Menued THEN {r} ELSE {}
  PROVE  Press
<1>1. CASE r \in armed
  BY <1>1, RowValue, RowsApart, Running DEF Presses, Touch, Op
<1>2. CASE r \notin armed
  <2>1. PressTyped
    BY DEF Inv, TypeOK, PressTyped
  <2>2. armed' = {r} /\ touched' = {r} /\ menu' = menu
    BY <1>2, RowsApart DEF Presses, Touch, Inv, ArmedLast, ArmedElsewhere
  <2>3. NoCall
    BY <1>2 DEF Presses, NoCall
  <2>4. UNCHANGED draft
    BY DEF Presses
  <2>5. PressTyped'
    BY <2>1, <2>2, <2>4 DEF PressTyped
  <2>6. QED
    BY <2>2, <2>3, <2>5 DEF Press, ArmedLast
<1>3. QED
  BY <1>1, <1>2

LEMMA PressDeletePress == ASSUME Inv, NEW r \in Row, PressDelete(r) PROVE Press
BY Deleting, RowsApart DEF PressDelete

LEMMA PressInMenuPress == ASSUME Inv, NEW r \in Row, PressInMenu(r) PROVE Press
<1>1. r \in Menued /\ menu = {r}
  BY DEF PressInMenu, Inv, TypeOK
<1>2. QED
  BY <1>1, Deleting, RowsApart DEF PressInMenu

\* Opening a menu, closing one, and what disarms a row by itself.
LEMMA MenuPress ==
  ASSUME Inv, NEW r \in Row, OpenMenu(r) \/ CloseMenu(r) \/ Disarm(r)
  PROVE  Press
<1>1. PressTyped
  BY DEF Inv, TypeOK, PressTyped
<1>2. NoCall /\ UNCHANGED draft
  BY DEF OpenMenu, CloseMenu, Disarm, NoCall
<1>3. armed' \subseteq armed /\ touched' \subseteq Busier
  BY <1>1 DEF OpenMenu, CloseMenu, Disarm, Touch, PressTyped
<1>4. menu' = {} \/ \E q \in Menued : menu' = {q}
  <2>1. menu' = {} \/ menu' = menu \/ \E q \in Menued : menu' = {q}
    BY DEF OpenMenu, CloseMenu, Disarm
  <2>2. QED
    BY <1>1, <2>1 DEF PressTyped
<1>5. ArmedLast'
  <2>1. CASE OpenMenu(r) \/ CloseMenu(r)
    BY <2>1, RowsApart DEF OpenMenu, CloseMenu, Inv, ArmedLast
  <2>2. CASE Disarm(r)
    BY <2>2 DEF Disarm, Inv, ArmedLast
  <2>3. QED
    BY <2>1, <2>2
<1>6. QED
  BY <1>1, <1>2, <1>3, <1>4, <1>5 DEF Press, PressTyped

\* The rows of the sidebar, which are never busy.
LEMMA SidePress ==
  ASSUME Inv, NEW r \in Row, NEW v \in Value, Rename(r, v) \/ Archive(r)
  PROVE  Press
<1>1. PressTyped
  BY DEF Inv, TypeOK, PressTyped
<1>2. armed' = {} /\ menu' = {} /\ touched' = {} /\ UNCHANGED draft
  BY ElsewhereDisarms DEF Rename, Archive, Update, Touch
<1>3. MakesCall
  <2>1. r \notin Busier /\ {"patch", "archive"} \subseteq Op
    BY RowsApart DEF Rename, Archive, Op
  <2>2. CASE Rename(r, v)
    <3>1. Starts(r, "patch", v)
      BY <2>1, <2>2 DEF Rename, Update, Starts, Drawn
    <3>2. QED
      BY <2>1, <3>1 DEF MakesCall
  <2>3. CASE Archive(r)
    <3>1. Starts(r, "archive", shown[r].value)
      BY <2>1, <2>3 DEF Archive, Update, Starts, Drawn
    <3>2. QED
      BY <2>1, <3>1, RowValue DEF MakesCall
  <2>4. QED
    BY <2>2, <2>3
<1>4. QED
  BY <1>1, <1>2, <1>3 DEF Press, PressTyped, ArmedLast

-----------------------------------------------------------------------------
(* The calls.                                                              *)

CallsTyped ==
  /\ items \in [Row -> Item] /\ deleted \subseteq Row
  /\ shown \in [Row -> Item] /\ gone \subseteq Row
  /\ answer \in [Row -> Item] /\ missed \subseteq Row
  /\ absent \subseteq loading /\ loading \subseteq Loadable
  /\ pending \in [Row -> Op \cup {"none"}] /\ calls \in SUBSET Call
  /\ own \in [Row -> Nat] /\ page \in Pages /\ faults \in 0 .. MaxFaults

LEMMA TypedApart == TypeOK <=> CallsTyped /\ PressTyped
BY DEF TypeOK, CallsTyped, PressTyped

Fits == CallsTyped /\ CallsFit

LEMMA InvFits == Inv => Fits
BY TypedApart DEF Inv, Fits

LEMMA PagesOfRows == \A p \in Pages : p \subseteq Row
BY RowsAreTyped

LEMMA NoCallKeeps == ASSUME Fits, NoCall PROVE Fits'
<1>1. CallsTyped'
  BY DEF Fits, CallsTyped, NoCall, records, screen, Loadable
<1>2. OneCall' /\ MarkedWhileCalling' /\ CallsOnPage' /\ WritesComeBack'
  BY DEF Fits, CallsFit, OneCall, MarkedWhileCalling, CallsOnPage, WritesComeBack,
         Comes, Returned, NoCall, records, screen, Busy
<1>3. SavesTheDraft'
  <2> SUFFICES ASSUME NEW c \in calls, c.op = "save", c.row \in Memory \cup Todo
               PROVE  draft'[c.row] \in {c.value, Closed}
    BY DEF SavesTheDraft, NoCall
  <2>1. c.row \in Row /\ Busy(c.row)
    BY DEF Fits, CallsFit, MarkedWhileCalling, Row, Busier
  <2>2. QED
    BY <2>1 DEF Fits, CallsFit, SavesTheDraft, NoCall
<1>4. QED
  BY <1>1, <1>2, <1>3 DEF Fits, CallsFit

LEMMA MakesCallKeeps == ASSUME Fits, MakesCall PROVE Fits'
<1>1. PICK r \in Row, op \in Op, v \in Value : Starts(r, op, v)
  BY DEF MakesCall
<1> DEFINE new == NewCall(r, op, v)
<1>2. /\ new \in Call /\ new.row = r /\ new.op = op /\ new.value = v
      /\ new.phase = "sent"
  BY DEF NewCall, Call
<1>3. calls' = calls \cup {new} /\ (r \in Busier => \A c \in calls : c.row # r)
  BY <1>1 DEF Starts
<1> HIDE DEF new
<1>4. \A q \in Row : pending'[q] = IF q = r /\ r \in Busier THEN op ELSE pending[q]
  BY <1>1 DEF Fits, CallsTyped, Starts
<1>5. UNCHANGED <<items, deleted, shown, gone, loading, answer, absent, missed, draft, own,
                  page, faults>>
  BY <1>1 DEF Starts, records, screen
<1>6. CallsTyped'
  <2>1. pending' \in [Row -> Op \cup {"none"}]
    BY <1>1 DEF Fits, CallsTyped, Starts
  <2>2. calls' \in SUBSET Call
    BY <1>2, <1>3 DEF Fits, CallsTyped
  <2>3. QED
    BY <1>5, <2>1, <2>2 DEF Fits, CallsTyped, Loadable
<1>7. OneCall'
  BY <1>2, <1>3 DEF Fits, CallsFit, OneCall
<1>8. MarkedWhileCalling'
  <2>1. op # "none"
    BY DEF Op
  <2> SUFFICES ASSUME NEW q \in Row
               PROVE  pending'[q] # "none" <=>
                        q \in Busier /\ \E c \in calls' : c.row = q
    BY DEF MarkedWhileCalling, Busy
  <2>2. pending[q] # "none" <=> q \in Busier /\ \E c \in calls : c.row = q
    BY DEF Fits, CallsFit, MarkedWhileCalling, Busy
  <2>3. CASE q = r
    BY <1>2, <1>3, <1>4, <2>1, <2>2, <2>3
  <2>4. CASE q # r
    BY <1>2, <1>3, <1>4, <2>2, <2>4
  <2>5. QED
    BY <2>3, <2>4
<1>9. CallsOnPage'
  BY <1>1, <1>2, <1>3, <1>5 DEF Fits, CallsFit, CallsOnPage, Starts
<1>10. WritesComeBack'
  BY <1>3, <1>5 DEF Fits, CallsFit, WritesComeBack, Comes, Returned
<1>11. SavesTheDraft'
  <2> SUFFICES ASSUME NEW c \in calls', c.op = "save", c.row \in Memory \cup Todo
               PROVE  draft[c.row] \in {c.value, Closed}
    BY <1>5 DEF SavesTheDraft
  <2>1. CASE c \in calls
    BY <2>1 DEF Fits, CallsFit, SavesTheDraft
  <2>2. CASE c = new
    BY <1>1, <1>2, <2>2 DEF Starts
  <2>3. QED
    BY <1>3, <2>1, <2>2
<1>12. QED
  BY <1>6, <1>7, <1>8, <1>9, <1>10, <1>11 DEF Fits, CallsFit

\* A call that goes on is the same call in its next phase.
LEMMA Advancing ==
  ASSUME CallsTyped, OneCall, NEW c \in calls,
         NEW STATE phase, phase \in {"sent", "done", "refused", "loading"},
         Advance(c, phase)
  PROVE  /\ calls' \in SUBSET Call
         /\ OneCall'
         /\ \E d \in calls' :
              /\ d.row = c.row /\ d.op = c.op /\ d.value = c.value /\ d.phase = phase
              /\ calls' = (calls \ {c}) \cup {d}
<1> DEFINE next == [c EXCEPT !.phase = phase]
<1>1. /\ next \in Call /\ next.row = c.row /\ next.op = c.op
      /\ next.value = c.value /\ next.phase = phase
  BY DEF CallsTyped, Call
<1>2. calls' = (calls \ {c}) \cup {next}
  BY DEF Advance
<1> HIDE DEF next
<1>3. calls' \in SUBSET Call
  BY <1>1, <1>2 DEF CallsTyped
<1>4. OneCall'
  BY <1>1, <1>2 DEF OneCall
<1>5. QED
  BY <1>1, <1>2, <1>3, <1>4

\* What does not depend on the phase of a call.
Marks == OneCall /\ MarkedWhileCalling /\ CallsOnPage /\ SavesTheDraft

LEMMA AdvancingKeepsMarks ==
  ASSUME Fits, NEW c \in calls,
         NEW STATE phase, phase \in {"done", "refused", "loading"},
         Advance(c, phase), UNCHANGED <<pending, draft, page>>
  PROVE  Marks'
<1>1. CallsTyped /\ OneCall
  BY DEF Fits, CallsFit
<1>2. PICK d \in calls' :
        /\ d.row = c.row /\ d.op = c.op /\ d.value = c.value
        /\ calls' = (calls \ {c}) \cup {d}
  BY <1>1, Advancing
<1>3. \A r : (\E e \in calls' : e.row = r) <=> (\E e \in calls : e.row = r)
  BY <1>2
<1>4. MarkedWhileCalling'
  BY <1>3 DEF Fits, CallsFit, MarkedWhileCalling, Busy
<1>5. SavesTheDraft' /\ CallsOnPage'
  BY <1>2 DEF Fits, CallsFit, SavesTheDraft, CallsOnPage
<1>6. QED
  BY <1>1, <1>4, <1>5, Advancing DEF Marks

\* A row whose call is not at its return has returned if and only if it had.
LEMMA ReturnedStays ==
  ASSUME Fits, NEW c \in calls,
         NEW STATE phase, phase \in {"done", "refused", "loading"},
         Advance(c, phase), NEW r \in Row, Returned(r), c.phase # "done" \/ c.row # r
  PROVE  Returned(r)'
<1>1. CallsTyped /\ OneCall
  BY DEF Fits, CallsFit
<1>2. PICK d \in calls' : calls' = (calls \ {c}) \cup {d}
  BY <1>1, Advancing
<1>3. QED
  BY <1>2 DEF Returned

LEMMA RefuseAdvance ==
  ASSUME Fits, NEW c \in calls, Advance(c, "refused"), c.phase = "sent",
         faults' \in 0 .. MaxFaults,
         UNCHANGED <<records, screen, draft, pending, page>>
  PROVE  Fits'
<1>1. CallsTyped /\ OneCall
  BY DEF Fits, CallsFit
<1>2. calls' \in SUBSET Call
  BY <1>1, Advancing
<1>3. CallsTyped'
  BY <1>1, <1>2 DEF CallsTyped, screen, records, Loadable
<1>4. WritesComeBack'
  <2> SUFFICES ASSUME NEW r \in Row
               PROVE  Comes(r) \/ Returned(r)'
    BY DEF Fits, CallsFit, WritesComeBack, Comes, screen, records
  <2>1. QED
    BY ReturnedStays DEF Fits, CallsFit, WritesComeBack
<1>5. Marks'
  BY AdvancingKeepsMarks
<1>6. QED
  BY <1>3, <1>4, <1>5 DEF Fits, CallsFit, Marks

LEMMA ServeKeeps ==
  ASSUME Fits, NEW c \in calls, NEW lost \in BOOLEAN, Serve(c, lost)
  PROVE  Fits'
<1> DEFINE phase == IF lost \/ c.row \in deleted THEN "refused" ELSE "done"
<1>1. CallsTyped /\ OneCall /\ c.row \in Row /\ c.value \in Value /\ RowsAreTyped
  BY RowsAreTyped DEF Fits, CallsFit, CallsTyped, Call
<1>2. faults' \in 0 .. MaxFaults
  BY <1>1 DEF Serve, CallsTyped, RowsAreTyped
<1>3. CASE c.row \in deleted
  BY <1>2, <1>3, RefuseAdvance DEF Serve
<1>4. CASE c.row \notin deleted
  <2>1. phase \in {"done", "refused"} /\ Advance(c, phase) /\ (phase = "done" <=> ~lost)
    BY <1>4 DEF Serve
  <2> HIDE DEF phase
  <2>2. calls' \in SUBSET Call /\ \E d \in calls' : d.row = c.row /\ d.phase = phase
    BY <1>1, <2>1, Advancing
  <2>3. Marks'
    BY <2>1, AdvancingKeepsMarks DEF Serve
  <2>4. items[c.row].writes \in Nat
    BY <1>1 DEF CallsTyped, Item
  <2>5. After(items[c.row], c) \in Item
        /\ After(items[c.row], c).writes = items[c.row].writes + 1
    <3>1. items[c.row].approved \in BOOLEAN /\ items[c.row].archived \in BOOLEAN
          /\ items[c.row].value \in Value
      BY <1>1 DEF CallsTyped, Item
    <3>2. items[c.row].writes + 1 \in Nat
      BY <2>4
    <3>3. (IF c.op \in {"save", "patch"} THEN c.value ELSE items[c.row].value) \in Value
      BY <1>1, <3>1
    <3>4. (items[c.row].approved \/ c.op = "approve" \/ (c.op = "save" /\ c.row \in Memory))
             \in BOOLEAN
      OBVIOUS
    <3>5. (IF c.op = "restore" THEN FALSE ELSE items[c.row].archived \/ c.op = "archive")
             \in BOOLEAN
      OBVIOUS
    <3>6. QED
      BY <3>2, <3>3, <3>4, <3>5 DEF After, Item
  <2>6. items' = [items EXCEPT ![c.row] = After(items[c.row], c)]
    BY <1>4 DEF Serve
  <2>7. /\ items' \in [Row -> Item]
        /\ \A r \in Row : items'[r] = IF r = c.row THEN After(items[c.row], c) ELSE items[r]
    BY <1>1, <2>5, <2>6 DEF CallsTyped
  <2>8. own' = IF lost THEN own ELSE [own EXCEPT ![c.row] = items'[c.row].writes]
    BY <1>4 DEF Serve
  <2>9. items'[c.row].writes \in Nat
    BY <1>1, <2>7 DEF Item
  <2>10. /\ own' \in [Row -> Nat]
         /\ \A r \in Row : own'[r] = IF r = c.row /\ ~lost THEN items'[r].writes ELSE own[r]
    BY <1>1, <2>8, <2>9 DEF CallsTyped
  <2>11. CallsTyped'
    <3>1. deleted' \subseteq Row
          /\ UNCHANGED <<shown, gone, loading, answer, absent, missed, pending, page>>
      BY <1>1, <1>4 DEF Serve, CallsTyped, screen
    <3>2. QED
      BY <1>1, <1>2, <2>2, <2>7, <2>10, <3>1 DEF CallsTyped, Loadable
  <2>12. WritesComeBack'
    <3> SUFFICES ASSUME NEW r \in Row
                 PROVE  own'[r] <= items'[r].writes /\ (Comes(r)' \/ Returned(r)')
      BY DEF WritesComeBack, Serve, screen, Fits, CallsFit
    <3>1. own[r] <= items[r].writes /\ (Comes(r) \/ Returned(r)) /\ own[r] \in Nat
      BY <1>1 DEF Fits, CallsFit, WritesComeBack, CallsTyped
    <3>2. CASE r # c.row \/ lost
      <4>1. own'[r] = own[r]
        BY <2>10, <3>2
      <4>2. own'[r] <= items'[r].writes
        BY <2>4, <2>5, <2>7, <3>1, <3>2, <4>1
      <4>3. Comes(r) => Comes(r)'
        BY <4>1 DEF Comes, Serve, screen
      <4>4. Returned(r) => Returned(r)'
        BY <2>1, ReturnedStays DEF Serve
      <4>5. QED
        BY <3>1, <4>2, <4>3, <4>4
    <3>3. CASE r = c.row /\ ~lost
      <4>1. own'[r] = items'[r].writes /\ items'[r].writes \in Nat
        BY <2>9, <2>10, <3>3
      <4>2. QED
        BY <2>1, <2>2, <3>3, <4>1 DEF Returned
    <3>4. QED
      BY <3>2, <3>3
  <2>13. QED
    BY <2>3, <2>11, <2>12 DEF Fits, CallsFit, Marks
<1>5. QED
  BY <1>3, <1>4

LEMMA RefuseKeeps == ASSUME Fits, NEW c \in calls, Refuse(c) PROVE Fits'
<1>1. faults' \in 0 .. MaxFaults
  BY RowsAreTyped DEF Refuse, Fits, CallsTyped
<1>2. QED
  BY <1>1, RefuseAdvance DEF Refuse

-----------------------------------------------------------------------------
(* The loaders.                                                            *)

LoaderTyped ==
  /\ shown \in [Row -> Item] /\ gone \subseteq Row
  /\ answer \in [Row -> Item] /\ missed \subseteq Row
  /\ absent \subseteq loading /\ loading \subseteq Loadable

\* What was there comes all the same, and so does what the loader is asked for.
LEMMA Invalidating ==
  ASSUME Fits, NEW STATE rows, rows \subseteq Row \cap page, Invalidate(rows),
         UNCHANGED <<records, shown, gone, page>>
  PROVE  /\ LoaderTyped'
         /\ \A r \in Row : r \notin loading' => answer'[r] = shown'[r]
         /\ \A r \in Row : Comes(r) \/ r \in rows => Comes(r)'
<1>1. /\ LoaderTyped /\ page \subseteq Row /\ items \in [Row -> Item]
      /\ \A r \in Row : own[r] <= items[r].writes /\ (r \notin loading => answer[r] = shown[r])
  BY PagesOfRows DEF Fits, CallsTyped, CallsFit, WritesComeBack, LoaderTyped
<1>2. /\ answer' = [r \in Row |-> IF r \in Loadable \ loading THEN items[r] ELSE answer[r]]
      /\ absent' = (absent \ (Loadable \ loading))
                     \cup {r \in Loadable \ loading : Missing(r)}
      /\ loading' = loading \cup Loadable
      /\ missed' = (missed \ (Loadable \ loading)) \cup (rows \cap loading)
  BY DEF Invalidate, Reads
<1>3. Loadable' = Loadable /\ UNCHANGED <<own, items>>
  BY DEF Loadable, records
<1>4. LoaderTyped'
  <2>1. answer' \in [Row -> Item]
    BY <1>1, <1>2 DEF LoaderTyped
  <2>2. missed' \subseteq Row /\ absent' \subseteq loading' /\ loading' \subseteq Loadable'
    BY <1>1, <1>2, <1>3 DEF LoaderTyped
  <2>3. QED
    BY <1>1, <2>1, <2>2 DEF LoaderTyped
<1>5. ASSUME NEW r \in Row, r \notin loading' PROVE answer'[r] = shown'[r]
  BY <1>1, <1>2, <1>5
<1>6. ASSUME NEW r \in Row, Comes(r) \/ r \in rows PROVE Comes(r)'
  <2>1. CASE r \in Loadable \ loading
    BY <1>1, <1>2, <1>3, <2>1 DEF Comes
  <2>2. CASE r \in loading
    BY <1>2, <1>3, <1>6, <2>2 DEF Comes
  <2>3. CASE r \notin Loadable \cup loading
    BY <1>2, <1>3, <1>6, <2>3 DEF Comes, Loadable
  <2>4. QED
    BY <2>1, <2>2, <2>3
<1>7. QED
  BY <1>4, <1>5, <1>6

LEMMA ReloadKeeps == ASSUME Fits, Reload PROVE Fits'
<1>1. /\ Invalidate({}) /\ UNCHANGED <<records, shown, gone, page>>
      /\ UNCHANGED <<draft, pending, calls, faults>>
  BY DEF Reload
<1>2. /\ LoaderTyped'
      /\ \A r \in Row : r \notin loading' => answer'[r] = shown'[r]
      /\ \A r \in Row : Comes(r) => Comes(r)'
  BY <1>1, Invalidating
<1>3. CallsTyped'
  BY <1>1, <1>2 DEF Fits, CallsTyped, LoaderTyped, records
<1>4. WritesComeBack'
  BY <1>1, <1>2 DEF Fits, CallsFit, WritesComeBack, Returned, records
<1>5. Marks'
  BY <1>1 DEF Fits, CallsFit, Marks, OneCall, MarkedWhileCalling, CallsOnPage,
     SavesTheDraft, Busy
<1>6. QED
  BY <1>3, <1>4, <1>5 DEF Fits, CallsFit, Marks

LEMMA SucceedKeeps == ASSUME Fits, NEW c \in calls, Succeed(c) PROVE Fits'
<1>1. /\ Invalidate({c.row}) /\ UNCHANGED <<records, shown, gone, page>>
      /\ Advance(c, "loading") /\ UNCHANGED <<draft, pending, faults>>
  BY DEF Succeed
<1>2. CallsTyped /\ OneCall /\ {c.row} \subseteq Row \cap page
  BY DEF Fits, CallsFit, CallsTyped, Call, CallsOnPage
<1>3. /\ LoaderTyped'
      /\ \A r \in Row : r \notin loading' => answer'[r] = shown'[r]
      /\ \A r \in Row : Comes(r) \/ r = c.row => Comes(r)'
  BY <1>1, <1>2, Invalidating
<1>4. calls' \in SUBSET Call
  BY <1>1, <1>2, Advancing
<1>5. CallsTyped'
  BY <1>1, <1>2, <1>3, <1>4 DEF CallsTyped, LoaderTyped, records
<1>6. WritesComeBack'
  <2> SUFFICES ASSUME NEW r \in Row
               PROVE  Comes(r)' \/ Returned(r)'
    BY <1>1, <1>3 DEF Fits, CallsFit, WritesComeBack, records
  <2>1. QED
    BY <1>1, <1>3, ReturnedStays DEF Fits, CallsFit, WritesComeBack
<1>7. Marks'
  BY <1>1, AdvancingKeepsMarks
<1>8. QED
  BY <1>5, <1>6, <1>7 DEF Fits, CallsFit, Marks

LEMMA ReadKeeps == ASSUME Fits, NEW r \in Row, Read(r) PROVE Fits'
<1>1. /\ r \in loading
      /\ answer' = [q \in Row |-> IF q \in {r} THEN items[q] ELSE answer[q]]
      /\ absent' = (absent \ {r}) \cup {q \in {r} : Missing(q)}
      /\ missed' = missed \ {r}
      /\ UNCHANGED <<items, deleted, own, shown, gone, loading, draft, pending, calls,
                     page, faults>>
  BY DEF Read, Reads, records
<1>2. CallsTyped'
  <2>1. answer' \in [Row -> Item]
    BY <1>1 DEF Fits, CallsTyped
  <2>2. missed' \subseteq Row /\ absent' \subseteq loading' /\ loading' \subseteq Loadable'
    BY <1>1 DEF Fits, CallsTyped, Loadable
  <2>3. QED
    BY <1>1, <2>1, <2>2 DEF Fits, CallsTyped
<1>3. WritesComeBack'
  <2> SUFFICES ASSUME NEW q \in Row
               PROVE  /\ q \notin loading => answer'[q] = shown[q]
                      /\ Comes(q)' \/ Returned(q)
    BY <1>1 DEF Fits, CallsFit, WritesComeBack, Returned
  <2>1. /\ own[q] <= items[q].writes /\ (q \notin loading => answer[q] = shown[q])
        /\ Comes(q) \/ Returned(q)
    BY DEF Fits, CallsFit, WritesComeBack
  <2>2. CASE q = r
    BY <1>1, <2>1, <2>2 DEF Comes
  <2>3. CASE q # r
    BY <1>1, <2>1, <2>3 DEF Comes
  <2>4. QED
    BY <2>2, <2>3
<1>4. Marks'
  BY <1>1 DEF Fits, CallsFit, Marks, OneCall, MarkedWhileCalling, CallsOnPage,
     SavesTheDraft, Busy
<1>5. QED
  BY <1>2, <1>3, <1>4 DEF Fits, CallsFit, Marks

\* A draft that changes closes.
LEMMA ClosingKeepsMarks ==
  ASSUME Fits, UNCHANGED <<calls, pending, page>>,
         \A q \in Row : draft'[q] \in {draft[q], Closed}
  PROVE  Marks'
<1>1. SavesTheDraft'
  <2> SUFFICES ASSUME NEW d \in calls, d.op = "save", d.row \in Memory \cup Todo
               PROVE  draft'[d.row] \in {d.value, Closed}
    BY DEF SavesTheDraft
  <2>1. d.row \in Row
    BY DEF Row
  <2>2. QED
    BY <2>1 DEF Fits, CallsFit, SavesTheDraft
<1>2. QED
  BY <1>1 DEF Fits, CallsFit, Marks, OneCall, MarkedWhileCalling, CallsOnPage, Busy

\* Rows that leave the screen, and their loaders with them.
LEMMA LeavingKeeps ==
  ASSUME Fits, NEW STATE rows, rows \subseteq Row, loading' = loading \ rows,
         absent' = absent \ rows, gone' = gone \cup rows,
         answer' = [q \in Row |-> IF q \in rows THEN shown[q] ELSE answer[q]],
         UNCHANGED <<records, shown, missed, pending, calls, page>>,
         \A q \in Row : draft'[q] \in {draft[q], Closed}, faults' \in 0 .. MaxFaults
  PROVE  Fits'
<1>1. CallsTyped'
  <2>1. answer' \in [Row -> Item]
    BY DEF Fits, CallsTyped
  <2>2. absent' \subseteq loading' /\ loading' \subseteq Loadable'
    BY DEF Fits, CallsTyped, Loadable
  <2>3. QED
    BY <2>1, <2>2 DEF Fits, CallsTyped, records
<1>2. WritesComeBack'
  <2> SUFFICES ASSUME NEW q \in Row
               PROVE  /\ own[q] <= items[q].writes
                      /\ q \notin loading' => answer'[q] = shown[q]
                      /\ Comes(q)' \/ Returned(q)
    BY DEF WritesComeBack, Returned, records
  <2>1. /\ own[q] <= items[q].writes /\ (q \notin loading => answer[q] = shown[q])
        /\ Comes(q) \/ Returned(q)
    BY DEF Fits, CallsFit, WritesComeBack
  <2>2. CASE q \in rows
    BY <2>1, <2>2 DEF Comes
  <2>3. CASE q \notin rows
    BY <2>1, <2>3 DEF Comes, records
  <2>4. QED
    BY <2>2, <2>3
<1>3. Marks'
  BY ClosingKeepsMarks
<1>4. QED
  BY <1>1, <1>2, <1>3 DEF Fits, CallsFit, Marks

LEMMA UnmountCloses ==
  ASSUME draft \in [Row -> Value \cup {Blank, Closed}], NEW STATE rows, Unmount(rows)
  PROVE  /\ draft' \in [Row -> Value \cup {Blank, Closed}]
         /\ \A q \in Row : draft'[q] \in {draft[q], Closed}
BY DEF Unmount

LEMMA LandKeeps ==
  ASSUME Fits, PressTyped, NEW r \in Row, Land(r)
  PROVE  Fits'
<1>1. /\ r \in loading /\ loading' = loading \ {r}
      /\ UNCHANGED <<items, deleted, own, missed, pending, calls, page, faults>>
  BY DEF Land, records
<1>2. CASE r \in absent
  <2>1. /\ Unmount({r}) /\ absent' = absent \ {r} /\ UNCHANGED shown
        /\ answer' = [answer EXCEPT ![r] = shown[r]]
    BY <1>2 DEF Land
  <2>2. answer' = [q \in Row |-> IF q \in {r} THEN shown[q] ELSE answer[q]]
    BY <2>1 DEF Fits, CallsTyped
  <2>3. gone' = gone \cup {r} /\ \A q \in Row : draft'[q] \in {draft[q], Closed}
    BY <2>1, UnmountCloses DEF Unmount, PressTyped
  <2>4. faults' \in 0 .. MaxFaults
    BY <1>1 DEF Fits, CallsTyped
  <2>5. QED
    BY <1>1, <2>1, <2>2, <2>3, <2>4, LeavingKeeps DEF records
<1>3. CASE r \notin absent
  <2>1. /\ shown' = [shown EXCEPT ![r] = answer[r]] /\ gone' = gone \ {r}
        /\ UNCHANGED <<answer, absent>>
        /\ draft' \in {draft, [draft EXCEPT ![r] = Closed]}
    BY <1>3 DEF Land
  <2>2. /\ shown' \in [Row -> Item]
        /\ \A q \in Row : shown'[q] = IF q = r THEN answer[r] ELSE shown[q]
    BY <2>1 DEF Fits, CallsTyped
  <2>3. CallsTyped'
    <3>1. absent' \subseteq loading' /\ loading' \subseteq Loadable'
      BY <1>1, <1>3, <2>1 DEF Fits, CallsTyped, Loadable
    <3>2. QED
      BY <1>1, <2>1, <2>2, <3>1 DEF Fits, CallsTyped
  <2>4. WritesComeBack'
    <3> SUFFICES ASSUME NEW q \in Row
                 PROVE  /\ q \notin loading' => answer[q] = shown'[q]
                        /\ Comes(q)' \/ Returned(q)
      BY <1>1, <2>1 DEF Fits, CallsFit, WritesComeBack, Returned
    <3>1. (q \notin loading => answer[q] = shown[q]) /\ (Comes(q) \/ Returned(q))
      BY DEF Fits, CallsFit, WritesComeBack
    <3>2. Comes(q) => Comes(q)'
      BY <1>1, <1>3, <2>1 DEF Comes
    <3>3. QED
      BY <1>1, <2>2, <3>1, <3>2
  <2>5. Marks'
    BY <1>1, <2>1, ClosingKeepsMarks DEF PressTyped
  <2>6. QED
    BY <2>3, <2>4, <2>5 DEF Fits, CallsFit, Marks
<1>4. QED
  BY <1>2, <1>3

LEMMA LoadFailsKeeps ==
  ASSUME Fits, PressTyped, NEW r \in Row, LoadFails(r)
  PROVE  Fits'
<1> DEFINE rows == IF r \in Side THEN {r} ELSE page \ Side
<1>1. rows \subseteq Row
  BY PagesOfRows DEF Fits, CallsTyped
<1>2. /\ Unmount(rows) /\ loading' = loading \ rows /\ absent' = absent \ rows
      /\ answer' = [q \in Row |-> IF q \in rows THEN shown[q] ELSE answer[q]]
      /\ UNCHANGED <<records, shown, missed, pending, calls, page>>
  BY DEF LoadFails
<1> HIDE DEF rows
<1>3. gone' = gone \cup rows /\ \A q \in Row : draft'[q] \in {draft[q], Closed}
  BY <1>2, UnmountCloses DEF Unmount, PressTyped
<1>4. faults' \in 0 .. MaxFaults
  BY RowsAreTyped DEF LoadFails, Fits, CallsTyped
<1>5. QED
  BY <1>1, <1>2, <1>3, <1>4, LeavingKeeps

-----------------------------------------------------------------------------
(* How a call ends.                                                        *)

\* The call is over and its row is free.
LEMMA EndingKeeps ==
  ASSUME Fits, NEW c \in calls, calls' = calls \ {c}, c.phase # "done",
         pending' = [pending EXCEPT ![c.row] = "none"],
         UNCHANGED <<records, screen, page, faults>>
  PROVE  /\ CallsTyped' /\ OneCall' /\ MarkedWhileCalling' /\ CallsOnPage'
         /\ WritesComeBack'
<1>1. CallsTyped /\ OneCall /\ c.row \in Row
  BY DEF Fits, CallsFit, CallsTyped, Call
<1>2. /\ pending' \in [Row -> Op \cup {"none"}]
      /\ \A r \in Row : pending'[r] = IF r = c.row THEN "none" ELSE pending[r]
  BY <1>1 DEF CallsTyped
<1>3. CallsTyped'
  BY <1>1, <1>2 DEF CallsTyped, records, screen, Loadable
<1>4. MarkedWhileCalling'
  <2> SUFFICES ASSUME NEW r \in Row
               PROVE  pending'[r] # "none" <=> r \in Busier /\ \E d \in calls' : d.row = r
    BY DEF MarkedWhileCalling, Busy
  <2>1. pending[r] # "none" <=> r \in Busier /\ \E d \in calls : d.row = r
    BY DEF Fits, CallsFit, MarkedWhileCalling, Busy
  <2>2. CASE r = c.row
    <3>1. r \in Busier => ~\E d \in calls' : d.row = r
      BY <1>1, <2>2 DEF OneCall
    <3>2. QED
      BY <1>2, <2>2, <3>1
  <2>3. CASE r # c.row
    BY <1>2, <2>1, <2>3
  <2>4. QED
    BY <2>2, <2>3
<1>5. OneCall' /\ CallsOnPage'
  BY <1>1 DEF OneCall, CallsOnPage, Fits, CallsFit
<1>6. WritesComeBack'
  BY DEF Fits, CallsFit, WritesComeBack, Comes, Returned, records, screen
<1>7. QED
  BY <1>3, <1>4, <1>5, <1>6

LEMMA SettleKeeps ==
  ASSUME Fits, PressTyped, NEW c \in calls, Settle(c)
  PROVE  Fits'
<1>1. /\ calls' = calls \ {c} /\ pending' = [pending EXCEPT ![c.row] = "none"]
      /\ c.phase = "loading" /\ UNCHANGED <<records, screen, page, faults>>
      /\ draft' \in {draft, [draft EXCEPT ![c.row] = Closed]}
  BY DEF Settle
<1>2. /\ CallsTyped' /\ OneCall' /\ MarkedWhileCalling' /\ CallsOnPage'
      /\ WritesComeBack'
  BY <1>1, EndingKeeps
<1>3. SavesTheDraft'
  <2> SUFFICES ASSUME NEW d \in calls', d.op = "save", d.row \in Memory \cup Todo
               PROVE  draft'[d.row] \in {d.value, Closed}
    BY DEF SavesTheDraft
  <2>1. d.row \in Row /\ draft'[d.row] \in {draft[d.row], Closed} /\ d \in calls
    BY <1>1 DEF Row, PressTyped
  <2>2. QED
    BY <2>1 DEF Fits, CallsFit, SavesTheDraft
<1>4. QED
  BY <1>2, <1>3 DEF Fits, CallsFit

LEMMA FailKeeps == ASSUME Fits, NEW c \in calls, Fail(c) PROVE Fits'
<1>1. /\ calls' = calls \ {c} /\ pending' = [pending EXCEPT ![c.row] = "none"]
      /\ c.phase = "refused" /\ UNCHANGED <<records, screen, draft, page, faults>>
  BY DEF Fail
<1>2. /\ CallsTyped' /\ OneCall' /\ MarkedWhileCalling' /\ CallsOnPage'
      /\ WritesComeBack'
  BY <1>1, EndingKeeps
<1>3. SavesTheDraft'
  BY <1>1 DEF Fits, CallsFit, SavesTheDraft
<1>4. QED
  BY <1>2, <1>3 DEF Fits, CallsFit

-----------------------------------------------------------------------------
(* Agents and other windows.                                               *)

LEMMA ElsewhereWritesKeeps ==
  ASSUME Fits, NEW r \in Row, NEW v \in Value, ElsewhereWrites(r, v) PROVE Fits'
<1> DEFINE next == [items[r] EXCEPT !.value = v, !.writes = items[r].writes + 1]
<1>1. CallsTyped /\ calls \in SUBSET Call
  BY DEF Fits, CallsTyped
<1>2. /\ items' = [items EXCEPT ![r] = next]
      /\ UNCHANGED <<deleted, own, shown, gone, loading, answer, absent, missed, draft,
                     pending, calls, page, faults>>
  BY DEF ElsewhereWrites, screen
<1>3. items[r].writes \in Nat
  BY <1>1 DEF CallsTyped, Item
<1>4. next \in Item /\ next.writes = items[r].writes + 1
  <2> DEFINE told == [items[r] EXCEPT !.value = v]
  <2>1. items[r] \in Item
    BY <1>1 DEF CallsTyped
  <2>2. told \in Item /\ told.writes = items[r].writes
    BY <2>1 DEF Item
  <2>3. next = [told EXCEPT !.writes = items[r].writes + 1]
    BY Zenon
  <2> HIDE DEF told, next
  <2>4. QED
    BY <1>1, <1>3, <2>2, <2>3 DEF Item
<1> HIDE DEF next
<1>5. /\ items' \in [Row -> Item]
      /\ \A q \in Row : items'[q] = IF q = r THEN next ELSE items[q]
  BY <1>1, <1>2, <1>4 DEF CallsTyped
<1>6. CallsTyped'
  BY <1>1, <1>2, <1>5 DEF CallsTyped, Loadable
<1>7. Marks'
  BY <1>2 DEF Fits, CallsFit, Marks, OneCall, MarkedWhileCalling, CallsOnPage,
     SavesTheDraft, Busy
<1>8. WritesComeBack'
  <2> SUFFICES ASSUME NEW q \in Row
               PROVE  own[q] <= items'[q].writes
    BY <1>2 DEF Fits, CallsFit, WritesComeBack, Comes, Returned
  <2>1. own[q] <= items[q].writes /\ own[q] \in Nat
    BY <1>1 DEF Fits, CallsFit, WritesComeBack, CallsTyped
  <2>2. CASE q = r
    BY <1>3, <1>4, <1>5, <2>1, <2>2
  <2>3. CASE q # r
    BY <1>5, <2>1, <2>3
  <2>4. QED
    BY <2>2, <2>3
<1>9. QED
  BY <1>6, <1>7, <1>8 DEF Fits, CallsFit, Marks

LEMMA ElsewhereDeletesKeeps ==
  ASSUME Fits, NEW r \in Row, ElsewhereDeletes(r) PROVE Fits'
<1>1. CallsTyped'
  BY DEF ElsewhereDeletes, screen, Fits, CallsTyped, Loadable
<1>2. CallsFit'
  BY DEF ElsewhereDeletes, screen, Fits, CallsFit, OneCall, MarkedWhileCalling,
         CallsOnPage, WritesComeBack, Comes, Returned, SavesTheDraft, Busy
<1>3. QED
  BY <1>1, <1>2 DEF Fits

-----------------------------------------------------------------------------
(* The invariant.                                                          *)

\* What changes nothing of the buttons keeps what they say.
LEMMA UntouchedKeeps ==
  ASSUME Inv, Untouched, draft' \in [Row -> Value \cup {Blank, Closed}]
  PROVE  PressTyped' /\ ArmedLast'
<1>1. PressTyped
  BY TypedApart DEF Inv
<1>2. PressTyped'
  BY <1>1 DEF PressTyped, Untouched
<1>3. ArmedLast'
  BY DEF Inv, ArmedLast, Untouched
<1>4. QED
  BY <1>2, <1>3

LEMMA UnmountKeeps ==
  ASSUME Inv, NEW STATE rows, Unmount(rows), UNCHANGED touched
  PROVE  PressTyped' /\ ArmedLast'
<1>1. PressTyped /\ ArmedLast
  BY TypedApart DEF Inv
<1>2. menu' = menu \ rows /\ armed' = armed \ rows
  BY DEF Unmount
<1>3. draft' \in [Row -> Value \cup {Blank, Closed}]
  BY <1>1, UnmountCloses DEF PressTyped
<1>4. menu' = {} \/ \E q \in Menued : menu' = {q}
  BY <1>1, <1>2 DEF PressTyped
<1>5. armed' \subseteq Busier /\ touched' \subseteq Busier
  BY <1>1, <1>2 DEF PressTyped
<1>6. ArmedLast'
  <2> SUFFICES ASSUME NEW r \in armed \ rows
               PROVE  touched = {r} /\ menu \ rows = IF r \in Menued THEN {r} ELSE {}
    BY <1>2 DEF ArmedLast
  <2>1. touched = {r} /\ menu = IF r \in Menued THEN {r} ELSE {}
    BY <1>1 DEF ArmedLast
  <2>2. QED
    BY <2>1
<1>7. QED
  BY <1>3, <1>4, <1>5, <1>6 DEF PressTyped

LEMMA ButtonsKeep ==
  ASSUME Inv, NEW r \in Row, Land(r) \/ LoadFails(r)
  PROVE  PressTyped' /\ ArmedLast'
<1>1. CASE LoadFails(r)
  BY <1>1, UnmountKeeps DEF LoadFails
<1>2. CASE Land(r) /\ r \in absent
  BY <1>2, UnmountKeeps DEF Land
<1>3. CASE Land(r) /\ r \notin absent
  <2>1. draft' \in [Row -> Value \cup {Blank, Closed}]
    BY <1>3, TypedApart DEF Land, Inv, PressTyped
  <2>2. QED
    BY <1>3, <2>1, UntouchedKeeps DEF Land, Untouched
<1>4. QED
  BY <1>1, <1>2, <1>3

\* The steps of the calls, of the loaders and of other writers.
Behind ==
  \/ \E c \in calls : \/ \E lost \in BOOLEAN : Serve(c, lost)
                      \/ Refuse(c) \/ Succeed(c) \/ Settle(c) \/ Fail(c)
  \/ Reload
  \/ \E r \in Row : \/ Read(r) \/ Land(r) \/ LoadFails(r) \/ ElsewhereDeletes(r)
                    \/ \E v \in Value : ElsewhereWrites(r, v)

LEMMA BehindStep == ASSUME Inv, Behind PROVE Inv'
<1>1. Fits /\ PressTyped
  BY InvFits, TypedApart DEF Inv
<1>2. Fits'
  BY <1>1, ServeKeeps, RefuseKeeps, SucceedKeeps, SettleKeeps, FailKeeps, ReloadKeeps,
     ReadKeeps, LandKeeps, LoadFailsKeeps, ElsewhereDeletesKeeps, ElsewhereWritesKeeps
     DEF Behind
<1>3. PressTyped' /\ ArmedLast'
  <2>1. ASSUME Untouched, UNCHANGED draft PROVE PressTyped' /\ ArmedLast'
    BY <1>1, <2>1, UntouchedKeeps DEF PressTyped
  <2>2. ASSUME NEW c \in calls, Settle(c) PROVE PressTyped' /\ ArmedLast'
    <3>1. draft' \in [Row -> Value \cup {Blank, Closed}]
      BY <1>1, <2>2 DEF PressTyped, Settle
    <3>2. QED
      BY <2>2, <3>1, UntouchedKeeps DEF Settle, Untouched
  <2>3. QED
    BY <2>1, <2>2, ButtonsKeep DEF Behind, Untouched, Serve, Refuse, Succeed, Fail,
       Reload, Read, ElsewhereDeletes, ElsewhereWrites
<1>4. TypeOK'
  BY <1>2, <1>3 DEF TypeOK, PressTyped, Fits, CallsTyped
<1>5. QED
  BY <1>2, <1>3, <1>4 DEF Inv, Fits

LEMMA PressStep == ASSUME Inv, Press PROVE Inv'
<1>1. Fits
  BY InvFits
<1>2. Fits'
  BY <1>1, NoCallKeeps, MakesCallKeeps DEF Press
<1>3. TypeOK'
  BY <1>2 DEF TypeOK, Press, PressTyped, Fits, CallsTyped
<1>4. QED
  BY <1>2, <1>3 DEF Inv, Fits, Press

\* The steps of a person, as opposed to those behind the screen.
LEMMA StepIsPressOrBehind ==
  ASSUME Inv, Next
  PROVE  Press \/ Behind
<1>1. ASSUME NEW r \in Row,
             \/ Edit(r) \/ CancelDraft(r) \/ SaveDraft(r) \/ SubmitTitle(r)
             \/ BlurTitle(r) \/ Approve(r) \/ TypeDraft(r, Blank)
             \/ \E v \in Value : TypeDraft(r, v)
      PROVE  Press
  BY <1>1, EditPress, CancelDraftPress, SavesPress, ApprovePress, TypeDraftPress,
     RowsApart DEF SaveDraft, SubmitTitle, BlurTitle, Busier
<1>2. ASSUME NEW r \in Row,
             \/ OpenMenu(r) \/ CloseMenu(r) \/ Disarm(r) \/ ToggleArchive(r)
             \/ ChangeTags(r) \/ setRepository(r) \/ PressDelete(r) \/ PressInMenu(r)
             \/ \E v \in Value : PickInMenu(r, v) \/ PickChip(r, v)
      PROVE  Press
  BY <1>2, MenuPress, ToggleArchivePress, ChangeTagsPress, setRepositoryPress,
     PressDeletePress, PressInMenuPress, PickInMenuPress, PickChipPress
<1>3. ASSUME NEW r \in Row, Archive(r) \/ \E v \in Value : Rename(r, v)
      PROVE  Press
  <2>1. PICK v \in Value : TRUE
    BY <1>3, RowValue
  <2>2. QED
    BY <1>3, <2>1, SidePress
<1>4. QED
  BY <1>1, <1>2, <1>3 DEF Next, Behind

LEMMA InitInv == Init => Inv
<1> SUFFICES ASSUME Init PROVE Inv
  OBVIOUS
<1>1. \A r \in Row : FirstItem(r) \in Item /\ FirstItem(r).writes = 0
  <2>1. (CHOOSE v \in Value : TRUE) \in Value
    BY RowsAreTyped
  <2> QED
    BY <2>1 DEF FirstItem, Item
<1>2. items \in [Row -> Item] /\ shown = items /\ \A r \in Row : items[r].writes = 0
  BY <1>1 DEF Init
<1>3. CallsTyped
  <2>1. own \in [Row -> Nat] /\ faults \in 0 .. MaxFaults
    BY RowsAreTyped DEF Init
  <2>2. pending \in [Row -> Op \cup {"none"}]
    BY DEF Init
  <2>3. QED
    BY <1>2, <2>1, <2>2 DEF Init, CallsTyped
<1>4. PressTyped
  BY DEF Init, PressTyped
<1>5. CallsFit
  <2>1. WritesComeBack
    BY <1>2 DEF Init, WritesComeBack, Comes
  <2>2. OneCall /\ CallsOnPage /\ SavesTheDraft
    BY DEF Init, OneCall, CallsOnPage, SavesTheDraft
  <2>3. MarkedWhileCalling
    BY DEF Init, MarkedWhileCalling, Busy
  <2>4. QED
    BY <2>1, <2>2, <2>3 DEF CallsFit
<1>6. ArmedLast
  BY DEF Init, ArmedLast
<1>7. QED
  BY <1>3, <1>4, <1>5, <1>6, TypedApart DEF Inv

LEMMA StutterKeeps == ASSUME Inv, UNCHANGED vars PROVE Inv'
<1>1. TypeOK'
  BY DEF vars, Inv, TypeOK, Loadable
<1>2. CallsFit'
  BY DEF vars, Inv, CallsFit, OneCall, MarkedWhileCalling, CallsOnPage, WritesComeBack,
         Comes, Returned, SavesTheDraft, Busy
<1>3. ArmedLast'
  BY DEF vars, Inv, ArmedLast
<1>4. QED
  BY <1>1, <1>2, <1>3 DEF Inv

LEMMA InvStep == Inv /\ [Next]_vars => Inv'
BY StepIsPressOrBehind, PressStep, BehindStep, StutterKeeps

LEMMA InvHolds == Spec => []Inv
BY InitInv, InvStep, PTL DEF Spec

-----------------------------------------------------------------------------

\* Every variable keeps its type; writes, and so calls, stay in their bound.
THEOREM RowsTyped == Spec => []TypeOK
<1>1. Inv => TypeOK
  BY DEF Inv
<1>2. QED
  BY <1>1, InvHolds, PTL

\* A row that acts through useAction has at most one call on its way, and is
\* marked busy exactly as long as it has one.
THEOREM RowsCallOnce == Spec => []BusyWhileCalling
<1>1. Inv => BusyWhileCalling
  <2> SUFFICES ASSUME Inv, NEW r \in Busier
               PROVE  /\ Cardinality({c \in calls : c.row = r}) <= 1
                      /\ Busy(r) <=> \E c \in calls : c.row = r
    BY DEF BusyWhileCalling
  <2>1. Busy(r) <=> \E c \in calls : c.row = r
    BY RowsApart DEF Inv, CallsFit, MarkedWhileCalling
  <2>2. CASE \E c \in calls : c.row = r
    <3>1. PICK c \in calls : c.row = r
      BY <2>2
    <3>2. {d \in calls : d.row = r} = {c}
      BY <3>1 DEF Inv, CallsFit, OneCall
    <3>3. Cardinality({d \in calls : d.row = r}) = 1
      BY <3>2, FS_Singleton
    <3>4. QED
      BY <2>1, <3>3
  <2>3. CASE ~\E c \in calls : c.row = r
    <3>1. {d \in calls : d.row = r} = {}
      BY <2>3
    <3>2. Cardinality({d \in calls : d.row = r}) = 0
      BY <3>1, FS_EmptySet
    <3>3. QED
      BY <2>1, <3>2
  <2>4. QED
    BY <2>2, <2>3
<1>2. QED
  BY <1>1, InvHolds, PTL

\* Whoever else writes and whatever fails, a row whose calls and loaders are done
\* shows at least what its last success wrote, unless that success joined a load
\* from before it.
THEOREM RowsComeToShow == Spec => []ReadsItsWrites
<1>1. Inv => ReadsItsWrites
  <2> SUFFICES ASSUME Inv, NEW r \in Row \ (gone \cup loading \cup missed),
                      ~\E c \in calls : c.row = r
               PROVE  shown[r].writes >= own[r]
    BY DEF ReadsItsWrites
  <2>1. Comes(r) /\ answer[r] = shown[r] /\ r \notin absent
    BY DEF Inv, CallsFit, WritesComeBack, Returned, TypeOK
  <2>2. own[r] <= shown[r].writes
    BY <2>1 DEF Comes
  <2>3. own[r] \in Nat /\ shown[r].writes \in Nat
    BY DEF Inv, TypeOK, Item
  <2>4. QED
    BY <2>2, <2>3
<1>2. QED
  BY <1>1, InvHolds, PTL

\* Every deletion a page asks for comes from a second press on the Delete of that
\* row, with no other press in between.
THEOREM DeletionsAreMeant == Spec => DeletedOnPurpose
<1> DEFINE Meant == \A r \in Row :
             (\E c \in calls' \ calls : c.row = r /\ c.op = "delete")
               /\ (~\E c \in calls : c.row = r /\ c.op = "delete")
             => touched = {r}
<1>1. ASSUME Inv, Press PROVE Meant
  <2>1. CASE NoCall
    BY <2>1 DEF NoCall
  <2>2. CASE MakesCall
    <3>1. PICK r \in Row, op \in Op, v \in Value : Starts(r, op, v)
      BY <2>2 DEF MakesCall
    <3>2. \A c \in calls' \ calls : c.row = r /\ c.op = op
      BY <3>1 DEF Starts, NewCall
    <3>3. op = "delete" => touched = {r}
      BY <1>1, <3>1 DEF Starts, Inv, ArmedLast
    <3>4. ASSUME NEW q \in Row, NEW c \in calls' \ calls, c.row = q, c.op = "delete"
          PROVE  touched = {q}
      BY <3>2, <3>3, <3>4
    <3>5. QED
      BY <3>4
  <2>3. QED
    BY <1>1, <2>1, <2>2 DEF Press
<1>2. ASSUME Inv, NEW c \in calls,
             \/ \E lost \in BOOLEAN : Serve(c, lost)
             \/ Refuse(c) \/ Succeed(c) \/ Settle(c) \/ Fail(c)
      PROVE  Meant
  <2>1. \A d \in calls' \ calls : d.row = c.row /\ d.op = c.op
    <3>1. CASE calls' = calls \ {c}
      BY <3>1
    <3>2. CASE \E phase \in {"done", "refused", "loading"} : Advance(c, phase)
      <4>1. PICK phase \in {"done", "refused", "loading"} : Advance(c, phase)
        BY <3>2
      <4>2. CallsTyped /\ OneCall
        BY InvFits, <1>2 DEF Fits, CallsFit
      <4>3. \E d \in calls' : /\ d.row = c.row /\ d.op = c.op
                             /\ calls' = (calls \ {c}) \cup {d}
        BY <4>1, <4>2, Advancing
      <4>4. QED
        BY <4>3
    <3>3. QED
      BY <1>2, <3>1, <3>2 DEF Serve, Refuse, Succeed, Settle, Fail
  <2>2. QED
    BY <2>1
<1>3. ASSUME UNCHANGED calls PROVE Meant
  BY <1>3
<1>4. Inv /\ [Next]_vars => [Meant]_vars
  <2>1. ASSUME Inv, Next PROVE Meant
    BY <2>1, <1>1, <1>2, <1>3, StepIsPressOrBehind
       DEF Behind, Reload, Read, Land, LoadFails, ElsewhereDeletes, ElsewhereWrites
  <2>2. QED
    BY <2>1
<1>5. QED
  BY <1>4, InvHolds, PTL DEF Spec, DeletedOnPurpose

\* The draft of a memory, or of a todo's title, is on screen until the person
\* cancels it, the orchestrator has it, or the row is not drawn any more.
THEOREM DraftsOutliveFailures == Spec => DraftKept
<1> DEFINE Kept == \A r \in Memory \cup Todo : draft[r] # Closed /\ draft'[r] = Closed =>
             \/ UNCHANGED <<calls, screen>>
             \/ r \in gone'
             \/ \E c \in calls : /\ c.row = r /\ c.op = "save" /\ c.phase = "loading"
                                /\ c.value = draft[r]
<1>1. ASSUME Press PROVE Kept
  BY <1>1 DEF Press, NoCall, MakesCall, Starts
<1>2. ASSUME Inv, NEW c \in calls, Settle(c) PROVE Kept
  <2> SUFFICES ASSUME NEW r \in Memory \cup Todo, draft[r] # Closed, draft'[r] = Closed
               PROVE  /\ c.row = r /\ c.op = "save" /\ c.phase = "loading"
                      /\ c.value = draft[r]
    OBVIOUS
  <2>1. r \in Row
    BY DEF Row
  <2>2. c.row = r /\ c.op = "save" /\ c.phase = "loading"
    BY <1>2, <2>1 DEF Settle, Inv, TypeOK
  <2>3. QED
    BY <1>2, <2>2 DEF Inv, CallsFit, SavesTheDraft
<1>3. ASSUME Inv, NEW q \in Row, Land(q) \/ LoadFails(q) PROVE Kept
  <2> SUFFICES ASSUME NEW r \in Memory \cup Todo, draft[r] # Closed, draft'[r] = Closed
               PROVE  r \in gone'
    OBVIOUS
  <2>1. r \in Row /\ r \notin Document
    BY RowsAreTyped DEF Row
  <2>2. draft \in [Row -> Value \cup {Blank, Closed}]
    BY <1>3 DEF Inv, TypeOK
  <2>3. ASSUME NEW STATE rows, Unmount(rows) PROVE r \in gone'
    BY <2>1, <2>2, <2>3 DEF Unmount
  <2>4. QED
    BY <1>3, <2>1, <2>2, <2>3 DEF Land, LoadFails
<1>4. ASSUME UNCHANGED draft PROVE Kept
  BY <1>4
<1>5. Inv /\ [Next]_vars => [Kept]_vars
  <2>1. ASSUME Inv, Next PROVE Kept
    BY <2>1, <1>1, <1>2, <1>3, <1>4, StepIsPressOrBehind
       DEF Behind, Serve, Refuse, Succeed, Fail, Reload, Read, ElsewhereDeletes,
           ElsewhereWrites
  <2>2. QED
    BY <2>1
<1>6. QED
  BY <1>5, InvHolds, PTL DEF Spec, DraftKept

=============================================================================
