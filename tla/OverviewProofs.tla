--------------------------- MODULE OverviewProofs ---------------------------
(***************************************************************************)
(* The safety properties of Overview.tla, for any repositories, statuses   *)
(* and bounds.                                                             *)
(*                                                                         *)
(* The rows and their interval are a matter of what is on screen: Drawn is *)
(* the set of rows before a step and Drawn' the set after it, and Redraw   *)
(* is the only way from one to another.                                    *)
(*                                                                         *)
(* What no list hides is a matter of Listing's operators on any list, and  *)
(* of every copy being a list: ranks first, then the operators, then one   *)
(* section, project or group, and last the steps that load a copy.         *)
(***************************************************************************)
EXTENDS Overview, FiniteSetTheorems, SequenceTheorems, TLAPS

-----------------------------------------------------------------------------
(* The interval.                                                           *)

\* A step that loads nothing, goes nowhere and folds nothing draws the same rows.
LEMMA DrawnStays ==
  ASSUME UNCHANGED <<page, triage, listed, sections>>
  PROVE  Drawn' = Drawn
  BY DEF Drawn, sections

LEMMA RedrawKeepsOne ==
  ASSUME OneInterval, Redraw
  PROVE  OneInterval'
<1> DEFINE before == Drawn
           after == Drawn'
<1>1. intervals = IF before = {} THEN 0 ELSE 1
  BY DEF OneInterval
<1>2. intervals' = TickerFor(before, after)
  BY DEF Redraw
<1>3. intervals' = IF after = {} THEN 0 ELSE 1
  <2> HIDE DEF before, after
  <2> QED
    BY <1>1, <1>2 DEF TickerFor
<1> QED
  BY <1>3 DEF OneInterval

LEMMA QuietKeepsOne ==
  ASSUME OneInterval, UNCHANGED <<page, triage, listed, sections, intervals>>
  PROVE  OneInterval'
  BY DrawnStays DEF OneInterval

\* What a step does to the rows: it redraws them, or it leaves both them and the
\* interval alone, or it starts the window over.
Quiet == UNCHANGED <<page, triage, listed, sections, intervals>>

LEMMA ElsewhereIsQuiet == Elsewhere => Quiet
  BY DEF Elsewhere, Quiet, copies, sections, ticker

LEMMA PressedIsQuiet ==
  /\ \A g \in Group : setProjectOpen(g) => Quiet
  /\ TogglePanel => Quiet
  /\ \A r \in Repository : (ToggleExpanded(r) => Quiet) /\ (addProject(r) => Quiet)
  /\ ShowAddProject => Quiet
  /\ HideAddProject => Quiet
  BY DEF setProjectOpen, TogglePanel, ToggleExpanded, addProject, ShowAddProject,
         HideAddProject, Press, Quiet, copies, sections, ticker

LEMMA AddingIsQuiet ==
  ProjectCreated \/ AddReturns \/ AddFails \/ AddEnds => Quiet
  BY DEF ProjectCreated, AddReturns, AddFails, AddEnds, Quiet, copies, sections, ticker

LEMMA LoadingIsQuiet ==
  /\ \A a, b \in BOOLEAN : LoadShell(a, b) => Quiet
  /\ \A own \in BOOLEAN : CreateFails(own) => Quiet
  /\ TimePasses \/ Tick \/ create => Quiet
  BY DEF LoadShell, CreateFails, TimePasses, Tick, create, Quiet, copies, sections, ticker

LEMMA ReopenStartsOver ==
  ASSUME Reopen
  PROVE  OneInterval'
<1> DEFINE after == Drawn'
<1>1. intervals' = IF after = {} THEN 0 ELSE 1
  BY DEF Reopen
<1> QED
  BY <1>1 DEF OneInterval

\* The lists keep one interval between all their rows, and none without rows:
\* no order of coming and going leaves one behind or starts a second.
THEOREM RowsShareOneInterval == Spec => []OneInterval
<1>1. Init => OneInterval
  BY DEF Init, OneInterval, Drawn, Ages
<1>2. OneInterval /\ [Next]_vars => OneInterval'
  <2> SUFFICES ASSUME OneInterval, [Next]_vars
               PROVE  OneInterval'
    OBVIOUS
  <2>0. Quiet => OneInterval'
    BY QuietKeepsOne DEF Quiet
  <2>1. ASSUME NEW r \in Repository, NEW s \in Status, TaskCreated(r, s) PROVE OneInterval'
    BY <2>0, <2>1, ElsewhereIsQuiet DEF TaskCreated
  <2>2. ASSUME NEW i \in DOMAIN tasks, TaskArchived(i) \/ \E s \in Status : TaskMoves(i, s)
        PROVE  OneInterval'
    BY <2>0, <2>2, ElsewhereIsQuiet DEF TaskArchived, TaskMoves
  <2>3. ASSUME NEW i \in DOMAIN documents, NEW r \in Repository \cup {Unset},
               NEW archived \in BOOLEAN, DocumentChanged(i, r, archived)
        PROVE  OneInterval'
    BY <2>0, <2>3, ElsewhereIsQuiet DEF DocumentChanged
  <2>4. CASE TimePasses \/ Tick \/ create
    BY <2>0, <2>4, LoadingIsQuiet
  <2>5. ASSUME NEW a \in BOOLEAN, NEW b \in BOOLEAN, LoadShell(a, b) PROVE OneInterval'
    BY <2>0, <2>5, LoadingIsQuiet
  <2>6. ASSUME NEW had \in BOOLEAN, LoadPage(had) PROVE OneInterval'
    BY <2>6, RedrawKeepsOne DEF LoadPage
  <2>7. ASSUME NEW had \in BOOLEAN, CreateFails(had) PROVE OneInterval'
    BY <2>0, <2>7, LoadingIsQuiet
  <2>8. ASSUME NEW p, Go(p) PROVE OneInterval'
    BY <2>8, RedrawKeepsOne DEF Go, Visit
  <2>9. CASE Reopen
    BY <2>9, ReopenStartsOver
  <2>10. ASSUME NEW g \in Repository \cup {":projects"}, setProjectOpen(g) PROVE OneInterval'
    BY <2>0, <2>10, PressedIsQuiet DEF Group
  <2>11. CASE TogglePanel
    BY <2>0, <2>11, PressedIsQuiet
  <2>12. ASSUME NEW r \in Repository, ToggleExpanded(r) \/ addProject(r) PROVE OneInterval'
    BY <2>0, <2>12, PressedIsQuiet
  <2>13. CASE ShowAddProject \/ HideAddProject
    BY <2>0, <2>13, PressedIsQuiet
  <2>14. CASE ProjectCreated \/ AddReturns \/ AddFails \/ AddEnds
    BY <2>0, <2>14, AddingIsQuiet
  <2>15. ASSUME NEW b \in Buckets, ToggleFolded(b) \/ ToggleAll(b) PROVE OneInterval'
    BY <2>15, RedrawKeepsOne DEF ToggleFolded, ToggleAll
  <2>16. ASSUME NEW h, ToggleGroup(h) PROVE OneInterval'
    BY <2>16, RedrawKeepsOne DEF ToggleGroup
  <2>17. CASE Created
    BY <2>17, RedrawKeepsOne DEF Created, Visit
  <2>18. CASE UNCHANGED vars
    BY <2>0, <2>18 DEF vars, Quiet, copies, sections, ticker
  <2> QED
    BY <2>1, <2>2, <2>3, <2>4, <2>5, <2>6, <2>7, <2>8, <2>9, <2>10, <2>11, <2>12, <2>13,
       <2>14, <2>15, <2>16, <2>17, <2>18 DEF Next
<1> QED
  BY <1>1, <1>2, PTL DEF Spec

-----------------------------------------------------------------------------
(* The folds.                                                              *)

\* Put changes one group.
LEMMA PutIsLocal ==
  ASSUME NEW map, NEW g, NEW value, NEW x, x # g
  PROVE  Unfolded(Put(map, g, value), x) <=> Unfolded(map, x)
<1> DEFINE new == Put(map, g, value)
<1>1. x \in DOMAIN new <=> x \in DOMAIN map
  BY DEF Put
<1>2. x \in DOMAIN map => new[x] = map[x]
  BY DEF Put
<1> QED
  BY <1>1, <1>2 DEF Unfolded

FoldStays(g) ==
  Unfolded(open', g) # Unfolded(open, g) =>
    \/ Unfolded(stored', g) = Unfolded(open', g)
    \/ creating # Unset /\ creating.repository = g

\* A group folds or unfolds because the person presses it, and then it is kept, or
\* because it is the project being added: the answer to that call overwrites no
\* fold made while it was on its way.
THEOREM FoldsOutliveAnswers == Spec => FoldsStay
<1>1. ASSUME [Next]_vars, NEW g \in Group PROVE FoldStays(g)
  <2>1. CASE AddReturns
    <3>1. CASE g = creating.repository
      BY <2>1, <3>1 DEF AddReturns, FoldStays
    <3>2. CASE g # creating.repository
      <4>1. Unfolded(open', g) <=> Unfolded(open, g)
        BY <2>1, <3>2, PutIsLocal DEF AddReturns
      <4> QED
        BY <4>1 DEF FoldStays, Unfolded
    <3> QED
      BY <3>1, <3>2
  <2>2. CASE open' = stored'
    BY <2>2 DEF FoldStays
  <2>3. CASE open' = open
    BY <2>3 DEF FoldStays
  <2> QED
    BY <1>1, <2>1, <2>2, <2>3
       DEF Next, vars, Elsewhere, TaskCreated, TaskArchived, TaskMoves, DocumentChanged,
           TimePasses, Tick, LoadShell, LoadPage, CreateFails, Go, Reopen, Press,
           setProjectOpen, TogglePanel, updateOpen, ToggleExpanded, addProject,
           ShowAddProject, HideAddProject, ProjectCreated, AddFails, AddEnds, ToggleFolded,
           ToggleAll, ToggleGroup, create, Created, sidebar
<1>2. [Next]_vars => [\A g \in Group :
                         Unfolded(open', g) # Unfolded(open, g) =>
                           \/ Unfolded(stored', g) = Unfolded(open', g)
                           \/ creating # Unset /\ creating.repository = g]_vars
  BY <1>1 DEF FoldStays
<1> QED
  BY <1>2, PTL DEF Spec, FoldsStay

-----------------------------------------------------------------------------
(* Lists.                                                                  *)

\* Where each element of a finite set comes when they are put in a strict order.
StrictOrder(S, before) ==
  /\ \A x \in S : <<x, x>> \notin before
  /\ \A x, y, z \in S : <<x, y>> \in before /\ <<y, z>> \in before => <<x, z>> \in before
  /\ \A x, y \in S : x = y \/ <<x, y>> \in before \/ <<y, x>> \in before

Earlier(S, before, x) == {y \in S : <<y, x>> \in before}

LEMMA EarlierCounts ==
  ASSUME NEW S, IsFiniteSet(S), NEW before, StrictOrder(S, before)
  PROVE  /\ Cardinality(S) \in Nat
         /\ \A x \in S : Cardinality(Earlier(S, before, x)) + 1 \in 1 .. Cardinality(S)
         /\ \A x, y \in S : Cardinality(Earlier(S, before, x))
                              = Cardinality(Earlier(S, before, y)) => x = y
<1> DEFINE n == Cardinality(S)
           at(x) == Cardinality(Earlier(S, before, x))
<1>1. n \in Nat
  BY FS_CardinalityType
<1>2. ASSUME NEW x \in S
      PROVE  IsFiniteSet(Earlier(S, before, x)) /\ at(x) \in Nat /\ at(x) < n
  <2>1. Earlier(S, before, x) \in SUBSET S /\ Earlier(S, before, x) # S
    BY DEF Earlier, StrictOrder
  <2>2. /\ IsFiniteSet(Earlier(S, before, x))
        /\ at(x) <= n
        /\ n = at(x) => S = Earlier(S, before, x)
    BY <2>1, FS_Subset
  <2>3. at(x) \in Nat
    BY <2>2, FS_CardinalityType
  <2> QED
    BY <1>1, <2>1, <2>2, <2>3
<1>3. ASSUME NEW x \in S, NEW y \in S, <<x, y>> \in before
      PROVE  at(x) < at(y)
  <2>1. Earlier(S, before, x) \in SUBSET Earlier(S, before, y)
    BY <1>3 DEF Earlier, StrictOrder
  <2>2. x \in Earlier(S, before, y) /\ x \notin Earlier(S, before, x)
    BY <1>3 DEF Earlier, StrictOrder
  <2>3. at(x) <= at(y) /\ at(x) # at(y)
    BY <1>2, <2>1, <2>2, FS_Subset
  <2> QED
    BY <1>2, <2>3
<1>4. ASSUME NEW x \in S, NEW y \in S, at(x) = at(y)
      PROVE  x = y
  <2>1. x = y \/ <<x, y>> \in before \/ <<y, x>> \in before
    BY DEF StrictOrder
  <2>2. ~(<<x, y>> \in before) /\ ~(<<y, x>> \in before)
    BY <1>2, <1>3, <1>4
  <2> QED
    BY <2>1, <2>2
<1>5. ASSUME NEW x \in S PROVE at(x) + 1 \in 1 .. n
  BY <1>1, <1>2
<1> QED
  BY <1>1, <1>4, <1>5

\* Every place of the list is taken.
LEMMA EarlierFills ==
  ASSUME NEW S, IsFiniteSet(S), NEW before, StrictOrder(S, before),
         NEW k \in 1 .. Cardinality(S)
  PROVE  \E x \in S : Cardinality(Earlier(S, before, x)) = k - 1
<1> DEFINE n == Cardinality(S)
           place == [x \in S |-> Cardinality(Earlier(S, before, x)) + 1]
<1>1. n \in Nat
  BY EarlierCounts
<1>2. place \in Injection(S, 1 .. n)
  <2>1. \A x \in S : Cardinality(Earlier(S, before, x)) + 1 \in 1 .. n
    BY EarlierCounts
  <2>2. \A x \in S : Cardinality(Earlier(S, before, x)) \in Int
    <3> SUFFICES ASSUME NEW x \in S PROVE Cardinality(Earlier(S, before, x)) \in Int
      OBVIOUS
    <3>1. Earlier(S, before, x) \in SUBSET S
      BY DEF Earlier
    <3> QED
      BY <3>1, FS_Subset, FS_CardinalityType
  <2>3. \A x, y \in S : place[x] = place[y] => x = y
    <3> SUFFICES ASSUME NEW x \in S, NEW y \in S, place[x] = place[y] PROVE x = y
      OBVIOUS
    <3>1. Cardinality(Earlier(S, before, x)) = Cardinality(Earlier(S, before, y))
      BY <2>2
    <3> QED
      BY <3>1, EarlierCounts
  <2> QED
    BY <2>1, <2>3 DEF Injection, IsInjective
<1>3. IsFiniteSet(1 .. n) /\ Cardinality(1 .. n) = n
  BY <1>1, FS_Interval
<1>4. place \in Surjection(S, 1 .. n)
  BY <1>2, <1>3, FS_Injection
<1>5. PICK x \in S : place[x] = k
  BY <1>4 DEF Surjection
<1>6. Cardinality(Earlier(S, before, x)) + 1 = k /\ Cardinality(Earlier(S, before, x)) \in Int
  <2>1. Earlier(S, before, x) \in SUBSET S
    BY DEF Earlier
  <2> QED
    BY <1>5, <2>1, FS_Subset, FS_CardinalityType
<1> QED
  BY <1>6

\* What choosing by place makes of some places of a list: each of them once.
Lists(list, rows, places) ==
  /\ Cardinality(places) \in Nat
  /\ Len(list) = Cardinality(places)
  /\ \A k \in 1 .. Len(list) : \E i \in places : list[k] = rows[i]
  /\ \A i \in places : \E k \in 1 .. Len(list) : list[k] = rows[i]

LEMMA OrderLists ==
  ASSUME NEW R, NEW rows \in Seq(R), NEW places \in SUBSET (1 .. Len(rows)),
         NEW before, StrictOrder(places, before)
  PROVE  /\ InOrder(rows, places, before) \in Seq(R)
         /\ Lists(InOrder(rows, places, before), rows, places)
<1> DEFINE list == InOrder(rows, places, before)
           n == Cardinality(places)
           at(i) == Cardinality(Earlier(places, before, i))
           chosen(k) == CHOOSE i \in places : at(i) = k - 1
<1>1. IsFiniteSet(places)
  <2>1. IsFiniteSet(1 .. Len(rows))
    BY FS_Interval
  <2> QED
    BY <2>1, FS_Subset
<1>2. n \in Nat
  BY <1>1, EarlierCounts
<1>3. ASSUME NEW k \in 1 .. n
      PROVE  chosen(k) \in places /\ at(chosen(k)) = k - 1
  <2>1. \E i \in places : at(i) = k - 1
    BY <1>1, EarlierFills
  <2> QED
    BY <2>1
<1>4. ASSUME NEW i \in places
      PROVE  at(i) + 1 \in 1 .. n /\ chosen(at(i) + 1) = i
  <2>1. at(i) + 1 \in 1 .. n
    BY <1>1, EarlierCounts
  <2>2. at(i) \in Int
    <3>1. Earlier(places, before, i) \in SUBSET places
      BY DEF Earlier
    <3> QED
      BY <1>1, <3>1, FS_Subset, FS_CardinalityType
  <2>3. chosen(at(i) + 1) \in places /\ at(chosen(at(i) + 1)) = at(i)
    BY <1>3, <2>1, <2>2
  <2> HIDE DEF chosen
  <2>4. chosen(at(i) + 1) = i
    BY <1>1, <2>3, EarlierCounts
  <2> QED
    BY <2>1, <2>4
<1>5. list = [k \in 1 .. n |-> rows[chosen(k)]]
  BY DEF InOrder, Earlier
<1> HIDE DEF list, n, at, chosen
<1>6. \A i \in places : rows[i] \in R
  OBVIOUS
<1>7. list \in [1 .. n -> R]
  BY <1>3, <1>5, <1>6
<1>8. list \in Seq(R) /\ Len(list) = n
  <2>1. list \in Seq(R)
    BY <1>2, <1>7, SeqDef
  <2>2. DOMAIN list = 1 .. n /\ DOMAIN list = 1 .. Len(list) /\ Len(list) \in Nat
    BY <1>7, <2>1, LenProperties
  <2> QED
    BY <1>2, <2>1, <2>2
<1>9. \A k \in 1 .. n : \E i \in places : list[k] = rows[i]
  BY <1>3, <1>5
<1>10. \A i \in places : \E k \in 1 .. n : list[k] = rows[i]
  BY <1>4, <1>5
<1> QED
  BY <1>2, <1>8, <1>9, <1>10 DEF Lists, list, n

LEMMA KeptLists ==
  ASSUME NEW R, NEW rows \in Seq(R), NEW places \in SUBSET (1 .. Len(rows))
  PROVE  Kept(rows, places) \in Seq(R) /\ Lists(Kept(rows, places), rows, places)
<1> DEFINE before == {p \in places \X places : p[1] < p[2]}
<1>1. \A i, j \in places : <<i, j>> \in before <=> i < j
  OBVIOUS
<1> HIDE DEF before
<1>2. StrictOrder(places, before)
  BY <1>1 DEF StrictOrder
<1>3. /\ InOrder(rows, places, before) \in Seq(R)
      /\ Lists(InOrder(rows, places, before), rows, places)
  BY <1>2, OrderLists
<1> QED
  BY <1>3 DEF Kept, before

LEMMA NewestLists ==
  ASSUME NEW R, NEW rows \in Seq(R), \A i \in 1 .. Len(rows) : rows[i].created \in Nat,
         NEW places \in SUBSET (1 .. Len(rows))
  PROVE  /\ NewestFirst(rows, places) \in Seq(R)
         /\ Lists(NewestFirst(rows, places), rows, places)
<1> DEFINE before == {p \in places \X places : Newer(rows, p[1], p[2])}
<1>1. \A i, j \in places : <<i, j>> \in before <=> Newer(rows, i, j)
  OBVIOUS
<1> HIDE DEF before
<1>2. StrictOrder(places, before)
  BY <1>1 DEF StrictOrder, Newer
<1>3. /\ InOrder(rows, places, before) \in Seq(R)
      /\ Lists(InOrder(rows, places, before), rows, places)
  BY <1>2, OrderLists
<1> QED
  BY <1>3 DEF NewestFirst, before

LEMMA ListsToSet ==
  ASSUME NEW R, NEW rows \in Seq(R), NEW places \in SUBSET (1 .. Len(rows)),
         NEW list \in Seq(R), Lists(list, rows, places)
  PROVE  \A row : row \in ToSet(list) <=> \E i \in places : row = rows[i]
<1>1. DOMAIN list = 1 .. Len(list)
  BY LenProperties
<1>2. ASSUME NEW row, row \in ToSet(list) PROVE \E i \in places : row = rows[i]
  <2>1. PICK k \in 1 .. Len(list) : row = list[k]
    BY <1>1, <1>2 DEF ToSet
  <2> QED
    BY <2>1 DEF Lists
<1>3. ASSUME NEW i \in places PROVE rows[i] \in ToSet(list)
  <2>1. PICK k \in 1 .. Len(list) : list[k] = rows[i]
    BY DEF Lists
  <2> QED
    BY <1>1, <2>1 DEF ToSet
<1> QED
  BY <1>2, <1>3

\* The first rows are the whole list if they are as many.
LEMMA FirstRowsFit ==
  ASSUME NEW R, NEW list \in Seq(R)
  PROVE  /\ Len(FirstRows(list)) \in Nat
         /\ Len(FirstRows(list)) <= Len(list)
         /\ Len(list) <= Preview => FirstRows(list) = list
         /\ Len(FirstRows(list)) = Len(list) => FirstRows(list) = list
<1> DEFINE n == IF Len(list) < Preview THEN Len(list) ELSE Preview
<1>1. Len(list) \in Nat /\ Preview \in Nat /\ n \in Nat /\ n <= Len(list)
  BY LenProperties, PreviewIsPositive
<1>2. \A i \in 1 .. n : list[i] \in R
  BY <1>1, ElementOfSeq
<1>3. Len(SubSeq(list, 1, n)) = n
  <2> HIDE DEF n
  <2>1. Len(SubSeq(list, 1, n)) = IF 1 <= n THEN n - 1 + 1 ELSE 0
    BY <1>1, <1>2, SubSeqProperties
  <2> QED
    BY <1>1, <2>1
<1>4. n = Len(list) => SubSeq(list, 1, n) = list
  <2> HIDE DEF n
  <2> QED
    BY SubSeqFull
<1>5. FirstRows(list) = SubSeq(list, 1, n)
  BY DEF FirstRows
<1>6. Len(list) <= Preview => n = Len(list)
  BY <1>1
<1> HIDE DEF n
<1> QED
  BY <1>1, <1>3, <1>4, <1>5, <1>6

LEMMA LiveLists ==
  ASSUME NEW R, NEW rows \in Seq(R)
  PROVE  /\ Live(rows) \in Seq(R)
         /\ \A row : row \in ToSet(Live(rows)) <=> row \in ToSet(rows) /\ ~row.archived
<1> DEFINE places == {i \in DOMAIN rows : ~rows[i].archived}
<1>1. DOMAIN rows = 1 .. Len(rows)
  BY LenProperties
<1>2. places \in SUBSET (1 .. Len(rows))
  BY <1>1
<1>3. Live(rows) = Kept(rows, places)
  BY DEF Live
<1>4. \A row : (\E i \in places : row = rows[i]) <=> row \in ToSet(rows) /\ ~row.archived
  BY DEF ToSet
<1> HIDE DEF places
<1>5. Kept(rows, places) \in Seq(R) /\ Lists(Kept(rows, places), rows, places)
  BY <1>2, KeptLists
<1>6. \A row : row \in ToSet(Kept(rows, places)) <=> \E i \in places : row = rows[i]
  BY <1>2, <1>5, ListsToSet
<1> QED
  BY <1>3, <1>4, <1>5, <1>6

\* A section draws its tasks or counts them behind its button.
LEMMA SectionHidesNone ==
  ASSUME NEW R, NEW list \in Seq(R), NEW t \in ToSet(list), NEW since, NEW full
  PROVE  LET section == SectionOf(list, bucketOf(t.status), since, full)
         IN  section.hidden > 0 \/ t \in ToSet(section.shown)
<1> DEFINE b == bucketOf(t.status)
           mine == {i \in DOMAIN list : bucketOf(list[i].status) = b}
           recent == {i \in mine : b \in Windowed => list[i].created >= since}
           shown == IF full THEN Kept(list, mine) ELSE FirstRows(Kept(list, recent))
<1>1. SectionOf(list, b, since, full).hidden = Cardinality(mine) - Len(shown)
      /\ SectionOf(list, b, since, full).shown = shown
  BY DEF SectionOf
<1>2. DOMAIN list = 1 .. Len(list) /\ Len(list) \in Nat
  BY LenProperties
<1>3. /\ mine \in SUBSET (1 .. Len(list))
      /\ recent \in SUBSET mine
      /\ recent \in SUBSET (1 .. Len(list))
  BY <1>2
<1>4. PICK i \in mine : t = list[i]
  BY DEF ToSet
<1>5. IsFiniteSet(mine) /\ IsFiniteSet(recent)
  <2>1. IsFiniteSet(1 .. Len(list))
    BY <1>2, FS_Interval
  <2> HIDE DEF mine, recent
  <2> QED
    BY <1>3, <2>1, FS_Subset
<1> HIDE DEF mine, recent
<1>6. Kept(list, mine) \in Seq(R) /\ Lists(Kept(list, mine), list, mine)
  BY <1>3, KeptLists
<1>7. Kept(list, recent) \in Seq(R) /\ Lists(Kept(list, recent), list, recent)
  BY <1>3, KeptLists
<1>8. t \in ToSet(Kept(list, mine))
  BY <1>3, <1>4, <1>6, ListsToSet
<1>9. CASE full
  BY <1>1, <1>8, <1>9
<1>10. CASE ~full
  <2> DEFINE first == FirstRows(Kept(list, recent))
  <2>1. /\ Len(first) \in Nat
        /\ Len(first) <= Cardinality(recent)
        /\ Len(first) = Cardinality(recent) => first = Kept(list, recent)
    BY <1>7, FirstRowsFit DEF Lists
  <2>2. /\ Cardinality(recent) <= Cardinality(mine)
        /\ Cardinality(mine) = Cardinality(recent) => mine = recent
    BY <1>3, <1>5, FS_Subset
  <2>3. Cardinality(mine) \in Nat /\ Cardinality(recent) \in Nat
    BY <1>6, <1>7 DEF Lists
  <2>4. shown = first
    BY <1>10
  <2> HIDE DEF first, shown
  <2>5. Cardinality(mine) - Len(first) > 0 \/ first = Kept(list, mine)
    BY <2>1, <2>2, <2>3
  <2> QED
    BY <1>1, <1>8, <2>4, <2>5
<1> QED
  BY <1>9, <1>10

\* A project draws its tasks or counts them behind its button.
LEMMA ProjectHidesNone ==
  ASSUME NEW R, NEW list \in Seq(R), \A i \in 1 .. Len(list) : list[i].created \in Nat,
         NEW t \in ToSet(list), NEW records, NEW full
  PROVE  LET rows == ProjectRows(groupByProject(list, records)[t.repository], full)
         IN  rows.hidden > 0 \/ t \in ToSet(rows.shown)
<1> DEFINE r == t.repository
           mine == {i \in DOMAIN list : list[i].repository = r}
           rows == NewestFirst(list, mine)
<1>1. DOMAIN list = 1 .. Len(list)
  BY LenProperties
<1>2. mine \in SUBSET (1 .. Len(list))
  BY <1>1
<1>3. PICK i \in mine : t = list[i]
  BY DEF ToSet
<1>4. groupByProject(list, records)[r] = rows
  BY DEF groupByProject, Repositories
<1> HIDE DEF mine
<1>5. rows \in Seq(R) /\ Lists(rows, list, mine)
  BY <1>2, NewestLists
<1>6. t \in ToSet(rows)
  BY <1>2, <1>3, <1>5, ListsToSet
<1> HIDE DEF rows
<1>7. Len(rows) <= Preview => FirstRows(rows) = rows
  BY <1>5, FirstRowsFit
<1>8. Len(rows) \in Nat /\ Preview \in Nat
  BY <1>5, LenProperties, PreviewIsPositive
<1>9. Len(rows) - Preview > 0 \/ t \in ToSet(IF full THEN rows ELSE FirstRows(rows))
  BY <1>6, <1>7, <1>8
<1> QED
  BY <1>4, <1>9 DEF ProjectRows

\* A document is drawn once: archived, or under the heading of its repository alone.
LEMMA DocumentDrawnOnce ==
  ASSUME NEW R, NEW list \in Seq(R), NEW d \in ToSet(list)
  PROVE  LET groups == DocumentGroups(list)
         IN  Quantify(DOMAIN groups.live, LAMBDA r : d \in ToSet(groups.live[r]))
               + (IF d \in ToSet(groups.archived) THEN 1 ELSE 0) = 1
<1> DEFINE live == Live(list)
           groups == DocumentGroups(list)
           gone == {i \in DOMAIN list : list[i].archived}
           under(r) == {i \in DOMAIN live : live[i].repository = r}
           drawn == {r \in DOMAIN groups.live : d \in ToSet(groups.live[r])}
<1>1. DOMAIN list = 1 .. Len(list)
  BY LenProperties
<1>2. live \in Seq(R) /\ (d \in ToSet(live) <=> ~d.archived)
  BY LiveLists
<1>3. DOMAIN live = 1 .. Len(live)
  BY <1>2, LenProperties
<1>4. groups.archived = Kept(list, gone)
  BY DEF DocumentGroups
<1>5. /\ DOMAIN groups.live = Repositories(live)
      /\ \A r \in Repositories(live) : groups.live[r] = Kept(live, under(r))
  BY DEF DocumentGroups, groupByRepository
<1>6. d \in ToSet(Kept(list, gone)) <=> d.archived
  <2>1. gone \in SUBSET (1 .. Len(list))
    BY <1>1
  <2>2. (\E i \in gone : d = list[i]) <=> d.archived
    BY DEF ToSet
  <2> HIDE DEF gone
  <2>3. Kept(list, gone) \in Seq(R) /\ Lists(Kept(list, gone), list, gone)
    BY <2>1, KeptLists
  <2> QED
    BY <2>1, <2>2, <2>3, ListsToSet
<1>7. ASSUME NEW r PROVE d \in ToSet(Kept(live, under(r))) <=> ~d.archived /\ d.repository = r
  <2> DEFINE places == under(r)
  <2>1. places \in SUBSET (1 .. Len(live))
    BY <1>3
  <2>2. (\E i \in places : d = live[i]) <=> d \in ToSet(live) /\ d.repository = r
    BY DEF ToSet
  <2> HIDE DEF places, live
  <2>3. Kept(live, places) \in Seq(R) /\ Lists(Kept(live, places), live, places)
    BY <1>2, <2>1, KeptLists
  <2>4. d \in ToSet(Kept(live, places)) <=> \E i \in places : d = live[i]
    BY <1>2, <2>1, <2>3, ListsToSet
  <2> QED
    BY <1>2, <2>2, <2>4 DEF places
<1>8. ~d.archived => d.repository \in Repositories(live)
  BY <1>2 DEF Repositories
<1> HIDE DEF live, groups, under
<1>9. drawn = IF d.archived THEN {} ELSE {d.repository}
  BY <1>5, <1>7, <1>8
<1>10. Cardinality(drawn) = IF d.archived THEN 0 ELSE 1
  <2> HIDE DEF drawn
  <2> QED
    BY <1>9, FS_EmptySet, FS_Singleton
<1>11. Cardinality(drawn) + (IF d \in ToSet(groups.archived) THEN 1 ELSE 0) = 1
  BY <1>4, <1>6, <1>10
<1> QED
  BY <1>11 DEF Quantify, groups

-----------------------------------------------------------------------------
(* What is loaded.                                                         *)

\* The orchestrator's lists and every copy of them are lists of tasks or documents.
Listed ==
  /\ tasks \in Seq(TaskRecord) /\ documents \in Seq(Document) /\ clock \in Nat
  /\ shell.tasks \in Seq(TaskRecord)
  /\ Loaded(triage) => triage.tasks \in Seq(TaskRecord)
  /\ Loaded(listed) => listed \in Seq(Document)

LEMMA ListedHidesNone == Listed => NothingHidden
<1> SUFFICES ASSUME Listed PROVE NothingHidden
  OBVIOUS
<1>1. ASSUME Loaded(triage), NEW t \in ToSet(triage.tasks)
      PROVE  LET section == SectionDrawn(bucketOf(t.status))
             IN  section.hidden > 0 \/ t \in ToSet(section.shown)
  <2>1. triage.tasks \in Seq(TaskRecord)
    BY <1>1 DEF Listed
  <2> QED
    BY <2>1, SectionHidesNone DEF SectionDrawn
<1>2. ASSUME NEW t \in ToSet(Live(shell.tasks))
      PROVE  LET rows == ProjectRows(Projects[t.repository], t.repository \in expanded)
             IN  rows.hidden > 0 \/ t \in ToSet(rows.shown)
  <2> DEFINE list == Live(shell.tasks)
  <2>1. list \in Seq(TaskRecord)
    BY LiveLists DEF Listed
  <2>2. \A i \in 1 .. Len(list) : list[i].created \in Nat
    <3> HIDE DEF list
    <3> SUFFICES ASSUME NEW i \in 1 .. Len(list) PROVE list[i].created \in Nat
      OBVIOUS
    <3>1. list[i] \in TaskRecord
      BY <2>1, ElementOfSeq
    <3> QED
      BY <3>1 DEF TaskRecord
  <2>3. Projects[t.repository] = groupByProject(list, shell.projects)[t.repository]
    BY DEF Projects
  <2> HIDE DEF list
  <2>4. t \in ToSet(list)
    BY <1>2 DEF list
  <2> QED
    BY <2>1, <2>2, <2>3, <2>4, ProjectHidesNone
<1>3. ASSUME Loaded(listed), NEW d \in ToSet(listed)
      PROVE  LET groups == DocumentGroups(listed)
             IN  Quantify(DOMAIN groups.live, LAMBDA r : d \in ToSet(groups.live[r]))
                   + (IF d \in ToSet(groups.archived) THEN 1 ELSE 0) = 1
  <2>1. listed \in Seq(Document)
    BY <1>3 DEF Listed
  <2> QED
    BY <2>1, DocumentDrawnOnce DEF Quantify
<1> QED
  BY <1>1, <1>2, <1>3 DEF NothingHidden

LEMMA PutFirst ==
  ASSUME NEW R, NEW list \in Seq(R), NEW i \in DOMAIN list, NEW row \in R
  PROVE  /\ <<row>> \o list \in Seq(R)
         /\ <<row>> \o RemoveAt(list, i) \in Seq(R)
<1>1. DOMAIN list = 1 .. Len(list) /\ Len(list) \in Nat
  BY LenProperties
<1>2. SubSeq(list, 1, i - 1) \in Seq(R) /\ SubSeq(list, i + 1, Len(list)) \in Seq(R)
  <2>1. \A j \in 1 .. i - 1 : list[j] \in R
    BY <1>1, ElementOfSeq
  <2>2. \A j \in i + 1 .. Len(list) : list[j] \in R
    BY <1>1, ElementOfSeq
  <2> QED
    BY <1>1, <2>1, <2>2, SubSeqProperties
<1>3. RemoveAt(list, i) \in Seq(R)
  BY <1>2, ConcatProperties DEF RemoveAt
<1>4. <<row>> \in Seq(R)
  OBVIOUS
<1> QED
  BY <1>3, <1>4, ConcatProperties

\* The orchestrator's own steps.
LEMMA TasksListed ==
  ASSUME Listed,
         \/ \E r \in Repository, s \in Status : TaskCreated(r, s)
         \/ \E i \in DOMAIN tasks : TaskArchived(i) \/ \E s \in Status : TaskMoves(i, s)
  PROVE  tasks' \in Seq(TaskRecord)
<1>1. DOMAIN tasks = 1 .. Len(tasks) /\ Len(tasks) \in Nat
  BY LenProperties DEF Listed
<1>2. ASSUME NEW r \in Repository, NEW s \in Status, TaskCreated(r, s)
      PROVE  tasks' \in Seq(TaskRecord)
  <2> DEFINE new == [id |-> Len(tasks) + 1, repository |-> r, status |-> s,
                     created |-> clock, archived |-> FALSE]
  <2>1. new \in TaskRecord
    BY <1>1 DEF TaskRecord, Listed
  <2>2. tasks' = <<new>> \o tasks
    BY <1>2 DEF TaskCreated
  <2> HIDE DEF new
  <2> QED
    BY <2>1, <2>2, ConcatProperties DEF Listed
<1>3. ASSUME NEW i \in DOMAIN tasks, TaskArchived(i)
      PROVE  tasks' \in Seq(TaskRecord)
  <2> DEFINE row == [tasks[i] EXCEPT !.archived = TRUE]
  <2>0. tasks[i] \in TaskRecord
    BY <1>1, ElementOfSeq DEF Listed
  <2>1. row \in TaskRecord
    BY <2>0 DEF TaskRecord
  <2>2. tasks' = [tasks EXCEPT ![i] = row]
    BY <1>3 DEF TaskArchived
  <2> HIDE DEF row
  <2> QED
    BY <1>1, <2>1, <2>2, ExceptSeq DEF Listed
<1>4. ASSUME NEW i \in DOMAIN tasks, NEW s \in Status, TaskMoves(i, s)
      PROVE  tasks' \in Seq(TaskRecord)
  <2> DEFINE row == [tasks[i] EXCEPT !.status = s]
  <2>0. tasks[i] \in TaskRecord
    BY <1>1, ElementOfSeq DEF Listed
  <2>1. row \in TaskRecord
    BY <2>0 DEF TaskRecord
  <2>2. tasks' = <<row>> \o RemoveAt(tasks, i)
    BY <1>4 DEF TaskMoves
  <2> HIDE DEF row
  <2> QED
    BY <2>1, <2>2, PutFirst DEF Listed
<1> QED
  BY <1>2, <1>3, <1>4

LEMMA DocumentsListed ==
  ASSUME Listed, NEW i \in DOMAIN documents, NEW r \in Repository \cup {Unset},
         NEW archived \in BOOLEAN, DocumentChanged(i, r, archived)
  PROVE  documents' \in Seq(Document)
<1> DEFINE row == [documents[i] EXCEPT !.repository = r, !.archived = archived]
<1>1. DOMAIN documents = 1 .. Len(documents)
  BY LenProperties DEF Listed
<1>2. row \in Document
  <2>1. documents[i] \in Document
    BY <1>1, ElementOfSeq DEF Listed
  <2> QED
    BY <2>1 DEF Document
<1>3. documents' = <<row>> \o RemoveAt(documents, i)
  BY DEF DocumentChanged
<1> HIDE DEF row
<1> QED
  BY <1>2, <1>3, PutFirst DEF Listed

LEMMA CreatedListed ==
  ASSUME Listed, Created
  PROVE  documents' \in Seq(Document)
<1> DEFINE new == [id |-> Len(documents) + 1, repository |-> Unset, archived |-> FALSE]
<1>1. new \in Document
  BY LenProperties DEF Document, Listed
<1>2. documents' = <<new>> \o documents
  BY DEF Created
<1>3. <<new>> \in Seq(Document)
  BY <1>1
<1> HIDE DEF new
<1> QED
  BY <1>2, <1>3, ConcatProperties DEF Listed

LEMMA TriageListed ==
  ASSUME Listed
  PROVE  TriageNow.tasks \in Seq(TaskRecord)
  BY LiveLists DEF Listed, TriageNow

\* The copies.
LEMMA LoadsListed ==
  ASSUME Listed,
         \/ \E a, b \in BOOLEAN : LoadShell(a, b)
         \/ \E had \in BOOLEAN : LoadPage(had)
         \/ \E p \in {"tasks", "documents", "document"} : Go(p)
         \/ Reopen
  PROVE  Listed'
<1>1. ASSUME NEW a \in BOOLEAN, NEW b \in BOOLEAN, LoadShell(a, b)
      PROVE  Listed'
  <2>1. shell'.tasks \in Seq(TaskRecord)
    BY <1>1, EmptySeq DEF LoadShell, Listed
  <2> QED
    BY <1>1, <2>1 DEF LoadShell, Listed, server, Loaded
<1>2. ASSUME NEW had \in BOOLEAN, LoadPage(had)
      PROVE  Listed'
  <2>1. triage' \in {triage, TriageNow, Error} /\ listed' \in {listed, documents, Error}
    BY <1>2 DEF LoadPage
  <2>2. UNCHANGED <<tasks, documents, clock, shell>>
    BY <1>2 DEF LoadPage, server
  <2> QED
    BY <2>1, <2>2, TriageListed DEF Listed, Loaded
<1>3. ASSUME NEW p, Go(p)
      PROVE  Listed'
  <2>1. triage' \in {triage, TriageNow} /\ listed' \in {listed, documents}
    BY <1>3 DEF Go, Visit
  <2>2. UNCHANGED <<tasks, documents, clock, shell>>
    BY <1>3 DEF Go, server
  <2> QED
    BY <2>1, <2>2, TriageListed DEF Listed, Loaded
<1>4. ASSUME Reopen
      PROVE  Listed'
  <2>1. triage' \in {Unset, TriageNow} /\ listed' \in {Unset, documents}
        /\ shell'.tasks = tasks
    BY <1>4 DEF Reopen
  <2>2. UNCHANGED <<tasks, documents, clock>>
    BY <1>4 DEF Reopen, server
  <2> QED
    BY <2>1, <2>2, TriageListed DEF Listed, Loaded
<1> QED
  BY <1>1, <1>2, <1>3, <1>4

LEMMA NextListed == Listed /\ [Next]_vars => Listed'
<1> SUFFICES ASSUME Listed, [Next]_vars
             PROVE  Listed'
  OBVIOUS
<1> DEFINE Still == UNCHANGED <<tasks, documents, shell, triage, listed>>
<1>0. ASSUME Still, clock' \in Nat
      PROVE  Listed'
  BY <1>0 DEF Listed, Loaded
<1>1. ASSUME \/ \E r \in Repository, s \in Status : TaskCreated(r, s)
             \/ \E i \in DOMAIN tasks : TaskArchived(i) \/ \E s \in Status : TaskMoves(i, s)
      PROVE  Listed'
  <2>1. tasks' \in Seq(TaskRecord)
    BY <1>1, TasksListed
  <2>2. UNCHANGED <<documents, clock, shell, triage, listed>>
    BY <1>1 DEF TaskCreated, TaskArchived, TaskMoves, Elsewhere, copies
  <2> QED
    BY <2>1, <2>2 DEF Listed, Loaded
<1>2. ASSUME NEW i \in DOMAIN documents, NEW r \in Repository \cup {Unset},
             NEW archived \in BOOLEAN, DocumentChanged(i, r, archived)
      PROVE  Listed'
  <2>1. documents' \in Seq(Document)
    BY <1>2, DocumentsListed
  <2>2. UNCHANGED <<tasks, clock, shell, triage, listed>>
    BY <1>2 DEF DocumentChanged, Elsewhere, copies
  <2> QED
    BY <2>1, <2>2 DEF Listed, Loaded
<1>3. CASE \/ \E a, b \in BOOLEAN : LoadShell(a, b)
           \/ \E had \in BOOLEAN : LoadPage(had)
           \/ \E p \in {"tasks", "documents", "document"} : Go(p)
           \/ Reopen
  BY <1>3, LoadsListed
<1>4. CASE Created
  <2>1. documents' \in Seq(Document)
    BY <1>4, CreatedListed
  <2>2. triage' \in {triage, TriageNow} /\ listed' \in {listed, documents}
    BY <1>4 DEF Created, Visit
  <2>3. UNCHANGED <<tasks, clock, shell>>
    BY <1>4 DEF Created
  <2> QED
    BY <2>1, <2>2, <2>3, TriageListed DEF Listed, Loaded
<1>5. CASE TimePasses
  BY <1>0, <1>5 DEF TimePasses, Listed, server, copies
<1>6. clock \in Nat
  BY DEF Listed
<1>7. ASSUME \/ \E g \in Repository \cup {":projects"} : setProjectOpen(g)
             \/ \E r \in Repository : ToggleExpanded(r) \/ addProject(r)
             \/ \E b \in Buckets : ToggleFolded(b) \/ ToggleAll(b)
             \/ \E h \in Repository \cup {Unset, ":archived"} : ToggleGroup(h)
             \/ TogglePanel \/ ShowAddProject \/ HideAddProject
      PROVE  Listed'
  BY <1>0, <1>6, <1>7 DEF setProjectOpen, ToggleExpanded, addProject, ToggleFolded,
       ToggleAll, ToggleGroup, TogglePanel, ShowAddProject, HideAddProject, Press, server, copies
<1>8. ASSUME \/ Tick \/ ProjectCreated \/ AddReturns \/ AddFails \/ AddEnds \/ create
             \/ \E own \in BOOLEAN : CreateFails(own)
      PROVE  Listed'
  BY <1>0, <1>6, <1>8 DEF Tick, ProjectCreated, AddReturns, AddFails, AddEnds, create,
       CreateFails, server, copies
<1>9. CASE UNCHANGED vars
  BY <1>0, <1>6, <1>9 DEF vars, server, copies
<1> QED
  BY <1>1, <1>2, <1>3, <1>4, <1>5, <1>7, <1>8, <1>9 DEF Next

\* The copies that the pages and the sidebar draw are lists of tasks or documents,
\* whatever was loaded when and whichever loads failed.
THEOREM ListsAreLists == Spec => []Listed
<1>1. Init => Listed
  BY ListsAreTyped DEF Init, Listed, Loaded
<1> QED
  BY <1>1, NextListed, PTL DEF Spec

\* No task and no document disappears from its list, in any order of loading,
\* folding and showing all: it is drawn, or counted behind a button that is there,
\* and no document is under two headings.
THEOREM ListsHideNothing == Spec => []NothingHidden
<1> QED
  BY ListsAreLists, ListedHidesNone, PTL

=============================================================================
