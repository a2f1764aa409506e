------------------------- MODULE DocumentPageProofs -------------------------
(***************************************************************************)
(* Proofs about DocumentPage, for any documents and bounds: no edit        *)
(* disappears in silence, "Saved" is true, and what one mounted page sends *)
(* arrives in the order it was typed.                                      *)
(*                                                                         *)
(* None of the three is inductive.  SaversInOrder says what the refs of a  *)
(* page hold beside its one call; OnePage ties the last visit to the page  *)
(* on screen; TextsAuthored says whose edits a text may hold, which is     *)
(* where a todo that was switched differs from everything else; DoneLanded *)
(* is why the call that returned needs no successor.                       *)
(***************************************************************************)
EXTENDS DocumentPage, TLAPS

LiveFrom(v) == {r \in requests : r.from = v /\ Live(r)}

\* A page has one call under way, and inFlight says whether.
OneCall ==
  \A v \in Visit : /\ \A r, q \in LiveFrom(v) : r = q
                   /\ savers[v].inFlight <=> LiveFrom(v) # {}

\* What is parked is the latest text, and "Saved" is not said over a call.
SaversParkLatest ==
  \A v \in Visit : /\ savers[v].queued \subseteq {savers[v].latest}
                   /\ savers[v].label = "saved" => ~savers[v].inFlight

\* Of a page that stayed with its document, the call under way is newer than all
\* before it, and older than `latest`.
SaversInOrder ==
  \A v \in Visit \ mixed :
    /\ written[v] \subseteq savers[v].latest
    /\ \A q \in requests : q.from = v => q.text \subseteq savers[v].latest
    /\ \A r \in LiveFrom(v) :
         /\ written[v] \subseteq r.text
         /\ \A q \in requests : q.from = v => q.text \subseteq r.text
         /\ r.doc \in Keyed /\ savers[v].queued = {} => r.text = savers[v].latest

Saving == OneCall /\ SaversParkLatest /\ SaversInOrder

\* The last visit and the page on screen.
OnePage ==
  /\ mixed \subseteq 0 .. visit
  /\ \A v \in Visit : visit < v => written[v] = {}
  /\ \A r \in requests : /\ r.from <= visit
                         /\ r.from \in mixed => r.doc \notin Keyed
  /\ page # Away =>
       /\ visit \in mixed => page \notin Keyed
       /\ visit \notin mixed =>
            /\ \A r \in requests : r.from = visit => r.doc = page
            /\ emitted = savers[visit].latest /\ emitted \subseteq pending

\* The edits a text of document d may hold.
Authored(text, d) ==
  \A e \in text : IF OneDocument(d) THEN author[e] = d ELSE author[e] \in Doc \ Keyed

TextsAuthored ==
  /\ \A d \in Doc : /\ Authored(stored[d], d)
                    /\ \A text \in cached[d] : Authored(text, d)
  /\ \A r \in requests : Authored(r.text, r.doc) /\ Authored(savers[r.from].latest, r.doc)
  /\ page # Away => /\ Authored(pending, page) /\ Authored(emitted, page)
                    /\ Authored(savers[visit].latest, page)

\* A call that was served has landed.
DoneLanded ==
  \A r \in requests : r.phase = "done" =>
    \A e \in r.text : author[e] = r.doc => e \in landed

Inv ==
  /\ TypeOK /\ Saving /\ OnePage /\ TextsAuthored /\ DoneLanded
  /\ SavedIsSaved /\ UnsavedIsKnown

-----------------------------------------------------------------------------
(* Texts and the calls that carry them.                                    *)

\* Some call carries the edit, or will leave it to the next.
Carries(r, e) == e \in r.text \/ \E text \in Tail(r.from, r.doc, r.text) : e \in text

LEMMA OnTheWayMeans ==
  ASSUME NEW e
  PROVE  e \in OnTheWay <=> \E r \in requests : Live(r) /\ Carries(r, e)
BY DEF OnTheWay, Carries

\* What a page leaves for the next call is its latest text.
LEMMA TailIsLatest ==
  ASSUME TypeOK, SaversParkLatest, NEW r \in requests
  PROVE  /\ Tail(r.from, r.doc, r.text) \subseteq {savers[r.from].latest}
         /\ r.from \in Visit /\ r.doc \in Doc /\ r.text \in Text
         /\ r.phase \in {"sent", "done", "refused", "orphan"}
BY DEF TypeOK, SaversParkLatest, Tail, Request

\* Edits of a document the properties speak of are only in texts of that document.
LEMMA OwnEdits ==
  ASSUME NEW d \in Doc, NEW STATE text, Authored(text, d),
         NEW e \in text, OneDocument(author[e])
  PROVE  author[e] = d
BY DEF Authored, OneDocument

\* Texts of two todos are alike once somebody went from one todo to another.
LEMMA TodosShareEdits ==
  ASSUME NEW STATE text, NEW STATE d, NEW STATE other, d \in Doc \ Keyed,
         other \in Doc \ Keyed, mixed # {}, Authored(text, d)
  PROVE  Authored(text, other)
BY DEF Authored, OneDocument

-----------------------------------------------------------------------------
(* `save`.                                                                 *)

LEMMA SaveEffect ==
  ASSUME TypeOK, page # Away, Save(visit, page, pending)
  PROVE  /\ visit \in Visit /\ page \in Doc /\ pending \in Text
         /\ savers' \in [Visit -> Saver] /\ requests' \in SUBSET Request
         /\ \A v \in Visit : v # visit => savers'[v] = savers[v]
         /\ savers'[visit].latest = pending /\ savers'[visit].inFlight
         /\ savers[visit].inFlight =>
              /\ requests' = requests /\ savers'[visit].queued = {pending}
              /\ savers'[visit].label = savers[visit].label
         /\ ~savers[visit].inFlight =>
              /\ savers'[visit].queued = {} /\ savers'[visit].label = "saving"
              /\ \E r \in Request :
                   /\ requests' = requests \cup {r}
                   /\ r.from = visit /\ r.doc = page /\ r.text = pending /\ r.phase = "sent"
<1>1. visit \in Visit /\ page \in Doc /\ pending \in Text /\ savers[visit] \in Saver
  BY DocumentsAreTyped DEF TypeOK, Visit
<1> DEFINE s == SaverAfter(savers[visit], pending)
           r == Send(visit, page, pending)
<1>2. /\ s \in Saver /\ s.latest = pending /\ s.inFlight
      /\ s.queued = IF savers[visit].inFlight THEN {pending} ELSE {}
      /\ s.label = IF savers[visit].inFlight THEN savers[visit].label ELSE "saving"
  BY <1>1 DEF SaverAfter, Saver
<1>3. /\ r \in Request /\ r.from = visit /\ r.doc = page /\ r.text = pending
      /\ r.phase = "sent"
  BY <1>1 DEF Send, Request
<1>4. /\ savers' = [savers EXCEPT ![visit] = s]
      /\ requests' = IF savers[visit].inFlight THEN requests ELSE requests \cup {r}
  BY DEF Save
<1> HIDE DEF s, r
<1>5. /\ savers' \in [Visit -> Saver] /\ savers'[visit] = s
      /\ \A v \in Visit : v # visit => savers'[v] = savers[v]
  BY <1>1, <1>2, <1>4 DEF TypeOK
<1>6. requests' \in SUBSET Request
  BY <1>3, <1>4 DEF TypeOK
<1>7. QED
  BY <1>1, <1>2, <1>3, <1>4, <1>5, <1>6

LEMMA SaveKeepsSaving ==
  ASSUME TypeOK, Saving, OnePage, page # Away, Save(visit, page, pending),
         mixed \subseteq mixed', UNCHANGED written
  PROVE  Saving'
<1>1. OneCall'
  BY SaveEffect DEF Saving, OneCall, LiveFrom, Live
<1>2. SaversParkLatest'
  BY SaveEffect DEF Saving, SaversParkLatest
<1>3. SaversInOrder'
  <2> SUFFICES ASSUME NEW v \in Visit \ mixed'
               PROVE  /\ written[v] \subseteq savers'[v].latest
                      /\ \A q \in requests' : q.from = v => q.text \subseteq savers'[v].latest
                      /\ \A r \in LiveFrom(v)' :
                           /\ written[v] \subseteq r.text
                           /\ \A q \in requests' : q.from = v => q.text \subseteq r.text
                           /\ r.doc \in Keyed /\ savers'[v].queued = {} =>
                                r.text = savers'[v].latest
    BY DEF SaversInOrder
  <2>1. /\ written[v] \subseteq savers[v].latest
        /\ \A q \in requests : q.from = v => q.text \subseteq savers[v].latest
        /\ \A r \in LiveFrom(v) :
             /\ written[v] \subseteq r.text
             /\ \A q \in requests : q.from = v => q.text \subseteq r.text
             /\ r.doc \in Keyed /\ savers[v].queued = {} => r.text = savers[v].latest
    BY DEF Saving, SaversInOrder
  <2>2. CASE v # visit
    <3>1. savers'[v] = savers[v] /\ \A r \in requests' : r.from = v => r \in requests
      BY <2>2, SaveEffect
    <3>2. LiveFrom(v)' \subseteq LiveFrom(v)
      BY <3>1 DEF LiveFrom, Live
    <3>3. QED
      BY <2>1, <3>1, <3>2
  <2>3. CASE v = visit
    <3>1. savers[v].latest \subseteq pending /\ savers'[v].latest = pending
      BY <2>3, SaveEffect DEF OnePage
    <3>2. CASE savers[v].inFlight
      <4>1. requests' = requests /\ savers'[v].queued # {}
        BY <2>3, <3>2, SaveEffect
      <4>2. LiveFrom(v)' = LiveFrom(v)
        BY <4>1 DEF LiveFrom, Live
      <4>3. QED
        BY <2>1, <3>1, <4>1, <4>2
    <3>3. CASE ~savers[v].inFlight
      <4>1. PICK r \in Request : requests' = requests \cup {r} /\ r.text = pending
        BY <2>3, <3>3, SaveEffect
      <4>2. LiveFrom(v) = {}
        BY <3>3 DEF Saving, OneCall
      <4>3. \A q \in LiveFrom(v)' : q = r
        BY <4>1, <4>2 DEF LiveFrom, Live
      <4>4. QED
        BY <2>1, <3>1, <4>1, <4>3
    <3>4. QED
      BY <3>2, <3>3
  <2>4. QED
    BY <2>2, <2>3
<1>4. QED
  BY <1>1, <1>2, <1>3 DEF Saving

\* Nothing known is lost, and what is in the editor is on its way.
LEMMA SaveKeepsKnown ==
  ASSUME TypeOK, Saving, OnePage, TextsAuthored, page # Away,
         Save(visit, page, pending),
         NEW e, OneDocument(author[e]), e \in OnTheWay \/ e \in pending
  PROVE  e \in OnTheWay'
<1>1. requests \subseteq requests'
  BY SaveEffect
<1>2. CASE e \in pending
  <2>1. CASE savers[visit].inFlight
    <3>1. PICK r \in requests : r.from = visit /\ Live(r)
      BY <2>1, SaveEffect DEF Saving, OneCall, LiveFrom
    <3>2. Carries(r, e)'
      BY <1>2, <2>1, <3>1, SaveEffect DEF Carries, Tail
    <3>3. QED
      BY <1>1, <3>1, <3>2 DEF OnTheWay, Carries, Live
  <2>2. CASE ~savers[visit].inFlight
    <3>1. PICK r \in requests' : r.text = pending /\ r.phase = "sent"
      BY <2>2, SaveEffect
    <3>2. QED
      BY <1>2, <3>1 DEF OnTheWay, Live
  <2>3. QED
    BY <2>1, <2>2
<1>3. CASE e \notin pending
  <2>1. PICK r \in requests : Live(r) /\ Carries(r, e)
    BY <1>3, OnTheWayMeans
  <2>2. r.doc \in Doc /\ Tail(r.from, r.doc, r.text) \subseteq {savers[r.from].latest}
    BY TailIsLatest DEF Saving
  <2>3. CASE e \in r.text
    BY <1>1, <2>1, <2>3 DEF OnTheWay, Live
  <2>4. CASE e \notin r.text
    <3>1. e \in savers[r.from].latest
      BY <2>1, <2>2, <2>4 DEF Carries
    <3>2. r.from # visit
      <4> SUFFICES ASSUME r.from = visit PROVE FALSE
        OBVIOUS
      <4>1. visit \in mixed
        BY <1>3, <3>1 DEF OnePage
      <4>2. r.doc \notin Keyed /\ author[e] = r.doc
        BY <2>2, <3>1, <4>1, OwnEdits DEF OnePage, TextsAuthored
      <4>3. QED
        BY <4>1, <4>2 DEF OneDocument
    <3>3. r.from \in Visit
      BY TailIsLatest DEF Saving
    <3>4. savers'[r.from] = savers[r.from]
      BY <3>2, <3>3, SaveEffect
    <3>5. Carries(r, e)'
      BY <2>1, <3>4 DEF Carries, Tail
    <3>6. QED
      BY <1>1, <2>1, <3>5 DEF OnTheWay, Carries, Live
  <2>5. QED
    BY <2>3, <2>4
<1>4. QED
  BY <1>2, <1>3

LEMMA SaveKeepsAuthored ==
  ASSUME TypeOK, OnePage, TextsAuthored, page # Away, Save(visit, page, pending)
  PROVE  \A r \in requests' :
           /\ r \notin requests => r.phase = "sent" /\ r.from = visit /\ r.doc = page
           /\ r.doc \in Doc /\ r.from \in Visit
           /\ Authored(r.text, r.doc) /\ Authored(savers'[r.from].latest, r.doc)
<1> SUFFICES ASSUME NEW r \in requests'
             PROVE  /\ r \notin requests =>
                         r.phase = "sent" /\ r.from = visit /\ r.doc = page
                    /\ r.doc \in Doc /\ r.from \in Visit
                    /\ Authored(r.text, r.doc) /\ Authored(savers'[r.from].latest, r.doc)
  OBVIOUS
<1>1. Authored(pending, page)
  BY DEF TextsAuthored
<1>2. r.doc \in Doc /\ r.from \in Visit
  BY SaveEffect DEF Request
<1>3. CASE r \notin requests
  <2>1. r.phase = "sent" /\ r.from = visit /\ r.doc = page /\ r.text = pending
    BY <1>3, SaveEffect
  <2>2. savers'[r.from].latest = pending
    BY <2>1, SaveEffect
  <2>3. QED
    BY <1>1, <1>2, <2>1, <2>2
<1>4. CASE r \in requests /\ r.from # visit
  <2>1. savers'[r.from] = savers[r.from]
    BY <1>2, <1>4, SaveEffect
  <2>2. QED
    BY <1>2, <1>4, <2>1 DEF TextsAuthored
<1>5. CASE r \in requests /\ r.from = visit
  <2>1. savers'[r.from].latest = pending /\ page \in Doc
    BY <1>5, SaveEffect
  <2>2. Authored(r.text, r.doc)
    BY <1>5 DEF TextsAuthored
  <2>3. CASE visit \notin mixed
    BY <1>1, <1>2, <1>5, <2>1, <2>2, <2>3 DEF OnePage
  <2>4. CASE visit \in mixed
    <3>1. r.doc \notin Keyed /\ page \notin Keyed
      BY <1>5, <2>4 DEF OnePage
    <3>2. Authored(pending, r.doc)
      BY <1>1, <1>2, <2>1, <2>4, <3>1, TodosShareEdits
    <3>3. QED
      BY <1>2, <1>5, <2>1, <2>2, <3>2
  <2>5. QED
    BY <2>3, <2>4
<1>6. QED
  BY <1>3, <1>4, <1>5

\* The calls and refs after `save`, whatever becomes of the page.
LEMMA SaveKeepsCalls ==
  ASSUME Inv, page # Away, Save(visit, page, pending), mixed \subseteq mixed',
         UNCHANGED <<author, written, landed, told>>
  PROVE  /\ Saving' /\ DoneLanded'
         /\ \A r \in requests' : r.from <= visit /\ r.from \in Visit
         /\ \A r \in requests' : r.from \in mixed => r.doc \notin Keyed
<1>1. Saving'
  BY SaveKeepsSaving DEF Inv
<1>2. \A r \in requests' :
        /\ r \notin requests => r.phase = "sent" /\ r.from = visit /\ r.doc = page
        /\ r.doc \in Doc /\ r.from \in Visit
  BY SaveKeepsAuthored DEF Inv
<1>3. DoneLanded'
  BY <1>2 DEF Inv, DoneLanded
<1>4. \A r \in requests' : r.from <= visit /\ r.from \in Visit
  BY <1>2 DEF Inv, OnePage, Visit
<1>5. \A r \in requests' : r.from \in mixed => r.doc \notin Keyed
  BY <1>2 DEF Inv, OnePage
<1>6. QED
  BY <1>1, <1>3, <1>4, <1>5

LEMMA FlushKeeps == ASSUME Inv, Flush PROVE Inv'
<1>1. /\ page # Away /\ Save(visit, page, pending) /\ emitted' = pending
      /\ UNCHANGED <<stored, deleted, cached, page, visit, mixed, armed, pending,
                     author, landed, written, told, faults>>
  BY DEF Flush, server, history
<1>2. TypeOK'
  BY <1>1, SaveEffect DEF Inv, TypeOK
<1>3. /\ Saving' /\ DoneLanded'
      /\ \A r \in requests' : r.from <= visit /\ r.from \in Visit
      /\ \A r \in requests' : r.from \in mixed => r.doc \notin Keyed
  BY <1>1, SaveKeepsCalls
<1>4. /\ savers'[visit].latest = pending /\ savers'[visit].inFlight /\ visit \in Visit
  BY <1>1, SaveEffect DEF Inv
<1>5. \A r \in requests' :
        /\ r \notin requests => r.phase = "sent" /\ r.from = visit /\ r.doc = page
        /\ r.doc \in Doc /\ r.from \in Visit
        /\ Authored(r.text, r.doc) /\ Authored(savers'[r.from].latest, r.doc)
  BY <1>1, SaveKeepsAuthored DEF Inv
<1>6. OnePage'
  BY <1>1, <1>3, <1>4, <1>5 DEF Inv, OnePage
<1>7. TextsAuthored'
  BY <1>1, <1>4, <1>5 DEF Inv, TextsAuthored, Authored, OneDocument
<1>8. SavedIsSaved'
  BY <1>1, <1>3, <1>4 DEF SavedIsSaved, Saving, SaversParkLatest
<1>9. UnsavedIsKnown'
  <2> SUFFICES ASSUME NEW e \in Edit, author[e] # Away, OneDocument(author[e])
               PROVE  e \in landed \cup told \cup OnTheWay'
    BY <1>1 DEF UnsavedIsKnown, Typed, OneDocument
  <2>1. e \in landed \cup told \cup OnTheWay \/ e \in pending
    BY DEF Inv, UnsavedIsKnown, Typed
  <2>2. QED
    BY <1>1, <2>1, SaveKeepsKnown DEF Inv
<1>10. QED
  BY <1>2, <1>3, <1>6, <1>7, <1>8, <1>9 DEF Inv

\* The editor unmounts: it saves what it had not handed over, or had nothing.
LEMMA UnmountKeeps ==
  ASSUME Inv, page # Away, Unmount, mixed \subseteq mixed',
         UNCHANGED <<author, written, landed, told>>
  PROVE  /\ Saving' /\ DoneLanded'
         /\ savers' \in [Visit -> Saver] /\ requests' \in SUBSET Request
         /\ \A r \in requests' :
              /\ r.from <= visit
              /\ r.from \in mixed => r.doc \notin Keyed
              /\ r \notin requests => r.from = visit /\ r.doc = page
              /\ r.doc \in Doc /\ r.from \in Visit
              /\ Authored(r.text, r.doc) /\ Authored(savers'[r.from].latest, r.doc)
         /\ visit \in Visit /\ Authored(savers'[visit].latest, page)
         /\ \A e \in Typed : OneDocument(author[e]) => e \in landed \cup told \cup OnTheWay'
<1>0. visit \in Visit /\ Authored(pending, page) /\ Authored(savers[visit].latest, page)
  BY DocumentsAreTyped DEF Inv, TypeOK, Visit, TextsAuthored
<1>1. CASE pending = emitted
  <2>1. UNCHANGED <<savers, requests>>
    BY <1>1 DEF Unmount
  <2>2. Saving'
    <3>1. LiveFrom(1)' = LiveFrom(1) /\ \A v : LiveFrom(v)' = LiveFrom(v)
      BY <2>1 DEF LiveFrom, Live
    <3>2. OneCall' /\ SaversParkLatest'
      BY <2>1, <3>1 DEF Inv, Saving, OneCall, SaversParkLatest
    <3>3. SaversInOrder'
      BY <2>1, <3>1 DEF Inv, Saving, SaversInOrder
    <3>4. QED
      BY <3>2, <3>3 DEF Saving
  <2>3. DoneLanded'
    BY <2>1 DEF Inv, DoneLanded
  <2>4. savers' \in [Visit -> Saver] /\ requests' \in SUBSET Request
    BY <2>1 DEF Inv, TypeOK
  <2>5. \A r \in requests' :
          /\ r.from <= visit
          /\ r.from \in mixed => r.doc \notin Keyed
          /\ r \notin requests => r.from = visit /\ r.doc = page
          /\ r.doc \in Doc /\ r.from \in Visit
          /\ Authored(r.text, r.doc) /\ Authored(savers'[r.from].latest, r.doc)
    BY <2>1 DEF Inv, TypeOK, Request, OnePage, TextsAuthored
  <2>6. OnTheWay' = OnTheWay
    BY <2>1 DEF OnTheWay, Live, Tail
  <2>7. \A e \in Typed : OneDocument(author[e]) => e \in landed \cup told \cup OnTheWay'
    BY <1>1, <2>6 DEF Inv, UnsavedIsKnown
  <2>8. QED
    BY <1>0, <2>1, <2>2, <2>3, <2>4, <2>5, <2>7
<1>2. CASE pending # emitted
  <2>1. Save(visit, page, pending)
    BY <1>2 DEF Unmount
  <2>2. /\ Saving' /\ DoneLanded'
        /\ \A r \in requests' : r.from <= visit /\ r.from \in Visit
        /\ \A r \in requests' : r.from \in mixed => r.doc \notin Keyed
    BY <2>1, SaveKeepsCalls
  <2>3. \A r \in requests' :
          /\ r \notin requests => r.phase = "sent" /\ r.from = visit /\ r.doc = page
          /\ r.doc \in Doc /\ r.from \in Visit
          /\ Authored(r.text, r.doc) /\ Authored(savers'[r.from].latest, r.doc)
    BY <2>1, SaveKeepsAuthored DEF Inv
  <2>4. savers' \in [Visit -> Saver] /\ requests' \in SUBSET Request
    BY <2>1, SaveEffect DEF Inv
  <2>5. ASSUME NEW e \in Typed, OneDocument(author[e])
        PROVE  e \in landed \cup told \cup OnTheWay'
    <3>1. e \in landed \cup told \cup OnTheWay \/ e \in pending
      BY <2>5 DEF Inv, UnsavedIsKnown
    <3>2. QED
      BY <2>1, <2>5, <3>1, SaveKeepsKnown DEF Inv
  <2>6. Authored(savers'[visit].latest, page)
    BY <1>0, <2>1, SaveEffect DEF Inv
  <2>7. QED
    BY <1>0, <2>2, <2>3, <2>4, <2>5, <2>6
<1>3. QED
  BY <1>1, <1>2

LEMMA LeaveKeeps == ASSUME Inv, Leave PROVE Inv'
<1>1. /\ page # Away /\ Unmount /\ page' = Away /\ armed' = FALSE
      /\ UNCHANGED <<stored, deleted, cached, visit, mixed, pending, emitted, author,
                     landed, written, told, faults>>
  BY DEF Leave, server, editor, history
<1>2. /\ Saving' /\ DoneLanded'
      /\ savers' \in [Visit -> Saver] /\ requests' \in SUBSET Request
      /\ \A r \in requests' :
           /\ r.from <= visit
           /\ r.from \in mixed => r.doc \notin Keyed
           /\ r.doc \in Doc /\ r.from \in Visit
           /\ Authored(r.text, r.doc) /\ Authored(savers'[r.from].latest, r.doc)
      /\ \A e \in Typed : OneDocument(author[e]) => e \in landed \cup told \cup OnTheWay'
  BY <1>1, UnmountKeeps
<1>3. TypeOK'
  BY <1>1, <1>2 DEF Inv, TypeOK
<1>4. OnePage'
  BY <1>1, <1>2 DEF Inv, OnePage
<1>5. TextsAuthored'
  BY <1>1, <1>2 DEF Inv, TextsAuthored, Authored, OneDocument
<1>6. SavedIsSaved' /\ UnsavedIsKnown'
  BY <1>1, <1>2 DEF SavedIsSaved, UnsavedIsKnown, Typed, OneDocument
<1>7. QED
  BY <1>2, <1>3, <1>4, <1>5, <1>6 DEF Inv

LEMMA LoadedText ==
  ASSUME Inv, NEW d \in Doc, NEW text \in Loaded(d)
  PROVE  text \in Text /\ Authored(text, d)
BY DEF Loaded, Inv, TypeOK, TextsAuthored

LEMMA SwitchKeeps == ASSUME Inv, NEW d \in Doc, Switch(d) PROVE Inv'
<1>1. PICK text \in Loaded(d) : Mount(d, text)
  BY DEF Switch
<1>2. /\ page \in Doc \ Keyed /\ d \in Doc \ Keyed /\ Unmount
      /\ mixed' = mixed \cup {visit} /\ page' = d /\ armed' = FALSE
      /\ pending' = text /\ emitted' = text /\ cached' = [cached EXCEPT ![d] = {text}]
      /\ UNCHANGED <<stored, deleted, visit, author, landed, written, told, faults>>
  BY <1>1 DEF Switch, Mount, server, history
<1>3. /\ Saving' /\ DoneLanded'
      /\ savers' \in [Visit -> Saver] /\ requests' \in SUBSET Request
      /\ \A r \in requests' :
           /\ r.from <= visit
           /\ r.from \in mixed => r.doc \notin Keyed
           /\ r \notin requests => r.from = visit /\ r.doc = page
           /\ r.doc \in Doc /\ r.from \in Visit
           /\ Authored(r.text, r.doc) /\ Authored(savers'[r.from].latest, r.doc)
      /\ visit \in Visit /\ Authored(savers'[visit].latest, page)
      /\ \A e \in Typed : OneDocument(author[e]) => e \in landed \cup told \cup OnTheWay'
  <2>1. page # Away /\ mixed \subseteq mixed'
    BY <1>2, DocumentsAreTyped
  <2>2. QED
    BY <1>2, <2>1, UnmountKeeps
<1>4. text \in Text /\ Authored(text, d)
  BY <1>1, LoadedText
<1>5. TypeOK'
  <2>1. cached' \in [Doc -> SUBSET Text] /\ mixed' \subseteq Visit
    BY <1>2, <1>3, <1>4 DEF Inv, TypeOK
  <2>2. visit # 0
    BY <1>3 DEF Visit
  <2>3. QED
    BY <1>2, <1>3, <1>4, <2>1, <2>2 DEF Inv, TypeOK
<1>6. OnePage'
  <2>1. mixed' \subseteq 0 .. visit
    <3>1. mixed \subseteq 0 .. visit
      BY DEF Inv, OnePage
    <3>2. visit \in 0 .. visit
      BY <1>3 DEF Visit
    <3>3. QED
      BY <1>2, <3>1, <3>2
  <2>2. \A r \in requests : r.from = visit => r.doc \notin Keyed
    BY <1>2, DocumentsAreTyped DEF Inv, OnePage
  <2>3. \A v \in Visit : visit' < v => written'[v] = {}
    BY <1>2 DEF Inv, OnePage
  <2>4. QED
    BY <1>2, <1>3, <2>1, <2>2, <2>3 DEF OnePage
<1>7. TextsAuthored'
  <2>1. cached' = [cached EXCEPT ![d] = {text}] /\ cached \in [Doc -> SUBSET Text]
    BY <1>2 DEF Inv, TypeOK
  <2>2. \A c \in Doc : cached'[c] = IF c = d THEN {text} ELSE cached[c]
    BY <2>1
  <2>3. QED
    BY <1>2, <1>3, <1>4, <2>2 DEF Inv, TextsAuthored, Authored, OneDocument
<1>8. ~OneDocument(page)'
  BY <1>2 DEF OneDocument
<1>9. SavedIsSaved' /\ UnsavedIsKnown'
  BY <1>2, <1>3, <1>8 DEF SavedIsSaved, UnsavedIsKnown, Typed, OneDocument
<1>10. QED
  BY <1>3, <1>5, <1>6, <1>7, <1>9 DEF Inv

LEMMA OpenKeeps == ASSUME Inv, NEW d \in Doc, Open(d) PROVE Inv'
<1> DEFINE next == visit + 1
<1>1. PICK text \in Loaded(d) :
        /\ Mount(d, text)
        /\ savers' = [savers EXCEPT ![next] = FreshSaver(text)]
  BY DEF Open
<1>2. /\ page = Away /\ visit < MaxVisits /\ visit' = next
      /\ page' = d /\ armed' = FALSE /\ pending' = text /\ emitted' = text
      /\ cached' = [cached EXCEPT ![d] = {text}]
      /\ UNCHANGED <<stored, deleted, mixed, requests, author, landed, written, told, faults>>
  BY <1>1 DEF Open, Mount, server, history
<1>3. /\ text \in Text /\ Authored(text, d)
      /\ visit \in Nat /\ next \in Visit /\ next # 0 /\ next \notin 0 .. visit /\ visit < next
  BY <1>1, <1>2, LoadedText, DocumentsAreTyped DEF Inv, TypeOK, Visit
<1>4. \A r \in requests : r.from # next /\ r.from \in Visit /\ r.doc \in Doc
  BY <1>3 DEF Inv, OnePage, TypeOK, Request
<1> DEFINE s == FreshSaver(text)
<1>5. /\ s \in Saver /\ s.latest = text /\ s.queued = {} /\ ~s.inFlight /\ s.label = "idle"
  BY <1>3 DEF FreshSaver, Saver
<1>6. savers' = [savers EXCEPT ![next] = s] /\ savers \in [Visit -> Saver]
  BY <1>1 DEF Inv, TypeOK
<1>7. next \notin mixed
  BY <1>3 DEF Inv, OnePage
<1> HIDE DEF next, s
<1>8. /\ savers' \in [Visit -> Saver] /\ savers'[next] = s
      /\ \A v \in Visit : v # next => savers'[v] = savers[v]
  BY <1>3, <1>5, <1>6
<1>9. LiveFrom(next) = {} /\ \A v \in Visit : LiveFrom(v)' = LiveFrom(v)
  BY <1>2, <1>4 DEF LiveFrom, Live
<1>10. TypeOK'
  <2>1. cached' \in [Doc -> SUBSET Text]
    BY <1>2, <1>3 DEF Inv, TypeOK
  <2>2. visit' \in 0 .. MaxVisits /\ visit' # 0
    BY <1>2, <1>3 DEF Visit
  <2>3. QED
    BY <1>2, <1>3, <1>8, <2>1, <2>2 DEF Inv, TypeOK
<1>11. OneCall' /\ SaversParkLatest'
  <2>1. OneCall'
    BY <1>3, <1>5, <1>8, <1>9 DEF Inv, Saving, OneCall
  <2>2. SaversParkLatest'
    BY <1>3, <1>5, <1>8 DEF Inv, Saving, SaversParkLatest
  <2>3. QED
    BY <2>1, <2>2
<1>12. SaversInOrder'
  <2>1. written[next] = {}
    BY <1>3 DEF Inv, OnePage
  <2>2. QED
    BY <1>2, <1>4, <1>8, <1>9, <2>1 DEF Inv, Saving, SaversInOrder
<1>13. OnePage'
  <2>1. mixed' \subseteq 0 .. visit' /\ \A v \in Visit : visit' < v => written'[v] = {}
    <3>1. 0 .. visit \subseteq 0 .. next /\ \A v \in Visit : next < v => visit < v
      BY <1>3 DEF Visit, next
    <3>2. QED
      BY <1>2, <3>1 DEF Inv, OnePage
  <2>2. \A r \in requests : r.from <= visit'
    BY <1>2, <1>3, <1>4 DEF Inv, OnePage, Visit, next
  <2>3. QED
    BY <1>2, <1>4, <1>5, <1>7, <1>8, <2>1, <2>2 DEF Inv, OnePage
<1>14. TextsAuthored'
  <2>1. \A c \in Doc : cached'[c] = IF c = d THEN {text} ELSE cached[c]
    BY <1>2 DEF Inv, TypeOK
  <2>2. \A r \in requests : savers'[r.from] = savers[r.from]
    BY <1>4, <1>8
  <2>3. QED
    BY <1>2, <1>3, <1>5, <1>8, <2>1, <2>2 DEF Inv, TextsAuthored, Authored, OneDocument
<1>15. DoneLanded'
  BY <1>2 DEF Inv, DoneLanded
<1>16. SavedIsSaved'
  BY <1>2, <1>5, <1>8 DEF SavedIsSaved
<1>17. UnsavedIsKnown'
  <2> SUFFICES ASSUME NEW e \in Typed, OneDocument(author[e])
               PROVE  e \in landed \cup told \cup OnTheWay'
    BY <1>2 DEF UnsavedIsKnown, Typed, OneDocument
  <2>1. e \in landed \cup told \cup OnTheWay
    BY <1>2 DEF Inv, UnsavedIsKnown
  <2>2. \A r \in requests : Tail(r.from, r.doc, r.text)' = Tail(r.from, r.doc, r.text)
    BY <1>4, <1>8 DEF Tail
  <2>3. OnTheWay' = OnTheWay
    BY <1>2, <2>2 DEF OnTheWay, Live
  <2>4. QED
    BY <2>1, <2>3
<1>18. QED
  BY <1>10, <1>11, <1>12, <1>13, <1>14, <1>15, <1>16, <1>17 DEF Inv, Saving

-----------------------------------------------------------------------------
(* The steps that leave the calls alone.                                   *)

\* The calls and the texts of the pages as they were.
LEMMA SavingStays ==
  ASSUME Saving, UNCHANGED <<requests, mixed, written>>,
         savers' = savers \/ \E v \in Visit : savers' = [savers EXCEPT ![v] =
                                                [savers[v] EXCEPT !.label = "idle"]],
         savers \in [Visit -> Saver]
  PROVE  /\ Saving' /\ savers' \in [Visit -> Saver]
         /\ \A v \in Visit : /\ savers'[v].latest = savers[v].latest
                             /\ savers'[v].queued = savers[v].queued
                             /\ savers'[v].inFlight = savers[v].inFlight
                             /\ savers'[v].label \in {savers[v].label, "idle"}
<1>1. /\ savers' \in [Visit -> Saver]
      /\ \A v \in Visit : /\ savers'[v].latest = savers[v].latest
                          /\ savers'[v].queued = savers[v].queued
                          /\ savers'[v].inFlight = savers[v].inFlight
                          /\ savers'[v].label \in {savers[v].label, "idle"}
  BY DEF Saver
<1>2. \A v : LiveFrom(v)' = LiveFrom(v)
  BY DEF LiveFrom, Live
<1>3. OneCall'
  BY <1>1, <1>2 DEF Saving, OneCall
<1>4. SaversParkLatest'
  BY <1>1 DEF Saving, SaversParkLatest
<1>5. SaversInOrder'
  BY <1>1, <1>2 DEF Saving, SaversInOrder
<1>6. QED
  BY <1>1, <1>3, <1>4, <1>5 DEF Saving

\* The router's cache, the label that fades, the menu and its Delete.
LEMMA QuietKeeps ==
  ASSUME Inv,
         \/ \E d \in Doc : Refetch(d) \/ Evict(d)
         \/ SavedFades \/ PressDelete \/ CloseMenu \/ UNCHANGED vars
  PROVE  Inv'
<1>1. /\ UNCHANGED <<stored, page, visit, mixed, pending, emitted, requests, author,
                     landed, written, told, faults>>
      /\ deleted' \subseteq Doc /\ armed' \in BOOLEAN
  <2>1. UNCHANGED <<stored, page, visit, mixed, pending, emitted, requests, author,
                    landed, written, told, faults>>
    BY DEF Refetch, Evict, SavedFades, PressDelete, CloseMenu, vars, server, editor,
           history
  <2>2. deleted' \subseteq Doc
    BY DocumentsAreTyped DEF Inv, TypeOK, Refetch, Evict, SavedFades, PressDelete,
       CloseMenu, vars, server
  <2>3. armed \in BOOLEAN
    BY DEF Inv, TypeOK
  <2>4. armed' \in {armed, ~armed, FALSE}
    BY DEF Refetch, Evict, SavedFades, PressDelete, CloseMenu, vars
  <2>5. QED
    BY <2>1, <2>2, <2>3, <2>4
<1>2. savers' = savers \/ \E v \in Visit : savers' = [savers EXCEPT ![v] =
                                             [savers[v] EXCEPT !.label = "idle"]]
  <2>1. CASE SavedFades
    <3>1. visit \in Visit
      BY <2>1, DocumentsAreTyped DEF SavedFades, Inv, TypeOK, Visit
    <3>2. QED
      BY <2>1, <3>1 DEF SavedFades
  <2>2. CASE ~SavedFades
    BY <2>2 DEF Refetch, Evict, PressDelete, CloseMenu, vars
  <2>3. QED
    BY <2>1, <2>2
<1>3. /\ Saving' /\ savers' \in [Visit -> Saver]
      /\ \A v \in Visit : /\ savers'[v].latest = savers[v].latest
                          /\ savers'[v].queued = savers[v].queued
                          /\ savers'[v].inFlight = savers[v].inFlight
                          /\ savers'[v].label \in {savers[v].label, "idle"}
  <2>1. Saving /\ savers \in [Visit -> Saver]
    BY DEF Inv, TypeOK
  <2>2. QED
    BY <1>1, <1>2, <2>1, SavingStays
<1>4. /\ cached' \in [Doc -> SUBSET Text]
      /\ \A d \in Doc : cached'[d] \subseteq cached[d] \cup {stored[d]}
  BY DEF Inv, TypeOK, Refetch, Evict, SavedFades, PressDelete, CloseMenu, vars
<1>5. TypeOK'
  BY <1>1, <1>3, <1>4 DEF Inv, TypeOK
<1>6. page # Away => visit \in Visit
  BY DocumentsAreTyped DEF Inv, TypeOK, Visit
<1>7. \A r \in requests : r.from \in Visit
  BY DEF Inv, TypeOK, Request
<1>8. OnePage'
  BY <1>1, <1>3, <1>6 DEF Inv, OnePage
<1>9. TextsAuthored'
  BY <1>1, <1>3, <1>4, <1>6, <1>7 DEF Inv, TextsAuthored, Authored, OneDocument
<1>10. DoneLanded'
  BY <1>1 DEF Inv, DoneLanded
<1>11. SavedIsSaved'
  BY <1>1, <1>3, <1>6 DEF Inv, SavedIsSaved, OneDocument
<1>12. OnTheWay' = OnTheWay
  <2>1. \A r \in requests : Tail(r.from, r.doc, r.text)' = Tail(r.from, r.doc, r.text)
    BY <1>1, <1>3, <1>7 DEF Tail
  <2>2. QED
    BY <1>1, <2>1 DEF OnTheWay, Live
<1>13. UnsavedIsKnown'
  BY <1>1, <1>12 DEF Inv, UnsavedIsKnown, Typed, OneDocument
<1>14. QED
  BY <1>3, <1>5, <1>8, <1>9, <1>10, <1>11, <1>13 DEF Inv

LEMMA TypeKeeps == ASSUME Inv, NEW e \in Edit, Type(e) PROVE Inv'
<1>1. /\ page # Away /\ author[e] = Away /\ author' = [author EXCEPT ![e] = page]
      /\ pending' = pending \cup {e}
      /\ UNCHANGED <<stored, deleted, cached, page, visit, mixed, armed, emitted, savers,
                     requests, landed, written, told, faults>>
  BY DEF Type, server, history
<1>2. page \in Doc /\ Away \notin Doc /\ visit \in Visit
  BY <1>1, DocumentsAreTyped DEF Inv, TypeOK, Visit
<1>3. \A f \in Edit : author'[f] = IF f = e THEN page ELSE author[f]
  BY <1>1 DEF Inv, TypeOK
<1>4. TypeOK'
  BY <1>1, <1>2 DEF Inv, TypeOK, Text
<1>5. Saving'
  <2>1. Saving /\ savers \in [Visit -> Saver]
    BY DEF Inv, TypeOK
  <2>2. QED
    BY <1>1, <2>1, SavingStays
<1>6. OnePage'
  BY <1>1 DEF Inv, OnePage
<1>7. ASSUME NEW text, text \subseteq Edit, NEW d \in Doc, Authored(text, d)
      PROVE  e \notin text /\ \A f \in text : author'[f] = author[f]
  BY <1>1, <1>2, <1>3, <1>7 DEF Authored
<1>8. TextsAuthored'
  <2>1. \A d \in Doc : /\ Authored(stored[d], d)'
                       /\ \A text \in cached'[d] : IF OneDocument(d)
                            THEN \A f \in text : author'[f] = d
                            ELSE \A f \in text : author'[f] \in Doc \ Keyed
    <3> TAKE d \in Doc
    <3>1. Authored(stored[d], d)'
      <4>1. stored[d] \subseteq Edit /\ Authored(stored[d], d)
        BY DEF Inv, TypeOK, Text, TextsAuthored
      <4>2. \A f \in stored[d] : author'[f] = author[f]
        BY <1>7, <4>1
      <4>3. QED
        BY <1>1, <4>1, <4>2 DEF Authored, OneDocument
    <3>2. ASSUME NEW text \in cached[d]
          PROVE  IF OneDocument(d) THEN \A f \in text : author'[f] = d
                 ELSE \A f \in text : author'[f] \in Doc \ Keyed
      <4>1. text \subseteq Edit /\ Authored(text, d)
        BY DEF Inv, TypeOK, Text, TextsAuthored
      <4>2. \A f \in text : author'[f] = author[f]
        BY <1>7, <4>1
      <4>3. QED
        BY <4>1, <4>2 DEF Authored
    <3>3. QED
      BY <1>1, <3>1, <3>2
  <2>2. ASSUME NEW r \in requests
        PROVE  Authored(r.text, r.doc)' /\ Authored(savers[r.from].latest, r.doc)'
    <3>1. /\ r.text \subseteq Edit /\ r.doc \in Doc /\ Authored(r.text, r.doc)
          /\ savers[r.from].latest \subseteq Edit /\ Authored(savers[r.from].latest, r.doc)
      BY DEF Inv, TypeOK, Text, TextsAuthored, Request, Saver
    <3>2. /\ \A f \in r.text : author'[f] = author[f]
          /\ \A f \in savers[r.from].latest : author'[f] = author[f]
      BY <1>7, <3>1
    <3>3. QED
      BY <1>1, <3>1, <3>2 DEF Authored, OneDocument
  <2>3. /\ Authored(pending, page)' /\ Authored(emitted, page)'
        /\ Authored(savers[visit].latest, page)'
    <3>1. /\ pending \subseteq Edit /\ emitted \subseteq Edit
          /\ savers[visit].latest \subseteq Edit
          /\ Authored(pending, page) /\ Authored(emitted, page)
          /\ Authored(savers[visit].latest, page)
      BY <1>1, <1>2 DEF Inv, TypeOK, Text, TextsAuthored, Saver
    <3>2. /\ \A f \in pending : author'[f] = author[f]
          /\ \A f \in emitted : author'[f] = author[f]
          /\ \A f \in savers[visit].latest : author'[f] = author[f]
      BY <1>2, <1>7, <3>1
    <3>3. OneDocument(page) \/ page \in Doc \ Keyed
      BY <1>2 DEF OneDocument
    <3>4. QED
      BY <1>1, <1>3, <3>1, <3>2, <3>3 DEF Authored, OneDocument
  <2>4. QED
    BY <1>1, <2>1, <2>2, <2>3 DEF TextsAuthored, Authored, OneDocument
<1>9. DoneLanded'
  <2> SUFFICES ASSUME NEW r \in requests, r.phase = "done",
                      NEW f \in r.text, author'[f] = r.doc
               PROVE  f \in landed
    BY <1>1 DEF DoneLanded
  <2>1. r.text \subseteq Edit /\ r.doc \in Doc /\ Authored(r.text, r.doc)
    BY DEF Inv, TypeOK, Text, TextsAuthored, Request
  <2>2. author'[f] = author[f]
    BY <1>7, <2>1
  <2>3. QED
    BY <2>2 DEF Inv, DoneLanded
<1>10. emitted \subseteq Edit /\ Authored(emitted, page) /\ e \notin emitted
  <2>1. emitted \subseteq Edit /\ Authored(emitted, page)
    BY <1>1 DEF Inv, TypeOK, Text, TextsAuthored
  <2>2. QED
    BY <1>2, <1>7, <2>1
<1>11. SavedIsSaved'
  <2>1. \A f \in emitted : author'[f] = author[f]
    BY <1>3, <1>10
  <2>2. QED
    BY <1>1, <2>1 DEF Inv, SavedIsSaved, OneDocument
<1>12. UnsavedIsKnown'
  <2>1. OnTheWay' = OnTheWay
    BY <1>1 DEF OnTheWay, Live, Tail
  <2>2. e \in pending' \ emitted'
    BY <1>1, <1>10
  <2>3. \A f \in Edit : f # e => author'[f] = author[f]
    BY <1>3
  <2>4. QED
    BY <1>1, <2>1, <2>2, <2>3 DEF Inv, UnsavedIsKnown, Typed, OneDocument
<1>13. QED
  BY <1>4, <1>5, <1>6, <1>8, <1>9, <1>11, <1>12 DEF Inv

-----------------------------------------------------------------------------
(* The calls.                                                              *)

\* A call is served or refused, or a lost one arrives and is over; `kept` is what
\* there is of it afterwards.
LEMMA CallGoesOn ==
  ASSUME Inv, NEW r \in requests, NEW STATE kept, kept \subseteq Request,
         requests' = (requests \ {r}) \cup kept,
         \A n \in kept : n.from = r.from /\ n.doc = r.doc /\ n.text = r.text /\ Live(n),
         Live(r) => kept # {}, ~Live(r) => kept = {},
         \A n, m \in kept : n = m,
         \A n \in kept : n.phase = "done" =>
            \A e \in r.text : author[e] = r.doc => e \in landed',
         stored' = stored \/ stored' = [stored EXCEPT ![r.doc] = r.text],
         written' = written \/ written' = [written EXCEPT ![r.from] = r.text],
         landed \subseteq landed', landed' \in Text, faults' \in 0 .. MaxFaults,
         UNCHANGED <<deleted, cached, page, visit, mixed, armed, pending, emitted,
                     savers, author, told>>
  PROVE  Inv'
<1>1. r \in Request /\ r.from \in Visit /\ r.doc \in Doc /\ r.text \in Text
  BY DEF Inv, TypeOK, Request
<1>2. /\ stored' \in [Doc -> Text]
      /\ \A d \in Doc : stored'[d] \in {stored[d], r.text} /\ (d # r.doc => stored'[d] = stored[d])
  BY <1>1 DEF Inv, TypeOK
<1>3. /\ written' \in [Visit -> Text]
      /\ \A v \in Visit : /\ written'[v] \in {written[v], r.text}
                          /\ v # r.from => written'[v] = written[v]
  BY <1>1 DEF Inv, TypeOK
<1>4. TypeOK'
  BY <1>2, <1>3 DEF Inv, TypeOK
<1>5. \A q \in requests' : \E o \in requests :
         /\ o.from = q.from /\ o.doc = q.doc /\ o.text = q.text
         /\ Live(q) => Live(o)
         /\ q = o \/ o = r
  OBVIOUS
<1>6. \A o \in requests : Live(o) => \E q \in requests' :
         q.from = o.from /\ q.doc = o.doc /\ q.text = o.text /\ Live(q)
  OBVIOUS
<1>7. OneCall'
  <2> SUFFICES ASSUME NEW v \in Visit
               PROVE  /\ \A q, o \in LiveFrom(v)' : q = o
                      /\ savers[v].inFlight <=> LiveFrom(v)' # {}
    BY DEF OneCall
  <2>1. /\ \A q, o \in LiveFrom(v) : q = o
        /\ savers[v].inFlight <=> LiveFrom(v) # {}
    BY DEF Inv, Saving, OneCall
  <2>2. LiveFrom(v)' = {q \in requests' : q.from = v /\ Live(q)}
    BY DEF LiveFrom, Live
  <2>3. LiveFrom(v)' # {} <=> LiveFrom(v) # {}
    BY <1>5, <1>6, <2>2 DEF LiveFrom
  <2>4. \A q, o \in LiveFrom(v)' : q = o
    <3>1. CASE r \in LiveFrom(v)
      BY <2>1, <2>2, <3>1 DEF LiveFrom
    <3>2. CASE r \notin LiveFrom(v)
      BY <2>1, <2>2, <3>2 DEF LiveFrom
    <3>3. QED
      BY <3>1, <3>2
  <2>5. QED
    BY <2>1, <2>3, <2>4
<1>8. SaversParkLatest'
  BY DEF Inv, Saving, SaversParkLatest
<1>9. SaversInOrder'
  <2> SUFFICES ASSUME NEW v \in Visit \ mixed
               PROVE  /\ written'[v] \subseteq savers[v].latest
                      /\ \A q \in requests' : q.from = v => q.text \subseteq savers[v].latest
                      /\ \A n \in LiveFrom(v)' :
                           /\ written'[v] \subseteq n.text
                           /\ \A q \in requests' : q.from = v => q.text \subseteq n.text
                           /\ n.doc \in Keyed /\ savers[v].queued = {} =>
                                n.text = savers[v].latest
    BY DEF SaversInOrder
  <2>1. /\ written[v] \subseteq savers[v].latest
        /\ \A q \in requests : q.from = v => q.text \subseteq savers[v].latest
        /\ \A n \in LiveFrom(v) :
             /\ written[v] \subseteq n.text
             /\ \A q \in requests : q.from = v => q.text \subseteq n.text
             /\ n.doc \in Keyed /\ savers[v].queued = {} => n.text = savers[v].latest
    BY DEF Inv, Saving, SaversInOrder
  <2>2. written'[v] = written[v] \/ (r.from = v /\ written'[v] = r.text)
    BY <1>3
  <2>3. \A q \in requests' : q.from = v => q.text \subseteq savers[v].latest
    BY <1>5, <2>1
  <2>4. ASSUME NEW n \in LiveFrom(v)'
        PROVE  /\ written'[v] \subseteq n.text
               /\ \A q \in requests' : q.from = v => q.text \subseteq n.text
               /\ n.doc \in Keyed /\ savers[v].queued = {} => n.text = savers[v].latest
    <3>1. n \in requests' /\ n.from = v /\ Live(n)
      BY DEF LiveFrom, Live
    <3>2. PICK o \in requests : /\ o.from = v /\ o.doc = n.doc /\ o.text = n.text
                                /\ Live(o)
      BY <1>5, <3>1
    <3>3. o \in LiveFrom(v)
      BY <3>2 DEF LiveFrom
    <3>4. QED
      BY <1>5, <2>1, <2>2, <3>2, <3>3
  <2>5. QED
    BY <2>1, <2>2, <2>3, <2>4
<1>10. OnePage'
  <2>1. \A v \in Visit : visit < v => v # r.from
    BY <1>1 DEF Inv, OnePage, TypeOK, Visit
  <2>2. QED
    BY <1>3, <1>5, <2>1 DEF Inv, OnePage
<1>11. TextsAuthored'
  <2>1. Authored(r.text, r.doc)
    BY DEF Inv, TextsAuthored
  <2>2. \A d \in Doc : stored'[d] = stored[d] \/ (d = r.doc /\ stored'[d] = r.text)
    BY <1>2
  <2>3. QED
    BY <1>5, <2>1, <2>2 DEF Inv, TextsAuthored, Authored, OneDocument
<1>12. DoneLanded'
  BY DEF Inv, DoneLanded
<1>13. SavedIsSaved'
  BY DEF Inv, SavedIsSaved, OneDocument
<1>14. UnsavedIsKnown'
  <2> SUFFICES ASSUME NEW e \in Typed, OneDocument(author[e]), e \in OnTheWay
               PROVE  e \in OnTheWay'
    BY DEF Inv, UnsavedIsKnown, Typed, OneDocument
  <2>1. PICK o \in requests : Live(o) /\ Carries(o, e)
    BY OnTheWayMeans
  <2>2. PICK q \in requests' : /\ q.from = o.from /\ q.doc = o.doc
                               /\ q.text = o.text /\ Live(q)
    BY <1>6, <2>1
  <2>3. Carries(q, e)'
    BY <2>1, <2>2 DEF Carries, Tail
  <2>4. QED
    BY <2>2, <2>3 DEF OnTheWay, Carries, Live
<1>15. QED
  BY <1>4, <1>7, <1>8, <1>9, <1>10, <1>11, <1>12, <1>13, <1>14 DEF Inv, Saving

LEMMA NextPhase ==
  ASSUME TypeOK, NEW r \in requests,
         NEW STATE phase, phase \in {"sent", "done", "refused", "orphan"}
  PROVE  /\ [r EXCEPT !.phase = phase] \in Request
         /\ [r EXCEPT !.phase = phase].from = r.from
         /\ [r EXCEPT !.phase = phase].doc = r.doc
         /\ [r EXCEPT !.phase = phase].text = r.text
         /\ [r EXCEPT !.phase = phase].phase = phase
BY DEF TypeOK, Request

LEMMA ApplyKeeps == ASSUME Inv, NEW r \in requests, Apply(r) PROVE Inv'
<1> DEFINE phase == IF r.doc \in deleted THEN "refused" ELSE "done"
           n == [r EXCEPT !.phase = phase]
           kept == IF r.phase = "orphan" THEN {} ELSE {n}
<1>1. /\ n \in Request /\ n.from = r.from /\ n.doc = r.doc /\ n.text = r.text
      /\ n.phase = phase
  BY NextPhase DEF Inv
<1>2. /\ r.phase \in {"sent", "orphan"} /\ requests' = (requests \ {r}) \cup kept
      /\ UNCHANGED <<deleted, cached, page, visit, mixed, armed, pending, emitted,
                     savers, author, told, faults>>
      /\ IF r.doc \in deleted THEN UNCHANGED <<stored, landed, written>> ELSE Lands(r)
  BY DEF Apply, editor, history
<1>3. phase \in {"refused", "done"} /\ (phase = "done" <=> r.doc \notin deleted)
  OBVIOUS
<1> HIDE DEF n, phase
<1>4. /\ kept \subseteq Request /\ \A m, k \in kept : m = k
      /\ \A m \in kept : /\ m.from = r.from /\ m.doc = r.doc /\ m.text = r.text
                         /\ Live(m) /\ m.phase = phase
      /\ Live(r) => kept # {}
      /\ ~Live(r) => kept = {}
  BY <1>1, <1>2, <1>3 DEF Live
<1>5. /\ stored' = stored \/ stored' = [stored EXCEPT ![r.doc] = r.text]
      /\ written' = written \/ written' = [written EXCEPT ![r.from] = r.text]
      /\ landed \subseteq landed'
      /\ r.doc \notin deleted => \A e \in r.text : author[e] = r.doc => e \in landed'
  BY <1>2 DEF Lands
<1>6. landed' \in Text
  BY <1>2 DEF Lands, Inv, TypeOK, Request, Text
<1>7. faults' \in 0 .. MaxFaults
  BY <1>2 DEF Inv, TypeOK
<1> HIDE DEF kept
<1>8. QED
  BY <1>2, <1>3, <1>4, <1>5, <1>6, <1>7, CallGoesOn

LEMMA RefuseKeeps == ASSUME Inv, NEW r \in requests, Refuse(r) PROVE Inv'
<1> DEFINE n == [r EXCEPT !.phase = "refused"]
<1>1. /\ n \in Request /\ n.from = r.from /\ n.doc = r.doc /\ n.text = r.text
      /\ n.phase = "refused"
  BY NextPhase DEF Inv
<1>2. /\ r.phase = "sent" /\ requests' = (requests \ {r}) \cup {n}
      /\ UNCHANGED <<stored, deleted, cached, page, visit, mixed, armed, pending, emitted,
                     savers, author, landed, written, told>>
      /\ faults < MaxFaults /\ faults' = faults + 1
  BY DEF Refuse, server, editor, history
<1> HIDE DEF n
<1>3. faults' \in 0 .. MaxFaults /\ landed \in Text
  BY <1>2, DocumentsAreTyped DEF Inv, TypeOK
<1>4. Live(r) /\ Live(n)
  BY <1>1, <1>2 DEF Live
<1> DEFINE kept == {n}
<1>5. /\ kept \subseteq Request /\ kept # {} /\ \A m, k \in kept : m = k
      /\ \A m \in kept : /\ m.from = r.from /\ m.doc = r.doc /\ m.text = r.text
                         /\ Live(m) /\ m.phase # "done"
      /\ requests' = (requests \ {r}) \cup kept
  BY <1>1, <1>2, <1>4
<1> HIDE DEF kept
<1>6. QED
  BY <1>2, <1>3, <1>4, <1>5, CallGoesOn

\* The call is over for the page, which hears that it failed.
LEMMA CallFails ==
  ASSUME Inv, NEW r \in requests, Live(r), Failed(r),
         NEW STATE left, left \subseteq Request,
         requests' = (requests \ {r}) \cup left,
         \A n \in left : /\ n.from = r.from /\ n.doc = r.doc /\ n.text = r.text
                         /\ n.phase = "orphan",
         faults' \in 0 .. MaxFaults,
         UNCHANGED <<stored, deleted, cached, page, visit, mixed, armed, pending, emitted,
                     author, landed, written>>
  PROVE  Inv'
<1>1. /\ r \in Request /\ r.from \in Visit /\ r.doc \in Doc /\ r.text \in Text
      /\ savers[r.from] \in Saver
      /\ Tail(r.from, r.doc, r.text) \subseteq {savers[r.from].latest}
  BY TailIsLatest DEF Inv, Saving, TypeOK, Request
<1> DEFINE s == [latest |-> savers[r.from].latest, queued |-> savers[r.from].queued,
                 inFlight |-> FALSE, label |-> "idle"]
<1>2. /\ s \in Saver /\ s.latest = savers[r.from].latest
      /\ s.queued = savers[r.from].queued /\ ~s.inFlight /\ s.label = "idle"
  BY <1>1 DEF Saver
<1>3. savers' = [savers EXCEPT ![r.from] = s]
  BY DEF Failed
<1> HIDE DEF s
<1>4. /\ savers' \in [Visit -> Saver]
      /\ \A v \in Visit : /\ savers'[v].latest = savers[v].latest
                          /\ savers'[v].queued = savers[v].queued
                          /\ v # r.from => savers'[v] = savers[v]
      /\ ~savers'[r.from].inFlight /\ savers'[r.from].label = "idle"
  BY <1>1, <1>2, <1>3 DEF Inv, TypeOK
<1>5. told' = told \cup r.text \cup UNION Tail(r.from, r.doc, r.text)
  BY DEF Failed
<1>6. told' \in Text
  <2>1. told \subseteq Edit /\ r.text \subseteq Edit /\ savers[r.from].latest \subseteq Edit
    BY <1>1 DEF Inv, TypeOK, Text, Saver
  <2>2. UNION Tail(r.from, r.doc, r.text) \subseteq Edit
    BY <1>1, <2>1
  <2>3. QED
    BY <1>5, <2>1, <2>2 DEF Text
<1>7. TypeOK'
  BY <1>4, <1>6 DEF Inv, TypeOK
<1>8. \A q \in requests' : \E o \in requests :
         /\ o.from = q.from /\ o.doc = q.doc /\ o.text = q.text
         /\ q = o \/ q.phase = "orphan"
  OBVIOUS
<1>9. \A v \in Visit : LiveFrom(v)' = IF v = r.from THEN {} ELSE LiveFrom(v)
  <2>1. \A q \in requests : q.from = r.from /\ Live(q) => q = r
    BY <1>1 DEF Inv, Saving, OneCall, LiveFrom
  <2>2. \A v \in Visit : LiveFrom(v)' = {q \in requests' : q.from = v /\ q.phase # "orphan"}
    BY DEF LiveFrom, Live
  <2>3. \A v \in Visit : LiveFrom(v) = {q \in requests : q.from = v /\ q.phase # "orphan"}
    BY DEF LiveFrom, Live
  <2>4. {q \in requests' : q.from = r.from /\ q.phase # "orphan"} = {}
    BY <2>1 DEF Live
  <2>5. ASSUME NEW v \in Visit, v # r.from
        PROVE  {q \in requests' : q.from = v /\ q.phase # "orphan"}
                 = {q \in requests : q.from = v /\ q.phase # "orphan"}
    BY <2>5
  <2>6. QED
    BY <1>1, <2>2, <2>3, <2>4, <2>5
<1>10. OneCall'
  BY <1>4, <1>9 DEF Inv, Saving, OneCall
<1>11. SaversParkLatest'
  <2>1. \A v \in Visit : savers'[v].queued \subseteq {savers'[v].latest}
    BY <1>4 DEF Inv, Saving, SaversParkLatest
  <2>2. \A v \in Visit : savers'[v].label = "saved" => ~savers'[v].inFlight
    BY <1>4 DEF Inv, Saving, SaversParkLatest
  <2>3. QED
    BY <2>1, <2>2 DEF SaversParkLatest
<1>12. SaversInOrder'
  <2> SUFFICES ASSUME NEW v \in Visit \ mixed
               PROVE  /\ written[v] \subseteq savers'[v].latest
                      /\ \A q \in requests' : q.from = v => q.text \subseteq savers'[v].latest
                      /\ \A n \in LiveFrom(v)' :
                           /\ written[v] \subseteq n.text
                           /\ \A q \in requests' : q.from = v => q.text \subseteq n.text
                           /\ n.doc \in Keyed /\ savers'[v].queued = {} =>
                                n.text = savers'[v].latest
    BY DEF SaversInOrder
  <2>1. /\ written[v] \subseteq savers[v].latest
        /\ \A q \in requests : q.from = v => q.text \subseteq savers[v].latest
        /\ \A n \in LiveFrom(v) :
             /\ written[v] \subseteq n.text
             /\ \A q \in requests : q.from = v => q.text \subseteq n.text
             /\ n.doc \in Keyed /\ savers[v].queued = {} => n.text = savers[v].latest
    BY DEF Inv, Saving, SaversInOrder
  <2>2. LiveFrom(v)' \subseteq LiveFrom(v)
    BY <1>9
  <2>3. QED
    BY <1>4, <1>8, <2>1, <2>2
<1>13. page # Away => visit \in Visit
  BY DocumentsAreTyped DEF Inv, TypeOK, Visit
<1>14. OnePage'
  BY <1>4, <1>8, <1>13 DEF Inv, OnePage
<1>15. TextsAuthored'
  <2>1. \A q \in requests : q.from \in Visit
    BY DEF Inv, TypeOK, Request
  <2>2. QED
    BY <1>4, <1>8, <1>13, <2>1 DEF Inv, TextsAuthored, Authored, OneDocument
<1>16. DoneLanded'
  BY <1>8 DEF Inv, DoneLanded
<1>17. SavedIsSaved'
  BY <1>4, <1>13 DEF Inv, SavedIsSaved, OneDocument
<1>18. UnsavedIsKnown'
  <2> SUFFICES ASSUME NEW e \in Typed, OneDocument(author[e]), e \in OnTheWay
               PROVE  e \in told' \/ e \in OnTheWay'
    BY <1>5 DEF Inv, UnsavedIsKnown, Typed, OneDocument
  <2>1. PICK o \in requests : Live(o) /\ Carries(o, e)
    BY OnTheWayMeans
  <2>2. CASE o = r
    BY <1>5, <2>1, <2>2 DEF Carries
  <2>3. CASE o # r
    <3>1. o.from \in Visit /\ o.from # r.from
      BY <1>1, <2>1, <2>3 DEF Inv, Saving, OneCall, LiveFrom, TypeOK, Request
    <3>2. savers'[o.from] = savers[o.from] /\ o \in requests'
      BY <1>4, <2>3, <3>1
    <3>3. Carries(o, e)'
      BY <2>1, <3>2 DEF Carries, Tail
    <3>4. QED
      BY <2>1, <3>2, <3>3 DEF OnTheWay, Carries, Live
  <2>4. QED
    BY <2>2, <2>3
<1>19. QED
  BY <1>7, <1>10, <1>11, <1>12, <1>14, <1>15, <1>16, <1>17, <1>18 DEF Inv, Saving

LEMMA LoseAnswerKeeps == ASSUME Inv, NEW r \in requests, LoseAnswer(r) PROVE Inv'
<1> DEFINE n == [r EXCEPT !.phase = "orphan"]
           left == IF r.phase = "sent" THEN {n} ELSE {}
<1>1. /\ n \in Request /\ n.from = r.from /\ n.doc = r.doc /\ n.text = r.text
      /\ n.phase = "orphan"
  BY NextPhase DEF Inv
<1>2. /\ r.phase \in {"sent", "done"} /\ Failed(r) /\ requests' = (requests \ {r}) \cup left
      /\ UNCHANGED <<stored, deleted, cached, page, visit, mixed, armed, pending, emitted,
                     author, landed, written>>
      /\ faults < MaxFaults /\ faults' = faults + 1
  BY DEF LoseAnswer, server, editor, history
<1> HIDE DEF n
<1>3. faults' \in 0 .. MaxFaults
  BY <1>2, DocumentsAreTyped DEF Inv, TypeOK
<1>4. Live(r)
  BY <1>2 DEF Live
<1>5. /\ left \subseteq Request
      /\ \A m \in left : /\ m.from = r.from /\ m.doc = r.doc /\ m.text = r.text
                         /\ m.phase = "orphan"
  BY <1>1
<1> HIDE DEF left
<1>6. QED
  BY <1>2, <1>3, <1>4, <1>5, CallFails

LEMMA RefusedKeeps ==
  ASSUME Inv, NEW r \in requests, Return(r), r.phase = "refused" PROVE Inv'
<1> DEFINE left == {}
<1>1. /\ Failed(r) /\ requests' = (requests \ {r}) \cup left
      /\ UNCHANGED <<stored, deleted, cached, page, visit, mixed, armed, pending, emitted,
                     author, landed, written, faults>>
  BY DEF Return, server, editor, history
<1>2. faults' \in 0 .. MaxFaults /\ Live(r)
  BY <1>1 DEF Inv, TypeOK, Live
<1>3. left \subseteq Request /\ \A m \in left : FALSE
  OBVIOUS
<1> HIDE DEF left
<1>4. QED
  BY <1>1, <1>2, <1>3, CallFails

\* The call is over for the page, which hears that it succeeded: `next` is the call
\* with the latest text, if that is newer.
LEMMA AnsweredKeeps ==
  ASSUME Inv, NEW r \in requests, r.phase = "done", Answered(r),
         UNCHANGED <<stored, deleted, cached, page, visit, mixed, armed, pending, emitted,
                     author, landed, written, told, faults>>
  PROVE  Inv'
<1> DEFINE tail == Tail(r.from, r.doc, r.text)
           old == savers[r.from]
           n == Send(r.from, r.doc, old.latest)
           next == IF tail = {} THEN {} ELSE {n}
           s == [latest |-> old.latest, queued |-> {}, inFlight |-> tail # {},
                 label |-> IF tail = {} THEN "saved" ELSE old.label]
<1>1. /\ r \in Request /\ r.from \in Visit /\ r.doc \in Doc /\ r.text \in Text
      /\ old \in Saver /\ tail \subseteq {old.latest} /\ Live(r)
  BY TailIsLatest DEF Inv, Saving, TypeOK, Request, Live
<1>2. /\ n \in Request /\ n.from = r.from /\ n.doc = r.doc /\ n.text = old.latest
      /\ n.phase = "sent"
  BY <1>1 DEF Send, Request, Saver
<1>3. /\ s \in Saver /\ s.latest = old.latest /\ s.queued = {}
      /\ (s.inFlight <=> tail # {})
      /\ s.label = IF tail = {} THEN "saved" ELSE old.label
  BY <1>1 DEF Saver
<1>4. savers' = [savers EXCEPT ![r.from] = s] /\ requests' = (requests \ {r}) \cup next
  <2>1. CASE tail = {}
    BY <2>1 DEF Answered
  <2>2. CASE tail # {}
    <3>1. tail = {old.latest}
      BY <1>1, <2>2
    <3>2. {Send(r.from, r.doc, text) : text \in tail} = {n}
      BY <3>1
    <3>3. QED
      BY <2>2, <3>2 DEF Answered
  <2>3. QED
    BY <2>1, <2>2
<1> HIDE DEF n, s
<1>5. /\ savers' \in [Visit -> Saver] /\ savers'[r.from] = s
      /\ \A v \in Visit : /\ savers'[v].latest = savers[v].latest
                          /\ v # r.from => savers'[v] = savers[v]
  BY <1>1, <1>3, <1>4 DEF Inv, TypeOK
<1>6. requests' \in SUBSET Request
  BY <1>2, <1>4 DEF Inv, TypeOK
<1>7. TypeOK'
  BY <1>5, <1>6 DEF Inv, TypeOK
<1>8. \A q \in requests : q.from = r.from /\ Live(q) => q = r
  BY <1>1 DEF Inv, Saving, OneCall, LiveFrom
<1>9. \A v \in Visit : LiveFrom(v)' = IF v = r.from THEN next ELSE LiveFrom(v)
  <2>1. \A v \in Visit : LiveFrom(v)' = {q \in requests' : q.from = v /\ q.phase # "orphan"}
    BY DEF LiveFrom, Live
  <2>2. \A v \in Visit : LiveFrom(v) = {q \in requests : q.from = v /\ q.phase # "orphan"}
    BY DEF LiveFrom, Live
  <2>3. {q \in requests' : q.from = r.from /\ q.phase # "orphan"} = next
    BY <1>2, <1>4, <1>8 DEF Live
  <2>4. ASSUME NEW v \in Visit, v # r.from
        PROVE  {q \in requests' : q.from = v /\ q.phase # "orphan"}
                 = {q \in requests : q.from = v /\ q.phase # "orphan"}
    BY <1>2, <1>4, <2>4
  <2>5. QED
    BY <1>1, <2>1, <2>2, <2>3, <2>4
<1>10. OneCall'
  BY <1>1, <1>3, <1>5, <1>9 DEF Inv, Saving, OneCall
<1>11. SaversParkLatest'
  <2>1. \A v \in Visit : savers'[v].queued \subseteq {savers'[v].latest}
    BY <1>3, <1>5 DEF Inv, Saving, SaversParkLatest
  <2>2. savers[r.from].inFlight
    BY <1>1 DEF Inv, Saving, OneCall, LiveFrom
  <2>3. \A v \in Visit : savers'[v].label = "saved" => ~savers'[v].inFlight
    BY <1>3, <1>5, <2>2 DEF Inv, Saving, SaversParkLatest
  <2>4. QED
    BY <2>1, <2>3 DEF SaversParkLatest
<1>12. \A q \in requests' : q \in requests \/ q = n
  BY <1>4
<1>13. SaversInOrder'
  <2> SUFFICES ASSUME NEW v \in Visit \ mixed
               PROVE  /\ written[v] \subseteq savers[v].latest
                      /\ \A q \in requests' : q.from = v => q.text \subseteq savers[v].latest
                      /\ \A m \in LiveFrom(v)' :
                           /\ written[v] \subseteq m.text
                           /\ \A q \in requests' : q.from = v => q.text \subseteq m.text
                           /\ m.doc \in Keyed /\ savers'[v].queued = {} =>
                                m.text = savers[v].latest
    BY <1>5 DEF SaversInOrder
  <2>1. /\ written[v] \subseteq savers[v].latest
        /\ \A q \in requests : q.from = v => q.text \subseteq savers[v].latest
        /\ \A m \in LiveFrom(v) :
             /\ written[v] \subseteq m.text
             /\ \A q \in requests : q.from = v => q.text \subseteq m.text
             /\ m.doc \in Keyed /\ savers[v].queued = {} => m.text = savers[v].latest
    BY DEF Inv, Saving, SaversInOrder
  <2>2. \A q \in requests' : q.from = v => q.text \subseteq savers[v].latest
    BY <1>2, <1>12, <2>1
  <2>3. CASE v = r.from
    BY <1>2, <1>9, <2>1, <2>2, <2>3
  <2>4. CASE v # r.from
    BY <1>2, <1>5, <1>9, <1>12, <2>1, <2>2, <2>4
  <2>5. QED
    BY <2>3, <2>4
<1>14. page # Away => visit \in Visit
  BY DocumentsAreTyped DEF Inv, TypeOK, Visit
<1>15. OnePage'
  BY <1>2, <1>5, <1>12, <1>14 DEF Inv, OnePage
<1>16. TextsAuthored'
  <2>1. \A q \in requests : q.from \in Visit
    BY DEF Inv, TypeOK, Request
  <2>2. Authored(n.text, n.doc) /\ n.from \in Visit
        /\ Authored(savers[n.from].latest, n.doc)
    BY <1>1, <1>2 DEF Inv, TextsAuthored
  <2>3. QED
    BY <1>5, <1>12, <1>14, <2>1, <2>2 DEF Inv, TextsAuthored, Authored, OneDocument
<1>17. DoneLanded'
  BY <1>2, <1>12 DEF Inv, DoneLanded
<1>18. \A e \in r.text : author[e] = r.doc => e \in landed
  BY DEF Inv, DoneLanded
<1>19. SavedIsSaved'
  <2> SUFFICES ASSUME page # Away, OneDocument(page), savers'[visit].label = "saved",
                      NEW e \in emitted, author[e] = page
               PROVE  e \in landed
    BY DEF SavedIsSaved, OneDocument
  <2>1. CASE visit # r.from
    BY <1>5, <1>14, <2>1 DEF Inv, SavedIsSaved
  <2>2. CASE visit = r.from
    <3>1. visit \notin mixed
      BY DEF Inv, OnePage, OneDocument
    <3>2. r.doc = page /\ emitted = old.latest
      BY <2>2, <3>1 DEF Inv, OnePage
    <3>3. tail = {}
      <4>1. savers[visit].inFlight /\ savers[visit].label = old.label
        BY <1>1, <2>2 DEF Inv, Saving, OneCall, LiveFrom
      <4>2. old.label # "saved"
        BY <1>1, <2>2, <4>1 DEF Inv, Saving, SaversParkLatest
      <4>3. QED
        BY <1>3, <1>5, <2>2, <4>2
    <3>4. r.text = old.latest
      <4>1. r \in LiveFrom(r.from)
        BY <1>1 DEF LiveFrom
      <4>2. CASE r.doc \in Keyed
        BY <1>1, <2>2, <3>1, <3>3, <4>1, <4>2 DEF Inv, Saving, SaversInOrder, Tail
      <4>3. CASE r.doc \notin Keyed
        BY <3>3, <4>3 DEF Tail
      <4>4. QED
        BY <4>2, <4>3
    <3>5. QED
      BY <1>18, <3>2, <3>4
  <2>3. QED
    BY <2>1, <2>2
<1>20. UnsavedIsKnown'
  <2> SUFFICES ASSUME NEW e \in Typed, OneDocument(author[e]), e \in OnTheWay
               PROVE  e \in landed \/ e \in OnTheWay'
    BY DEF Inv, UnsavedIsKnown, Typed, OneDocument
  <2>1. PICK o \in requests : Live(o) /\ Carries(o, e)
    BY OnTheWayMeans
  <2>2. CASE o = r /\ e \in r.text
    <3>1. author[e] = r.doc
      BY <1>1, <2>2, OwnEdits DEF Inv, TextsAuthored
    <3>2. QED
      BY <1>18, <2>2, <3>1
  <2>3. CASE o = r /\ e \notin r.text
    <3>1. tail # {} /\ e \in old.latest
      BY <1>1, <2>1, <2>3 DEF Carries
    <3>2. n \in requests' /\ e \in n.text /\ n.phase = "sent"
      BY <1>2, <1>4, <3>1
    <3>3. QED
      BY <3>2 DEF OnTheWay, Live
  <2>4. CASE o # r
    <3>1. o.from \in Visit /\ o.from # r.from
      BY <1>1, <1>8, <2>1, <2>4 DEF Inv, TypeOK, Request
    <3>2. savers'[o.from] = savers[o.from] /\ o \in requests'
      BY <1>4, <1>5, <2>4, <3>1
    <3>3. Carries(o, e)'
      BY <2>1, <3>2 DEF Carries, Tail
    <3>4. QED
      BY <2>1, <3>2, <3>3 DEF OnTheWay, Carries, Live
  <2>5. QED
    BY <2>2, <2>3, <2>4
<1>21. QED
  BY <1>7, <1>10, <1>11, <1>13, <1>15, <1>16, <1>17, <1>19, <1>20 DEF Inv, Saving

LEMMA ReturnKeeps == ASSUME Inv, NEW r \in requests, Return(r) PROVE Inv'
<1>1. CASE r.phase = "refused"
  BY <1>1, RefusedKeeps
<1>2. CASE r.phase = "done"
  <2>1. Answered(r) /\ UNCHANGED <<stored, deleted, cached, page, visit, mixed, armed,
                                   pending, emitted, author, landed, written, told, faults>>
    BY <1>2 DEF Return, server, editor, history
  <2>2. QED
    BY <1>2, <2>1, AnsweredKeeps
<1>3. QED
  BY <1>1, <1>2 DEF Return

-----------------------------------------------------------------------------
(* The invariant, and what follows from it.                                *)

LEMMA InitInv == Init => Inv
<1> SUFFICES ASSUME Init PROVE Inv
  OBVIOUS
<1>1. TypeOK
  <2>1. savers \in [Visit -> Saver]
    BY DEF Init, FreshSaver, Saver, Text
  <2>2. {} \in Text /\ 0 \in 0 .. MaxVisits /\ 0 \in 0 .. MaxFaults
    BY DocumentsAreTyped DEF Text
  <2>3. /\ stored \in [Doc -> Text] /\ cached \in [Doc -> SUBSET Text]
        /\ author \in [Edit -> Doc \cup {Away}] /\ written \in [Visit -> Text]
    BY <2>2 DEF Init
  <2>4. QED
    BY <2>1, <2>2, <2>3 DEF Init, TypeOK
<1>2. \A v : LiveFrom(v) = {}
  BY DEF Init, LiveFrom
<1>3. \A v \in Visit : /\ savers[v].latest = {} /\ savers[v].queued = {}
                       /\ savers[v].inFlight = FALSE /\ savers[v].label = "idle"
  BY DEF Init, FreshSaver
<1>4. Saving
  BY <1>2, <1>3 DEF Saving, OneCall, SaversParkLatest, SaversInOrder, Init
<1>5. OnePage /\ TextsAuthored /\ DoneLanded
  BY DEF Init, OnePage, TextsAuthored, Authored, DoneLanded
<1>6. SavedIsSaved /\ UnsavedIsKnown
  BY DEF Init, SavedIsSaved, UnsavedIsKnown, Typed
<1>7. QED
  BY <1>1, <1>4, <1>5, <1>6 DEF Inv

LEMMA InvStep == Inv /\ [Next]_vars => Inv'
<1> SUFFICES ASSUME Inv, [Next]_vars PROVE Inv'
  OBVIOUS
<1>1. ASSUME NEW d \in Doc, Open(d) PROVE Inv'
  BY <1>1, OpenKeeps
<1>2. ASSUME NEW d \in Doc, Switch(d) PROVE Inv'
  BY <1>2, SwitchKeeps
<1>3. ASSUME NEW e \in Edit, Type(e) PROVE Inv'
  BY <1>3, TypeKeeps
<1>4. CASE Leave
  BY <1>4, LeaveKeeps
<1>5. CASE Flush
  BY <1>5, FlushKeeps
<1>6. CASE \/ \E d \in Doc : Refetch(d) \/ Evict(d)
           \/ SavedFades \/ PressDelete \/ CloseMenu \/ UNCHANGED vars
  BY <1>6, QuietKeeps
<1>7. ASSUME NEW r \in requests, Apply(r) PROVE Inv'
  BY <1>7, ApplyKeeps
<1>8. ASSUME NEW r \in requests, Refuse(r) PROVE Inv'
  BY <1>8, RefuseKeeps
<1>9. ASSUME NEW r \in requests, LoseAnswer(r) PROVE Inv'
  BY <1>9, LoseAnswerKeeps
<1>10. ASSUME NEW r \in requests, Return(r) PROVE Inv'
  BY <1>10, ReturnKeeps
<1>11. QED
  BY <1>1, <1>2, <1>3, <1>4, <1>5, <1>6, <1>7, <1>8, <1>9, <1>10 DEF Next

LEMMA InvHolds == Spec => []Inv
BY InitInv, InvStep, PTL DEF Spec

\* Every variable keeps its type, whatever is typed, opened, saved or lost.
THEOREM PagesTyped == Spec => []TypeOK
<1>1. Inv => TypeOK
  BY DEF Inv
<1>2. QED
  BY <1>1, InvHolds, PTL

\* Whatever is typed on a page that stays with its document has reached it, is still
\* in the editor or on its way, or a toast said it was not saved.
THEOREM NoEditIsLostInSilence == Spec => []UnsavedIsKnown
<1>1. Inv => UnsavedIsKnown
  BY DEF Inv
<1>2. QED
  BY <1>1, InvHolds, PTL

\* While the label reads "Saved", the orchestrator has had every edit that the
\* editor handed over.
THEOREM SavedMeansSaved == Spec => []SavedIsSaved
<1>1. Inv => SavedIsSaved
  BY DEF Inv
<1>2. QED
  BY <1>1, InvHolds, PTL

\* The texts of one mounted page are applied in the order they were typed, but for
\* a call the page saw fail and that arrives all the same.
THEOREM PagesWriteInOrder == Spec => InOrder
<1> DEFINE Ordered == \A v \in Visit \ mixed :
             \/ written[v] \subseteq written'[v]
             \/ \E r \in requests : /\ r.from = v /\ ~Live(r)
                                    /\ written'[v] = r.text
<1>1. ASSUME Inv, NEW r \in requests, Apply(r) PROVE Ordered
  <2> SUFFICES ASSUME NEW v \in Visit \ mixed, Live(r), v = r.from,
                      written'[v] # written[v]
               PROVE  written[v] \subseteq r.text /\ written'[v] = r.text
    <3>1. written' = written \/ written' = [written EXCEPT ![r.from] = r.text]
      BY <1>1 DEF Apply, Lands, history
    <3>2. \A v \in Visit : /\ v # r.from => written'[v] = written[v]
                           /\ v = r.from => written'[v] \in {written[v], r.text}
      BY <1>1, <3>1 DEF Inv, TypeOK
    <3>3. QED
      BY <3>2
  <2>1. written'[v] = r.text
    BY <1>1 DEF Apply, Lands, history, Inv, TypeOK
  <2>2. r \in LiveFrom(v)
    BY DEF LiveFrom
  <2>3. QED
    BY <1>1, <2>1, <2>2 DEF Inv, Saving, SaversInOrder
<1>2. ASSUME UNCHANGED written PROVE Ordered
  BY <1>2
<1>3. Inv /\ [Next]_vars => [Ordered]_vars
  <2>1. ASSUME Inv, Next PROVE Ordered
    <3>1. UNCHANGED written \/ \E r \in requests : Apply(r)
      BY <2>1 DEF Next, Open, Switch, Refetch, Evict, Type, Leave, Flush, SavedFades,
         PressDelete, CloseMenu, Refuse, LoseAnswer, Return, history
    <3>2. QED
      BY <1>1, <1>2, <2>1, <3>1
  <2>2. QED
    BY <2>1
<1>4. QED
  BY <1>3, InvHolds, PTL DEF Spec, InOrder

=============================================================================
