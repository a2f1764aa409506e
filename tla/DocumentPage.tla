---------------------------- MODULE DocumentPage ----------------------------
(***************************************************************************)
(* The pages that save a document while it is being written: a scratchpad, *)
(* a skill, and the description of a todo.  The editor keeps what is typed *)
(* and hands it to the page's `save` after a pause, on blur and when it    *)
(* unmounts; `save` keeps one PATCH in flight and sends what was typed     *)
(* meanwhile when the answer comes.  The router shows a page it has loaded *)
(* before from its cache, and the editor reads that content only once.     *)
(*                                                                         *)
(* A document's text is the set of the edits it holds.  Every edit adds to *)
(* the text in the editor, so a text that contains another is newer.       *)
(*                                                                         *)
(* A mounted page is a visit; what its `save` keeps (the refs) outlives    *)
(* the visit in the promises it started.  Scratchpads and skills are       *)
(* mounted anew for each document (key={pad.id}); a todo's Description is  *)
(* not, so going from one todo straight to another keeps its refs.         *)
(***************************************************************************)
EXTENDS Naturals, FiniteSets

CONSTANTS
  Doc,         \* document ids
  Keyed,       \* those whose page is keyed by id: scratchpads and skills
  Away,        \* no document page is open
  MaxEdits,    \* bound: edits typed
  MaxVisits,   \* bound: pages mounted
  MaxFaults    \* bound: calls that fail

Edit == 1 .. MaxEdits
Visit == 1 .. MaxVisits
Text == SUBSET Edit

ASSUME DocumentsAreTyped ==
  /\ Keyed \subseteq Doc /\ Away \notin Doc
  /\ MaxEdits \in Nat /\ MaxVisits \in Nat /\ MaxFaults \in Nat

VARIABLES
  stored,      \* the text the orchestrator keeps of each document
  deleted,     \* documents it has deleted
  cached,      \* the router's copy of each: at most one text
  page,        \* the document on screen, or Away
  visit,       \* the last visit, and how many there have been
  mixed,       \* visits that went from a todo straight to another
  armed,       \* the first press on Delete was made
  pending,     \* the text in the editor
  emitted,     \* the text it last handed to `save`
  savers,      \* per visit, the refs and the label of its `save`
  requests,    \* PATCH calls on their way
  author,      \* the document each edit was typed in; Away before it is
  landed,      \* history: edits that reached their document
  written,     \* history: per visit, the text its last applied call carried
  told,        \* history: edits a toast said were not saved
  faults

vars == <<stored, deleted, cached, page, visit, mixed, armed, pending, emitted, 
          savers, requests, author, landed, written, told, faults>>

editor == <<pending, emitted>>
server == <<stored, deleted>>
history == <<landed, written>>

Saver == [latest : Text, queued : SUBSET Text, inFlight : BOOLEAN,
          label : {"idle", "saving", "saved"}]
Request == [from : Visit, doc : Doc, text : Text,
            phase : {"sent", "done", "refused", "orphan"}]

FreshSaver(text) ==
  [latest |-> text, queued |-> {}, inFlight |-> FALSE, label |-> "idle"]

Init ==
  /\ stored = [d \in Doc |-> {}] /\ deleted = {}
  /\ cached = [d \in Doc |-> {}]
  /\ page = Away /\ visit = 0 /\ mixed = {} /\ armed = FALSE
  /\ pending = {} /\ emitted = {}
  /\ savers = [v \in Visit |-> FreshSaver({})]
  /\ requests = {}
  /\ author = [e \in Edit |-> Away]
  /\ landed = {} /\ written = [v \in Visit |-> {}] /\ told = {}
  /\ faults = 0

-----------------------------------------------------------------------------
(* Saving.                                                                 *)

Send(v, d, text) == [from |-> v, doc |-> d, text |-> text, phase |-> "sent"]

\* `save`: a call in flight leaves the text for its tail, otherwise it is sent.
SaverAfter(s, text) ==
  [latest   |-> text,
   queued   |-> IF s.inFlight THEN {text} ELSE {},
   inFlight |-> TRUE,
   label    |-> IF s.inFlight THEN s.label ELSE "saving"]

\* Mutant: the text is sent at once, whatever is in flight.
RacingSave(v, d, text) ==
  /\ savers' = [savers EXCEPT ![v] = SaverAfter(savers[v], text)]
  /\ requests' = requests \cup {Send(v, d, text)}

Save(v, d, text) ==
  /\ savers' = [savers EXCEPT ![v] = SaverAfter(savers[v], text)]
  /\ requests' = IF savers[v].inFlight THEN requests
                 ELSE requests \cup {Send(v, d, text)}

\* What the call that carried `text` still has to send when its answer comes:
\* the parked text of a scratchpad or a skill, the newer `latest` of a todo.
Tail(v, d, text) ==
  IF d \in Keyed THEN savers[v].queued ELSE {savers[v].latest} \ {text}

\* Mutant of Answered: the tail is forgotten.
AnsweredOnce(r) ==
  /\ savers' = [savers EXCEPT ![r.from] =
       [savers[r.from] EXCEPT !.inFlight = FALSE, !.label = "saved"]]
  /\ requests' = requests \ {r}

\* The await returns: the loop goes round with the tail, or says Saved.
Answered(r) ==
  LET s == savers[r.from]
      tail == Tail(r.from, r.doc, r.text)
  IN IF tail = {}
     THEN /\ savers' = [savers EXCEPT ![r.from] =
               [latest |-> s.latest, queued |-> {}, inFlight |-> FALSE,
                label |-> "saved"]]
          /\ requests' = requests \ {r}
     ELSE /\ savers' = [savers EXCEPT ![r.from] =
               [latest |-> s.latest, queued |-> {}, inFlight |-> TRUE,
                label |-> s.label]]
          /\ requests' = (requests \ {r}) \cup
                           {Send(r.from, r.doc, text) : text \in tail}

\* Mutant of Failed: nobody is told.
FailedSilently(r) ==
  /\ savers' = [savers EXCEPT ![r.from] =
       [savers[r.from] EXCEPT !.inFlight = FALSE, !.label = "idle"]]
  /\ UNCHANGED told

\* The await throws: a toast, and what was parked stays parked.
Failed(r) ==
  LET s == savers[r.from]
  IN /\ savers' = [savers EXCEPT ![r.from] =
          [latest |-> s.latest, queued |-> s.queued, inFlight |-> FALSE,
           label |-> "idle"]]
     /\ told' = told \cup r.text \cup UNION Tail(r.from, r.doc, r.text)

-----------------------------------------------------------------------------
(* The page and its editor.                                                *)

\* What the loader gives the page: the router's copy if it has one, else what
\* the orchestrator answers (a document it no longer has is not found).
Loaded(d) ==
  IF cached[d] # {} THEN cached[d]
  ELSE IF d \in deleted THEN {} ELSE {stored[d]}

Mount(d, text) ==
  /\ page' = d /\ armed' = FALSE
  /\ pending' = text /\ emitted' = text
  /\ cached' = [cached EXCEPT ![d] = {text}]

\* A document page opens from a page that has no document.
Open(d) ==
  /\ page = Away /\ visit < MaxVisits
  /\ \E text \in Loaded(d) :
       /\ Mount(d, text)
       /\ savers' = [savers EXCEPT ![visit + 1] = FreshSaver(text)]
  /\ visit' = visit + 1
  /\ UNCHANGED <<server, mixed, requests, author, history, told, faults>>

\* Mutant of Unmount: the editor goes without flushing.
UnmountOnly == UNCHANGED <<savers, requests>>

\* `flush` as the editor unmounts.
Unmount ==
  IF pending = emitted THEN UNCHANGED <<savers, requests>>
  ELSE Save(visit, page, pending)

Leave ==
  /\ page # Away
  /\ Unmount
  /\ page' = Away /\ armed' = FALSE
  /\ UNCHANGED <<server, cached, visit, mixed, editor, author, history, told, faults>>

\* From a todo to a todo: the editor is mounted anew, Description is not.
Switch(d) ==
  /\ page \in Doc \ Keyed /\ d \in Doc \ (Keyed \cup {page})
  /\ \E text \in Loaded(d) : Mount(d, text)
  /\ Unmount
  /\ mixed' = mixed \cup {visit}
  /\ UNCHANGED <<server, visit, author, history, told, faults>>

\* `onUpdate`: the next edit, in the text on screen.
Type(e) ==
  /\ page # Away /\ author[e] = Away
  /\ \A earlier \in 1 .. e - 1 : author[earlier] # Away
  /\ author' = [author EXCEPT ![e] = page]
  /\ pending' = pending \cup {e}
  /\ UNCHANGED <<server, cached, page, visit, mixed, armed, emitted, savers, requests,
                 history, told, faults>>

\* `flush`, when the pause is over or the editor loses the focus.
Flush ==
  /\ page # Away /\ pending # emitted
  /\ emitted' = pending
  /\ Save(visit, page, pending)
  /\ UNCHANGED <<server, cached, page, visit, mixed, armed, pending, author, history,
                 told, faults>>

\* "Saved" goes after SAVED_MS on a scratchpad or a skill.
SavedFades ==
  /\ page \in Keyed /\ savers[visit].label = "saved"
  /\ savers' = [savers EXCEPT ![visit] = [savers[visit] EXCEPT !.label = "idle"]]
  /\ UNCHANGED <<server, cached, page, visit, mixed, armed, editor, requests, author,
                 history, told, faults>>

\* `onDelete`: the first press arms, the second deletes; the page is left later.
PressDelete ==
  /\ page \in Keyed
  /\ armed' = ~armed
  /\ deleted' = IF armed THEN deleted \cup {page} ELSE deleted
  /\ UNCHANGED <<stored, cached, page, visit, mixed, editor, savers, requests, author,
                 history, told, faults>>

\* The menu closes with Delete armed.
CloseMenu ==
  /\ armed /\ armed' = FALSE
  /\ UNCHANGED <<server, cached, page, visit, mixed, editor, savers, requests, author,
                 history, told, faults>>

-----------------------------------------------------------------------------
(* The router's cache: a link under the pointer, a stale page shown again  *)
(* and an action's invalidate all load anew; an unused copy is dropped.    *)

Refetch(d) ==
  /\ d \notin deleted
  /\ cached[d] # {stored[d]}
  /\ cached' = [cached EXCEPT ![d] = {stored[d]}]
  /\ UNCHANGED <<server, page, visit, mixed, armed, editor, savers, requests, author,
                 history, told, faults>>

Evict(d) ==
  /\ page # d /\ cached[d] # {}
  /\ cached' = [cached EXCEPT ![d] = {}]
  /\ UNCHANGED <<server, page, visit, mixed, armed, editor, savers, requests, author,
                 history, told, faults>>

-----------------------------------------------------------------------------
(* The calls.  A call can be refused, or its answer can be lost on the way *)
(* back; a call whose answer is lost before it arrives may arrive later.   *)

Lands(r) ==
  /\ stored' = [stored EXCEPT ![r.doc] = r.text]
  /\ landed' = landed \cup {e \in r.text : author[e] = r.doc}
  /\ written' = [written EXCEPT ![r.from] = r.text]

\* PATCH at the orchestrator, under its lock; a deleted document is not found.
Apply(r) ==
  /\ r.phase \in {"sent", "orphan"}
  /\ IF r.doc \in deleted THEN UNCHANGED <<stored, history>> ELSE Lands(r)
  /\ requests' = (requests \ {r}) \cup
       (IF r.phase = "orphan" THEN {}
        ELSE {[r EXCEPT !.phase = IF r.doc \in deleted THEN "refused" ELSE "done"]})
  /\ UNCHANGED <<deleted, cached, page, visit, mixed, armed, editor, savers, author, told,
                 faults>>

\* The worker or the orchestrator answers with an error.
Refuse(r) ==
  /\ faults < MaxFaults /\ faults' = faults + 1
  /\ r.phase = "sent"
  /\ requests' = (requests \ {r}) \cup {[r EXCEPT !.phase = "refused"]}
  /\ UNCHANGED <<server, cached, page, visit, mixed, armed, editor, savers, author,
                 history, told>>

\* The connection drops: the page sees a failure, the call may still arrive.
LoseAnswer(r) ==
  /\ faults < MaxFaults /\ faults' = faults + 1
  /\ r.phase \in {"sent", "done"}
  /\ Failed(r)
  /\ requests' = (requests \ {r}) \cup
       (IF r.phase = "sent" THEN {[r EXCEPT !.phase = "orphan"]} ELSE {})
  /\ UNCHANGED <<server, cached, page, visit, mixed, armed, editor, author, history>>

Return(r) ==
  /\ \/ /\ r.phase = "done" /\ Answered(r) /\ UNCHANGED told
     \/ /\ r.phase = "refused" /\ Failed(r) /\ requests' = requests \ {r}
  /\ UNCHANGED <<server, cached, page, visit, mixed, armed, editor, author, history, faults>>

Next ==
  \/ \E d \in Doc : Open(d) \/ Switch(d) \/ Refetch(d) \/ Evict(d)
  \/ \E e \in Edit : Type(e)
  \/ Leave \/ Flush \/ SavedFades \/ PressDelete \/ CloseMenu
  \/ \E r \in requests : Apply(r) \/ Refuse(r) \/ LoseAnswer(r) \/ Return(r)

\* The pause ends, and every call is served and answered.
Fairness ==
  /\ WF_vars(Flush)
  /\ WF_vars(\E r \in requests : Apply(r) \/ Return(r))

Spec == Init /\ [][Next]_vars /\ Fairness

-----------------------------------------------------------------------------

TypeOK ==
  /\ stored \in [Doc -> Text] /\ deleted \subseteq Doc
  /\ cached \in [Doc -> SUBSET Text]
  /\ page \in Doc \cup {Away} /\ visit \in 0 .. MaxVisits
  /\ mixed \subseteq Visit /\ armed \in BOOLEAN
  /\ pending \in Text /\ emitted \in Text
  /\ savers \in [Visit -> Saver] /\ requests \in SUBSET Request
  /\ author \in [Edit -> Doc \cup {Away}]
  /\ landed \in Text /\ written \in [Visit -> Text] /\ told \in Text
  /\ faults \in 0 .. MaxFaults
  /\ page # Away => visit # 0

Live(r) == r.phase # "orphan"
Typed == {e \in Edit : author[e] # Away}

\* The texts on the way: in a call, or left for the tail of one.
OnTheWay ==
  UNION {r.text \cup UNION Tail(r.from, r.doc, r.text) :
           r \in {q \in requests : Live(q)}}

\* The pages whose `save` serves one document: those keyed by id, and all of
\* them as long as nobody went from a todo straight to another.
OneDocument(d) == d \in Keyed \/ mixed = {}

\* No edit disappears in silence: it reached its document, it is still in the
\* editor or on its way, or a toast said it was not saved.  markdown-editor.tsx:
\* leaving within the pause must still save; scratchpads_.$id.tsx: when autosave
\* fails, silence would let someone keep typing.
UnsavedIsKnown ==
  \A e \in Typed : OneDocument(author[e]) =>
     \/ e \in landed \cup told \cup OnTheWay
     \/ page # Away /\ e \in pending \ emitted

\* The label "Saved" is true: what the editor handed over reached the document.
SavedIsSaved ==
  page # Away /\ OneDocument(page) /\ savers[visit].label = "saved" =>
    \A e \in emitted : author[e] = page => e \in landed

\* The texts one mounted page sends reach the orchestrator in the order they
\* were typed: "two writes arriving out of order would resurrect a paragraph".
\* The one exception is a call the page saw fail and that arrives all the same.
InOrder ==
  [][\A v \in Visit \ mixed : \/ written[v] \subseteq written'[v]
                              \/ \E r \in requests : /\ r.from = v /\ ~Live(r)
                                                     /\ written'[v] = r.text]_vars

\* Whatever is typed reaches its document, or the writer is told.
EditsLand ==
  \A e \in Edit :
    e \in Typed ~> e \in landed \cup told \/ ~OneDocument(author[e])

=============================================================================
