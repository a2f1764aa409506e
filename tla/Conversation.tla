---------------------------- MODULE Conversation ----------------------------
(***************************************************************************)
(* Chats with the workspace agent: the orchestrator's threads, the tasks   *)
(* that answer them in the background, and the page that shows one thread. *)
(*                                                                         *)
(* A question is stored at once, under the lock, and a task is spawned to  *)
(* answer it; the answer needs one of a few permits and may fail, and a    *)
(* failed answer is stored as a turn too.  A restart of the orchestrator   *)
(* loses the tasks and keeps the threads.  The page polls while the last   *)
(* turn it shows is the person's.  It is one component whatever thread it  *)
(* shows, so going from one chat to another keeps its box and its `busy`.  *)
(*                                                                         *)
(* The router is a library.  `router.invalidate()` is over before the data *)
(* is there: the chat on screen is loaded in the background, and while its *)
(* loader runs another invalidate may join it or have it asked again, so   *)
(* what is `coming` is read any number of times before it lands.  A loader *)
(* that fails has an error in place of the page, whose interval is gone    *)
(* with it; nothing on the error asks again, another action's invalidate   *)
(* or a navigation does.  A first visit waits for its load; when that load *)
(* fails, the person is on an error, which is like having left.            *)
(*                                                                         *)
(* A text is a number: what the person typed, in the order of typing.      *)
(***************************************************************************)
EXTENDS Naturals, Sequences, FiniteSets

CONSTANTS
  Chat,         \* chat ids
  Nowhere,      \* no chat page is open
  Permits,      \* questions answered at once: `asking`
  MaxTexts,     \* bound: texts typed, here or in another window
  MaxVisits,    \* bound: times the page is mounted, errors aside
  MaxFaults,    \* bound: calls cut off or whose answer is lost, loads that fail
  MaxRestarts   \* bound: restarts of the orchestrator

ASSUME ChatsAreTyped ==
  /\ Nowhere \notin Chat
  /\ Permits \in Nat \ {0}
  /\ MaxTexts \in Nat /\ MaxVisits \in Nat /\ MaxFaults \in Nat
  /\ MaxRestarts \in Nat

Text == 1 .. MaxTexts
Visit == 1 .. MaxVisits + MaxFaults
Empty == 0

\* ChatTurn; an agent's turn carries the text it answers.
Turn == [role : {"person", "agent", "failed"}, text : Text]

VARIABLES
  turns,       \* the threads; a chat that was never opened has no turn
  answers,     \* the spawned `answer` tasks
  stranded,    \* history: chats whose answer a restart lost
  shown,       \* the router's copy of each thread, <<>> when it has none
  coming,      \* what the loader of a thread has read, <<>> when none runs
  page,        \* the chat on screen
  visit,       \* how many times the page was mounted, or an error stood for it
  box,         \* the text in the box
  busy,        \* "send", "brief" or "none"
  calls,       \* calls of the page
  typed,       \* the last text typed
  faults, restarts

vars == <<turns, answers, stranded, shown, coming, page, visit, box, busy, calls,
          typed, faults, restarts>>

server == <<turns, answers, stranded, restarts>>
copies == <<shown, coming>>
screen == <<page, visit, box, busy>>

\* The text is the question a task was spawned for, the last of its thread for as
\* long as the thread waits.
AnswerTask == [chat : Chat, text : Text, phase : {"spawned", "running"}]
Call == [visit : Visit, chat : Chat, kind : {"send", "brief"},
         text : Text \cup {Empty},
         phase : {"sent", "admitted", "stored", "refused"}]

Init ==
  /\ turns = [c \in Chat |-> <<>>]
  /\ answers = {} /\ stranded = {}
  /\ shown = [c \in Chat |-> <<>>] /\ coming = [c \in Chat |-> <<>>]
  /\ page = Nowhere /\ visit = 0 /\ box = Empty /\ busy = "none"
  /\ calls = {} /\ typed = 0
  /\ faults = 0 /\ restarts = 0

-----------------------------------------------------------------------------
(* The orchestrator.                                                       *)

\* The last turn is the person's: the thread waits for the agent.
Waiting(thread) == thread # <<>> /\ thread[Len(thread)].role = "person"

PersonTurn(q) == [role |-> "person", text |-> q]
Running == {a \in answers : a.phase = "running"}

\* `can_answer`: looked at before the lock is taken.
CanAnswer == Cardinality(Running) < Permits

Asks(c, q) ==
  /\ turns' = [turns EXCEPT ![c] = Append(turns[c], PersonTurn(q))]
  /\ answers' = answers \cup {[chat |-> c, text |-> q, phase |-> "spawned"]}

\* Mutant of Accepts: the thread is not looked at.
AcceptsAlways(c) == turns[c] # <<>>

\* `ask_chat` under the lock: the chat exists and does not wait already.
Accepts(c) == turns[c] # <<>> /\ ~Waiting(turns[c])

\* `create_chat`, from the home page or another window.
OpenChat(c) ==
  /\ turns[c] = <<>> /\ CanAnswer /\ typed < MaxTexts
  /\ typed' = typed + 1
  /\ Asks(c, typed + 1)
  /\ UNCHANGED <<stranded, copies, screen, calls, faults, restarts>>

\* `ask_chat` for another window.
AskElsewhere(c) ==
  /\ Accepts(c) /\ CanAnswer /\ typed < MaxTexts
  /\ typed' = typed + 1
  /\ Asks(c, typed + 1)
  /\ UNCHANGED <<stranded, copies, screen, calls, faults, restarts>>

Reply(a, role) ==
  /\ turns' = [turns EXCEPT ![a.chat] =
                 Append(turns[a.chat], [role |-> role, text |-> a.text])]
  /\ answers' = answers \ {a}

\* Mutant of StartAnswer: without a permit the task just ends.
StartOrDrop(a) ==
  /\ a.phase = "spawned"
  /\ answers' = (answers \ {a}) \cup
       (IF CanAnswer THEN {[a EXCEPT !.phase = "running"]} ELSE {})
  /\ UNCHANGED <<turns, stranded, copies, screen, calls, typed, faults, restarts>>

\* `answer`: it takes a permit, or says there is none as a failed turn.
StartAnswer(a) ==
  /\ a.phase = "spawned"
  /\ IF CanAnswer
     THEN /\ answers' = (answers \ {a}) \cup {[a EXCEPT !.phase = "running"]}
          /\ UNCHANGED turns
     ELSE Reply(a, "failed")
  /\ UNCHANGED <<stranded, copies, screen, calls, typed, faults, restarts>>

\* `finish`: the agent's turn is stored whatever happened.
FinishAnswer(a) ==
  /\ a.phase = "running"
  /\ \E role \in {"agent", "failed"} : Reply(a, role)
  /\ UNCHANGED <<stranded, copies, screen, calls, typed, faults, restarts>>

\* The process ends and starts again: the threads are read back, the tasks are
\* gone, and calls it had not stored fail.
Restart ==
  /\ restarts < MaxRestarts /\ restarts' = restarts + 1
  /\ answers' = {}
  /\ stranded' = stranded \cup {c \in Chat : Waiting(turns[c])}
  /\ calls' = {[k EXCEPT !.phase = IF k.phase \in {"sent", "admitted"} THEN "refused"
                                   ELSE k.phase] : k \in calls}
  /\ UNCHANGED <<turns, copies, screen, typed, faults>>

-----------------------------------------------------------------------------
(* The chat page.                                                          *)

\* The copy a navigation waited for, or one from before.  From anywhere else the page
\* mounts; from another chat it stays mounted.
Open(c) ==
  /\ page # c /\ shown[c] # <<>>
  /\ page' = c
  /\ IF page = Nowhere
     THEN visit < MaxVisits /\ visit' = visit + 1 /\ box' = Empty /\ busy' = "none"
     ELSE UNCHANGED <<visit, box, busy>>
  /\ UNCHANGED <<server, copies, calls, typed, faults>>

Leave ==
  /\ page # Nowhere
  /\ page' = Nowhere /\ box' = Empty /\ busy' = "none"
  /\ UNCHANGED <<server, copies, visit, calls, typed, faults>>

\* The page, and not an error in its place.
OnPage == page # Nowhere /\ shown[page] # <<>>

Type ==
  /\ OnPage /\ typed < MaxTexts
  /\ typed' = typed + 1 /\ box' = typed + 1
  /\ UNCHANGED <<server, copies, page, visit, busy, calls, faults>>

\* Mutant of Pending: only the page's own question is waited for.
PendingWhileSending == OnPage /\ busy = "send"

\* `pending`: the thread on screen waits for the agent.
Pending == OnPage /\ Waiting(shown[page])

NewCall(kind, q) ==
  [visit |-> visit, chat |-> page, kind |-> kind, text |-> q, phase |-> "sent"]

\* `send`: the box is emptied before the call.
Send ==
  /\ OnPage /\ box # Empty /\ busy = "none" /\ ~Pending
  /\ box' = Empty /\ busy' = "send"
  /\ calls' = calls \cup {NewCall("send", box)}
  /\ UNCHANGED <<server, copies, page, visit, typed, faults>>

\* `createTask`: a brief is asked for.
Brief ==
  /\ OnPage /\ busy = "none"
  /\ busy' = "brief"
  /\ calls' = calls \cup {NewCall("brief", Empty)}
  /\ UNCHANGED <<server, copies, page, visit, box, typed, faults>>

Advance(k, phase) == calls' = (calls \ {k}) \cup {[k EXCEPT !.phase = phase]}

\* `can_answer` for the page's question.
Admit(k) ==
  /\ k.kind = "send" /\ k.phase = "sent"
  /\ Advance(k, IF CanAnswer THEN "admitted" ELSE "refused")
  /\ UNCHANGED <<server, copies, screen, typed, faults>>

\* The rest of `ask_chat`.  `lost`: stored, but the page hears of a failure.
Store(k, lost) ==
  /\ k.phase = "admitted"
  /\ IF Accepts(k.chat) THEN Asks(k.chat, k.text) ELSE UNCHANGED <<turns, answers>>
  /\ Advance(k, IF lost \/ ~Accepts(k.chat) THEN "refused" ELSE "stored")
  /\ lost => faults < MaxFaults
  /\ faults' = IF lost THEN faults + 1 ELSE faults
  /\ UNCHANGED <<stranded, copies, screen, typed, restarts>>

\* The call is cut off before it is stored.
CutOff(k) ==
  /\ faults < MaxFaults /\ faults' = faults + 1
  /\ k.phase \in {"sent", "admitted"}
  /\ Advance(k, "refused")
  /\ UNCHANGED <<server, copies, screen, typed>>

\* The page that made the call is still mounted.
Here(k) == page # Nowhere /\ k.visit = visit

-----------------------------------------------------------------------------
(* The router.                                                             *)

\* A loader of the thread begins, unless one runs.
Fetches(c) ==
  coming' = IF coming[c] = <<>> THEN [coming EXCEPT ![c] = turns[c]] ELSE coming

\* `invalidate`: the chat on screen, its error included, is loaded again.
Invalidate == IF page = Nowhere THEN UNCHANGED coming ELSE Fetches(page)

\* A navigation, a link under the pointer, another action's invalidate.
Reload(c) ==
  /\ turns[c] # <<>> /\ coming[c] = <<>>
  /\ Fetches(c)
  /\ UNCHANGED <<server, shown, screen, calls, typed, faults>>

\* Every POLL_MS while the thread on screen waits.
Poll ==
  /\ Pending /\ coming[page] = <<>>
  /\ Invalidate
  /\ UNCHANGED <<server, shown, screen, calls, typed, faults>>

\* The loader reads the thread later than it was asked, or is asked again.
Read(c) ==
  /\ coming[c] \notin {<<>>, turns[c]}
  /\ coming' = [coming EXCEPT ![c] = turns[c]]
  /\ UNCHANGED <<server, shown, screen, calls, typed, faults>>

Land(c) ==
  /\ coming[c] # <<>>
  /\ shown' = [shown EXCEPT ![c] = coming[c]]
  /\ coming' = [coming EXCEPT ![c] = <<>>]
  /\ UNCHANGED <<server, screen, calls, typed, faults>>

\* On screen, the page gives way to an error.
LoadFails(c) ==
  /\ coming[c] # <<>> /\ faults < MaxFaults /\ faults' = faults + 1
  /\ shown' = [shown EXCEPT ![c] = <<>>]
  /\ coming' = [coming EXCEPT ![c] = <<>>]
  /\ IF page = c
     THEN visit' = visit + 1 /\ box' = Empty /\ busy' = "none"
     ELSE UNCHANGED <<visit, box, busy>>
  /\ UNCHANGED <<server, page, calls, typed>>

-----------------------------------------------------------------------------
(* What the page does when its calls return.                               *)

\* Mutant of SendReturns: the question is not put back.
SendForgets(k) ==
  /\ k.kind = "send" /\ k.phase \in {"stored", "refused"}
  /\ calls' = calls \ {k}
  /\ IF k.phase = "stored" THEN Invalidate ELSE UNCHANGED coming
  /\ busy' = IF Here(k) THEN "none" ELSE busy
  /\ UNCHANGED <<server, shown, page, visit, box, typed, faults>>

\* The answer to `send`: what is on screen by now is loaded again, or the question
\* goes back in the box, whatever is in it.
SendReturns(k) ==
  /\ k.kind = "send" /\ k.phase \in {"stored", "refused"}
  /\ calls' = calls \ {k}
  /\ IF k.phase = "stored" THEN Invalidate ELSE UNCHANGED coming
  /\ busy' = IF Here(k) THEN "none" ELSE busy
  /\ box' = IF k.phase = "refused" /\ Here(k) THEN k.text ELSE box
  /\ UNCHANGED <<server, shown, page, visit, typed, faults>>

\* The brief, or the person's last words when nothing could write one: the
\* composer opens with it, wherever the person is by then.
BriefReturns(k) ==
  /\ k.kind = "brief"
  /\ calls' = calls \ {k}
  /\ page' = Nowhere /\ box' = Empty /\ busy' = "none"
  /\ UNCHANGED <<server, copies, visit, typed, faults>>

Next ==
  \/ \E c \in Chat : OpenChat(c) \/ AskElsewhere(c) \/ Open(c) \/ Reload(c)
                   \/ Read(c) \/ Land(c) \/ LoadFails(c)
  \/ \E a \in answers : StartAnswer(a) \/ FinishAnswer(a)
  \/ Restart
  \/ Leave \/ Type \/ Send \/ Brief \/ Poll
  \/ \E k \in calls :
       \/ Admit(k) \/ CutOff(k) \/ SendReturns(k) \/ BriefReturns(k)
       \/ \E lost \in BOOLEAN : Store(k, lost)

\* Spawned tasks run and end (the answer is one bounded pass), calls are served
\* and answered, the interval fires for as long as the page is there, and a loader
\* comes back, or fails.
Fairness ==
  /\ WF_vars(\E a \in answers : StartAnswer(a) \/ FinishAnswer(a))
  /\ WF_vars(\E k \in calls : \/ Admit(k) \/ Store(k, FALSE)
                              \/ SendReturns(k) \/ BriefReturns(k))
  /\ WF_vars(Poll)
  /\ \A c \in Chat : WF_vars(Land(c))

Spec == Init /\ [][Next]_vars /\ Fairness

-----------------------------------------------------------------------------

TypeOK ==
  /\ turns \in [Chat -> Seq(Turn)] /\ shown \in [Chat -> Seq(Turn)]
  /\ coming \in [Chat -> Seq(Turn)]
  /\ answers \in SUBSET AnswerTask /\ stranded \subseteq Chat
  /\ page \in Chat \cup {Nowhere} /\ visit \in Visit \cup {0}
  /\ page # Nowhere => visit # 0
  /\ box \in Text \cup {Empty} /\ busy \in {"send", "brief", "none"}
  /\ calls \in SUBSET Call /\ typed \in 0 .. MaxTexts
  /\ faults \in 0 .. MaxFaults /\ restarts \in 0 .. MaxRestarts

\* A thread goes question, answer, question, answer, and an answer is the one to
\* the question before it, whoever asks at the same time from other windows.
Alternates(thread) ==
  \A i \in 1 .. Len(thread) :
    IF i % 2 = 1 THEN thread[i].role = "person"
    ELSE thread[i].role # "person" /\ thread[i].text = thread[i - 1].text

TurnsAlternate == \A c \in Chat : Alternates(turns[c])

\* A thread with a question and no answer is being worked on: exactly one task
\* answers it, unless a restart lost that task.
WaitingIsWorkedOn ==
  \A c \in Chat \ stranded :
    Cardinality({a \in answers : a.chat = c}) = IF Waiting(turns[c]) THEN 1 ELSE 0

\* Every question gets its answer, or a turn that says why there is none.
EveryQuestionIsAnswered ==
  \A c \in Chat : Waiting(turns[c]) ~> ~Waiting(turns[c]) \/ c \in stranded

\* A page that shows a thread as being answered comes to show the answer, unless a
\* load fails meanwhile: then it is an error that stands there, and stays.
PageCatchesUp ==
  \A c \in Chat :
    page = c /\ Waiting(shown[c]) ~>
      \/ page # c \/ shown[c] = <<>>
      \/ ~Waiting(shown[c]) \/ c \in stranded

\* A question taken from the box is in the thread, on its way, or back in the
\* box, as long as the person stays on the page.
QuestionKept ==
  [][\A k \in calls :
       (k.kind = "send" /\ k \notin calls' /\ Here(k) /\ page' = page
          /\ ~\E l \in calls' : l.kind = "send" /\ l.text = k.text) =>
       \/ box' = k.text
       \/ \E i \in 1 .. Len(turns'[k.chat]) : turns'[k.chat][i].text = k.text]_vars

=============================================================================
