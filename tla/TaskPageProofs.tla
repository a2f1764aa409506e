---------------------------- MODULE TaskPageProofs ----------------------------
(***************************************************************************)
(* Proofs about TaskPage and Transcript, for any tasks, runners, lists of  *)
(* runners and bounds: the page keeps its types, a machine picked for a    *)
(* retry can run the task, and the feed only grows.                        *)
(*                                                                         *)
(* The machine and the executor are picked apart, in any order, over       *)
(* copies of the task that change under the panel.  That a pick fits rests *)
(* on a picked machine being one of the list (PickListed): the panel never *)
(* changes its list once it has one.                                       *)
(*                                                                         *)
(* The feed is two loops over the events.  A longer log repeats the first  *)
(* rounds of a shorter one, a further round leaves all items but the last  *)
(* (Stays), and what a list holds, flattened, gains what each round adds.  *)
(* A copy on screen is of some earlier moment (ShownIsPast), so its log is *)
(* a first part of the one that replaces it.                               *)
(***************************************************************************)
EXTENDS Transcript, FiniteSetTheorems, SequenceTheorems, WellFoundedInduction, TLAPS

\* A machine was picked from the list the panel has.
PickListed ==
  panel # Unset /\ panel.runnerName # Unset => panel.runnerName \in RunnersOf(panel)

Inv == TypeOK /\ PickListed

-----------------------------------------------------------------------------
(* Tasks.                                                                  *)

LEMMA StatusFollows ==
  ASSUME NEW st \in Status, NEW e \in Event
  PROVE  Transition(st, e) \in Status
BY DEF Transition, Status, Event, Target, IsTerminal, Terminal

LEMMA RecordIsNotEmpty ==
  ASSUME NEW r \in TaskRecord
  PROVE  r # <<>>
<1>1. "status" \in DOMAIN r
  BY DEF TaskRecord
<1>2. "status" \notin DOMAIN <<>>
  OBVIOUS
<1>3. QED
  BY <1>1, <1>2

LEMMA BecomesTyped ==
  ASSUME TypeOK, NEW t \in Task, NEW st \in Status, NEW e \in Event \cup Talk,
         Becomes(t, st, e)
  PROVE  task' \in [Task -> TaskRecord]
<1>1. task[t] \in TaskRecord
  BY DEF TypeOK
<1>2. Append(task[t].events, e) \in Seq(Event \cup Talk)
  BY <1>1 DEF TaskRecord
<1>3. [task[t] EXCEPT !.status = st, !.events = Append(@, e)] \in TaskRecord
  BY <1>1, <1>2 DEF TaskRecord
<1>4. task' = [task EXCEPT ![t] = [task[t] EXCEPT !.status = st, !.events = Append(@, e)]]
  BY DEF Becomes, TypeOK
<1>5. QED
  BY <1>3, <1>4 DEF TypeOK

LEMMA StoresTyped ==
  ASSUME TypeOK, Stores(1)
  PROVE  said' \in 0 .. MaxEvents
BY PagesAreTyped DEF TypeOK, Stores

\* What the orchestrator and the runner do to a task.
LEMMA ServerStep ==
  ASSUME TypeOK, NEW t \in Task, Report(t) \/ Says(t) \/ Obeys(t)
  PROVE  TypeOK'
<1>1. task[t].status \in Status
  BY DEF TypeOK, TaskRecord
<1>2. CASE Report(t)
  <2>1. PICK e \in Expected(task[t].status) :
          Becomes(t, Transition(task[t].status, e), e)
    BY <1>2 DEF Report
  <2>2. e \in Event
    BY DEF Expected, Event
  <2>3. task' \in [Task -> TaskRecord]
    BY <1>1, <2>1, <2>2, StatusFollows, BecomesTyped
  <2>4. said' \in 0 .. MaxEvents
    BY <1>2, StoresTyped DEF Report
  <2>5. QED
    BY <1>2, <2>3, <2>4 DEF Report, TypeOK, copies, composer, counts, Retriable
<1>3. CASE Says(t)
  <2>1. PICK e \in Talk : Becomes(t, "running", e)
    BY <1>3 DEF Says
  <2>2. task' \in [Task -> TaskRecord]
    BY <2>1, BecomesTyped DEF Status
  <2>3. said' \in 0 .. MaxEvents
    BY <1>3, StoresTyped DEF Says
  <2>4. QED
    BY <1>3, <2>2, <2>3 DEF Says, TypeOK, copies, composer, counts, Retriable
<1>4. CASE Obeys(t)
  <2>1. PICK o \in ordered[t] :
          /\ ordered' = [ordered EXCEPT ![t] = @ \ {o}]
          /\ \E e \in IF o = "push" THEN {"pushed", "conflicted"} ELSE {"discarded"} :
               Becomes(t, Transition(task[t].status, e), e)
    BY <1>4 DEF Obeys
  <2>2. PICK e \in Event : Becomes(t, Transition(task[t].status, e), e)
    BY <2>1 DEF Event
  <2>3. task' \in [Task -> TaskRecord]
    BY <1>1, <2>2, StatusFollows, BecomesTyped
  <2>4. said' \in 0 .. MaxEvents
    BY <1>4, StoresTyped DEF Obeys
  <2>5. ordered' \in [Task -> SUBSET {"push", "discard"}]
    BY <2>1 DEF TypeOK
  <2>6. QED
    BY <1>4, <2>3, <2>4, <2>5 DEF Obeys, TypeOK, copies, composer, counts, Retriable
<1>5. QED
  BY <1>2, <1>3, <1>4

-----------------------------------------------------------------------------
(* Copies and the panel.                                                   *)

LEMMA FreshTyped == Fresh \in Panel /\ Fresh.runnerName = Unset /\ Fresh.executor = Unset
BY DEF Fresh, Panel

LEMMA FetchTyped ==
  ASSUME TypeOK, NEW t \in Task, Fetches(t)
  PROVE  coming' \in [Task -> TaskRecord \cup {<<>>}]
BY DEF TypeOK, Fetches

LEMMA InvalidateTyped ==
  ASSUME TypeOK, Invalidate
  PROVE  coming' \in [Task -> TaskRecord \cup {<<>>}]
BY FetchTyped DEF Invalidate, TypeOK

\* RetryPanel, whatever copy is on screen now.
LEMMA PanelsTyped ==
  ASSUME panel \in Panel \cup {Unset}, NEW p \in Task \cup {Nowhere}, NEW same \in BOOLEAN
  PROVE  /\ Panels(p, same) \in Panel \cup {Unset}
         /\ Panels(p, same) # Unset => p # Nowhere /\ Panels(p, same) \in {panel, Fresh}
         /\ Panels(p, same) # Unset => shown'[p] # <<>> /\ shown'[p].status \in Retryable
BY FreshTyped DEF Panels

\* The panel is the one there was, as far as the machine goes, or a new one.
LEMMA PanelStays ==
  ASSUME PickListed, panel' \in {panel, Fresh, Unset}
  PROVE  PickListed'
BY FreshTyped DEF PickListed, RunnersOf

\* Another copy or another page, with the panel that goes with it.
LEMMA ShownStep ==
  ASSUME Inv, NEW same \in BOOLEAN, page' \in Task \cup {Nowhere},
         panel' = Panels(page', same)
  PROVE  /\ panel' \in Panel \cup {Unset} /\ PickListed'
         /\ panel' # Unset => page' # Nowhere /\ Retriable(page)'
<1>1. panel \in Panel \cup {Unset}
  BY DEF Inv, TypeOK
<1>2. /\ panel' \in Panel \cup {Unset}
      /\ panel' # Unset => page' # Nowhere /\ panel' \in {panel, Fresh}
      /\ panel' # Unset => shown'[page'] # <<>> /\ shown'[page'].status \in Retryable
  BY <1>1, PanelsTyped
<1>3. PickListed'
  BY <1>2, PanelStays DEF Inv
<1>4. QED
  BY <1>2, <1>3 DEF Retriable

\* A loader begins, or reads again: nothing on screen changes.
LEMMA LoaderStep ==
  ASSUME Inv, Poll \/ \E t \in Task : Reload(t) \/ Read(t)
  PROVE  Inv'
<1>1. coming' \in [Task -> TaskRecord \cup {<<>>}]
  BY FetchTyped, InvalidateTyped DEF Poll, Reload, Read, Inv, TypeOK
<1>2. UNCHANGED <<server, shown, page, composer, calls, panel, counts>>
  BY DEF Poll, Reload, Read
<1>3. QED
  BY <1>1, <1>2
     DEF Inv, TypeOK, PickListed, RunnersOf, Retriable, server, composer, counts

\* A loader lands or fails: the copy on screen and the panel change.
LEMMA LandStep ==
  ASSUME Inv, NEW t \in Task, Land(t) \/ LoadFails(t)
  PROVE  Inv'
<1>1. /\ shown' \in [Task -> TaskRecord \cup {<<>>}]
      /\ coming' \in [Task -> TaskRecord \cup {<<>>}]
  BY DEF Land, LoadFails, Inv, TypeOK
<1>2. page' = page /\ page' \in Task \cup {Nowhere} /\ panel' = Panels(page', TRUE)
  BY DEF Land, LoadFails, Inv, TypeOK
<1>3. /\ panel' \in Panel \cup {Unset} /\ PickListed'
      /\ panel' # Unset => page' # Nowhere /\ Retriable(page)'
  BY <1>2, ShownStep
<1>4. /\ {text', armed'} \subseteq BOOLEAN
      /\ pending' \in {"follow-up", "approve", "reject", Unset}
  BY DEF Land, LoadFails, Inv, TypeOK, composer
<1>5. made' \in 0 .. MaxCalls /\ faults' \in 0 .. MaxFaults
  <2>1. CASE Land(t)
    BY <2>1 DEF Land, Inv, TypeOK, counts
  <2>2. CASE LoadFails(t)
    <3>1. made' = made /\ faults' = faults + 1 /\ faults < MaxFaults
      BY <2>2 DEF LoadFails
    <3> QED
      BY <3>1, PagesAreTyped DEF Inv, TypeOK
  <2> QED
    BY <2>1, <2>2
<1>6. UNCHANGED <<server, calls>>
  BY DEF Land, LoadFails
<1>7. QED
  BY <1>1, <1>2, <1>3, <1>4, <1>5, <1>6 DEF Inv, TypeOK, server

LEMMA PageStep ==
  ASSUME Inv, Leave \/ \E t \in Task : Open(t)
  PROVE  Inv'
<1>1. CASE \E t \in Task : Open(t)
  <2>1. PICK t \in Task : Open(t)
    BY <1>1
  <2>2. page' = t /\ panel' = Panels(page', FALSE)
    BY <2>1 DEF Open
  <2>3. /\ panel' \in Panel \cup {Unset} /\ PickListed'
        /\ panel' # Unset => page' # Nowhere /\ Retriable(page)'
    BY <2>2, ShownStep
  <2>4. /\ {text', armed'} \subseteq BOOLEAN
        /\ pending' \in {"follow-up", "approve", "reject", Unset}
    BY <2>1 DEF Open, composer, Inv, TypeOK
  <2>5. QED
    BY <2>1, <2>2, <2>3, <2>4 DEF Open, Inv, TypeOK, server, copies, counts
<1>2. CASE Leave
  BY <1>2 DEF Leave, Inv, TypeOK, PickListed, server, copies, counts
<1>3. QED
  BY <1>1, <1>2

-----------------------------------------------------------------------------
(* The box and the panel.                                                  *)

LEMMA NewCallTyped ==
  ASSUME TypeOK, page \in Task, NEW kind \in {"follow-up", "approve", "reject", "retry"},
         NEW r \in Runner \cup {Unset}, NEW e \in Executor \cup {Unset},
         NewCall(kind, r, e)
  PROVE  calls' \subseteq Call /\ made' \in 0 .. MaxCalls
<1>1. calls' \subseteq Call
  BY DEF TypeOK, NewCall, Call
<1>2. made' \in 0 .. MaxCalls
  BY PagesAreTyped DEF TypeOK, NewCall
<1>3. QED
  BY <1>1, <1>2

LEMMA BoxIsOnPage == ASSUME TypeOK, Respondable \/ Reviewable PROVE page \in Task
BY DEF TypeOK, Respondable, Reviewable, OnPage

LEMMA RunStep ==
  ASSUME Inv, page \in Task, NEW kind \in {"follow-up", "approve", "reject"}, Run(kind)
  PROVE  Inv'
<1>1. calls' \subseteq Call /\ made' \in 0 .. MaxCalls
  BY NewCallTyped DEF Run, Inv
<1>2. QED
  BY <1>1 DEF Run, Inv, TypeOK, PickListed, RunnersOf, Retriable, server, copies

LEMMA ComposerStep ==
  ASSUME Inv, Type \/ SendFollowUp \/ Approve \/ Reject \/ Disarm
  PROVE  Inv'
<1>1. CASE Type
  BY <1>1 DEF Type, Inv, TypeOK, PickListed, RunnersOf, Retriable, server, copies, counts
<1>2. CASE SendFollowUp
  BY <1>2, BoxIsOnPage, RunStep DEF SendFollowUp, Inv
<1>3. CASE Approve
  BY <1>3, BoxIsOnPage, RunStep DEF Approve, Inv
<1>4. CASE Reject
  <2>1. CASE armed
    BY <1>4, <2>1, BoxIsOnPage, RunStep DEF Reject, Inv
  <2>2. CASE ~armed
    BY <1>4, <2>2 DEF Reject, Inv, TypeOK, PickListed, RunnersOf, Retriable, server, copies, counts
  <2>3. QED
    BY <2>1, <2>2
<1>5. CASE Disarm
  BY <1>5 DEF Disarm, Inv, TypeOK, PickListed, RunnersOf, Retriable, server, copies, counts
<1>6. QED
  BY <1>1, <1>2, <1>3, <1>4, <1>5

\* What the panel's actions work with.
LEMMA PanelOpen ==
  ASSUME TypeOK, InPanel
  PROVE  /\ panel \in Panel /\ page \in Task
         /\ shown[page] \in TaskRecord /\ shown[page] # <<>>
         /\ panel.runners \in Lists \cup {<<>>}
         /\ panel.runnerName \in Runner \cup {Unset}
         /\ panel.executor \in Executor \cup {Unset}
         /\ panel.pending \in BOOLEAN
<1>1. panel \in Panel /\ page \in Task
  BY DEF TypeOK, InPanel
<1>2. shown[page] \in TaskRecord /\ shown[page] # <<>>
  BY <1>1 DEF TypeOK, InPanel, Retriable
<1>3. QED
  BY <1>1, <1>2 DEF Panel

\* Every list says which executors a machine has.
LEMMA ListTyped ==
  ASSUME NEW l \in Lists \cup {<<>>}, NEW r \in DOMAIN l
  PROVE  r \in Runner /\ l[r] \subseteq Executor
BY PagesAreTyped

\* A picked machine is listed before and after a list is loaded.
LEMMA LoadRunnersStep ==
  ASSUME Inv, LoadRunners
  PROVE  /\ panel' \in Panel /\ PickListed' /\ panel.runnerName = Unset
         /\ panel' # Unset => panel'.runnerName = Unset
<1>1. panel \in Panel /\ panel.runners = <<>> /\ panel # Unset
  BY PanelOpen DEF Inv, LoadRunners, InPanel
<1>2. panel.runnerName = Unset
  <2>1. RunnersOf(panel) = {}
    BY <1>1 DEF RunnersOf
  <2>2. QED
    BY <1>1, <2>1 DEF Inv, PickListed
<1>3. PICK l \in Lists : panel' = [panel EXCEPT !.runners = l]
  BY DEF LoadRunners
<1>4. panel' \in Panel /\ panel'.runnerName = Unset
  BY <1>1, <1>2, <1>3 DEF Panel
<1>5. QED
  BY <1>2, <1>4 DEF PickListed

\* Picking a machine takes one of the list, with an executor it has.
LEMMA ChangeRunnerStep ==
  ASSUME Inv, NEW r \in Runner \cup {Unset}, ChangeRunner(r)
  PROVE  panel' \in Panel /\ PickListed' /\ PickFits(panel', shown[page])
<1> DEFINE picked == [panel EXCEPT !.runnerName = r]
           selected == Routed(picked, shown[page])
<1>1. /\ panel \in Panel /\ page \in Task /\ shown[page] \in TaskRecord
      /\ panel.runners \in Lists \cup {<<>>} /\ panel # Unset
  BY PanelOpen DEF Inv, ChangeRunner, InPanel
<1>2. picked \in Panel /\ picked.runners = panel.runners /\ picked.runnerName = r
  BY <1>1 DEF Panel
<1>3. r # Unset => r \in DOMAIN panel.runners /\ panel.runners[r] # {}
  BY DEF ChangeRunner, RunnerChoices, RunnersOf
<1>4. CASE RetryCompatible(picked, shown[page])
  <2>1. panel' = picked
    BY <1>4 DEF ChangeRunner
  <2>2. PickListed'
    BY <1>2, <1>3, <2>1 DEF PickListed, RunnersOf
  <2>3. QED
    BY <1>2, <1>4, <2>1, <2>2 DEF PickFits
<1>5. CASE ~RetryCompatible(picked, shown[page])
  <2>1. selected \in DOMAIN panel.runners
    BY <1>2, <1>5 DEF RetryCompatible, RunnersOf
  <2>2. CASE panel.runners[selected] = {}
    <3>1. r = Unset
      BY <1>2, <1>3, <2>2 DEF Routed
    <3>2. panel' = [picked EXCEPT !.executor = Unset]
      BY <1>5, <2>2 DEF ChangeRunner
    <3>3. panel' \in Panel /\ panel'.runnerName = Unset
      BY <1>2, <3>1, <3>2 DEF Panel
    <3>4. QED
      BY <3>3 DEF PickListed, PickFits
  <2>3. CASE panel.runners[selected] # {}
    <3>1. PICK e \in panel.runners[selected] : panel' = [picked EXCEPT !.executor = e]
      BY <1>5, <2>3 DEF ChangeRunner
    <3>2. e \in Executor /\ e # Unset
      BY <1>1, <2>1, <3>1, ListTyped, PagesAreTyped
    <3>3. /\ panel' \in Panel /\ panel'.runnerName = r /\ panel'.executor = e
          /\ panel'.runners = panel.runners
      BY <1>2, <3>1, <3>2 DEF Panel
    <3>4. PickListed'
      BY <1>3, <3>3 DEF PickListed, RunnersOf
    <3>5. Routed(panel', shown[page]) = selected
      BY <1>2, <3>3 DEF Routed
    <3>6. EffectiveExecutor(panel', shown[page]) = e
      BY <3>2, <3>3 DEF EffectiveExecutor
    <3>7. RetryCompatible(panel', shown[page])
      BY <3>1, <3>3, <3>5, <3>6 DEF RetryCompatible
    <3>8. QED
      BY <3>3, <3>4, <3>7 DEF PickFits
  <2>4. QED
    BY <2>2, <2>3
<1>6. QED
  BY <1>4, <1>5

\* Picking an executor takes one of the machine's.
LEMMA ChangeExecutorStep ==
  ASSUME Inv, NEW e \in Executor \cup {Unset}, ChangeExecutor(e)
  PROVE  panel' \in Panel /\ PickListed' /\ PickFits(panel', shown[page])
<1> DEFINE t == shown[page]
<1>1. panel \in Panel /\ panel # Unset
  BY PanelOpen DEF Inv, ChangeExecutor, InPanel
<1>2. panel' = [panel EXCEPT !.executor = e]
  BY DEF ChangeExecutor
<1>3. /\ panel' \in Panel /\ panel'.runners = panel.runners
      /\ panel'.runnerName = panel.runnerName /\ panel'.executor = e
  BY <1>1, <1>2 DEF Panel
<1>4. PickListed'
  BY <1>1, <1>3 DEF Inv, PickListed, RunnersOf
<1>5. EffectiveExecutor(panel', t) \in Compatible(panel, t)
  BY <1>3 DEF ChangeExecutor, EffectiveExecutor
<1>6. RetryCompatible(panel', t)
  BY <1>3, <1>5 DEF RetryCompatible, Compatible, Routed, RunnersOf
<1>7. QED
  BY <1>3, <1>4, <1>6 DEF PickFits

LEMMA RetryStep ==
  ASSUME Inv, Retry
  PROVE  /\ panel' \in Panel /\ PickListed'
         /\ calls' \subseteq Call /\ made' \in 0 .. MaxCalls
         /\ panel' = [panel EXCEPT !.pending = TRUE]
<1>1. /\ panel \in Panel /\ panel # Unset /\ page \in Task
      /\ panel.runnerName \in Runner \cup {Unset}
      /\ panel.executor \in Executor \cup {Unset}
  BY PanelOpen DEF Inv, Retry, InPanel
<1>2. panel' = [panel EXCEPT !.pending = TRUE]
  BY DEF Retry
<1>3. panel' \in Panel /\ PickListed'
  BY <1>1, <1>2 DEF Panel, Inv, PickListed, RunnersOf
<1>4. calls' \subseteq Call /\ made' \in 0 .. MaxCalls
  BY <1>1, NewCallTyped DEF Retry, Inv
<1>5. QED
  BY <1>2, <1>3, <1>4

LEMMA PanelStep ==
  ASSUME Inv,
         \/ LoadRunners \/ Retry
         \/ \E r \in Runner \cup {Unset} : ChangeRunner(r)
         \/ \E e \in Executor \cup {Unset} : ChangeExecutor(e)
  PROVE  Inv'
<1>1. InPanel
  BY DEF LoadRunners, Retry, ChangeRunner, ChangeExecutor
<1>2. panel # Unset => page # Nowhere /\ Retriable(page)
  BY DEF Inv, TypeOK
<1>3. page' = page /\ panel # Unset /\ Retriable(page)'
  BY <1>1, <1>2 DEF InPanel, Retriable, copies
<1>4. panel' \in Panel /\ PickListed'
  BY LoadRunnersStep, RetryStep, ChangeRunnerStep, ChangeExecutorStep
<1>5. calls' \subseteq Call /\ made' \in 0 .. MaxCalls
  BY RetryStep DEF LoadRunners, ChangeRunner, ChangeExecutor, Inv, TypeOK
<1>6. QED
  BY <1>1, <1>2, <1>3, <1>4, <1>5 DEF InPanel, Inv, TypeOK, server, copies, composer

-----------------------------------------------------------------------------
(* The calls.                                                              *)

LEMMA AdvanceTyped ==
  ASSUME TypeOK, NEW k \in calls, NEW phase \in {"stored", "refused"}, Advance(k, phase)
  PROVE  calls' \subseteq Call
<1>1. k \in Call
  BY DEF TypeOK
<1>2. [k EXCEPT !.phase = phase] \in Call
  BY <1>1 DEF Call
<1>3. QED
  BY <1>2 DEF Advance, TypeOK

LEMMA HandleTyped ==
  ASSUME TypeOK, NEW k \in calls, Handle(k)
  PROVE  /\ task' \in [Task -> TaskRecord]
         /\ ordered' \in [Task -> SUBSET {"push", "discard"}]
         /\ said' \in 0 .. MaxEvents
<1>1. /\ k \in Call /\ k.task \in Task /\ task[k.task] \in TaskRecord
      /\ k.kind \in {"follow-up", "approve", "reject", "retry"}
      /\ k.runner \in Runner \cup {Unset} /\ k.executor \in Executor \cup {Unset}
  BY DEF TypeOK, Call
<1>2. CASE k.kind = "follow-up"
  <2>1. Stores(1) /\ Becomes(k.task, "changes_requested", "message") /\ ordered' = ordered
    BY <1>2 DEF Handle
  <2>2. task' \in [Task -> TaskRecord]
    BY <1>1, <2>1, BecomesTyped DEF Status, Event
  <2>3. QED
    BY <2>1, <2>2, StoresTyped DEF TypeOK
<1>3. CASE k.kind = "retry"
  <2> DEFINE old == task[k.task]
             new == [status |-> "queued", events |-> Append(old.events, "requeued"),
                     runner |-> Or(k.runner, old.runner),
                     executor |-> Or(k.executor, old.executor)]
  <2>1. Stores(1) /\ task' = [task EXCEPT ![k.task] = new] /\ ordered' = ordered
    BY <1>1, <1>3 DEF Handle, TypeOK
  <2>2. Append(old.events, "requeued") \in Seq(Event \cup Talk)
    BY <1>1 DEF TaskRecord, Event
  <2>3. Or(k.runner, old.runner) \in Runner \cup {Unset}
    BY <1>1 DEF TaskRecord, Or
  <2>4. Or(k.executor, old.executor) \in Executor
    BY <1>1 DEF TaskRecord, Or
  <2>5. new \in TaskRecord
    BY <2>2, <2>3, <2>4 DEF TaskRecord, Status
  <2>6. QED
    BY <2>1, <2>5, StoresTyped DEF TypeOK
<1>4. CASE k.kind \in {"approve", "reject"}
  <2>1. /\ ordered' = [ordered EXCEPT ![k.task] =
                         @ \cup {IF k.kind = "approve" THEN "push" ELSE "discard"}]
        /\ UNCHANGED <<task, said>>
    BY <1>4 DEF Handle
  <2>2. QED
    BY <1>1, <2>1 DEF TypeOK
<1>5. QED
  BY <1>1, <1>2, <1>3, <1>4

LEMMA ServeStep ==
  ASSUME Inv, NEW k \in calls,
         (\E heard \in BOOLEAN : Serve(k, heard)) \/ Refuse(k)
  PROVE  Inv'
<1>1. calls' \subseteq Call
  BY AdvanceTyped DEF Serve, Refuse, Inv
<1>2. faults' \in 0 .. MaxFaults
  BY PagesAreTyped DEF Serve, Refuse, Accepts, Inv, TypeOK
<1>3. /\ task' \in [Task -> TaskRecord]
      /\ ordered' \in [Task -> SUBSET {"push", "discard"}]
      /\ said' \in 0 .. MaxEvents
  BY HandleTyped DEF Serve, Refuse, Inv, TypeOK, server
<1>4. QED
  BY <1>1, <1>2, <1>3
     DEF Serve, Refuse, Inv, TypeOK, PickListed, RunnersOf, Retriable, copies, composer

\* The panel after an answer.
LEMMA ReturnedPanel ==
  ASSUME Inv, NEW k \in calls, Return(k)
  PROVE  /\ \/ panel' = panel
            \/ panel # Unset /\ panel' = [panel EXCEPT !.pending = FALSE]
         /\ panel' \in Panel \cup {Unset} /\ PickListed'
         /\ panel' # Unset => page \in Task /\ Retriable(page)'
<1>1. panel \in Panel \cup {Unset} /\ page \in Task \cup {Nowhere}
  BY DEF Inv, TypeOK
<1>2. \/ panel' = panel
      \/ panel # Unset /\ panel' = [panel EXCEPT !.pending = FALSE]
  BY DEF Return
<1>3. page' = page /\ shown' = shown
  BY DEF Return
<1>4. /\ panel' \in Panel \cup {Unset} /\ (panel' # Unset => panel # Unset)
      /\ panel' # Unset =>
           panel'.runnerName = panel.runnerName /\ panel'.runners = panel.runners
  BY <1>1, <1>2 DEF Panel
<1>5. PickListed'
  BY <1>4 DEF Inv, PickListed, RunnersOf
<1>6. panel' # Unset => page \in Task /\ Retriable(page)'
  BY <1>1, <1>3, <1>4 DEF Retriable, Inv, TypeOK
<1>7. QED
  BY <1>2, <1>4, <1>5, <1>6

LEMMA ReturnStep ==
  ASSUME Inv, NEW k \in calls, Return(k)
  PROVE  Inv'
<1>1. coming' \in [Task -> TaskRecord \cup {<<>>}]
  BY InvalidateTyped DEF Return, Inv, TypeOK
<1>2. calls' \subseteq Call
  BY DEF Return, Inv, TypeOK
<1>3. /\ {text', armed'} \subseteq BOOLEAN
      /\ pending' \in {"follow-up", "approve", "reject", Unset}
  BY DEF Return, Inv, TypeOK, composer
<1>4. UNCHANGED <<server, shown, page, counts>>
  BY DEF Return
<1>5. QED
  BY <1>1, <1>2, <1>3, <1>4, ReturnedPanel, PagesAreTyped DEF Inv, TypeOK, server, counts

-----------------------------------------------------------------------------
(* The invariant.                                                          *)

LEMMA InitInv == Init => Inv
<1> SUFFICES ASSUME Init PROVE Inv
  OBVIOUS
<1>1. task \in [Task -> TaskRecord]
  BY PagesAreTyped DEF Init, TaskRecord, Status
<1>2. /\ ordered \in [Task -> SUBSET {"push", "discard"}]
      /\ shown \in [Task -> TaskRecord \cup {<<>>}]
      /\ coming \in [Task -> TaskRecord \cup {<<>>}]
  BY DEF Init
<1>3. page = Nowhere /\ panel = Unset /\ calls = {}
  BY DEF Init
<1>4. said \in 0 .. MaxEvents /\ made \in 0 .. MaxCalls /\ faults \in 0 .. MaxFaults
  BY PagesAreTyped DEF Init
<1>5. {text, armed} \subseteq BOOLEAN /\ pending = Unset
  BY DEF Init
<1>6. QED
  BY <1>1, <1>2, <1>3, <1>4, <1>5 DEF Inv, TypeOK, PickListed

LEMMA InvStep == Inv /\ [Next]_vars => Inv'
<1> SUFFICES ASSUME Inv, [Next]_vars PROVE Inv'
  OBVIOUS
<1>1. CASE \E t \in Task : Report(t) \/ Says(t) \/ Obeys(t)
  <2>1. TypeOK' /\ panel' = panel
    BY <1>1, ServerStep DEF Inv, Report, Says, Obeys
  <2>2. QED
    BY <2>1 DEF Inv, PickListed, RunnersOf
<1>2. CASE \/ Poll \/ Leave
           \/ \E t \in Task : Reload(t) \/ Read(t) \/ Land(t) \/ LoadFails(t) \/ Open(t)
  BY <1>2, PageStep, LoaderStep, LandStep
<1>3. CASE Type \/ SendFollowUp \/ Approve \/ Reject \/ Disarm
  BY <1>3, ComposerStep
<1>4. CASE \/ LoadRunners \/ Retry
           \/ \E r \in Runner \cup {Unset} : ChangeRunner(r)
           \/ \E e \in Executor \cup {Unset} : ChangeExecutor(e)
  BY <1>4, PanelStep
<1>5. CASE \E k \in calls : (\E heard \in BOOLEAN : Serve(k, heard)) \/ Refuse(k)
  BY <1>5, ServeStep
<1>6. CASE \E k \in calls : Return(k)
  BY <1>6, ReturnStep
<1>7. CASE UNCHANGED vars
  BY <1>7 DEF vars, Inv, TypeOK, PickListed, RunnersOf, Retriable
<1>8. QED
  BY <1>1, <1>2, <1>3, <1>4, <1>5, <1>6, <1>7 DEF Next

LEMMA InvHolds == Spec => []Inv
BY InitInv, InvStep, PTL DEF Spec

\* The tasks, the copies the page shows, its box, its panel and its calls keep
\* their types; the panel is there only for a task that can be retried.
THEOREM TaskPageTyped == Spec => []TypeOK
<1>1. Inv => TypeOK
  BY DEF Inv
<1>2. QED
  BY <1>1, InvHolds, PTL

-----------------------------------------------------------------------------
(* The pick.                                                               *)

\* q picks what p does, or no machine.
SamePick(p, q) ==
  \/ q = Unset \/ q.runnerName = Unset
  \/ /\ p # Unset /\ q.runnerName = p.runnerName
     /\ q.executor = p.executor /\ q.runners = p.runners

LEMMA SamePickFits ==
  ASSUME NEW p, NEW q, NEW t, NEW u,
         SamePick(p, q), PickFits(p, t), t.executor = u.executor
  PROVE  PickFits(q, u)
BY DEF SamePick, PickFits, RetryCompatible, Routed, EffectiveExecutor, RunnersOf

\* What a person picks and the copy under it, whoever moved.
LEMMA PickStep ==
  ASSUME Inv, Next, page' = page, page # Nowhere, PickFits(panel, shown[page]),
         shown[page].executor = shown'[page].executor
  PROVE  PickFits(panel', shown'[page])
<1>1. panel \in Panel \cup {Unset} /\ page \in Task
  BY DEF Inv, TypeOK
<1>2. ASSUME SamePick(panel, panel') PROVE PickFits(panel', shown'[page])
  BY <1>2, SamePickFits
<1>3. CASE panel' = panel
  BY <1>2, <1>3 DEF SamePick
<1>4. CASE \E t \in Task : Land(t) \/ LoadFails(t)
  <2>1. panel' = Panels(page, TRUE)
    BY <1>4 DEF Land, LoadFails
  <2>2. panel' \in {panel, Fresh, Unset}
    BY <1>1, <2>1, PanelsTyped
  <2>3. QED
    BY <1>2, <2>2, FreshTyped DEF SamePick
<1>5. CASE \E k \in calls : Return(k)
  <2>1. PICK k \in calls : Return(k)
    BY <1>5
  <2>2. \/ panel' = panel
        \/ panel # Unset /\ panel' = [panel EXCEPT !.pending = FALSE]
    BY <2>1, ReturnedPanel
  <2>3. CASE panel' = [panel EXCEPT !.pending = FALSE] /\ panel # Unset
    BY <1>1, <1>2, <2>3 DEF SamePick, Panel
  <2>4. QED
    BY <1>3, <2>2, <2>3
<1>6. CASE Leave \/ \E t \in Task : Open(t)
  BY <1>1, <1>6 DEF Leave, Open
<1>7. CASE LoadRunners
  BY <1>2, <1>7, LoadRunnersStep DEF SamePick
<1>8. CASE \E r \in Runner \cup {Unset} : ChangeRunner(r)
  <2>1. PickFits(panel', shown[page]) /\ shown' = shown
    BY <1>8, ChangeRunnerStep DEF ChangeRunner, InPanel, copies
  <2>2. QED
    BY <2>1
<1>9. CASE \E e \in Executor \cup {Unset} : ChangeExecutor(e)
  <2>1. PickFits(panel', shown[page]) /\ shown' = shown
    BY <1>9, ChangeExecutorStep DEF ChangeExecutor, InPanel, copies
  <2>2. QED
    BY <2>1
<1>10. CASE Retry
  <2>1. panel \in Panel /\ panel' = [panel EXCEPT !.pending = TRUE] /\ panel # Unset
    BY <1>10, PanelOpen, RetryStep DEF Retry, InPanel, Inv
  <2>2. QED
    BY <1>2, <2>1 DEF SamePick, Panel
<1>11. QED
  <2>1. CASE \E t \in Task : Report(t) \/ Says(t) \/ Obeys(t)
    BY <1>3, <2>1 DEF Report, Says, Obeys
  <2>2. CASE Type \/ SendFollowUp \/ Approve \/ Reject \/ Disarm
    BY <1>3, <2>2 DEF Type, SendFollowUp, Approve, Reject, Disarm, Run
  <2>3. CASE \E k \in calls : (\E heard \in BOOLEAN : Serve(k, heard)) \/ Refuse(k)
    BY <1>3, <2>3 DEF Serve, Refuse
  <2>4. CASE Poll \/ \E t \in Task : Reload(t) \/ Read(t)
    BY <1>3, <2>4 DEF Poll, Reload, Read
  <2>5. QED
    BY <1>4, <1>5, <1>6, <1>7, <1>8, <1>9, <1>10, <2>1, <2>2, <2>3, <2>4 DEF Next

\* However machine and executor are picked, and whatever copies of the task arrive
\* meanwhile, a machine picked for a retry can run the task, unless another
\* executor was given to the task from elsewhere.
THEOREM MachinesPickedFit == Spec => PickedMachineCanRun
<1> DEFINE Fits ==
       page = page' /\ page # Nowhere /\ PickFits(panel, shown[page]) =>
         PickFits(panel, shown[page])' \/ shown[page].executor # shown'[page].executor
<1>1. Inv /\ [Next]_vars => [Fits]_vars
  <2>1. ASSUME Inv, Next, page = page', page # Nowhere, PickFits(panel, shown[page]),
               ~(shown[page].executor # shown'[page].executor)
        PROVE  PickFits(panel, shown[page])'
    BY <2>1, PickStep
  <2>2. QED
    BY <2>1
<1>2. QED
  BY <1>1, InvHolds, PTL DEF Spec, PickedMachineCanRun

-----------------------------------------------------------------------------
(* Loops.                                                                  *)

\* A set of numbers has a least one.
LEMMA LeastNumber ==
  ASSUME NEW S \in SUBSET Nat, S # {}
  PROVE  \E n \in S : \A m \in S : n <= m
<1> DEFINE R == OpToRel(<, Nat)
<1>1. IsWellFoundedOn(R, Nat)
  BY NatLessThanWellFounded
<1>2. \A m, n \in Nat : <<m, n>> \in R <=> m < n
  BY Zenon DEF OpToRel
<1> HIDE DEF R
<1>3. PICK n \in S : \A m \in S : ~ (<<m, n>> \in R)
  BY <1>1, WFMin
<1>4. \A m \in S : ~(m < n)
  BY <1>2, <1>3
<1>5. \A m \in S : n <= m
  BY <1>4
<1> QED
  BY <1>5

\* Induction up to a bound, for a set.
LEMMA CountingTo ==
  ASSUME NEW n \in Nat, NEW P, 0 \in P, \A k \in 1 .. n : k - 1 \in P => k \in P
  PROVE  \A k \in 0 .. n : k \in P
<1> DEFINE Q == {k \in 0 .. n : k \notin P}
<1> SUFFICES ASSUME Q # {} PROVE FALSE
  OBVIOUS
<1>1. PICK k \in Q : \A m \in Q : k <= m
  <2>1. Q \in SUBSET Nat
    OBVIOUS
  <2> HIDE DEF Q
  <2> QED
    BY <2>1, LeastNumber
<1>2. k \in 1 .. n /\ k - 1 \in 0 .. n /\ k - 1 \in P
  BY <1>1
<1> QED
  BY <1>1, <1>2

\* A walk: from v, one step of H for each of n numbers.
IsWalk(f, n, v, H) == f = [k \in 0 .. n |-> IF k = 0 THEN v ELSE H[k][f[k - 1]]]

\* A loop whose rounds stay in V has its values in V.
LEMMA Walks ==
  ASSUME NEW n \in Nat, NEW V, NEW v \in V, NEW H \in [1 .. n -> [V -> V]]
  PROVE  \E f \in [0 .. n -> V] : IsWalk(f, n, v, H)
<1> DEFINE P == {m \in 0 .. n : \E f \in [0 .. m -> V] : IsWalk(f, m, v, H)}
<1>1. 0 \in P
  <2> DEFINE f == [k \in 0 .. 0 |-> v]
  <2>1. f \in [0 .. 0 -> V]
    OBVIOUS
  <2>2. \A k \in 0 .. 0 : k = 0
    OBVIOUS
  <2>3. f = [k \in 0 .. 0 |-> IF k = 0 THEN v ELSE H[k][f[k - 1]]]
    BY <2>2
  <2> HIDE DEF f
  <2> QED
    BY <2>1, <2>3 DEF IsWalk
<1>2. ASSUME NEW m \in 1 .. n, m - 1 \in P PROVE m \in P
  <2>1. PICK f \in [0 .. m - 1 -> V] : IsWalk(f, m - 1, v, H)
    BY <1>2
  <2> DEFINE g == [k \in 0 .. m |-> IF k = m THEN H[m][f[m - 1]] ELSE f[k]]
  <2>2. H[m][f[m - 1]] \in V
    BY <2>1
  <2>3. g \in [0 .. m -> V]
    BY <2>1, <2>2
  <2>4. \A k \in 0 .. m : g[k] = IF k = m THEN H[m][f[m - 1]] ELSE f[k]
    OBVIOUS
  <2>5. \A k \in 0 .. m - 1 : f[k] = IF k = 0 THEN v ELSE H[k][f[k - 1]]
    BY <2>1 DEF IsWalk
  <2> HIDE DEF g
  <2>6. ASSUME NEW k \in 0 .. m PROVE g[k] = IF k = 0 THEN v ELSE H[k][g[k - 1]]
    <3>1. CASE k = 0
      BY <3>1, <2>4, <2>5
    <3>2. CASE k # 0 /\ k # m
      <4>1. k \in 0 .. m - 1 /\ k - 1 \in 0 .. m /\ k - 1 # m
        BY <3>2
      <4>2. g[k] = f[k] /\ g[k - 1] = f[k - 1]
        BY <4>1, <2>4, <3>2
      <4> QED
        BY <4>1, <4>2, <2>5, <3>2
    <3>3. CASE k = m
      <4>1. k - 1 \in 0 .. m /\ k - 1 # m /\ k # 0
        BY <3>3
      <4> QED
        BY <4>1, <2>4, <3>3
    <3> QED
      BY <3>1, <3>2, <3>3
  <2>7. g = [k \in 0 .. m |-> IF k = 0 THEN v ELSE H[k][g[k - 1]]]
    <3>1. g = [k \in 0 .. m |-> g[k]]
      BY <2>3
    <3> QED
      BY <3>1, <2>6
  <2>8. IsWalk(g, m, v, H)
    BY <2>7 DEF IsWalk
  <2>9. \E h \in [0 .. m -> V] : IsWalk(h, m, v, H)
    BY <2>3, <2>8
  <2> QED
    BY <2>9
<1>3. \A k \in 0 .. n : k \in P
  <2> HIDE DEF P
  <2> QED
    BY <1>1, <1>2, CountingTo
<1> QED
  BY <1>3

-----------------------------------------------------------------------------
(* Flattening.                                                             *)

Words == Seq(Seq(Nat))

\* What FlattenSeq is, step by step.
IsFlat(f, s) ==
  /\ f \in [1 .. Len(s) -> Seq(Nat)]
  /\ \A i \in 1 .. Len(s) : f[i] = IF i = 1 THEN s[i] ELSE f[i - 1] \o s[i]

LEMMA FlattenWalk ==
  ASSUME NEW s \in Words, s # <<>>
  PROVE  \E f : IsFlat(f, s) /\ FlattenSeq(s) = f[Len(s)]
<1> DEFINE n == Len(s)
           V == Seq(Nat)
           H == [k \in 1 .. n |-> [x \in V |-> x \o s[k]]]
<1>1. n \in Nat /\ n # 0 /\ \A k \in 1 .. n : s[k] \in V
  BY DEF Words
<1>2. H \in [1 .. n -> [V -> V]]
  BY <1>1
<1>3. \A k \in 1 .. n, x \in V : H[k][x] = x \o s[k]
  OBVIOUS
<1>4. <<>> \in V
  OBVIOUS
<1> HIDE DEF n, H, V
<1>5. PICK w \in [0 .. n -> V] : IsWalk(w, n, <<>>, H)
  BY <1>1, <1>2, <1>4, Walks
<1> DEFINE f == [i \in 1 .. n |-> w[i]]
<1>6. f \in [1 .. n -> V]
  BY <1>5
<1>7. ASSUME NEW i \in 1 .. n PROVE f[i] = IF i = 1 THEN s[i] ELSE f[i - 1] \o s[i]
  <2>1. i \in 0 .. n /\ i # 0 /\ i - 1 \in 0 .. n /\ (i # 1 => i - 1 \in 1 .. n)
    BY <1>1
  <2>2. w[i] = w[i - 1] \o s[i]
    BY <2>1, <1>5, <1>3 DEF IsWalk
  <2>3. CASE i = 1
    <3>1. w[0] = <<>>
      BY <1>5, <1>1 DEF IsWalk
    <3>2. s[1] \in Seq(Nat)
      BY <1>1, <2>3 DEF V
    <3>3. <<>> \o s[1] = s[1]
      BY <3>2
    <3>4. w[1] = w[1 - 1] \o s[1]
      BY <2>2, <2>3
    <3>5. w[1] = <<>> \o s[1]
      <4>1. 1 - 1 = 0
        OBVIOUS
      <4> QED
        BY <3>4, <3>1, <4>1
    <3> QED
      BY <2>3, <3>3, <3>5
  <2>4. CASE i # 1
    BY <2>1, <2>2, <2>4
  <2> QED
    BY <2>3, <2>4
<1> HIDE DEF f
<1>8. f = [i \in 1 .. n |-> IF i = 1 THEN s[i] ELSE f[i - 1] \o s[i]]
  <2>1. f = [i \in 1 .. n |-> f[i]]
    BY <1>6
  <2> QED
    BY <2>1, <1>7
<1> DEFINE g == CHOOSE h : h = [i \in 1 .. n |-> IF i = 1 THEN s[i] ELSE h[i - 1] \o s[i]]
<1>9. g = [i \in 1 .. n |-> IF i = 1 THEN s[i] ELSE g[i - 1] \o s[i]]
  BY <1>8
<1>10. FlattenSeq(s) = g[n]
  BY <1>1 DEF FlattenSeq, n
<1> HIDE DEF g
<1>11. \A i \in 1 .. n : g[i] = IF i = 1 THEN s[i] ELSE g[i - 1] \o s[i]
  BY <1>9
<1> DEFINE P == {i \in 0 .. n : i = 0 \/ g[i] \in V}
<1>12. 0 \in P
  BY <1>1
<1>13. ASSUME NEW i \in 1 .. n, i - 1 \in P PROVE i \in P
  <2>1. i \in 0 .. n /\ (i # 1 => i - 1 # 0)
    BY <1>1
  <2>2. CASE i = 1
    BY <2>2, <1>11, <1>1, <2>1
  <2>3. CASE i # 1
    <3>1. g[i] = g[i - 1] \o s[i]
      BY <2>3, <1>11
    <3>2. g[i - 1] \in V /\ s[i] \in V
      BY <1>13, <2>1, <2>3, <1>1
    <3>3. g[i - 1] \o s[i] \in V
      BY <3>2 DEF V
    <3> QED
      BY <3>1, <3>3, <2>1
  <2> QED
    BY <2>2, <2>3
<1>14. \A i \in 0 .. n : i \in P
  <2> HIDE DEF P
  <2> QED
    BY <1>1, <1>12, <1>13, CountingTo
<1>15. \A i \in 1 .. n : g[i] \in V
  BY <1>14, <1>1
<1>16. g \in [1 .. n -> V]
  <2>1. g = [i \in 1 .. n |-> g[i]]
    <3>1. DOMAIN g = 1 .. n
      BY <1>9
    <3> QED
      BY <1>9, <3>1
  <2> QED
    BY <2>1, <1>15
<1> QED
  BY <1>10, <1>11, <1>16 DEF IsFlat, n, V


LEMMA FlattenType ==
  ASSUME NEW s \in Words
  PROVE  FlattenSeq(s) \in Seq(Nat)
<1>1. CASE s = <<>>
  BY <1>1 DEF FlattenSeq
<1>2. CASE s # <<>>
  <2>1. PICK f : IsFlat(f, s) /\ FlattenSeq(s) = f[Len(s)]
    BY <1>2, FlattenWalk
  <2>2. Len(s) \in 1 .. Len(s)
    BY <1>2 DEF Words
  <2> QED
    BY <2>1, <2>2 DEF IsFlat
<1> QED
  BY <1>1, <1>2

\* One more word is flattened behind the others.
LEMMA FlattenAppend ==
  ASSUME NEW s \in Words, NEW x \in Seq(Nat)
  PROVE  FlattenSeq(Append(s, x)) = FlattenSeq(s) \o x
<1> DEFINE n == Len(s)
           u == Append(s, x)
<1>1. n \in Nat /\ u \in Words /\ Len(u) = n + 1 /\ u # <<>> /\ u[n + 1] = x
      /\ \A i \in 1 .. n : u[i] = s[i]
  BY AppendProperties, LenProperties DEF Words
<1> HIDE DEF u
<1>2. PICK g : IsFlat(g, u) /\ FlattenSeq(u) = g[n + 1]
  BY <1>1, FlattenWalk
<1>3. CASE s = <<>>
  <2>1. n = 0 /\ FlattenSeq(s) = <<>> /\ 1 \in 1 .. Len(u)
    BY <1>3, <1>1 DEF FlattenSeq
  <2>2. g[1] = x
    BY <2>1, <1>1, <1>2 DEF IsFlat
  <2>3. <<>> \o x = x
    OBVIOUS
  <2> QED
    BY <2>1, <2>2, <2>3, <1>2 DEF u
<1>4. CASE s # <<>>
  <2>1. PICK f : IsFlat(f, s) /\ FlattenSeq(s) = f[n]
    BY <1>4, FlattenWalk
  <2> DEFINE P == {i \in 0 .. n : i = 0 \/ g[i] = f[i]}
  <2>2. 0 \in P
    BY <1>1
  <2>3. ASSUME NEW i \in 1 .. n, i - 1 \in P PROVE i \in P
    <3>1. i \in 0 .. n /\ i \in 1 .. Len(u) /\ u[i] = s[i] /\ (i # 1 => i - 1 # 0)
      BY <1>1
    <3>2. g[i] = IF i = 1 THEN u[i] ELSE g[i - 1] \o u[i]
      BY <3>1, <1>2 DEF IsFlat
    <3>3. f[i] = IF i = 1 THEN s[i] ELSE f[i - 1] \o s[i]
      BY <2>1 DEF IsFlat
    <3>4. g[i] = f[i]
      <4>1. CASE i = 1
        BY <4>1, <3>1, <3>2, <3>3
      <4>2. CASE i # 1
        <5>1. g[i - 1] = f[i - 1]
          BY <4>2, <2>3, <3>1
        <5> QED
          BY <4>2, <5>1, <3>1, <3>2, <3>3
      <4> QED
        BY <4>1, <4>2
    <3> QED
      BY <3>1, <3>4
  <2>4. \A i \in 0 .. n : i \in P
    <3> HIDE DEF P
    <3> QED
      BY <1>1, <2>2, <2>3, CountingTo
  <2>5. n # 0 /\ n \in 0 .. n /\ n + 1 \in 1 .. Len(u) /\ n + 1 # 1 /\ (n + 1) - 1 = n
    BY <1>1, <1>4 DEF Words
  <2>6. g[n] = f[n]
    BY <2>4, <2>5
  <2>7. g[n + 1] = g[(n + 1) - 1] \o u[n + 1]
    BY <1>2, <2>5 DEF IsFlat
  <2> QED
    BY <1>1, <1>2, <2>1, <2>5, <2>6, <2>7 DEF u
<1> QED
  BY <1>3, <1>4

\* A list that is not empty is its front and its last.
LEMMA FrontAndLast ==
  ASSUME NEW S, NEW a \in Seq(S), a # <<>>
  PROVE  \E b \in Seq(S) : \E x \in S : a = Append(b, x) /\ x = a[Len(a)] /\ Len(b) + 1 = Len(a)
<1> DEFINE n == Len(a)
           b == SubSeq(a, 1, n - 1)
<1>1. n \in Nat /\ n >= 1 /\ a[n] \in S
  OBVIOUS
<1>2. b \in Seq(S) /\ Len(b) = n - 1 /\ \A i \in 1 .. n - 1 : b[i] = a[i]
  <2>1. \A i \in 1 .. n - 1 : a[i] \in S
    BY <1>1
  <2>2. Len(b) = n - 1
    <3>1. Len(b) = IF 1 <= n - 1 THEN (n - 1) - 1 + 1 ELSE 0
      BY <1>1, <2>1, SubSeqProperties
    <3> HIDE DEF b, n
    <3> QED
      BY <1>1, <3>1
  <2>3. b \in Seq(S)
    BY <1>1, <2>1, SubSeqProperties
  <2>4. \A i \in 1 .. (n - 1) - 1 + 1 : b[i] = a[1 + i - 1]
    BY <1>1, <2>1, SubSeqProperties
  <2>5. \A i \in 1 .. n - 1 : i \in 1 .. (n - 1) - 1 + 1 /\ 1 + i - 1 = i
    BY <1>1
  <2> QED
    BY <2>2, <2>3, <2>4, <2>5
<1> HIDE DEF b
<1>3. Append(b, a[n]) = a
  <2> DEFINE c == Append(b, a[n])
  <2>1. c \in Seq(S) /\ Len(c) = n
    BY <1>1, <1>2
  <2>2. \A i \in 1 .. n : c[i] = a[i]
    BY <1>1, <1>2
  <2> HIDE DEF c
  <2>3. c = a
    BY <2>1, <2>2, SeqEqual
  <2> QED
    BY <2>3 DEF c
<1> QED
  BY <1>1, <1>2, <1>3

-----------------------------------------------------------------------------
(* Items and activities.                                                   *)

Kinds == {"user", "agent", "tool", "output", "marker", "activity"}
Items == [kind : Kinds, parts : {<<p>> : p \in Seq(Nat)}]
Groups == [kind : Kinds, parts : Words]

\* A list grows by an item, or its last item changes.
Adds(a, b, x) == b = Append(a, x)
Swaps(a, b, x) == a # <<>> /\ b = [a EXCEPT ![Len(a)] = x]

LEMMA SingleWord ==
  ASSUME NEW p \in Seq(Nat)
  PROVE  <<p>> \in Words /\ FlattenSeq(<<p>>) = p
<1>1. <<>> \in Words /\ Append(<<>>, p) = <<p>>
  BY DEF Words
<1>2. FlattenSeq(<<>>) = <<>>
  BY DEF FlattenSeq
<1>3. FlattenSeq(<<p>>) = <<>> \o p
  BY <1>1, <1>2, FlattenAppend
<1>4. <<>> \o p = p
  OBVIOUS
<1>5. Append(<<>>, p) \in Words
  BY <1>1, AppendProperties DEF Words
<1> QED
  BY <1>1, <1>3, <1>4, <1>5

LEMMA ItemsAreGroups ==
  ASSUME NEW x \in Items
  PROVE  /\ x \in Groups /\ x.kind \in Kinds
         /\ \E p \in Seq(Nat) : x.parts = <<p>> /\ FlattenSeq(x.parts) = p
<1>1. PICK p \in Seq(Nat) : x.parts = <<p>>
  BY DEF Items
<1>2. <<p>> \in Words /\ FlattenSeq(<<p>>) = p
  BY SingleWord
<1>3. x = [kind |-> x.kind, parts |-> x.parts] /\ x.kind \in Kinds
  BY DEF Items
<1>4. x \in Groups
  <2>1. x.parts \in Words
    BY <1>1, <1>2
  <2> QED
    BY <1>3, <2>1 DEF Groups
<1> QED
  BY <1>1, <1>2, <1>3, <1>4

\* An event's item holds it alone.
LEMMA ItemIs ==
  ASSUME NEW kind \in Kinds, NEW i \in Nat
  PROVE  Item(kind, i) \in Items /\ FlattenSeq(Item(kind, i).parts) = <<i>>
<1>1. <<i>> \in Seq(Nat)
  OBVIOUS
<1>2. Item(kind, i) = [kind |-> kind, parts |-> <<<<i>>>>]
  BY DEF Item
<1>3. FlattenSeq(<<<<i>>>>) = <<i>>
  BY <1>1, SingleWord
<1>4. <<<<i>>>> \in {<<p>> : p \in Seq(Nat)}
  BY <1>1
<1> QED
  BY <1>2, <1>3, <1>4 DEF Items

\* An event gets an item of its own, or goes behind those of the last item.
LEMMA AddItemIs ==
  ASSUME NEW a \in Seq(Items), NEW kind \in Kinds, NEW i \in Nat
  PROVE  \E x \in Items :
           \/ Adds(a, AddItem(a, kind, i), x) /\ FlattenSeq(x.parts) = <<i>>
           \/ /\ Swaps(a, AddItem(a, kind, i), x) /\ x.kind = a[Len(a)].kind
              /\ FlattenSeq(x.parts) = FlattenSeq(a[Len(a)].parts) \o <<i>>
<1>1. CASE kind = "output" /\ a # <<>> /\ Last(a).kind \in {"tool", "output"}
  <2> DEFINE n == Len(a)
             old == a[n]
  <2>1. n \in 1 .. Len(a) /\ old \in Items
    BY <1>1
  <2>2. PICK p \in Seq(Nat) : old.parts = <<p>> /\ FlattenSeq(old.parts) = p
    BY <2>1, ItemsAreGroups
  <2> DEFINE q == Append(p, i)
             x == [kind |-> old.kind, parts |-> <<q>>]
  <2>3. q \in Seq(Nat) /\ q = p \o <<i>>
    OBVIOUS
  <2>4. FlattenSeq(<<q>>) = q
    BY <2>3, SingleWord
  <2>5. old = [kind |-> old.kind, parts |-> <<p>>] /\ old.kind \in Kinds
    BY <2>1, <2>2 DEF Items
  <2>6. AddItem(a, kind, i) = [a EXCEPT ![n].parts = <<Append(@[1], i)>>]
    BY <1>1 DEF AddItem
  <2>7. [a EXCEPT ![n].parts = <<Append(@[1], i)>>] = [a EXCEPT ![n] = x]
    <3>1. [old EXCEPT !.parts = <<Append(@[1], i)>>] = x
      <4>1. old.parts[1] = p
        BY <2>2
      <4>2. [old EXCEPT !.parts = <<Append(@[1], i)>>] = [old EXCEPT !.parts = <<q>>]
        BY <4>1
      <4> HIDE DEF old, q
      <4>3. [old EXCEPT !.parts = <<q>>] = x
        BY <2>5
      <4> QED
        BY <4>2, <4>3
    <3> QED
      BY <3>1
  <2>8. x \in Items
    <3> HIDE DEF old, q
    <3> QED
      BY <2>3, <2>5 DEF Items
  <2> HIDE DEF old, q
  <2> QED
    BY <1>1, <2>2, <2>3, <2>4, <2>6, <2>7, <2>8 DEF Swaps, old
<1>2. CASE ~(kind = "output" /\ a # <<>> /\ Last(a).kind \in {"tool", "output"})
  <2>1. AddItem(a, kind, i) = Append(a, Item(kind, i))
    BY <1>2 DEF AddItem
  <2> QED
    BY <2>1, ItemIs DEF Adds
<1> QED
  BY <1>1, <1>2

\* An item becomes a group, or a tool joins the tools before it.
LEMMA AddGroupedIs ==
  ASSUME NEW a \in Seq(Groups), NEW item \in Items
  PROVE  \E x \in Groups :
           \/ Adds(a, AddGrouped(a, item), x) /\ FlattenSeq(x.parts) = FlattenSeq(item.parts)
           \/ /\ Swaps(a, AddGrouped(a, item), x)
              /\ FlattenSeq(x.parts) = FlattenSeq(a[Len(a)].parts) \o FlattenSeq(item.parts)
<1>0. item \in Groups
  BY ItemsAreGroups
<1>1. CASE item.kind = "tool" /\ a # <<>> /\ Last(a).kind \in {"tool", "activity"}
  <2> DEFINE n == Len(a)
             old == a[n]
  <2>1. n \in 1 .. Len(a) /\ old \in Groups
    BY <1>1
  <2>2. PICK p \in Seq(Nat) : item.parts = <<p>> /\ FlattenSeq(item.parts) = p
    BY ItemsAreGroups
  <2> DEFINE all == old.parts \o item.parts
             x == [kind |-> "activity", parts |-> all]
  <2>3. old.parts \in Words
    BY <2>1 DEF Groups
  <2>4. all = Append(old.parts, p) /\ all \in Words
    BY <2>2, <2>3, AppendProperties, AppendIsConcat DEF Words
  <2>5. FlattenSeq(all) = FlattenSeq(old.parts) \o p
    BY <2>3, <2>4, FlattenAppend
  <2>6. AddGrouped(a, item) = [a EXCEPT ![n] = x]
    BY <1>1 DEF AddGrouped
  <2>7. x \in Groups
    <3> HIDE DEF all
    <3> QED
      BY <2>4 DEF Groups, Kinds
  <2> HIDE DEF all, old
  <2> QED
    BY <1>1, <2>2, <2>5, <2>6, <2>7 DEF Swaps, old
<1>2. CASE ~(item.kind = "tool" /\ a # <<>> /\ Last(a).kind \in {"tool", "activity"})
  <2>1. AddGrouped(a, item) = Append(a, item)
    BY <1>2 DEF AddGrouped
  <2> QED
    BY <2>1, <1>0 DEF Adds
<1> QED
  BY <1>1, <1>2

\* What a list holds, flattened: one more group, or more in the last.
LEMMA WordsOf ==
  ASSUME NEW a \in Seq(Groups)
  PROVE  /\ [n \in 1 .. Len(a) |-> FlattenSeq(a[n].parts)] \in Words
         /\ Flattened(a) \in Seq(Nat)
<1>1. \A n \in 1 .. Len(a) : FlattenSeq(a[n].parts) \in Seq(Nat)
  <2> SUFFICES ASSUME NEW n \in 1 .. Len(a) PROVE FlattenSeq(a[n].parts) \in Seq(Nat)
    OBVIOUS
  <2>1. a[n] \in Groups
    BY ElementOfSeq
  <2>2. a[n].parts \in Words
    BY <2>1 DEF Groups
  <2> QED
    BY <2>2, FlattenType
<1>2. Len(a) \in Nat
  OBVIOUS
<1>3. [n \in 1 .. Len(a) |-> FlattenSeq(a[n].parts)] \in Words
  BY <1>1, <1>2 DEF Words
<1> QED
  BY <1>3, FlattenType DEF Flattened

LEMMA FlattenedAdds ==
  ASSUME NEW a \in Seq(Groups), NEW x \in Groups
  PROVE  Flattened(Append(a, x)) = Flattened(a) \o FlattenSeq(x.parts)
<1> DEFINE w(s) == [n \in 1 .. Len(s) |-> FlattenSeq(s[n].parts)]
           b == Append(a, x)
           y == FlattenSeq(x.parts)
<1>1. b \in Seq(Groups) /\ Len(a) \in Nat /\ Len(b) = Len(a) + 1 /\ b[Len(a) + 1] = x
      /\ \A n \in 1 .. Len(a) : b[n] = a[n]
  BY AppendProperties, LenProperties
<1>2. y \in Seq(Nat)
  BY FlattenType DEF Groups
<1>3. w(a) \in Words /\ w(b) \in Words
  BY <1>1, WordsOf
<1>4. Len(w(a)) = Len(a) /\ Len(w(b)) = Len(b)
  BY <1>1
<1>5. \A n \in 1 .. Len(a) : w(a)[n] = FlattenSeq(a[n].parts)
  OBVIOUS
<1>6. \A n \in 1 .. Len(b) : w(b)[n] = FlattenSeq(b[n].parts)
  OBVIOUS
<1>7. Flattened(a) = FlattenSeq(w(a)) /\ Flattened(b) = FlattenSeq(w(b))
  BY DEF Flattened
<1> DEFINE wa == w(a)
           wb == w(b)
<1>8. wb[Len(a) + 1] = y
  BY <1>1, <1>6
<1>9. \A n \in 1 .. Len(a) : wb[n] = wa[n]
  BY <1>1, <1>5, <1>6
<1>10. wa \in Words /\ wb \in Words /\ Len(wa) = Len(a) /\ Len(wb) = Len(a) + 1
  BY <1>1, <1>3, <1>4
<1>11. Flattened(a) = FlattenSeq(wa) /\ Flattened(b) = FlattenSeq(wb)
  BY <1>7
<1> HIDE DEF wa, wb, y
<1>12. wb = Append(wa, y)
  <2> DEFINE c == Append(wa, y)
  <2>1. c \in Words /\ Len(c) = Len(a) + 1 /\ c[Len(a) + 1] = y
        /\ \A n \in 1 .. Len(a) : c[n] = wa[n]
    BY <1>2, <1>10, AppendProperties DEF Words
  <2> HIDE DEF c
  <2>2. \A n \in 1 .. Len(wb) : wb[n] = c[n]
    BY <1>1, <1>8, <1>9, <1>10, <2>1
  <2>3. wb = c
    BY <1>10, <2>1, <2>2, SeqEqual DEF Words
  <2> QED
    BY <2>3 DEF c
<1>13. FlattenSeq(wb) = FlattenSeq(wa) \o y
  BY <1>2, <1>10, <1>12, FlattenAppend
<1> QED
  BY <1>11, <1>13 DEF y

LEMMA ConcatThree ==
  ASSUME NEW s \in Seq(Nat), NEW t \in Seq(Nat), NEW u \in Seq(Nat)
  PROVE  (s \o t) \o u = s \o (t \o u)
  OBVIOUS

LEMMA FlattenedSwaps ==
  ASSUME NEW a \in Seq(Groups), NEW x \in Groups, NEW b, Swaps(a, b, x), NEW y \in Seq(Nat),
         FlattenSeq(x.parts) = FlattenSeq(a[Len(a)].parts) \o y
  PROVE  Flattened(b) = Flattened(a) \o y
<1>1. a # <<>>
  BY DEF Swaps
<1>2. PICK front \in Seq(Groups) : \E last \in Groups :
        a = Append(front, last) /\ last = a[Len(a)] /\ Len(front) + 1 = Len(a)
  BY <1>1, FrontAndLast
<1>3. PICK last \in Groups :
        a = Append(front, last) /\ last = a[Len(a)] /\ Len(front) + 1 = Len(a)
  BY <1>2
<1>4. b = Append(front, x)
  <2>1. b \in Seq(Groups) /\ Len(b) = Len(a)
        /\ \A n \in 1 .. Len(a) : b[n] = IF n = Len(a) THEN x ELSE a[n]
    <3>1. Len(a) \in 1 .. Len(a)
      BY <1>1
    <3> QED
      BY <3>1, ExceptSeq DEF Swaps
  <2> DEFINE c == Append(front, x)
  <2>2. c \in Seq(Groups) /\ Len(c) = Len(a) /\ Len(front) \in Nat /\ c[Len(front) + 1] = x
        /\ \A n \in 1 .. Len(front) : c[n] = front[n]
    BY <1>3, AppendProperties, LenProperties
  <2>3. \A n \in 1 .. Len(front) : a[n] = front[n]
    BY <1>3, AppendProperties
  <2> HIDE DEF c
  <2>4. ASSUME NEW n \in 1 .. Len(b) PROVE b[n] = c[n]
    <3>1. CASE n = Len(a)
      BY <3>1, <2>1, <2>2, <1>3
    <3>2. CASE n # Len(a)
      <4>1. n \in 1 .. Len(front) /\ n \in 1 .. Len(a)
        BY <3>2, <2>1, <2>2, <1>3
      <4> QED
        BY <3>2, <4>1, <2>1, <2>2, <2>3
    <3> QED
      BY <3>1, <3>2
  <2>5. b = c
    BY <2>1, <2>2, <2>4, SeqEqual
  <2> QED
    BY <2>5 DEF c
<1> DEFINE f == Flattened(front)
           z == FlattenSeq(last.parts)
<1>5. f \in Seq(Nat) /\ z \in Seq(Nat)
  BY WordsOf, FlattenType DEF Groups
<1>6. Flattened(a) = f \o z
  BY <1>3, FlattenedAdds
<1>7. Flattened(b) = f \o FlattenSeq(x.parts)
  BY <1>4, FlattenedAdds
<1>8. FlattenSeq(x.parts) = z \o y
  BY <1>3
<1> HIDE DEF f, z
<1>9. f \o (z \o y) = (f \o z) \o y
  BY <1>5, ConcatThree
<1> QED
  BY <1>6, <1>7, <1>8, <1>9

\* Nothing on screen moves: the items but the last stay, and the last keeps its kind.
Stays(a, b) == Len(a) <= Len(b) /\ \A n \in 1 .. Len(a) - 1 : b[n] = a[n]
KeepsKind(a, b) == Len(a) > 0 => b[Len(a)].kind = a[Len(a)].kind

LEMMA StaysSoFar ==
  ASSUME NEW S, NEW a \in Seq(S), NEW b \in Seq(S), NEW c \in Seq(S),
         Stays(a, b), Stays(b, c)
  PROVE  Stays(a, c)
<1>1. Len(a) \in Nat /\ Len(b) \in Nat /\ Len(c) \in Nat
  OBVIOUS
<1>2. \A n \in 1 .. Len(a) - 1 : n \in 1 .. Len(b) - 1
  BY <1>1 DEF Stays
<1> QED
  BY <1>1, <1>2 DEF Stays

LEMMA StepStays ==
  ASSUME NEW S, NEW a \in Seq(S), NEW b, NEW x \in S, Adds(a, b, x) \/ Swaps(a, b, x)
  PROVE  b \in Seq(S) /\ Stays(a, b) /\ (Adds(a, b, x) => \A n \in 1 .. Len(a) : b[n] = a[n])
<1>1. CASE Adds(a, b, x)
  <2>1. b \in Seq(S) /\ Len(a) \in Nat /\ Len(b) = Len(a) + 1
        /\ \A n \in 1 .. Len(a) : b[n] = a[n]
    BY <1>1, AppendProperties, LenProperties DEF Adds
  <2> QED
    BY <2>1 DEF Stays
<1>2. CASE Swaps(a, b, x) /\ ~Adds(a, b, x)
  <2>1. Len(a) \in 1 .. Len(a)
    BY <1>2 DEF Swaps
  <2>2. b \in Seq(S) /\ Len(b) = Len(a)
        /\ \A n \in 1 .. Len(a) : b[n] = IF n = Len(a) THEN x ELSE a[n]
    BY <1>2, <2>1, ExceptSeq DEF Swaps
  <2> QED
    BY <1>2, <2>1, <2>2 DEF Stays
<1> QED
  BY <1>1, <1>2

-----------------------------------------------------------------------------
(* The feed of a list of events.                                           *)

Log == Seq(Event \cup Talk)

LEMMA KindsAreKinds == \A e : KindOf(e) \in Kinds
  BY DEF KindOf, Kinds

\* Built is what it says.
LEMMA BuiltWalk ==
  ASSUME NEW events \in Log
  PROVE  /\ Len(events) \in Nat /\ Built(events)[0] = <<>>
         /\ \A k \in 0 .. Len(events) : Built(events)[k] \in Seq(Items)
         /\ \A k \in 1 .. Len(events) :
              Built(events)[k] = AddItem(Built(events)[k - 1], KindOf(events[k]), k)
<1> DEFINE n == Len(events)
           V == Seq(Items)
           H == [k \in 1 .. n |-> [x \in V |-> AddItem(x, KindOf(events[k]), k)]]
<1>1. n \in Nat
  BY DEF Log
<1>2. H \in [1 .. n -> [V -> V]]
  <2> SUFFICES ASSUME NEW k \in 1 .. n, NEW x \in V PROVE AddItem(x, KindOf(events[k]), k) \in V
    OBVIOUS
  <2>1. k \in Nat /\ KindOf(events[k]) \in Kinds
    BY <1>1, KindsAreKinds
  <2>2. PICK y \in Items : \/ Adds(x, AddItem(x, KindOf(events[k]), k), y)
                           \/ Swaps(x, AddItem(x, KindOf(events[k]), k), y)
    BY <2>1, AddItemIs
  <2> QED
    BY <2>2, StepStays
<1>3. \A k \in 1 .. n, x \in V : H[k][x] = AddItem(x, KindOf(events[k]), k)
  OBVIOUS
<1>4. <<>> \in V
  OBVIOUS
<1> HIDE DEF n, H, V
<1>5. PICK f \in [0 .. n -> V] : IsWalk(f, n, <<>>, H)
  BY <1>1, <1>2, <1>4, Walks
<1>6. f = [k \in 0 .. n |-> IF k = 0 THEN <<>> ELSE AddItem(f[k - 1], KindOf(events[k]), k)]
  <2>1. \A k \in 0 .. n : k # 0 => k \in 1 .. n /\ k - 1 \in 0 .. n
    BY <1>1
  <2>2. \A k \in 0 .. n : k # 0 => H[k][f[k - 1]] = AddItem(f[k - 1], KindOf(events[k]), k)
    BY <2>1, <1>3
  <2> QED
    BY <1>5, <2>2 DEF IsWalk
<1> DEFINE g == CHOOSE h : h = [k \in 0 .. n |-> IF k = 0 THEN <<>>
                                                 ELSE AddItem(h[k - 1], KindOf(events[k]), k)]
<1>7. Built(events) = g
  BY DEF Built, n
<1>8. g = [k \in 0 .. n |-> IF k = 0 THEN <<>> ELSE AddItem(g[k - 1], KindOf(events[k]), k)]
  BY <1>6
<1> HIDE DEF g
<1>9. g[0] = <<>> /\ \A k \in 1 .. n : g[k] = AddItem(g[k - 1], KindOf(events[k]), k)
  <2>1. 0 \in 0 .. n /\ \A k \in 1 .. n : k \in 0 .. n /\ k # 0
    BY <1>1
  <2> QED
    BY <2>1, <1>8
<1> DEFINE P == {k \in 0 .. n : g[k] \in V}
<1>10. 0 \in P
  BY <1>1, <1>4, <1>9
<1>11. ASSUME NEW k \in 1 .. n, k - 1 \in P PROVE k \in P
  <2>1. k \in 0 .. n /\ g[k - 1] \in V
    BY <1>1, <1>11
  <2>2. g[k] = H[k][g[k - 1]]
    BY <2>1, <1>3, <1>9
  <2> QED
    BY <2>1, <2>2, <1>2
<1>12. \A k \in 0 .. n : k \in P
  <2> HIDE DEF P
  <2> QED
    BY <1>1, <1>10, <1>11, CountingTo
<1> QED
  BY <1>1, <1>7, <1>9, <1>12 DEF n, V

\* So is Grouped.
LEMMA GroupedWalk ==
  ASSUME NEW items \in Seq(Items)
  PROVE  /\ Len(items) \in Nat /\ Grouped(items)[0] = <<>>
         /\ \A k \in 0 .. Len(items) : Grouped(items)[k] \in Seq(Groups)
         /\ \A k \in 1 .. Len(items) :
              Grouped(items)[k] = AddGrouped(Grouped(items)[k - 1], items[k])
<1> DEFINE n == Len(items)
           V == Seq(Groups)
           H == [k \in 1 .. n |-> [x \in V |-> AddGrouped(x, items[k])]]
<1>1. n \in Nat
  OBVIOUS
<1>2. H \in [1 .. n -> [V -> V]]
  <2> SUFFICES ASSUME NEW k \in 1 .. n, NEW x \in V PROVE AddGrouped(x, items[k]) \in V
    OBVIOUS
  <2>1. items[k] \in Items
    BY ElementOfSeq
  <2>2. PICK y \in Groups : \/ Adds(x, AddGrouped(x, items[k]), y)
                            \/ Swaps(x, AddGrouped(x, items[k]), y)
    BY <2>1, AddGroupedIs
  <2> QED
    BY <2>2, StepStays
<1>3. \A k \in 1 .. n, x \in V : H[k][x] = AddGrouped(x, items[k])
  OBVIOUS
<1>4. <<>> \in V
  OBVIOUS
<1> HIDE DEF n, H, V
<1>5. PICK f \in [0 .. n -> V] : IsWalk(f, n, <<>>, H)
  BY <1>1, <1>2, <1>4, Walks
<1>6. f = [k \in 0 .. n |-> IF k = 0 THEN <<>> ELSE AddGrouped(f[k - 1], items[k])]
  <2>1. \A k \in 0 .. n : k # 0 => k \in 1 .. n /\ k - 1 \in 0 .. n
    BY <1>1
  <2>2. \A k \in 0 .. n : k # 0 => H[k][f[k - 1]] = AddGrouped(f[k - 1], items[k])
    BY <2>1, <1>3
  <2> QED
    BY <1>5, <2>2 DEF IsWalk
<1> DEFINE g == CHOOSE h : h = [k \in 0 .. n |-> IF k = 0 THEN <<>>
                                                 ELSE AddGrouped(h[k - 1], items[k])]
<1>7. Grouped(items) = g
  BY DEF Grouped, n
<1>8. g = [k \in 0 .. n |-> IF k = 0 THEN <<>> ELSE AddGrouped(g[k - 1], items[k])]
  BY <1>6
<1> HIDE DEF g
<1>9. g[0] = <<>> /\ \A k \in 1 .. n : g[k] = AddGrouped(g[k - 1], items[k])
  <2>1. 0 \in 0 .. n /\ \A k \in 1 .. n : k \in 0 .. n /\ k # 0
    BY <1>1
  <2> QED
    BY <2>1, <1>8
<1> DEFINE P == {k \in 0 .. n : g[k] \in V}
<1>10. 0 \in P
  BY <1>1, <1>4, <1>9
<1>11. ASSUME NEW k \in 1 .. n, k - 1 \in P PROVE k \in P
  <2>1. k \in 0 .. n /\ g[k - 1] \in V
    BY <1>1, <1>11
  <2>2. g[k] = H[k][g[k - 1]]
    BY <2>1, <1>3, <1>9
  <2> QED
    BY <2>1, <2>2, <1>2
<1>12. \A k \in 0 .. n : k \in P
  <2> HIDE DEF P
  <2> QED
    BY <1>1, <1>10, <1>11, CountingTo
<1> QED
  BY <1>1, <1>7, <1>9, <1>12 DEF n, V

\* Every event is in the items once, in order.
LEMMA BuiltHolds ==
  ASSUME NEW events \in Log
  PROVE  \A k \in 0 .. Len(events) : Flattened(Built(events)[k]) = [i \in 1 .. k |-> i]
<1> DEFINE n == Len(events)
           f == Built(events)
           P == {k \in 0 .. n : Flattened(f[k]) = [i \in 1 .. k |-> i]}
<1>1. n \in Nat
  BY BuiltWalk
<1>2. 0 \in P
  <2>1. f[0] = <<>>
    BY BuiltWalk
  <2>2. Flattened(<<>>) = <<>>
    <3>1. [m \in 1 .. 0 |-> FlattenSeq(<<>>[m].parts)] = <<>>
      OBVIOUS
    <3>2. FlattenSeq(<<>>) = <<>>
      BY DEF FlattenSeq
    <3> QED
      BY <3>1, <3>2 DEF Flattened
  <2>3. [i \in 1 .. 0 |-> i] = <<>>
    OBVIOUS
  <2> QED
    BY <1>1, <2>1, <2>2, <2>3
<1>3. ASSUME NEW k \in 1 .. n, k - 1 \in P PROVE k \in P
  <2> DEFINE a == f[k - 1]
             b == f[k]
  <2>1. k \in Nat /\ k \in 0 .. n /\ k - 1 \in 0 .. n /\ a \in Seq(Items)
    BY <1>1, BuiltWalk
  <2>2. b = AddItem(a, KindOf(events[k]), k) /\ KindOf(events[k]) \in Kinds
    BY BuiltWalk, KindsAreKinds
  <2>3. Flattened(a) = [i \in 1 .. k - 1 |-> i]
    BY <1>3
  <2>4. a \in Seq(Groups) /\ <<k>> \in Seq(Nat)
    <3>1. Items \subseteq Groups
      BY ItemsAreGroups
    <3>2. a \in Seq(Groups)
      BY <2>1, <3>1, SeqMonotonic
    <3> QED
      BY <2>1, <3>2
  <2> HIDE DEF a, b, P
  <2>5. Flattened(b) = Flattened(a) \o <<k>>
    <3>1. PICK x \in Items :
            \/ Adds(a, b, x) /\ FlattenSeq(x.parts) = <<k>>
            \/ Swaps(a, b, x) /\ FlattenSeq(x.parts) = FlattenSeq(a[Len(a)].parts) \o <<k>>
      BY <2>1, <2>2, AddItemIs
    <3>2. x \in Groups
      BY ItemsAreGroups
    <3>3. CASE Adds(a, b, x) /\ FlattenSeq(x.parts) = <<k>>
      BY <2>4, <3>2, <3>3, FlattenedAdds DEF Adds
    <3>4. CASE Swaps(a, b, x) /\ FlattenSeq(x.parts) = FlattenSeq(a[Len(a)].parts) \o <<k>>
      BY <2>4, <3>2, <3>4, FlattenedSwaps
    <3> QED
      BY <3>1, <3>3, <3>4
  <2>6. [i \in 1 .. k - 1 |-> i] \o <<k>> = [i \in 1 .. k |-> i]
    <3> DEFINE c == [i \in 1 .. k - 1 |-> i]
               d == [i \in 1 .. k |-> i]
    <3>1. c \in Seq(Nat) /\ Len(c) = k - 1 /\ d \in Seq(Nat) /\ Len(d) = k
      BY <2>1
    <3>2. \A i \in 1 .. k : d[i] = i
      OBVIOUS
    <3>3. \A i \in 1 .. k - 1 : c[i] = i
      OBVIOUS
    <3> HIDE DEF c, d
    <3> DEFINE e == Append(c, k)
    <3>4. e \in Seq(Nat) /\ Len(e) = k /\ e[k] = k /\ \A i \in 1 .. k - 1 : e[i] = i
      BY <2>1, <3>1, <3>3
    <3>5. e = c \o <<k>>
      BY <2>1, <3>1
    <3> HIDE DEF e
    <3>6. \A i \in 1 .. Len(d) : d[i] = e[i]
      BY <2>1, <3>1, <3>2, <3>4
    <3>7. d = e
      BY <3>1, <3>4, <3>6, SeqEqual
    <3> QED
      BY <3>5, <3>7 DEF c, d
  <2> QED
    BY <2>1, <2>3, <2>5, <2>6 DEF P, b
<1>4. \A k \in 0 .. n : k \in P
  <2> HIDE DEF P
  <2> QED
    BY <1>1, <1>2, <1>3, CountingTo
<1> QED
  BY <1>4

LEMMA FeedTyped ==
  ASSUME NEW events \in Log
  PROVE  Transcript(events) \in Seq(Groups)
<1> DEFINE items == BuildItems(events)
<1>1. items \in Seq(Items)
  BY BuiltWalk DEF BuildItems
<1>2. Transcript(events) = Grouped(items)[Len(items)]
  BY DEF Transcript
<1> HIDE DEF items
<1>3. Len(items) \in 0 .. Len(items)
  BY <1>1
<1> QED
  BY <1>1, <1>2, <1>3, GroupedWalk

\* And in the feed.
LEMMA FeedHolds ==
  ASSUME NEW events \in Log
  PROVE  Flattened(Transcript(events)) = [i \in 1 .. Len(events) |-> i]
<1> DEFINE items == BuildItems(events)
           n == Len(items)
           g == Grouped(items)
           P == {k \in 0 .. n : Flattened(g[k]) = Flattened(SubSeq(items, 1, k))}
<1>1. items \in Seq(Items) /\ Flattened(items) = [i \in 1 .. Len(events) |-> i]
  <2>1. Len(events) \in 0 .. Len(events)
    BY BuiltWalk
  <2> QED
    BY <2>1, BuiltWalk, BuiltHolds DEF BuildItems
<1>2. Transcript(events) = g[n]
  BY DEF Transcript
<1> HIDE DEF items
<1>3. n \in Nat /\ g[0] = <<>>
  BY <1>1, GroupedWalk
<1>4. 0 \in P
  <2>1. SubSeq(items, 1, 0) = <<>>
    BY SubSeqEmpty
  <2>2. Flattened(g[0]) = Flattened(SubSeq(items, 1, 0)) /\ 0 \in 0 .. n
    <3> DEFINE none == SubSeq(items, 1, 0)
    <3> HIDE DEF g, n
    <3>1. 0 \in 0 .. n
      BY <1>3
    <3>2. g[0] = none
      BY <1>3, <2>1
    <3> HIDE DEF none
    <3>3. Flattened(g[0]) = Flattened(none)
      BY <3>2
    <3> QED
      BY <3>1, <3>3 DEF none
  <2> HIDE DEF g, n
  <2> QED
    BY <2>2
<1>5. ASSUME NEW k \in 1 .. n, k - 1 \in P PROVE k \in P
  <2> DEFINE a == g[k - 1]
             b == g[k]
             before == SubSeq(items, 1, k - 1)
             upTo == SubSeq(items, 1, k)
             y == FlattenSeq(items[k].parts)
  <2>1. k \in 0 .. n /\ k - 1 \in 0 .. n /\ a \in Seq(Groups) /\ b = AddGrouped(a, items[k])
    BY <1>1, <1>3, GroupedWalk
  <2>2. items[k] \in Items /\ items[k] \in Groups /\ y \in Seq(Nat)
    <3>1. items[k] \in Items
      BY <1>1, ElementOfSeq
    <3> QED
      BY <3>1, ItemsAreGroups
  <2>3. Flattened(b) = Flattened(a) \o y
    <3> HIDE DEF a, b
    <3>1. PICK x \in Groups :
            \/ Adds(a, b, x) /\ FlattenSeq(x.parts) = y
            \/ Swaps(a, b, x) /\ FlattenSeq(x.parts) = FlattenSeq(a[Len(a)].parts) \o y
      BY <2>1, <2>2, AddGroupedIs
    <3> HIDE DEF y
    <3>2. CASE Adds(a, b, x) /\ FlattenSeq(x.parts) = y
      BY <2>1, <3>2, FlattenedAdds DEF Adds
    <3>3. CASE Swaps(a, b, x) /\ FlattenSeq(x.parts) = FlattenSeq(a[Len(a)].parts) \o y
      BY <2>1, <2>2, <3>3, FlattenedSwaps
    <3> QED
      BY <3>1, <3>2, <3>3
  <2>4. before \in Seq(Groups) /\ upTo = Append(before, items[k])
    <3>1. \A i \in 1 .. n : items[i] \in Groups
      BY <1>1, ElementOfSeq, ItemsAreGroups
    <3>2. before \in Seq(Groups) /\ upTo \in Seq(Groups)
      <4>1. (\A i \in 1 .. k - 1 : items[i] \in Groups) /\ (\A i \in 1 .. k : items[i] \in Groups)
        BY <1>3, <3>1
      <4> QED
        BY <1>3, <4>1, SubSeqProperties
    <3>3. before = [i \in 1 .. k - 1 |-> items[i]] /\ upTo = [i \in 1 .. k |-> items[i]]
      BY <1>1, <1>3
    <3>4. Len(before) = k - 1 /\ Len(upTo) = k
      BY <1>3, <3>3
    <3>5. /\ \A i \in 1 .. k - 1 : before[i] = items[i]
          /\ \A i \in 1 .. k : upTo[i] = items[i]
      BY <3>3
    <3> HIDE DEF before, upTo
    <3> DEFINE c == Append(before, items[k])
    <3>6. c \in Seq(Groups) /\ Len(c) = k /\ c[k] = items[k]
          /\ \A i \in 1 .. k - 1 : c[i] = before[i]
      <4>1. (k - 1) + 1 = k
        BY <1>3
      <4> QED
        BY <2>2, <3>2, <3>4, <4>1, AppendProperties
    <3> HIDE DEF c
    <3>7. \A i \in 1 .. Len(upTo) : upTo[i] = c[i]
      BY <1>3, <3>4, <3>5, <3>6
    <3>8. upTo = c
      BY <3>2, <3>4, <3>6, <3>7, SeqEqual
    <3> QED
      BY <3>2, <3>8 DEF c
  <2>5. Flattened(a) = Flattened(before)
    BY <1>5
  <2> HIDE DEF before, upTo, a, P
  <2>6. Flattened(upTo) = Flattened(before) \o y
    BY <2>2, <2>4, FlattenedAdds
  <2>7. Flattened(b) = Flattened(upTo)
    BY <2>3, <2>5, <2>6
  <2> QED
    BY <2>1, <2>7 DEF P, upTo
<1>6. \A k \in 0 .. n : k \in P
  <2> HIDE DEF P, n
  <2> QED
    BY <1>3, <1>4, <1>5, CountingTo
<1>7. Flattened(g[n]) = Flattened(SubSeq(items, 1, n))
  BY <1>3, <1>6
<1>8. SubSeq(items, 1, n) = items
  BY <1>1, <1>3
<1> QED
  BY <1>1, <1>2, <1>7, <1>8

\* What was stored before comes first, unchanged.
IsPast(s, u) == Len(s) <= Len(u) /\ \A i \in 1 .. Len(s) : u[i] = s[i]

LEMMA BuiltAgain ==
  ASSUME NEW s \in Log, NEW u \in Log, IsPast(s, u)
  PROVE  Built(u)[Len(s)] = BuildItems(s) /\ Len(s) \in 0 .. Len(u) /\ Len(u) \in Nat
<1> DEFINE n == Len(s)
           f == Built(s)
           g == Built(u)
           P == {k \in 0 .. n : g[k] = f[k]}
<1>1. n \in Nat /\ Len(u) \in Nat /\ n <= Len(u)
  BY BuiltWalk DEF IsPast
<1>2. 0 \in P
  BY <1>1, BuiltWalk
<1>3. ASSUME NEW k \in 1 .. n, k - 1 \in P PROVE k \in P
  <2>1. k \in 1 .. Len(u) /\ k \in 0 .. n /\ u[k] = s[k]
    BY <1>1 DEF IsPast
  <2>2. g[k - 1] = f[k - 1]
    BY <1>3
  <2>3. f[k] = AddItem(f[k - 1], KindOf(s[k]), k) /\ g[k] = AddItem(g[k - 1], KindOf(u[k]), k)
    BY <2>1, BuiltWalk
  <2> QED
    BY <2>1, <2>2, <2>3
<1>4. \A k \in 0 .. n : k \in P
  <2> HIDE DEF P
  <2> QED
    BY <1>1, <1>2, <1>3, CountingTo
<1>5. n \in 0 .. n
  BY <1>1
<1> QED
  BY <1>1, <1>4, <1>5 DEF BuildItems

\* A later event leaves the items where they are.
LEMMA AddItemStays ==
  ASSUME NEW a \in Seq(Items), NEW b \in Seq(Items), Stays(a, b), KeepsKind(a, b),
         NEW kind \in Kinds, NEW i \in Nat
  PROVE  Stays(a, AddItem(b, kind, i)) /\ KeepsKind(a, AddItem(b, kind, i))
<1> DEFINE c == AddItem(b, kind, i)
<1>1. PICK x \in Items : \/ Adds(b, c, x)
                         \/ Swaps(b, c, x) /\ x.kind = b[Len(b)].kind
  BY AddItemIs
<1> HIDE DEF c
<1>2. c \in Seq(Items) /\ Stays(b, c)
  BY <1>1, StepStays
<1>3. Stays(a, c)
  BY <1>2, StaysSoFar
<1>4. ASSUME Len(a) > 0 PROVE c[Len(a)].kind = a[Len(a)].kind
  <2>1. Len(a) \in 1 .. Len(b) /\ Len(b) \in 1 .. Len(b) /\ b[Len(a)].kind = a[Len(a)].kind
    BY <1>4 DEF Stays, KeepsKind
  <2>2. CASE Adds(b, c, x)
    <3>1. c[Len(a)] = b[Len(a)]
      BY <2>1, <2>2, StepStays
    <3> QED
      BY <2>1, <3>1
  <2>3. CASE Swaps(b, c, x) /\ x.kind = b[Len(b)].kind
    <3>1. \A n \in 1 .. Len(b) : c[n] = IF n = Len(b) THEN x ELSE b[n]
      BY <2>1, <2>3, ExceptSeq DEF Swaps
    <3>2. c[Len(a)] = IF Len(a) = Len(b) THEN x ELSE b[Len(a)]
      BY <2>1, <3>1
    <3>3. CASE Len(a) = Len(b)
      BY <2>1, <2>3, <3>2, <3>3
    <3>4. CASE Len(a) # Len(b)
      BY <2>1, <3>2, <3>4
    <3> QED
      BY <3>3, <3>4
  <2> QED
    BY <1>1, <2>2, <2>3
<1> QED
  BY <1>3, <1>4 DEF KeepsKind, c

LEMMA ItemsStay ==
  ASSUME NEW s \in Log, NEW u \in Log, IsPast(s, u)
  PROVE  /\ BuildItems(s) \in Seq(Items) /\ BuildItems(u) \in Seq(Items)
         /\ Stays(BuildItems(s), BuildItems(u)) /\ KeepsKind(BuildItems(s), BuildItems(u))
<1> DEFINE n == Len(u)
           a == BuildItems(s)
           g == Built(u)
           P == {k \in 0 .. n : k < Len(s) \/ (Stays(a, g[k]) /\ KeepsKind(a, g[k]))}
<1>1. n \in Nat /\ Len(s) \in 0 .. n /\ g[Len(s)] = a
  BY BuiltAgain
<1>2. \A k \in 0 .. n : g[k] \in Seq(Items)
  BY BuiltWalk
<1>3. a \in Seq(Items)
  BY <1>1, <1>2
<1>4. Stays(a, a) /\ KeepsKind(a, a)
  <2> HIDE DEF a
  <2> QED
    BY <1>3 DEF Stays, KeepsKind
<1> HIDE DEF a
<1>5. 0 \in P
  BY <1>1, <1>4
<1>6. ASSUME NEW k \in 1 .. n, k - 1 \in P PROVE k \in P
  <2>1. k \in 0 .. n /\ k - 1 \in 0 .. n /\ k \in Nat
    BY <1>1
  <2>2. CASE k < Len(s)
    BY <2>1, <2>2
  <2>3. CASE k = Len(s)
    BY <2>1, <2>3, <1>1, <1>4
  <2>4. CASE k > Len(s)
    <3>1. Stays(a, g[k - 1]) /\ KeepsKind(a, g[k - 1])
      BY <2>1, <2>4, <1>1, <1>6
    <3>2. g[k] = AddItem(g[k - 1], KindOf(u[k]), k) /\ KindOf(u[k]) \in Kinds
      BY BuiltWalk, KindsAreKinds
    <3>3. g[k - 1] \in Seq(Items)
      BY <1>2, <2>1
    <3> HIDE DEF g
    <3>4. Stays(a, g[k]) /\ KeepsKind(a, g[k])
      BY <1>3, <2>1, <3>1, <3>2, <3>3, AddItemStays
    <3> QED
      BY <2>1, <3>4
  <2> QED
    BY <1>1, <2>1, <2>2, <2>3, <2>4
<1>7. \A k \in 0 .. n : k \in P
  <2> HIDE DEF P
  <2> QED
    BY <1>1, <1>5, <1>6, CountingTo
<1>8. n \in 0 .. n /\ ~(n < Len(s))
  BY <1>1
<1>9. Stays(a, g[n]) /\ KeepsKind(a, g[n]) /\ g[n] \in Seq(Items)
  BY <1>2, <1>7, <1>8
<1> QED
  BY <1>3, <1>9 DEF a, BuildItems

\* What an item does to the feed depends on its kind alone.
LEMMA SameKindStays ==
  ASSUME NEW g \in Seq(Groups), NEW i \in Items, NEW j \in Items, i.kind = j.kind
  PROVE  Stays(AddGrouped(g, i), AddGrouped(g, j))
<1>1. CASE i.kind = "tool" /\ g # <<>> /\ Last(g).kind \in {"tool", "activity"}
  <2> DEFINE x(item) == [kind |-> "activity", parts |-> g[Len(g)].parts \o item.parts]
  <2>1. AddGrouped(g, i) = [g EXCEPT ![Len(g)] = x(i)]
        /\ AddGrouped(g, j) = [g EXCEPT ![Len(g)] = x(j)]
    BY <1>1 DEF AddGrouped
  <2> HIDE DEF x
  <2>2. Len(g) \in Nat /\ DOMAIN g = 1 .. Len(g)
    BY LenProperties
  <2>3. x(i) \in Groups /\ x(j) \in Groups
    <3>1. g[Len(g)] \in Groups /\ i \in Groups /\ j \in Groups
      <4>1. Len(g) \in 1 .. Len(g)
        BY <1>1
      <4> QED
        BY <4>1, ElementOfSeq, ItemsAreGroups
    <3>2. g[Len(g)].parts \in Words /\ i.parts \in Words /\ j.parts \in Words
      BY <3>1 DEF Groups
    <3> DEFINE p == g[Len(g)].parts
    <3>3. p \o i.parts \in Words /\ p \o j.parts \in Words
      BY <3>2, ConcatProperties DEF Words
    <3> QED
      BY <3>3 DEF x, Groups, Kinds
  <2>4. \A y \in Groups : Len([g EXCEPT ![Len(g)] = y]) = Len(g)
               /\ \A n \in 1 .. Len(g) - 1 : [g EXCEPT ![Len(g)] = y][n] = g[n]
    <3> SUFFICES ASSUME NEW y \in Groups
                 PROVE  Len([g EXCEPT ![Len(g)] = y]) = Len(g)
                        /\ \A n \in 1 .. Len(g) - 1 : [g EXCEPT ![Len(g)] = y][n] = g[n]
      OBVIOUS
    <3> DEFINE h == [g EXCEPT ![Len(g)] = y]
    <3>1. Len(g) \in 1 .. Len(g)
      BY <1>1
    <3>2. Len(h) = Len(g) /\ \A n \in 1 .. Len(g) : h[n] = IF n = Len(g) THEN y ELSE g[n]
      BY <3>1, ExceptSeq
    <3> DEFINE m == Len(g)
    <3>3. \A n \in 1 .. Len(g) - 1 : n \in 1 .. Len(g) /\ n # Len(g)
      <4>1. m \in Nat
        BY <2>2
      <4> HIDE DEF m
      <4>2. \A n \in 1 .. m - 1 : n \in 1 .. m /\ n # m
        BY <4>1
      <4> QED
        BY <4>2 DEF m
    <3> HIDE DEF h
    <3>4. \A n \in 1 .. Len(g) - 1 : h[n] = g[n]
      BY <3>2, <3>3
    <3> QED
      BY <3>2, <3>4 DEF h
  <2> DEFINE p == [g EXCEPT ![Len(g)] = x(i)]
             q == [g EXCEPT ![Len(g)] = x(j)]
  <2>5. /\ Len(p) = Len(g) /\ \A n \in 1 .. Len(g) - 1 : p[n] = g[n]
        /\ Len(q) = Len(g) /\ \A n \in 1 .. Len(g) - 1 : q[n] = g[n]
    BY <2>3, <2>4
  <2>6. AddGrouped(g, i) = p /\ AddGrouped(g, j) = q
    BY <2>1
  <2> HIDE DEF p, q
  <2>7. Len(p) = Len(q) /\ Len(p) \in Nat /\ \A n \in 1 .. Len(p) - 1 : q[n] = p[n]
    BY <2>2, <2>5
  <2> QED
    BY <2>6, <2>7 DEF Stays
<1>2. CASE ~(i.kind = "tool" /\ g # <<>> /\ Last(g).kind \in {"tool", "activity"})
  <2>1. AddGrouped(g, i) = Append(g, i) /\ AddGrouped(g, j) = Append(g, j)
    BY <1>2 DEF AddGrouped
  <2>2. i \in Groups /\ j \in Groups
    BY ItemsAreGroups
  <2>3. \A y \in Groups : Len(Append(g, y)) = Len(g) + 1 /\ Len(g) \in Nat
                          /\ \A n \in 1 .. Len(g) : Append(g, y)[n] = g[n]
    BY AppendProperties, LenProperties
  <2> QED
    BY <2>1, <2>2, <2>3 DEF Stays
<1> QED
  BY <1>1, <1>2

\* Before the last item, the feed of the longer list was the feed of the shorter.
LEMMA GroupedAgain ==
  ASSUME NEW a \in Seq(Items), NEW b \in Seq(Items), Stays(a, b), a # <<>>
  PROVE  Grouped(b)[Len(a) - 1] = Grouped(a)[Len(a) - 1]
<1> DEFINE n == Len(a) - 1
           f == Grouped(a)
           g == Grouped(b)
           P == {k \in 0 .. n : g[k] = f[k]}
<1>1. n \in Nat /\ Len(a) = n + 1 /\ Len(b) \in Nat /\ Len(a) <= Len(b)
  BY DEF Stays
<1>2. 0 \in P
  BY <1>1, GroupedWalk
<1>3. ASSUME NEW k \in 1 .. n, k - 1 \in P PROVE k \in P
  <2>1. k \in 1 .. Len(a) /\ k \in 1 .. Len(b) /\ k \in 0 .. n /\ b[k] = a[k]
    BY <1>1 DEF Stays
  <2>2. g[k - 1] = f[k - 1]
    BY <1>3
  <2>3. f[k] = AddGrouped(f[k - 1], a[k]) /\ g[k] = AddGrouped(g[k - 1], b[k])
    BY <2>1, GroupedWalk
  <2> QED
    BY <2>1, <2>2, <2>3
<1>4. \A k \in 0 .. n : k \in P
  <2> HIDE DEF P, n
  <2> QED
    BY <1>1, <1>2, <1>3, CountingTo
<1>5. n \in 0 .. n
  BY <1>1
<1> QED
  BY <1>4, <1>5

\* The feed stays where it is when the events grow.
LEMMA FeedStays ==
  ASSUME NEW s \in Log, NEW u \in Log, IsPast(s, u)
  PROVE  Stays(Transcript(s), Transcript(u))
<1> DEFINE a == BuildItems(s)
           b == BuildItems(u)
           m == Len(a)
           n == Len(b)
           f == Grouped(a)
           g == Grouped(b)
<1>1. a \in Seq(Items) /\ b \in Seq(Items) /\ Stays(a, b) /\ KeepsKind(a, b)
  BY ItemsStay
<1>2. Transcript(s) = f[m] /\ Transcript(u) = g[n]
  BY DEF Transcript
<1> HIDE DEF a, b
<1>3. m \in Nat /\ n \in Nat /\ m <= n
  BY <1>1 DEF Stays
<1>4. /\ \A k \in 0 .. m : f[k] \in Seq(Groups)
      /\ \A k \in 0 .. n : g[k] \in Seq(Groups)
      /\ f[0] = <<>>
  BY <1>1, GroupedWalk
<1>5. CASE a = <<>>
  <2>1. m = 0 /\ f[m] = <<>>
    BY <1>4, <1>5
  <2>2. g[n] \in Seq(Groups)
    BY <1>3, <1>4
  <2> HIDE DEF f, g, m, n
  <2>3. Stays(<<>>, g[n])
    BY <2>2 DEF Stays
  <2> QED
    BY <1>2, <2>1, <2>3
<1>6. CASE a # <<>>
  <2>1. m \in 1 .. m /\ m \in 1 .. n /\ m - 1 \in 0 .. m /\ m \in 0 .. m /\ m \in 0 .. n
    BY <1>1, <1>3, <1>6
  <2>2. f[m - 1] = g[m - 1]
    BY <1>1, <1>6, GroupedAgain
  <2>3. f[m] = AddGrouped(f[m - 1], a[m]) /\ g[m] = AddGrouped(g[m - 1], b[m])
    BY <1>1, <2>1, GroupedWalk
  <2>4. a[m] \in Items /\ b[m] \in Items /\ a[m].kind = b[m].kind
    <3>1. a[m] \in Items /\ b[m] \in Items
      BY <1>1, <2>1, ElementOfSeq
    <3>2. a[m].kind = b[m].kind
      BY <1>1, <2>1 DEF KeepsKind
    <3> QED
      BY <3>1, <3>2
  <2>5. Stays(f[m], g[m])
    <3>1. f[m - 1] \in Seq(Groups)
      BY <1>4, <2>1
    <3> HIDE DEF f, g, m
    <3> QED
      BY <2>2, <2>3, <2>4, <3>1, SameKindStays
  <2> DEFINE P == {k \in 0 .. n : k < m \/ Stays(f[m], g[k])}
  <2>6. 0 \in P
    BY <1>3, <2>1
  <2>7. ASSUME NEW k \in 1 .. n, k - 1 \in P PROVE k \in P
    <3>1. k \in 0 .. n /\ k - 1 \in 0 .. n /\ k \in Nat
      BY <1>3
    <3>2. CASE k < m
      BY <3>1, <3>2
    <3>3. CASE k = m
      BY <3>1, <3>3, <2>5
    <3>4. CASE k > m
      <4>1. Stays(f[m], g[k - 1])
        <5>1. ~(k - 1 < m)
          BY <3>1, <3>4, <1>3
        <5> QED
          BY <2>7, <5>1
      <4>2. g[k] = AddGrouped(g[k - 1], b[k])
        BY <1>1, GroupedWalk
      <4>3. b[k] \in Items
        BY <1>1, ElementOfSeq
      <4>4. g[k - 1] \in Seq(Groups) /\ f[m] \in Seq(Groups)
        BY <1>4, <2>1, <3>1
      <4> HIDE DEF f, g, m, n
      <4>5. PICK x \in Groups : Adds(g[k - 1], g[k], x) \/ Swaps(g[k - 1], g[k], x)
        BY <4>2, <4>3, <4>4, AddGroupedIs
      <4>6. g[k] \in Seq(Groups) /\ Stays(g[k - 1], g[k])
        BY <4>4, <4>5, StepStays
      <4>7. Stays(f[m], g[k])
        BY <4>1, <4>4, <4>6, StaysSoFar
      <4> QED
        BY <3>1, <4>7
    <3> QED
      BY <1>3, <3>1, <3>2, <3>3, <3>4
  <2>8. \A k \in 0 .. n : k \in P
    <3> HIDE DEF P, n
    <3> QED
      BY <1>3, <2>6, <2>7, CountingTo
  <2>9. n \in 0 .. n /\ ~(n < m)
    BY <1>3
  <2> QED
    BY <1>2, <2>8, <2>9
<1> QED
  BY <1>5, <1>6

-----------------------------------------------------------------------------
(* The copies on screen.                                                   *)

\* A copy on screen is of some earlier moment, and no later than what is coming.
ShownIsPast ==
  \A t \in Task :
    /\ shown[t] # <<>> => IsPast(shown[t].events, task[t].events)
    /\ coming[t] # <<>> => IsPast(coming[t].events, task[t].events)
    /\ shown[t] # <<>> /\ coming[t] # <<>> => IsPast(shown[t].events, coming[t].events)

\* What any step does to the tasks and to their copies: a loader takes the task as
\* it is, and what comes on screen is what the loader took.
Grows ==
  \A t \in Task :
    /\ IsPast(task[t].events, task'[t].events)
    /\ \/ /\ shown'[t] = shown[t]
          /\ coming'[t] = coming[t] \/ (coming'[t] = task[t] /\ task'[t] = task[t])
       \/ coming'[t] = <<>> /\ coming[t] # <<>> /\ shown'[t] \in {coming[t], <<>>}

LEMMA PastOfPast ==
  ASSUME NEW a \in Log, NEW b \in Log, NEW c \in Log, IsPast(a, b), IsPast(b, c)
  PROVE  IsPast(a, c)
<1>1. Len(a) \in Nat /\ Len(b) \in Nat /\ Len(c) \in Nat
  BY DEF Log
<1>2. \A i \in 1 .. Len(a) : i \in 1 .. Len(b)
  BY <1>1 DEF IsPast
<1> QED
  BY <1>1, <1>2 DEF IsPast

LEMMA LogGrows ==
  ASSUME NEW s \in Log, NEW e \in Event \cup Talk
  PROVE  IsPast(s, s) /\ IsPast(s, Append(s, e))
<1>1. Len(s) \in Nat
  BY DEF Log
<1>2. Len(Append(s, e)) = Len(s) + 1 /\ \A i \in 1 .. Len(s) : Append(s, e)[i] = s[i]
  BY AppendProperties DEF Log
<1> QED
  BY <1>1, <1>2 DEF IsPast

LEMMA LogsTyped ==
  ASSUME TypeOK, NEW t \in Task
  PROVE  /\ task[t] \in TaskRecord /\ task[t].events \in Log
         /\ shown[t] # <<>> => shown[t].events \in Log
         /\ coming[t] # <<>> => coming[t].events \in Log
BY DEF TypeOK, TaskRecord, Log

\* One task's record is replaced by one with a longer log.
LEMMA TaskGrows ==
  ASSUME TypeOK, NEW t \in Task, NEW x, NEW e \in Event \cup Talk,
         task' = [task EXCEPT ![t] = x], x.events = Append(task[t].events, e),
         UNCHANGED copies
  PROVE  Grows
<1> SUFFICES ASSUME NEW u \in Task PROVE IsPast(task[u].events, task'[u].events)
  BY DEF Grows, copies
<1>1. task[u].events \in Log /\ task[t].events \in Log
  BY LogsTyped
<1>2. CASE u = t
  <2>1. task'[u].events = Append(task[u].events, e)
    BY <1>2 DEF TypeOK
  <2> QED
    BY <1>1, <2>1, LogGrows
<1>3. CASE u # t
  <2>1. task'[u] = task[u]
    BY <1>3 DEF TypeOK
  <2> QED
    BY <1>1, <2>1, LogGrows
<1> QED
  BY <1>2, <1>3

LEMMA BecomesGrows ==
  ASSUME TypeOK, NEW t \in Task, NEW st, NEW e \in Event \cup Talk, Becomes(t, st, e),
         UNCHANGED copies
  PROVE  Grows
<1> DEFINE x == [task[t] EXCEPT !.status = st, !.events = Append(@, e)]
<1>1. task' = [task EXCEPT ![t] = x]
  BY DEF Becomes, TypeOK
<1>2. x.events = Append(task[t].events, e)
  BY LogsTyped DEF TaskRecord
<1> HIDE DEF x
<1> QED
  BY <1>1, <1>2, TaskGrows

\* Nothing is stored, and no copy changes but by its loader.
LEMMA QuietGrows ==
  ASSUME TypeOK, task' = task,
         \A t \in Task :
           \/ shown'[t] = shown[t] /\ coming'[t] \in {coming[t], task[t]}
           \/ coming'[t] = <<>> /\ coming[t] # <<>> /\ shown'[t] \in {coming[t], <<>>}
  PROVE  Grows
<1> SUFFICES ASSUME NEW u \in Task PROVE IsPast(task[u].events, task'[u].events)
  BY DEF Grows
<1>1. task[u].events \in Log
  BY LogsTyped
<1> QED
  BY <1>1 DEF IsPast, Log

\* A loader begins, or reads the task again.
LEMMA FetchGrows ==
  ASSUME TypeOK, task' = task, shown' = shown,
         \/ coming' = coming \/ Invalidate
         \/ \E t \in Task : Fetches(t) \/ Read(t)
  PROVE  Grows
<1>1. coming' = coming \/ \E t \in Task : coming' = [coming EXCEPT ![t] = task[t]]
  BY DEF Invalidate, Fetches, Read, TypeOK
<1>2. \A u \in Task : coming'[u] \in {coming[u], task[u]}
  BY <1>1 DEF TypeOK
<1> QED
  BY <1>2, QuietGrows

\* A loader comes back.
LEMMA LandGrows ==
  ASSUME TypeOK, NEW t \in Task, Land(t) \/ LoadFails(t)
  PROVE  Grows
<1>1. task' = task /\ coming[t] # <<>>
  BY DEF Land, LoadFails, server
<1>2. /\ coming' = [coming EXCEPT ![t] = <<>>]
      /\ \E c \in {coming[t], <<>>} : shown' = [shown EXCEPT ![t] = c]
  BY DEF Land, LoadFails
<1>3. ASSUME NEW u \in Task
      PROVE  \/ shown'[u] = shown[u] /\ coming'[u] \in {coming[u], task[u]}
             \/ coming'[u] = <<>> /\ coming[u] # <<>> /\ shown'[u] \in {coming[u], <<>>}
  BY <1>1, <1>2 DEF TypeOK
<1> QED
  BY <1>1, <1>3, QuietGrows

LEMMA ReportsGrow ==
  ASSUME TypeOK, NEW t \in Task, Report(t) \/ Says(t) \/ Obeys(t)
  PROVE  Grows
<1>1. UNCHANGED copies
  BY DEF Report, Says, Obeys
<1>2. CASE Report(t)
  <2>1. PICK e \in Expected(task[t].status) :
          Becomes(t, Transition(task[t].status, e), e)
    BY <1>2 DEF Report
  <2>2. e \in Event
    BY DEF Expected, Event
  <2> QED
    BY <1>1, <2>1, <2>2, BecomesGrows
<1>3. CASE Says(t)
  <2>1. PICK e \in Talk : Becomes(t, "running", e)
    BY <1>3 DEF Says
  <2> QED
    BY <1>1, <2>1, BecomesGrows
<1>4. CASE Obeys(t)
  <2>1. PICK e \in Event : Becomes(t, Transition(task[t].status, e), e)
    BY <1>4 DEF Obeys, Event
  <2> QED
    BY <1>1, <2>1, BecomesGrows
<1> QED
  BY <1>2, <1>3, <1>4

LEMMA HandleGrows ==
  ASSUME TypeOK, NEW k \in calls, Handle(k), UNCHANGED copies
  PROVE  Grows
<1>1. k.task \in Task /\ k.kind \in {"follow-up", "approve", "reject", "retry"}
  BY DEF TypeOK, Call
<1>2. CASE k.kind = "follow-up"
  <2>1. Becomes(k.task, "changes_requested", "message") /\ "message" \in Event
    BY <1>2 DEF Handle, Event
  <2> QED
    BY <1>1, <2>1, BecomesGrows
<1>3. CASE k.kind = "retry"
  <2> DEFINE old == task[k.task]
             new == [status |-> "queued", events |-> Append(old.events, "requeued"),
                     runner |-> Or(k.runner, old.runner),
                     executor |-> Or(k.executor, old.executor)]
  <2>1. task' = [task EXCEPT ![k.task] = new] /\ "requeued" \in Event
    BY <1>1, <1>3 DEF Handle, TypeOK, Event
  <2>2. new.events = Append(task[k.task].events, "requeued")
    OBVIOUS
  <2> HIDE DEF new
  <2> QED
    BY <1>1, <2>1, <2>2, TaskGrows
<1>4. CASE k.kind \in {"approve", "reject"}
  BY <1>4, FetchGrows DEF Handle, copies
<1> QED
  BY <1>1, <1>2, <1>3, <1>4

LEMMA NextGrows == TypeOK /\ [Next]_vars => Grows
<1> SUFFICES ASSUME TypeOK, [Next]_vars PROVE Grows
  OBVIOUS
<1>1. CASE \E t \in Task : Report(t) \/ Says(t) \/ Obeys(t)
  BY <1>1, ReportsGrow
<1>2. CASE Poll \/ Leave \/ \E t \in Task : Reload(t) \/ Read(t) \/ Open(t)
  <2>1. task' = task /\ shown' = shown
    BY <1>2 DEF Poll, Leave, Reload, Read, Open, server, copies
  <2>2. \/ coming' = coming \/ Invalidate
        \/ \E t \in Task : Fetches(t) \/ Read(t)
    BY <1>2 DEF Poll, Leave, Reload, Open, copies
  <2> QED
    BY <2>1, <2>2, FetchGrows
<1>3. CASE \E t \in Task : Land(t) \/ LoadFails(t)
  BY <1>3, LandGrows
<1>4. CASE \/ Type \/ SendFollowUp \/ Approve \/ Reject \/ Disarm \/ LoadRunners \/ Retry
           \/ \E r \in Runner \cup {Unset} : ChangeRunner(r)
           \/ \E e \in Executor \cup {Unset} : ChangeExecutor(e)
  <2>1. task' = task /\ UNCHANGED copies
    BY <1>4 DEF Type, SendFollowUp, Approve, Reject, Disarm, Run, LoadRunners, Retry,
                ChangeRunner, ChangeExecutor, InPanel, server
  <2> QED
    BY <2>1, FetchGrows DEF copies
<1>5. CASE \E k \in calls : \E heard \in BOOLEAN : Serve(k, heard)
  BY <1>5, HandleGrows DEF Serve
<1>6. CASE \E k \in calls : Refuse(k)
  <2>1. task' = task /\ UNCHANGED copies
    BY <1>6 DEF Refuse, server
  <2> QED
    BY <2>1, FetchGrows DEF copies
<1>7. CASE \E k \in calls : Return(k)
  <2>1. task' = task /\ shown' = shown /\ (coming' = coming \/ Invalidate)
    BY <1>7 DEF Return, server
  <2> QED
    BY <2>1, FetchGrows
<1>8. CASE UNCHANGED vars
  BY <1>8, FetchGrows DEF vars
<1> QED
  BY <1>1, <1>2, <1>3, <1>4, <1>5, <1>6, <1>7, <1>8 DEF Next

LEMMA PastStays == TypeOK /\ TypeOK' /\ ShownIsPast /\ Grows => ShownIsPast'
<1> SUFFICES ASSUME TypeOK, TypeOK', ShownIsPast, Grows, NEW t \in Task
             PROVE  /\ shown'[t] # <<>> => IsPast(shown'[t].events, task'[t].events)
                    /\ coming'[t] # <<>> => IsPast(coming'[t].events, task'[t].events)
                    /\ shown'[t] # <<>> /\ coming'[t] # <<>> =>
                         IsPast(shown'[t].events, coming'[t].events)
  BY DEF ShownIsPast
<1>1. /\ task[t].events \in Log /\ task'[t].events \in Log
      /\ IsPast(task[t].events, task'[t].events)
  BY LogsTyped DEF Grows, TypeOK, TaskRecord, Log
<1>2. ASSUME NEW c, c \in {shown[t], coming[t]}, c # <<>>
      PROVE  c.events \in Log /\ IsPast(c.events, task'[t].events)
             /\ IsPast(c.events, task[t].events)
  <2>1. c.events \in Log /\ IsPast(c.events, task[t].events)
    BY <1>2, LogsTyped DEF ShownIsPast
  <2> QED
    BY <1>1, <2>1, PastOfPast
<1>3. CASE shown'[t] = shown[t] /\ coming'[t] = coming[t]
  BY <1>2, <1>3 DEF ShownIsPast
<1>4. CASE shown'[t] = shown[t] /\ coming'[t] = task[t] /\ task'[t] = task[t]
  BY <1>1, <1>2, <1>4
<1>5. CASE coming'[t] = <<>> /\ coming[t] # <<>> /\ shown'[t] \in {coming[t], <<>>}
  BY <1>2, <1>5
<1> QED
  BY <1>3, <1>4, <1>5 DEF Grows

\* A copy is never of another task's log, or of a log that was rewritten.
LEMMA ShownIsAlwaysPast == Spec => []ShownIsPast
<1>1. Init => ShownIsPast
  BY DEF Init, ShownIsPast
<1>2. TypeOK /\ TypeOK' /\ ShownIsPast /\ [Next]_vars => ShownIsPast'
  BY NextGrows, PastStays
<1> QED
  BY <1>1, <1>2, TaskPageTyped, PTL DEF Spec

\* Whenever a newer copy comes on screen, by whichever way it was loaded, the feed
\* keeps its items in place, changes the last at most, and holds each stored event
\* once, in the order of arrival.
THEOREM FeedOnlyGrows == Spec => TranscriptGrows
<1> DEFINE Grown ==
       \A t \in Task :
         shown'[t] \notin {shown[t], <<>>} =>
           LET before == IF shown[t] = <<>> THEN <<>> ELSE Transcript(shown[t].events)
               after  == Transcript(shown'[t].events)
           IN  /\ Len(after) >= Len(before)
               /\ \A n \in 1 .. Len(before) - 1 : after[n] = before[n]
               /\ Flattened(after) = [i \in 1 .. Len(shown'[t].events) |-> i]
<1>1. TypeOK /\ ShownIsPast /\ [Next]_vars => [Grown]_vars
  <2> SUFFICES ASSUME TypeOK, ShownIsPast, [Next]_vars, NEW t \in Task,
                      shown'[t] \notin {shown[t], <<>>}
               PROVE  LET before == IF shown[t] = <<>> THEN <<>> ELSE Transcript(shown[t].events)
                          after  == Transcript(shown'[t].events)
                      IN  /\ Len(after) >= Len(before)
                          /\ \A n \in 1 .. Len(before) - 1 : after[n] = before[n]
                          /\ Flattened(after) = [i \in 1 .. Len(shown'[t].events) |-> i]
    OBVIOUS
  <2> DEFINE before == IF shown[t] = <<>> THEN <<>> ELSE Transcript(shown[t].events)
             u == shown'[t].events
             after == Transcript(u)
  <2>1. shown'[t] = coming[t] /\ coming[t] # <<>>
    BY NextGrows DEF Grows
  <2>2. u \in Log
    BY <2>1, LogsTyped
  <2>3. Flattened(after) = [i \in 1 .. Len(u) |-> i]
    BY <2>2, FeedHolds
  <2>4. Stays(before, after)
    <3>1. CASE shown[t] = <<>>
      <4>1. before = <<>> /\ after \in Seq(Groups)
        BY <2>2, <3>1, FeedTyped
      <4> HIDE DEF after, before
      <4> QED
        BY <4>1 DEF Stays
    <3>2. CASE shown[t] # <<>>
      <4>1. shown[t].events \in Log /\ IsPast(shown[t].events, u)
        BY <2>1, <3>2, LogsTyped DEF ShownIsPast
      <4> QED
        BY <2>2, <3>2, <4>1, FeedStays
    <3> QED
      BY <3>1, <3>2
  <2>5. before \in Seq(Groups) /\ after \in Seq(Groups)
    <3>1. CASE shown[t] = <<>>
      BY <2>2, <3>1, FeedTyped
    <3>2. CASE shown[t] # <<>>
      BY <2>2, <3>2, FeedTyped, LogsTyped
    <3> QED
      BY <3>1, <3>2
  <2> HIDE DEF before, after, u
  <2>6. Len(after) >= Len(before) /\ \A n \in 1 .. Len(before) - 1 : after[n] = before[n]
    BY <2>4, <2>5 DEF Stays
  <2> QED
    BY <2>3, <2>6 DEF before, after, u
<1> QED
  BY <1>1, TaskPageTyped, ShownIsAlwaysPast, PTL DEF Spec, TranscriptGrows

=============================================================================
