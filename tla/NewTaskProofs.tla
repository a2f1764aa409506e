----------------------------- MODULE NewTaskProofs -----------------------------
(***************************************************************************)
(* Proofs about NewTask, for any models, runners, projects and bounds: a   *)
(* visit queues one task, what is sent is what the screen shows, choices   *)
(* survive.                                                                *)
(*                                                                         *)
(* A press needs `pending` to be "none".  That it is not while a call or a *)
(* queued task of the visit is there (Released) rests on a visit having    *)
(* one call under way (OneCall), and on the only call that may stand       *)
(* beside a queued task being its own (SubmitStands).                      *)
(***************************************************************************)
EXTENDS NewTask, FiniteSetTheorems, TLAPS

\* A call whose answer the page has not seen.
Live(k) == k.phase # "leaving"

HeardIn(v) == {t \in tasks : t.visit = v /\ t.heard}

OneCall == \A k, l \in calls : Live(k) /\ Live(l) /\ k.visit = l.visit => k = l

OneTask == \A v \in 1 .. MaxVisits : \A t, u \in HeardIn(v) : t = u

PastVisits == (\A k \in calls : k.visit <= visit) /\ (\A t \in tasks : t.visit <= visit)

\* A call beside a queued task of its visit is the one that queued it.
SubmitStands ==
  \A k \in calls : Live(k) /\ HeardIn(k.visit) # {} =>
    k.kind = "submit" /\ k.phase = "stored"

Released ==
  page = "home" /\ pending = "none" =>
    /\ \A k \in calls : Live(k) => k.visit # visit
    /\ HeardIn(visit) = {}

\* A specification travels to the orchestrator and no further.
SpecsAreSent == \A k \in calls : k.phase # "sent" => k.spec = Unset

Calls == OneCall /\ OneTask /\ PastVisits /\ SubmitStands /\ Released /\ SpecsAreSent

\* The runner picked could run the model when the list was loaded.
PickedCanRun ==
  /\ page = "elsewhere" => runner = AutoRunner
  /\ runner # AutoRunner /\ ~reloaded => CanRun(runner, prefs.model)

\* The choices are those the browser gives back.
Kept ==
  /\ storage => chosen = ReadPreferences
  /\ ChoicesSurvive

Inv == TypeOK /\ Calls /\ PickedCanRun /\ Kept

-----------------------------------------------------------------------------
(* What a step does to the calls: nothing, one call more, or one call goes *)
(* on.                                                                     *)

LEMMA BoundsAreNat ==
  /\ MaxTexts \in Nat /\ MaxVisits \in Nat /\ MaxChoices \in Nat
  /\ MaxPresses \in Nat /\ MaxChanges \in Nat /\ MaxFaults \in Nat
BY ChoicesAreTyped

\* Calls that were superseded are gone, or the page is.
LEMMA CallsStay ==
  ASSUME CallsTyped, Calls, calls' \in SUBSET calls, UNCHANGED <<tasks, visit>>,
         page' = "elsewhere" \/ UNCHANGED <<page, pending>>
  PROVE  Calls'
<1>1. \A v : HeardIn(v)' = HeardIn(v)
  BY DEF HeardIn
<1>2. OneCall' /\ OneTask' /\ PastVisits' /\ SubmitStands' /\ SpecsAreSent'
  BY <1>1 DEF Calls, OneCall, OneTask, PastVisits, SubmitStands, SpecsAreSent, Live
<1>3. Released'
  BY <1>1 DEF Calls, Released, Live
<1>4. QED
  BY <1>2, <1>3 DEF Calls

\* The page is mounted: nothing of the new visit is there.
LEMMA CallsBefore ==
  ASSUME CallsTyped, Calls, calls' \in SUBSET calls, UNCHANGED tasks, visit' = visit + 1
  PROVE  Calls'
<1>1. \A v : HeardIn(v)' = HeardIn(v)
  BY DEF HeardIn
<1>2. /\ visit \in Nat
      /\ \A k \in calls : k.visit \in Nat /\ k.visit <= visit
      /\ \A t \in tasks : t.visit \in Nat /\ t.visit <= visit
  BY BoundsAreNat DEF CallsTyped, Call, Task, Calls, PastVisits
<1>3. PastVisits'
  BY <1>2 DEF PastVisits
<1>4. OneCall' /\ OneTask' /\ SubmitStands' /\ SpecsAreSent'
  BY <1>1 DEF Calls, OneCall, OneTask, SubmitStands, SpecsAreSent, Live
<1>5. Released'
  <2>1. \A k \in calls' : k.visit # visit'
    BY <1>2
  <2>2. HeardIn(visit)' = {}
    BY <1>2 DEF HeardIn
  <2>3. QED
    BY <2>1, <2>2 DEF Released
<1>6. QED
  BY <1>3, <1>4, <1>5 DEF Calls

\* A press makes a call.
LEMMA CallsBegin ==
  ASSUME CallsTyped, Calls, page = "home", pending = "none", pending' # "none",
         NEW n \in Call, n.visit = visit, n.phase = "sent",
         calls' = calls \cup {n}, UNCHANGED <<tasks, visit, page>>
  PROVE  Calls'
<1>1. \A v : HeardIn(v)' = HeardIn(v)
  BY DEF HeardIn
<1>2. (\A k \in calls : Live(k) => k.visit # visit) /\ HeardIn(visit) = {}
  BY DEF Calls, Released
<1>3. OneCall'
  BY <1>2 DEF Calls, OneCall, Live
<1>4. OneTask' /\ SubmitStands' /\ SpecsAreSent'
  BY <1>1, <1>2 DEF Calls, OneTask, SubmitStands, SpecsAreSent, Live
<1>5. PastVisits' /\ Released'
  BY DEF Calls, PastVisits, Released, CallsTyped
<1>6. QED
  BY <1>3, <1>4, <1>5 DEF Calls

\* The orchestrator takes a call or refuses it.
LEMMA CallsGoOn ==
  ASSUME CallsTyped, Calls, NEW k \in calls, k.phase = "sent",
         NEW n \in Call, n.visit = k.visit, n.kind = k.kind, n.spec = Unset,
         n.phase \in {"stored", "refused"},
         calls' = (calls \ {k}) \cup {n},
         NEW STATE queued, queued \subseteq Task, tasks' = tasks \cup queued,
         \A t, u \in queued : t = u,
         \A t \in queued : /\ t.visit = k.visit
                           /\ t.heard => n.kind = "submit" /\ n.phase = "stored",
         UNCHANGED <<visit, page, pending>>
  PROVE  Calls'
<1>1. HeardIn(k.visit) = {}
  BY DEF Calls, SubmitStands, Live
<1>2. \A v : HeardIn(v)' = HeardIn(v) \cup {t \in queued : t.visit = v /\ t.heard}
  BY DEF HeardIn
<1>3. \A v : v # k.visit => HeardIn(v)' = HeardIn(v)
  BY <1>2
<1>4. HeardIn(k.visit)' = {t \in queued : t.heard}
  BY <1>1, <1>2
<1>5. OneCall'
  BY DEF Calls, OneCall, Live
<1>6. OneTask'
  <2>1. ASSUME NEW v \in 1 .. MaxVisits, NEW t \in HeardIn(v)', NEW u \in HeardIn(v)'
        PROVE  t = u
    <3>1. CASE v = k.visit
      BY <1>4, <2>1, <3>1
    <3>2. CASE v # k.visit
      BY <1>3, <2>1, <3>2 DEF Calls, OneTask
    <3>3. QED
      BY <3>1, <3>2
  <2>2. QED
    BY <2>1 DEF OneTask
<1>7. PastVisits'
  BY DEF Calls, PastVisits
<1>8. SubmitStands'
  <2> SUFFICES ASSUME NEW l \in calls', Live(l), HeardIn(l.visit)' # {}
               PROVE  l.kind = "submit" /\ l.phase = "stored"
    BY DEF SubmitStands, Live
  <2>1. CASE l = n
    BY <1>4, <2>1
  <2>2. CASE l # n
    <3>1. l \in calls /\ l.visit # k.visit
      BY <2>2 DEF Calls, OneCall, Live
    <3>2. QED
      BY <1>3, <3>1 DEF Calls, SubmitStands
  <2>3. QED
    BY <2>1, <2>2
<1>9. Released'
  <2> SUFFICES ASSUME page = "home", pending = "none"
               PROVE  /\ \A l \in calls' : Live(l) => l.visit # visit
                      /\ HeardIn(visit)' = {}
    BY DEF Released, Live
  <2>1. k.visit # visit /\ HeardIn(visit) = {} /\ \A l \in calls : Live(l) => l.visit # visit
    BY DEF Calls, Released, Live
  <2>2. QED
    BY <1>3, <2>1
<1>10. SpecsAreSent'
  BY DEF Calls, SpecsAreSent
<1>11. QED
  BY <1>5, <1>6, <1>7, <1>8, <1>9, <1>10 DEF Calls

\* The page has the answer: the call is gone, or a navigation.  The controls are
\* released unless a task was queued.
LEMMA CallsEnd ==
  ASSUME CallsTyped, Calls, NEW k \in calls, Live(k),
         NEW left \in SUBSET Call,
         \A n \in left : n.visit = k.visit /\ n.phase = "leaving" /\ n.spec = Unset,
         calls' \subseteq (calls \ {k}) \cup left,
         UNCHANGED <<tasks, visit, page>>,
         \/ pending' = pending
         \/ pending' = "none" /\ k.visit = visit /\ ~(k.kind = "submit" /\ k.phase = "stored")
  PROVE  Calls'
<1>1. \A v : HeardIn(v)' = HeardIn(v)
  BY DEF HeardIn
<1>2. \A l \in calls' : /\ l.visit <= visit
                        /\ Live(l) => l \in calls /\ l # k
                        /\ l.phase # "sent" => l.spec = Unset
  BY DEF Calls, PastVisits, SpecsAreSent, Live
<1>3. OneCall' /\ OneTask' /\ PastVisits' /\ SubmitStands' /\ SpecsAreSent'
  BY <1>1, <1>2 DEF Calls, OneCall, OneTask, PastVisits, SubmitStands, SpecsAreSent, Live
<1>4. Released'
  <2>1. CASE pending' = pending
    BY <1>1, <1>2, <2>1 DEF Calls, Released, Live
  <2>2. CASE /\ k.visit = visit
             /\ ~(k.kind = "submit" /\ k.phase = "stored")
    BY <1>1, <1>2, <2>2 DEF Calls, OneCall, SubmitStands, Released, Live
  <2>3. QED
    BY <2>1, <2>2
<1>5. QED
  BY <1>3, <1>4 DEF Calls

-----------------------------------------------------------------------------
(* What a step does to the form.                                           *)

Form == FormTyped /\ PickedCanRun /\ Kept

LEMMA FormStays ==
  ASSUME Form, UNCHANGED <<fleet, storage, stored, chosen, listed, reloaded, prefs, runner,
                           project, branch, branches, mode, choices, changes, page>>
  PROVE  Form'
BY DEF Form, FormTyped, PickedCanRun, Kept, ReadPreferences, CanRun, ChoicesSurvive

LEMMA ReadIsTyped ==
  ASSUME FormTyped
  PROVE  ReadPreferences \in Preferences /\ Defaults \in Preferences
<1>1. Defaults \in Preferences
  BY ChoicesAreTyped DEF Defaults, Preferences, Configurations
<1>2. ASSUME stored # Unset, stored.model \in Model PROVE stored \in Preferences
  BY <1>2 DEF FormTyped, StoredPreferences, Preferences
<1>3. QED
  BY <1>1, <1>2 DEF ReadPreferences

LEMMA ChoiceIsTyped ==
  ASSUME NEW STATE p, p \in Preferences, NEW m \in Model, NEW e \in Effort
  PROVE  /\ [p EXCEPT !.model = m] \in Preferences
         /\ [p EXCEPT !.model = m].model = m
         /\ [p EXCEPT !.conf[m] = e] \in Preferences
         /\ [p EXCEPT !.conf[m] = e].model = p.model
BY DEF Preferences, Configurations

\* What is saved is what is read.
LEMMA SavedIsRead ==
  ASSUME NEW p \in Preferences, storage, UNCHANGED storage, stored' = p
  PROVE  ReadPreferences' = p
<1>1. p # Unset /\ p.model \in Model
  BY ChoicesAreTyped DEF Preferences, StoredPreferences
<1>2. QED
  BY <1>1 DEF ReadPreferences

LEMMA ServerKeeps ==
  ASSUME Inv, NEW r \in Runner, RunnerChanges(r) PROVE Inv'
<1>1. \E es \in SUBSET Executor : fleet' = [fleet EXCEPT ![r] = es]
  BY DEF RunnerChanges
<1>2. /\ UNCHANGED <<storage, stored, chosen, page, visit, listed, reloaded, prefs, runner,
                     branch, branches, project, mode, draft, pending, calls, tasks, chats,
                     written, presses, choices, faults>>
      /\ changes < MaxChanges /\ changes' = changes + 1
  BY DEF RunnerChanges, browser, form, counts
<1>3. FormTyped'
  BY <1>1, <1>2, BoundsAreNat DEF Inv, TypeOK, FormTyped
<1>4. PickedCanRun' /\ Kept'
  BY <1>2 DEF Inv, PickedCanRun, Kept, ReadPreferences, CanRun, ChoicesSurvive
<1>5. CallsTyped'
  BY <1>2 DEF Inv, TypeOK, CallsTyped
<1>6. Calls'
  BY <1>2, CallsStay DEF Inv, TypeOK
<1>7. QED
  BY <1>3, <1>4, <1>5, <1>6 DEF Inv, TypeOK

LEMMA UnmountKeeps ==
  ASSUME Inv, Unmount, calls' \in SUBSET calls PROVE Inv'
<1>1. /\ UNCHANGED <<fleet, tasks, chats, changes, storage, stored, chosen, visit, listed,
                     written, presses, choices, faults>>
      /\ page' = "elsewhere" /\ prefs' = Defaults /\ runner' = AutoRunner /\ project' = Unset
      /\ branch' = "main" /\ branches' = {"main"} /\ mode' = "chat"
      /\ draft' = Empty /\ pending' = "none" /\ reloaded' = FALSE
  <2>1. UNCHANGED <<fleet, tasks, chats, changes, storage, stored, chosen, visit, listed,
                    written, presses, choices, faults>>
    BY DEF Unmount, server, browser, counts
  <2>2. QED
    BY <2>1 DEF Unmount
<1>2. FormTyped'
  <2>1. prefs' \in Preferences
    BY <1>1, ReadIsTyped DEF Inv, TypeOK
  <2>2. branches' \subseteq Branch /\ branch' \in branches'
    BY <1>1, ChoicesAreTyped
  <2>3. reloaded' \in BOOLEAN
    BY <1>1
  <2>4. QED
    BY <1>1, <2>1, <2>2, <2>3 DEF Inv, TypeOK, FormTyped, AutoRunner
<1>3. PickedCanRun'
  BY <1>1 DEF PickedCanRun
<1>4. Kept'
  BY <1>1 DEF Inv, Kept, ReadPreferences, ChoicesSurvive
<1>5. CallsTyped'
  BY <1>1 DEF Inv, TypeOK, CallsTyped
<1>6. Calls'
  BY <1>1, CallsStay DEF Inv, TypeOK
<1>7. QED
  BY <1>2, <1>3, <1>4, <1>5, <1>6 DEF Inv, TypeOK

LEMMA MountKeeps ==
  ASSUME Inv, NEW repo \in Repository \cup {Unset}, NEW brief \in BOOLEAN, Mount(repo, brief)
  PROVE  Inv'
<1>1. /\ page = "elsewhere" /\ visit < MaxVisits /\ visit' = visit + 1
      /\ brief => written < MaxTexts
      /\ page' = "home" /\ project' = repo
      /\ written' = IF brief THEN written + 1 ELSE written
      /\ draft' = IF brief THEN written' ELSE Empty
      /\ mode' = IF brief THEN "task" ELSE "chat"
      /\ prefs' = ReadPreferences
      /\ chosen' = IF storage THEN chosen ELSE Defaults
      /\ listed' = fleet
      /\ calls' \in SUBSET calls
      /\ UNCHANGED <<fleet, tasks, chats, changes, storage, stored, runner, branch, branches,
                     reloaded, pending, presses, choices, faults>>
  BY DEF Mount, server, counts
<1>2. FormTyped'
  BY <1>1, ReadIsTyped DEF Inv, TypeOK, FormTyped
<1>3. PickedCanRun'
  BY <1>1 DEF Inv, PickedCanRun
<1>4. Kept'
  <2>1. ReadPreferences' = ReadPreferences
    BY <1>1 DEF ReadPreferences
  <2>2. CASE storage
    BY <1>1, <2>1, <2>2 DEF Inv, Kept, ChoicesSurvive
  <2>3. CASE ~storage
    BY <1>1, <2>3 DEF Kept, ChoicesSurvive, ReadPreferences
  <2>4. QED
    BY <2>2, <2>3
<1>5. CallsTyped'
  <2>1. visit' \in 0 .. MaxVisits /\ visit' # 0 /\ written' \in 0 .. MaxTexts
    BY <1>1, BoundsAreNat DEF Inv, TypeOK, CallsTyped
  <2>2. draft' \in Text \cup {Empty}
    BY <1>1, BoundsAreNat DEF Inv, TypeOK, CallsTyped, Text
  <2>3. QED
    BY <1>1, <2>1, <2>2 DEF Inv, TypeOK, CallsTyped
<1>6. Calls'
  BY <1>1, CallsBefore DEF Inv, TypeOK
<1>7. QED
  BY <1>2, <1>3, <1>4, <1>5, <1>6 DEF Inv, TypeOK

LEMMA ReloadKeeps == ASSUME Inv, Reload PROVE Inv'
<1>1. /\ UNCHANGED <<fleet, tasks, chats, changes, storage, stored, chosen, page, visit,
                     prefs, runner, branch, branches, project, mode, draft, pending, calls,
                     written, presses, choices, faults>>
      /\ listed' = fleet /\ reloaded' = TRUE
  BY DEF Reload, server, browser, form, counts
<1>2. FormTyped'
  BY <1>1 DEF Inv, TypeOK, FormTyped
<1>3. PickedCanRun' /\ Kept'
  BY <1>1 DEF Inv, PickedCanRun, Kept, ReadPreferences, ChoicesSurvive
<1>4. CallsTyped'
  BY <1>1 DEF Inv, TypeOK, CallsTyped
<1>5. Calls'
  BY <1>1, CallsStay DEF Inv, TypeOK
<1>6. QED
  BY <1>2, <1>3, <1>4, <1>5 DEF Inv, TypeOK

-----------------------------------------------------------------------------
(* The choices.                                                            *)

\* A choice leaves the calls alone, but for a navigation that Pick supersedes.
LEMMA ChoosingKeepsCalls ==
  ASSUME Inv, NEW m, Choose(m), calls' \in SUBSET calls
  PROVE  /\ CallsTyped' /\ Calls'
         /\ choices' \in 0 .. MaxChoices
         /\ UNCHANGED <<fleet, changes, storage, listed, mode, page>>
         /\ page = "home"
<1>1. /\ UNCHANGED <<fleet, tasks, chats, changes, storage, page, visit, listed, mode, draft,
                     pending, written, presses, faults>>
      /\ page = "home" /\ choices < MaxChoices /\ choices' = choices + 1
  BY DEF Choose, server
<1>2. choices' \in 0 .. MaxChoices
  BY <1>1, BoundsAreNat DEF Inv, TypeOK, FormTyped
<1>3. CallsTyped'
  BY <1>1 DEF Inv, TypeOK, CallsTyped
<1>4. Calls'
  BY <1>1, CallsStay DEF Inv, TypeOK
<1>5. QED
  BY <1>1, <1>2, <1>3, <1>4

\* The preferences shown are chosen, saved and sent.
LEMMA PreferencesKeep ==
  ASSUME Inv, Choose("task"), NEW p \in Preferences, prefs' = p, chosen' = p,
         stored' = IF storage THEN p ELSE stored,
         UNCHANGED <<reloaded, project, branch, branches, calls>>,
         \/ runner' = runner /\ p.model = prefs.model
         \/ runner' = IF runner # AutoRunner /\ ~CanRun(runner, p.model)
                      THEN AutoRunner ELSE runner
  PROVE  Inv'
<1>1. /\ CallsTyped' /\ Calls' /\ choices' \in 0 .. MaxChoices /\ page = "home"
      /\ UNCHANGED <<fleet, changes, storage, listed, mode, page>>
  BY ChoosingKeepsCalls
<1>2. FormTyped'
  <2>1. p \in StoredPreferences
    BY DEF Preferences, StoredPreferences
  <2>2. runner' \in Runner \cup {AutoRunner}
    BY DEF Inv, TypeOK, FormTyped
  <2>3. stored' \in StoredPreferences \cup {Unset}
    BY <2>1 DEF Inv, TypeOK, FormTyped
  <2>4. QED
    BY <1>1, <2>2, <2>3 DEF Inv, TypeOK, FormTyped
<1>3. PickedCanRun'
  BY <1>1 DEF Inv, PickedCanRun, CanRun
<1>4. Kept'
  <2>1. CASE storage
    <3>1. ReadPreferences' = p
      BY <1>1, <2>1, SavedIsRead
    <3>2. QED
      BY <3>1 DEF Kept, ChoicesSurvive
  <2>2. CASE ~storage
    BY <1>1, <2>2 DEF Kept, ChoicesSurvive
  <2>3. QED
    BY <2>1, <2>2
<1>5. QED
  BY <1>1, <1>2, <1>3, <1>4 DEF Inv, TypeOK

LEMMA ChangeModelKeeps == ASSUME Inv, NEW model \in Model, ChangeModel(model) PROVE Inv'
<1> DEFINE p == [prefs EXCEPT !.model = model]
<1>1. /\ page = "home" /\ prefs \in Preferences /\ chosen = prefs
  BY DEF ChangeModel, Choose, Inv, TypeOK, FormTyped, Kept, ChoicesSurvive
<1>2. \E e : e \in Effort
  BY ChoicesAreTyped
<1>3. p \in Preferences /\ p.model = model
  BY <1>1, <1>2, ChoiceIsTyped
<1>4. /\ Choose("task") /\ prefs' = p /\ chosen' = p
      /\ stored' = IF storage THEN p ELSE stored
      /\ runner' = IF runner # AutoRunner /\ ~CanRun(runner, model)
                   THEN AutoRunner ELSE runner
      /\ UNCHANGED <<reloaded, project, branch, branches, calls>>
  BY <1>1 DEF ChangeModel, SavePreferences
<1> HIDE DEF p
<1>5. QED
  BY <1>3, <1>4, PreferencesKeep

LEMMA ChangeModelConfigurationKeeps ==
  ASSUME Inv, NEW model \in Model, NEW effort \in Effort,
         ChangeModelConfiguration(model, effort)
  PROVE  Inv'
<1> DEFINE p == [prefs EXCEPT !.conf[model] = effort]
<1>1. /\ page = "home" /\ prefs \in Preferences /\ chosen = prefs
  BY DEF ChangeModelConfiguration, Choose, Inv, TypeOK, FormTyped, Kept, ChoicesSurvive
<1>2. p \in Preferences /\ p.model = prefs.model
  BY <1>1, ChoiceIsTyped
<1>3. /\ Choose("task") /\ prefs' = p /\ chosen' = p
      /\ stored' = IF storage THEN p ELSE stored
      /\ UNCHANGED <<runner, reloaded, project, branch, branches, calls>>
  BY <1>1 DEF ChangeModelConfiguration, SavePreferences
<1> HIDE DEF p
<1>4. QED
  BY <1>2, <1>3, PreferencesKeep

\* The other choices do not touch the preferences.
LEMMA FormChoiceKeeps ==
  ASSUME Inv, NEW m, Choose(m), calls' \in SUBSET calls, UNCHANGED <<stored, chosen, prefs>>,
         runner' \in Runner \cup {AutoRunner}, reloaded' \in BOOLEAN,
         project' \in Repository \cup {Unset},
         branch' \in branches' /\ branches' \subseteq Branch,
         runner' # AutoRunner /\ ~reloaded' => CanRun(runner', prefs.model)
  PROVE  Inv'
<1>1. /\ CallsTyped' /\ Calls' /\ choices' \in 0 .. MaxChoices /\ page = "home"
      /\ UNCHANGED <<fleet, changes, storage, listed, mode, page>>
  BY ChoosingKeepsCalls
<1>2. FormTyped'
  BY <1>1 DEF Inv, TypeOK, FormTyped
<1>3. PickedCanRun'
  BY <1>1 DEF PickedCanRun, CanRun
<1>4. Kept'
  BY <1>1 DEF Inv, Kept, ReadPreferences, ChoicesSurvive
<1>5. QED
  BY <1>1, <1>2, <1>3, <1>4 DEF Inv, TypeOK

LEMMA ChangeRunnerKeeps ==
  ASSUME Inv, NEW r \in Runner \cup {AutoRunner}, ChangeRunner(r) PROVE Inv'
<1>1. /\ Choose("task") /\ runner' = r /\ reloaded' = FALSE
      /\ r # AutoRunner => CanRun(r, prefs.model)
      /\ UNCHANGED <<stored, chosen, prefs, project, branch, branches, calls>>
  BY DEF ChangeRunner
<1>2. /\ project' \in Repository \cup {Unset} /\ reloaded' \in BOOLEAN
      /\ branch' \in branches' /\ branches' \subseteq Branch
  BY <1>1 DEF Inv, TypeOK, FormTyped
<1>3. QED
  BY <1>1, <1>2, FormChoiceKeeps

LEMMA ChangeBranchKeeps == ASSUME Inv, NEW b \in Branch, ChangeBranch(b) PROVE Inv'
<1>1. /\ Choose("task") /\ branch' = b /\ branches' = branches \cup {b}
      /\ UNCHANGED <<stored, chosen, prefs, runner, reloaded, project, calls>>
  BY DEF ChangeBranch
<1>2. /\ project' \in Repository \cup {Unset} /\ reloaded' \in BOOLEAN
      /\ runner' \in Runner \cup {AutoRunner}
      /\ branch' \in branches' /\ branches' \subseteq Branch
  BY <1>1 DEF Inv, TypeOK, FormTyped
<1>3. runner' # AutoRunner /\ ~reloaded' => CanRun(runner', prefs.model)
  BY <1>1 DEF Inv, PickedCanRun, Choose
<1>4. QED
  BY <1>1, <1>2, <1>3, FormChoiceKeeps

LEMMA PickKeeps == ASSUME Inv, NEW repo \in Repository, Pick(repo) PROVE Inv'
<1>1. PICK m \in {"chat", "task"} : Choose(m)
  BY DEF Pick
<1>2. /\ project' = repo /\ calls' \in SUBSET calls
      /\ UNCHANGED <<stored, chosen, prefs, runner, reloaded, branch, branches>>
  BY DEF Pick
<1>3. /\ project' \in Repository \cup {Unset} /\ reloaded' \in BOOLEAN
      /\ runner' \in Runner \cup {AutoRunner}
      /\ branch' \in branches' /\ branches' \subseteq Branch
  BY <1>2 DEF Inv, TypeOK, FormTyped
<1>4. runner' # AutoRunner /\ ~reloaded' => CanRun(runner', prefs.model)
  BY <1>1, <1>2 DEF Inv, PickedCanRun, Choose
<1>5. QED
  BY <1>1, <1>2, <1>3, <1>4, FormChoiceKeeps

LEMMA ToggleModeKeeps == ASSUME Inv, ToggleMode PROVE Inv'
<1>1. /\ UNCHANGED <<fleet, tasks, chats, changes, storage, stored, chosen, page, visit,
                     listed, reloaded, prefs, runner, branch, branches, project, draft,
                     pending, calls, written, presses, choices, faults>>
      /\ mode' \in {"chat", "task"}
  BY DEF ToggleMode, server, browser, form, counts
<1>2. FormTyped' /\ CallsTyped'
  BY <1>1 DEF Inv, TypeOK, FormTyped, CallsTyped
<1>3. PickedCanRun' /\ Kept'
  BY <1>1 DEF Inv, PickedCanRun, Kept, ReadPreferences, CanRun, ChoicesSurvive
<1>4. Calls'
  BY <1>1, CallsStay DEF Inv, TypeOK
<1>5. QED
  BY <1>2, <1>3, <1>4 DEF Inv, TypeOK

-----------------------------------------------------------------------------
(* The calls.                                                              *)

LEMMA TypeKeeps == ASSUME Inv, Type PROVE Inv'
<1>1. /\ UNCHANGED <<fleet, tasks, chats, changes, storage, stored, chosen, page, visit,
                     listed, reloaded, prefs, runner, branch, branches, project, mode,
                     pending, calls, presses, choices, faults>>
      /\ written < MaxTexts /\ written' = written + 1 /\ draft' = written + 1
  BY DEF Type, server, browser, form, counts
<1>2. Form'
  BY <1>1, FormStays DEF Inv, TypeOK, Form
<1>3. written' \in 0 .. MaxTexts /\ draft' \in Text
  BY <1>1, BoundsAreNat DEF Inv, TypeOK, CallsTyped, Text
<1>4. CallsTyped'
  BY <1>1, <1>3 DEF Inv, TypeOK, CallsTyped
<1>5. Calls'
  BY <1>1, CallsStay DEF Inv, TypeOK
<1>6. QED
  BY <1>2, <1>4, <1>5 DEF Inv, TypeOK, Form

\* The call that a press makes.
PressCall(kind, spec) ==
  [press |-> presses + 1, visit |-> visit, text |-> draft, kind |-> kind, spec |-> spec,
   phase |-> "sent"]

LEMMA PressKeeps ==
  ASSUME Inv, NEW kind \in {"ask", "enhance", "submit"}, NEW STATE spec,
         spec \in NewTaskSpec \cup {Unset}, Press(kind, spec), draft' \in {draft, Empty}
  PROVE  Inv'
<1> DEFINE n == PressCall(kind, spec)
<1>1. /\ UNCHANGED <<fleet, tasks, chats, changes, storage, stored, chosen, page, visit,
                     listed, reloaded, prefs, runner, branch, branches, project, mode,
                     written, choices, faults>>
      /\ page = "home" /\ draft # Empty /\ pending = "none" /\ pending' = kind
      /\ presses < MaxPresses /\ presses' = presses + 1
      /\ calls' = calls \cup {n}
  BY DEF Press, PressCall, server, browser, form
<1>2. /\ presses + 1 \in 1 .. MaxPresses /\ visit \in 1 .. MaxVisits /\ draft \in Text
      /\ presses' \in 0 .. MaxPresses
  BY <1>1, BoundsAreNat DEF Inv, TypeOK, CallsTyped
<1>3. n \in Call /\ n.visit = visit /\ n.phase = "sent"
  BY <1>2 DEF PressCall, Call
<1> HIDE DEF n
<1>4. Form'
  BY <1>1, FormStays DEF Inv, TypeOK, Form
<1>5. CallsTyped'
  BY <1>1, <1>2, <1>3 DEF Inv, TypeOK, CallsTyped
<1>6. Calls'
  BY <1>1, <1>3, CallsBegin DEF Inv, TypeOK
<1>7. QED
  BY <1>4, <1>5, <1>6 DEF Inv, TypeOK, Form

LEMMA SpecificationIsTyped ==
  ASSUME Inv, project # Unset, draft # Empty
  PROVE  Specification \in NewTaskSpec
<1>1. /\ branch \in Branch /\ prefs.model \in Model /\ draft \in Text
      /\ project \in Repository /\ CompatibleRunner \in Runner \cup {AutoRunner}
  BY DEF Inv, TypeOK, FormTyped, CallsTyped, Preferences, CompatibleRunner
<1>2. SelectedEffort \in Effort
  BY ChoicesAreTyped DEF Inv, TypeOK, FormTyped, Preferences, Configurations, SelectedEffort
<1>3. QED
  BY <1>1, <1>2 DEF Specification, NewTaskSpec

LEMMA SendKeeps == ASSUME Inv, Ask \/ Enhance \/ Submit PROVE Inv'
<1>1. CASE Ask
  BY <1>1, PressKeeps DEF Ask
<1>2. CASE Enhance
  BY <1>2, PressKeeps DEF Enhance
<1>3. CASE Submit
  <2>1. Specification \in NewTaskSpec \cup {Unset}
    BY <1>3, SpecificationIsTyped DEF Submit, Press
  <2>2. QED
    BY <1>3, <2>1, PressKeeps DEF Submit
<1>4. QED
  BY <1>1, <1>2, <1>3

\* The orchestrator has the call; what it queued is `queued`.
LEMMA ServedKeeps ==
  ASSUME Inv, NEW k \in calls, k.phase = "sent", NEW phase \in {"stored", "refused"},
         calls' = (calls \ {k}) \cup {[k EXCEPT !.phase = phase, !.spec = Unset]},
         NEW STATE queued, queued \subseteq Task, tasks' = tasks \cup queued,
         \A t, u \in queued : t = u,
         \A t \in queued : /\ t.visit = k.visit
                           /\ t.heard => k.kind = "submit" /\ phase = "stored",
         chats' \subseteq Text, faults' \in 0 .. MaxFaults,
         UNCHANGED <<fleet, changes, storage, stored, chosen, page, visit, listed, reloaded,
                     prefs, runner, branch, branches, project, mode, draft, pending, written,
                     presses, choices>>
  PROVE  Inv'
<1> DEFINE n == [k EXCEPT !.phase = phase, !.spec = Unset]
<1>1. k \in Call
  BY DEF Inv, TypeOK, CallsTyped
<1>2. n \in Call /\ n.visit = k.visit /\ n.kind = k.kind /\ n.phase = phase /\ n.spec = Unset
  BY <1>1 DEF Call
<1> HIDE DEF n
<1>3. calls' = (calls \ {k}) \cup {n}
  BY DEF n
<1>4. Form'
  BY FormStays DEF Inv, TypeOK, Form
<1>5. CallsTyped'
  BY <1>2, <1>3 DEF Inv, TypeOK, CallsTyped
<1>6. Calls'
  BY <1>2, <1>3, CallsGoOn DEF Inv, TypeOK
<1>7. QED
  BY <1>4, <1>5, <1>6 DEF Inv, TypeOK, Form

LEMMA ServeKeeps ==
  ASSUME Inv, NEW k \in calls, NEW lost \in BOOLEAN, Serve(k, lost) PROVE Inv'
<1> DEFINE phase == IF lost THEN "refused" ELSE "stored"
           t == [press |-> k.press, visit |-> k.visit, heard |-> ~lost]
           queued == IF k.kind = "submit" THEN {t} ELSE {}
<1>1. k \in Call
  BY DEF Inv, TypeOK, CallsTyped
<1>2. t \in Task /\ t.visit = k.visit /\ (t.heard <=> ~lost)
  BY <1>1 DEF Call, Task
<1>3. /\ k.phase = "sent"
      /\ calls' = (calls \ {k}) \cup {[k EXCEPT !.phase = phase, !.spec = Unset]}
      /\ tasks' = tasks \cup queued
      /\ chats' = chats \/ chats' = chats \cup {k.text}
      /\ UNCHANGED <<fleet, changes, storage, stored, chosen, page, visit, listed, reloaded,
                     prefs, runner, branch, branches, project, mode, draft, pending, written,
                     presses, choices>>
  BY DEF Serve, browser, form
<1>4. phase \in {"stored", "refused"} /\ (phase = "stored" <=> ~lost)
  OBVIOUS
<1>5. /\ queued \subseteq Task /\ \A u, w \in queued : u = w
      /\ \A u \in queued : /\ u.visit = k.visit
                           /\ u.heard => k.kind = "submit" /\ phase = "stored"
  BY <1>2, <1>4
<1>6. chats' \subseteq Text
  BY <1>1, <1>3 DEF Inv, TypeOK, CallsTyped, Call
<1>7. faults' \in 0 .. MaxFaults
  BY BoundsAreNat DEF Serve, Inv, TypeOK, CallsTyped
<1> HIDE DEF phase, queued
<1>8. QED
  BY <1>3, <1>4, <1>5, <1>6, <1>7, ServedKeeps

LEMMA RefuseKeeps == ASSUME Inv, NEW k \in calls, Refuse(k) PROVE Inv'
<1> DEFINE queued == {}
<1>1. /\ k.phase = "sent"
      /\ calls' = (calls \ {k}) \cup {[k EXCEPT !.phase = "refused", !.spec = Unset]}
      /\ tasks' = tasks \cup queued
      /\ UNCHANGED <<fleet, chats, changes, storage, stored, chosen, page, visit, listed,
                     reloaded, prefs, runner, branch, branches, project, mode, draft, pending,
                     written, presses, choices>>
  BY DEF Refuse, server, browser, form
<1>2. faults' \in 0 .. MaxFaults /\ chats' \subseteq Text
  BY <1>1, BoundsAreNat DEF Refuse, Inv, TypeOK, CallsTyped
<1>3. queued \subseteq Task /\ \A u \in queued : FALSE
  OBVIOUS
<1> HIDE DEF queued
<1>4. QED
  BY <1>1, <1>2, <1>3, ServedKeeps

\* The page has the answer: the call is gone or, as `left`, a navigation.
LEMMA AnsweredKeeps ==
  ASSUME Inv, NEW k \in calls, Live(k),
         NEW left \in SUBSET Call,
         \A n \in left : n.visit = k.visit /\ n.phase = "leaving" /\ n.spec = Unset,
         calls' \subseteq (calls \ {k}) \cup left,
         draft' \in Text \cup {Empty}, written' \in 0 .. MaxTexts,
         UNCHANGED quiet,
         \/ pending' = pending
         \/ pending' = "none" /\ k.visit = visit /\ ~(k.kind = "submit" /\ k.phase = "stored")
  PROVE  Inv'
<1>1. UNCHANGED <<fleet, tasks, chats, changes, storage, stored, chosen, page, visit, listed,
                  reloaded, prefs, runner, branch, branches, project, mode, presses, choices,
                  faults>>
  BY DEF quiet, server, browser, form, counts
<1>2. Form'
  BY <1>1, FormStays DEF Inv, TypeOK, Form
<1>3. CallsTyped'
  BY <1>1 DEF Inv, TypeOK, CallsTyped
<1>4. Calls'
  BY <1>1, CallsEnd DEF Inv, TypeOK
<1>5. QED
  BY <1>2, <1>3, <1>4 DEF Inv, TypeOK, Form

\* The call that became a navigation.
LEMMA LeavingCall ==
  ASSUME Inv, NEW k \in calls, k.phase = "stored"
  PROVE  /\ [k EXCEPT !.phase = "leaving"] \in Call
         /\ [k EXCEPT !.phase = "leaving"].visit = k.visit
         /\ [k EXCEPT !.phase = "leaving"].phase = "leaving"
         /\ [k EXCEPT !.phase = "leaving"].spec = Unset
         /\ Live(k)
BY DEF Inv, TypeOK, CallsTyped, Calls, SpecsAreSent, Call, Live

LEMMA OpensKeeps ==
  ASSUME Inv, NEW k \in calls, AskOpens(k) \/ SubmitOpens(k) PROVE Inv'
<1> DEFINE left == {[k EXCEPT !.phase = "leaving"]}
<1>1. /\ k.phase = "stored"
      /\ calls' \subseteq (calls \ {k}) \cup left
      /\ UNCHANGED <<quiet, draft, written>>
  BY DEF AskOpens, SubmitOpens
<1>2. \/ pending' = pending
      \/ pending' = "none" /\ k.visit = visit /\ ~(k.kind = "submit" /\ k.phase = "stored")
  BY DEF AskOpens, SubmitOpens, Here
<1>3. /\ left \in SUBSET Call /\ Live(k)
      /\ \A n \in left : n.visit = k.visit /\ n.phase = "leaving" /\ n.spec = Unset
  BY <1>1, LeavingCall
<1>4. draft' \in Text \cup {Empty} /\ written' \in 0 .. MaxTexts
  BY <1>1 DEF Inv, TypeOK, CallsTyped
<1> HIDE DEF left
<1>5. QED
  BY <1>1, <1>2, <1>3, <1>4, AnsweredKeeps

LEMMA OverKeeps ==
  ASSUME Inv, NEW k \in calls, AskFails(k) \/ EnhanceReturns(k) \/ FormFails(k) PROVE Inv'
<1> DEFINE left == {}
<1>1. calls' \subseteq (calls \ {k}) \cup left /\ UNCHANGED quiet /\ Live(k)
  BY DEF AskFails, EnhanceReturns, FormFails, Live
<1>2. \/ pending' = pending
      \/ pending' = "none" /\ k.visit = visit /\ ~(k.kind = "submit" /\ k.phase = "stored")
  BY DEF AskFails, EnhanceReturns, FormFails, Here
<1>3. k.text \in Text
  BY DEF Inv, TypeOK, CallsTyped, Call
<1>4. written' \in 0 .. MaxTexts
  BY BoundsAreNat DEF AskFails, EnhanceReturns, FormFails, Inv, TypeOK, CallsTyped
<1>5. draft' \in Text \cup {Empty}
  <2>1. CASE EnhanceReturns(k)
    BY <2>1, BoundsAreNat DEF EnhanceReturns, Inv, TypeOK, CallsTyped, Text
  <2>2. CASE AskFails(k) \/ FormFails(k)
    BY <2>2, <1>3 DEF AskFails, FormFails, Inv, TypeOK, CallsTyped
  <2>3. QED
    BY <2>1, <2>2
<1>6. left \in SUBSET Call /\ \A n \in left : FALSE
  OBVIOUS
<1> HIDE DEF left
<1>7. QED
  BY <1>1, <1>2, <1>4, <1>5, <1>6, AnsweredKeeps

-----------------------------------------------------------------------------
(* The invariant, and what follows from it.                                *)

LEMMA InitInv == Init => Inv
<1> SUFFICES ASSUME Init PROVE Inv
  OBVIOUS
<1>1. Defaults \in Preferences
  BY ChoicesAreTyped DEF Defaults, Preferences, Configurations
<1>2. [model |-> Retired, conf |-> [m \in Model |-> "medium"]] \in StoredPreferences
  BY ChoicesAreTyped DEF StoredPreferences, Configurations
<1>3. stored \in StoredPreferences \cup {Unset}
  BY <1>2 DEF Init
<1>4. FormTyped
  <2>1. fleet \in [Runner -> SUBSET Executor]
    BY DEF Init
  <2>2. /\ 0 \in 0 .. MaxChoices /\ 0 \in 0 .. MaxChanges
    BY BoundsAreNat
  <2>3. branch \in branches /\ branches \subseteq Branch
    BY ChoicesAreTyped DEF Init
  <2>4. reloaded \in BOOLEAN
    BY DEF Init
  <2>5. QED
    BY <1>1, <1>3, <2>1, <2>2, <2>3, <2>4 DEF Init, FormTyped, AutoRunner
<1>5. CallsTyped
  BY BoundsAreNat DEF Init, CallsTyped
<1>6. Calls
  BY DEF Init, Calls, OneCall, OneTask, PastVisits, SubmitStands, Released, SpecsAreSent,
     HeardIn
<1>7. PickedCanRun
  BY DEF Init, PickedCanRun
<1>8. ReadPreferences = Defaults
  BY ChoicesAreTyped DEF Init, ReadPreferences
<1>9. Kept
  BY <1>8 DEF Init, Kept, ChoicesSurvive
<1>10. QED
  BY <1>4, <1>5, <1>6, <1>7, <1>9 DEF Inv, TypeOK

LEMMA InvStep == Inv /\ [Next]_vars => Inv'
<1> SUFFICES ASSUME Inv, [Next]_vars PROVE Inv'
  OBVIOUS
<1>1. ASSUME NEW r \in Runner, RunnerChanges(r) PROVE Inv'
  BY <1>1, ServerKeeps
<1>2. ASSUME NEW repo \in Repository \cup {Unset}, NEW brief \in BOOLEAN, Mount(repo, brief)
      PROVE  Inv'
  BY <1>2, MountKeeps
<1>3. CASE Leave
  BY <1>3, UnmountKeeps DEF Leave
<1>4. CASE Reload
  BY <1>4, ReloadKeeps
<1>5. ASSUME NEW model \in Model, ChangeModel(model) PROVE Inv'
  BY <1>5, ChangeModelKeeps
<1>6. ASSUME NEW model \in Model, NEW effort \in Effort,
             ChangeModelConfiguration(model, effort)
      PROVE  Inv'
  BY <1>6, ChangeModelConfigurationKeeps
<1>7. ASSUME NEW r \in Runner \cup {AutoRunner}, ChangeRunner(r) PROVE Inv'
  BY <1>7, ChangeRunnerKeeps
<1>8. ASSUME NEW b \in Branch, ChangeBranch(b) PROVE Inv'
  BY <1>8, ChangeBranchKeeps
<1>9. ASSUME NEW repo \in Repository, Pick(repo) PROVE Inv'
  BY <1>9, PickKeeps
<1>10. CASE ToggleMode
  BY <1>10, ToggleModeKeeps
<1>11. CASE Type
  BY <1>11, TypeKeeps
<1>12. CASE Ask \/ Enhance \/ Submit
  BY <1>12, SendKeeps
<1>13. ASSUME NEW k \in calls, NEW lost \in BOOLEAN, Serve(k, lost) PROVE Inv'
  BY <1>13, ServeKeeps
<1>14. ASSUME NEW k \in calls, Refuse(k) PROVE Inv'
  BY <1>14, RefuseKeeps
<1>15. ASSUME NEW k \in calls, AskFails(k) \/ EnhanceReturns(k) \/ FormFails(k) PROVE Inv'
  BY <1>15, OverKeeps
<1>16. ASSUME NEW k \in calls, AskOpens(k) \/ SubmitOpens(k) PROVE Inv'
  BY <1>16, OpensKeeps
<1>17. ASSUME NEW k \in calls, Arrive(k) PROVE Inv'
  BY <1>17, UnmountKeeps DEF Arrive
<1>18. CASE UNCHANGED vars
  <2>1. Form'
    BY <1>18, FormStays DEF Inv, TypeOK, Form, vars
  <2>2. CallsTyped'
    BY <1>18 DEF Inv, TypeOK, CallsTyped, vars
  <2>3. Calls'
    BY <1>18, CallsStay DEF Inv, TypeOK, vars
  <2>4. QED
    BY <2>1, <2>2, <2>3 DEF Inv, TypeOK, Form
<1>19. QED
  BY <1>1, <1>2, <1>3, <1>4, <1>5, <1>6, <1>7, <1>8, <1>9, <1>10, <1>11, <1>12, <1>13,
     <1>14, <1>15, <1>16, <1>17, <1>18 DEF Next

LEMMA InvHolds == Spec => []Inv
BY InitInv, InvStep, PTL DEF Spec

\* The form, the calls and what they store keep their types.
THEOREM NewTaskTyped == Spec => []TypeOK
<1>1. Inv => TypeOK
  BY DEF Inv
<1>2. QED
  BY <1>1, InvHolds, PTL

\* What a person chose is what every later visit shows, as long as the browser keeps
\* anything.
THEOREM ChoicesComeBack == Spec => []ChoicesSurvive
<1>1. Inv => ChoicesSurvive
  BY DEF Inv, Kept
<1>2. QED
  BY <1>1, InvHolds, PTL

\* However often and whenever send is pressed, a visit queues one task, unless the
\* page was told that an earlier one had failed.
THEOREM VisitsQueueOneTask == Spec => []NoTaskTwice
<1>1. Inv => NoTaskTwice
  <2> SUFFICES ASSUME Inv, NEW v \in 1 .. MaxVisits
               PROVE  Cardinality(HeardIn(v)) <= 1
    BY DEF NoTaskTwice, HeardIn
  <2>1. CASE HeardIn(v) = {}
    BY <2>1, FS_EmptySet
  <2>2. CASE HeardIn(v) # {}
    <3>1. PICK t : t \in HeardIn(v)
      BY <2>2
    <3>2. \A u \in HeardIn(v) : u = t
      BY <3>1 DEF Inv, Calls, OneTask
    <3>3. HeardIn(v) = {t}
      BY <3>1, <3>2
    <3>4. Cardinality({t}) = 1
      BY FS_Singleton
    <3>5. QED
      BY <3>3, <3>4
  <2>3. QED
    BY <2>1, <2>2
<1>2. QED
  BY <1>1, InvHolds, PTL

\* What is sent names the runner the screen shows, or any runner when the list was
\* loaded again since the runner was picked.
THEOREM WhatIsSentIsShown == Spec => SentAsShown
<1> DEFINE Shown == \A k \in calls' \ calls :
       k.spec # Unset => \/ k.spec.runner = runner
                         \/ k.spec.runner = AutoRunner /\ reloaded
<1>1. ASSUME Inv, Submit PROVE Shown
  <2>1. calls' = calls \cup {PressCall("submit", Specification)}
    BY <1>1 DEF Submit, Press, PressCall
  <2>2. PressCall("submit", Specification).spec.runner = CompatibleRunner
    BY DEF PressCall, Specification
  <2>3. CompatibleRunner = runner \/ (CompatibleRunner = AutoRunner /\ reloaded)
    BY <1>1 DEF Inv, PickedCanRun, CompatibleRunner
  <2>4. QED
    BY <2>1, <2>2, <2>3
<1>2. ASSUME Ask \/ Enhance PROVE Shown
  <2>1. PICK kind \in {"ask", "enhance"} : calls' = calls \cup {PressCall(kind, Unset)}
    BY <1>2 DEF Ask, Enhance, Press, PressCall
  <2>2. PressCall(kind, Unset).spec = Unset
    BY DEF PressCall
  <2>3. QED
    BY <2>1, <2>2
<1>3. ASSUME Inv, NEW k \in calls,
             \/ \E lost \in BOOLEAN : Serve(k, lost)
             \/ Refuse(k) \/ AskFails(k) \/ AskOpens(k) \/ EnhanceReturns(k)
             \/ FormFails(k) \/ SubmitOpens(k) \/ Arrive(k)
      PROVE  Shown
  <2>1. k \in Call
    BY <1>3 DEF Inv, TypeOK, CallsTyped
  <2>2. CASE Refuse(k) \/ \E lost \in BOOLEAN : Serve(k, lost)
    <3>1. PICK phase \in {"stored", "refused"} :
            calls' = (calls \ {k}) \cup {[k EXCEPT !.phase = phase, !.spec = Unset]}
      BY <2>2 DEF Serve, Refuse
    <3>2. \A n \in calls' \ calls : n = [k EXCEPT !.phase = phase, !.spec = Unset]
      BY <3>1
    <3>3. [k EXCEPT !.phase = phase, !.spec = Unset].spec = Unset
      BY <2>1 DEF Call
    <3>4. QED
      BY <3>2, <3>3
  <2>3. CASE AskOpens(k) \/ SubmitOpens(k)
    <3>1. \A n \in calls' \ calls : n = [k EXCEPT !.phase = "leaving"]
      BY <2>3 DEF AskOpens, SubmitOpens
    <3>2. [k EXCEPT !.phase = "leaving"].spec = Unset
      BY <1>3, <2>3, LeavingCall DEF AskOpens, SubmitOpens
    <3>3. QED
      BY <3>1, <3>2
  <2>4. CASE AskFails(k) \/ EnhanceReturns(k) \/ FormFails(k) \/ Arrive(k)
    BY <2>4 DEF AskFails, EnhanceReturns, FormFails, Arrive
  <2>5. QED
    BY <1>3, <2>2, <2>3, <2>4
<1>4. ASSUME calls' \subseteq calls PROVE Shown
  BY <1>4
<1>5. Inv /\ [Next]_vars => [Shown]_vars
  <2>1. ASSUME Inv, Next PROVE Shown
    BY <2>1, <1>1, <1>2, <1>3, <1>4 DEF Next, RunnerChanges, Mount, Leave, Reload,
       ChangeModel, ChangeModelConfiguration, ChangeRunner, ChangeBranch, Pick, ToggleMode,
       Type
  <2>2. QED
    BY <2>1
<1>6. QED
  BY <1>5, InvHolds, PTL DEF Spec, SentAsShown

=============================================================================
