---------------------------- MODULE RunnerProofs ----------------------------
(***************************************************************************)
(* What the two sides of a runner keep.  The safety properties of the      *)
(* agent's runs (AgentRun.tla), for any tasks, policy and bounds, and then *)
(* those of the table of sockets it connects to (RunnerRegistry.tla).      *)
(*                                                                         *)
(* Of the agent's, the conjunction of the first three is inductive: that a *)
(* run has reported only if it is closing or done needs nothing else, and  *)
(* a run leaves the map only by way of Told, which is all that             *)
(* UnlistedIsStopping needs.                                               *)
(*                                                                         *)
(* HeldIsAlive is not: an event in the channel makes a task held when it   *)
(* is delivered, and a hello makes the orchestrator keep what the map      *)
(* lists.  Working says the same of every "started" in the channel and of  *)
(* every entry of the map, and that no run is reused.                      *)
(***************************************************************************)
EXTENDS AgentRun, RunnerRegistry, TLAPS

Inv == TypeOK /\ OneEndingEach /\ UnlistedIsStopping

-----------------------------------------------------------------------------
\* What the operators on the table of runs return.

LEMMA FreshType ==
  ASSUME NEW t \in Task, NEW phase \in Phase, NEW goal \in Goal, NEW endings \in Nat
  PROVE  /\ Fresh(t, phase, goal, endings) \in Record
         /\ Fresh(t, phase, goal, endings).task = t
         /\ Fresh(t, phase, goal, endings).phase = phase
         /\ Fresh(t, phase, goal, endings).endings = endings
  BY DEF Fresh, Record

LEMMA UnusedType ==
  Unused \in Record /\ Unused.phase = "unused" /\ Unused.endings = 0
<1>1. (CHOOSE t \in Task : TRUE) \in Task
  BY AgentParametersAreTyped
<1> QED
  BY <1>1, FreshType DEF Unused, Phase, Goal

\* Told changes told and asked of one run, and only if it is active.
LEMMA ToldChanges ==
  ASSUME run \in [Run -> Record], NEW i \in Run \union {NoRun}, NEW wanted \in BOOLEAN
  PROVE  /\ Told(i, wanted) \in [Run -> Record]
         /\ \A k \in Run :
              /\ Told(i, wanted)[k].task = run[k].task
              /\ Told(i, wanted)[k].phase = run[k].phase
              /\ Told(i, wanted)[k].endings = run[k].endings
              /\ run[k].told => Told(i, wanted)[k].told
              /\ Active(k) /\ k = i => Told(i, wanted)[k].told
  BY DEF Told, Active, Record, Run, NoRun

\* A table that differs from run at most in what no invariant here reads.
Alike(records) ==
  /\ records \in [Run -> Record]
  /\ \A k \in Run : /\ records[k].task = run[k].task
                    /\ records[k].phase = run[k].phase
                    /\ records[k].endings = run[k].endings
                    /\ records[k].told = run[k].told

\* Freed changes nudged of one run.
LEMMA FreedChanges ==
  ASSUME run \in [Run -> Record], NEW i \in Run,
         interrupt \in [Task -> Run \union {NoRun}]
  PROVE  Alike(Freed(i))
<1> DEFINE other == interrupt[run[i].task]
<1>1. run[i].task \in Task /\ other \in Run \union {NoRun}
  BY DEF Record
<1>2. CASE other \in {NoRun, i}
  <2>1. Freed(i) = run
    BY <1>2 DEF Freed
  <2> QED
    BY <2>1 DEF Alike
<1>3. CASE other \notin {NoRun, i}
  <2>1. other \in Run /\ Freed(i) = [run EXCEPT ![other].nudged = TRUE]
    BY <1>1, <1>3 DEF Freed
  <2> HIDE DEF other
  <2>2. [run[other] EXCEPT !.nudged = TRUE] \in Record
    BY <2>1, Zenon DEF Record
  <2> QED
    BY <2>1, <2>2 DEF Alike, Record
<1> QED
  BY <1>2, <1>3

LEMMA CheckExitType ==
  ASSUME TypeOK, CheckExit
  PROVE  outbox' \in Seq(Outgoing) /\ exiting' \in BOOLEAN
<1>1. Goodbye \in Outgoing
  BY DEF Outgoing
<1>2. outbox \in Seq(Outgoing) /\ exiting \in BOOLEAN
  BY DEF TypeOK
<1>3. \/ exiting' = TRUE /\ outbox' = Append(outbox, Goodbye)
      \/ exiting' = exiting /\ outbox' = outbox
  BY DEF CheckExit
<1>4. CASE exiting' = TRUE /\ outbox' = Append(outbox, Goodbye)
  <2>1. Append(outbox, Goodbye) \in Seq(Outgoing)
    BY <1>1, <1>2
  <2> QED
    BY <1>4, <2>1
<1>5. CASE exiting' = exiting /\ outbox' = outbox
  BY <1>2, <1>5
<1> QED
  BY <1>3, <1>4, <1>5

LEMMA SeenType ==
  ASSUME NEW view \in Desk, NEW e
  PROVE  Seen(view, e) \in Desk
  BY DEF Seen, Desk, Held

LEMMA AllLostType == TypeOK => AllLost \in [Task -> Desk]
  BY DEF TypeOK, AllLost, Desk, Held

-----------------------------------------------------------------------------

LEMMA InitInv == Init => Inv
<1> SUFFICES ASSUME Init PROVE Inv
  OBVIOUS
<1>1. TypeOK
  <2>1. run \in [Run -> Record]
    BY UnusedType DEF Init
  <2>2. desk \in [Task -> Desk]
    BY DEF Init, Desk
  <2>3. outbox \in Seq(Outgoing)
    BY DEF Init
  <2>4. spawned \in 0..MaxRuns /\ breaks \in 0..MaxBreaks /\ finished \in Nat
    BY AgentParametersAreTyped DEF Init
  <2>5. /\ running \in [Task -> Run \union {NoRun}]
        /\ interrupt \in [Task -> Run \union {NoRun}]
    BY DEF Init
  <2>6. /\ link \in {"down", "up", "broken"} /\ exiting \in BOOLEAN
        /\ process \in {"alive", "leaving", "gone"}
    BY DEF Init
  <2> QED
    BY <2>1, <2>2, <2>3, <2>4, <2>5, <2>6 DEF TypeOK
<1>2. \A i \in Run : run[i].phase = "unused" /\ run[i].endings = 0
  BY UnusedType DEF Init
<1> QED
  BY <1>1, <1>2 DEF Inv, OneEndingEach, UnlistedIsStopping, Active

LEMMA BeginInv ==
  ASSUME Inv, NEW t \in Task, NEW goal \in {"plan", "work"}, Begin(t, goal),
         desk' \in [Task -> Desk]
  PROVE  Inv'
<1> DEFINE new == spawned + 1
           records == Told(running[t], FALSE)
<1> USE DEF Inv
<1>1. new \in Run /\ running[t] \in Run \union {NoRun}
  BY AgentParametersAreTyped DEF TypeOK, Begin, Run
<1>2. /\ Spawned(t, goal) \in Record
      /\ Spawned(t, goal).task = t /\ Spawned(t, goal).phase = "ready"
      /\ Spawned(t, goal).endings = 0
  BY FreshType DEF Spawned, Phase, Goal
<1>3. /\ records \in [Run -> Record]
      /\ \A k \in Run : /\ records[k].task = run[k].task
                        /\ records[k].phase = run[k].phase
                        /\ records[k].endings = run[k].endings
                        /\ run[k].told => records[k].told
                        /\ Active(k) /\ k = running[t] => records[k].told
  BY <1>1, ToldChanges DEF TypeOK
<1>4. run' = [records EXCEPT ![new] = Spawned(t, goal)]
  BY DEF Begin
<1> HIDE DEF records
<1>5. TypeOK'
  <2>1. run' \in [Run -> Record]
    BY <1>1, <1>2, <1>3, <1>4
  <2>2. outbox' \in Seq(Outgoing) /\ exiting' \in BOOLEAN
    BY CheckExitType DEF Begin
  <2>3. spawned' \in 0..MaxRuns /\ running' \in [Task -> Run \union {NoRun}]
    BY <1>1, AgentParametersAreTyped DEF TypeOK, Begin
  <2> QED
    BY <2>1, <2>2, <2>3 DEF TypeOK, Begin
<1>6. OneEndingEach'
  <2> SUFFICES ASSUME NEW k \in Run
               PROVE  run'[k].endings = IF run'[k].phase \in {"closing", "done"} THEN 1 ELSE 0
    BY DEF OneEndingEach
  <2>1. CASE k = new
    BY <1>1, <1>2, <1>3, <1>4, <2>1
  <2>2. CASE k # new
    BY <1>1, <1>3, <2>2, <1>4 DEF OneEndingEach
  <2> QED
    BY <2>1, <2>2
<1>7. UnlistedIsStopping'
  <2> SUFFICES ASSUME NEW k \in Run, Active(k)'
               PROVE  running'[run'[k].task] = k \/ run'[k].told
    BY DEF UnlistedIsStopping
  <2>1. running' = [running EXCEPT ![t] = new]
    BY DEF Begin
  <2>2. CASE k = new
    BY <1>1, <1>2, <1>3, <1>4, <2>1, <2>2 DEF TypeOK
  <2>3. CASE k # new
    <3>1. run'[k] = records[k]
      BY <1>1, <1>3, <1>4, <2>3
    <3>2. Active(k)
      BY <1>3, <3>1 DEF Active
    <3>3. running[run[k].task] = k \/ run[k].told
      BY <3>2 DEF UnlistedIsStopping
    <3>4. CASE run[k].told
      BY <1>3, <3>1, <3>4
    <3>5. CASE running[run[k].task] = k /\ run[k].task = t
      BY <1>3, <3>1, <3>2, <3>5
    <3>6. CASE running[run[k].task] = k /\ run[k].task # t
      <4>1. run'[k].task = run[k].task
        BY <1>3, <3>1
      <4> QED
        BY <2>1, <3>6, <4>1 DEF TypeOK
    <3> QED
      BY <3>3, <3>4, <3>5, <3>6
  <2> QED
    BY <2>2, <2>3
<1> QED
  BY <1>5, <1>6, <1>7

-----------------------------------------------------------------------------
\* The steps that start no run.

\* What such a step has to keep: a run that goes on was going on, for the same
\* task, and leaves the map only with word that it has to stop.
LEMMA KeepsInv ==
  ASSUME Inv, TypeOK', OneEndingEach',
         \A k \in Run : Active(k)' =>
           /\ Active(k) /\ run'[k].task = run[k].task
           /\ run[k].told => run'[k].told
           /\ running[run[k].task] = k => running'[run[k].task] = k \/ run'[k].told
  PROVE  Inv'
<1> SUFFICES ASSUME NEW k \in Run, Active(k)'
             PROVE  running'[run'[k].task] = k \/ run'[k].told
  BY DEF Inv, UnlistedIsStopping
<1>1. running[run[k].task] = k \/ run[k].told
  BY DEF Inv, UnlistedIsStopping
<1> QED
  BY <1>1

LEMMA EndsInv ==
  ASSUME Inv, NEW i \in Run, Active(i), NEW STATE records, Alike(records),
         NEW how \in Ending, Ends(records, i, how),
         interrupt' \in [Task -> Run \union {NoRun}],
         UNCHANGED <<spawned, running, session, leaving>>
  PROVE  Inv'
<1> DEFINE last == Fresh(run[i].task, "closing", "work", records[i].endings + 1)
<1> USE DEF Inv
<1>1. run[i].task \in Task /\ records[i].endings = 0
  BY DEF TypeOK, Record, OneEndingEach, Active, Alike
<1>2. last \in Record /\ last.phase = "closing" /\ last.endings = 1
  BY <1>1, FreshType DEF Phase, Goal
<1>3. run' = [records EXCEPT ![i] = last]
  BY DEF Ends
<1> HIDE DEF last
<1>4. /\ run' \in [Run -> Record]
      /\ run'[i] = last
      /\ \A k \in Run : k # i => run'[k] = records[k]
  BY <1>2, <1>3 DEF Alike
<1>5. outbox' \in Seq(Outgoing)
  <2>1. <<how, run[i].task>> \in Outgoing
    BY <1>1 DEF Outgoing
  <2>2. outbox' = Append(outbox, <<how, run[i].task>>) /\ outbox \in Seq(Outgoing)
    BY DEF Ends, Say, TypeOK
  <2> QED
    BY <2>1, <2>2
<1>6. TypeOK'
  <2>1. UNCHANGED <<spawned, running, link, desk, breaks, finished, exiting, process>>
    BY DEF session, leaving
  <2> QED
    BY <1>4, <1>5, <2>1 DEF TypeOK
<1>7. OneEndingEach'
  <2> SUFFICES ASSUME NEW k \in Run
               PROVE  run'[k].endings = IF run'[k].phase \in {"closing", "done"} THEN 1 ELSE 0
    BY DEF OneEndingEach
  <2> QED
    BY <1>2, <1>4 DEF OneEndingEach, Alike
<1>8. ASSUME NEW k \in Run, Active(k)'
      PROVE  /\ Active(k) /\ run'[k].task = run[k].task
             /\ run[k].told => run'[k].told
  BY <1>2, <1>4, <1>8 DEF Active, Alike
<1> QED
  BY <1>6, <1>7, <1>8, KeepsInv

LEMMA BecomesInv ==
  ASSUME Inv, NEW i \in Run, Active(i), NEW STATE records, Alike(records),
         NEW phase \in {"ready", "waiting", "checks"}, NEW goal \in Goal, NEW tries \in Nat,
         Becomes(records, i, phase, goal, tries),
         interrupt' \in [Task -> Run \union {NoRun}],
         UNCHANGED <<spawned, running, session, leaving>>
  PROVE  Inv'
<1> USE DEF Inv
<1> DEFINE next == [records[i] EXCEPT !.phase = phase, !.goal = goal, !.tries = tries]
<1>1. /\ next \in Record
      /\ next.phase = phase
      /\ next.task = run[i].task /\ next.endings = run[i].endings
      /\ next.told = run[i].told
  BY DEF Alike, Record, Phase
<1> HIDE DEF next
<1>2. /\ run' \in [Run -> Record]
      /\ run'[i].phase = phase
      /\ \A k \in Run : /\ k # i => run'[k].phase = run[k].phase
                        /\ run'[k].task = run[k].task
                        /\ run'[k].endings = run[k].endings
                        /\ run'[k].told = run[k].told
  <2>1. run' = [records EXCEPT ![i] = next]
    BY DEF Becomes, next
  <2>2. run' \in [Run -> Record] /\ run'[i] = next
        /\ \A k \in Run : k # i => run'[k] = records[k]
    BY <1>1, <2>1 DEF Alike
  <2> QED
    BY <1>1, <2>2 DEF Alike
<1>3. TypeOK'
  <2>1. UNCHANGED <<spawned, running, link, desk, breaks, finished, exiting, process, outbox>>
    BY DEF session, leaving, Becomes
  <2> QED
    BY <1>2, <2>1 DEF TypeOK
<1>4. OneEndingEach'
  <2> SUFFICES ASSUME NEW k \in Run
               PROVE  run'[k].endings = IF run'[k].phase \in {"closing", "done"} THEN 1 ELSE 0
    BY DEF OneEndingEach
  <2> QED
    BY <1>2 DEF OneEndingEach, Active
<1>5. ASSUME NEW k \in Run, Active(k)'
      PROVE  Active(k)
  BY <1>2, <1>5 DEF Active
<1> QED
  BY <1>2, <1>3, <1>4, <1>5, KeepsInv

-----------------------------------------------------------------------------
\* The steps of a run.

LEMMA SpawnInv ==
  ASSUME Inv, NEW i \in Run, Spawn(i)
  PROVE  Inv'
<1> DEFINE records == Freed(i)
           next == [run[i] EXCEPT !.phase = "waiting", !.nudged = FALSE]
<1> USE DEF Inv
<1>1. Alike(records)
  BY FreedChanges DEF TypeOK
<1>2. /\ next \in Record
      /\ next.phase = "waiting"
      /\ next.task = run[i].task /\ next.endings = run[i].endings
      /\ next.told = run[i].told
  BY DEF TypeOK, Record, Phase
<1> HIDE DEF records, next
<1>3. /\ run' \in [Run -> Record]
      /\ run'[i].phase = "waiting"
      /\ \A k \in Run : /\ k # i => run'[k].phase = run[k].phase
                        /\ run'[k].task = run[k].task
                        /\ run'[k].endings = run[k].endings
                        /\ run'[k].told = run[k].told
  <2>1. run' = [records EXCEPT ![i] = next]
    BY DEF Spawn, records, next
  <2>2. /\ run' \in [Run -> Record] /\ run'[i] = next
        /\ \A k \in Run : k # i => run'[k] = records[k]
    BY <1>1, <1>2, <2>1 DEF Alike
  <2> QED
    BY <1>1, <1>2, <2>2 DEF Alike
<1>4. run[i].phase = "ready" /\ run[i].task \in Task
  BY DEF Spawn, Going, TypeOK, Record
<1>5. TypeOK'
  <2>1. outbox' \in Seq(Outgoing)
    <3>1. <<"started", run[i].task>> \in Outgoing
      BY <1>4 DEF Outgoing
    <3>2. outbox' = Append(outbox, <<"started", run[i].task>>) /\ outbox \in Seq(Outgoing)
      BY DEF Spawn, Say, TypeOK
    <3> QED
      BY <3>1, <3>2
  <2>2. interrupt' \in [Task -> Run \union {NoRun}]
    BY <1>4 DEF Spawn, TypeOK
  <2>3. UNCHANGED <<spawned, running, link, desk, breaks, finished, exiting, process>>
    BY DEF Spawn, session, leaving
  <2> QED
    BY <1>3, <2>1, <2>2, <2>3 DEF TypeOK
<1>6. OneEndingEach'
  <2> SUFFICES ASSUME NEW k \in Run
               PROVE  run'[k].endings = IF run'[k].phase \in {"closing", "done"} THEN 1 ELSE 0
    BY DEF OneEndingEach
  <2> QED
    BY <1>3, <1>4 DEF OneEndingEach
<1>7. ASSUME NEW k \in Run, Active(k)'
      PROVE  Active(k)
  BY <1>3, <1>4, <1>7 DEF Active
<1>8. running' = running
  BY DEF Spawn
<1> QED
  BY <1>3, <1>5, <1>6, <1>7, <1>8, KeepsInv

\* A run ends, or goes on in another phase: what Exit, FailToStart, Kill,
\* TimeOut and Check have in common.
Moves(i) ==
  /\ Active(i)
  /\ interrupt' \in [Task -> Run \union {NoRun}]
  /\ UNCHANGED <<spawned, running, session, leaving>>
  /\ \/ \E e \in Ending : Ends(run, i, e) \/ Ends(Freed(i), i, e)
     \/ \E phase \in {"ready", "checks"}, goal \in Goal, tries \in Nat :
          Becomes(run, i, phase, goal, tries) \/ Becomes(Freed(i), i, phase, goal, tries)

LEMMA MovesInv ==
  ASSUME Inv, NEW i \in Run, Moves(i)
  PROVE  Inv'
<1>1. Alike(run) /\ Alike(Freed(i))
  BY FreedChanges DEF Inv, TypeOK, Alike
<1>2. /\ Active(i)
      /\ interrupt' \in [Task -> Run \union {NoRun}]
      /\ UNCHANGED <<spawned, running, session, leaving>>
  BY DEF Moves
<1>3. ASSUME NEW e \in Ending, Ends(run, i, e)
      PROVE  Inv'
  BY <1>1, <1>2, <1>3, EndsInv
<1>4. ASSUME NEW e \in Ending, Ends(Freed(i), i, e)
      PROVE  Inv'
  BY <1>1, <1>2, <1>4, EndsInv
<1>5. ASSUME NEW phase \in {"ready", "checks"}, NEW goal \in Goal, NEW tries \in Nat,
             Becomes(run, i, phase, goal, tries)
      PROVE  Inv'
  BY <1>1, <1>2, <1>5, BecomesInv
<1>6. ASSUME NEW phase \in {"ready", "checks"}, NEW goal \in Goal, NEW tries \in Nat,
             Becomes(Freed(i), i, phase, goal, tries)
      PROVE  Inv'
  BY <1>1, <1>2, <1>6, BecomesInv
<1> QED
  BY <1>3, <1>4, <1>5, <1>6 DEF Moves

LEMMA StoppedIs ==
  ASSUME TypeOK, NEW i \in Run, Stopped(i)
  PROVE  /\ Active(i) /\ run[i].tries \in Nat
         /\ interrupt' \in [Task -> Run \union {NoRun}]
         /\ UNCHANGED <<spawned, running, session, leaving>>
  BY DEF Stopped, Going, Active, TypeOK, Record, NoRun

LEMMA ExitMoves ==
  ASSUME TypeOK, NEW i \in Run, Exit(i)
  PROVE  Moves(i)
<1> DEFINE tries == run[i].tries
<1>1. Stopped(i)
  BY DEF Exit
<1>2. \/ \E e \in {"completed", "failed"} : Ends(Freed(i), i, e)
      \/ Becomes(Freed(i), i, "checks", "work", 0)
      \/ Becomes(Freed(i), i, "ready", "work", tries + 1)
      \/ Becomes(Freed(i), i, "checks", "fix", tries)
  BY DEF Exit
<1>3. tries + 1 \in Nat /\ {"work", "fix"} \subseteq Goal /\ {"completed", "failed"} \subseteq Ending
  BY <1>1, StoppedIs DEF Goal, Ending
<1> QED
  BY <1>1, <1>2, <1>3, StoppedIs DEF Moves

LEMMA CheckMoves ==
  ASSUME TypeOK, NEW i \in Run, Check(i)
  PROVE  Moves(i)
<1>1. /\ Active(i) /\ run[i].tries \in Nat
      /\ interrupt' \in [Task -> Run \union {NoRun}]
      /\ UNCHANGED <<spawned, running, session, leaving>>
  BY DEF Check, Going, Active, TypeOK, Record, maps
<1>2. CASE Becomes(run, i, "ready", "fix", run[i].tries + 1)
  BY <1>1, <1>2 DEF Moves, Goal
<1>3. CASE Becomes(run, i, "ready", "review", run[i].tries)
  BY <1>1, <1>3 DEF Moves, Goal
<1>4. CASE \E e \in {"completed", "failed"} : Ends(run, i, e)
  BY <1>1, <1>4 DEF Moves, Ending
<1> QED
  BY <1>2, <1>3, <1>4 DEF Check

LEMMA FinishInv ==
  ASSUME Inv, NEW i \in Run, Finish(i)
  PROVE  Inv'
<1> DEFINE t == run[i].task
           records == Told(running[t], FALSE)
           next == [records[i] EXCEPT !.phase = "done"]
<1> USE DEF Inv
<1>1. /\ run[i].phase = "closing" /\ run[i].endings = 1
      /\ t \in Task /\ running[t] \in Run \union {NoRun}
  BY DEF Finish, Going, TypeOK, Record, OneEndingEach
<1>2. /\ records \in [Run -> Record]
      /\ \A k \in Run : /\ records[k].task = run[k].task
                        /\ records[k].phase = run[k].phase
                        /\ records[k].endings = run[k].endings
                        /\ run[k].told => records[k].told
                        /\ Active(k) /\ k = running[t] => records[k].told
  BY <1>1, ToldChanges DEF TypeOK
<1>3. run' = [records EXCEPT ![i] = next] /\ running' = [running EXCEPT ![t] = NoRun]
  BY DEF Finish
<1> HIDE DEF records
<1>4. next \in Record /\ next.phase = "done" /\ next.endings = 1
  BY <1>1, <1>2 DEF Record, Phase
<1> HIDE DEF next
<1>5. /\ run' \in [Run -> Record]
      /\ run'[i] = next
      /\ \A k \in Run : k # i => run'[k] = records[k]
  BY <1>2, <1>3, <1>4
<1>6. TypeOK'
  <2>1. outbox' \in Seq(Outgoing) /\ exiting' \in BOOLEAN
    BY CheckExitType DEF Finish
  <2>2. running' \in [Task -> Run \union {NoRun}] /\ finished' \in Nat
    BY <1>1, <1>3 DEF TypeOK, Finish
  <2>3. UNCHANGED <<spawned, interrupt, link, desk, breaks, process>>
    BY DEF Finish, session
  <2> QED
    BY <1>5, <2>1, <2>2, <2>3 DEF TypeOK
<1>7. OneEndingEach'
  <2> SUFFICES ASSUME NEW k \in Run
               PROVE  run'[k].endings = IF run'[k].phase \in {"closing", "done"} THEN 1 ELSE 0
    BY DEF OneEndingEach
  <2> QED
    BY <1>2, <1>4, <1>5 DEF OneEndingEach
<1>8. ASSUME NEW k \in Run, Active(k)'
      PROVE  /\ Active(k) /\ run'[k].task = run[k].task
             /\ run[k].told => run'[k].told
             /\ running[run[k].task] = k => running'[run[k].task] = k \/ run'[k].told
  <2>1. k # i /\ run'[k] = records[k]
    BY <1>4, <1>5, <1>8 DEF Active
  <2>2. Active(k)
    BY <1>2, <1>8, <2>1 DEF Active
  <2>3. CASE running[run[k].task] = k /\ run[k].task = t
    BY <1>2, <2>1, <2>2, <2>3
  <2>4. CASE running[run[k].task] = k /\ run[k].task # t
    BY <1>2, <1>3, <2>1, <2>2, <2>4 DEF TypeOK
  <2>5. CASE running[run[k].task] # k
    BY <1>2, <2>1, <2>2, <2>5
  <2> QED
    BY <2>3, <2>4, <2>5
<1> QED
  BY <1>6, <1>7, <1>8, KeepsInv

\* A run of another task, or a job, in the place of a record that is not active.
LEMMA PlacesInv ==
  ASSUME Inv, NEW i \in Run, NEW next \in Record,
         next.phase \in {"job", "done"},
         next.endings = IF next.phase = "done" THEN 1 ELSE 0,
         run' = [run EXCEPT ![i] = next],
         spawned' \in 0..MaxRuns, outbox' \in Seq(Outgoing), exiting' \in BOOLEAN,
         UNCHANGED <<running, interrupt, link, desk, breaks, finished, process>>
  PROVE  Inv'
<1> USE DEF Inv
<1>1. /\ run' \in [Run -> Record]
      /\ run'[i] = next
      /\ \A k \in Run : k # i => run'[k] = run[k]
  BY DEF TypeOK
<1>2. TypeOK'
  BY <1>1 DEF TypeOK
<1>3. OneEndingEach'
  <2> SUFFICES ASSUME NEW k \in Run
               PROVE  run'[k].endings = IF run'[k].phase \in {"closing", "done"} THEN 1 ELSE 0
    BY DEF OneEndingEach
  <2> QED
    BY <1>1 DEF OneEndingEach
<1>4. ASSUME NEW k \in Run, Active(k)'
      PROVE  Active(k) /\ run'[k] = run[k]
  BY <1>1, <1>4 DEF Active
<1> QED
  BY <1>2, <1>3, <1>4, KeepsInv

LEMMA DoJobInv ==
  ASSUME Inv, NEW i \in Run, DoJob(i)
  PROVE  Inv'
<1> DEFINE next == Fresh(run[i].task, "done", "work", run[i].endings + 1)
<1> USE DEF Inv
<1>1. run[i].task \in Task /\ run[i].endings = 0
  BY DEF DoJob, Going, TypeOK, Record, OneEndingEach
<1>2. next \in Record /\ next.phase = "done" /\ next.endings = 1
  BY <1>1, FreshType DEF Phase, Goal
<1>3. run' = [run EXCEPT ![i] = next]
  BY DEF DoJob
<1> HIDE DEF next
<1>4. outbox' \in Seq(Outgoing)
  <2>1. PICK e \in {"pushed", "conflicted", "failed", "discarded"} :
          outbox' = Append(outbox, <<e, run[i].task>>)
    BY DEF DoJob, Say
  <2>2. <<e, run[i].task>> \in Outgoing
    BY <1>1, <2>1 DEF Outgoing, Ending
  <2> QED
    BY <2>1, <2>2 DEF TypeOK
<1>5. /\ spawned' \in 0..MaxRuns /\ exiting' \in BOOLEAN
      /\ UNCHANGED <<running, interrupt, link, desk, breaks, finished, process>>
  BY DEF DoJob, maps, session, leaving, TypeOK
<1> QED
  BY <1>2, <1>3, <1>4, <1>5, PlacesInv

LEMMA StepInv ==
  ASSUME Inv, NEW i \in Run, Step(i)
  PROVE  Inv'
<1>1. CASE FailToStart(i)
  <2>1. Moves(i)
    BY <1>1 DEF FailToStart, Going, Moves, Active, Ending, Inv, TypeOK, maps
  <2> QED
    BY <2>1, MovesInv
<1>2. CASE Kill(i)
  <2>1. Moves(i)
    BY <1>2, StoppedIs DEF Kill, Moves, Ending, Inv
  <2> QED
    BY <2>1, MovesInv
<1>3. CASE TimeOut(i)
  <2>1. Moves(i)
    BY <1>3, StoppedIs DEF TimeOut, Moves, Ending, Inv
  <2> QED
    BY <2>1, MovesInv
<1>4. CASE Exit(i) \/ Check(i)
  BY <1>4, ExitMoves, CheckMoves, MovesInv DEF Inv
<1>5. CASE Spawn(i) \/ Finish(i) \/ DoJob(i)
  BY <1>5, SpawnInv, FinishInv, DoJobInv
<1> QED
  BY <1>1, <1>2, <1>3, <1>4, <1>5 DEF Step

-----------------------------------------------------------------------------
\* The frames.

LEMMA JobInv ==
  ASSUME Inv, NEW t \in Task, NEW goal \in {"push", "discard"}, Job(t, goal)
  PROVE  Inv'
<1> DEFINE next == Spawned(t, goal)
<1> USE DEF Inv
<1>1. next \in Record /\ next.phase = "job" /\ next.endings = 0
  BY FreshType DEF Spawned, Phase, Goal
<1>2. spawned + 1 \in Run /\ spawned' \in 0..MaxRuns
  BY AgentParametersAreTyped DEF Job, TypeOK, Run
<1>3. run' = [run EXCEPT ![spawned + 1] = next]
  BY DEF Job
<1> HIDE DEF next
<1>4. /\ outbox' \in Seq(Outgoing) /\ exiting' \in BOOLEAN
      /\ UNCHANGED <<running, interrupt, link, desk, breaks, finished, process>>
  BY CheckExitType DEF Job, maps, session
<1> QED
  BY <1>1, <1>2, <1>3, <1>4, PlacesInv

LEMMA CancelInv ==
  ASSUME Inv, NEW t \in Task, Cancel(t)
  PROVE  Inv'
<1> USE DEF Inv
<1>1. running[t] \in Run \union {NoRun}
  BY DEF TypeOK
<1>2. /\ run' \in [Run -> Record]
      /\ \A k \in Run : /\ run'[k].task = run[k].task
                        /\ run'[k].phase = run[k].phase
                        /\ run'[k].endings = run[k].endings
                        /\ run[k].told => run'[k].told
                        /\ Active(k) /\ k = running[t] => run'[k].told
  <2>1. run' = Told(running[t], TRUE)
    BY DEF Cancel
  <2> QED
    BY <1>1, <2>1, ToldChanges DEF TypeOK
<1>3. running' = [running EXCEPT ![t] = NoRun]
  BY DEF Cancel
<1>4. TypeOK'
  <2>1. outbox' \in Seq(Outgoing) /\ exiting' \in BOOLEAN
    BY CheckExitType DEF Cancel
  <2>2. running' \in [Task -> Run \union {NoRun}]
    BY <1>3 DEF TypeOK
  <2>3. UNCHANGED <<spawned, interrupt, link, desk, breaks, finished, process>>
    BY DEF Cancel, session
  <2> QED
    BY <1>2, <2>1, <2>2, <2>3 DEF TypeOK
<1>5. OneEndingEach'
  BY <1>2 DEF OneEndingEach
<1>6. ASSUME NEW k \in Run, Active(k)'
      PROVE  /\ Active(k)
             /\ running[run[k].task] = k => running'[run[k].task] = k \/ run'[k].told
  <2>1. Active(k)
    BY <1>2, <1>6 DEF Active
  <2>2. CASE run[k].task = t
    BY <1>2, <2>1, <2>2
  <2>3. CASE run[k].task # t
    BY <1>3, <2>1, <2>3 DEF TypeOK, Record
  <2> QED
    BY <2>1, <2>2, <2>3
<1> QED
  BY <1>2, <1>4, <1>5, <1>6, KeepsInv

\* No run moves, and no sender leaves Ctx.running.
LEMMA QuietInv ==
  ASSUME Inv, TypeOK', running' = running,
         \A k \in Run : /\ run'[k].task = run[k].task
                        /\ run'[k].phase = run[k].phase
                        /\ run'[k].endings = run[k].endings
                        /\ run'[k].told = run[k].told
  PROVE  Inv'
<1>1. OneEndingEach'
  BY DEF Inv, OneEndingEach
<1>2. ASSUME NEW k \in Run, Active(k)'
      PROVE  Active(k)
  BY <1>2 DEF Active
<1> QED
  BY <1>1, <1>2, KeepsInv

LEMMA InterruptInv ==
  ASSUME Inv, NEW t \in Task, Interrupt(t)
  PROVE  Inv'
<1> USE DEF Inv
<1>1. /\ run' \in [Run -> Record]
      /\ \A k \in Run : /\ run'[k].task = run[k].task
                        /\ run'[k].phase = run[k].phase
                        /\ run'[k].endings = run[k].endings
                        /\ run'[k].told = run[k].told
  <2>1. CASE interrupt[t] = NoRun
    BY <2>1 DEF Interrupt, TypeOK
  <2>2. CASE interrupt[t] # NoRun
    <3> DEFINE i == interrupt[t]
    <3>1. i \in Run
      BY <2>2 DEF TypeOK
    <3>2. run' = [run EXCEPT ![i].nudged = TRUE, ![i].asked = TRUE]
      BY <2>2 DEF Interrupt
    <3> HIDE DEF i
    <3> QED
      BY <3>1, <3>2 DEF TypeOK, Record
  <2> QED
    BY <2>1, <2>2
<1>2. TypeOK'
  <2>1. outbox' \in Seq(Outgoing) /\ exiting' \in BOOLEAN
    BY CheckExitType DEF Interrupt
  <2>2. interrupt' \in [Task -> Run \union {NoRun}]
    BY DEF TypeOK, Interrupt
  <2>3. UNCHANGED <<spawned, running, link, desk, breaks, finished, process>>
    BY DEF Interrupt, session
  <2> QED
    BY <1>1, <2>1, <2>2, <2>3 DEF TypeOK
<1>3. running' = running
  BY DEF Interrupt
<1> QED
  BY <1>1, <1>2, <1>3, QuietInv

LEMMA FrameInv ==
  ASSUME Inv, NEW t \in Task, Frame(t)
  PROVE  Inv'
<1> USE DEF Inv
<1>1. ASSUME NEW goal \in {"plan", "work"}, Start(t, goal) \/ Message(t, goal)
      PROVE  Inv'
  <2>1. Begin(t, goal) /\ desk' \in [Task -> Desk]
    BY <1>1 DEF Start, Message, TypeOK, Desk, Held
  <2> QED
    BY <2>1, BeginInv
<1>2. CASE LoseFrame(t)
  <2>1. /\ desk' \in [Task -> Desk]
        /\ UNCHANGED <<spawned, run, running, interrupt, outbox, link, breaks, finished,
                       exiting, process>>
    BY <1>2 DEF LoseFrame, TypeOK, Desk, Held, maps, leaving
  <2>2. TypeOK'
    BY <2>1 DEF TypeOK
  <2> QED
    BY <2>1, <2>2, QuietInv
<1>3. CASE Cancel(t) \/ Interrupt(t)
  BY <1>3, CancelInv, InterruptInv
<1>4. ASSUME NEW goal \in {"push", "discard"}, Job(t, goal)
      PROVE  Inv'
  BY <1>4, JobInv
<1> QED
  BY <1>1, <1>2, <1>3, <1>4 DEF Frame

-----------------------------------------------------------------------------
\* The connection and the end of the process.

LEMMA SendType ==
  ASSUME TypeOK, Send
  PROVE  outbox' \in Seq(Outgoing) /\ desk' \in [Task -> Desk]
<1>1. outbox' \in Seq(Outgoing)
  BY DEF Send, TypeOK
<1>2. CASE UNCHANGED desk
  BY <1>1, <1>2 DEF TypeOK
<1>3. CASE link = "up"
  <2> DEFINE e == Head(outbox)[1]
             t == Head(outbox)[2]
  <2>1. desk' = [desk EXCEPT ![t] = Seen(desk[t], e)]
    BY <1>3 DEF Send
  <2>2. t \in Task => Seen(desk[t], e) \in Desk
    BY SeenType DEF TypeOK
  <2> HIDE DEF e, t
  <2> QED
    BY <1>1, <2>1, <2>2 DEF TypeOK
<1> QED
  BY <1>1, <1>2, <1>3 DEF Send

LEMMA ConnectionInv ==
  ASSUME Inv,
         Send \/ SendGoodbye \/ Connect \/ Break \/ Notice \/ Expire \/ Leave
         \/ UNCHANGED vars
  PROVE  Inv'
<1> USE DEF Inv
<1>1. UNCHANGED <<spawned, run, running, interrupt, finished, exiting>>
  BY DEF Send, SendGoodbye, Connect, Break, Notice, Expire, Leave, vars, maps, leaving
<1>2. outbox' \in Seq(Outgoing)
  <2>1. CASE Send
    BY <2>1, SendType
  <2>2. CASE SendGoodbye
    BY <2>2 DEF SendGoodbye, TypeOK
  <2>3. CASE Connect \/ Break \/ Notice \/ Expire \/ Leave \/ UNCHANGED vars
    BY <2>3 DEF Connect, Break, Notice, Expire, Leave, vars, TypeOK
  <2> QED
    BY <2>1, <2>2, <2>3
<1>3. desk' \in [Task -> Desk]
  <2>1. CASE Send
    BY <2>1, SendType
  <2>2. CASE SendGoodbye \/ Expire
    BY <2>2, AllLostType DEF SendGoodbye, Expire, TypeOK
  <2>3. CASE Connect
    BY <2>3, AllLostType DEF Connect, TypeOK
  <2>4. CASE Break \/ Notice \/ Leave \/ UNCHANGED vars
    BY <2>4 DEF Break, Notice, Leave, vars, session, TypeOK
  <2> QED
    BY <2>1, <2>2, <2>3, <2>4
<1>4. /\ link' \in {"down", "up", "broken"} /\ process' \in {"alive", "leaving", "gone"}
      /\ breaks' \in 0..MaxBreaks
  <2>1. CASE Send \/ SendGoodbye \/ Connect
    BY <2>1 DEF Send, SendGoodbye, Connect, leaving, TypeOK
  <2>2. CASE Break
    BY <2>2, AgentParametersAreTyped DEF Break, leaving, TypeOK
  <2>3. CASE Notice \/ Expire \/ Leave \/ UNCHANGED vars
    BY <2>3 DEF Notice, Expire, Leave, vars, session, leaving, TypeOK
  <2> QED
    BY <2>1, <2>2, <2>3
<1>5. TypeOK'
  BY <1>1, <1>2, <1>3, <1>4 DEF TypeOK
<1> QED
  BY <1>1, <1>5, QuietInv

LEMMA ShutdownInv == Inv /\ Shutdown => Inv'
<1> SUFFICES ASSUME Inv, Shutdown PROVE Inv'
  OBVIOUS
<1> USE DEF Inv
<1>1. ASSUME NEW k \in Run
      PROVE  /\ Told(k, TRUE) \in [Run -> Record]
             /\ Told(k, TRUE)[k].task = run[k].task
             /\ Told(k, TRUE)[k].phase = run[k].phase
             /\ Told(k, TRUE)[k].endings = run[k].endings
             /\ run[k].told => Told(k, TRUE)[k].told
             /\ Active(k) => Told(k, TRUE)[k].told
  BY <1>1, ToldChanges DEF TypeOK
<1>2. run' = [k \in Run |-> IF \E t \in Task : running[t] = k
                            THEN Told(k, TRUE)[k] ELSE run[k]]
  BY DEF Shutdown
<1>3. /\ run' \in [Run -> Record]
      /\ \A k \in Run :
           /\ run'[k].task = run[k].task /\ run'[k].phase = run[k].phase
           /\ run'[k].endings = run[k].endings
           /\ run[k].told => run'[k].told
           /\ Active(k) /\ (\E t \in Task : running[t] = k) => run'[k].told
  BY <1>1, <1>2 DEF TypeOK
<1>4. TypeOK'
  <2>1. /\ running' \in [Task -> Run \union {NoRun}]
        /\ process' \in {"alive", "leaving", "gone"}
        /\ UNCHANGED <<spawned, interrupt, outbox, link, desk, breaks, finished, exiting>>
    BY DEF Shutdown, session
  <2> QED
    BY <1>3, <2>1 DEF TypeOK
<1>5. OneEndingEach'
  BY <1>3 DEF OneEndingEach
<1>6. ASSUME NEW k \in Run, Active(k)'
      PROVE  Active(k) /\ (running[run[k].task] = k => run'[k].told)
  <2>1. Active(k) /\ run[k].task \in Task
    BY <1>3, <1>6 DEF Active, TypeOK, Record
  <2> QED
    BY <1>3, <2>1
<1> QED
  BY <1>3, <1>4, <1>5, <1>6, KeepsInv

-----------------------------------------------------------------------------
\* What the orchestrator waits for is on its way.

Works(t) == \E i \in Run : run[i].task = t /\ Active(i)

Reports(t, from) ==
  \E k \in from..Len(outbox) : outbox[k][1] \in Ending /\ outbox[k][2] = t

UnusedAhead == \A i \in Run : i > spawned => run[i].phase = "unused"

\* What a hello lists is a run of that task which is not done.
ListedGoesOn ==
  \A t \in Task, i \in Run : running[t] = i =>
    run[i].task = t /\ (Active(i) \/ run[i].phase = "closing")

\* Of a task that is held a run goes on or an ending follows, and so it does behind
\* every "started" in the channel, which would make the task held.
WorkIsReported ==
  /\ link = "up" => \A t \in Task : desk[t] \in Held => Works(t) \/ Reports(t, 1)
  /\ \A t \in Task, k \in 1..Len(outbox) :
       outbox[k] = <<"started", t>> => Works(t) \/ Reports(t, k)

Working == UnusedAhead /\ ListedGoesOn /\ WorkIsReported

LEMMA ChannelGrows ==
  ASSUME TypeOK, NEW STATE x, outbox' = Append(outbox, x)
  PROVE  /\ Len(outbox) \in Nat /\ Len(outbox') = Len(outbox) + 1
         /\ \A k \in 1..Len(outbox) : outbox'[k] = outbox[k]
         /\ outbox'[Len(outbox) + 1] = x
  BY DEF TypeOK

\* The channel grows by x, or not at all.
Grows(x) == outbox' = outbox \/ outbox' = Append(outbox, x)

LEMMA ReportsGrow ==
  ASSUME TypeOK, NEW STATE x, Grows(x), NEW t, NEW from \in Nat \ {0}, Reports(t, from)
  PROVE  Reports(t, from)'
<1>1. CASE outbox' = outbox
  BY <1>1 DEF Reports
<1>2. CASE outbox' = Append(outbox, x)
  <2>1. PICK k \in from..Len(outbox) : outbox[k][1] \in Ending /\ outbox[k][2] = t
    BY DEF Reports
  <2>2. Len(outbox) \in Nat /\ Len(outbox') = Len(outbox) + 1
    BY <1>2, ChannelGrows
  <2>3. k \in from..Len(outbox') /\ k \in 1..Len(outbox)
    BY <2>1, <2>2
  <2>4. outbox'[k] = outbox[k]
    BY <1>2, <2>3, ChannelGrows
  <2> QED
    BY <2>1, <2>3, <2>4 DEF Reports
<1> QED
  BY <1>1, <1>2 DEF Grows

\* A step at whose end every task that was worked on is, or has reported.
LEMMA WorkGoesOn ==
  ASSUME TypeOK, WorkIsReported, NEW STATE x, Grows(x),
         \A t \in Task : outbox' = Append(outbox, x) /\ x = <<"started", t>> => Works(t)',
         \A t \in Task : Works(t) =>
           Works(t)' \/ (outbox' = Append(outbox, x) /\ x[1] \in Ending /\ x[2] = t),
         \A t \in Task : link' = "up" /\ desk'[t] \in Held =>
           Works(t)' \/ (link = "up" /\ desk[t] \in Held)
  PROVE  WorkIsReported'
<1>0. Len(outbox) \in Nat
  BY DEF TypeOK
<1>1. ASSUME NEW t \in Task, NEW from \in 1..Len(outbox) + 1, Works(t) \/ Reports(t, from)
      PROVE  Works(t)' \/ Reports(t, from)'
  <2>1. from \in Nat \ {0}
    BY <1>0
  <2>2. CASE Reports(t, from)
    BY <2>1, <2>2, ReportsGrow
  <2>3. CASE outbox' = Append(outbox, x) /\ x[1] \in Ending /\ x[2] = t
    <3>1. Len(outbox) + 1 \in from..Len(outbox') /\ outbox'[Len(outbox) + 1] = x
      BY <1>0, <2>1, <2>3, ChannelGrows
    <3> QED
      BY <2>3, <3>1 DEF Reports
  <2> QED
    BY <1>1, <2>2, <2>3
<1>2. ASSUME link' = "up", NEW t \in Task, desk'[t] \in Held
      PROVE  Works(t)' \/ Reports(t, 1)'
  <2>1. Works(t)' \/ Works(t) \/ Reports(t, 1)
    BY <1>2 DEF WorkIsReported
  <2>2. 1 \in 1..Len(outbox) + 1
    BY <1>0
  <2> QED
    BY <1>1, <2>1, <2>2
<1>3. ASSUME NEW t \in Task, NEW k \in 1..Len(outbox'), outbox'[k] = <<"started", t>>
      PROVE  Works(t)' \/ Reports(t, k)'
  <2>1. CASE k \in 1..Len(outbox)
    <3>1. outbox'[k] = outbox[k]
      BY <2>1, ChannelGrows DEF Grows
    <3>2. Works(t) \/ Reports(t, k)
      BY <1>3, <2>1, <3>1 DEF WorkIsReported
    <3>3. k \in 1..Len(outbox) + 1
      BY <1>0, <2>1
    <3> QED
      BY <1>1, <3>2, <3>3
  <2>2. CASE k \notin 1..Len(outbox)
    <3>1. outbox' = Append(outbox, x)
      BY <1>3, <2>2 DEF Grows
    <3>2. Len(outbox') = Len(outbox) + 1 /\ outbox'[Len(outbox) + 1] = x
      BY <3>1, ChannelGrows
    <3>3. k = Len(outbox) + 1
      BY <1>0, <2>2, <3>2
    <3> QED
      BY <1>3, <3>1, <3>2, <3>3
  <2> QED
    BY <2>1, <2>2
<1> QED
  BY <1>2, <1>3 DEF WorkIsReported

\* Every run stays where it is on its way, or goes one on.
LEMMA ListGoesOn ==
  ASSUME TypeOK, UnusedAhead, ListedGoesOn, spawned' = spawned,
         \A k \in Run : /\ run'[k].task = run[k].task
                        /\ run[k].phase = "unused" => run'[k].phase = "unused"
                        /\ Active(k) => Active(k)' \/ run'[k].phase = "closing",
         \A t \in Task, k \in Run : running'[t] = k =>
           /\ running[t] = k
           /\ run[k].phase = "closing" => run'[k].phase = "closing"
  PROVE  UnusedAhead' /\ ListedGoesOn'
<1>1. UnusedAhead'
  BY DEF UnusedAhead
<1>2. ASSUME NEW t \in Task, NEW k \in Run, running'[t] = k
      PROVE  run'[k].task = t /\ (Active(k)' \/ run'[k].phase = "closing")
  BY <1>2 DEF ListedGoesOn
<1> QED
  BY <1>1, <1>2 DEF ListedGoesOn

LEMMA GoodbyeIs ==
  /\ Goodbye[1] \notin Ending
  /\ \A t \in Task : Goodbye # <<"started", t>>
  BY DEF Goodbye, Ending

LEMMA CheckExitGrows == CheckExit => Grows(Goodbye)
  BY DEF CheckExit, Grows

\* No run moves, as far as this goes.
LEMMA QuietWork ==
  ASSUME TypeOK, Working, spawned' = spawned,
         \A k \in Run : run'[k].task = run[k].task /\ run'[k].phase = run[k].phase,
         \A t \in Task : running'[t] \in {running[t], NoRun},
         Grows(Goodbye),
         \A t \in Task : link' = "up" /\ desk'[t] \in Held =>
           Works(t) \/ (link = "up" /\ desk[t] \in Held)
  PROVE  Working'
<1>1. \A k \in Run : Active(k)' = Active(k)
  BY DEF Active
<1>2. \A t \in Task : Works(t)' = Works(t)
  BY <1>1 DEF Works
<1>3. WorkIsReported'
  BY <1>2, GoodbyeIs, WorkGoesOn DEF Working
<1>4. \A t \in Task, k \in Run : running'[t] = k => running[t] = k
  BY DEF Run, NoRun
<1>5. UnusedAhead' /\ ListedGoesOn'
  BY <1>1, <1>4, ListGoesOn DEF Working
<1> QED
  BY <1>3, <1>5 DEF Working

LEMMA InitWork == Init => Working
<1> SUFFICES ASSUME Init PROVE Working
  OBVIOUS
<1>1. UnusedAhead
  BY UnusedType DEF Init, UnusedAhead
<1>2. ListedGoesOn
  BY DEF Init, ListedGoesOn, Run, NoRun
<1>3. WorkIsReported
  BY DEF Init, WorkIsReported
<1> QED
  BY <1>1, <1>2, <1>3 DEF Working

LEMMA BeginWork ==
  ASSUME Inv, Working, NEW t \in Task, NEW goal \in {"plan", "work"}, Begin(t, goal),
         \A u \in Task \ {t} : desk'[u] = desk[u]
  PROVE  Working'
<1> DEFINE records == Told(running[t], FALSE)
<1> USE DEF Inv
<1>0. PICK new \in Run : new = spawned + 1
  BY AgentParametersAreTyped DEF TypeOK, Begin, Run
<1>1. running[t] \in Run \union {NoRun} /\ spawned \in Nat /\ spawned' = new /\ new > spawned
  BY <1>0 DEF TypeOK, Begin
<1>2. Spawned(t, goal).task = t /\ Spawned(t, goal).phase = "ready"
  BY FreshType DEF Spawned, Phase, Goal
<1>3. /\ records \in [Run -> Record]
      /\ \A k \in Run : records[k].task = run[k].task /\ records[k].phase = run[k].phase
  BY <1>1, ToldChanges DEF TypeOK
<1>4. run' = [records EXCEPT ![new] = Spawned(t, goal)]
  BY <1>0 DEF Begin
<1> HIDE DEF records
<1>5. /\ run'[new].task = t /\ Active(new)'
      /\ \A k \in Run : k # new => /\ run'[k].task = run[k].task
                                   /\ run'[k].phase = run[k].phase
                                   /\ Active(k)' = Active(k)
  BY <1>1, <1>2, <1>3, <1>4 DEF Active
<1>6. run[new].phase = "unused"
  BY <1>1 DEF Working, UnusedAhead
<1>7. UnusedAhead'
  BY <1>0, <1>1, <1>5 DEF Working, UnusedAhead, Run
<1>8. ListedGoesOn'
  <2> SUFFICES ASSUME NEW u \in Task, NEW k \in Run, running'[u] = k
               PROVE  run'[k].task = u /\ (Active(k)' \/ run'[k].phase = "closing")
    BY DEF ListedGoesOn
  <2>1. running' = [running EXCEPT ![t] = new]
    BY <1>0 DEF Begin
  <2>2. CASE u = t
    BY <1>5, <2>1, <2>2 DEF TypeOK
  <2>3. CASE u # t
    <3>1. running[u] = k
      BY <2>1, <2>3 DEF TypeOK
    <3>2. run[k].task = u /\ (Active(k) \/ run[k].phase = "closing")
      BY <3>1 DEF Working, ListedGoesOn
    <3>3. k # new
      BY <1>6, <3>2 DEF Active
    <3> QED
      BY <1>5, <3>2, <3>3
  <2> QED
    BY <2>2, <2>3
<1>9. WorkIsReported'
  <2>1. Grows(Goodbye) /\ link' = link
    BY CheckExitGrows DEF Begin
  <2>2. \A u \in Task : Works(u) => Works(u)'
    BY <1>5, <1>6 DEF Works, Active
  <2>3. Works(t)'
    BY <1>1, <1>5 DEF Works
  <2>4. \A u \in Task : link' = "up" /\ desk'[u] \in Held =>
          Works(u)' \/ (link = "up" /\ desk[u] \in Held)
    BY <2>1, <2>3
  <2> QED
    BY <2>1, <2>2, <2>4, GoodbyeIs, WorkGoesOn DEF Working
<1> QED
  BY <1>7, <1>8, <1>9 DEF Working

\* A push or a discard begins, or ends: no run of the map is concerned.
LEMMA PlacesWork ==
  ASSUME Inv, Working, NEW i \in Run, NEW STATE next,
         ~Active(i), run[i].phase # "closing", next.phase \in {"job", "done"},
         run' = [run EXCEPT ![i] = next],
         spawned' \in Nat, spawned' >= spawned, spawned' >= i,
         NEW STATE x, Grows(x), \A t \in Task : x # <<"started", t>>,
         UNCHANGED <<running, link, desk>>
  PROVE  Working'
<1> USE DEF Inv
<1>1. /\ run'[i] = next
      /\ \A k \in Run : k # i => run'[k] = run[k]
  BY DEF TypeOK
<1>2. \A k \in Run : Active(k)' = Active(k)
  BY <1>1 DEF Active
<1>3. UnusedAhead'
  BY <1>1 DEF Working, UnusedAhead, Run, TypeOK
<1>4. ListedGoesOn'
  BY <1>1, <1>2 DEF Working, ListedGoesOn
<1>5. \A t \in Task : Works(t) => Works(t)'
  BY <1>1, <1>2 DEF Works
<1>6. WorkIsReported'
  BY <1>5, WorkGoesOn DEF Working
<1> QED
  BY <1>3, <1>4, <1>6 DEF Working

LEMMA JobWork ==
  ASSUME Inv, Working, NEW t \in Task, NEW goal \in {"push", "discard"}, Job(t, goal)
  PROVE  Working'
<1> DEFINE next == Spawned(t, goal)
<1> USE DEF Inv
<1>1. next.phase = "job"
  BY FreshType DEF Spawned, Phase, Goal
<1>2. PICK new \in Run : new = spawned + 1
  BY AgentParametersAreTyped DEF Job, TypeOK, Run
<1>3. spawned' = new /\ new \in Nat /\ new > spawned /\ new >= spawned /\ new >= new
  BY <1>2 DEF Job, TypeOK
<1>4. run' = [run EXCEPT ![new] = next]
  BY <1>2 DEF Job
<1>5. ~Active(new) /\ run[new].phase # "closing"
  BY <1>3 DEF Working, UnusedAhead, Active
<1> HIDE DEF next
<1>6. Grows(Goodbye) /\ UNCHANGED <<running, link, desk>>
  BY CheckExitGrows DEF Job, maps, session
<1> QED
  BY <1>1, <1>3, <1>4, <1>5, <1>6, GoodbyeIs, PlacesWork

LEMMA DoJobWork ==
  ASSUME Inv, Working, NEW i \in Run, DoJob(i)
  PROVE  Working'
<1> DEFINE next == Fresh(run[i].task, "done", "work", run[i].endings + 1)
<1> USE DEF Inv
<1>1. next.phase = "done"
  BY DEF Fresh
<1>2. run' = [run EXCEPT ![i] = next]
  BY DEF DoJob
<1> HIDE DEF next
<1>3. run[i].phase = "job" /\ spawned' = spawned /\ spawned' \in Nat
  BY DEF DoJob, Going, TypeOK
<1>4. spawned' >= i /\ spawned' >= spawned
  BY <1>3 DEF Working, UnusedAhead, Run
<1>5. ~Active(i) /\ run[i].phase # "closing"
  BY <1>3 DEF Active
<1>6. PICK e \in {"pushed", "conflicted", "failed", "discarded"} :
        outbox' = Append(outbox, <<e, run[i].task>>)
  BY DEF DoJob, Say
<1>7. \A t \in Task : <<e, run[i].task>> # <<"started", t>>
  BY <1>6
<1>8. UNCHANGED <<running, link, desk>>
  BY DEF DoJob, maps, session
<1>9. Grows(<<e, run[i].task>>)
  BY <1>6 DEF Grows
<1> QED
  BY <1>1, <1>2, <1>3, <1>4, <1>5, <1>7, <1>8, <1>9, PlacesWork

\* Run i ends and says so, goes on in another phase, or has spawned a process.
LEMMA MovesWork ==
  ASSUME Inv, Working, NEW i \in Run, Active(i), NEW STATE records, Alike(records),
         NEW STATE next, run' = [records EXCEPT ![i] = next], next.task = run[i].task,
         NEW STATE x, Grows(x),
         \/ next.phase = "closing" /\ outbox' = Append(outbox, x)
            /\ x[1] \in Ending /\ x[2] = run[i].task
         \/ /\ next.phase \in {"ready", "waiting", "checks"}
            /\ \/ outbox' = outbox
               \/ x = <<"started", run[i].task>>,
         UNCHANGED <<spawned, running, link, desk>>
  PROVE  Working'
<1> USE DEF Inv
<1>1. /\ run'[i] = next
      /\ \A k \in Run : /\ k # i => run'[k] = records[k]
                        /\ k # i => run'[k].phase = run[k].phase
                        /\ run'[k].task = run[k].task
  BY DEF Alike
<1>2. \A k \in Run \ {i} : Active(k)' = Active(k)
  BY <1>1 DEF Active
<1>3. run[i].phase # "unused" /\ run[i].phase # "closing"
  BY DEF Active
<1>4. Active(i)' \/ run'[i].phase = "closing"
  BY <1>1 DEF Active
<1>5. UnusedAhead' /\ ListedGoesOn'
  BY <1>1, <1>2, <1>3, <1>4, ListGoesOn DEF Working
<1>6. WorkIsReported'
  <2>1. CASE next.phase = "closing" /\ outbox' = Append(outbox, x)
             /\ x[1] \in Ending /\ x[2] = run[i].task
    <3>1. \A t \in Task : x # <<"started", t>>
      BY <2>1 DEF Ending
    <3>2. \A t \in Task : Works(t) => Works(t)' \/ x[2] = t
      BY <1>1, <1>2, <2>1 DEF Works
    <3> QED
      BY <2>1, <3>1, <3>2, WorkGoesOn DEF Working
  <2>2. CASE /\ next.phase \in {"ready", "waiting", "checks"}
             /\ \/ outbox' = outbox
                \/ x = <<"started", run[i].task>>
    <3>1. Active(i)'
      BY <1>1, <2>2 DEF Active
    <3>2. \A t \in Task : Works(t) => Works(t)'
      BY <1>1, <1>2, <3>1 DEF Works
    <3>3. \A t \in Task : run[i].task = t => Works(t)'
      BY <1>1, <3>1 DEF Works
    <3>4. \A t \in Task : outbox' = Append(outbox, x) /\ x = <<"started", t>> => Works(t)'
      <4> SUFFICES ASSUME NEW t \in Task, outbox' = Append(outbox, x), x = <<"started", t>>
                   PROVE  run[i].task = t
        BY <3>3
      <4>1. outbox' # outbox
        <5>1. Len(outbox') = Len(outbox) + 1 /\ Len(outbox) \in Nat
          BY ChannelGrows
        <5> QED
          BY <5>1
      <4> QED
        BY <2>2, <4>1
    <3> QED
      BY <3>2, <3>4, WorkGoesOn DEF Working
  <2> QED
    BY <2>1, <2>2
<1> QED
  BY <1>5, <1>6 DEF Working

LEMMA EndsWork ==
  ASSUME Inv, Working, NEW i \in Run, Active(i), NEW STATE records, Alike(records),
         NEW how \in Ending, Ends(records, i, how),
         UNCHANGED <<spawned, running, session>>
  PROVE  Working'
<1> DEFINE next == Fresh(run[i].task, "closing", "work", records[i].endings + 1)
           x == <<how, run[i].task>>
<1>1. next.phase = "closing" /\ next.task = run[i].task
  BY DEF Fresh
<1>2. run' = [records EXCEPT ![i] = next] /\ outbox' = Append(outbox, x)
  BY DEF Ends, Say
<1>3. x[1] \in Ending /\ x[2] = run[i].task
  OBVIOUS
<1> HIDE DEF next, x
<1>4. Grows(x) /\ UNCHANGED <<spawned, running, link, desk>>
  BY <1>2 DEF Grows, session
<1> QED
  BY <1>1, <1>2, <1>3, <1>4, MovesWork

LEMMA BecomesWork ==
  ASSUME Inv, Working, NEW i \in Run, Active(i), NEW STATE records, Alike(records),
         NEW phase \in {"ready", "checks"}, NEW goal \in Goal, NEW tries \in Nat,
         Becomes(records, i, phase, goal, tries),
         UNCHANGED <<spawned, running, session>>
  PROVE  Working'
<1> DEFINE next == [records[i] EXCEPT !.phase = phase, !.goal = goal, !.tries = tries]
<1>1. next.phase = phase /\ next.task = run[i].task
  BY DEF Alike, Record
<1>2. run' = [records EXCEPT ![i] = next] /\ outbox' = outbox
  BY DEF Becomes
<1> HIDE DEF next
<1>3. Grows(Goodbye) /\ UNCHANGED <<spawned, running, link, desk>>
  BY <1>2 DEF Grows, session
<1> QED
  BY <1>1, <1>2, <1>3, MovesWork

LEMMA AllMovesWork ==
  ASSUME Inv, Working, NEW i \in Run, Moves(i)
  PROVE  Working'
<1>1. Alike(run) /\ Alike(Freed(i))
  BY FreedChanges DEF Inv, TypeOK, Alike
<1>2. Active(i) /\ UNCHANGED <<spawned, running, session>>
  BY DEF Moves
<1>3. ASSUME NEW e \in Ending, Ends(run, i, e)
      PROVE  Working'
  BY <1>1, <1>2, <1>3, EndsWork
<1>4. ASSUME NEW e \in Ending, Ends(Freed(i), i, e)
      PROVE  Working'
  BY <1>1, <1>2, <1>4, EndsWork
<1>5. ASSUME NEW phase \in {"ready", "checks"}, NEW goal \in Goal, NEW tries \in Nat,
             Becomes(run, i, phase, goal, tries)
      PROVE  Working'
  BY <1>1, <1>2, <1>5, BecomesWork
<1>6. ASSUME NEW phase \in {"ready", "checks"}, NEW goal \in Goal, NEW tries \in Nat,
             Becomes(Freed(i), i, phase, goal, tries)
      PROVE  Working'
  BY <1>1, <1>2, <1>6, BecomesWork
<1> QED
  BY <1>3, <1>4, <1>5, <1>6 DEF Moves

LEMMA SpawnWork ==
  ASSUME Inv, Working, NEW i \in Run, Spawn(i)
  PROVE  Working'
<1> DEFINE next == [run[i] EXCEPT !.phase = "waiting", !.nudged = FALSE]
           x == <<"started", run[i].task>>
<1> USE DEF Inv
<1>1. Alike(Freed(i)) /\ Active(i)
  BY FreedChanges DEF TypeOK, Spawn, Going, Active
<1>2. next.phase = "waiting" /\ next.task = run[i].task
  BY DEF TypeOK, Record
<1>3. run' = [Freed(i) EXCEPT ![i] = next] /\ outbox' = Append(outbox, x)
  BY DEF Spawn, Say
<1>4. x = <<"started", run[i].task>>
  OBVIOUS
<1> HIDE DEF next, x
<1>5. Grows(x) /\ UNCHANGED <<spawned, running, link, desk>>
  BY <1>3 DEF Grows, Spawn, session
<1> QED
  BY <1>1, <1>2, <1>3, <1>4, <1>5, MovesWork

\* The entry that leaves the map with run i is of the same task: another task's
\* entry lists a run of that task, which is not i.
LEMMA FinishWork ==
  ASSUME Inv, Working, NEW i \in Run, Finish(i)
  PROVE  Working'
<1> DEFINE records == Told(running[run[i].task], FALSE)
<1> USE DEF Inv
<1>0. PICK t \in Task : t = run[i].task
  BY DEF TypeOK, Record
<1>1. run[i].phase = "closing" /\ running[t] \in Run \union {NoRun}
  BY <1>0 DEF Finish, Going, TypeOK
<1>2. /\ records \in [Run -> Record]
      /\ \A k \in Run : records[k].task = run[k].task /\ records[k].phase = run[k].phase
  BY <1>0, <1>1, ToldChanges DEF TypeOK
<1>3. run' = [records EXCEPT ![i].phase = "done"] /\ running' = [running EXCEPT ![t] = NoRun]
  BY <1>0 DEF Finish
<1> HIDE DEF records
<1>4. \A k \in Run : /\ run'[k].task = run[k].task
                     /\ k # i => run'[k].phase = run[k].phase
                     /\ k = i => run'[k].phase = "done"
  BY <1>2, <1>3 DEF Record
<1>5. \A k \in Run : Active(k)' = Active(k)
  BY <1>1, <1>4 DEF Active
<1>6. \A u \in Task, k \in Run : running'[u] = k => running[u] = k /\ u # t
  BY <1>3 DEF TypeOK, Run, NoRun
<1>7. \A u \in Task, k \in Run : running'[u] = k => k # i
  BY <1>0, <1>6 DEF Working, ListedGoesOn
<1>8. UnusedAhead' /\ ListedGoesOn'
  <2>1. spawned' = spawned
    BY DEF Finish
  <2> QED
    BY <1>1, <1>4, <1>5, <1>6, <1>7, <2>1, ListGoesOn DEF Working
<1>9. WorkIsReported'
  <2>1. Grows(Goodbye) /\ UNCHANGED <<link, desk>>
    BY CheckExitGrows DEF Finish, session
  <2>2. \A u \in Task : Works(u) => Works(u)'
    BY <1>4, <1>5 DEF Works
  <2> QED
    BY <2>1, <2>2, GoodbyeIs, WorkGoesOn DEF Working
<1> QED
  BY <1>8, <1>9 DEF Working

LEMMA StepWork ==
  ASSUME Inv, Working, NEW i \in Run, Step(i)
  PROVE  Working'
<1>1. CASE FailToStart(i)
  <2>1. Moves(i)
    BY <1>1 DEF FailToStart, Going, Moves, Active, Ending, Inv, TypeOK, maps
  <2> QED
    BY <2>1, AllMovesWork
<1>2. CASE Kill(i) \/ TimeOut(i)
  <2>1. Moves(i)
    BY <1>2, StoppedIs DEF Kill, TimeOut, Moves, Ending, Inv
  <2> QED
    BY <2>1, AllMovesWork
<1>3. CASE Exit(i) \/ Check(i)
  BY <1>3, ExitMoves, CheckMoves, AllMovesWork DEF Inv
<1>4. CASE Spawn(i) \/ Finish(i) \/ DoJob(i)
  BY <1>4, SpawnWork, FinishWork, DoJobWork
<1> QED
  BY <1>1, <1>2, <1>3, <1>4 DEF Step

LEMMA FrameWork ==
  ASSUME Inv, Working, NEW t \in Task, Frame(t)
  PROVE  Working'
<1> USE DEF Inv
<1>1. ASSUME NEW goal \in {"plan", "work"}, Start(t, goal) \/ Message(t, goal)
      PROVE  Working'
  <2>1. Begin(t, goal) /\ \A u \in Task \ {t} : desk'[u] = desk[u]
    BY <1>1 DEF Start, Message, TypeOK
  <2> QED
    BY <2>1, BeginWork
<1>2. CASE LoseFrame(t)
  <2>1. /\ UNCHANGED <<spawned, run, running, outbox, link>>
        /\ link = "broken"
    BY <1>2 DEF LoseFrame, maps
  <2> QED
    BY <2>1, QuietWork DEF Grows
<1>3. CASE Cancel(t)
  <2>1. running[t] \in Run \union {NoRun} /\ run' = Told(running[t], TRUE)
    BY <1>3 DEF Cancel, TypeOK
  <2>2. \A k \in Run : run'[k].task = run[k].task /\ run'[k].phase = run[k].phase
    BY <2>1, ToldChanges DEF TypeOK
  <2>3. \A u \in Task : running'[u] \in {running[u], NoRun}
    BY <1>3 DEF Cancel, TypeOK
  <2>4. Grows(Goodbye) /\ UNCHANGED <<spawned, link, desk>>
    BY <1>3, CheckExitGrows DEF Cancel, session
  <2> QED
    BY <2>2, <2>3, <2>4, QuietWork
<1>4. CASE Interrupt(t)
  <2>1. \A k \in Run : run'[k].task = run[k].task /\ run'[k].phase = run[k].phase
    <3>1. CASE interrupt[t] = NoRun
      BY <1>4, <3>1 DEF Interrupt
    <3>2. CASE interrupt[t] # NoRun
      <4> DEFINE i == interrupt[t]
      <4>1. i \in Run
        BY <3>2 DEF TypeOK
      <4>2. run' = [run EXCEPT ![i].nudged = TRUE, ![i].asked = TRUE]
        BY <1>4, <3>2 DEF Interrupt
      <4> HIDE DEF i
      <4> QED
        BY <4>1, <4>2 DEF TypeOK, Record
    <3> QED
      BY <3>1, <3>2
  <2>2. Grows(Goodbye) /\ UNCHANGED <<spawned, running, link, desk>>
    BY <1>4, CheckExitGrows DEF Interrupt, session
  <2> QED
    BY <2>1, <2>2, QuietWork
<1>5. ASSUME NEW goal \in {"push", "discard"}, Job(t, goal)
      PROVE  Working'
  BY <1>5, JobWork
<1> QED
  BY <1>1, <1>2, <1>3, <1>4, <1>5 DEF Frame

\* What AllLost leaves is not held, so a step that ends the connection or loses
\* everything leaves nothing to wait for.
LEMMA AllLostHolds == TypeOK => \A t \in Task : AllLost[t] \notin Held
  BY DEF AllLost, Held, TypeOK

\* Only a "started" makes a task held, and no ending leaves it so.
LEMMA SeenHolds ==
  ASSUME NEW view \in Desk, NEW e, Seen(view, e) \in Held
  PROVE  e = "started"
  BY DEF Seen, Desk, Held

\* What is behind the head of the channel moves up by one.
LEMMA ChannelShrinks ==
  ASSUME TypeOK, outbox # <<>>, outbox' = Tail(outbox)
  PROVE  /\ Len(outbox) \in Nat \ {0} /\ Len(outbox') = Len(outbox) - 1
         /\ outbox[1] = Head(outbox) /\ Head(outbox) \in Outgoing
         /\ \A k \in 1..Len(outbox') : outbox'[k] = outbox[k + 1] /\ k + 1 \in 1..Len(outbox)
<1>1. outbox \in Seq(Outgoing)
  BY DEF TypeOK
<1> QED
  BY <1>1

LEMMA ReportsShrink ==
  ASSUME TypeOK, outbox # <<>>, outbox' = Tail(outbox), NEW t, NEW from \in Nat \ {0},
         Reports(t, from + 1)
  PROVE  Reports(t, from)'
<1>1. PICK k \in from + 1..Len(outbox) : outbox[k][1] \in Ending /\ outbox[k][2] = t
  BY DEF Reports
<1>2. Len(outbox) \in Nat \ {0} /\ Len(outbox') = Len(outbox) - 1
  BY ChannelShrinks
<1>3. k - 1 \in from..Len(outbox') /\ k - 1 \in 1..Len(outbox') /\ (k - 1) + 1 = k
  BY <1>1, <1>2
<1>4. outbox'[k - 1] = outbox[k]
  BY <1>3, ChannelShrinks
<1> QED
  BY <1>1, <1>3, <1>4 DEF Reports

\* An event leaves the channel and no run moves.  What it was, is as follows: if
\* it made a task held, its "started" was in the channel; if it was the ending of
\* a task that is still held, it was not lost on the way to the desk.
LEMMA SendWork ==
  ASSUME Inv, Working, outbox # <<>>, outbox' = Tail(outbox), process # "gone",
         UNCHANGED <<spawned, run, running>>,
         \A t \in Task : link' = "up" /\ desk'[t] \in Held =>
           \/ outbox[1] = <<"started", t>>
           \/ /\ link = "up" /\ desk[t] \in Held
              /\ ~(outbox[1][1] \in Ending /\ outbox[1][2] = t)
  PROVE  Working'
<1> USE DEF Inv
<1>1. UnusedAhead' /\ ListedGoesOn'
  BY DEF Working, UnusedAhead, ListedGoesOn, Active
<1>2. \A t \in Task : Works(t)' = Works(t)
  BY DEF Works, Active
<1>3. Len(outbox) \in Nat \ {0} /\ 1 \in 1..Len(outbox)
  BY ChannelShrinks
<1>4. ASSUME NEW t \in Task, link' = "up", desk'[t] \in Held
      PROVE  Works(t)' \/ Reports(t, 1)'
  <2>1. Works(t) \/ Reports(t, 1)
    BY <1>3, <1>4 DEF Working, WorkIsReported
  <2>2. ~(outbox[1][1] \in Ending /\ outbox[1][2] = t)
    BY <1>4 DEF Ending
  <2>3. Reports(t, 1) => Reports(t, 1 + 1)
    BY <1>3, <2>2 DEF Reports
  <2>4. Reports(t, 1 + 1) => Reports(t, 1)'
    BY ReportsShrink
  <2> QED
    BY <1>2, <2>1, <2>3, <2>4
<1>5. ASSUME NEW t \in Task, NEW k \in 1..Len(outbox'), outbox'[k] = <<"started", t>>
      PROVE  Works(t)' \/ Reports(t, k)'
  <2>1. outbox'[k] = outbox[k + 1] /\ k + 1 \in 1..Len(outbox) /\ k \in Nat \ {0}
    BY <1>3, ChannelShrinks
  <2>2. Works(t) \/ Reports(t, k + 1)
    BY <1>5, <2>1 DEF Working, WorkIsReported
  <2>3. Reports(t, k + 1) => Reports(t, k)'
    BY <2>1, ReportsShrink
  <2> QED
    BY <1>2, <2>2, <2>3
<1>6. WorkIsReported'
  BY <1>4, <1>5 DEF WorkIsReported
<1> QED
  BY <1>1, <1>6 DEF Working

LEMMA ConnectionWork ==
  ASSUME Inv, Working,
         Send \/ SendGoodbye \/ Connect \/ Break \/ Notice \/ Expire \/ Leave
         \/ UNCHANGED vars
  PROVE  Working'
<1> USE DEF Inv
<1>1. UNCHANGED <<spawned, run, running>>
  BY DEF Send, SendGoodbye, Connect, Break, Notice, Expire, Leave, vars, maps
<1>2. CASE Send
  <2>1. outbox # <<>> /\ outbox' = Tail(outbox) /\ process # "gone"
    BY <1>2 DEF Send
  <2>2. ASSUME NEW t \in Task, link' = "up", desk'[t] \in Held
        PROVE  \/ outbox[1] = <<"started", t>>
               \/ /\ link = "up" /\ desk[t] \in Held
                  /\ ~(outbox[1][1] \in Ending /\ outbox[1][2] = t)
    <3> DEFINE e == Head(outbox)[1]
               u == Head(outbox)[2]
    <3>1. link = "up" /\ desk' = [desk EXCEPT ![u] = Seen(desk[u], e)]
      BY <1>2, <2>2 DEF Send
    <3>2. outbox[1] = Head(outbox) /\ Head(outbox) \in Outgoing \ {Goodbye}
      BY <1>2, <2>1, ChannelShrinks DEF Send
    <3>3. Head(outbox) = <<e, u>>
      BY <3>2 DEF Outgoing
    <3>4. CASE u = t
      <4>1. desk'[t] = Seen(desk[t], e) /\ desk[t] \in Desk
        BY <3>1, <3>4 DEF TypeOK
      <4>2. e = "started"
        BY <2>2, <4>1, SeenHolds
      <4> QED
        BY <3>2, <3>3, <3>4, <4>2
    <3>5. CASE u # t
      BY <2>2, <3>1, <3>2, <3>3, <3>5 DEF TypeOK
    <3> QED
      BY <3>4, <3>5
  <2> QED
    BY <1>1, <2>1, <2>2, SendWork
<1>3. CASE SendGoodbye
  <2>1. /\ outbox # <<>> /\ outbox' = Tail(outbox) /\ process # "gone"
        /\ link' = "down"
    BY <1>3 DEF SendGoodbye
  <2> QED
    BY <1>1, <2>1, SendWork
<1>4. CASE Connect
  <2>1. ASSUME NEW t \in Task, desk'[t] \in Held
        PROVE  Works(t)
    <3>1. running[t] # NoRun
      BY <1>4, <2>1, AllLostHolds DEF Connect
    <3>2. PICK k \in Run : running[t] = k
      BY <3>1 DEF TypeOK
    <3>3. run[k].task = t /\ Active(k)
      BY <1>4, <3>2 DEF Connect, Working, ListedGoesOn
    <3> QED
      BY <3>3 DEF Works
  <2>2. outbox' = outbox
    BY <1>4 DEF Connect
  <2> QED
    BY <1>1, <2>1, <2>2, QuietWork DEF Grows
<1>5. CASE Break \/ Notice \/ Expire \/ Leave \/ UNCHANGED vars
  <2>1. outbox' = outbox
    BY <1>5 DEF Break, Notice, Expire, Leave, vars
  <2>2. link' = "up" => link = "up" /\ desk' = desk
    BY <1>5 DEF Break, Notice, Expire, Leave, vars, session
  <2> QED
    BY <1>1, <2>1, <2>2, QuietWork DEF Grows
<1> QED
  BY <1>2, <1>3, <1>4, <1>5

LEMMA ShutdownWork == Inv /\ Working /\ Shutdown => Working'
<1> SUFFICES ASSUME Inv, Working, Shutdown PROVE Working'
  OBVIOUS
<1> USE DEF Inv
<1>1. \A k \in Run : /\ Told(k, TRUE)[k].task = run[k].task
                     /\ Told(k, TRUE)[k].phase = run[k].phase
  BY ToldChanges DEF TypeOK
<1>2. \A k \in Run : run'[k].task = run[k].task /\ run'[k].phase = run[k].phase
  BY <1>1 DEF Shutdown
<1>3. \A t \in Task : running'[t] = NoRun
  BY DEF Shutdown
<1>4. UNCHANGED <<spawned, outbox, link, desk>>
  BY DEF Shutdown, session
<1> QED
  BY <1>2, <1>3, <1>4, QuietWork DEF Grows

LEMMA NextWork == Inv /\ Working /\ [Next]_vars => Working'
<1> SUFFICES ASSUME Inv, Working, [Next]_vars PROVE Working'
  OBVIOUS
<1>1. ASSUME NEW t \in Task, Frame(t) PROVE Working'
  BY <1>1, FrameWork
<1>2. ASSUME NEW i \in Run, Step(i) PROVE Working'
  BY <1>2, StepWork
<1>3. CASE Shutdown
  BY <1>3, ShutdownWork
<1>4. CASE Send \/ SendGoodbye \/ Connect \/ Break \/ Notice \/ Expire \/ Leave
           \/ UNCHANGED vars
  BY <1>4, ConnectionWork
<1> QED
  BY <1>1, <1>2, <1>3, <1>4 DEF Next

-----------------------------------------------------------------------------

LEMMA NextInv == Inv /\ [Next]_vars => Inv'
<1> SUFFICES ASSUME Inv, [Next]_vars PROVE Inv'
  OBVIOUS
<1>1. ASSUME NEW t \in Task, Frame(t) PROVE Inv'
  BY <1>1, FrameInv
<1>2. ASSUME NEW i \in Run, Step(i) PROVE Inv'
  BY <1>2, StepInv
<1>3. CASE Shutdown
  BY <1>3, ShutdownInv
<1>4. CASE Send \/ SendGoodbye \/ Connect \/ Break \/ Notice \/ Expire \/ Leave
           \/ UNCHANGED vars
  BY <1>4, ConnectionInv
<1> QED
  BY <1>1, <1>2, <1>3, <1>4 DEF Next

LEMMA SpecInv == Spec => []Inv
  BY InitInv, NextInv, PTL DEF Spec

\* The runner's maps, channel and connection keep their types, whatever frames
\* arrive and however often the socket breaks.
THEOREM AgentTypeCorrect == Spec => []TypeOK
<1>1. Inv => TypeOK
  BY DEF Inv
<1> QED
  BY <1>1, SpecInv, PTL

\* Every run, push and discard reports exactly one ending: no way out of
\* run_task, follow_up, push_task and discard_task is silent and none reports
\* twice, for any retry, fix and review policy.
THEOREM EveryRunEndsOnce == Spec => []OneEndingEach
<1>1. Inv => OneEndingEach
  BY DEF Inv
<1> QED
  BY <1>1, SpecInv, PTL

\* A run that Ctx.running no longer lists, so that no Cancel can reach it, has
\* been told to stop: a replaced sender and a removed one are both noticed.
THEOREM NoRunIsOrphaned == Spec => []UnlistedIsStopping
<1>1. Inv => UnlistedIsStopping
  BY DEF Inv
<1> QED
  BY <1>1, SpecInv, PTL

\* While connected, what the orchestrator waits for is on its way, through lost
\* frames, replaced senders, breaks of the socket and shutdown: a run of every
\* task it holds for this runner goes on, or its ending is in the channel.
THEOREM HeldTasksAreWorkedOn == Spec => []HeldIsAlive
<1>1. Spec => []Working
  BY SpecInv, InitWork, NextWork, PTL DEF Spec
<1>2. Working => HeldIsAlive
  BY DEF Working, WorkIsReported, HeldIsAlive, Works, Reports
<1> QED
  BY <1>1, <1>2, PTL

-----------------------------------------------------------------------------
(* The orchestrator's side of the socket (RunnerRegistry.tla), for any set *)
(* of names and any number of sockets.  Three facts strengthen its safety  *)
(* properties to an inductive invariant: socket ids are never reused, a    *)
(* socket is open or ending but not both, and a timer of the present life  *)
(* is no newer than its entry.                                             *)

SocketsAreOld == \A s \in open \union ending : s.id <= conns

OpenOrEnding == open \intersect ending = {}

TimersAreOld ==
  \A tm \in timers :
    /\ tm.life <= life[tm.name]
    /\ tm.life = life[tm.name] /\ tm.name \in registered =>
         /\ tm.generation <= generation[tm.name]
         /\ Hits(tm) => tm.of = left[tm.name]

TableInv ==
  /\ RegistryTyped
  /\ SocketsAreOld
  /\ OpenOrEnding
  /\ ConnectedHasSocket
  /\ GraceHasTimer
  /\ TimersAreOld

-----------------------------------------------------------------------------
\* One lemma per action: the invariant survives it.

LEMMA TableStarts == RegistryInit => TableInv
  BY DEF RegistryInit, TableInv, RegistryTyped, SocketsAreOld, OpenOrEnding, ConnectedHasSocket,
         GraceHasTimer, TimersAreOld, Socket, Timer

LEMMA HelloTable ==
  ASSUME TableInv, NEW r \in Runner, Hello(r)
  PROVE  TableInv'
<1> DEFINE new == [id |-> conns + 1, name |-> r]
<1> USE DEF TableInv
<1>1. new \in Socket
  BY DEF Socket, RegistryTyped
<1>2. RegistryTyped'
  BY <1>1 DEF RegistryTyped, Hello
<1>3. SocketsAreOld'
  BY DEF SocketsAreOld, Hello, RegistryTyped, Socket
<1>4. OpenOrEnding'
  <2>1. new \notin ending
    BY DEF SocketsAreOld, RegistryTyped
  <2> QED
    BY <2>1 DEF OpenOrEnding, Hello
<1>5. ConnectedHasSocket'
  BY DEF ConnectedHasSocket, Hello, RegistryTyped
<1>6. GraceHasTimer'
  BY DEF GraceHasTimer, Hello, RegistryTyped
<1>7. TimersAreOld'
  <2> SUFFICES ASSUME NEW tm \in timers
               PROVE  /\ tm.life <= life'[tm.name]
                      /\ tm.life = life'[tm.name] /\ tm.name \in registered' =>
                           /\ tm.generation <= generation'[tm.name]
                           /\ Hits(tm)' => tm.of = left'[tm.name]
    BY DEF TimersAreOld, Hello
  <2>1. tm \in Timer
    BY DEF RegistryTyped
  <2>2. CASE tm.name = r
    BY <2>1, <2>2 DEF TimersAreOld, Hello, Hits, RegistryTyped, Timer
  <2>3. CASE tm.name # r
    BY <2>1, <2>3 DEF TimersAreOld, Hello, Hits, RegistryTyped, Timer
  <2> QED
    BY <2>2, <2>3
<1> QED
  BY <1>2, <1>3, <1>4, <1>5, <1>6, <1>7

LEMMA BreakTable ==
  ASSUME TableInv, NEW s \in open, SocketBreaks(s)
  PROVE  TableInv'
<1> USE DEF TableInv
<1>1. RegistryTyped'
  BY DEF RegistryTyped, SocketBreaks, table
<1>2. SocketsAreOld' /\ OpenOrEnding'
  BY DEF SocketsAreOld, OpenOrEnding, SocketBreaks
<1>3. ConnectedHasSocket'
  BY DEF ConnectedHasSocket, SocketBreaks, table
<1>4. GraceHasTimer' /\ TimersAreOld'
  BY DEF GraceHasTimer, TimersAreOld, Hits, SocketBreaks, table
<1> QED
  BY <1>1, <1>2, <1>3, <1>4

\* What removing an entry does to the parts that speak of the table.
LEMMA RemoveTable ==
  ASSUME TableInv, NEW r \in Runner, Remove(r)
  PROVE  /\ registered' \subseteq Runner
         /\ conn' \in [Runner -> Nat]
         /\ generation' \in [Runner -> Nat]
         /\ life' \in [Runner -> Nat]
         /\ \A x \in registered' : generation'[x] > 0
         /\ \A x \in Runner \ registered' : conn'[x] = 0 /\ generation'[x] = 0
         /\ \A x \in registered' : /\ x \in registered /\ x # r
                                   /\ conn'[x] = conn[x]
                                   /\ generation'[x] = generation[x]
         /\ \A x \in Runner : conn'[x] # 0 => x # r /\ conn'[x] = conn[x]
  BY DEF TableInv, RegistryTyped, Remove

LEMMA GoodbyeTable ==
  ASSUME TableInv, NEW s \in open, runner_goodbye(s)
  PROVE  TableInv'
<1>0. s \in Socket /\ s.name \in Runner
  BY DEF TableInv, RegistryTyped, Socket
<1>1. SocketsAreOld' /\ OpenOrEnding'
  BY DEF TableInv, SocketsAreOld, OpenOrEnding, runner_goodbye
<1>2. CASE ~Owns(s)
  <2>1. RegistryTyped'
    BY <1>2 DEF TableInv, RegistryTyped, runner_goodbye, table
  <2>2. ConnectedHasSocket'
    BY <1>2 DEF TableInv, ConnectedHasSocket, runner_goodbye, table
  <2>3. GraceHasTimer' /\ TimersAreOld'
    BY <1>2 DEF TableInv, GraceHasTimer, TimersAreOld, Hits, runner_goodbye, table
  <2> QED
    BY <1>1, <2>1, <2>2, <2>3 DEF TableInv
<1>3. CASE Owns(s)
  <2>0. Remove(s.name)
    BY <1>3 DEF runner_goodbye
  <2>1. RegistryTyped'
    BY <1>0, <2>0, RemoveTable DEF TableInv, RegistryTyped, runner_goodbye
  <2>2. ConnectedHasSocket'
    <3> SUFFICES ASSUME NEW r \in Runner, conn'[r] # 0
                 PROVE  /\ r \in registered'
                        /\ [id |-> conn'[r], name |-> r] \in open' \union ending'
      BY DEF ConnectedHasSocket
    <3>1. r # s.name /\ conn'[r] = conn[r]
      BY <1>0, <2>0, RemoveTable
    <3>2. r \in registered /\ [id |-> conn[r], name |-> r] \in open \union ending
      BY <3>1 DEF TableInv, ConnectedHasSocket
    <3>3. open' \union ending' = open \union ending
      BY DEF runner_goodbye
    <3>4. r \in registered'
      BY <2>0, <3>1, <3>2 DEF Remove
    <3> QED
      BY <3>1, <3>2, <3>3, <3>4
  <2>3. GraceHasTimer'
    BY <1>0, <2>0, RemoveTable DEF TableInv, GraceHasTimer, runner_goodbye
  <2>4. TimersAreOld'
    BY <1>0, <2>0, RemoveTable DEF TableInv, TimersAreOld, Hits, runner_goodbye, Remove
  <2> QED
    BY <1>1, <2>1, <2>2, <2>3, <2>4 DEF TableInv
<1> QED
  BY <1>2, <1>3

LEMMA DisconnectTable ==
  ASSUME TableInv, NEW s \in ending, Disconnect(s)
  PROVE  TableInv'
<1>0. s \in Socket /\ s.name \in Runner /\ s = [id |-> s.id, name |-> s.name]
  BY DEF TableInv, RegistryTyped, Socket
<1>1. SocketsAreOld' /\ OpenOrEnding'
  BY DEF TableInv, SocketsAreOld, OpenOrEnding, Disconnect
<1>2. CASE ~Owns(s)
  <2>1. RegistryTyped'
    BY <1>2 DEF TableInv, RegistryTyped, Disconnect, table
  <2>2. ConnectedHasSocket'
    <3> SUFFICES ASSUME NEW r \in Runner, conn[r] # 0
                 PROVE  /\ r \in registered
                        /\ [id |-> conn[r], name |-> r] \in open \union (ending \ {s})
      BY <1>2 DEF ConnectedHasSocket, Disconnect, table
    <3>1. r \in registered /\ [id |-> conn[r], name |-> r] \in open \union ending
      BY DEF TableInv, ConnectedHasSocket
    <3>2. [id |-> conn[r], name |-> r] # s
      BY <1>2, <3>1 DEF Owns
    <3> QED
      BY <3>1, <3>2
  <2>3. GraceHasTimer' /\ TimersAreOld'
    BY <1>2 DEF TableInv, GraceHasTimer, TimersAreOld, Hits, Disconnect, table
  <2> QED
    BY <1>1, <2>1, <2>2, <2>3 DEF TableInv
<1>3. CASE Owns(s)
  <2> DEFINE r == s.name
             own == [name |-> r, generation |-> generation[r] + 1,
                     of |-> left[r] + 1, life |-> life[r]]
  <2>0. /\ r \in registered
        /\ conn' = [conn EXCEPT ![r] = 0]
        /\ generation' = [generation EXCEPT ![r] = @ + 1]
        /\ left' = [left EXCEPT ![r] = @ + 1]
        /\ timers' = timers \union {own}
        /\ UNCHANGED <<registered, life, conns, open>>
        /\ ending' = ending \ {s}
    BY <1>3 DEF Disconnect, Owns
  <2>1. own \in Timer
    BY <1>0 DEF TableInv, RegistryTyped, Timer
  <2>2. RegistryTyped'
    BY <1>0, <2>0, <2>1 DEF TableInv, RegistryTyped
  <2>3. ConnectedHasSocket'
    BY <1>0, <2>0 DEF TableInv, RegistryTyped, ConnectedHasSocket
  <2>4. GraceHasTimer'
    <3> SUFFICES ASSUME NEW x \in registered, conn'[x] = 0
                 PROVE  \E tm \in timers' : /\ tm.name = x
                                            /\ tm.generation = generation'[x]
                                            /\ tm.of = left'[x]
      BY <2>0 DEF GraceHasTimer
    <3>1. CASE x = r
      <4>1. own \in timers' /\ own.name = x
        BY <2>0, <3>1
      <4>2. own.generation = generation'[x] /\ own.of = left'[x]
        BY <1>0, <2>0, <3>1 DEF TableInv, RegistryTyped
      <4> QED
        BY <4>1, <4>2
    <3>2. CASE x # r
      BY <1>0, <2>0, <3>2 DEF TableInv, RegistryTyped, GraceHasTimer
    <3> QED
      BY <3>1, <3>2
  <2>5. TimersAreOld'
    <3> SUFFICES ASSUME NEW tm \in timers'
                 PROVE  /\ tm.life <= life'[tm.name]
                        /\ tm.life = life'[tm.name] /\ tm.name \in registered' =>
                             /\ tm.generation <= generation'[tm.name]
                             /\ Hits(tm)' => tm.of = left'[tm.name]
      BY DEF TimersAreOld
    <3>1. tm \in Timer
      BY <2>0, <2>1 DEF TableInv, RegistryTyped
    <3>2. CASE tm = own
      BY <1>0, <2>0, <3>2 DEF TableInv, RegistryTyped
    <3>3. CASE tm \in timers /\ tm.name = r
      BY <1>0, <2>0, <3>1, <3>3 DEF TableInv, RegistryTyped, TimersAreOld, Hits, Timer
    <3>4. CASE tm \in timers /\ tm.name # r
      BY <1>0, <2>0, <3>1, <3>4 DEF TableInv, RegistryTyped, TimersAreOld, Hits, Timer
    <3> QED
      BY <2>0, <3>2, <3>3, <3>4
  <2> QED
    BY <1>1, <2>2, <2>3, <2>4, <2>5 DEF TableInv
<1> QED
  BY <1>2, <1>3

LEMMA ExpireTable ==
  ASSUME TableInv, NEW tm \in timers, expire_runner(tm)
  PROVE  TableInv'
<1>0. tm \in Timer /\ tm.name \in Runner
  BY DEF TableInv, RegistryTyped, Timer
<1>1. SocketsAreOld' /\ OpenOrEnding'
  BY DEF TableInv, SocketsAreOld, OpenOrEnding, expire_runner
<1>2. CASE ~Hits(tm)
  <2>1. RegistryTyped' /\ ConnectedHasSocket'
    BY <1>2 DEF TableInv, RegistryTyped, ConnectedHasSocket, expire_runner, table
  <2>2. GraceHasTimer'
    BY <1>2 DEF TableInv, GraceHasTimer, expire_runner, Hits, table
  <2>3. TimersAreOld'
    BY <1>2 DEF TableInv, TimersAreOld, Hits, expire_runner, table
  <2> QED
    BY <1>1, <2>1, <2>2, <2>3 DEF TableInv
<1>3. CASE Hits(tm)
  <2>0. Remove(tm.name)
    BY <1>3 DEF expire_runner
  <2>1. RegistryTyped'
    BY <1>0, <2>0, RemoveTable DEF TableInv, RegistryTyped, expire_runner
  <2>2. ConnectedHasSocket'
    BY <1>0, <2>0, RemoveTable DEF TableInv, ConnectedHasSocket, expire_runner, Remove
  <2>3. GraceHasTimer'
    BY <1>0, <2>0, RemoveTable DEF TableInv, GraceHasTimer, expire_runner
  <2>4. TimersAreOld'
    BY <1>0, <2>0, RemoveTable DEF TableInv, TimersAreOld, Hits, expire_runner, Remove
  <2> QED
    BY <1>1, <2>1, <2>2, <2>3, <2>4 DEF TableInv
<1> QED
  BY <1>2, <1>3

-----------------------------------------------------------------------------

\* The strengthened invariant holds of every behaviour.
THEOREM TableInvariance == RegistrySpec => []TableInv
<1>1. TableInv /\ [RegistryNext]_registryVars => TableInv'
  <2> SUFFICES ASSUME TableInv, [RegistryNext]_registryVars
               PROVE  TableInv'
    OBVIOUS
  <2>1. ASSUME NEW r \in Runner, Hello(r) PROVE TableInv'
    BY <2>1, HelloTable
  <2>2. ASSUME NEW s \in open, SocketBreaks(s) PROVE TableInv'
    BY <2>2, BreakTable
  <2>3. ASSUME NEW s \in open, runner_goodbye(s) PROVE TableInv'
    BY <2>3, GoodbyeTable
  <2>4. ASSUME NEW s \in ending, Disconnect(s) PROVE TableInv'
    BY <2>4, DisconnectTable
  <2>5. ASSUME NEW tm \in timers, expire_runner(tm) PROVE TableInv'
    BY <2>5, ExpireTable
  <2>6. CASE UNCHANGED registryVars
    BY <2>6 DEF registryVars, table, TableInv, RegistryTyped, SocketsAreOld, OpenOrEnding,
                ConnectedHasSocket, GraceHasTimer, TimersAreOld, Hits
  <2> QED
    BY <2>1, <2>2, <2>3, <2>4, <2>5, <2>6 DEF RegistryNext
<1> QED
  BY <1>1, TableStarts, PTL DEF RegistrySpec

\* The runner table and its sockets and timers keep their types.
THEOREM TableTypeCorrect == RegistrySpec => []RegistryTyped
<1>1. TableInv => RegistryTyped
  BY DEF TableInv
<1> QED
  BY <1>1, TableInvariance, PTL

\* A connected runner always has a socket whose end will disconnect it.
THEOREM NoOrphanConnection == RegistrySpec => []ConnectedHasSocket
<1>1. TableInv => ConnectedHasSocket
  BY DEF TableInv
<1> QED
  BY <1>1, TableInvariance, PTL

\* A runner in its grace period always has the timer of that disconnect asleep.
THEOREM NoOrphanGrace == RegistrySpec => []GraceHasTimer
<1>1. TableInv => GraceHasTimer
  BY DEF TableInv
<1> QED
  BY <1>1, TableInvariance, PTL

\* Within one stay in the table no timer ends another disconnect's grace period.
THEOREM GraceIsWhole == RegistrySpec => []TimerHitsItsOwn
<1>1. TableInv => TimerHitsItsOwn
  BY DEF TableInv, TimersAreOld, TimerHitsItsOwn, Hits
<1> QED
  BY <1>1, TableInvariance, PTL

\* The end of a replaced socket, by cleanup or goodbye, never unregisters the
\* socket that replaced it.
THEOREM StaleSocketsAreHarmless == RegistrySpec => OnlyItsOwnEnd
<1>1. TableInv /\ [RegistryNext]_registryVars =>
        [\A r \in Runner : conn[r] # 0 /\ conn'[r] = 0 =>
           [id |-> conn[r], name |-> r] \notin open']_registryVars
  <2> SUFFICES ASSUME TableInv, RegistryNext, NEW r \in Runner, conn[r] # 0, conn'[r] = 0
               PROVE  [id |-> conn[r], name |-> r] \notin open'
    OBVIOUS
  <2>1. CASE \E x \in Runner : Hello(x)
    BY <2>1 DEF Hello, TableInv, RegistryTyped
  <2>2. CASE \E s \in open : SocketBreaks(s)
    BY <2>2 DEF SocketBreaks, table
  <2>3. CASE \E s \in open : runner_goodbye(s)
    <3>1. PICK s \in open : runner_goodbye(s)
      BY <2>3
    <3>2. Owns(s) /\ s.name = r
      BY <3>1 DEF runner_goodbye, Remove, table, TableInv, RegistryTyped, Socket
    <3> QED
      BY <3>1, <3>2 DEF runner_goodbye, Owns, TableInv, RegistryTyped, Socket
  <2>4. CASE \E s \in ending : Disconnect(s)
    <3>1. PICK s \in ending : Disconnect(s)
      BY <2>4
    <3>2. Owns(s) /\ s.name = r
      BY <3>1 DEF Disconnect, table, TableInv, RegistryTyped, Socket
    <3>3. s = [id |-> conn[r], name |-> r]
      BY <3>2 DEF Owns, TableInv, RegistryTyped, Socket
    <3> QED
      BY <3>1, <3>3 DEF Disconnect, TableInv, OpenOrEnding
  <2>5. CASE \E tm \in timers : expire_runner(tm)
    <3>1. PICK tm \in timers : expire_runner(tm)
      BY <2>5
    <3>2. conn'[r] = conn[r]
      BY <3>1 DEF expire_runner, Remove, Hits, table, TableInv, RegistryTyped, Timer
    <3> QED
      BY <3>2
  <2> QED
    BY <2>1, <2>2, <2>3, <2>4, <2>5 DEF RegistryNext
<1> QED
  BY <1>1, TableInvariance, PTL DEF RegistrySpec, OnlyItsOwnEnd

=============================================================================
