------------------------------ MODULE AgentRun ------------------------------
(***************************************************************************)
(* One runner process: the tasks it spawns for the frames it is sent       *)
(* (connection.rs), what each of them does to a task (runner.rs,           *)
(* automation.rs), and its end (lib.rs).                                   *)
(*                                                                         *)
(* A run of a task is cancelled through a oneshot sender that Ctx.running  *)
(* holds under the task's id.  A sender that leaves the map unsent is      *)
(* dropped, and the receiver cannot tell the two apart.                    *)
(*                                                                         *)
(*   spawned    how many of run_task, follow_up, push_task and discard_task *)
(*              were spawned, and run, what became of each                 *)
(*   running    Ctx.running: the run whose sender a task's entry holds     *)
(*   interrupt  Ctx.interrupt, likewise                                    *)
(*   outbox     the channel of events not yet given to a socket            *)
(*   link       the socket: "down", "up", or "broken" and not yet noticed  *)
(*   finished, exiting   of Ctx                                            *)
(*   process    "alive", "leaving" after a signal, or "gone"               *)
(*   desk       what the orchestrator thinks of the task here; "none" when *)
(*              it is not with this runner or has ended                    *)
(*   breaks     how often the socket broke (bounded by MaxBreaks)          *)
(*                                                                         *)
(* Left out: terminals and inference; events that move no status; a        *)
(* restart of the process, which begins anew with empty maps; a task that  *)
(* runs on another runner when this one reports it (State.tla has that).   *)
(***************************************************************************)
EXTENDS Naturals, Sequences

CONSTANTS
  Task,
  Retries,    \* policy.retry
  FixChecks,  \* policy.fix_checks
  Review,     \* policy.review
  Ephemeral,  \* Ctx.ephemeral
  MaxTasks,   \* Ctx.max_tasks
  MaxRuns,    \* bound: runs, pushes and discards spawned
  MaxBreaks   \* bound: times the socket breaks

ASSUME AgentParametersAreTyped ==
  /\ Task # {}
  /\ Retries \in Nat /\ FixChecks \in Nat
  /\ Review \in BOOLEAN /\ Ephemeral \in BOOLEAN
  /\ MaxTasks \in Nat /\ MaxRuns \in Nat /\ MaxBreaks \in Nat

VARIABLES spawned, run, running, interrupt, outbox, link, finished, exiting, process,
          desk, breaks

maps == <<running, interrupt>>
session == <<link, desk, breaks>>
leaving == <<finished, exiting, process>>
vars == <<spawned, run, maps, outbox, session, leaving>>

Run == 1..MaxRuns
NoRun == 0

Ending == {"completed", "failed", "timed_out", "cancelled"}

\* A run is "ready" before it spawns a process (its set-up included), "waiting"
\* for it, at its "checks", "closing" once it has said how it ended, and "done"
\* when `finished` has taken it off the map.  A push or discard is a "job".
Phase == {"unused", "ready", "waiting", "checks", "closing", "job", "done"}
Goal == {"plan", "work", "fix", "review", "push", "discard"}

\* told: its sender was sent to or dropped; nudged: the same of its interrupt
\* sender; asked: somebody wanted it stopped; endings: how many it reported.
Record == [task : Task, phase : Phase, goal : Goal, tries : Nat, told : BOOLEAN,
           nudged : BOOLEAN, asked : BOOLEAN, endings : Nat]

\* What the channel carries.
Goodbye == <<"goodbye">>
Outgoing == (Ending \union {"started", "pushed", "conflicted", "discarded"}) \X Task
            \union {Goodbye}

Held == {"queued", "asked", "running"}
Desk == Held \union {"none", "review", "conflicted", "approved"}

Fresh(t, phase, goal, endings) ==
  [task |-> t, phase |-> phase, goal |-> goal, tries |-> 0, told |-> FALSE,
   nudged |-> FALSE, asked |-> FALSE, endings |-> endings]

Unused == Fresh(CHOOSE t \in Task : TRUE, "unused", "work", 0)

Init ==
  /\ spawned = 0
  /\ run = [i \in Run |-> Unused]
  /\ running = [t \in Task |-> NoRun]
  /\ interrupt = [t \in Task |-> NoRun]
  /\ outbox = <<>>
  /\ link = "down"
  /\ finished = 0
  /\ exiting = FALSE
  /\ process = "alive"
  /\ desk = [t \in Task |-> "none"]
  /\ breaks = 0

Say(event, t) == outbox' = Append(outbox, <<event, t>>)

\* `check_exit`, after the rest of the step: one goodbye, when nothing is listed.
CheckExit ==
  IF /\ Ephemeral
     /\ finished' >= MaxTasks
     /\ \A t \in Task : running'[t] = NoRun
     /\ ~exiting
  THEN exiting' = TRUE /\ outbox' = Append(outbox, Goodbye)
  ELSE UNCHANGED <<exiting, outbox>>

Active(i) == run[i].phase \in {"ready", "waiting", "checks"}

\* Mutant of Told: a dropped sender is not noticed.
ToldIfWanted(i, wanted) ==
  IF i = NoRun \/ ~wanted THEN run
  ELSE [run EXCEPT ![i].told = TRUE, ![i].asked = TRUE]

\* The runs once the sender of i, if any, has been sent to or dropped; `wanted`
\* when somebody asked for it.  A run that is over does not listen.
Told(i, wanted) ==
  IF i \in Run /\ Active(i)
  THEN [run EXCEPT ![i].told = TRUE, ![i].asked = run[i].asked \/ wanted]
  ELSE run

\* The runs once i has put its interrupt sender in the task's entry or cleared
\* the entry: another run's sender that was there is dropped.
Freed(i) ==
  LET other == interrupt[run[i].task]
  IN  IF other \in {NoRun, i} THEN run ELSE [run EXCEPT ![other].nudged = TRUE]

-----------------------------------------------------------------------------
\* Frames (`dispatch`).  The guard on desk is what the orchestrator sends when.

Connected == link = "up" /\ process # "gone"

Spawned(t, goal) ==
  Fresh(t, IF goal \in {"plan", "work"} THEN "ready" ELSE "job", goal, 0)

\* The new sender replaces the one of a run that is still going.  The kind of a
\* task never changes; here each run chooses, which allows more.
Begin(t, goal) ==
  /\ Connected
  /\ spawned < MaxRuns
  /\ spawned' = spawned + 1
  /\ running' = [running EXCEPT ![t] = spawned + 1]
  /\ run' = [Told(running[t], FALSE) EXCEPT ![spawned + 1] = Spawned(t, goal)]
  /\ UNCHANGED <<interrupt, link, breaks, finished, process>>
  /\ CheckExit

Start(t, goal) ==
  /\ desk[t] = "none"
  /\ desk' = [desk EXCEPT ![t] = "queued"]
  /\ Begin(t, goal)

Message(t, goal) ==
  /\ desk[t] \in {"review", "conflicted"}
  /\ desk' = [desk EXCEPT ![t] = "asked"]
  /\ Begin(t, goal)

\* A start or follow-up sent to a socket that is already dead.
LoseFrame(t) ==
  /\ link = "broken"
  /\ desk[t] \in {"none", "review", "conflicted"}
  /\ desk' = [desk EXCEPT ![t] = IF desk[t] = "none" THEN "queued" ELSE "asked"]
  /\ UNCHANGED <<spawned, run, maps, outbox, link, breaks, leaving>>

Cancel(t) ==
  /\ Connected
  /\ desk[t] \in {"queued", "running"}
  /\ running' = [running EXCEPT ![t] = NoRun]
  /\ run' = Told(running[t], TRUE)
  /\ UNCHANGED <<spawned, interrupt, session, finished, process>>
  /\ CheckExit

Interrupt(t) ==
  /\ Connected
  /\ desk[t] = "running"
  /\ interrupt' = [interrupt EXCEPT ![t] = NoRun]
  /\ run' = IF interrupt[t] = NoRun THEN run
            ELSE [run EXCEPT ![interrupt[t]].nudged = TRUE,
                             ![interrupt[t]].asked = TRUE]
  /\ UNCHANGED <<spawned, running, session, finished, process>>
  /\ CheckExit

\* Push and Discard: a job that the map does not list.
Job(t, goal) ==
  /\ Connected
  /\ desk[t] = "review"
  /\ spawned < MaxRuns
  /\ spawned' = spawned + 1
  /\ run' = [run EXCEPT ![spawned + 1] = Spawned(t, goal)]
  /\ UNCHANGED <<maps, session, finished, process>>
  /\ CheckExit

-----------------------------------------------------------------------------
\* The steps of run i.

Going(i, phase) == process # "gone" /\ run[i].phase = phase

\* i goes on in another phase, or ends and says how; `table` is the runs so far.
\* What else its record says is of no use after that.
Becomes(table, i, phase, goal, tries) ==
  /\ run' = [table EXCEPT ![i] = [table[i] EXCEPT !.phase = phase, !.goal = goal,
                                                  !.tries = tries]]
  /\ UNCHANGED outbox

Ends(table, i, ending) ==
  /\ run' = [table EXCEPT ![i] = Fresh(run[i].task, "closing", "work", table[i].endings + 1)]
  /\ Say(ending, run[i].task)

\* `agent_run` spawns a process, and `wait_or_kill` registers its interrupt.
Spawn(i) ==
  /\ Going(i, "ready")
  /\ run' = [Freed(i) EXCEPT ![i] = [run[i] EXCEPT !.phase = "waiting", !.nudged = FALSE]]
  /\ interrupt' = [interrupt EXCEPT ![run[i].task] = i]
  /\ Say("started", run[i].task)
  /\ UNCHANGED <<spawned, running, session, leaving>>

\* Mutant of FailToStart: the error is not reported.
FailQuietly(i) ==
  /\ Going(i, "ready")
  /\ run' = [run EXCEPT ![i].phase = "closing", ![i].endings = 1]
  /\ UNCHANGED <<spawned, maps, outbox, session, leaving>>

\* The set-up fails, or there is no process to spawn.
FailToStart(i) ==
  /\ Going(i, "ready")
  /\ Ends(run, i, "failed")
  /\ UNCHANGED <<spawned, maps, session, leaving>>

Stopped(i) ==
  /\ Going(i, "waiting")
  /\ interrupt' = [interrupt EXCEPT ![run[i].task] = NoRun]
  /\ UNCHANGED <<spawned, running, session, leaving>>

\* Mutant of Exit: attempts are not counted.
ExitUncounted(i) ==
  /\ Stopped(i)
  /\ \/ Becomes(Freed(i), i, "checks", "work", 0)
     \/ Becomes(Freed(i), i, "ready", "work", run[i].tries)

\* The process exits.  A plan is read from its answer; a run is tried again
\* while it fails, then checked; a fix is judged by the checks and a review
\* that fails is a warning.  A plan or a last attempt that failed ends the run, and so
\* does an exit status that cannot be had (the `?` of wait_or_kill; its other
\* one, in agent_run, is for pipes the command always has).
Exit(i) ==
  /\ Stopped(i)
  /\ LET tries == run[i].tries
     IN  \/ Ends(Freed(i), i, "failed")
         \/ run[i].goal = "plan" /\ Ends(Freed(i), i, "completed")
         \/ /\ run[i].goal = "work"
            /\ \/ Becomes(Freed(i), i, "checks", "work", 0)
               \/ tries < Retries /\ Becomes(Freed(i), i, "ready", "work", tries + 1)
         \/ run[i].goal = "fix" /\ Becomes(Freed(i), i, "checks", "fix", tries)
         \/ run[i].goal = "review" /\ Ends(Freed(i), i, "completed")

\* Either sender stops it: the process is killed, whoever or whatever it was.
Kill(i) ==
  /\ Stopped(i)
  /\ run[i].told \/ run[i].nudged
  /\ Ends(Freed(i), i, "cancelled")

\* Mutant of TimeOut: `stopped` does not tell it from a cancel.
TimeOutTwice(i) ==
  /\ Stopped(i)
  /\ run' = [Freed(i) EXCEPT ![i].phase = "closing", ![i].endings = 2]
  /\ outbox' = outbox \o << <<"timed_out", run[i].task>>, <<"cancelled", run[i].task>> >>

TimeOut(i) == Stopped(i) /\ Ends(Freed(i), i, "timed_out")

\* `commit_and_fix` up to the next process, then the review or the end.
Check(i) ==
  /\ Going(i, "checks")
  /\ \/ run[i].tries < FixChecks /\ Becomes(run, i, "ready", "fix", run[i].tries + 1)
     \/ Review /\ Becomes(run, i, "ready", "review", run[i].tries)
     \/ \E e \in {"completed", "failed"} : Ends(run, i, e)
  /\ UNCHANGED <<spawned, maps, session, leaving>>

\* `finished`: the task's entry leaves the map, whichever run it is of.
Finish(i) ==
  LET t == run[i].task
  IN  /\ Going(i, "closing")
      /\ run' = [Told(running[t], FALSE) EXCEPT ![i].phase = "done"]
      /\ running' = [running EXCEPT ![t] = NoRun]
      /\ finished' = finished + 1
      /\ CheckExit
      /\ UNCHANGED <<spawned, interrupt, session, process>>

\* push_task and discard_task.
DoJob(i) ==
  /\ Going(i, "job")
  /\ \E e \in IF run[i].goal = "push" THEN {"pushed", "conflicted", "failed"}
                                      ELSE {"discarded", "failed"} :
       Say(e, run[i].task)
  /\ run' = [run EXCEPT ![i] = Fresh(run[i].task, "done", "work", run[i].endings + 1)]
  /\ UNCHANGED <<spawned, maps, session, leaving>>

-----------------------------------------------------------------------------
\* The connection.

\* Mutant of Seen: a task that ended badly stays on the desk.
SeenEnded(view, e) ==
  CASE view \in {"none", "approved"} -> view
    [] e = "started"                 -> "running"
    [] e = "completed"               -> "review"
    [] OTHER                         -> e

\* What an event does to the orchestrator's view.
Seen(view, e) ==
  CASE view \in {"none", "approved"}          -> view
    [] e = "started"                          -> "running"
    [] e = "completed"                        -> "review"
    [] e = "pushed"                           -> "approved"
    [] e = "conflicted"                       -> "conflicted"
    [] OTHER                                  -> "none"

\* Everything this runner held is lost.
AllLost == [t \in Task |-> IF desk[t] \in Held THEN "none" ELSE desk[t]]

\* `send`: an event taken from the channel for a dead socket is gone.
Send ==
  /\ outbox # <<>> /\ Head(outbox) # Goodbye
  /\ process # "gone"
  /\ outbox' = Tail(outbox)
  /\ LET e == Head(outbox)[1]
         t == Head(outbox)[2]
     IN  \/ /\ link = "up"
            /\ desk' = [desk EXCEPT ![t] = Seen(@, e)]
            /\ UNCHANGED link
         \/ link = "broken" /\ link' \in {"broken", "down"} /\ UNCHANGED desk
  /\ UNCHANGED <<spawned, run, maps, breaks, leaving>>

\* The process exits after a goodbye it could send.  On a dead socket the send
\* may fail instead, which ends the session and not the process.
SendGoodbye ==
  /\ outbox # <<>> /\ Head(outbox) = Goodbye
  /\ process # "gone"
  /\ link \in {"up", "broken"}
  /\ outbox' = Tail(outbox)
  /\ link' = "down"
  /\ desk' = IF link = "up" THEN AllLost ELSE desk
  /\ \/ process' = "gone"
     \/ link = "broken" /\ UNCHANGED process
  /\ UNCHANGED <<spawned, run, maps, breaks, finished, exiting>>

\* `handshake`: the orchestrator keeps what the runner lists and it knows to run.
\* RETRY is taken to be longer than a run needs from its ending to `finished`.
Connect ==
  /\ link = "down" /\ process # "gone"
  /\ \A i \in Run : run[i].phase # "closing"
  /\ link' = "up"
  /\ desk' = [t \in Task |->
                IF desk[t] \in {"queued", "running"} /\ running[t] # NoRun
                THEN desk[t] ELSE AllLost[t]]
  /\ UNCHANGED <<spawned, run, maps, outbox, breaks, leaving>>

Break ==
  /\ link = "up" /\ breaks < MaxBreaks
  /\ link' = "broken"
  /\ breaks' = breaks + 1
  /\ UNCHANGED <<spawned, run, maps, outbox, desk, leaving>>

\* An error, a close, or READ_TIMEOUT.
Notice ==
  /\ link = "broken" /\ process # "gone"
  /\ link' = "down"
  /\ UNCHANGED <<spawned, run, maps, outbox, desk, breaks, leaving>>

\* The orchestrator's grace period ends.
Expire ==
  /\ link # "up" /\ \E t \in Task : desk[t] \in Held
  /\ desk' = AllLost
  /\ UNCHANGED <<spawned, run, maps, outbox, link, breaks, leaving>>

\* A signal: every run is told to stop, and two seconds later the process exits.
Shutdown ==
  /\ process = "alive"
  /\ process' = "leaving"
  /\ run' = [i \in Run |-> IF \E t \in Task : running[t] = i
                           THEN Told(i, TRUE)[i] ELSE run[i]]
  /\ running' = [t \in Task |-> NoRun]
  /\ UNCHANGED <<spawned, interrupt, outbox, session, finished, exiting>>

Leave ==
  /\ process = "leaving"
  /\ process' = "gone"
  /\ link' = "down"
  /\ UNCHANGED <<spawned, run, maps, outbox, desk, breaks, finished, exiting>>

-----------------------------------------------------------------------------

Step(i) ==
  Spawn(i) \/ FailToStart(i) \/ Exit(i) \/ Kill(i) \/ TimeOut(i) \/ Check(i)
  \/ Finish(i) \/ DoJob(i)

Frame(t) ==
  \/ \E goal \in {"plan", "work"} : Start(t, goal) \/ Message(t, goal)
  \/ LoseFrame(t) \/ Cancel(t) \/ Interrupt(t)
  \/ \E goal \in {"push", "discard"} : Job(t, goal)

Next ==
  \/ \E t \in Task : Frame(t)
  \/ \E i \in Run : Step(i)
  \/ Send \/ SendGoodbye \/ Connect \/ Break \/ Notice \/ Expire
  \/ Shutdown \/ Leave

Spec == Init /\ [][Next]_vars

\* A process exits or times out and its run goes on; the session empties the
\* channel, notices a dead socket and tries again for ever; the orchestrator's
\* timers fire.
Fairness ==
  /\ \A i \in Run : WF_vars(Step(i))
  /\ WF_vars(Send) /\ WF_vars(SendGoodbye) /\ WF_vars(Connect)
  /\ WF_vars(Notice) /\ WF_vars(Expire) /\ WF_vars(Leave)

FairSpec == Spec /\ Fairness

-----------------------------------------------------------------------------
\* Properties.

TypeOK ==
  /\ spawned \in 0..MaxRuns
  /\ run \in [Run -> Record]
  /\ running \in [Task -> Run \union {NoRun}]
  /\ interrupt \in [Task -> Run \union {NoRun}]
  /\ outbox \in Seq(Outgoing)
  /\ link \in {"down", "up", "broken"}
  /\ finished \in Nat
  /\ exiting \in BOOLEAN
  /\ process \in {"alive", "leaving", "gone"}
  /\ desk \in [Task -> Desk]
  /\ breaks \in 0..MaxBreaks

\* A run, push or discard says how it ended exactly once, whichever of its many
\* ways out it took, and never before its last process is over.
OneEndingEach ==
  \A i \in Run : run[i].endings = IF run[i].phase \in {"closing", "done"} THEN 1 ELSE 0

\* A run that the map does not list, so that no cancel and no hello can name it,
\* has already been told to stop: two runs never go on in one worktree.
UnlistedIsStopping ==
  \A i \in Run : Active(i) => running[run[i].task] = i \/ run[i].told

\* While connected, what the orchestrator waits for is on its way: a run that is
\* not done, or an event that is not sent, of every task this runner holds.
HeldIsAlive ==
  link = "up" =>
    \A t \in Task : desk[t] \in Held =>
      \/ \E i \in Run : run[i].task = t /\ (Active(i) \/ run[i].phase = "closing")
      \/ \E k \in 1..Len(outbox) : outbox[k][1] \in Ending /\ outbox[k][2] = t

\* A slot does not stay taken: a task that the orchestrator holds for this runner
\* completes, ends or is lost, through retries, lost frames and the runner's exit.
SlotsComeBack == \A t \in Task : (desk[t] \in Held) ~> (desk[t] \notin Held)

=============================================================================
