---------------------------- MODULE Orchestrator ----------------------------
(***************************************************************************)
(* The orchestrator process: the handlers of its HTTP API and of the runner *)
(* sockets, each one step under the state mutex, and a restart from disk.  *)
(*                                                                         *)
(* A runner is anything that has been asked to do something: once sent a   *)
(* Start or a Message for a task it may report on that run at any time,    *)
(* late, again, or never, and may list the task in a Hello.                *)
(* That covers lost and delayed frames and a runner that kept working      *)
(* while it was away.                                                      *)
(*                                                                         *)
(* `disk` is what the handlers have given to the writer (persist_ids); the *)
(* writer is taken to have caught up when the process stops.               *)
(***************************************************************************)
EXTENDS State

CONSTANT MaxRequeues  \* bound: a person retries a task only below this many requeues

ASSUME BoundIsTyped == MaxRequeues \in Nat

VARIABLES created, status, runner, pin, result, requeued, link, running, asked, disk,
          heard  \* runners that have said hello to this process

vars == <<created, status, runner, pin, result, requeued, link, running, asked, disk, heard>>

Now == [created |-> created, status |-> status, runner |-> runner, pin |-> pin,
        result |-> result, requeued |-> requeued, link |-> link,
        running |-> running, asked |-> asked, changed |-> {}]

\* What the task file and its event log keep of a task.
Stored(s, t) == [status |-> s.status[t], runner |-> s.runner[t], pin |-> s.pin[t],
                 result |-> s.result[t], requeued |-> s.requeued[t]]

\* A handler leaves the tables as `s` and persists the tasks `ids`.
Save(s, ids) ==
  /\ created' = s.created
  /\ status' = s.status
  /\ runner' = s.runner
  /\ pin' = s.pin
  /\ result' = s.result
  /\ requeued' = s.requeued
  /\ link' = s.link
  /\ running' = s.running
  /\ asked' = s.asked
  /\ disk' = [t \in Task |-> IF t \in ids THEN Stored(s, t) ELSE disk[t]]

Commit(s) == Save(s, s.changed)

Init ==
  /\ created = <<>>
  /\ status = [t \in Task |-> "absent"]
  /\ runner = [t \in Task |-> NoRunner]
  /\ pin = PinnedTo
  /\ result = [t \in Task |-> FALSE]
  /\ requeued = [t \in Task |-> 0]
  /\ link = [r \in Runner |-> "absent"]
  /\ running = [r \in Runner |-> {}]
  /\ asked = {}
  /\ disk = [t \in Task |-> Stored(Now, t)]
  /\ heard = {}

-----------------------------------------------------------------------------
\* The HTTP API.

CreateTask(t) ==
  /\ t \notin Children
  /\ status[t] = "absent"
  /\ CheckEligible(Now, t, PinnedTo[t])
  /\ Commit(Schedule([Now EXCEPT !.created = Append(@, t),
                                 !.status[t] = "queued",
                                 !.changed = {t}]))
  /\ UNCHANGED heard

\* `command`: the runner the task names must be connected.
Reachable(t) == runner[t] # NoRunner /\ link[runner[t]] = "connected"

Ask(what, t) ==
  /\ status[t] = "awaiting_review"
  /\ Reachable(t)
  /\ asked' = asked \union {<<what, runner[t], t>>}
  /\ UNCHANGED <<created, status, runner, pin, result, requeued, link, running, disk, heard>>

\* Approving a run asks its runner to push; approving a plan creates its steps.
Approve(t) == Steps[t] = <<>> /\ Ask("push", t)

ApprovePlanTask(t) ==
  /\ Steps[t] # <<>>
  /\ status[t] = "awaiting_review"
  /\ Commit(ApprovePlan(Now, t))
  /\ UNCHANGED heard

Reject(t) == Ask("discard", t)

\* Cancelling a task no runner has ends it here, and persists that task alone.
\* (Otherwise a Cancel frame goes out and nothing here changes.)
CancelQueued(t) ==
  /\ status[t] = "queued"
  /\ runner[t] = NoRunner
  /\ Save(ApplyEvent(Now, t, "cancelled"), {t})
  /\ UNCHANGED heard

\* A follow-up takes a slot again without looking for a free one.
Message(t) ==
  /\ status[t] \in {"awaiting_review", "conflicted"}
  /\ Reachable(t)
  /\ LET s == ApplyEvent(Now, t, "message")
     IN  Commit([s EXCEPT !.running[runner[t]] = @ \union {t},
                          !.asked = @ \union {<<"run", runner[t], t>>}])
  /\ UNCHANGED heard

RetryTask(t, into) ==
  /\ requeued[t] < MaxRequeues
  /\ RetrySpecOk(Now, t, into)
  /\ Commit(Retry(Now, t, into))
  /\ UNCHANGED heard

\* mark_merged, at the end of a merge on GitHub.
MarkMerged(t) ==
  /\ status[t] = "approved"
  /\ Commit(Schedule([Now EXCEPT !.status[t] = "merged", !.changed = {t}]))
  /\ UNCHANGED heard

-----------------------------------------------------------------------------
\* The runner sockets.

\* What a runner may report, given what it was asked.
Reports(r, t, e) ==
  \/ /\ <<"run", r, t>> \in asked
     /\ e \in {"started", "completed", "failed", "timed_out", "cancelled"}
  \/ <<"push", r, t>> \in asked /\ e \in {"pushed", "conflicted", "failed"}
  \/ <<"discard", r, t>> \in asked /\ e \in {"discarded", "failed"}

\* auto_approve, when the repository's policy allows it.
AutoApprove(s, t) ==
  IF s.status[t] = "awaiting_review" /\ Steps[t] = <<>> /\ s.runner[t] # NoRunner
  THEN IF IsConnected(s, s.runner[t])
       THEN [s EXCEPT !.asked = @ \union {<<"push", s.runner[t], t>>}]
       ELSE s
  ELSE s

\* auto_approve_plan, when the plan's batch has approve_plans.
AutoApprovePlan(s, t) ==
  IF s.status[t] = "awaiting_review" /\ Steps[t] # <<>>
  THEN ApprovePlan(s, t)
  ELSE s

\* A runner's event; the orchestrator asks neither which runner sent it nor whether
\* its name is registered: a socket that was replaced is still read after the newer
\* one closed or said goodbye, so any runner heard by this process may report.
\* Whether the policy or the batch approves is left open.
RunnerEvent(r, t, e) ==
  /\ r \in heard
  /\ Reports(r, t, e)
  /\ UNCHANGED heard
  /\ LET s == ApplyEvent(Now, t, e)
     IN  IF e = "completed"
         THEN \E approve \in BOOLEAN :
                Commit(IF approve THEN AutoApprovePlan(AutoApprove(s, t), t) ELSE s)
         ELSE Commit(s)

\* The orders in which the code may walk a set of tasks.
Orders(S) ==
  {order \in [1..Cardinality(S) -> S] :
     \A x \in S : \E k \in 1..Cardinality(S) : order[k] = x}

\* `reported` is what the runner says it is running; r may be new, in its grace
\* period, or still connected through an older socket.
Hello(r, reported) ==
  /\ \A t \in reported : <<"run", r, t>> \in asked
  /\ \E order \in Orders(running[r] \ Restored(Now, r, reported)) :
       Commit(RunnerHello(Now, r, reported, order))
  /\ heard' = heard \union {r}

Disconnect(r) ==
  /\ link[r] = "connected"
  /\ link' = [link EXCEPT ![r] = "grace"]
  /\ UNCHANGED <<created, status, runner, pin, result, requeued, running, asked, disk, heard>>

ExpireRunner(r) ==
  /\ link[r] = "grace"
  /\ \E order \in Orders(running[r]) : Commit(RemoveRunner(Now, r, order))
  /\ UNCHANGED heard

Goodbye(r) ==
  /\ link[r] = "connected"
  /\ \E order \in Orders(running[r]) : Commit(RemoveRunner(Now, r, order))
  /\ UNCHANGED heard

-----------------------------------------------------------------------------

\* `restore`, for each stored task.
Restore(rec) ==
  CASE rec.status = "running" -> [rec EXCEPT !.status = "failed"]
    [] rec.status = "queued"  -> [rec EXCEPT !.runner = NoRunner]
    [] OTHER                  -> rec

\* The process stops and starts again from disk; the runner table is empty.
Restart ==
  /\ created # <<>>
  /\ LET stored == [t \in Task |-> Restore(disk[t])]
     IN  /\ status' = [t \in Task |-> stored[t].status]
         /\ runner' = [t \in Task |-> stored[t].runner]
         /\ pin' = [t \in Task |-> stored[t].pin]
         /\ result' = [t \in Task |-> stored[t].result]
         /\ requeued' = [t \in Task |-> stored[t].requeued]
         /\ disk' = stored
  /\ link' = [r \in Runner |-> "absent"]
  /\ running' = [r \in Runner |-> {}]
  /\ heard' = {}
  /\ UNCHANGED <<created, asked>>

Next ==
  \/ \E t \in Task :
       \/ CreateTask(t)
       \/ Approve(t)
       \/ ApprovePlanTask(t)
       \/ Reject(t)
       \/ CancelQueued(t)
       \/ Message(t)
       \/ \E into \in Runner \union {NoRunner} : RetryTask(t, into)
       \/ MarkMerged(t)
  \/ \E r \in Runner :
       \/ \E t \in Task, e \in Event : RunnerEvent(r, t, e)
       \/ \E reported \in SUBSET Task : Hello(r, reported)
       \/ Disconnect(r)
       \/ ExpireRunner(r)
       \/ Goodbye(r)
  \/ Restart

Spec == Init /\ [][Next]_vars

=============================================================================
