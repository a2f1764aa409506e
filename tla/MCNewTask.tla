----------------------------- MODULE MCNewTask -----------------------------
(* Two models, one of each executor, and one runner that may run either.   *)
EXTENDS NewTask

MCExecutorOf == [m \in Model |-> IF m = DefaultModel THEN "claude" ELSE "codex"]

=============================================================================
