----------------------------- MODULE MCOverview -----------------------------
(* A task that landed and one that runs in one project, and a document. *)
EXTENDS Overview

TaskIn(id, r, s) ==
  [id |-> id, repository |-> r, status |-> s, created |-> 0, archived |-> FALSE]

TwoTasks == <<TaskIn(2, "api", "running"), TaskIn(1, "api", "failed")>>
OneDocument == <<[id |-> 1, repository |-> "web", archived |-> FALSE]>>

=============================================================================
