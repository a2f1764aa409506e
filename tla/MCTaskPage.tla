----------------------------- MODULE MCTaskPage -----------------------------
(* A task pinned to a machine that runs claude, beside two other machines. *)
EXTENDS Transcript, Functions

NoDeps == [t \in Task |-> {}]
AfterApproval == [t \in Task |-> "approved"]
Pins == [t \in Task |-> "mac"]
Claude == [t \in Task |-> "claude"]

\* With the machine the task is pinned to, and without it.
MCLists ==
  LET offers == [r \in Runner |-> IF r = "box" THEN {"codex"} ELSE {"claude"}]
  IN  {Restrict(offers, {"box", "air"}), Restrict(offers, {"mac", "box"})}

=============================================================================
