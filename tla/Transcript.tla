----------------------------- MODULE Transcript -----------------------------
(***************************************************************************)
(* The transcript on a task's page: the events of the copy shown, folded   *)
(* into items.  React keeps an item's state by its position in the feed,   *)
(* so a later event must not move an item or change an earlier one.        *)
(* The prompt, which is always the first item, is left out: no event folds *)
(* into it.                                                                *)
(***************************************************************************)
EXTENDS TaskPage, SequencesExt

\* An item holds the positions of its events: parts[1] is the item's own and
\* the output folded into it, and an activity has a part per tool.
KindOf(e) ==
  CASE e = "message"                     -> "user"
    [] e = "progress"                    -> "agent"
    [] e \in {"command", "file_changed"} -> "tool"
    [] e = "output"                      -> "output"
    [] OTHER                             -> "marker"

Item(kind, i) == [kind |-> kind, parts |-> <<<<i>>>>]

\* Mutant of AddItem: output goes to the last tool, wherever that is.
AddToLastTool(items, kind, i) ==
  LET tools == {n \in 1 .. Len(items) : items[n].kind = "tool"}
      n == IF tools = {} THEN Len(items) ELSE CHOOSE m \in tools : \A o \in tools : o <= m
  IN  IF kind = "output" /\ n # 0 /\ items[n].kind \in {"tool", "output"}
      THEN [items EXCEPT ![n].parts = <<Append(@[1], i)>>]
      ELSE Append(items, Item(kind, i))

\* A command's output belongs to the command, and output to output.
AddItem(items, kind, i) ==
  IF kind = "output" /\ items # <<>> /\ Last(items).kind \in {"tool", "output"}
  THEN [items EXCEPT ![Len(items)].parts = <<Append(@[1], i)>>]
  ELSE Append(items, Item(kind, i))

\* The items after each event.
Built(events) ==
  LET built[k \in 0 .. Len(events)] ==
        IF k = 0 THEN <<>> ELSE AddItem(built[k - 1], KindOf(events[k]), k)
  IN  built

BuildItems(events) == Built(events)[Len(events)]

\* Consecutive tools become one activity.
AddGrouped(grouped, item) ==
  IF item.kind = "tool" /\ grouped # <<>> /\ Last(grouped).kind \in {"tool", "activity"}
  THEN [grouped EXCEPT ![Len(grouped)] =
          [kind |-> "activity", parts |-> @.parts \o item.parts]]
  ELSE Append(grouped, item)

\* The feed after each item.
Grouped(items) ==
  LET grouped[k \in 0 .. Len(items)] ==
        IF k = 0 THEN <<>> ELSE AddGrouped(grouped[k - 1], items[k])
  IN  grouped

Transcript(events) ==
  LET items == BuildItems(events) IN Grouped(items)[Len(items)]

\* What the items of a transcript hold, in the order they are read.
Flattened(transcript) == FlattenSeq([n \in 1 .. Len(transcript) |->
                                       FlattenSeq(transcript[n].parts)])

\* The feed only grows: an item already on screen stays where it is, and as it
\* is unless it is the last; and it holds every event once, in arrival order.
\* A load that fails takes the whole feed away, and the next draws it anew.
TranscriptGrows ==
  [][\A t \in Task :
       shown'[t] \notin {shown[t], <<>>} =>
         LET before == IF shown[t] = <<>> THEN <<>> ELSE Transcript(shown[t].events)
             after  == Transcript(shown'[t].events)
         IN  /\ Len(after) >= Len(before)
             /\ \A n \in 1 .. Len(before) - 1 : after[n] = before[n]
             /\ Flattened(after) = [i \in 1 .. Len(shown'[t].events) |-> i]]_vars

=============================================================================
