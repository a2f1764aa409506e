------------------------ MODULE ConversationProofs ------------------------
(***************************************************************************)
(* Proofs about Conversation: threads alternate, a thread that waits is    *)
(* worked on by exactly one task, and a question the page sent is not lost *)
(* to it, for any number of chats, permits, texts, faults and restarts.    *)
(*                                                                         *)
(* TurnsAlternate is not inductive: an answer is appended by a task that   *)
(* carries the question's text, so the proof needs what the tasks know of  *)
(* their threads (AnswersFit) and that there is one task per thread.       *)
(***************************************************************************)
EXTENDS Conversation, FiniteSetTheorems, TLAPS

\* A task answers the last question of a thread that waits.
AnswersFit ==
  \A a \in answers :
    /\ Waiting(turns[a.chat])
    /\ turns[a.chat][Len(turns[a.chat])].text = a.text

OneAnswerEach == \A a, b \in answers : a.chat = b.chat => a = b

WaitingHasAnswer ==
  \A c \in Chat \ stranded : Waiting(turns[c]) => \E a \in answers : a.chat = c

ThreadsTyped == turns \in [Chat -> Seq(Turn)] /\ answers \in SUBSET AnswerTask

Threads ==
  ThreadsTyped /\ TurnsAlternate /\ AnswersFit /\ OneAnswerEach /\ WaitingHasAnswer

\* Only a question with a text is sent, and only a question is stored.
CallsCarryText ==
  \A k \in calls : /\ k.kind = "send" => k.text # Empty
                   /\ k.phase \in {"admitted", "stored"} => k.kind = "send"

\* The person mounts the page so often; every other time an error stood for it.
VisitsCounted == visit <= MaxVisits + faults

IInv == TypeOK /\ VisitsCounted /\ CallsCarryText /\ Threads

-----------------------------------------------------------------------------
(* A turn at the end of a thread.                                          *)

LEMMA AppendTurn ==
  ASSUME NEW s \in Seq(Turn), NEW t \in Turn
  PROVE  /\ Append(s, t) \in Seq(Turn)
         /\ Append(s, t) # <<>>
         /\ Len(s) \in Nat
         /\ Len(Append(s, t)) = Len(s) + 1
         /\ Append(s, t)[Len(s) + 1] = t
         /\ \A i \in 1 .. Len(s) : Append(s, t)[i] = s[i]
  OBVIOUS

\* In a thread that alternates, the agent's turns are at the even places.
LEMMA WaitingIsOdd ==
  ASSUME NEW s \in Seq(Turn), Alternates(s)
  PROVE  /\ Waiting(s) => Len(s) \in Nat \ {0} /\ Len(s) % 2 = 1
         /\ ~Waiting(s) => Len(s) = 0 \/ Len(s) % 2 # 1
<1>1. Len(s) \in Nat /\ (s # <<>> <=> Len(s) # 0)
  OBVIOUS
<1>2. CASE s = <<>>
  BY <1>1, <1>2 DEF Waiting
<1>3. CASE s # <<>>
  <2>1. Len(s) \in 1 .. Len(s)
    BY <1>1, <1>3
  <2>2. QED
    BY <1>1, <1>3, <2>1 DEF Waiting, Alternates
<1>4. QED
  BY <1>2, <1>3

LEMMA QuestionAlternates ==
  ASSUME NEW s \in Seq(Turn), Alternates(s), ~Waiting(s), NEW q \in Text
  PROVE  /\ Append(s, PersonTurn(q)) \in Seq(Turn)
         /\ Alternates(Append(s, PersonTurn(q)))
         /\ Waiting(Append(s, PersonTurn(q)))
         /\ Append(s, PersonTurn(q))[Len(Append(s, PersonTurn(q)))].text = q
<1> DEFINE t == PersonTurn(q)
           n == Len(s)
<1>1. t \in Turn /\ t.role = "person" /\ t.text = q
  BY DEF PersonTurn, Turn
<1> HIDE DEF t
<1>2. /\ Append(s, t) \in Seq(Turn) /\ Append(s, t) # <<>>
      /\ n \in Nat /\ Len(Append(s, t)) = n + 1
      /\ Append(s, t)[n + 1] = t
      /\ \A i \in 1 .. n : Append(s, t)[i] = s[i]
  BY <1>1, AppendTurn
<1>3. n = 0 \/ n % 2 # 1
  BY WaitingIsOdd
<1> HIDE DEF n
<1>4. Waiting(Append(s, t)) /\ Append(s, t)[Len(Append(s, t))].text = q
  BY <1>1, <1>2 DEF Waiting
<1>5. ASSUME NEW i \in 1 .. n
      PROVE  IF i % 2 = 1 THEN s[i].role = "person"
             ELSE s[i].role # "person" /\ s[i].text = s[i - 1].text
  BY <1>5, <1>2 DEF Alternates, n
<1>6. ASSUME NEW i \in 1 .. n + 1
      PROVE  IF i % 2 = 1 THEN Append(s, t)[i].role = "person"
             ELSE /\ Append(s, t)[i].role # "person"
                  /\ Append(s, t)[i].text = Append(s, t)[i - 1].text
  <2>1. CASE i = n + 1
    <3>1. i % 2 = 1
      BY <1>2, <1>3, <2>1
    <3>2. QED
      BY <1>1, <1>2, <2>1, <3>1
  <2>2. CASE i # n + 1
    <3>1. i \in 1 .. n /\ Append(s, t)[i] = s[i]
      BY <1>2, <2>2
    <3>2. CASE i % 2 = 1
      BY <1>5, <3>1, <3>2
    <3>3. CASE i % 2 # 1
      <4>1. i - 1 \in 1 .. n
        BY <1>2, <3>1, <3>3
      <4>2. Append(s, t)[i - 1] = s[i - 1]
        BY <1>2, <4>1
      <4>3. QED
        BY <1>5, <3>1, <3>3, <4>2
    <3>4. QED
      BY <3>2, <3>3
  <2>3. QED
    BY <2>1, <2>2
<1>7. Alternates(Append(s, t))
  BY <1>2, <1>6 DEF Alternates
<1>8. QED
  BY <1>2, <1>4, <1>7 DEF t

LEMMA AnswerAlternates ==
  ASSUME NEW s \in Seq(Turn), Alternates(s), Waiting(s),
         NEW t \in Turn, t.role # "person", t.text = s[Len(s)].text
  PROVE  /\ Append(s, t) \in Seq(Turn)
         /\ Alternates(Append(s, t))
         /\ ~Waiting(Append(s, t))
<1> DEFINE n == Len(s)
<1>2. /\ Append(s, t) \in Seq(Turn) /\ Append(s, t) # <<>>
      /\ n \in Nat /\ Len(Append(s, t)) = n + 1
      /\ Append(s, t)[n + 1] = t
      /\ \A i \in 1 .. n : Append(s, t)[i] = s[i]
  BY AppendTurn
<1>3. n # 0 /\ n % 2 = 1 /\ t.text = s[n].text
  BY WaitingIsOdd
<1>5. ASSUME NEW i \in 1 .. n
      PROVE  IF i % 2 = 1 THEN s[i].role = "person"
             ELSE s[i].role # "person" /\ s[i].text = s[i - 1].text
  BY <1>5, <1>2 DEF Alternates
<1> HIDE DEF n
<1>4. ~Waiting(Append(s, t))
  BY <1>2 DEF Waiting
<1>6. ASSUME NEW i \in 1 .. n + 1
      PROVE  IF i % 2 = 1 THEN Append(s, t)[i].role = "person"
             ELSE /\ Append(s, t)[i].role # "person"
                  /\ Append(s, t)[i].text = Append(s, t)[i - 1].text
  <2>1. CASE i = n + 1
    <3>1. i % 2 # 1 /\ i - 1 = n /\ n \in 1 .. n
      BY <1>2, <1>3, <2>1
    <3>2. QED
      BY <1>2, <1>3, <2>1, <3>1
  <2>2. CASE i # n + 1
    <3>1. i \in 1 .. n /\ Append(s, t)[i] = s[i]
      BY <1>2, <2>2
    <3>2. CASE i % 2 = 1
      BY <1>5, <3>1, <3>2
    <3>3. CASE i % 2 # 1
      <4>1. i - 1 \in 1 .. n
        BY <1>2, <3>1, <3>3
      <4>2. Append(s, t)[i - 1] = s[i - 1]
        BY <1>2, <4>1
      <4>3. QED
        BY <1>5, <3>1, <3>3, <4>2
    <3>4. QED
      BY <3>2, <3>3
  <2>3. QED
    BY <2>1, <2>2
<1>7. Alternates(Append(s, t))
  BY <1>2, <1>6 DEF Alternates
<1>8. QED
  BY <1>2, <1>4, <1>7

-----------------------------------------------------------------------------
(* A question and an answer in the threads.                                *)

LEMMA AsksKeeps ==
  ASSUME Threads, NEW STATE c, c \in Chat, NEW STATE q, q \in Text,
         Asks(c, q), ~Waiting(turns[c]), stranded' = stranded
  PROVE  Threads'
<1> DEFINE a == [chat |-> c, text |-> q, phase |-> "spawned"]
           s == Append(turns[c], PersonTurn(q))
<1>1. turns[c] \in Seq(Turn) /\ Alternates(turns[c])
  BY DEF Threads, ThreadsTyped, TurnsAlternate
<1>2. s \in Seq(Turn) /\ Alternates(s) /\ Waiting(s) /\ s[Len(s)].text = q
  BY <1>1, QuestionAlternates
<1>3. a \in AnswerTask /\ a.chat = c /\ a.text = q
  BY DEF AnswerTask
<1>4. turns' = [turns EXCEPT ![c] = s] /\ answers' = answers \cup {a}
  BY DEF Asks
<1>5. \A b \in answers : b \in AnswerTask /\ b.chat # c
  BY DEF Threads, ThreadsTyped, AnswersFit
<1> HIDE DEF a, s
<1>6. \A d \in Chat : turns'[d] = IF d = c THEN s ELSE turns[d]
  BY <1>4 DEF Threads, ThreadsTyped
<1>7. ThreadsTyped'
  BY <1>2, <1>3, <1>4 DEF Threads, ThreadsTyped
<1>8. TurnsAlternate'
  BY <1>2, <1>6 DEF Threads, TurnsAlternate
<1>9. AnswersFit'
  <2> SUFFICES ASSUME NEW b \in answers'
               PROVE  /\ Waiting(turns'[b.chat])
                      /\ turns'[b.chat][Len(turns'[b.chat])].text = b.text
    BY DEF AnswersFit
  <2>1. CASE b = a
    BY <1>2, <1>3, <1>6, <2>1
  <2>2. CASE b \in answers
    <3>1. b.chat \in Chat /\ b.chat # c
      BY <1>5, <2>2 DEF AnswerTask
    <3>2. turns'[b.chat] = turns[b.chat]
      BY <1>6, <3>1
    <3>3. QED
      BY <2>2, <3>2 DEF Threads, AnswersFit
  <2>3. QED
    BY <1>4, <2>1, <2>2
<1>10. OneAnswerEach'
  BY <1>3, <1>4, <1>5 DEF Threads, OneAnswerEach
<1>11. WaitingHasAnswer'
  BY <1>3, <1>4, <1>6 DEF Threads, WaitingHasAnswer
<1>12. QED
  BY <1>7, <1>8, <1>9, <1>10, <1>11 DEF Threads

LEMMA ReplyKeeps ==
  ASSUME Threads, NEW STATE a, a \in answers,
         NEW STATE role, role \in {"agent", "failed"},
         Reply(a, role), stranded' = stranded
  PROVE  Threads'
<1> DEFINE t == [role |-> role, text |-> a.text]
           c == a.chat
           s == Append(turns[c], t)
<1>1. c \in Chat /\ a.text \in Text
  BY DEF Threads, ThreadsTyped, AnswerTask
<1>2. turns[c] \in Seq(Turn) /\ Alternates(turns[c])
  BY <1>1 DEF Threads, ThreadsTyped, TurnsAlternate
<1>3. Waiting(turns[c]) /\ turns[c][Len(turns[c])].text = a.text
  BY DEF Threads, AnswersFit
<1>4. t \in Turn /\ t.role # "person" /\ t.text = a.text
  BY <1>1 DEF Turn
<1>5. turns' = [turns EXCEPT ![c] = s] /\ answers' = answers \ {a}
  BY DEF Reply
<1> HIDE DEF t
<1>6. s \in Seq(Turn) /\ Alternates(s) /\ ~Waiting(s)
  BY <1>2, <1>3, <1>4, AnswerAlternates
<1> HIDE DEF s
<1>7. \A d \in Chat : turns'[d] = IF d = c THEN s ELSE turns[d]
  BY <1>5, <1>1 DEF Threads, ThreadsTyped
<1>8. \A b \in answers' : b \in answers /\ b.chat \in Chat /\ b.chat # c
  BY <1>5 DEF Threads, ThreadsTyped, OneAnswerEach, AnswerTask
<1>9. ThreadsTyped'
  BY <1>1, <1>5, <1>6 DEF Threads, ThreadsTyped
<1>10. TurnsAlternate'
  BY <1>6, <1>7 DEF Threads, TurnsAlternate
<1>11. AnswersFit'
  <2> SUFFICES ASSUME NEW b \in answers'
               PROVE  /\ Waiting(turns'[b.chat])
                      /\ turns'[b.chat][Len(turns'[b.chat])].text = b.text
    BY DEF AnswersFit
  <2>1. turns'[b.chat] = turns[b.chat]
    BY <1>7, <1>8
  <2>2. QED
    BY <1>8, <2>1 DEF Threads, AnswersFit
<1>12. OneAnswerEach'
  BY <1>8 DEF Threads, OneAnswerEach
<1>13. WaitingHasAnswer'
  <2> SUFFICES ASSUME NEW d \in Chat \ stranded, Waiting(turns'[d])
               PROVE  \E b \in answers' : b.chat = d
    BY DEF WaitingHasAnswer
  <2>1. d # c /\ turns'[d] = turns[d]
    BY <1>6, <1>7
  <2>2. PICK b \in answers : b.chat = d
    BY <2>1 DEF Threads, WaitingHasAnswer
  <2>3. QED
    BY <1>5, <2>1, <2>2
<1>14. QED
  BY <1>9, <1>10, <1>11, <1>12, <1>13 DEF Threads

\* A task that takes a permit answers the same question.
LEMMA PermitKeeps ==
  ASSUME Threads, NEW STATE a, a \in answers, UNCHANGED <<turns, stranded>>,
         answers' = (answers \ {a}) \cup {[a EXCEPT !.phase = "running"]}
  PROVE  Threads'
<1> DEFINE r == [a EXCEPT !.phase = "running"]
<1>1. a \in AnswerTask
  BY DEF Threads, ThreadsTyped
<1>2. r \in AnswerTask /\ r.chat = a.chat /\ r.text = a.text
  BY <1>1 DEF AnswerTask
<1> HIDE DEF r
<1>3. answers' = (answers \ {a}) \cup {r}
  BY DEF r
<1>4. ThreadsTyped'
  BY <1>2, <1>3 DEF Threads, ThreadsTyped
<1>5. TurnsAlternate'
  BY DEF Threads, TurnsAlternate
<1>6. AnswersFit'
  BY <1>2, <1>3 DEF Threads, AnswersFit
<1>7. OneAnswerEach'
  BY <1>2, <1>3 DEF Threads, OneAnswerEach
<1>8. WaitingHasAnswer'
  <2> SUFFICES ASSUME NEW d \in Chat \ stranded, Waiting(turns[d])
               PROVE  \E b \in answers' : b.chat = d
    BY DEF WaitingHasAnswer
  <2>1. PICK b \in answers : b.chat = d
    BY DEF Threads, WaitingHasAnswer
  <2>2. QED
    BY <1>2, <1>3, <2>1
<1>9. QED
  BY <1>4, <1>5, <1>6, <1>7, <1>8 DEF Threads

\* A restart loses every task, and says of which threads.
LEMMA RestartKeeps ==
  ASSUME Threads, Restart
  PROVE  Threads'
<1>1. /\ turns' = turns /\ answers' = {}
      /\ stranded' = stranded \cup {c \in Chat : Waiting(turns[c])}
  BY DEF Restart
<1>2. ThreadsTyped' /\ TurnsAlternate'
  BY <1>1 DEF Threads, ThreadsTyped, TurnsAlternate
<1>3. AnswersFit' /\ OneAnswerEach' /\ WaitingHasAnswer'
  BY <1>1 DEF AnswersFit, OneAnswerEach, WaitingHasAnswer
<1>4. QED
  BY <1>2, <1>3 DEF Threads

LEMMA ThreadsStay ==
  ASSUME Threads, UNCHANGED <<turns, answers, stranded>>
  PROVE  Threads'
BY DEF Threads, ThreadsTyped, TurnsAlternate, AnswersFit, OneAnswerEach,
       WaitingHasAnswer

-----------------------------------------------------------------------------
(* Every step keeps the threads.                                           *)

LEMMA InitThreads == Init => IInv
<1> SUFFICES ASSUME Init PROVE IInv
  OBVIOUS
<1>1. <<>> \in Seq(Turn) /\ Len(<<>>) = 0 /\ ~Waiting(<<>>)
  BY DEF Waiting
<1>2. Alternates(<<>>)
  BY <1>1 DEF Alternates
<1>3. TypeOK
  BY <1>1, ChatsAreTyped DEF Init, TypeOK, Text, Visit
<1>4. Threads
  BY <1>1, <1>2 DEF Init, Threads, ThreadsTyped, TurnsAlternate, AnswersFit,
     OneAnswerEach, WaitingHasAnswer
<1>5. CallsCarryText
  BY DEF Init, CallsCarryText
<1>6. VisitsCounted
  BY ChatsAreTyped DEF Init, VisitsCounted
<1>7. QED
  BY <1>3, <1>4, <1>5, <1>6 DEF IInv

LEMMA ThreadsStep == IInv /\ [Next]_vars => Threads'
<1> SUFFICES ASSUME IInv, [Next]_vars PROVE Threads'
  OBVIOUS
<1> USE DEF IInv
<1>1. typed < MaxTexts => typed + 1 \in Text
  BY ChatsAreTyped DEF TypeOK, Text
<1>2. ASSUME NEW c \in Chat, OpenChat(c) PROVE Threads'
  <2>1. ~Waiting(turns[c])
    BY <1>2 DEF OpenChat, Waiting
  <2>2. QED
    BY <1>1, <1>2, <2>1, AsksKeeps DEF OpenChat
<1>3. ASSUME NEW c \in Chat, AskElsewhere(c) PROVE Threads'
  BY <1>1, <1>3, AsksKeeps DEF AskElsewhere, Accepts
<1>4. ASSUME NEW a \in answers, StartAnswer(a) PROVE Threads'
  <2>1. CASE CanAnswer
    BY <1>4, <2>1, PermitKeeps DEF StartAnswer
  <2>2. CASE ~CanAnswer
    BY <1>4, <2>2, ReplyKeeps DEF StartAnswer
  <2>3. QED
    BY <2>1, <2>2
<1>5. ASSUME NEW a \in answers, FinishAnswer(a) PROVE Threads'
  BY <1>5, ReplyKeeps DEF FinishAnswer
<1>6. CASE Restart
  BY <1>6, RestartKeeps
<1>7. ASSUME NEW k \in calls, NEW lost \in BOOLEAN, Store(k, lost) PROVE Threads'
  <2>1. k \in Call /\ k.chat \in Chat
    BY DEF TypeOK, Call
  <2>2. CASE Accepts(k.chat)
    <3>1. k.text \in Text
      BY <1>7, <2>1 DEF Store, CallsCarryText, Call
    <3>2. QED
      BY <1>7, <2>1, <2>2, <3>1, AsksKeeps DEF Store, Accepts
  <2>3. CASE ~Accepts(k.chat)
    BY <1>7, <2>3, ThreadsStay DEF Store
  <2>4. QED
    BY <2>2, <2>3
<1>8. CASE UNCHANGED <<turns, answers, stranded>>
  BY <1>8, ThreadsStay
<1>9. QED
  <2>1. CASE Next
    BY <2>1, <1>2, <1>3, <1>4, <1>5, <1>6, <1>7, <1>8
       DEF Next, Open, Reload, Read, Land, LoadFails, Leave, Type, Send, Brief, Poll,
           Admit, CutOff, SendReturns, BriefReturns, server
  <2>2. CASE UNCHANGED vars
    BY <2>2, <1>8 DEF vars
  <2>3. QED
    BY <2>1, <2>2

\* The calls keep their shape: what changes of one is its phase.
LEMMA AdvanceKeeps ==
  ASSUME TypeOK, CallsCarryText, NEW STATE k, k \in calls,
         NEW STATE phase, phase \in {"sent", "admitted", "stored", "refused"},
         phase \in {"admitted", "stored"} => k.kind = "send",
         Advance(k, phase)
  PROVE  calls' \in SUBSET Call /\ CallsCarryText'
<1> DEFINE l == [k EXCEPT !.phase = phase]
<1>1. k \in Call
  BY DEF TypeOK
<1>2. l \in Call /\ l.kind = k.kind /\ l.text = k.text /\ l.phase = phase
  BY <1>1 DEF Call
<1> HIDE DEF l
<1>3. calls' = (calls \ {k}) \cup {l}
  BY DEF Advance, l
<1>4. calls' \in SUBSET Call
  BY <1>2, <1>3 DEF TypeOK
<1>5. CallsCarryText'
  BY <1>2, <1>3 DEF CallsCarryText
<1>6. QED
  BY <1>4, <1>5

LEMMA FetchTyped ==
  ASSUME TypeOK, NEW STATE c, c \in Chat, Fetches(c)
  PROVE  coming' \in [Chat -> Seq(Turn)]
BY DEF TypeOK, Fetches

LEMMA InvalidateTyped ==
  ASSUME TypeOK, Invalidate
  PROVE  coming' \in [Chat -> Seq(Turn)]
BY FetchTyped DEF TypeOK, Invalidate

LEMMA NewCallTyped ==
  ASSUME TypeOK, CallsCarryText, page # Nowhere,
         NEW STATE kind, kind \in {"send", "brief"},
         NEW STATE q, q \in Text \cup {Empty},
         kind = "send" => q # Empty,
         calls' = calls \cup {NewCall(kind, q)}
  PROVE  calls' \in SUBSET Call /\ CallsCarryText'
<1> DEFINE l == NewCall(kind, q)
<1>1. visit \in Visit /\ page \in Chat
  BY ChatsAreTyped DEF TypeOK
<1>2. l \in Call /\ l.kind = kind /\ l.text = q /\ l.phase = "sent"
  BY <1>1 DEF NewCall, Call
<1> HIDE DEF l
<1>3. calls' = calls \cup {l}
  BY DEF l
<1>4. calls' \in SUBSET Call
  BY <1>2, <1>3 DEF TypeOK
<1>5. CallsCarryText'
  BY <1>2, <1>3 DEF CallsCarryText
<1>6. QED
  BY <1>4, <1>5

\* The page's half of the invariant.
PageTyped ==
  /\ shown \in [Chat -> Seq(Turn)] /\ coming \in [Chat -> Seq(Turn)]
  /\ stranded \subseteq Chat
  /\ page \in Chat \cup {Nowhere} /\ visit \in Visit \cup {0} /\ VisitsCounted
  /\ page # Nowhere => visit # 0
  /\ box \in Text \cup {Empty} /\ busy \in {"send", "brief", "none"}
  /\ calls \in SUBSET Call /\ typed \in 0 .. MaxTexts
  /\ faults \in 0 .. MaxFaults /\ restarts \in 0 .. MaxRestarts

LEMMA PageStep == IInv /\ [Next]_vars => PageTyped' /\ CallsCarryText'
<1> SUFFICES ASSUME IInv, [Next]_vars PROVE PageTyped' /\ CallsCarryText'
  OBVIOUS
<1> USE DEF IInv, copies
<1>0. PageTyped /\ TypeOK /\ CallsCarryText
  BY DEF TypeOK, PageTyped
<1>v. UNCHANGED <<visit, faults>> => VisitsCounted'
  BY DEF VisitsCounted
<1>1. typed < MaxTexts => typed + 1 \in Text /\ typed + 1 \in 0 .. MaxTexts
  BY ChatsAreTyped DEF TypeOK, Text
<1>2. faults < MaxFaults => faults + 1 \in 0 .. MaxFaults
  BY ChatsAreTyped DEF TypeOK
<1>c. calls' = calls => CallsCarryText'
  BY DEF CallsCarryText
<1>3. ASSUME NEW c \in Chat, OpenChat(c) PROVE PageTyped' /\ CallsCarryText'
  BY <1>0, <1>1, <1>3, <1>c, <1>v DEF OpenChat, PageTyped, screen
<1>4. ASSUME NEW c \in Chat, AskElsewhere(c) PROVE PageTyped' /\ CallsCarryText'
  BY <1>0, <1>1, <1>4, <1>c, <1>v DEF AskElsewhere, PageTyped, screen
<1>5. ASSUME NEW c \in Chat, Open(c) PROVE PageTyped' /\ CallsCarryText'
  <2>1. /\ UNCHANGED <<stranded, copies, calls, typed, faults, restarts>> /\ page' = c
        /\ visit' \in Visit /\ VisitsCounted'
        /\ box' \in Text \cup {Empty} /\ busy' \in {"send", "brief", "none"}
    <3>1. CASE page = Nowhere
      <4>1. visit < MaxVisits /\ visit' = visit + 1
        BY <1>5, <3>1 DEF Open
      <4>2. visit' \in Visit /\ VisitsCounted'
        BY <1>5, <4>1, ChatsAreTyped DEF TypeOK, Visit, VisitsCounted, Open
      <4>3. QED
        BY <1>5, <3>1, <4>2 DEF Open, server
    <3>2. CASE page # Nowhere
      BY <1>5, <3>2 DEF Open, server, TypeOK, VisitsCounted
    <3>3. QED
      BY <3>1, <3>2
  <2>2. visit' # 0
    BY <2>1 DEF Visit
  <2>3. QED
    BY <1>0, <1>c, <2>1, <2>2 DEF PageTyped
<1>6. ASSUME NEW c \in Chat, Reload(c) \/ Read(c) \/ Land(c)
      PROVE  PageTyped' /\ CallsCarryText'
  <2>1. shown' \in [Chat -> Seq(Turn)] /\ coming' \in [Chat -> Seq(Turn)]
    <3>1. CASE Reload(c)
      BY <1>0, <3>1, FetchTyped DEF Reload, TypeOK
    <3>2. CASE Read(c)
      BY <3>2 DEF Read, TypeOK
    <3>3. CASE Land(c)
      <4>1. <<>> \in Seq(Turn)
        OBVIOUS
      <4>2. QED
        BY <3>3, <4>1 DEF Land, TypeOK
    <3>4. QED
      BY <1>6, <3>1, <3>2, <3>3
  <2>2. UNCHANGED <<stranded, page, visit, box, busy, calls, typed, faults, restarts>>
    BY <1>6 DEF Reload, Read, Land, server, screen
  <2>3. QED
    BY <1>0, <1>c, <2>1, <2>2 DEF PageTyped, VisitsCounted
<1>21. ASSUME NEW c \in Chat, LoadFails(c) PROVE PageTyped' /\ CallsCarryText'
  <2>1. shown' \in [Chat -> Seq(Turn)] /\ coming' \in [Chat -> Seq(Turn)]
    <3>1. <<>> \in Seq(Turn)
      OBVIOUS
    <3>2. QED
      BY <1>21, <3>1 DEF LoadFails, TypeOK
  <2>2. UNCHANGED <<stranded, page, calls, typed, restarts>> /\ faults' = faults + 1
        /\ faults' \in 0 .. MaxFaults
    BY <1>2, <1>21 DEF LoadFails, server
  <2>3. visit' \in {visit, visit + 1} /\ (page # Nowhere => visit # 0)
    BY <1>21 DEF LoadFails, TypeOK
  <2>4. visit' \in Visit \cup {0} /\ VisitsCounted' /\ (page # Nowhere => visit' # 0)
    BY <2>2, <2>3, ChatsAreTyped DEF TypeOK, Visit, VisitsCounted
  <2>5. box' \in Text \cup {Empty} /\ busy' \in {"send", "brief", "none"}
    BY <1>21 DEF LoadFails, TypeOK
  <2>6. QED
    BY <1>0, <1>c, <2>1, <2>2, <2>4, <2>5 DEF PageTyped
<1>7. ASSUME NEW a \in answers, StartAnswer(a) \/ FinishAnswer(a)
      PROVE  PageTyped' /\ CallsCarryText'
  BY <1>0, <1>7, <1>c, <1>v DEF StartAnswer, FinishAnswer, PageTyped, screen
<1>8. ASSUME Restart PROVE PageTyped' /\ CallsCarryText'
  <2> DEFINE Cut(k) == [k EXCEPT !.phase = IF k.phase \in {"sent", "admitted"}
                                           THEN "refused" ELSE k.phase]
  <2>1. \A k \in calls : /\ Cut(k) \in Call /\ Cut(k).kind = k.kind
                         /\ Cut(k).text = k.text
                         /\ Cut(k).phase \in {"refused", k.phase}
    BY <1>0 DEF TypeOK, Call
  <2>2. calls' = {Cut(k) : k \in calls}
    BY <1>8 DEF Restart
  <2> HIDE DEF Cut
  <2>3. calls' \in SUBSET Call
    BY <2>1, <2>2
  <2>4. CallsCarryText'
    BY <2>1, <2>2 DEF CallsCarryText
  <2>5. restarts' \in 0 .. MaxRestarts /\ stranded' \subseteq Chat
    BY <1>0, <1>8, ChatsAreTyped DEF Restart, TypeOK
  <2>6. UNCHANGED <<copies, page, visit, box, busy, typed, faults>>
    BY <1>8 DEF Restart, screen
  <2>7. QED
    BY <1>0, <1>v, <2>3, <2>4, <2>5, <2>6 DEF PageTyped
<1>9. ASSUME Leave PROVE PageTyped' /\ CallsCarryText'
  BY <1>0, <1>9, <1>c, <1>v DEF Leave, server, PageTyped
<1>10. ASSUME Type PROVE PageTyped' /\ CallsCarryText'
  BY <1>0, <1>1, <1>10, <1>c, <1>v DEF Type, server, PageTyped
<1>11. ASSUME Send PROVE PageTyped' /\ CallsCarryText'
  <2>1. calls' \in SUBSET Call /\ CallsCarryText'
    BY <1>0, <1>11, NewCallTyped DEF Send, OnPage, TypeOK
  <2>2. QED
    BY <1>0, <1>v, <1>11, <2>1 DEF Send, server, PageTyped
<1>12. ASSUME Brief PROVE PageTyped' /\ CallsCarryText'
  <2>1. calls' \in SUBSET Call /\ CallsCarryText'
    BY <1>0, <1>12, NewCallTyped DEF Brief, OnPage
  <2>2. QED
    BY <1>0, <1>v, <1>12, <2>1 DEF Brief, server, PageTyped
<1>13. ASSUME Poll PROVE PageTyped' /\ CallsCarryText'
  <2>1. coming' \in [Chat -> Seq(Turn)]
    BY <1>13, InvalidateTyped DEF Poll
  <2>2. QED
    BY <1>0, <1>13, <1>c, <1>v, <2>1 DEF Poll, server, screen, PageTyped
<1>14. ASSUME NEW k \in calls, Admit(k) PROVE PageTyped' /\ CallsCarryText'
  <2>1. calls' \in SUBSET Call /\ CallsCarryText'
    <3>1. CASE CanAnswer
      BY <1>14, <3>1, AdvanceKeeps DEF Admit
    <3>2. CASE ~CanAnswer
      BY <1>14, <3>2, AdvanceKeeps DEF Admit
    <3>3. QED
      BY <3>1, <3>2
  <2>2. QED
    BY <1>0, <1>v, <1>14, <2>1 DEF Admit, server, screen, PageTyped
<1>15. ASSUME NEW k \in calls, CutOff(k) PROVE PageTyped' /\ CallsCarryText'
  <2>1. calls' \in SUBSET Call /\ CallsCarryText'
    BY <1>15, AdvanceKeeps DEF CutOff
  <2>v. VisitsCounted'
    BY <1>15, ChatsAreTyped DEF CutOff, VisitsCounted, screen, TypeOK, Visit
  <2>2. QED
    BY <1>0, <1>2, <1>15, <2>1, <2>v DEF CutOff, server, screen, PageTyped
<1>16. ASSUME NEW k \in calls, NEW lost \in BOOLEAN, Store(k, lost)
       PROVE  PageTyped' /\ CallsCarryText'
  <2>1. k.kind = "send"
    BY <1>16 DEF Store, CallsCarryText
  <2>2. calls' \in SUBSET Call /\ CallsCarryText'
    <3>1. CASE lost \/ ~Accepts(k.chat)
      BY <1>16, <3>1, AdvanceKeeps DEF Store
    <3>2. CASE ~(lost \/ ~Accepts(k.chat))
      BY <1>16, <2>1, <3>2, AdvanceKeeps DEF Store
    <3>3. QED
      BY <3>1, <3>2
  <2>3. faults' \in 0 .. MaxFaults
    BY <1>2, <1>16 DEF Store, TypeOK
  <2>v. VisitsCounted'
    BY <1>16, ChatsAreTyped DEF Store, VisitsCounted, screen, TypeOK, Visit
  <2>4. QED
    BY <1>0, <1>16, <2>2, <2>3, <2>v DEF Store, screen, PageTyped
<1>17. ASSUME NEW k \in calls, SendReturns(k) PROVE PageTyped' /\ CallsCarryText'
  <2>1. k \in Call /\ k.chat \in Chat /\ k.text \in Text \cup {Empty}
    BY DEF TypeOK, Call
  <2>2. coming' \in [Chat -> Seq(Turn)]
    BY <1>17, InvalidateTyped DEF SendReturns, TypeOK
  <2>3. calls' \in SUBSET Call /\ CallsCarryText'
    BY <1>17 DEF SendReturns, TypeOK, CallsCarryText
  <2>4. box' \in Text \cup {Empty} /\ busy' \in {"send", "brief", "none"}
    BY <1>17, <2>1 DEF SendReturns, TypeOK
  <2>5. UNCHANGED <<stranded, shown, page, visit, typed, faults, restarts>>
    BY <1>17 DEF SendReturns, server
  <2>6. QED
    BY <1>0, <1>v, <2>2, <2>3, <2>4, <2>5 DEF PageTyped
<1>18. ASSUME NEW k \in calls, BriefReturns(k) PROVE PageTyped' /\ CallsCarryText'
  BY <1>0, <1>v, <1>18 DEF BriefReturns, server, PageTyped, CallsCarryText
<1>19. ASSUME UNCHANGED vars PROVE PageTyped' /\ CallsCarryText'
  BY <1>0, <1>v, <1>19, <1>c DEF vars, PageTyped
<1>20. QED
  BY <1>3, <1>4, <1>5, <1>6, <1>7, <1>8, <1>9, <1>10, <1>11, <1>12, <1>13, <1>14,
     <1>15, <1>16, <1>17, <1>18, <1>19, <1>21 DEF Next

LEMMA InvariantStep == IInv /\ [Next]_vars => IInv'
<1> SUFFICES ASSUME IInv, [Next]_vars PROVE IInv'
  OBVIOUS
<1>1. Threads' /\ PageTyped' /\ CallsCarryText'
  BY ThreadsStep, PageStep
<1>2. ThreadsTyped'
  BY <1>1 DEF Threads
<1>3. TypeOK'
  BY <1>1, <1>2 DEF TypeOK, PageTyped, ThreadsTyped
<1>4. QED
  BY <1>1, <1>3 DEF IInv, PageTyped

LEMMA InvariantHolds == Spec => []IInv
BY InitThreads, InvariantStep, PTL DEF Spec

-----------------------------------------------------------------------------

\* Every variable keeps its type; a question is never stored without a text.
THEOREM ConversationTyped == Spec => []TypeOK
<1>1. IInv => TypeOK
  BY DEF IInv
<1>2. QED
  BY <1>1, InvariantHolds, PTL

\* Whoever asks at the same time, a thread goes question, answer, question,
\* answer, and each answer is the one to the question before it.
THEOREM ThreadsAlternate == Spec => []TurnsAlternate
<1>1. IInv => TurnsAlternate
  BY DEF IInv, Threads
<1>2. QED
  BY <1>1, InvariantHolds, PTL

\* A waiting thread that no restart stranded has exactly one task, and a thread
\* that does not wait has none.
THEOREM WaitingHasOneTask == Spec => []WaitingIsWorkedOn
<1>1. IInv => WaitingIsWorkedOn
  <2> SUFFICES ASSUME IInv, NEW c \in Chat \ stranded
               PROVE  Cardinality({a \in answers : a.chat = c})
                        = IF Waiting(turns[c]) THEN 1 ELSE 0
    BY DEF WaitingIsWorkedOn
  <2>1. CASE Waiting(turns[c])
    <3>1. PICK b \in answers : b.chat = c
      BY <2>1 DEF IInv, Threads, WaitingHasAnswer
    <3>2. {a \in answers : a.chat = c} = {b}
      BY <3>1 DEF IInv, Threads, OneAnswerEach
    <3>3. QED
      BY <2>1, <3>2, FS_Singleton
  <2>2. CASE ~Waiting(turns[c])
    <3>1. {a \in answers : a.chat = c} = {}
      BY <2>2 DEF IInv, Threads, AnswersFit
    <3>2. QED
      BY <2>2, <3>1, FS_EmptySet
  <2>3. QED
    BY <2>1, <2>2
<1>2. QED
  BY <1>1, InvariantHolds, PTL

-----------------------------------------------------------------------------
(* What becomes of a question.                                             *)

\* A turn of the thread says q.
Holds(thread, q) == \E i \in 1 .. Len(thread) : thread[i].text = q

\* A call that is answered well has stored its question.
StoredIsThere ==
  \A k \in calls : k.phase = "stored" => Holds(turns[k.chat], k.text)

\* A turn at the end hides none before it.
LEMMA AppendHolds ==
  ASSUME NEW s \in Seq(Turn), NEW t \in Turn
  PROVE  /\ Holds(Append(s, t), t.text)
         /\ \A q : Holds(s, q) => Holds(Append(s, t), q)
<1>1. /\ Len(s) \in Nat /\ Len(Append(s, t)) = Len(s) + 1
      /\ Append(s, t)[Len(s) + 1] = t
      /\ \A i \in 1 .. Len(s) : Append(s, t)[i] = s[i]
  BY AppendTurn
<1>2. Len(s) + 1 \in 1 .. Len(Append(s, t))
  BY <1>1
<1>3. \A i \in 1 .. Len(s) : i \in 1 .. Len(Append(s, t))
  BY <1>1
<1>4. QED
  BY <1>1, <1>2, <1>3 DEF Holds

\* A question put to a thread is there, and what was there before is too.
LEMMA AsksHolds ==
  ASSUME ThreadsTyped, NEW STATE c, c \in Chat, NEW STATE q, q \in Text, Asks(c, q)
  PROVE  /\ Holds(turns'[c], q)
         /\ \A d \in Chat : \A p : Holds(turns[d], p) => Holds(turns'[d], p)
<1>1. PersonTurn(q) \in Turn /\ PersonTurn(q).text = q
  BY DEF PersonTurn, Turn
<1>2. turns[c] \in Seq(Turn)
  BY DEF ThreadsTyped
<1>3. \A d \in Chat : turns'[d] = IF d = c THEN Append(turns[c], PersonTurn(q)) ELSE turns[d]
  BY DEF Asks, ThreadsTyped
<1>4. QED
  BY <1>1, <1>2, <1>3, AppendHolds

\* Nor does an answer hide anything.
LEMMA ReplyHolds ==
  ASSUME ThreadsTyped, NEW STATE a, a \in answers,
         NEW STATE role, role \in {"agent", "failed"}, Reply(a, role)
  PROVE  \A d \in Chat : \A p : Holds(turns[d], p) => Holds(turns'[d], p)
<1> DEFINE t == [role |-> role, text |-> a.text]
<1>1. a.chat \in Chat /\ a.text \in Text
  BY DEF ThreadsTyped, AnswerTask
<1>2. t \in Turn
  BY <1>1 DEF Turn
<1>3. turns[a.chat] \in Seq(Turn)
  BY <1>1 DEF ThreadsTyped
<1>4. \A d \in Chat : turns'[d] = IF d = a.chat THEN Append(turns[a.chat], t) ELSE turns[d]
  BY DEF Reply, ThreadsTyped
<1> HIDE DEF t
<1>5. QED
  BY <1>2, <1>3, <1>4, AppendHolds

\* Threads only grow.
LEMMA ThreadsGrow ==
  ASSUME IInv, [Next]_vars
  PROVE  \A d \in Chat : \A p : Holds(turns[d], p) => Holds(turns'[d], p)
<1> DEFINE Grows == \A d \in Chat : \A p : Holds(turns[d], p) => Holds(turns'[d], p)
<1>1. typed < MaxTexts => typed + 1 \in Text
  BY ChatsAreTyped DEF IInv, TypeOK, Text
<1>2. ThreadsTyped
  BY DEF IInv, Threads
<1>3. ASSUME NEW c \in Chat, OpenChat(c) \/ AskElsewhere(c) PROVE Grows
  <2>1. Asks(c, typed + 1) /\ typed + 1 \in Text
    BY <1>1, <1>3 DEF OpenChat, AskElsewhere
  <2>2. QED
    BY <1>2, <2>1, AsksHolds
<1>4. ASSUME NEW a \in answers, StartAnswer(a) \/ FinishAnswer(a) PROVE Grows
  <2>1. UNCHANGED turns \/ \E role \in {"agent", "failed"} : Reply(a, role)
    BY <1>4 DEF StartAnswer, FinishAnswer
  <2>2. QED
    BY <1>2, <2>1, ReplyHolds
<1>5. ASSUME NEW k \in calls, NEW lost \in BOOLEAN, Store(k, lost) PROVE Grows
  <2>1. k.chat \in Chat /\ k.text \in Text
    BY <1>5 DEF IInv, TypeOK, Call, Store, CallsCarryText
  <2>2. UNCHANGED turns \/ Asks(k.chat, k.text)
    BY <1>5 DEF Store
  <2>3. QED
    BY <1>2, <2>1, <2>2, AsksHolds
<1>6. ASSUME UNCHANGED turns PROVE Grows
  BY <1>6
<1> HIDE DEF Grows
<1>7. Grows
  BY <1>3, <1>4, <1>5, <1>6
     DEF Next, Open, Reload, Read, Land, LoadFails, Restart, Leave, Type, Send, Brief,
         Poll, Admit, CutOff, SendReturns, BriefReturns, server, vars
<1>8. QED
  BY <1>7 DEF Grows

\* The calls that are stored after a step were stored before it, or are stored by it.
LEMMA StoredStep ==
  ASSUME IInv, StoredIsThere, [Next]_vars
  PROVE  StoredIsThere'
<1>1. \A d \in Chat : \A p : Holds(turns[d], p) => Holds(turns'[d], p)
  BY ThreadsGrow
<1>2. calls \subseteq Call
  BY DEF IInv, TypeOK
<1>3. \A k \in Call : k.chat \in Chat
  BY DEF Call
<1>4. ASSUME \A l \in calls' : l.phase = "stored" => l \in calls PROVE StoredIsThere'
  <2>1. \A l \in calls' : l.phase = "stored" => Holds(turns'[l.chat], l.text)
    BY <1>1, <1>2, <1>3, <1>4 DEF StoredIsThere
  <2>2. QED
    BY <2>1 DEF StoredIsThere, Holds
<1>5. ASSUME Restart PROVE StoredIsThere'
  <2> DEFINE Cut(k) == [k EXCEPT !.phase = IF k.phase \in {"sent", "admitted"}
                                           THEN "refused" ELSE k.phase]
  <2>1. ASSUME NEW k \in calls, Cut(k).phase = "stored" PROVE Cut(k) = k
    BY <1>2, <2>1 DEF Call
  <2>2. calls' = {Cut(k) : k \in calls}
    BY <1>5 DEF Restart
  <2> HIDE DEF Cut
  <2>3. QED
    BY <1>4, <2>1, <2>2
<1>6. ASSUME NEW k \in calls, NEW phase, phase # "stored", Advance(k, phase)
      PROVE  StoredIsThere'
  <2> DEFINE m == [k EXCEPT !.phase = phase]
  <2>1. m.phase = phase
    BY <1>2 DEF Call
  <2>2. calls' = (calls \ {k}) \cup {m}
    BY <1>6 DEF Advance
  <2> HIDE DEF m
  <2>3. QED
    BY <1>4, <1>6, <2>1, <2>2
<1>7. ASSUME NEW k \in calls, Admit(k) \/ CutOff(k) PROVE StoredIsThere'
  <2>1. Advance(k, "admitted") \/ Advance(k, "refused")
    BY <1>7 DEF Admit, CutOff
  <2>2. QED
    BY <1>6, <2>1
<1>8. ASSUME NEW k \in calls, NEW lost \in BOOLEAN, Store(k, lost) PROVE StoredIsThere'
  <2>1. CASE lost \/ ~Accepts(k.chat)
    BY <1>6, <1>8, <2>1 DEF Store
  <2>2. CASE ~(lost \/ ~Accepts(k.chat))
    <3> DEFINE m == [k EXCEPT !.phase = "stored"]
    <3>1. k.chat \in Chat /\ k.text \in Text
      BY <1>8 DEF IInv, TypeOK, Call, Store, CallsCarryText
    <3>2. m.chat = k.chat /\ m.text = k.text
      BY <1>2 DEF Call
    <3>3. calls' = (calls \ {k}) \cup {m} /\ Asks(k.chat, k.text)
      BY <1>8, <2>2 DEF Store, Advance
    <3> HIDE DEF m
    <3>4. Holds(turns'[k.chat], k.text)
      BY <3>1, <3>3, AsksHolds DEF IInv, Threads
    <3>5. \A l \in calls' : l.phase = "stored" => Holds(turns'[l.chat], l.text)
      BY <1>1, <1>2, <1>3, <3>2, <3>3, <3>4 DEF StoredIsThere
    <3>6. QED
      BY <3>5 DEF StoredIsThere, Holds
  <2>3. QED
    BY <2>1, <2>2
<1>9. ASSUME NEW kind, NEW q, calls' = calls \cup {NewCall(kind, q)} PROVE StoredIsThere'
  <2>1. NewCall(kind, q).phase = "sent"
    BY DEF NewCall
  <2>2. QED
    BY <1>4, <1>9, <2>1
<1>10. CASE Send \/ Brief
  BY <1>9, <1>10 DEF Send, Brief
<1>11. ASSUME calls' \subseteq calls PROVE StoredIsThere'
  BY <1>4, <1>11
<1>12. ASSUME NEW k \in calls, SendReturns(k) \/ BriefReturns(k) PROVE StoredIsThere'
  BY <1>11, <1>12 DEF SendReturns, BriefReturns
<1>13. CASE \E c \in Chat : \/ OpenChat(c) \/ AskElsewhere(c) \/ Open(c) \/ Reload(c)
                            \/ Read(c) \/ Land(c) \/ LoadFails(c)
  BY <1>11, <1>13 DEF OpenChat, AskElsewhere, Open, Reload, Read, Land, LoadFails
<1>14. CASE Leave \/ Type \/ Poll
  BY <1>11, <1>14 DEF Leave, Type, Poll
<1>15. CASE \E a \in answers : StartAnswer(a) \/ FinishAnswer(a)
  BY <1>11, <1>15 DEF StartAnswer, FinishAnswer
<1>16. CASE UNCHANGED vars
  BY <1>11, <1>16 DEF vars
<1>17. QED
  BY <1>5, <1>7, <1>8, <1>10, <1>12, <1>13, <1>14, <1>15, <1>16 DEF Next

\* A call under way is replaced by one that carries its text.
LEMMA CallGoesOn ==
  ASSUME IInv, NEW STATE k, k \in calls, NEW STATE j, j \in calls,
         NEW STATE phase, Advance(j, phase), k \notin calls'
  PROVE  \E l \in calls' : l.kind = k.kind /\ l.text = k.text
<1> DEFINE m == [j EXCEPT !.phase = phase]
<1>1. m.kind = j.kind /\ m.text = j.text
  BY DEF IInv, TypeOK, Call
<1>2. calls' = (calls \ {j}) \cup {m}
  BY DEF Advance
<1> HIDE DEF m
<1>3. k = j
  BY <1>2
<1>4. QED
  BY <1>1, <1>2, <1>3

\* What one step does to a question that was sent.
LEMMA QuestionStep ==
  ASSUME IInv, StoredIsThere, [Next]_vars, NEW STATE k, k \in calls,
         k.kind = "send", k \notin calls', Here(k), page' = page,
         ~\E l \in calls' : l.kind = "send" /\ l.text = k.text
  PROVE  box' = k.text \/ Holds(turns'[k.chat], k.text)
<1>1. k \in Call /\ k.chat \in Chat
  BY DEF IInv, TypeOK, Call
<1>2. CASE SendReturns(k)
  <2>1. CASE k.phase = "refused"
    BY <1>2, <2>1 DEF SendReturns
  <2>2. CASE k.phase = "stored"
    <3>1. turns' = turns
      BY <1>2 DEF SendReturns, server
    <3>2. QED
      BY <2>2, <3>1 DEF StoredIsThere
  <2>3. QED
    BY <1>2, <2>1, <2>2 DEF SendReturns
<1>3. ASSUME NEW j \in calls, SendReturns(j), j # k PROVE FALSE
  BY <1>3 DEF SendReturns
<1>4. ASSUME NEW j \in calls, BriefReturns(j) PROVE FALSE
  BY <1>4, ChatsAreTyped DEF BriefReturns, Here
<1>5. ASSUME NEW j \in calls, Admit(j) \/ CutOff(j) PROVE FALSE
  <2>1. Advance(j, "admitted") \/ Advance(j, "refused")
    BY <1>5 DEF Admit, CutOff
  <2>2. QED
    BY <2>1, CallGoesOn
<1>6. ASSUME NEW j \in calls, NEW lost \in BOOLEAN, Store(j, lost) PROVE FALSE
  <2>1. Advance(j, "stored") \/ Advance(j, "refused")
    BY <1>6 DEF Store
  <2>2. QED
    BY <2>1, CallGoesOn
<1>7. ASSUME Restart PROVE FALSE
  <2> DEFINE m == [k EXCEPT !.phase = IF k.phase \in {"sent", "admitted"}
                                      THEN "refused" ELSE k.phase]
  <2>1. m.kind = k.kind /\ m.text = k.text
    BY <1>1 DEF Call
  <2>2. m \in calls'
    BY <1>7 DEF Restart
  <2> HIDE DEF m
  <2>3. QED
    BY <2>1, <2>2
<1>8. ASSUME calls \subseteq calls' PROVE FALSE
  BY <1>8
<1>9. ~(Send \/ Brief \/ Leave \/ Type \/ Poll)
  BY <1>8 DEF Send, Brief, Leave, Type, Poll
<1>10. ~\E c \in Chat : \/ OpenChat(c) \/ AskElsewhere(c) \/ Open(c) \/ Reload(c)
                        \/ Read(c) \/ Land(c) \/ LoadFails(c)
  BY <1>8 DEF OpenChat, AskElsewhere, Open, Reload, Read, Land, LoadFails
<1>11. ~\E a \in answers : StartAnswer(a) \/ FinishAnswer(a)
  BY <1>8 DEF StartAnswer, FinishAnswer
<1>12. ~UNCHANGED vars
  BY <1>8 DEF vars
<1>13. QED
  BY <1>2, <1>3, <1>4, <1>5, <1>6, <1>7, <1>9, <1>10, <1>11, <1>12 DEF Next

\* A question the page took from its box is in its thread, still under way, or back
\* in the box, as long as the person stays on the page.
THEOREM QuestionsAreKept == Spec => QuestionKept
<1>1. Init => StoredIsThere
  BY DEF Init, StoredIsThere
<1>2. IInv /\ StoredIsThere /\ [Next]_vars => StoredIsThere'
  BY StoredStep
<1>3. IInv /\ StoredIsThere /\ [Next]_vars =>
        [\A k \in calls :
          (k.kind = "send" /\ k \notin calls' /\ Here(k) /\ page' = page
             /\ ~\E l \in calls' : l.kind = "send" /\ l.text = k.text) =>
          \/ box' = k.text
          \/ \E i \in 1 .. Len(turns'[k.chat]) : turns'[k.chat][i].text = k.text]_vars
  BY QuestionStep DEF Holds
<1>4. QED
  BY <1>1, <1>2, <1>3, InvariantHolds, PTL DEF Spec, QuestionKept

=============================================================================
